-------------------------------- MODULE Paths --------------------------------
(***************************************************************************)
(* Pathname parsing, resolution and construction (pkg/filesystem/path).    *)
(*                                                                         *)
(* A pathname string is a sequence of tokens: separators, characters that  *)
(* are special to Windows, and names.  A pathname component is the         *)
(* sequence of tokens between two separators.                              *)
(*                                                                         *)
(* ScopeWalkers and ComponentWalkers are records whose type says which     *)
(* implementation they are; decorators hold the walker they decorate as    *)
(* base.  What walkers share and update through pointers, the Builder and  *)
(* the nodes of a virtual root that is being created, is threaded through  *)
(* the calls as m = [builder, nodes].                                      *)
(***************************************************************************)
EXTENDS Integers, Sequences, SequencesExt, FiniteSetsExt

CONSTANTS
  MaximumSymlinks,    \* how many symlinks loop detection lets pass
  DriveLetterOf,      \* the letters, and the drive letters they denote
  IsUNC               \* the tokens that equal UNC regardless of their case

RECURSIVE Walk(_, _, _)
RECURSIVE ResolveStack(_, _, _)

-----------------------------------------------------------------------------
(* Components. *)

Dot == <<".">>
DotDot == <<"..">>

NewComponent(name) == name \notin {<<>>, Dot, DotDot} /\ ~Contains(name, "/") /\ ~Contains(name, "NUL")

ReservedOnWindows == {"<", ">", ":", "\"", "/", "\\", "|", "?", "*"}

ValidateWindowsComponent(name) == ToSet(name) \cap (ReservedOnWindows \cup {"NUL"}) = {}

-----------------------------------------------------------------------------
(* Parsing.  What a path starts with, and what follows it. *)

Scope(type) == [type |-> type, drive |-> "", share |-> <<>>]

Parsed(scope, rest) == [code |-> "OK", scope |-> scope, rest |-> rest]

InvalidScope == [code |-> "InvalidArgument"]

From(path, i) == SubSeq(path, i, Len(path))

StripSeparators(path, separators) ==
  From(path, Min({i \in 1 .. Len(path) + 1 : i > Len(path) \/ path[i] \notin separators}))

UNIXRest(path) == [format |-> "unix", path |-> path]
WindowsRest(path) == [format |-> "windows", path |-> path]

UNIXParseScope(path) ==
  CASE Contains(path, "NUL") -> InvalidScope
    [] ~Contains(path, "NUL") /\ path # <<>> /\ path[1] = "/" ->
         Parsed(Scope("absolute"), UNIXRest(StripSeparators(path, {"/"})))
    [] OTHER -> Parsed(Scope("relative"), UNIXRest(path))

WindowsSeparators == {"/", "\\"}

(* The server, the share, and the rest, all separated. *)
ParseUNCPath(path) ==
  LET separators == {i \in DOMAIN path : path[i] \in WindowsSeparators}
      first      == Min(separators)
      second     == Min(separators \ {first})
  IN  IF Cardinality(separators) >= 2 /\ first > 1 /\ second > first + 1
      THEN Parsed([Scope("share") EXCEPT !.share = <<SubSeq(path, 1, first - 1), SubSeq(path, first + 1, second - 1)>>],
                  WindowsRest(From(path, second + 1)))
      ELSE InvalidScope

NamespacePrefixes == {<<"\\", "\\", "?", "\\">>, <<"\\", "?", "?", "\\">>, <<"\\", "\\", ".", "\\">>}

WindowsParseScope(whole) ==
  LET hasPrefix == Len(whole) >= 4 /\ SubSeq(whole, 1, 4) \in NamespacePrefixes
      path      == IF hasPrefix THEN From(whole, 5) ELSE whole
      Separator(i) == Len(path) >= i /\ path[i] \in WindowsSeparators
  IN  CASE hasPrefix /\ Len(path) >= 2 /\ path[1] \in IsUNC /\ path[2] = "\\" -> ParseUNCPath(From(path, 3))
        [] Len(path) >= 2 /\ path[1] \in DOMAIN DriveLetterOf /\ path[2] = ":" ->
             Parsed([Scope("drive") EXCEPT !.drive = DriveLetterOf[path[1]]],
                    WindowsRest(StripSeparators(From(path, 3), WindowsSeparators)))
        [] Separator(1) /\ Separator(2) -> ParseUNCPath(From(path, 3))
        [] Separator(1) /\ ~Separator(2) ->
             Parsed(Scope("absolute"), WindowsRest(StripSeparators(path, WindowsSeparators)))
        [] OTHER -> Parsed(Scope("relative"), WindowsRest(path))

BuilderParseScope(b) ==
  Parsed(CASE b.drive # "" -> [Scope("drive") EXCEPT !.drive = b.drive]
           [] b.drive = "" /\ b.share # <<>> -> [Scope("share") EXCEPT !.share = b.share]
           [] OTHER -> Scope(IF b.absolute THEN "absolute" ELSE "relative"),
         [format |-> "builder", components |-> b.components, lastIsDirectory |-> b.suffix # <<>>])

ParseScope(parser) ==
  CASE parser.format = "unix"    -> UNIXParseScope(parser.path)
    [] parser.format = "windows" -> WindowsParseScope(parser.path)
    [] parser.format = "builder" -> BuilderParseScope(parser.builder)

(* The first component of a relative path: the call to make against the    *)
(* ComponentWalker, and the rest of the path, if any.                      *)
Call(method, name, remainder) == [code |-> "OK", method |-> method, name |-> name, remainder |-> remainder]

SplitFirst(path, separators) ==
  LET at == {i \in DOMAIN path : path[i] \in separators}
  IN  IF at = {} THEN [name |-> path, remainder |-> <<>>]
      ELSE [name |-> SubSeq(path, 1, Min(at) - 1),
            remainder |-> <<StripSeparators(From(path, Min(at)), separators)>>]

UNIXParseFirstComponent(path, mustBeDirectory) ==
  LET first == SplitFirst(path, {"/"})
      rest  == [i \in DOMAIN first.remainder |-> UNIXRest(first.remainder[i])]
  IN  CASE first.name \in {<<>>, Dot} -> Call("none", <<>>, rest)
        [] first.name = DotDot -> Call("up", <<>>, rest)
        [] OTHER -> Call(IF mustBeDirectory \/ rest # <<>> THEN "directory" ELSE "terminal", first.name, rest)

WindowsParseFirstComponent(path, mustBeDirectory) ==
  LET first == SplitFirst(path, WindowsSeparators)
      rest  == [i \in DOMAIN first.remainder |-> WindowsRest(first.remainder[i])]
  IN  CASE first.name \in {<<>>, Dot} -> Call("none", <<>>, rest)
        [] first.name = DotDot -> Call("up", <<>>, rest)
        [] OTHER ->
             IF ~ValidateWindowsComponent(first.name) THEN [code |-> "InvalidArgument"]
             ELSE Call(IF mustBeDirectory \/ rest # <<>> THEN "directory" ELSE "terminal", first.name, rest)

BuilderParseFirstComponent(rp, mustBeDirectory) ==
  LET rest == <<[rp EXCEPT !.components = Tail(@)]>>
  IN  CASE rp.components = <<>> -> Call("none", <<>>, <<>>)
        [] rp.components # <<>> /\ Head(rp.components) = DotDot -> Call("up", <<>>, rest)
        [] OTHER -> IF Len(rp.components) > 1 \/ rp.lastIsDirectory \/ mustBeDirectory
                    THEN Call("directory", Head(rp.components), rest)
                    ELSE Call("terminal", Head(rp.components), <<>>)

ParseFirstComponent(rp, mustBeDirectory) ==
  CASE rp.format = "unix"    -> UNIXParseFirstComponent(rp.path, mustBeDirectory)
    [] rp.format = "windows" -> WindowsParseFirstComponent(rp.path, mustBeDirectory)
    [] rp.format = "builder" -> BuilderParseFirstComponent(rp, mustBeDirectory)

-----------------------------------------------------------------------------
(* Builder. *)

NewBuilder(absolute, drive, share, suffix) ==
  [absolute |-> absolute, drive |-> drive, share |-> share, components |-> <<>>,
   firstReversibleIndex |-> 0, suffix |-> suffix]

EmptyBuilder == NewBuilder(FALSE, "", <<>>, Dot)
RootBuilder == NewBuilder(TRUE, "", <<>>, <<"/">>)

Joined(components, first, separator) ==
  FlattenSeq([i \in DOMAIN components |-> (IF i = 1 THEN first ELSE separator) \o components[i]])

GetUNIXString(b) == Joined(b.components, IF b.absolute THEN <<"/">> ELSE <<>>, <<"/">>) \o b.suffix

GetWindowsString(b, device) ==
  LET prefix == CASE b.drive # "" -> (IF device THEN <<"\\", "?", "?", "\\">> ELSE <<>>) \o <<b.drive, ":">>
                  [] b.drive = "" /\ b.share # <<>> ->
                       (IF device THEN <<"\\", "?", "?", "\\", "UNC", "\\">> ELSE <<"\\", "\\">>)
                         \o b.share[1] \o <<"\\">> \o b.share[2]
                  [] OTHER -> <<>>
      rooted == b.drive # "" \/ b.share # <<>> \/ b.absolute
      suffix == CASE b.suffix # <<"/">> -> b.suffix
                  [] b.suffix = <<"/">> -> IF device THEN <<"\\">> ELSE <<"\\", ".">>
  IN  IF \A i \in DOMAIN b.components : ValidateWindowsComponent(b.components[i])
      THEN [code |-> "OK",
            path |-> prefix \o Joined(b.components, IF rooted THEN <<"\\">> ELSE <<>>, <<"\\">>) \o suffix]
      ELSE [code |-> "InvalidArgument", path |-> <<>>]

WindowsPathKind(b) ==
  CASE b.drive # "" \/ b.share # <<>> -> "Absolute"
    [] b.drive = "" /\ b.share = <<>> -> IF b.absolute THEN "DriveRelative" ELSE "Relative"

AddTrailingSlash(b) ==
  [b EXCEPT !.suffix = CASE b.components = <<>> -> IF b.absolute THEN <<"/">> ELSE Dot
                         [] b.components # <<>> -> IF Last(b.components) = DotDot THEN <<>> ELSE <<"/">>]

(* The Builder of a path relative to another one. *)
Join(b) == AddTrailingSlash(b)

BuilderOnScope(b, s) ==
  CASE s.type = "relative" -> b
    [] s.type = "absolute" -> NewBuilder(TRUE, b.drive, <<>>, <<"/">>)
    [] s.type = "drive"    -> NewBuilder(TRUE, s.drive, <<>>, <<"/">>)
    [] s.type = "share"    -> NewBuilder(TRUE, "", s.share, <<"/">>)

BuilderOnDirectory(b, name, isReversible) ==
  [b EXCEPT !.components = Append(@, name), !.suffix = <<"/">>,
            !.firstReversibleIndex = IF isReversible THEN @ ELSE Len(b.components) + 1]

BuilderOnTerminal(b, name) ==
  [b EXCEPT !.components = Append(@, name), !.suffix = <<>>, !.firstReversibleIndex = Len(b.components) + 1]

(* Mutant: every component is removed by a "..", be it reversible or not. *)
BuilderOnUpLexical(b) ==
  CASE b.components = <<>> /\ b.absolute -> b
    [] b.components # <<>> /\ Last(b.components) # DotDot ->
         AddTrailingSlash([b EXCEPT !.components = Front(@)])
    [] OTHER -> BuilderOnTerminal(b, DotDot)

BuilderOnUp(b) ==
  CASE b.absolute /\ b.components = <<>> -> b
    [] ~(b.absolute /\ b.components = <<>>) /\ b.firstReversibleIndex < Len(b.components) ->
         AddTrailingSlash([b EXCEPT !.components = Front(@)])
    [] OTHER -> BuilderOnTerminal(b, DotDot)

(* Trace: a relative path that consists of names. *)
TraceGetUNIXString(t) == IF t = <<>> THEN Dot ELSE Joined(t, <<>>, <<"/">>)

TraceGetWindowsString(t) ==
  CASE t = <<>> -> [code |-> "OK", path |-> Dot]
    [] t # <<>> -> IF \A i \in DOMAIN t : ValidateWindowsComponent(t[i])
                   THEN [code |-> "OK", path |-> Joined(t, <<>>, <<"\\">>)]
                   ELSE [code |-> "InvalidArgument", path |-> <<>>]

-----------------------------------------------------------------------------
(* Walkers.  Calls yield a directory to continue in, a symlink to expand,  *)
(* or nothing, if the last component was resolved to any other file.       *)

GotDirectory(cw, m, isReversible) ==
  [code |-> "OK", type |-> "directory", cw |-> cw, isReversible |-> isReversible, m |-> m]
GotSymlink(parent, target, m) == [code |-> "OK", type |-> "symlink", parent |-> parent, target |-> target, m |-> m]
GotTerminal(cw, m) == [code |-> "OK", type |-> "terminal", cw |-> cw, m |-> m]
GotError(code, m) == [code |-> code, type |-> "error", m |-> m]

Void == [type |-> "void"]
NewRelativeScopeWalker(cw) == [type |-> "relative", cw |-> cw]
NewAbsoluteScopeWalker(cw) == [type |-> "absolute", cw |-> cw]
NewLoopDetectingScopeWalker(base) == [type |-> "loop", base |-> base, left |-> MaximumSymlinks]
GetScopeWalker(base) == [type |-> "building", base |-> base]

(* The methods of the interfaces ScopeWalker and ComponentWalker. *)
OnScope(w, m, s) == Walk(w, m, [method |-> "OnScope", scope |-> s])
OnDirectory(cw, m, name) == Walk(cw, m, [method |-> "OnDirectory", name |-> name])
OnTerminal(cw, m, name) == Walk(cw, m, [method |-> "OnTerminal", name |-> name])
OnUp(cw, m) == Walk(cw, m, [method |-> "OnUp"])

TerminalOf(r) == IF r.type = "directory" THEN GotTerminal(r.cw, r.m) ELSE r

OnTerminalViaOnDirectory(cw, m, name) == TerminalOf(OnDirectory(cw, m, name))

(* The directory or file that a decorator's base yields, decorated. *)
Decorate(r, cw) ==
  CASE r.type \in {"directory", "terminal"} -> [r EXCEPT !.cw = [cw EXCEPT !.base = r.cw]]
    [] r.type = "error" -> r

(* Loop detection counts down the symlinks that are expanded. *)
LoopDetectingWrap(cw, r) ==
  CASE r.type # "symlink" -> Decorate(r, cw)
    [] r.type = "symlink" -> IF cw.left = 0 THEN GotError("InvalidArgument", r.m)
                             ELSE [r EXCEPT !.parent = [type |-> "loop", base |-> @, left |-> cw.left - 1]]

(* The Builder records what was resolved. *)
BuildingWrap(cw, r, name) ==
  CASE r.type = "directory" -> [Decorate(r, cw) EXCEPT !.m.builder = BuilderOnDirectory(@, name, r.isReversible)]
    [] r.type = "terminal"  -> [Decorate(r, cw) EXCEPT !.m.builder = BuilderOnTerminal(@, name)]
    [] r.type = "symlink"   -> [r EXCEPT !.parent = GetScopeWalker(@)]
    [] r.type = "error"     -> r

BuildingWrapScope(r, s) == IF r.type = "error" THEN r ELSE [r EXCEPT !.m.builder = BuilderOnScope(@, s)]

BuildingWrapUp(r) == IF r.type = "error" THEN r ELSE [r EXCEPT !.m.builder = BuilderOnUp(@)]

(* virtualRootNodeCreator: the nodes are the paths that were visited. *)
CreatorOnDirectory(cw, m, name) ==
  LET node == Append(cw.node, name)
  IN  IF node \in m.nodes.paths /\ (<<node>> = m.nodes.root \/ node \in DOMAIN m.nodes.aliases)
      THEN GotError("InvalidArgument", m)
      ELSE GotDirectory([cw EXCEPT !.node = node, !.named = TRUE], [m EXCEPT !.nodes.paths = @ \cup {node}], FALSE)

CreatorOnUp(cw, m) ==
  LET node == Append(cw.node, DotDot)
  IN  GotDirectory([cw EXCEPT !.node = node, !.named = FALSE], [m EXCEPT !.nodes.paths = @ \cup {node}], FALSE)

(* Outside of the underlying root directory, only registered paths lead    *)
(* anywhere.                                                               *)
InUnderlyingRoot(w, r) ==
  IF r.type = "error" THEN r
  ELSE GotDirectory([type |-> "finished", base |-> r.cw, nodes |-> w.nodes], r.m, FALSE)

VirtualRootGetComponentWalker(w, m, node) ==
  IF <<node>> # w.nodes.root
  THEN GotDirectory([type |-> "pending", walker |-> w, node |-> node], m, FALSE)
  ELSE InUnderlyingRoot(w, OnScope(w.base, m, Scope("absolute")))

VirtualRootOnScope(w, m, s) ==
  IF s.type = "relative" THEN InUnderlyingRoot(w, OnScope(w.base, m, s))
                         ELSE VirtualRootGetComponentWalker(w, m, <<>>)

PendingOnDirectory(cw, m, name) ==
  LET node == Append(cw.node, name)
  IN  CASE node \notin cw.walker.nodes.paths -> GotDirectory(Void, m, FALSE)
        [] node \in DOMAIN cw.walker.nodes.aliases ->
             GotSymlink(cw.walker, [format |-> "builder", builder |-> cw.walker.nodes.aliases[node]], m)
        [] OTHER -> VirtualRootGetComponentWalker(cw.walker, m, node)

PendingOnUp(cw, m) ==
  LET node == Append(cw.node, DotDot)
  IN  IF node \in cw.walker.nodes.paths THEN VirtualRootGetComponentWalker(cw.walker, m, node)
      ELSE GotDirectory(Void, m, FALSE)

FinishedWrap(cw, r) ==
  CASE r.type # "symlink" -> Decorate(r, cw)
    [] r.type = "symlink" -> [r EXCEPT !.parent = [type |-> "virtual", base |-> @, nodes |-> cw.nodes]]

(* A walker of an actual file system: a function of the paths that exist,  *)
(* in which ".." of the root directory is the root directory.              *)
FileSystemOnScope(w, m, s) ==
  GotDirectory([w EXCEPT !.dir = IF s.type = "relative" THEN @ ELSE <<>>], m, TRUE)

FileSystemLookup(cw, m, name, terminal) ==
  LET path == Append(cw.dir, name)
  IN  CASE path \notin DOMAIN cw.files -> GotError("NotFound", m)
        [] path \in DOMAIN cw.files /\ cw.files[path].type = "symlink" -> GotSymlink(cw, cw.files[path].target, m)
        [] path \in DOMAIN cw.files /\ cw.files[path].type = "directory" ->
             IF terminal THEN GotTerminal([cw EXCEPT !.dir = path], m)
                         ELSE GotDirectory([cw EXCEPT !.dir = path], m, TRUE)
        [] OTHER -> IF terminal THEN GotTerminal([cw EXCEPT !.dir = path], m) ELSE GotError("NotADirectory", m)

FileSystemOnUp(cw, m) ==
  GotDirectory([cw EXCEPT !.dir = IF @ = <<>> THEN <<>> ELSE Front(@)], m, TRUE)

OnScopeOf(w, m, s) ==
  CASE w.type = "void"     -> GotDirectory(Void, m, FALSE)
    [] w.type = "relative" -> IF s.type = "relative" THEN GotDirectory(w.cw, m, FALSE) ELSE GotError("InvalidArgument", m)
    [] w.type = "absolute" -> IF s.type # "relative" THEN GotDirectory(w.cw, m, FALSE) ELSE GotError("InvalidArgument", m)
    [] w.type = "loop"     -> Decorate(OnScope(w.base, m, s), w)
    [] w.type = "building" -> BuildingWrapScope(Decorate(OnScope(w.base, m, s), w), s)
    [] w.type = "virtual"  -> VirtualRootOnScope(w, m, s)
    [] w.type = "files"    -> FileSystemOnScope(w, m, s)

OnDirectoryOf(cw, m, name) ==
  CASE cw.type = "void"     -> GotDirectory(Void, m, FALSE)
    [] cw.type = "loop"     -> LoopDetectingWrap(cw, OnDirectory(cw.base, m, name))
    [] cw.type = "building" -> BuildingWrap(cw, OnDirectory(cw.base, m, name), name)
    [] cw.type = "creator"  -> CreatorOnDirectory(cw, m, name)
    [] cw.type = "pending"  -> PendingOnDirectory(cw, m, name)
    [] cw.type = "finished" -> FinishedWrap(cw, OnDirectory(cw.base, m, name))
    [] cw.type = "files"    -> FileSystemLookup(cw, m, name, FALSE)

OnTerminalOf(cw, m, name) ==
  CASE cw.type = "void"     -> GotTerminal(Void, m)
    [] cw.type = "loop"     -> LoopDetectingWrap(cw, OnTerminal(cw.base, m, name))
    [] cw.type = "building" -> BuildingWrap(cw, OnTerminal(cw.base, m, name), name)
    [] cw.type \in {"creator", "pending"} -> OnTerminalViaOnDirectory(cw, m, name)
    [] cw.type = "finished" -> FinishedWrap(cw, OnTerminal(cw.base, m, name))
    [] cw.type = "files"    -> FileSystemLookup(cw, m, name, TRUE)

OnUpOf(cw, m) ==
  CASE cw.type = "void"     -> GotDirectory(Void, m, FALSE)
    [] cw.type \in {"loop", "finished"} -> Decorate(OnUp(cw.base, m), cw)
    [] cw.type = "building" -> BuildingWrapUp(Decorate(OnUp(cw.base, m), cw))
    [] cw.type = "creator"  -> CreatorOnUp(cw, m)
    [] cw.type = "pending"  -> PendingOnUp(cw, m)
    [] cw.type = "files"    -> FileSystemOnUp(cw, m)

Walk(w, m, call) ==
  CASE call.method = "OnScope"     -> OnScopeOf(w, m, call.scope)
    [] call.method = "OnDirectory" -> OnDirectoryOf(w, m, call.name)
    [] call.method = "OnTerminal"  -> OnTerminalOf(w, m, call.name)
    [] call.method = "OnUp"        -> OnUpOf(w, m)

-----------------------------------------------------------------------------
(* Resolution, with a stack of the paths that remain to be processed. *)

Enter(stack, r) == IF r.type = "error" THEN r ELSE ResolveStack(stack, r.cw, r.m)

PushParsed(stack, w, p, m) ==
  IF p.code # "OK" THEN GotError(p.code, m) ELSE Enter(Append(stack, p.rest), OnScope(w, m, p.scope))

Push(stack, w, parser, m) == PushParsed(stack, w, ParseScope(parser), m)

Visit(call, cw, m) ==
  CASE call.method = "none"      -> GotDirectory(cw, m, FALSE)
    [] call.method = "up"        -> OnUp(cw, m)
    [] call.method = "directory" -> OnDirectory(cw, m, call.name)
    [] call.method = "terminal"  -> OnTerminal(cw, m, call.name)

(* A path in a Builder yields symlinks that its last component refers to   *)
(* in a form that is not accepted.                                         *)
Unaccepted(parser, call) == parser.format = "builder" /\ call.method = "terminal"

(* What follows once the first component of the path on top was visited. *)
Continue(stack, call, r) ==
  LET rest == Front(stack) \o call.remainder
  IN  CASE r.type = "error" -> r
        [] r.type = "directory" -> ResolveStack(rest, r.cw, r.m)
        [] r.type = "symlink" ->
             IF Unaccepted(Last(stack), call) THEN GotError("Panic", r.m) ELSE Push(rest, r.parent, r.target, r.m)
        [] r.type = "terminal" -> IF rest = <<>> THEN r ELSE GotError("Panic", r.m)

ResolveFirst(stack, call, cw, m) ==
  IF call.code # "OK" THEN GotError(call.code, m) ELSE Continue(stack, call, Visit(call, cw, m))

ResolveStack(stack, cw, m) ==
  IF stack = <<>>
  THEN GotDirectory(cw, m, FALSE)
  ELSE ResolveFirst(stack, ParseFirstComponent(Last(stack), Len(stack) > 1), cw, m)

Resolve(parser, w, m) == Push(<<>>, w, parser, m)

-----------------------------------------------------------------------------
(* VirtualRootScopeWalkerFactory. *)

Creator == [type |-> "creator", node |-> <<>>, named |-> FALSE]

NoNodes == [paths |-> {<<>>}, root |-> <<>>, aliases |-> <<>>]

(* The creator, once a path was resolved. *)
Created(r) == IF r.cw.type = "building" THEN r.cw.base ELSE r.cw

(* An alias that was resolved becomes a node, if it is a new leaf. *)
AddResolvedAlias(alias, target) ==
  IF /\ alias.type # "error" /\ target.type # "error"
     /\ alias.cw.named
     /\ \A path \in alias.m.nodes.paths : Len(path) = Len(alias.cw.node) + 1 => Front(path) # alias.cw.node
  THEN [code  |-> "OK",
        nodes |-> [alias.m.nodes EXCEPT !.aliases = [n \in DOMAIN @ \cup {alias.cw.node} |->
                                                       IF n = alias.cw.node THEN target.m.builder ELSE @[n]]]]
  ELSE [code |-> "InvalidArgument"]

AddAlias(alias, nodes, rootBuilder) ==
  AddResolvedAlias(
    Resolve([format |-> "unix", path |-> alias.alias], NewAbsoluteScopeWalker(Creator),
            [builder |-> EmptyBuilder, nodes |-> nodes]),
    Resolve([format |-> "unix", path |-> alias.target], GetScopeWalker(NewRelativeScopeWalker(Void)),
            [builder |-> Join(rootBuilder), nodes |-> nodes]))

(* The aliases are visited in the order in which they are given. *)
AddAliases(aliases, nodes, rootBuilder) ==
  FoldLeft(LAMBDA acc, alias : IF acc.code = "OK" THEN AddAlias(alias, acc.nodes, rootBuilder) ELSE acc,
           [code |-> "OK", nodes |-> nodes], aliases)

VirtualRootAt(r, aliases) ==
  IF r.type = "error" THEN [code |-> r.code]
  ELSE AddAliases(aliases, [r.m.nodes EXCEPT !.root = <<Created(r).node>>], r.m.builder)

NewVirtualRootScopeWalkerFactory(rootPath, aliases) ==
  VirtualRootAt(Resolve(rootPath, GetScopeWalker(NewAbsoluteScopeWalker(Creator)),
                        [builder |-> Join(EmptyBuilder), nodes |-> NoNodes]), aliases)

NewVirtualRoot(nodes, base) == [type |-> "virtual", base |-> base, nodes |-> nodes]
=============================================================================
