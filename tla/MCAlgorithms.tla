---------------------------- MODULE MCAlgorithms ----------------------------
(***************************************************************************)
(* The algorithms that have no state of their own.  A behaviour picks an   *)
(* input of one of them, and the invariants compare what the algorithm     *)
(* computes for it with a reference definition.                            *)
(***************************************************************************)
EXTENDS StorageServices, Capabilities, Paths

CONSTANT NoInput

VARIABLES
  algorithm,    \* which of the actions below takes place
  input         \* what it was called with

Chosen(name) == algorithm = name /\ input = NoInput /\ UNCHANGED algorithm

-----------------------------------------------------------------------------
(* Buffers. *)

Blob == <<1, 2, 3>>

MCMessages == {Blob}

StreamsOf(datas, ends) ==
  UNION {{Stream(chunks, end, eager) :
            chunks \in {<<data>>, <<<<>>>> \o [i \in DOMAIN data |-> <<data[i]>>] \o <<<<>>>>}
                        \cup {<<SubSeq(data, 1, i), SubSeq(data, i + 1, Len(data))>> : i \in 1 .. Len(data) - 1},
            end \in ends, eager \in BOOLEAN} : data \in datas}

LeavesOf(blob, streams) ==
  {NewCASBufferFromReader(blob, s, BackendProvided) : s \in streams}
    \cup {NewCASBufferFromChunkReader(blob, s, BackendProvided) : s \in streams}

Leaves ==
  LeavesOf(Blob, StreamsOf({Blob, <<1, 2>>, <<1, 3, 3>>, <<1, 2, 3, 4>>}, {"EOF", "Unavailable"}))
    \cup LeavesOf(<<>>, StreamsOf({<<>>, <<1>>}, {"EOF", "Unavailable"}))
    \cup {ValidationCachingNewBufferFromReaderAt(FALSE, Blob, data) : data \in {Blob, <<1, 2>>}}

AtOnce ==
  {NewCASBufferFromByteSlice(Blob, data, BackendProvided) : data \in {Blob, <<1, 3, 3>>, <<1, 2>>}}
    \cup {ValidationCachingNewBufferFromByteSlice(cached, Blob, Blob) : cached \in BOOLEAN}
    \cup {ValidationCachingNewBufferFromReaderAt(TRUE, Blob, Blob),
          NewProtoBufferFromReader(Stream(<<<<1>>, <<2, 3>>>>, "EOF", FALSE), BackendProvided),
          NewProtoBufferFromReader(Stream(<<<<1>>, <<2, 3>>>>, "Unavailable", FALSE), BackendProvided),
          NewBufferFromError("NotFound")}

Intact(b) ==
  CASE b.type \in AtHand -> TRUE
    [] b.type \in {"reader", "chunks"} -> Data(b.stream) = b.blob /\ b.stream.end = "EOF"
    [] OTHER -> FALSE

Truncated(eager, end) == NewCASBufferFromReader(Blob, Stream(<<<<1, 2>>>>, end, eager), BackendProvided)

Replacement(b) == [type |-> "buffer", buffer |-> b]

Answers ==
  {<<>>, <<[type |-> "code", code |-> "NotFound"]>>}
    \cup {<<Replacement(b)>> : b \in AtOnce \cup {Truncated(FALSE, "EOF")}}
    \cup {<<Replacement(Truncated(eager, "Unavailable")), Replacement(NewValidatedBufferFromByteSlice(Blob))>> :
             eager \in BOOLEAN}

Others == {{}, {[validated |-> FALSE, max |-> 1]}, {[validated |-> TRUE, max |-> 2]}}

Cloned(b) == LET c == CloneStream(b) IN IF c.type = "cloned" THEN {[c EXCEPT !.others = o] : o \in Others} ELSE {c}

OfBlob(b) == b.type \in AtHand \cup {"error"} \/ b.blob = Blob

Decorated(b) ==
  {b, WithTask(b, "OK"), WithTask(b, "Canceled"), CloneCopy(b, 3), CloneStream(WithTask(b, "Canceled"))}
    \cup Cloned(b)
    \cup {WithTask(c, "Canceled") : c \in Cloned(b)}
    \cup IF OfBlob(b)
         THEN UNION {{h, WithTask(h, "Canceled")} \cup Cloned(h) :
                       h \in {WithErrorHandler(b, answers) : answers \in Answers}}
                \cup {WithErrorHandler(WithTask(b, "Canceled"), answers) : answers \in Answers}
                \cup {WithErrorHandler(CloneStream(b), answers) : answers \in Answers}
         ELSE {}

ConvertBuffer ==
  /\ Chosen("ConvertBuffer")
  /\ \E leaf \in Leaves \cup AtOnce : \E b \in Decorated(leaf) :
       input' = [type |-> "buffer", leaf |-> leaf, buffer |-> b,
                 blob |-> IF leaf \in Leaves THEN leaf.blob ELSE Blob]

-----------------------------------------------------------------------------
(* Digests, and blobs on their way to and from a server. *)

MCHashLength == [m |-> 32, h |-> 64, e |-> 64, short |-> 5]
MCHexadecimal == {"m", "h", "e"}
MCParseInt == ("3" :> 3) @@ ("0" :> 0) @@ ("-1" :> -1)
MCBlobOf == [m |-> Blob, h |-> Blob, e |-> <<>>]

Instances == {<<>>, <<"a">>, <<"a", "/", "b">>, <<"b">>}

DigestsOf(instance) ==
  <<NewDigestUnchecked("MD5", instance, "m", 3), NewDigestUnchecked("SHA256", instance, "e", 0),
    NewDigestUnchecked("SHA256TREE", instance, "h", 3)>>

MCDigestOrder == DigestsOf(<<>>) \o DigestsOf(<<"a">>) \o DigestsOf(<<"a", "/", "b">>) \o DigestsOf(<<"b">>)

MCDigests == ToSet(MCDigestOrder)

ConvertDigest ==
  /\ Chosen("ConvertDigest")
  /\ \E d \in MCDigests : input' = [type |-> "digest", digest |-> d]

(* Three sets: two of them arbitrary, and one of the digests in between. *)
CombineSets ==
  /\ Chosen("CombineSets")
  /\ \E a, b \in SUBSET {MCDigestOrder[i] : i \in {1, 2, 5, 6, 9}} :
       input' = [type |-> "sets", a |-> a, b |-> b, c |-> {MCDigestOrder[i] : i \in {2, 3, 6, 7}}]

(* Names are added to a trie, and some of these are removed again. *)
UseTrie ==
  /\ Chosen("UseTrie")
  /\ \E added \in UNION {[1 .. n -> {GetComponents(i) : i \in Instances} \cup {<<"a", "b", "a">>}] : n \in 1 .. 3} :
       \E removed \in UNION {[1 .. n -> ToSet(added)] : n \in 0 .. 2} :
         /\ IsInjective(removed)
         /\ input' = [type |-> "trie", added |-> added, removed |-> removed]

Networks == {[loss |-> "none", after |-> 0]} \cup [loss : {"requests", "response"}, after : 0 .. 3]

Capabilities(compressors) == [code |-> "OK", cacheCapabilities |-> [supportedCompressors |-> compressors]]

Environments ==
  [client    : {[hasPool |-> FALSE, supported |-> <<>>], [hasPool |-> TRUE, supported |-> <<>>],
                [hasPool |-> TRUE, supported |-> <<{"ZSTD"}>>]},
   answer    : {Capabilities({"ZSTD"})},
   network   : Networks,
   available : SUBSET {"client", "server"}]
    \cup [client    : {[hasPool |-> TRUE, supported |-> <<>>], [hasPool |-> TRUE, supported |-> <<{}>>]},
          answer    : {Capabilities({}), [code |-> "Unavailable"], [code |-> "OK", cacheCapabilities |-> None]},
          network   : {[loss |-> "none", after |-> 0]},
          available : {{}}]

RemoteLeaves ==
  {NewCASBufferFromChunkReader(Blob, Stream(<<<<1>>, data>>, end, FALSE), BackendProvided) :
     data \in {<<2, 3>>, <<2>>, <<3, 3>>, <<2, 3, 4>>}, end \in {"EOF", "NotFound"}}
    \cup {NewValidatedBufferFromByteSlice(Blob), NewBufferFromError("NotFound")}

Transfer ==
  /\ Chosen("Transfer")
  /\ \E d \in {d \in MCDigests : d.instance # <<"a">>} :
     \E leaf \in IF d.hash = "e" THEN {NewValidatedBufferFromByteSlice(<<>>)} ELSE RemoteLeaves :
     \E env \in Environments : input' = [type |-> "transfer", digest |-> d, leaf |-> leaf, env |-> env]

(* Requests of a client that need not be ours. *)
WriteRequestSet ==
  [writeOffset : {0, 1, 3}, data : {<<>>, <<1>>, <<2, 3>>, Blob, Compress(Blob)}, finishWrite : BOOLEAN]

WriteToServer ==
  /\ Chosen("WriteToServer")
  /\ \E messages \in UNION {[1 .. n -> WriteRequestSet] : n \in 0 .. 2}, end \in {"EOF", "Canceled"}, zstd \in BOOLEAN :
       input' = [type |-> "write", end |-> end, zstd |-> zstd, messages |-> messages]

(* A server whose storage works, fails, or refuses to store a digest. *)
ServedDigests == {MCDigestOrder[i] : i \in {1, 2, 3, 7}}

Stores ==
  {[blobs |-> [d \in held |-> NewValidatedBufferFromByteSlice(BlobOf[d.hash])], code |-> code, refused |-> refused] :
     held \in SUBSET ServedDigests, code \in {"OK", "Unavailable"}, refused \in {{}, {MCDigestOrder[1]}}}

CallServer ==
  /\ Chosen("CallServer")
  /\ \E store \in Stores, digests \in SUBSET ServedDigests :
       input' = [type |-> "call", store |-> store, digests |-> digests]

-----------------------------------------------------------------------------
(* Paths. *)

MCDriveLetterOf == [C |-> "C", c |-> "C"]
MCIsUNC == {"UNC"}

Unix(path) == [format |-> "unix", path |-> path]
Windows(path) == [format |-> "windows", path |-> path]

(* Strings of separators and names, in which names are apart. *)
Strings(separators, names, n) ==
  {p \in UNION {[1 .. k -> separators \cup names] : k \in 0 .. n} :
     \A i \in 1 .. Len(p) - 1 : p[i] \in separators \/ p[i + 1] \in separators}

pA == <<"a">>
pB == <<"b">>

Directory == [type |-> "directory"]
File == [type |-> "file"]
Symlink(path) == [type |-> "symlink", target |-> Unix(path)]

FileSystems ==
  {(<<pA>> :> Directory) @@ (<<pA, pB>> :> File),
   (<<pA>> :> Directory) @@ (<<pA, pB>> :> Directory) @@ (<<pB>> :> Symlink(<<"a", "/", "b">>)),
   (<<pA>> :> Symlink(<<"b", "/">>)) @@ (<<pB>> :> Symlink(<<"a">>)),
   (<<pA>> :> Directory) @@ (<<pA, pB>> :> Symlink(<<"..">>)) @@ (<<pA, pA>> :> File) @@ (<<pB>> :> Symlink(<<"/", "a", "/", "b">>)),
   (<<pB>> :> Directory) @@ (<<pB, pA>> :> Symlink(<<"/", "b", "/", "..", "/", "b">>)) @@ (<<pA>> :> Symlink(<<"b", "/", "b">>))
     @@ (<<pB, pB>> :> File)}

ResolvePath ==
  /\ Chosen("ResolvePath")
  /\ \E files \in FileSystems, path \in Strings({"/"}, {"a", "b", "..", "."}, 5) :
       \E dir \in {d \in {<<>>, <<pA>>, <<pB>>} : d = <<>> \/ (d \in DOMAIN files /\ files[d].type = "directory")} :
         input' = [type |-> "path", files |-> files, path |-> path, dir |-> dir]

ParseWindowsPath ==
  /\ Chosen("ParseWindowsPath")
  /\ \E prefix \in {<<>>, <<"C", ":">>, <<"c", ":", "/">>, <<"\\", "\\">>, <<"/", "/">>, <<"\\", "\\", "?", "\\">>,
                    <<"\\", "?", "?", "\\", "UNC", "\\">>, <<"\\", "?", "?", "\\", "C", ":">>, <<"\\", "\\", ".", "\\", "\\">>} :
       \E path \in Strings({"/", "\\"}, {"a", "..", ".", "?"}, 4) :
         input' = [type |-> "windows", path |-> prefix \o path]

RootPaths == {<<"/">>, <<"/", "a">>, <<"/", "a", "/", "b", "/">>, <<"/", "a", "/", "..">>}

Alias(alias, target) == [alias |-> alias, target |-> target]

AliasLists ==
  {<<>>} \cup {<<a, b>> : a \in {Alias(<<"/", "b">>, <<"a">>), Alias(<<"/", "b", "/", "a">>, <<"b", "/", "..">>)},
                         b \in {Alias(<<"/", "c">>, <<".">>), Alias(<<"/", "b", "/", "a">>, <<"a", "/">>),
                               Alias(<<"/", "a", "/", "b">>, <<"b">>), Alias(<<"/", "c", "/", "..">>, <<"b">>)}}

PlaceVirtualRoot ==
  /\ Chosen("PlaceVirtualRoot")
  /\ \E files \in FileSystems, root \in RootPaths, aliases \in AliasLists,
       path \in Strings({"/"}, {"a", "b", ".."}, 3) :
       input' = [type |-> "virtual", files |-> files, root |-> root, aliases |-> aliases, path |-> path]

-----------------------------------------------------------------------------
(* Authenticators, authorizers, capabilities and build queues. *)

Raw(valid, metadata) == [valid |-> valid, metadata |-> metadata]

HeadersPolicy(name, credential, failure, canonical) ==
  [kind |-> "headers", headerKeys |-> <<[name |-> name, canonical |-> canonical]>>, credential |-> credential,
   failure |-> failure, children |-> <<>>]

CommonPolicies ==
  {[kind |-> "allow", raw |-> Raw(TRUE, [user |-> "anyone", team |-> "all"]), children |-> <<>>],
   [kind |-> "deny", children |-> <<>>],
   HeadersPolicy("Authorization", "jwt", "Unauthenticated", TRUE), HeadersPolicy("X", "remote", "Unavailable", FALSE)}

InvalidPolicies == {[kind |-> "allow", raw |-> Raw(FALSE, <<>>), children |-> <<>>], [kind |-> "none", children |-> <<>>]}

Parents(kinds, children) ==
  {[kind |-> kind, children |-> c] : kind \in kinds, c \in UNION {[1 .. n -> children] : n \in 0 .. 2}}

GRPCLeaves == CommonPolicies \cup {[kind |-> "tls", clientCAs |-> {"ca"}, children |-> <<>>], [kind |-> "peer", children |-> <<>>]}

GRPCPolicies ==
  LET inner == {[kind |-> kind, children |-> <<a, b>>] : kind \in {"any", "all"}, a, b \in GRPCLeaves}
  IN  Parents({"any", "all"}, GRPCLeaves \cup InvalidPolicies) \cup GRPCLeaves \cup InvalidPolicies
        \cup {[kind |-> kind, children |-> <<a, b>>] : kind \in {"any", "all"}, a \in inner, b \in GRPCLeaves}

HTTPLeaves == CommonPolicies \cup {[kind |-> "oidc", cookieSeed |-> seed, children |-> <<>>] : seed \in BOOLEAN}

HTTPPolicies ==
  LET accepting == {[kind |-> "accept", mediaTypes |-> {"html"}, children |-> <<a>>] : a \in HTTPLeaves}
  IN  Parents({"any"}, HTTPLeaves \cup InvalidPolicies \cup accepting) \cup accepting

Certificate(name, issuer, inTime, claims, raw) ==
  [name |-> name, issuer |-> issuer, inTime |-> inTime, claims |-> claims, extracts |-> TRUE, raw |-> raw]

User(user) == Raw(TRUE, [user |-> user])

Chains ==
  LET intermediate == Certificate("i", "ca", TRUE, "true", User("i"))
  IN  {<<>>, <<Certificate("c", "ca", TRUE, "true", User("cert"))>>, <<Certificate("c", "i", TRUE, "true", User("cert"))>>,
       <<Certificate("c", "i", TRUE, "true", User("cert")), intermediate>>,
       <<Certificate("c", "i", FALSE, "true", User("cert")), intermediate>>,
       <<Certificate("c", "ca", TRUE, "false", User("cert"))>>, <<Certificate("c", "ca", TRUE, "true", Raw(FALSE, <<>>))>>}

Plain == [type |-> "plain"]
UNIXSocket(extracts, raw) == [type |-> "unix", extracts |-> extracts, raw |-> raw]

AuthInfos ==
  {Plain, UNIXSocket(TRUE, User("peer")), UNIXSocket(FALSE, User("peer")), UNIXSocket(TRUE, Raw(FALSE, <<>>))}
    \cup {[type |-> "tls", certificates |-> chain] : chain \in Chains}

HeaderSets == SUBSET {[name |-> "Authorization", value |-> "jwt"], [name |-> "X", value |-> "remote"], [name |-> "X", value |-> "jwt"]}

Contexts == [headers : HeaderSets, authInfo : AuthInfos]

Requests ==
  [headers : {{}, {[name |-> "Authorization", value |-> "jwt"]}}, accept : {{}, {"html"}},
   oidc : {Granted([user |-> "oidc"]), Responded, Refused("Unauthenticated"), Refused("Unavailable")}]

ApplyGRPCPolicy == Chosen("ApplyGRPCPolicy") /\ \E policy \in GRPCPolicies : input' = [type |-> "grpcPolicy", policy |-> policy]

ApplyHTTPPolicy == Chosen("ApplyHTTPPolicy") /\ \E policy \in HTTPPolicies : input' = [type |-> "httpPolicy", policy |-> policy]

Remote(verdicts) == [kind |-> "remote", verdicts |-> verdicts]

Verdicts == {"OK", "PermissionDenied", "Unavailable"}

AuthorizerConfigs ==
  {[kind |-> "allow"], [kind |-> "deny"], [kind |-> "prefix", prefixes |-> <<<<"a">>>>],
   [kind |-> "prefix", prefixes |-> <<<<"b">>, <<"a", "/", "b">>>>], [kind |-> "prefix", prefixes |-> <<<<"a", "/">>>>],
   [kind |-> "jmespath", results |-> {<<"user", <<"b">>>>, <<"other", <<>>>>}], [kind |-> "none"],
   Remote([i \in Instances |-> IF i = <<"a">> THEN "Unavailable" ELSE IF i = <<>> THEN "OK" ELSE "PermissionDenied"])}

ApplyAuthorizers ==
  /\ Chosen("ApplyAuthorizers")
  /\ \E configs \in UNION {[1 .. n -> AuthorizerConfigs] : n \in 0 .. 3},
        names \in {<<>>, <<<<>>, <<"a">>, <<"a", "/", "b">>, <<"b">>>>, <<<<"b">>, <<"b">>, <<"a">>>>} :
       input' = [type |-> "authorizers", configs |-> configs, names |-> names]

Verdict(code) == Remote([i \in Instances |-> code])

Offers == {Provides({"functions"}, {}, <<>>, <<>>), Failed("NotFound"), Failed("Unavailable")}

Server(cas, ac, execute, schedulers, answer) ==
  [cas |-> cas, ac |-> ac, execute |-> Verdict(execute), schedulers |-> schedulers, answers |-> [backend \in {"s1", "s2"} |-> answer]]

Scheduler(match, add, backend) == [match |-> match, add |-> add, backend |-> backend]

SchedulerLists ==
  {<<>>, <<Scheduler(<<>>, <<>>, "s1")>>, <<Scheduler(<<"a">>, <<"c", "/", "d">>, "s1")>>,
   <<Scheduler(<<"a">>, <<>>, "s1"), Scheduler(<<"a", "/", "b">>, <<"c">>, "s2")>>, <<Scheduler(<<>>, <<"c">>, "s1"), Scheduler(<<"b">>, <<"b">>, "s2")>>}

Servers ==
  LET CAS(get, put, answer) == [get |-> Verdict(get), put |-> Verdict(put), findMissing |-> Verdict("PermissionDenied"), answer |-> answer]
      AC(get, put, answer)  == [get |-> Verdict(get), put |-> Verdict(put), answer |-> answer]
      Updates == {Provides({"functions", "updates"}, {}, <<>>, <<>>), Provides({"functions"}, {}, <<>>, <<>>), Failed("NotFound")}
      Answers2 == {Provides({"functions"}, {"execute"}, <<2, 3>>, <<2, 11>>), Provides({"functions"}, {}, <<2, 1>>, <<2, 3>>), Failed("Unavailable")}
  IN  {Server(cas, ac, execute, schedulers, answer) :
         cas \in {None} \cup {CAS("PermissionDenied", put, offer) : put \in Verdicts, offer \in Offers},
         ac \in {None} \cup {AC(get, put, updates) : get \in {"OK", "PermissionDenied"}, put \in Verdicts, updates \in Updates},
         execute \in Verdicts, schedulers \in {<<>>, <<Scheduler(<<"a">>, <<>>, "s1")>>}, answer \in Answers2}

(* The service is there if there is something to report. *)
ReportCapabilities ==
  /\ Chosen("ReportCapabilities")
  /\ \E server \in Servers :
       /\ server.cas # None \/ server.ac # None \/ server.schedulers # <<>>
       /\ input' = [type |-> "server", server |-> server]

ExecuteAction ==
  /\ Chosen("ExecuteAction")
  /\ \E schedulers \in SchedulerLists, value \in Instances \cup {<<"a", "/">>, <<"operations">>},
       operation \in {<<"x">>, <<"a", "/", "operations", "/", "x">>, <<"/", "operations", "/", "x">>} :
       input' = [type |-> "execute", schedulers |-> schedulers, value |-> value, operation |-> operation]

-----------------------------------------------------------------------------
Algorithms ==
  {"ConvertDigest", "CombineSets", "UseTrie", "ApplyGRPCPolicy", "ApplyHTTPPolicy",
   "ApplyAuthorizers", "ReportCapabilities", "ExecuteAction", "ResolvePath", "ParseWindowsPath",
   "PlaceVirtualRoot", "WriteToServer", "CallServer", "Transfer", "ConvertBuffer"}

Init == algorithm \in Algorithms /\ input = NoInput

Return == input # NoInput /\ input' = NoInput /\ UNCHANGED algorithm

Next ==
  \/ ConvertDigest \/ CombineSets \/ UseTrie \/ ApplyGRPCPolicy \/ ApplyHTTPPolicy
  \/ ApplyAuthorizers \/ ReportCapabilities \/ ExecuteAction \/ ResolvePath \/ ParseWindowsPath
  \/ PlaceVirtualRoot \/ WriteToServer \/ CallServer \/ Transfer \/ ConvertBuffer
  \/ Return

Spec == Init /\ [][Next]_<<algorithm, input>>

-----------------------------------------------------------------------------
DataFrom(data, off) == SubSeq(data, off + 1, Len(data))

Limits == {2, 3}

TaskFails(b) == b.type = "task" /\ b.task # "OK"

StreamRight(b, s, data) ==
  \/ s.end = "EOF" /\ Data(s) = data
  \/ s.end # "EOF" /\ (Len(Data(s)) < Len(data) \/ data = <<>> \/ TaskFails(b))

ReadAtRight(r, n, rest) ==
  LET part == SubSeq(rest, 1, Min({n, Len(rest)}))
  IN  r.code \in {"OK", "EOF"} => r.data = part /\ (r.code = "OK" <=> Len(part) = n)

ChunksRight(b, s, data, max) == StreamRight(b, s, data) /\ \A i \in DOMAIN s.chunks : Len(s.chunks[i]) \in 1 .. max

ReaderRight(b, s, data) == StreamRight(b, s, data) /\ (TaskFails(b) => s.close # "OK")

AtOnceOperations == {[name |-> "IntoWriter"]} \cup [name : {"ToProto", "ToByteSlice"}, max : Limits]

SuccessYieldsTheBlob ==
  input # NoInput /\ input.type = "buffer" =>
    LET b == input.buffer
        blob == input.blob
    IN  /\ \A r \in {Apply(b, op) : op \in AtOnceOperations} : r.code = "OK" => r.data = blob
        /\ \A n \in 1 .. 3, off \in 0 .. 4 :
             ReadAtRight(Apply(b, [name |-> "ReadAt", n |-> n, off |-> off]), n, DataFrom(blob, off))
        /\ \A max \in 1 .. 3 :
             /\ \A off \in 0 .. Len(blob) : ChunksRight(b, ToChunkReader(b, off, max), DataFrom(blob, off), max)
             /\ ReaderRight(b, ToReader(b, max), blob)

(* Data integrity is reported of the data of the source, and only once all *)
(* of it was seen: a source is marked valid only if its data is the blob,  *)
(* and as invalid only if it isn't.  (With an error handler, the data may  *)
(* come from several sources.)                                             *)
NotesRight(leaf, notes) ==
  leaf.type \in {"reader", "chunks"} =>
    \A i \in DOMAIN notes : notes[i] <=> Data(leaf.stream) = leaf.blob /\ leaf.stream.end = "EOF"

Repaired(b, leaf) ==
  b.type = "handling" /\ b.base = leaf /\ b.answers # <<>> /\ Last(b.answers).type = "buffer"
    /\ Intact(Last(b.answers).buffer)

Undisturbed(leaf) == {leaf, WithTask(leaf, "OK"), CloneCopy(leaf, 3)} \cup Cloned(leaf)

ReadableIfIntact(leaf, b, slice, written) ==
  /\ Intact(leaf) /\ b \in Undisturbed(leaf) => slice.code = "OK" /\ written.code = "OK"
  /\ Repaired(b, leaf) => slice.code = "OK"
  /\ Repaired(b, leaf) /\ leaf.stream.end # "EOF" /\ IsPrefix(Data(leaf.stream), input.blob) => written.code = "OK"
  /\ b.type # "error" /\ (b.type = "task" => b.hasDigest) => GetSizeBytes(b) = [code |-> "OK", size |-> Len(input.blob)]
  /\ b = leaf => NotesRight(b, slice.notes) /\ NotesRight(b, written.notes)

IntactBuffersReadable ==
  input # NoInput /\ input.type = "buffer" =>
    ReadableIfIntact(input.leaf, input.buffer, Apply(input.buffer, [name |-> "ToByteSlice", max |-> 3]), Written(input.buffer))

(* Buffer operations that succeed yield the blob that has the digest of    *)
(* the buffer, or the part that was asked for, whatever the data source    *)
(* returned, and however buffers were decorated, cloned, or replaced       *)
(* halfway by an error handler.  Streams end in success only if all of the *)
(* blob was returned, and streams that end in an error stop short of it,   *)
(* so that nobody can mistake a prefix or a corrupted copy for the blob;   *)
(* only the error of a background task may follow a complete blob.         *)
(* Buffers whose source is intact can be read.  If it isn't, an error      *)
(* handler that supplies an intact buffer makes up for any defect in       *)
(* operations that return all data at once, and for I/O errors in streams. *)
BuffersYieldTheBlob == SuccessYieldsTheBlob /\ IntactBuffersReadable

-----------------------------------------------------------------------------
Compressors == {"IDENTITY", "ZSTD", "DEFLATE", "BROTLI"}

DigestConverts ==
  input # NoInput /\ input.type = "digest" =>
    LET d == input.digest
        Yields(result) == result.ok /\ result.digest = d
        Parses(result, compressor) == Yields(result) /\ result.compressor = compressor
    IN  /\ NewInstanceName(d.instance).name = d.instance
        /\ Yields(NewDigestFromProto(d.function, d.instance, GetProto(d)))
        /\ Yields(NewDigestFromCompactBinary(d.instance, GetCompactBinary(d)))
        /\ d.function \in InferredFunctions => GetBareFunction("UNKNOWN", HashLength[d.hash]) = d.function
        /\ \A c \in Compressors :
             /\ Parses(NewDigestFromByteStreamReadPath(GetByteStreamReadPath(d, c)), c)
             /\ Parses(NewDigestFromByteStreamWritePath(GetByteStreamWritePath(d, "u", c)), c)
        /\ \A old, new \in Instances :
             IsPrefix(GetComponents(old), GetComponents(d.instance)) =>
               LET patched == PatchDigest(old, new, d)
               IN  /\ UnpatchDigest(old, new, patched) = d
                   /\ NewInstanceName(patched.instance).ok

SetsCombine ==
  input # NoInput /\ input.type = "sets" =>
    LET a == Build(input.a)
        b == Build(input.b)
        c == Build(input.c)
        split == GetDifferenceAndIntersection(a, b)
        parts == PartitionByInstanceName(a)
    IN  /\ split = [onlyA |-> Build(input.a \ input.b), both |-> Build(input.a \cap input.b), onlyB |-> Build(input.b \ input.a)]
        /\ GetUnion(<<a, b, c, a>>) = Build(input.a \cup input.b \cup input.c)
        /\ RemoveEmptyBlob(a) = Build({d \in input.a : d.size > 0})
        /\ ToSet(parts) = {Build({d \in input.a : d.instance = i}) : i \in {d.instance : d \in input.a}}
        /\ IsInjective(parts)

(* The entries that a trie holds, according to the calls made. *)
TrieMatches ==
  input # NoInput /\ input.type = "trie" =>
    LET added   == FoldLeftDomain(LAMBDA trie, i : TrieSet(trie, input.added[i], i), NewInstanceNameTrie, input.added)
        trie    == FoldLeft(TrieRemove, added, input.removed)
        entries == [n \in ToSet(input.added) \ ToSet(input.removed) |-> Max({i \in DOMAIN input.added : input.added[i] = n})]
        last    == Len(input.removed)
    IN  /\ \A name \in {GetComponents(i) : i \in Instances} \cup {<<"a", "b", "a">>, <<"a", "b", "b">>, <<"b", "b">>} :
             LET prefixes == {n \in DOMAIN entries : IsPrefix(n, name)}
             IN  /\ GetExact(trie, name) = (IF name \in DOMAIN entries THEN entries[name] ELSE -1)
                 /\ ContainsExact(trie, name) <=> name \in DOMAIN entries
                 /\ ContainsPrefix(trie, name) <=> prefixes # {}
                 /\ GetLongestPrefix(trie, name) =
                      (IF prefixes = {} THEN -1 ELSE entries[CHOOSE n \in prefixes : \A o \in prefixes : Len(o) <= Len(n)])
        /\ last > 0 => (TrieRemoved(FoldLeft(TrieRemove, added, Front(input.removed)), Last(input.removed)) <=> entries = <<>>)
        /\ last > 0 => \A n \in DOMAIN trie : n = <<>> \/ \E e \in DOMAIN entries : IsPrefix(n, e)


Flawless(env) ==
  LET uses == ShouldUseZSTDCompression(env.client, env.answer)
  IN  uses.code = "OK" /\ env.network.loss = "none" /\ (uses.use => env.available = {"client", "server"})

WholeSlice(b) == Apply(b, [name |-> "ToByteSlice", max |-> 3])

PutTransfers(put, direct, blob, env) ==
  /\ put.stored \in {<<>>, <<blob>>}
  /\ put.code = "OK" => put.stored = <<blob>>
  /\ Flawless(env) => put.code = direct.code

GetTransfers(got, slice, direct, blob, env) ==
  /\ slice.code = "OK" => slice.data = blob
  /\ Flawless(env) => slice.code = direct.code
  /\ Flawless(env) /\ direct.code = "OK" =>
       \A off \in 0 .. Len(blob) : Data(ToChunkReader(got, off, 2)) = DataFrom(blob, off)

GotTransfers(got, direct, blob, env) == GetTransfers(got, WholeSlice(got), direct, blob, env)

BlobTransferred(d, leaf, direct, env) ==
  /\ PutTransfers(ClientPut(d, "u", leaf, env), direct, BlobOf[d.hash], env)
  /\ GotTransfers(ClientGet(d :> leaf, d, env), direct, BlobOf[d.hash], env)

BlobsTransferred ==
  input # NoInput /\ input.type = "transfer" =>
    BlobTransferred(input.digest, input.leaf, WholeSlice(input.leaf), input.env)

StoredIfFinished(call, r, zstd) ==
  r.stored # <<>> =>
    /\ r.code = "OK"
    /\ r.stored = <<Blob>>
    /\ \E i \in DOMAIN call.messages :
         /\ call.messages[i].finishWrite
         /\ FlattenSeq([j \in 1 .. i |-> call.messages[j].data]) = IF zstd THEN Compress(Blob) ELSE Blob
         /\ zstd \/ (i = Len(call.messages) /\ call.end = "EOF")

WriteCall(name) ==
  [messages |-> [i \in DOMAIN input.messages |->
                   [resourceName |-> name, writeOffset |-> input.messages[i].writeOffset,
                    data |-> input.messages[i].data, finishWrite |-> input.messages[i].finishWrite]],
   end |-> input.end]

WriteCallValidated(call) == StoredIfFinished(call, ServerWrite(call, TRUE), input.zstd)

RequestsValidated ==
  input # NoInput /\ input.type = "write" =>
    WriteCallValidated(
      WriteCall(GetByteStreamWritePath(NewDigestUnchecked("MD5", <<>>, "m", 3), "u", Compressor(input.zstd))))

Getters(store, d) == <<ACGet(store, d), ICASGet(store, d), ISCCGet(store, d), FSACGet(store, d)>>
Putters(store, d, b) == <<ACPut(store, d, b), ISCCPut(store, d, b), FSACPut(store, d, b), ICASPut(store, d, b)>>

GetsServed(got, get) ==
  \A i \in DOMAIN got : got[i].code = get.code /\ (get.code = "OK" => got[i].data = get.data)

(* A buffer that fails is not sent; its error is returned. *)
PutsServed(put, direct, fails) ==
  /\ \A i \in 1 .. 4 : put[i].store = direct.store
  /\ \A i \in 1 .. IF fails THEN 4 ELSE 3 : put[i].code = IF fails THEN "Aborted" ELSE direct.code

(* The responses for a and b, of which b is updated with other data. *)
BatchRead(read, a, b) ==
  /\ (read.code = "OK") <=> (HashLength[a.hash] = HashLength[b.hash] /\ a.size + b.size <= MaximumMessageSizeBytes)
  /\ read.code = "OK" =>
       \A i \in 1 .. 2 : read.responses[i].code = "OK" => read.responses[i].data = BlobOf[(<<a, b>>[i]).hash]

BatchUpdated(update, a, function) ==
  update.code = "OK" =>
    /\ update.codes[1] = "OK" /\ a.function \in {function} \cup InferredFunctions => a \in DOMAIN update.store.blobs
    /\ update.codes[2] # "OK"
    /\ \A d \in DOMAIN update.store.blobs : update.store.blobs[d].data = BlobOf[d.hash]

BatchesServed(store, a, b, function) ==
  /\ BatchRead(BatchReadBlobs(store, [instanceName |-> <<>>, digestFunction |-> function,
                                      digests |-> <<GetProto(a), GetProto(b)>>]), a, b)
  /\ BatchUpdated(BatchUpdateBlobs(store, [instanceName |-> <<>>, digestFunction |-> function,
                                           entries |-> <<[digest |-> GetProto(a), data |-> BlobOf[a.hash]],
                                                         [digest |-> GetProto(b), data |-> <<1>>]>>]), a, function)

SetsServed(store, digests, direct) ==
  CASClientFindMissing(store, digests) = direct /\ ICASFindMissing(store, digests) = direct

CallServed(store, d, message) ==
  /\ GetsServed([i \in 1 .. 4 |-> ToProto(Getters(store, d)[i])], ToProto(BackendGet(store, d)))
  /\ \A b \in {message, NewBufferFromError("Aborted")} :
       PutsServed(Putters(store, d, b), BackendPut(store, d, b), b # message)

CallsServed ==
  input # NoInput /\ input.type = "call" =>
    /\ input.digests # {} => SetsServed(input.store, input.digests, BackendFindMissing(input.store, input.digests))
    /\ \A d \in {e \in input.digests : e.hash # "e"} : CallServed(input.store, d, NewProtoBufferFromProto(Blob))
    /\ \A a, b \in {e \in input.digests : e.instance = <<>>} :
         BatchesServed(input.store, a, b, IF a.function = b.function THEN a.function ELSE "UNKNOWN")


-----------------------------------------------------------------------------
(* The names in a path, whether it is absolute, and whether it can only    *)
(* denote a directory.                                                     *)
NamesIn(path) ==
  LET starts == {i \in DOMAIN path : path[i] # "/" /\ path[i] # "."}
      order  == SetToSortSeq(starts, LAMBDA x, y : x < y)
  IN  [i \in DOMAIN order |-> <<path[order[i]]>>]

IsAbsolute(path) == path # <<>> /\ path[1] = "/"

OnlyDirectory(path) == path # <<>> /\ Last(path) \in {"/", "."}

RECURSIVE Namei(_, _, _, _, _)
(* The file that the names lead to, with at most that many symlinks. *)
Namei(files, dir, names, directory, left) ==
  LET path   == Append(dir, Head(names))
      target == files[path].target.path
      last   == Len(names) = 1
  IN  CASE names = <<>> -> [code |-> "OK", at |-> dir]
        [] names # <<>> /\ Head(names) = DotDot ->
             Namei(files, IF dir = <<>> THEN <<>> ELSE Front(dir), Tail(names), directory, left)
        [] names # <<>> /\ Head(names) # DotDot /\ path \notin DOMAIN files -> [code |-> "NotFound"]
        [] OTHER ->
             CASE files[path].type = "directory" -> Namei(files, path, Tail(names), directory, left)
               [] files[path].type = "file" -> IF last /\ ~directory THEN [code |-> "OK", at |-> path] ELSE [code |-> "NotADirectory"]
               [] files[path].type = "symlink" ->
                    IF left = 0 THEN [code |-> "InvalidArgument"]
                    ELSE Namei(files, IF IsAbsolute(target) THEN <<>> ELSE dir, NamesIn(target) \o Tail(names),
                               directory \/ (last /\ OnlyDirectory(target)), left - 1)

NameiOf(files, dir, path, left) ==
  Namei(files, IF IsAbsolute(path) THEN <<>> ELSE dir, NamesIn(path), OnlyDirectory(path), left)

Files(files, dir) == [type |-> "files", files |-> files, dir |-> dir]

RECURSIVE Underlying(_)
Underlying(cw) == IF cw.type \in {"loop", "building", "finished"} THEN Underlying(cw.base) ELSE cw

(* Where resolution ended. *)
Ended(r) ==
  CASE r.type = "error" -> [code |-> r.code]
    [] r.type # "error" -> IF Underlying(r.cw).type = "files" THEN [code |-> "OK", at |-> Underlying(r.cw).dir] ELSE [code |-> "Nothing"]

With(b) == [builder |-> b, nodes |-> NoNodes]

ParsedBy(parser) == Resolve(parser, GetScopeWalker(Void), With(Join(EmptyBuilder)))

PathOf(path) == ParsedBy(Unix(path)).m.builder

(* The file that a path leads to, the paths that Builder records with and  *)
(* without that file system, and what walking the latter leads to.         *)
ResolvedRight(resolved, expected, plain, replayed) ==
  /\ Ended(resolved) = expected
  /\ resolved.type # "error" => NameiOf(input.files, <<>>, GetUNIXString(resolved.m.builder), 0) = expected
  /\ NameiOf(input.files, input.dir, GetUNIXString(plain), MaximumSymlinks) = expected
  /\ PathOf(GetUNIXString(plain)) = plain
  /\ \A i \in DOMAIN plain.components : plain.components[i] = DotDot \/ NewComponent(plain.components[i])
  /\ expected.code = "OK" =>
       /\ NameiOf(input.files, <<>>, TraceGetUNIXString(expected.at), 0) = expected
       /\ Resolve(Windows(TraceGetWindowsString(expected.at).path), Files(input.files, <<>>), With(EmptyBuilder)).cw.dir
            = expected.at
  /\ Ended(replayed) \in {expected, [code |-> "Panic"]}

PathResolved(base, plain) ==
  ResolvedRight(
    Resolve(Unix(input.path), GetScopeWalker(NewLoopDetectingScopeWalker(base)),
            With(Join([RootBuilder EXCEPT !.components = input.dir]))),
    NameiOf(input.files, input.dir, input.path, MaximumSymlinks),
    plain,
    Resolve([format |-> "builder", builder |-> plain], NewLoopDetectingScopeWalker(base), With(EmptyBuilder)))

UNIXPathsResolve ==
  input # NoInput /\ input.type = "path" => PathResolved(Files(input.files, input.dir), PathOf(input.path))

ParsesAs(string, again, builder) ==
  /\ string.code = "OK"
  /\ WindowsPathKind(builder) = CASE WindowsParseScope(string.path).scope.type = "relative" -> "Relative"
                                  [] WindowsParseScope(string.path).scope.type = "absolute" -> "DriveRelative"
                                  [] OTHER -> "Absolute"
  /\ again.type # "error"
  /\ again.m.builder = builder

(* Unless they are on a server whose name makes for a namespace prefix. *)
RoundTrips(parsed, share) ==
  parsed.type # "error" /\ (share # <<>> => share[1] \notin {Dot, <<"?">>}) =>
    \A device \in BOOLEAN :
      LET string == GetWindowsString(parsed.m.builder, device)
      IN  ParsesAs(string, ParsedBy(Windows(string.path)), parsed.m.builder)

WindowsPathRoundTrips(parsed) == RoundTrips(parsed, parsed.m.builder.share)

WindowsPathsRoundTrip ==
  input # NoInput /\ input.type = "windows" => WindowsPathRoundTrips(ParsedBy(Windows(input.path)))

(* Symlinks as they look from within a root that is placed at a path. *)
Placed(files, root) ==
  [path \in DOMAIN files |->
     IF files[path].type = "symlink" /\ IsAbsolute(files[path].target.path)
     THEN Symlink(root \o files[path].target.path) ELSE files[path]]

Nowhere == <<"nowhere">>

(* Where paths lead from outside, and from within the root. *)
SamePaths ==
  {<<input.root \o <<"/">> \o input.path, <<"/">> \o input.path>>}
    \cup {<<p, p>> : p \in {p \in {input.path} : ~IsAbsolute(p)}}
    \cup {<<a.alias \o <<"/">> \o input.path, <<"/">> \o a.target \o <<"/">> \o input.path>> :
             a \in IF input.root = <<"/">> THEN {} ELSE ToSet(input.aliases)}
    \cup {<<<<"/", "x", "/">> \o input.path, Nowhere>> : root \in {input.root} \ {<<"/">>}}

Transparent(walker) ==
  \A p \in SamePaths :
    Ended(Resolve(Unix(p[1]), walker, With(EmptyBuilder))) =
      IF p[2] = Nowhere THEN [code |-> "Nothing"] ELSE NameiOf(input.files, <<>>, p[2], MaximumSymlinks)

(* A directory hierarchy that is placed inside a virtual root can be       *)
(* reached below its root path, and below its aliases, with relative paths *)
(* and absolute symlinks, as if it were resolved by itself.  Other         *)
(* absolute paths lead to nothing.  Whether aliases are accepted doesn't   *)
(* depend on the order in which they are registered.                       *)
FactoryTransparent(factory, swapped) ==
  /\ factory.code = swapped.code
  /\ factory.code = "OK" =>
       /\ factory = swapped
       /\ Transparent(NewLoopDetectingScopeWalker(
                        NewVirtualRoot(factory.nodes, Files(Placed(input.files, input.root), <<>>))))

VirtualRootTransparent ==
  input # NoInput /\ input.type = "virtual" =>
    FactoryTransparent(NewVirtualRootScopeWalkerFactory(Unix(input.root), input.aliases),
                       NewVirtualRootScopeWalkerFactory(Unix(input.root), Reverse(input.aliases)))

(* Resolving a path leads to the file that a kernel's namei() would find.  *)
(* The path that Builder records meanwhile denotes that file too, without  *)
(* any symlinks.  Without a file system at hand, Builder normalizes paths  *)
(* in a way that is valid in every file system: what it removed doesn't    *)
(* matter, whatever is a symlink.  Strings of paths parse as the path they *)
(* were obtained from, which holds for Windows paths and device paths too. *)
(* Virtual roots are transparent.                                          *)
PathsResolve == UNIXPathsResolve /\ WindowsPathsRoundTrip /\ VirtualRootTransparent
-----------------------------------------------------------------------------
RECURSIVE Valid(_, _)
Valid(policy, http) ==
  /\ policy.kind # "none"
  /\ policy.kind = "allow" => policy.raw.valid
  /\ http /\ policy.kind = "headers" => policy.headerKeys[1].canonical
  /\ policy.kind = "oidc" => policy.cookieSeed
  /\ \A i \in DOMAIN policy.children : Valid(policy.children[i], http)

RECURSIVE Grants(_, _)
(* Whether a policy grants access, by the meaning of "any" and "all". *)
Grants(policy, ctx) ==
  CASE policy.kind = "any" -> \E i \in DOMAIN policy.children : Grants(policy.children[i], ctx)
    [] policy.kind = "all" -> \A i \in DOMAIN policy.children : Grants(policy.children[i], ctx)
    [] policy.kind = "allow" -> TRUE
    [] OTHER -> GRPCAuthenticate(policy, ctx).code = "OK"

RECURSIVE Suspects(_, _)
(* Whether the client may be at fault if a policy refuses access. *)
Suspects(policy, ctx) ==
  CASE policy.kind = "any" -> \A i \in DOMAIN policy.children : ~Grants(policy.children[i], ctx) /\ Suspects(policy.children[i], ctx)
    [] policy.kind = "all" -> \E i \in DOMAIN policy.children :
                                /\ ~Grants(policy.children[i], ctx) /\ Suspects(policy.children[i], ctx)
                                /\ \A j \in 1 .. i - 1 : Grants(policy.children[j], ctx)
    [] policy.kind = "allow" -> FALSE
    [] OTHER -> GRPCAuthenticate(policy, ctx).code = "Unauthenticated"

Disconnected(ctx) == [ctx EXCEPT !.authInfo = Plain]

GRPCPoliciesApplied ==
  input # NoInput /\ input.type = "grpcPolicy" =>
    LET new == NewAuthenticator(input.policy)
    IN  /\ new.ok = Valid(input.policy, FALSE)
        /\ new.ok => \A ctx \in Contexts :
             LET call == AuthenticatingInterceptor(new.authenticator, ctx)
             IN  /\ call.called = Grants(input.policy, ctx)
                 /\ (call.code = "Unauthenticated") = (~call.called /\ Suspects(input.policy, ctx))
                 /\ \/ ctx.authInfo.type = "tls" /\ new.requestTLSClientCertificate
                    \/ ctx.authInfo.type = "unix" /\ new.needsPeerTransportCredentials
                    \/ call = AuthenticatingInterceptor(new.authenticator, Disconnected(ctx))

(* The outcomes of the leaves that an HTTP request gets to. *)
RECURSIVE Reached(_, _)
Reached(policy, request) ==
  CASE policy.kind = "any"    -> UNION {Reached(policy.children[i], request) : i \in DOMAIN policy.children}
    [] policy.kind = "accept" -> IF request.accept = {} THEN {} ELSE Reached(policy.children[1], request)
    [] policy.kind = "allow"  -> {Granted(policy.raw.metadata)}
    [] OTHER                  -> {HTTPAuthenticate(policy, request)}

HTTPPoliciesApplied ==
  input # NoInput /\ input.type = "httpPolicy" =>
    LET new == NewHTTPAuthenticator(input.policy)
    IN  /\ new.ok = Valid(input.policy, TRUE)
        /\ new.ok => \A request \in Requests :
             LET served  == ServeHTTP(new.authenticator, request)
                 reached == Reached(input.policy, request)
             IN  /\ (served.status \in {0, 303}) = (\E o \in reached : o.code = "OK")
                 /\ served.called => \E o \in reached : o.code = "OK" /\ ~o.responded
                 /\ (served.status = 401) = (\A o \in reached : o.code = "Unauthenticated")

(* The first decision in the order of the authorizers, if any of them      *)
(* doesn't leave it to others.                                             *)
DecisionOf(authorizers, name) ==
  LET Decision(a) == AuthorizeSingleInstanceName(a, "user", name)
      decided     == {i \in DOMAIN authorizers : Decision(authorizers[i]) # "PermissionDenied"}
  IN  IF decided = {} THEN "PermissionDenied" ELSE Decision(authorizers[Min(decided)])

IsAllowed(prefixes, name) == \E i \in DOMAIN prefixes : prefixes[i] = <<>> \/ prefixes[i] = name \/ IsPrefix(prefixes[i] \o <<"/">>, name)

AuthorizersApplied ==
  input # NoInput /\ input.type = "authorizers" =>
    LET new    == [i \in DOMAIN input.configs |-> NewAuthorizer(input.configs[i], Instances)]
        all    == [i \in DOMAIN new |-> new[i].authorizer]
        errs   == Authorize(NewAnyAuthorizer(all), "user", input.names)
    IN  /\ \A i \in DOMAIN new : new[i].ok /\ input.configs[i].kind = "prefix" =>
             \A name \in Instances : (AuthorizeSingleInstanceName(all[i], "user", name) = "OK") = IsAllowed(input.configs[i].prefixes, name)
        /\ (\A i \in DOMAIN new : new[i].ok) => errs = [k \in DOMAIN input.names |-> DecisionOf(all, input.names[k])]

(* What a tree of policies decides is what its parts mean: "any" grants    *)
(* access if one of its parts does, "all" if all of them do, and clients   *)
(* are only told that they are not authenticated if it is for no other     *)
(* reason that access is refused.  Connections that lack certificates or   *)
(* peer credentials, because nothing asked for them, are never refused     *)
(* what others are granted.  Handlers are not called for clients that were *)
(* redirected.  Authorizers decide about each instance name by itself,     *)
(* whichever other ones are part of the call.                              *)
AccessDecided == GRPCPoliciesApplied /\ HTTPPoliciesApplied /\ AuthorizersApplied

CapabilitiesReported ==
  input # NoInput /\ input.type = "server" =>
    \A name \in {<<"a">>, <<"b">>} :
      LET s          == input.server
          Permits(a) == AuthorizeSingleInstanceName(a, "user", name) = "OK"
          all        == Authorizers(s)
          certain    == \A a \in ToSet(all) \cup {s.execute} : AuthorizeSingleInstanceName(a, "user", name) # "Unavailable"
          executes   == AuthorizingExecute(AuthorizeSingleInstanceName(s.execute, "user", name), s.schedulers, name).ok
          answered   == /\ \A store \in {s.cas, s.ac} \ {None} : store.answer.code # "Unavailable"
                        /\ s.answers["s1"].code # "Unavailable"
      IN  \A c \in GetCapabilities(s, "user", name) :
            /\ c.code = "OK" =>
                 /\ c.cache # {} => \E i \in DOMAIN all : Permits(all[i])
                 /\ ("updates" \in c.cache) =
                      (c.cache # {} /\ s.ac # None /\ "updates" \in s.ac.answer.cache /\ Permits(s.ac.put))
                 /\ c.execution # {} => executes
                 /\ ~VersionIsLess(c.low, <<2, 0>>) /\ ~VersionIsLess(<<2, 12>>, c.high)
            /\ certain /\ answered =>
                 ((c.code = "OK") <=>
                    \/ (\E i \in DOMAIN all : Permits(all[i])) /\ (s.cas # None \/ s.ac.answer.code = "OK")
                    \/ executes /\ s.answers["s1"].execution # {})

OperationsFound ==
  input # NoInput /\ input.type = "execute" =>
    LET execute == DemultiplexExecute(input.schedulers, input.value)
        name    == OperationNamePrepender(execute.prefix, input.operation)
        wait    == DemultiplexWaitExecution(input.schedulers, name)
    IN  execute.ok =>
          /\ wait.ok /\ wait.backend = execute.backend /\ wait.name = input.operation
          /\ OperationNamePrepender(wait.prefix, wait.name) = name

(* A server advertises what it permits: updates of the Action Cache,       *)
(* remote execution, and the cache in case one of its methods is           *)
(* permitted; a part that the client may not use, or that lacks a backend, *)
(* doesn't keep the other ones from being reported.  The operations that a *)
(* demultiplexed scheduler reports can be waited for under the names that  *)
(* the client got to see: these lead to that scheduler, and to its name of *)
(* the operation, also if schedulers are behind several of such servers.   *)
CapabilitiesHonoured == CapabilitiesReported /\ OperationsFound
=============================================================================
