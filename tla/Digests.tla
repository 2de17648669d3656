------------------------------ MODULE Digests ------------------------------
(***************************************************************************)
(* Instance names, digests and sets of digests (pkg/digest).  Everything   *)
(* here is a pure function of its arguments, except for the trie of        *)
(* instance names, whose operations return the trie they produce.          *)
(*                                                                         *)
(* A string that contains slashes is the sequence of its tokens: pathname  *)
(* components, and "/".  A component is a name, a hash or a decimal        *)
(* number; what the code asks of its characters is given by the constants. *)
(***************************************************************************)
EXTENDS Integers, Sequences, SequencesExt, FiniteSetsExt

CONSTANTS
  None,           \* the absence of a message, a name or a value
  HashLength,     \* the length of each pathname component that may be a hash
  Hexadecimal,    \* the components that consist of lowercase hexadecimal digits
  ParseInt,       \* the components that strconv.ParseInt() accepts, with their value
  DigestOrder     \* the digests that sets may hold, ordered by their string

-----------------------------------------------------------------------------
(* Digest functions. *)

HashBytesSize == [SHA256 |-> 32, SHA1 |-> 20, MD5 |-> 16, SHA384 |-> 48, SHA512 |-> 64,
                  SHA256TREE |-> 32, BLAKE3 |-> 32, GITSHA1 |-> 20]

SupportedDigestFunctions == DOMAIN HashBytesSize

(* The functions that can be recognized by the length of their hash. *)
InferredFunctions == {"SHA256", "SHA1", "MD5", "SHA384", "SHA512"}

GetBareFunction(digestFunction, hashStringSize) ==
  IF digestFunction # "UNKNOWN"
  THEN IF digestFunction \in SupportedDigestFunctions THEN digestFunction ELSE None
  ELSE LET inferred == {f \in InferredFunctions : 2 * HashBytesSize[f] = hashStringSize}
       IN  IF inferred = {} THEN None ELSE CHOOSE f \in inferred : TRUE

-----------------------------------------------------------------------------
(* Instance names. *)

ReservedInstanceNameKeywords ==
  {"blobs", "uploads", "actions", "actionResults", "operations", "capabilities",
   "compressed-blobs"}

FieldsFunc(path) == SelectSeq(path, LAMBDA token : token # "/")

JoinSlash(components) ==
  FoldLeft(LAMBDA path, c : IF path = <<>> THEN <<c>> ELSE path \o <<"/", c>>, <<>>, components)

InvalidArgument == [ok |-> FALSE, code |-> "InvalidArgument"]

ValidateInstanceNameComponents(components) ==
  \A i \in DOMAIN components : components[i] \notin ReservedInstanceNameKeywords

NewInstanceName(value) ==
  IF \/ value # <<>> /\ (Head(value) = "/" \/ Last(value) = "/")
     \/ \E i \in 1 .. Len(value) - 1 : value[i] = "/" /\ value[i + 1] = "/"
     \/ ~ValidateInstanceNameComponents(FieldsFunc(value))
  THEN InvalidArgument
  ELSE [ok |-> TRUE, name |-> value]

NewInstanceNameFromComponents(components) ==
  IF ValidateInstanceNameComponents(components)
  THEN [ok |-> TRUE, name |-> JoinSlash(components)]
  ELSE InvalidArgument

GetComponents(name) == FieldsFunc(name)

-----------------------------------------------------------------------------
(* Digests. *)

NewDigestUnchecked(function, instance, hash, size) ==
  [function |-> function, hash |-> hash, size |-> size, instance |-> instance]

NewDigest(function, instance, hash, size) ==
  IF /\ hash \in DOMAIN HashLength
     /\ HashLength[hash] = 2 * HashBytesSize[function]
     /\ hash \in Hexadecimal
     /\ size >= 0
  THEN [ok |-> TRUE, digest |-> NewDigestUnchecked(function, instance, hash, size)]
  ELSE InvalidArgument

(* An absent message is None. *)
NewDigestFromProto(function, instance, proto) ==
  IF proto = None THEN InvalidArgument ELSE NewDigest(function, instance, proto.hash, proto.size)

GetProto(d) == [hash |-> d.hash, size |-> d.size]

GetKey(d, format) ==
  IF format = "KeyWithInstance" THEN d ELSE [d EXCEPT !.instance = None]

Combine(format, other) == IF format = "KeyWithInstance" THEN format ELSE other

UsesDigestFunction(d, function, instance) == d.function = function /\ d.instance = instance

(* The digests with the instance name cut off at each slash, shortest first. *)
GetDigestsWithParentInstanceNames(d) ==
  LET ends == {0, Len(d.instance)} \cup {i - 1 : i \in {j \in DOMAIN d.instance : d.instance[j] = "/"}}
  IN  [i \in 1 .. Cardinality(ends) |->
         [d EXCEPT !.instance = SubSeq(@, 1, SetToSortSeq(ends, <)[i])]]

(* The representation in file handles: no instance name, and the function  *)
(* as a number, so that it need not be inferred.                           *)
GetCompactBinary(d) == <<d.function, d.hash, d.size>>

NewDigestFromCompactBinary(instance, binary) ==
  IF Len(binary) # 3 \/ GetBareFunction(binary[1], 0) = None
  THEN InvalidArgument
  ELSE NewDigest(binary[1], instance, binary[2], binary[3])

-----------------------------------------------------------------------------
(* Resource names of the ByteStream service. *)

CompressorNames == [zstd |-> "ZSTD", deflate |-> "DEFLATE", brotli |-> "BROTLI"]

CompressorMidfix(compressor) ==
  IF compressor = "IDENTITY"
  THEN <<"blobs">>
  ELSE <<"compressed-blobs", CHOOSE n \in DOMAIN CompressorNames : CompressorNames[n] = compressor>>

(* Only functions whose enumeration value exceeds 7 are named in paths. *)
FunctionNames == [sha256tree |-> "SHA256TREE", blake3 |-> "BLAKE3", gitsha1 |-> "GITSHA1"]

FunctionMidfix(function) ==
  LET names == {n \in DOMAIN FunctionNames : FunctionNames[n] = function}
  IN  IF names = {} THEN <<>> ELSE <<CHOOSE n \in names : TRUE>>

FormatInt(n) == CHOOSE text \in DOMAIN ParseInt : ParseInt[text] = n

GetByteStreamReadPath(d, compressor) ==
  GetComponents(d.instance) \o CompressorMidfix(compressor) \o FunctionMidfix(d.function)
    \o <<d.hash, FormatInt(d.size)>>

GetByteStreamWritePath(d, uuid, compressor) ==
  GetComponents(d.instance) \o <<"uploads", uuid>> \o CompressorMidfix(compressor)
    \o FunctionMidfix(d.function) \o <<d.hash, FormatInt(d.size)>>

Unimplemented == [ok |-> FALSE, code |-> "Unimplemented"]

(* The hash and the size, once the compressor was taken off the trailer. *)
NewDigestFromHashAndSize(instance, compressor, trailer) ==
  LET named    == Head(trailer) \in DOMAIN FunctionNames
      function == IF named
                  THEN FunctionNames[Head(trailer)]
                  ELSE IF Head(trailer) \in DOMAIN HashLength
                       THEN GetBareFunction("UNKNOWN", HashLength[Head(trailer)])
                       ELSE None
      rest     == IF named THEN Tail(trailer) ELSE trailer
  IN  IF \/ function = None
         \/ Len(rest) < 2
         \/ rest[2] \notin DOMAIN ParseInt
         \/ ~NewDigest(function, instance, rest[1], ParseInt[rest[2]]).ok
      THEN InvalidArgument
      ELSE [ok |-> TRUE, compressor |-> compressor,
            digest |-> NewDigest(function, instance, rest[1], ParseInt[rest[2]]).digest]

NewDigestFromByteStreamPathCommon(header, trailer) ==
  LET instance == NewInstanceNameFromComponents(header)
  IN  IF ~instance.ok
      THEN InvalidArgument
      ELSE CASE Head(trailer) = "blobs" ->
                  NewDigestFromHashAndSize(instance.name, "IDENTITY", Tail(trailer))
             [] Head(trailer) = "compressed-blobs" /\ trailer[2] \notin DOMAIN CompressorNames ->
                  Unimplemented
             [] Head(trailer) = "compressed-blobs" /\ trailer[2] \in DOMAIN CompressorNames ->
                  NewDigestFromHashAndSize(instance.name, CompressorNames[trailer[2]],
                                           SubSeq(trailer, 3, Len(trailer)))
             [] OTHER -> NewDigestFromHashAndSize(instance.name, "IDENTITY", trailer)

(* The first of the fields that is one of the keywords, with at least      *)
(* "left" fields from there on.                                            *)
Split(fields, keywords, left) ==
  {i \in 1 .. Len(fields) - left + 1 :
     fields[i] \in keywords /\ \A j \in 1 .. i - 1 : fields[j] \notin keywords}

NewDigestFromByteStreamReadPath(fields) ==
  LET split == Split(fields, {"blobs", "compressed-blobs"}, 3)
  IN  IF split = {}
      THEN InvalidArgument
      ELSE LET s == CHOOSE s \in split : TRUE
           IN  NewDigestFromByteStreamPathCommon(SubSeq(fields, 1, s - 1), SubSeq(fields, s, Len(fields)))

NewDigestFromByteStreamWritePath(fields) ==
  LET split == Split(fields, {"uploads"}, 5)
  IN  IF split = {}
      THEN InvalidArgument
      ELSE LET s == CHOOSE s \in split : TRUE
           IN  NewDigestFromByteStreamPathCommon(SubSeq(fields, 1, s - 1), SubSeq(fields, s + 2, Len(fields)))

-----------------------------------------------------------------------------
(* Patching of instance names. *)

WithSlash(prefix) == IF prefix = <<>> THEN prefix ELSE Append(prefix, "/")

PatchPrefix(i, oldPrefix, newPrefix) ==
  IF Len(i) > Len(WithSlash(oldPrefix))
  THEN WithSlash(newPrefix) \o SubSeq(i, Len(WithSlash(oldPrefix)) + 1, Len(i))
  ELSE newPrefix

(* The patcher that NewInstanceNamePatcher() returns, on an instance name. *)
PatchInstanceName(oldPrefix, newPrefix, i) ==
  IF oldPrefix = newPrefix THEN i ELSE PatchPrefix(i, oldPrefix, newPrefix)

PatchDigest(oldPrefix, newPrefix, d) ==
  [d EXCEPT !.instance = PatchInstanceName(oldPrefix, newPrefix, @)]

UnpatchDigest(oldPrefix, newPrefix, d) ==
  [d EXCEPT !.instance = PatchInstanceName(newPrefix, oldPrefix, @)]

-----------------------------------------------------------------------------
(* The trie.  A node is identified by the components that lead to it; a    *)
(* trie is a function from its nodes to their values, -1 being no value.   *)

NewInstanceNameTrie == (<<>> :> -1)

Children(trie, node) == {n \in DOMAIN trie : n # <<>> /\ Front(n) = node}

Prefixed(node, prefix) == IsPrefix(prefix, node)

TrieSet(trie, components, value) ==
  LET path == {SubSeq(components, 1, k) : k \in 0 .. Len(components)}
  IN  (components :> value) @@ trie @@ [n \in path |-> -1]

(* The nodes on the way to an instance name, up to the first that is not   *)
(* there, that hold a value.                                               *)
Matches(trie, components) ==
  {k \in 0 .. Len(components) :
     SubSeq(components, 1, k) \in DOMAIN trie /\ trie[SubSeq(components, 1, k)] >= 0}

GetExact(trie, components) ==
  IF Len(components) \in Matches(trie, components) THEN trie[components] ELSE -1

ContainsExact(trie, components) == GetExact(trie, components) >= 0

ContainsPrefix(trie, components) == Matches(trie, components) # {}

GetLongestPrefix(trie, components) ==
  IF Matches(trie, components) = {}
  THEN -1
  ELSE trie[SubSeq(components, 1, Max(Matches(trie, components)))]


(* The number of components of the last node on the way whose edge may be  *)
(* cut: the root, or a node that is needed for something else.             *)
CutBelow(trie, components) ==
  Max({0} \cup {k \in 0 .. Len(components) - 1 :
                  LET n == SubSeq(components, 1, k)
                  IN  trie[n] >= 0 \/ Cardinality(Children(trie, n)) > 1})

TrieRemove(trie, components) ==
  IF components = <<>> \/ Children(trie, components) # {}
  THEN [trie EXCEPT ![components] = -1]
  ELSE Restrict(trie, {n \in DOMAIN trie :
         ~Prefixed(n, SubSeq(components, 1, CutBelow(trie, components) + 1))})

(* What Remove() returns. *)
TrieRemoved(trie, components) ==
  LET after == TrieRemove(trie, components)
  IN  after[<<>>] < 0 /\ Children(after, <<>>) = {}

-----------------------------------------------------------------------------
(* Sets of digests, as sorted lists. *)

Rank(d) == CHOOSE i \in DOMAIN DigestOrder : DigestOrder[i] = d

Build(digests) == SelectSeq(DigestOrder, LAMBDA d : d \in digests)

RemoveEmptyBlob(set) == SelectSeq(set, LAMBDA d : d.size # 0)

(* The list of sets grows by a set when a digest has a new instance name.  *)
PartitionByInstanceName(set) ==
  FoldLeft(LAMBDA parts, d :
             LET known == {i \in DOMAIN parts : parts[i][1].instance = d.instance}
             IN  IF known = {}
                 THEN Append(parts, <<d>>)
                 ELSE [parts EXCEPT ![CHOOSE i \in known : TRUE] = Append(@, d)],
           <<>>, set)

Prepend(result, field, d) == [result EXCEPT ![field] = <<d>> \o @]

RECURSIVE GetDifferenceAndIntersection(_, _)
GetDifferenceAndIntersection(a, b) ==
  CASE a = <<>> \/ b = <<>> -> [onlyA |-> a, both |-> <<>>, onlyB |-> b]
    [] a # <<>> /\ b # <<>> /\ Rank(a[1]) < Rank(b[1]) ->
         Prepend(GetDifferenceAndIntersection(Tail(a), b), "onlyA", a[1])
    [] a # <<>> /\ b # <<>> /\ a[1] = b[1] ->
         Prepend(GetDifferenceAndIntersection(Tail(a), Tail(b)), "both", a[1])
    [] OTHER -> Prepend(GetDifferenceAndIntersection(a, Tail(b)), "onlyB", b[1])

(* The set on top of the heap: one whose first digest is the lowest. *)
HeapTop(sets) ==
  CHOOSE i \in DOMAIN sets : \A j \in DOMAIN sets : Rank(sets[i][1]) <= Rank(sets[j][1])

(* The loop of GetUnion(): drop the lowest digest, copy the next lowest if *)
(* it differs from the last one copied.                                    *)
RECURSIVE MergeSets(_, _)
MergeSets(sets, out) ==
  LET top  == HeapTop(sets)
      rest == IF Len(sets[top]) = 1
              THEN RemoveAt(sets, top)
              ELSE [sets EXCEPT ![top] = Tail(@)]
  IN  IF rest = <<>>
      THEN out
      ELSE LET d == rest[HeapTop(rest)][1]
           IN  MergeSets(rest, IF d = Last(out) THEN out ELSE Append(out, d))

GetUnion(sets) ==
  LET active == SelectSeq(sets, LAMBDA s : s # <<>>)
  IN  CASE active = <<>>    -> <<>>
        [] Len(active) = 1  -> active[1]
        [] OTHER            -> MergeSets(active, <<active[HeapTop(active)][1]>>)
=============================================================================
