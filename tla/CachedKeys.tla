----------------------------- MODULE CachedKeys -----------------------------
(***************************************************************************)
(* Cache replacement sets (pkg/eviction).                                  *)
(*                                                                         *)
(* A set is the sequence of its elements, in the order of its list.  As    *)
(* random replacement inserts anywhere, InsertInto() is the set of the     *)
(* sequences that may result.                                              *)
(***************************************************************************)
EXTENDS Integers, Sequences, FiniteSets, Functions

CONSTANT EvictionPolicy     \* "FIFO", "LRU" or "RR"

InsertInto(elements, value) ==
  {Append(elements, value)}
    \cup IF EvictionPolicy = "RR"
         THEN {[Append(elements, elements[i]) EXCEPT ![i] = value] : i \in DOMAIN elements}
         ELSE {}

Touch(elements, value) ==
  LET i == CHOOSE i \in DOMAIN elements : elements[i] = value
  IN  IF EvictionPolicy = "LRU"
      THEN Append(SubSeq(elements, 1, i - 1) \o SubSeq(elements, i + 1, Len(elements)), value)
      ELSE elements

Peek(elements) == IF EvictionPolicy = "RR" THEN elements[Len(elements)] ELSE Head(elements)

RemoveFrom(elements) ==
  IF EvictionPolicy = "RR" THEN SubSeq(elements, 1, Len(elements) - 1) ELSE Tail(elements)

(* What remains after having called Remove() a number of times. *)
RemoveMany(elements, n) ==
  IF EvictionPolicy = "RR" THEN SubSeq(elements, 1, Len(elements) - n) ELSE SubSeq(elements, n + 1, Len(elements))

(* The map whose keys such a set holds. *)
Assign(f, key, value) == [k \in DOMAIN f \cup {key} |-> IF k = key THEN value ELSE f[k]]
=============================================================================
