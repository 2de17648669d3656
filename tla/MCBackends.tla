----------------------------- MODULE MCBackends -----------------------------
(***************************************************************************)
(* Model checking of components that don't interact with each other.  Each *)
(* behaviour is one of one of them; the others stay as they are.  They     *)
(* have safety properties only.                                            *)
(***************************************************************************)
EXTENDS MCStorageStack, ReadCanarying, NestedReplication, ZIPArchive, HierarchicalCASBlobAccess, SharedSectors,
        JSONWebTokens, OIDCSessions

VARIABLE component

vars == <<component, stackVars, canaryVars, nestedVars, zipVars, casVars, sectorVars, tokenVars, oidcVars>>

(* Directories that share children, and files that occur more than once. *)
MCObjects ==
  LET Object(type, nested, files) == [type |-> type, nested |-> nested, files |-> files]
  IN  [action |-> Object("Action", <<"root">>, {"command"}),
       root   |-> Object("Directory", <<"a", "b">>, {"f"}),
       a      |-> Object("Directory", <<"b", "c">>, {"f", "g"}),
       b      |-> Object("Directory", <<"c">>, {}),
       c      |-> Object("Directory", <<>>, {"g"}),
       tree   |-> Object("Tree", <<"a">>, {"f", "g"})]

(* Files of different sizes that are stored under the same key. *)
MCFiles == {[key |-> "a", data |-> <<"x">>], [key |-> "a", data |-> <<"y", "z">>]}

MCCASInstanceNames == {<<>>, <<"a">>}

(* A token that isn't valid at first, one that names its key, and one      *)
(* whose claims are rejected.                                              *)
Token(name, algorithm, keyID, signedBy, nbf, exp) ==
  [name |-> name, wellFormed |-> TRUE, algorithm |-> algorithm, keyID |-> keyID, signedBy |-> signedBy,
   claims |-> TRUE, extracts |-> TRUE, nbf |-> nbf, exp |-> exp]
Early == Token("early", "EdDSA", "", "k1", 1, 2)
Named == Token("named", "ES256", "b", "k2", 0, 1)
Refused == [Token("refused", "EdDSA", "", "k1", 0, 2) EXCEPT !.claims = FALSE]

MCTokens == {Early, Named, Refused}
MCHeaderLists == {<<Early>>, <<Refused, Early>>, <<Refused, Named>>, <<Named, Early>>}

(* The last of these has two keys with the same identifier. *)
MCKeySetFiles ==
  LET JWK(id, type, secret) == [id |-> id, type |-> type, secret |-> secret]
  IN  {<<JWK("", "Ed25519", "k1"), JWK("b", "ES256", "k2")>>,
       <<JWK("a", "Ed25519", "k1")>>,
       <<JWK("a", "Ed25519", "k1"), JWK("a", "RSA", "k3")>>}

-----------------------------------------------------------------------------
(* A component that is not the one to run has a single initial state. *)
Init ==
  /\ component \in {"stack", "canarying", "nested", "zip", "hierarchical", "sectors", "tokens", "sessions"}
  /\ StackInit
  /\ CanaryInit /\ (component = "canarying" \/ replicaUp)
  /\ NestedInit /\ (component = "nested" \/ blobsSeen = {"tree"})
  /\ ZIPInit
  /\ CASInit
  /\ SectorsInit
  /\ TokenInit /\ (component = "tokens" \/ keySet = <<[id |-> "a", type |-> "Ed25519", secret |-> "k1"]>>)
  /\ OIDCInit

Next ==
  /\ \/ /\ component = "stack" /\ StackNext
        /\ UNCHANGED <<canaryVars, nestedVars, zipVars, casVars, sectorVars, tokenVars, oidcVars>>
     \/ /\ component = "canarying" /\ CanaryNext
        /\ UNCHANGED <<stackVars, nestedVars, zipVars, casVars, sectorVars, tokenVars, oidcVars>>
     \/ /\ component = "nested" /\ NestedNext
        /\ UNCHANGED <<stackVars, canaryVars, zipVars, casVars, sectorVars, tokenVars, oidcVars>>
     \/ /\ component = "zip" /\ ZIPNext
        /\ UNCHANGED <<stackVars, canaryVars, nestedVars, casVars, sectorVars, tokenVars, oidcVars>>
     \/ /\ component = "hierarchical" /\ CASNext
        /\ UNCHANGED <<stackVars, canaryVars, nestedVars, zipVars, sectorVars, tokenVars, oidcVars>>
     \/ /\ component = "sectors" /\ SectorsNext
        /\ UNCHANGED <<stackVars, canaryVars, nestedVars, zipVars, casVars, tokenVars, oidcVars>>
     \/ /\ component = "tokens" /\ TokenNext
        /\ UNCHANGED <<stackVars, canaryVars, nestedVars, zipVars, casVars, sectorVars, oidcVars>>
     \/ /\ component = "sessions" /\ OIDCNext
        /\ UNCHANGED <<stackVars, canaryVars, nestedVars, zipVars, casVars, sectorVars, tokenVars>>
  /\ UNCHANGED component

Spec == Init /\ [][Next]_vars
=============================================================================
