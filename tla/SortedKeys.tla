------------------------------ MODULE SortedKeys ------------------------------
(***************************************************************************)
(* What the map of include/stlite/map.hpp promises those who use it: a set *)
(* of keys in order, whose size is known, and iterators that stay on their *)
(* key, whatever is inserted or erased around it.                          *)
(***************************************************************************)
EXTENDS Integers, FiniteSets

CONSTANTS
  Keys,       (* the keys callers name                                     *)
  End         (* the position end()                                        *)

VARIABLES
  keys,       (* the keys the map holds                                    *)
  count,      (* what size() returns                                       *)
  result      (* the last call, and the position and flag it returned      *)

keysVars == <<keys, count, result>>

Least(S) == CHOOSE k \in S : \A j \in S : k <= j
Greatest(S) == CHOOSE k \in S : \A j \in S : j <= k

(* The first position of S, end() if there is none. *)
FirstOf(S) == IF S = {} THEN End ELSE Least(S)

Returns(call, position, flag) ==
  result' = [call |-> call, it |-> position, ok |-> flag]

Changes(S) == keys' = S /\ count' = Cardinality(S)
Reads == UNCHANGED <<keys, count>>

KeysInit ==
  /\ keys = {} /\ count = 0
  /\ result = [call |-> <<>>, it |-> End, ok |-> TRUE]

KeysInsert(k) == Changes(keys \cup {k}) /\ Returns(<<"insert", k>>, k, k \notin keys)
KeysErase(k) == Changes(keys \ {k}) /\ Returns(<<"erase", k>>, End, k \in keys)
KeysClear == Changes({}) /\ Returns(<<"clear">>, End, TRUE)
KeysCopy == Reads /\ Returns(<<"copy">>, End, TRUE)

KeysFind(k) == Reads /\ Returns(<<"find", k>>, IF k \in keys THEN k ELSE End, TRUE)
KeysLowerBound(k) ==
  Reads /\ Returns(<<"lower_bound", k>>, FirstOf({j \in keys : k <= j}), TRUE)
KeysBegin == Reads /\ Returns(<<"begin">>, FirstOf(keys), TRUE)

(* An iterator on key k moves to the next key, or to end(). *)
KeysNext(k) ==
  k \in keys /\ Reads /\ Returns(<<"++", k>>, FirstOf({j \in keys : j > k}), TRUE)

(* An iterator on key k, or on end(), moves to the key before. *)
KeysPrev(k) ==
  LET before == {j \in keys : k = End \/ j < k} IN
  /\ k \in keys \cup {End} /\ before # {}
  /\ Reads
  /\ Returns(<<"--", k>>, Greatest(before), TRUE)

KeysNextState ==
  \/ \E k \in Keys : \/ KeysInsert(k) \/ KeysErase(k)
                     \/ KeysFind(k) \/ KeysLowerBound(k) \/ KeysNext(k)
  \/ \E k \in Keys \cup {End} : KeysPrev(k)
  \/ KeysBegin \/ KeysClear \/ KeysCopy

KeysSpec == KeysInit /\ [][KeysNextState]_keysVars
===============================================================================
