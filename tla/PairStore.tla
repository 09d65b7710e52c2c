------------------------------ MODULE PairStore ------------------------------
(***************************************************************************)
(* What the index promises the program that uses it: one set of            *)
(* (key, value) pairs, changed by each request the moment it is issued,    *)
(* and a queue of lookup answers that are printed in the order the lookups *)
(* were issued, each holding the set as it stood at that moment.           *)
(*                                                                         *)
(* The set is the reference model the repository's tests compare the tree  *)
(* with (local-test/abpt/test_utils.hpp).                                  *)
(***************************************************************************)
EXTENDS Sequences

CONSTANTS
  Pairs,          (* the (key, value) pairs requests may name             *)
  LossyRemove     (* may a removal leave its pair in the store?           *)

VARIABLES
  event,          (* the request issued or the answer printed last        *)
  content,        (* the pairs the store holds                            *)
  pending         (* answers not printed yet, oldest first                *)

storeVars == <<event, content, pending>>

PairsOfKey(S, k) == {p \in S : p[1] = k}

NoEvent == <<"none", {}>>

StoreInit ==
  /\ event = NoEvent
  /\ content \in SUBSET Pairs
  /\ pending = <<>>

StoreInsert(p) ==
  /\ event' = <<"insert", p>>
  /\ content' = content \cup {p}
  /\ UNCHANGED pending

StoreRemove(p) ==
  /\ event' = <<"delete", p>>
  /\ \/ content' = content \ {p}
     \/ LossyRemove /\ content' = content
  /\ UNCHANGED pending

StoreFind(k) ==
  /\ event' = <<"find", k>>
  /\ pending' = Append(pending, PairsOfKey(content, k))
  /\ UNCHANGED content

StorePrint ==
  /\ pending # <<>>
  /\ event' = <<"print", Head(pending)>>
  /\ pending' = Tail(pending)
  /\ UNCHANGED content

StoreNext ==
  \/ \E p \in Pairs : StoreInsert(p) \/ StoreRemove(p) \/ StoreFind(p[1])
  \/ StorePrint

StoreSpec == StoreInit /\ [][StoreNext]_storeVars
==============================================================================
