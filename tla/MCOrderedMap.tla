---------------------------- MODULE MCOrderedMap ----------------------------
(* Instances of OrderedMap for TLC. *)
EXTENDS OrderedMap

(* No guard reads what the last call returned. *)
WithoutResult == <<treeVars, cacheVars>>
=============================================================================
