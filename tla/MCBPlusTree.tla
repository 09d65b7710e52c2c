----------------------------- MODULE MCBPlusTree -----------------------------
(* Instances of BPlusTree for TLC. *)
EXTENDS BPlusTree

Build(lm, ls, im, is, ft) ==
  [leaf_merge |-> lm, leaf_split |-> ls, index_merge |-> im, index_split |-> is,
   FLUSH_THRESHOLD |-> ft]

(* The smallest nodes the code allows, of capacity 4; leaves of capacity   *)
(* 8, which lend several pairs; index nodes that underflow with a key      *)
(* left; and nodes so small that eight pairs make trees of four levels.    *)
SmallBuilds == {Build(1, 3, 1, 3, 12), Build(2, 6, 1, 3, 24),
                Build(1, 2, 2, 4, 10), Build(1, 2, 1, 2, 6)}

(* A state without page numbers, which mean nothing: the tree as nested    *)
(* nodes, each leaf with the first pair of its sibling, and the path by    *)
(* its positions.                                                          *)
RECURSIVE Nested(_)
Nested(n) ==
  IF node[n].children = <<>>
  THEN <<node[n].data, IF node[n].sibling \in DOMAIN node THEN node[node[n].sibling].data
                       ELSE <<node[n].sibling = NoPage>> >>
  ELSE <<node[n].data, [i \in 1 .. Len(node[n].children) |-> Nested(node[n].children[i])]>>

Unnumbered ==
  <<IF height = 0 THEN <<>> ELSE Nested(root), Cardinality(DOMAIN node), height,
    path.pos, path.after, pending, stored, build>>
=============================================================================
