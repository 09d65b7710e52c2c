------------------------------ MODULE BPlusTree ------------------------------
(***************************************************************************)
(* The tree inside AsyncBPlusTree (include/async_bpt.h): what flush() does *)
(* to the nodes.  The entries of the buffer are applied in ascending       *)
(* order.  Each descends to its leaf, or keeps the path of the entry       *)
(* before, changes the leaf, and then repairs sizes upwards, one node a    *)
(* step: split, borrow from a sibling, merge with one.                     *)
(*                                                                         *)
(* AsyncBPT has shown that a flush runs alone, and there the tree is a set *)
(* of pairs; this module is about the nodes that hold the set.  Only the   *)
(* order of pairs matters, so a pair is a number.                          *)
(***************************************************************************)
EXTENDS Integers, FiniteSets, SequencesExt

CONSTANTS
  Pairs,     (* the pairs, in their order                                  *)
  Builds,    (* what the program may have been compiled with               *)
  NoPage     (* the null handle                                            *)

(* Page size, pair types and USE_SMALL_BATCH fix the capacity c >= 4 of    *)
(* each kind of node, and with it the thresholds c/4 and 3c/4; the last    *)
(* one bounds the entries of one flush.                                    *)
BuildFields == {"leaf_merge", "leaf_split", "index_merge", "index_split", "FLUSH_THRESHOLD"}

(* A pair has a fixed size, so there are finitely many.  The last conjunct *)
(* keeps the bulk load of one flush from building an index node with a     *)
(* single child.                                                           *)
ASSUME BuildsAssumption ==
  /\ Pairs \subseteq Int /\ IsFiniteSet(Pairs)
  /\ NoPage \notin Nat
  /\ Builds \subseteq [BuildFields -> Nat \ {0}]
  /\ \A b \in Builds : /\ 2 * b.leaf_merge <= b.leaf_split
                       /\ 2 * b.index_merge <= b.index_split
                       /\ b.FLUSH_THRESHOLD <= b.leaf_split * (b.index_split + 1)

VARIABLES
  node,      (* the pages in use and the node in each                      *)
  root,      (* root_handle_                                               *)
  height,    (* tree_height_                                               *)
  path,      (* the pinned path of the entry in work, or NoPath            *)
  pending,   (* the repair that is due, and the node of the path it is on  *)
  stored,    (* history: the pairs the entries so far leave stored         *)
  build      (* the build that is running                                  *)

vars == <<node, root, height, path, pending, stored, build>>

LeafMerge == build.leaf_merge
LeafSplit == build.leaf_split
IndexMerge == build.index_merge
IndexSplit == build.index_split

(* A path names the pages from the root to a leaf and, for every index     *)
(* node, the position of the child taken; "after" is the last entry that   *)
(* has been applied along it.                                              *)
NoPath == [pages |-> <<>>, pos |-> <<>>, after |-> {}]
NoRepair == [kind |-> "none", level |-> 0]

LeafNode(data, sibling) == [data |-> data, children |-> <<>>, sibling |-> sibling]
IndexNode(data, children) == [data |-> data, children |-> children, sibling |-> NoPage]

size(n) == Len(node[n].data)

Ascending(S) ==
  [i \in 1 .. Cardinality(S) |-> CHOOSE p \in S : Cardinality({q \in S : q < p}) = i - 1]

Init ==
  /\ node = <<>>
  /\ root = NoPage
  /\ height = 0
  /\ path = NoPath
  /\ pending = NoRepair
  /\ stored = {}
  /\ build \in Builds

-----------------------------------------------------------------------------
(***************************************************************************)
(* Pages.  Their numbers mean nothing: a new one is any that is free.      *)
(***************************************************************************)

NewPage(m) == CHOOSE n \in 1 .. Cardinality(DOMAIN m) + 1 : n \notin DOMAIN m

With(m, n, contents) ==
  [q \in DOMAIN m \cup {n} |-> IF q = n THEN contents ELSE m[q]]

Without(m, n) == [q \in DOMAIN m \ {n} |-> m[q]]

-----------------------------------------------------------------------------
(***************************************************************************)
(* Descent and scan.  Positions count from 0, as in the code.              *)
(***************************************************************************)

(* Both binary searches, by what they find in a sorted array. *)
find_idx_in_index(n, p) == Cardinality({i \in 1 .. size(n) : node[n].data[i] <= p})
lower_bound_in_leaf(n, p) == Cardinality({i \in 1 .. size(n) : node[n].data[i] < p})

find_path(p) ==
  LET at[k \in 1 .. height] ==
        IF k = 1 THEN root
        ELSE LET n == at[k - 1] IN node[n].children[find_idx_in_index(n, p) + 1]
  IN [pages |-> [k \in 1 .. height |-> at[k]],
      pos |-> [k \in 1 .. height - 1 |-> find_idx_in_index(at[k], p)],
      after |-> {}]

leaf_of(w) == Last(w.pages)

(* find_range_on_bpt_async without an upper end: the pairs from p on, leaf *)
(* after leaf along the siblings.                                          *)
find_range_on_bpt(p) ==
  LET from(n) == SubSeq(node[n].data, lower_bound_in_leaf(n, p) + 1, size(n))
      chain[k \in 1 .. Cardinality(DOMAIN node)] ==
        IF k = 1 THEN leaf_of(find_path(p))
        ELSE LET n == chain[k - 1] IN IF n = NoPage THEN NoPage ELSE node[n].sibling
  IN IF height = 0 THEN <<>>
     ELSE FlattenSeq([k \in 1 .. Cardinality(DOMAIN node) |->
                        IF chain[k] = NoPage THEN <<>> ELSE from(chain[k])])

-----------------------------------------------------------------------------
(***************************************************************************)
(* The prefetch looks ahead of the entry in work for pages the entries to  *)
(* come will read: get_prefetch_id calls next_prefetch_step for one        *)
(* of them after the other, on the index nodes it still holds from the     *)
(* call before.                                                            *)
(***************************************************************************)

(* Mutant: the step goes on from the deepest node held, whatever it covers. *)
TurnAtDeepest(held, p) == Len(held)

(* The deepest of the nodes held that has a key above p, or the root. *)
Turn(held, p) ==
  Max({1} \cup {k \in 1 .. Len(held) : find_idx_in_index(held[k], p) < size(held[k])})

(* From there down to the first page that is not in memory, if there is    *)
(* one.  Memory is given by the level "missing" from which on the pages of *)
(* this descent are not in it.  The keys passed on the right bound the     *)
(* entries that would go the same way: the look-ahead skips them.          *)
next_prefetch_step(held, p, missing) ==
  LET turn == Turn(held, p)
      walk[k \in 1 .. height] ==
        IF k <= turn THEN held[k]
        ELSE LET n == walk[k - 1] IN node[n].children[find_idx_in_index(n, p) + 1]
      end == IF missing > height THEN height ELSE Max({turn + 1, missing})
      keys(k) == {node[walk[k]].data[i] : i \in {find_idx_in_index(walk[k], p) + 1}
                                                    \cap (1 .. size(walk[k]))}
      bounding == {k \in turn .. end - 1 : keys(k) # {}}
  IN [page |-> walk[end],
      bound |-> IF bounding = {} THEN {} ELSE keys(Max(bounding)),
      held |-> [k \in 1 .. (IF missing > height THEN height - 1 ELSE end - 1) |-> walk[k]]]

-----------------------------------------------------------------------------
(***************************************************************************)
(* One entry at its leaf: handle_operation up to its loop.                 *)
(***************************************************************************)

(* Mutant: the end of the leaf's range is not looked at. *)
InLeafOrAfter(data, p) == data # <<>> /\ data[1] <= p

(* The next entry keeps the path if its pair lies within the leaf. *)
InLeaf(data, p) == data # <<>> /\ data[1] <= p /\ p <= Last(data)

(* An entry on p may be next: any without a path; on a path, one that is   *)
(* greater and within the leaf.                                            *)
Reaches(p) ==
  /\ pending = NoRepair
  /\ height > 0
  /\ path # NoPath => /\ \A q \in path.after : q < p
                      /\ InLeaf(node[leaf_of(path)].data, p)

PathOf(p) == IF path = NoPath THEN find_path(p) ELSE path

(* Nothing to repair.  The path is kept if the next entry will use it.     *)
(* Without a path it makes no difference whether the flush goes on or      *)
(* another one begins, so any entry may be next.                           *)
Settled(w, p, data) ==
  /\ pending' = NoRepair
  /\ \/ path' = NoPath
     \/ /\ \E q \in Pairs : q > p /\ InLeaf(data, q)
        /\ path' = [w EXCEPT !.after = {p}]

Repair(w, kind, level) ==
  /\ pending' = [kind |-> kind, level |-> level]
  /\ path' = w

(* The entry on p changes nothing in the leaf. *)
NoChange(p) ==
  LET w == PathOf(p)
  IN /\ Settled(w, p, node[leaf_of(w)].data)
     /\ UNCHANGED <<node, root, height, stored, build>>

InsertPresent(p) ==
  /\ Reaches(p)
  /\ p \in ToSet(node[leaf_of(PathOf(p))].data)
  /\ NoChange(p)

DeleteAbsent(p) ==
  /\ Reaches(p)
  /\ p \notin ToSet(node[leaf_of(PathOf(p))].data)
  /\ NoChange(p)

Insert(p) ==
  /\ Reaches(p)
  /\ LET w == PathOf(p)
         n == leaf_of(w)
         data == InsertAt(node[n].data, lower_bound_in_leaf(n, p) + 1, p)
     IN /\ p \notin ToSet(node[n].data)
        /\ node' = [node EXCEPT ![n].data = data]
        /\ IF Len(data) > LeafSplit THEN Repair(w, "overflow", height)
           ELSE Settled(w, p, data)
  /\ stored' = stored \cup {p}
  /\ UNCHANGED <<root, height, build>>

(* A root that is a leaf may have any size but 0. *)
Delete(p) ==
  /\ Reaches(p)
  /\ LET w == PathOf(p)
         n == leaf_of(w)
         data == RemoveAt(node[n].data, lower_bound_in_leaf(n, p) + 1)
         least == IF height = 1 THEN 1 ELSE LeafMerge
     IN /\ p \in ToSet(node[n].data)
        /\ node' = [node EXCEPT ![n].data = data]
        /\ IF Len(data) < least THEN Repair(w, "underflow", height)
           ELSE Settled(w, p, data)
  /\ stored' = stored \ {p}
  /\ UNCHANGED <<root, height, build>>

(* The entries before have emptied the tree.  (A DELETE finds nothing to   *)
(* do there, and a flush that begins there loads in bulk.)                 *)
InsertIntoEmpty(p) ==
  /\ height = 0
  /\ node' = With(node, NewPage(node), LeafNode(<<p>>, NoPage))
  /\ root' = NewPage(node)
  /\ height' = 1
  /\ stored' = stored \cup {p}
  /\ UNCHANGED <<path, pending, build>>

-----------------------------------------------------------------------------
(***************************************************************************)
(* Repair after an insertion.                                              *)
(***************************************************************************)

(* The node to be repaired, its parent, and its position there. *)
Parent == path.pages[pending.level - 1]
child_idx == path.pos[pending.level - 1]
Child(i) == node[Parent].children[i + 1]

Due(kind) == pending.kind = kind
AtLeaf == pending.level = height /\ height > 1
AtIndex == 1 < pending.level /\ pending.level < height
AtRoot == pending.level = 1

(* The entry is done, or its parent is the next to be repaired. *)
Propagate(kind, needed) ==
  IF needed
  THEN pending' = [kind |-> kind, level |-> pending.level - 1] /\ UNCHANGED path
  ELSE pending' = NoRepair /\ path' = NoPath

(* The upper half of old moves to the page new, and joins the chain. *)
SplitLeaf(m, old, new) ==
  LET half == Len(m[old].data) \div 2
  IN With([m EXCEPT ![old] = LeafNode(SubSeq(@.data, 1, half), new)],
          new, LeafNode(SubSeq(m[old].data, half + 1, Len(m[old].data)), m[old].sibling))

KeysKept(data) == (Len(data) - 1) \div 2

(* Mutant: the promoted key also stays in the new node's place. *)
SplitIndexOffByOne(m, old, new) ==
  LET data == m[old].data  children == m[old].children  kept == KeysKept(data)
  IN With([m EXCEPT ![old] = IndexNode(SubSeq(data, 1, kept), SubSeq(children, 1, kept + 1))],
          new, IndexNode(SubSeq(data, kept + 1, Len(data) - 1),
                         SubSeq(children, kept + 2, Len(children))))

(* The key between the halves goes up. *)
SplitIndex(m, old, new) ==
  LET data == m[old].data  children == m[old].children  kept == KeysKept(data)
  IN With([m EXCEPT ![old] = IndexNode(SubSeq(data, 1, kept), SubSeq(children, 1, kept + 1))],
          new, IndexNode(SubSeq(data, kept + 2, Len(data)),
                         SubSeq(children, kept + 2, Len(children))))

AddChild(m, n, i, key, child) ==
  [m EXCEPT ![n] = IndexNode(InsertAt(@.data, i + 1, key), InsertAt(@.children, i + 2, child))]

handle_leaf_overflow ==
  /\ Due("overflow") /\ AtLeaf
  /\ LET new == NewPage(node)
         split == SplitLeaf(node, Child(child_idx), new)
     IN node' = AddChild(split, Parent, child_idx, split[new].data[1], new)
  /\ Propagate("overflow", Len(node'[Parent].data) > IndexSplit)
  /\ UNCHANGED <<root, height, stored, build>>

PromotedKey(n) == node[n].data[KeysKept(node[n].data) + 1]

handle_index_overflow ==
  /\ Due("overflow") /\ AtIndex
  /\ LET old == Child(child_idx)
         new == NewPage(node)
     IN node' = AddChild(SplitIndex(node, old, new), Parent, child_idx, PromotedKey(old), new)
  /\ Propagate("overflow", Len(node'[Parent].data) > IndexSplit)
  /\ UNCHANGED <<root, height, stored, build>>

(* A root of two children above the halves of the old one. *)
handle_root_overflow ==
  /\ Due("overflow") /\ AtRoot
  /\ LET top == NewPage(node)
         grown == With(node, top, IndexNode(<<>>, <<root>>))
         new == NewPage(grown)
         split == IF height = 1 THEN SplitLeaf(grown, root, new)
                  ELSE SplitIndex(grown, root, new)
         key == IF height = 1 THEN split[new].data[1] ELSE PromotedKey(root)
     IN /\ node' = AddChild(split, top, 0, key, new)
        /\ root' = top
  /\ height' = height + 1
  /\ pending' = NoRepair
  /\ path' = NoPath
  /\ UNCHANGED <<stored, build>>

-----------------------------------------------------------------------------
(***************************************************************************)
(* Repair after a removal.                                                 *)
(***************************************************************************)

HasLeft == child_idx > 0
HasRight == child_idx < size(Parent)
Current == Child(child_idx)
Left == Child(child_idx - 1)
Right == Child(child_idx + 1)

(* How many pairs come over from the sibling n: half the difference, or at *)
(* least one.                                                              *)
NumToMove(n) ==
  LET half == IF size(n) > size(Current) THEN (size(n) - size(Current)) \div 2
              ELSE (size(n) - LeafMerge) \div 2
  IN IF half = 0 /\ size(n) > LeafMerge THEN 1 ELSE half

(* Mutants: a sibling at the threshold lends too. *)
LeafCanLendAtThreshold(n) == size(n) >= LeafMerge
IndexCanLendAtThreshold(n) == size(n) >= IndexMerge

LeafCanLend(n) ==
  /\ size(n) > LeafMerge
  /\ size(n) + size(Current) >= 2 * LeafMerge + 1
  /\ NumToMove(n) > 0
  /\ size(n) >= LeafMerge + NumToMove(n)

IndexCanLend(n) ==
  /\ size(n) > IndexMerge
  /\ size(n) + size(Current) + 1 >= 2 * IndexMerge + 1

(* Mutant: the separator of the two leaves stays as it was. *)
BorrowLeafLeftKeepingKey ==
  LET k == size(Left) - NumToMove(Left)
      data == node[Left].data
  IN node' = [node EXCEPT ![Left].data = SubSeq(data, 1, k),
                          ![Current].data = SubSeq(data, k + 1, Len(data)) \o @]

BorrowLeafLeft ==
  LET k == size(Left) - NumToMove(Left)
      data == node[Left].data
  IN node' = [node EXCEPT ![Left].data = SubSeq(data, 1, k),
                          ![Current].data = SubSeq(data, k + 1, Len(data)) \o @,
                          ![Parent].data[child_idx] = data[k + 1]]

BorrowLeafRight ==
  LET k == NumToMove(Right)
      data == node[Right].data
  IN node' = [node EXCEPT ![Right].data = SubSeq(data, k + 1, Len(data)),
                          ![Current].data = @ \o SubSeq(data, 1, k),
                          ![Parent].data[child_idx + 1] = data[k + 1]]

(* One child and the key above it turn around the parent's key. *)
BorrowIndexLeft ==
  node' = [node EXCEPT
             ![Left] = IndexNode(Front(@.data), Front(@.children)),
             ![Current] = IndexNode(<<node[Parent].data[child_idx]>> \o @.data,
                                    <<Last(node[Left].children)>> \o @.children),
             ![Parent].data[child_idx] = Last(node[Left].data)]

BorrowIndexRight ==
  node' = [node EXCEPT
             ![Right] = IndexNode(Tail(@.data), Tail(@.children)),
             ![Current] = IndexNode(Append(@.data, node[Parent].data[child_idx + 1]),
                                    Append(@.children, Head(node[Right].children))),
             ![Parent].data[child_idx + 1] = Head(node[Right].data)]

(* Left of the pair to be merged: the node itself, or its left sibling if  *)
(* the node is the last child.                                             *)
MergeIdx == IF HasRight THEN child_idx ELSE child_idx - 1

DropChild(m, n, i) ==
  [m EXCEPT ![n] = IndexNode(RemoveAt(@.data, i + 1), RemoveAt(@.children, i + 2))]

(* Mutant: the page of the right leaf is not given back. *)
MergeLeafKeepingPage(i) ==
  LET left == Child(i)  right == Child(i + 1)
  IN DropChild([node EXCEPT ![left] = LeafNode(@.data \o node[right].data, node[right].sibling)],
               Parent, i)

merge_leaf_with_right(i) ==
  LET left == Child(i)  right == Child(i + 1)
      merged == [node EXCEPT ![left] = LeafNode(@.data \o node[right].data, node[right].sibling)]
  IN DropChild(Without(merged, right), Parent, i)

(* Mutant: the parent's key is not pulled down. *)
MergeIndexWithoutKey(i) ==
  LET left == Child(i)  right == Child(i + 1)
      merged == [node EXCEPT ![left] = IndexNode(@.data \o node[right].data,
                                                 @.children \o node[right].children)]
  IN DropChild(Without(merged, right), Parent, i)

merge_index_with_right(i) ==
  LET left == Child(i)  right == Child(i + 1)
      merged == [node EXCEPT ![left] =
                   IndexNode(Append(@.data, node[Parent].data[i + 1]) \o node[right].data,
                             @.children \o node[right].children)]
  IN DropChild(Without(merged, right), Parent, i)

(* Left sibling, right sibling, or merge: the first that is possible.      *)
handle_leaf_underflow ==
  /\ Due("underflow") /\ AtLeaf
  /\ LET fromLeft == HasLeft /\ LeafCanLend(Left)
         fromRight == ~fromLeft /\ HasRight /\ LeafCanLend(Right)
     IN \/ fromLeft /\ BorrowLeafLeft /\ Propagate("underflow", FALSE)
        \/ fromRight /\ BorrowLeafRight /\ Propagate("underflow", FALSE)
        \/ /\ ~fromLeft /\ ~fromRight
           /\ node' = merge_leaf_with_right(MergeIdx)
           /\ Propagate("underflow", Len(node'[Parent].data) < IndexMerge)
  /\ UNCHANGED <<root, height, stored, build>>

handle_index_underflow ==
  /\ Due("underflow") /\ AtIndex
  /\ LET fromLeft == HasLeft /\ IndexCanLend(Left)
         fromRight == ~fromLeft /\ HasRight /\ IndexCanLend(Right)
     IN \/ fromLeft /\ BorrowIndexLeft /\ Propagate("underflow", FALSE)
        \/ fromRight /\ BorrowIndexRight /\ Propagate("underflow", FALSE)
        \/ /\ ~fromLeft /\ ~fromRight
           /\ node' = merge_index_with_right(MergeIdx)
           /\ Propagate("underflow", Len(node'[Parent].data) < IndexMerge)
  /\ UNCHANGED <<root, height, stored, build>>

(* An index root that is left with one child gives way to it, an empty     *)
(* leaf to nothing; an index root with a key stays.                        *)
handle_root_underflow ==
  /\ Due("underflow") /\ AtRoot
  /\ IF size(root) = 0
     THEN /\ node' = Without(node, root)
          /\ root' = IF height = 1 THEN NoPage ELSE node[root].children[1]
          /\ height' = height - 1
     ELSE UNCHANGED <<node, root, height>>
  /\ pending' = NoRepair
  /\ path' = NoPath
  /\ UNCHANGED <<stored, build>>

-----------------------------------------------------------------------------
(***************************************************************************)
(* A flush that finds no root builds the tree from its insertions.         *)
(***************************************************************************)

(* s cut into pieces of k, the last one as it comes. *)
Chunks(s, k) ==
  [i \in 1 .. (Len(s) + k - 1) \div k |-> SubSeq(s, (i - 1) * k + 1, Min({i * k, Len(s)}))]

(* One more level: index nodes over groups of the nodes of the level       *)
(* below.  A separator is the first pair below the child to its right.     *)
Parents(b) ==
  LET groups == Chunks(b.level, IndexSplit + 1)
      base == Len(b.node)
      index(g) == IndexNode([i \in 1 .. Len(g) - 1 |-> g[i + 1].first],
                            [i \in 1 .. Len(g) |-> g[i].page])
  IN [node |-> b.node \o [i \in 1 .. Len(groups) |-> index(groups[i])],
      level |-> [i \in 1 .. Len(groups) |-> [page |-> base + i, first |-> groups[i][1].first]],
      height |-> b.height + 1]

(* The lowest level: leaves chained in their order. *)
Leaves(sorted) ==
  LET chunks == Chunks(sorted, LeafSplit)
      next(i) == IF i = Len(chunks) THEN NoPage ELSE i + 1
  IN [node |-> [i \in 1 .. Len(chunks) |-> LeafNode(chunks[i], next(i))],
      level |-> [i \in 1 .. Len(chunks) |-> [page |-> i, first |-> chunks[i][1]]],
      height |-> 1]

initialize_from_vector(S) ==
  /\ height = 0
  /\ S # {} /\ Cardinality(S) <= build.FLUSH_THRESHOLD
  /\ LET built[k \in 1 .. Cardinality(S)] ==
           IF k = 1 THEN Leaves(Ascending(S))
           ELSE LET b == built[k - 1] IN IF Len(b.level) = 1 THEN b ELSE Parents(b)
         done == built[Cardinality(S)]
     IN /\ node' = done.node
        /\ root' = done.level[1].page
        /\ height' = done.height
  /\ stored' = stored \cup S
  /\ UNCHANGED <<path, pending, build>>

-----------------------------------------------------------------------------

(* One entry of the buffer, applied to its leaf. *)
Entry ==
  \E p \in Pairs :
    Insert(p) \/ InsertPresent(p) \/ Delete(p) \/ DeleteAbsent(p) \/ InsertIntoEmpty(p)

RepairStep ==
  \/ handle_leaf_overflow \/ handle_index_overflow \/ handle_root_overflow
  \/ handle_leaf_underflow \/ handle_index_underflow \/ handle_root_underflow

Next ==
  \/ Entry
  \/ RepairStep
  \/ \E S \in SUBSET Pairs : initialize_from_vector(S)

Spec == Init /\ [][Next]_vars

-----------------------------------------------------------------------------
(* The pages of level k of the tree, from left to right. *)
Level[k \in 1 .. height] ==
  IF k = 1 THEN <<root>>
  ELSE LET above == Level[k - 1]
       IN FlattenSeq([i \in 1 .. Len(above) |-> node[above[i]].children])

(* The variables hold what the code's types allow, and every node is of    *)
(* the kind its level asks for: leaves at the bottom only, and one more    *)
(* child than keys above (the code reads a page as one or the other by its *)
(* level alone).                                                           *)
TypeOK ==
  /\ height \in Nat
  /\ root \in DOMAIN node \cup {NoPage}
  /\ height = 0 <=> root = NoPage
  /\ path = NoPath \/ DOMAIN path.pages = 1 .. height
  /\ pending = NoRepair \/ (pending.level \in 1 .. height /\ path # NoPath)
  /\ stored \subseteq Pairs
  /\ \A k \in 1 .. height : \A n \in ToSet(Level[k]) :
       /\ n \in DOMAIN node
       /\ IF k = height THEN node[n].children = <<>>
          ELSE Len(node[n].children) = size(n) + 1

(* After every step, a split, borrow or merge that is only half way up     *)
(* included, a scan that descends to any pair finds exactly the stored     *)
(* pairs from there on, each once and in order: separators, leaves and the *)
(* chain of siblings agree (find_path, find_range_on_bpt_async).           *)
ScansFindStored ==
  \A p \in Pairs :
    find_range_on_bpt(p) = Ascending({q \in stored : q >= p})

(* The pages in use are those of the tree, and each is in it once: no      *)
(* repair forgets a page, gives back one that is in use, or hangs one      *)
(* below two parents (create_mutable, remove).                             *)
PagesExact ==
  LET all == IF height = 0 THEN <<>> ELSE FlattenSeq([k \in 1 .. height |-> Level[k]])
  IN /\ ToSet(all) = DOMAIN node
     /\ Len(all) = Cardinality(DOMAIN node)

(* Between entries every node is within its thresholds: no leaf is empty,  *)
(* no index node has a single child (whose repair would look for a         *)
(* sibling before the first), and none is above split_threshold; during a  *)
(* repair only the node it is on may be.  Thus no array overruns.          *)
NodesFit ==
  \A n \in DOMAIN node :
    \/ pending # NoRepair /\ n = path.pages[pending.level]
    \/ /\ size(n) >= 1
       /\ size(n) <= IF node[n].children = <<>> THEN LeafSplit ELSE IndexSplit

(* The prefetch asks only for pages that the entry it looks at will read,  *)
(* the entries it skips would read the same page, and it always gets past  *)
(* the entry it looked at (next_prefetch_step, get_prefetch_id).           *)
PrefetchesAhead ==
  pending = NoRepair /\ height > 1 =>
    LET pages == [p \in Pairs |-> find_path(p).pages]
    IN \A q \in Pairs, missing \in 2 .. height + 1 :
       \A held \in {SubSeq(pages[p], 1, l) : p \in {x \in Pairs : x <= q}, l \in 1 .. height - 1} :
         LET step == next_prefetch_step(held, q, missing)
         IN /\ IsPrefix(step.held, pages[q])
            /\ \A b \in step.bound : q < b
            /\ \A x \in Pairs :
                 x >= q /\ (\A b \in step.bound : x < b) => step.page \in ToSet(pages[x])

(* A path that is kept for the next entry is the one a new descent would   *)
(* take, for every pair the check of the leaf's range lets through.        *)
KeptPathIsFresh ==
  pending = NoRepair /\ path # NoPath =>
    \A p \in Pairs :
      Reaches(p) => [find_path(p) EXCEPT !.after = path.after] = path
=============================================================================
