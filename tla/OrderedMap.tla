------------------------------ MODULE OrderedMap ------------------------------
(***************************************************************************)
(* The ordered map of include/stlite/map.hpp: an AVL tree of nodes with    *)
(* parent pointers.  The write buffer of the tree, page_table, ongoing and *)
(* evict_order are such maps, and both the flush and the slots of the pool *)
(* keep iterators into them while other entries come and go.               *)
(*                                                                         *)
(* An iterator is a pointer to a node, and an erase moves nodes instead of *)
(* values, so a node stands for its key as long as it lives.  The values   *)
(* of the entries are left out.                                            *)
(***************************************************************************)
EXTENDS Integers, SequencesExt

CONSTANTS
  Keys,           (* the keys callers name                                 *)
  null            (* nullptr, and the iterator end()                       *)

ASSUME KeysAssumption == Keys \subseteq Int /\ null \notin Keys

VARIABLES
  root,
  node,           (* the nodes allocated, by key                           *)
  _size,
  front_cache, last_cache, is_dirty,
  result          (* the last call, and what it returned                   *)

cacheVars == <<front_cache, last_cache, is_dirty>>
treeVars == <<root, node, _size>>
vars == <<treeVars, cacheVars, result>>

(* The nodes and the root of the tree, as the operations pass them on. *)
Tree == [root |-> root, node |-> node]

Freed == [ls |-> null, rs |-> null, parent |-> null, height |-> 0]
NewNode(father) == [ls |-> null, rs |-> null, parent |-> father, height |-> 1]

Other(side) == IF side = "ls" THEN "rs" ELSE "ls"

-------------------------------------------------------------------------------
(***************************************************************************)
(* Walking the tree.                                                       *)
(***************************************************************************)

(* The last node on the way from n to one side: find_min, find_max. *)
Outermost(t, n, side) ==
  LET walk[x \in Keys] == IF t.node[x][side] = null THEN x ELSE walk[t.node[x][side]]
  IN IF n = null THEN null ELSE walk[n]

find_min(t) == Outermost(t, t.root, "ls")
find_max(t) == Outermost(t, t.root, "rs")

(* Node::next() for side "rs", Node::prev() for "ls". *)
Neighbour(t, n, side) ==
  LET up[x \in Keys] ==
        LET father == t.node[x].parent IN
        IF father # null /\ t.node[father][side] = x THEN up[father] ELSE father
  IN IF t.node[n][side] # null
     THEN Outermost(t, t.node[n][side], Other(side))
     ELSE up[n]

next(t, n) == Neighbour(t, n, "rs")
prev(t, n) == Neighbour(t, n, "ls")

(* The node of key k, or the node it would hang below, and on which side. *)
find_unique(t, k) ==
  LET side(x) == IF k < x THEN "ls" ELSE "rs"
      walk[x \in Keys] ==
        IF x = k THEN [curr |-> x, father |-> null, side |-> "rs"]
        ELSE IF t.node[x][side(x)] = null
             THEN [curr |-> null, father |-> x, side |-> side(x)]
             ELSE walk[t.node[x][side(x)]]
  IN IF t.root = null THEN [curr |-> null, father |-> null, side |-> "rs"]
     ELSE walk[t.root]

lower_bound(t, k) ==
  LET found == find_unique(t, k) IN
  IF found.curr # null THEN found.curr
  ELSE IF found.father = null \/ found.side = "ls" THEN found.father
  ELSE next(t, found.father)

-------------------------------------------------------------------------------
(***************************************************************************)
(* Restoring the balance.                                                  *)
(***************************************************************************)
h(t, n) == IF n = null THEN 0 ELSE t.node[n].height

update_height(t, n) ==
  LET l == h(t, t.node[n].ls)
      r == h(t, t.node[n].rs)
  IN [t EXCEPT !.node[n].height = (IF l > r THEN l ELSE r) + 1]

(* The link that leads to n, from its father or from root, leads to x. *)
Relink(t, n, x) ==
  LET father == t.node[n].parent IN
  IF t.root = n THEN [t EXCEPT !.root = x]
  ELSE IF t.node[father].ls = n THEN [t EXCEPT !.node[father].ls = x]
  ELSE [t EXCEPT !.node[father].rs = x]

SetParent(t, n, father) ==
  IF n = null THEN t ELSE [t EXCEPT !.node[n].parent = father]

(* rotate_left for side "ls", rotate_right for "rs": the child on the      *)
(* other side takes the place of n, and n goes down to this side.          *)
Rotate(t, n, side) ==
  LET far == Other(side)
      up == t.node[n][far]
      inner == t.node[up][side]
      raised == SetParent(Relink(t, n, up), up, t.node[n].parent)
      joined == [raised EXCEPT !.node[n][far] = inner, !.node[up][side] = n,
                               !.node[n].parent = up]
  IN update_height(update_height(SetParent(joined, inner, n), n), up)

(* Mutant: the inner grandchild is not looked at. *)
LeanInSingle(t, n, side) == Rotate(t, n, Other(side))

(* n has a child on this side two levels higher than the other: one        *)
(* rotation, or two if the inner grandchild is the higher one.             *)
LeanIn(t, n, side) ==
  LET child == t.node[n][side]
      outer == t.node[child][side]
      inner == t.node[child][Other(side)]
  IN IF h(t, outer) >= h(t, inner)
     THEN Rotate(t, n, Other(side))
     ELSE Rotate(Rotate(t, child, side), n, Other(side))

(* One level of maintain(). *)
Rebalance(t, n) ==
  LET u == update_height(t, n)
      lean == h(u, u.node[n].ls) - h(u, u.node[n].rs)
  IN CASE lean = 2 -> LeanIn(u, n, "ls")
       [] lean = -2 -> LeanIn(u, n, "rs")
       [] OTHER -> u

(* n and its ancestors, the nodes maintain() comes to. *)
Lineage(t, n) ==
  LET line[x \in Keys] ==
        IF t.node[x].parent = null THEN <<x>> ELSE <<x>> \o line[t.node[x].parent]
  IN line[n]

maintain(t, n) == FoldLeft(Rebalance, t, Lineage(t, n))

-------------------------------------------------------------------------------
(***************************************************************************)
(* Inserting and erasing.                                                  *)
(***************************************************************************)

(* FindResult::new_node(). *)
new_node(t, k, found) ==
  LET grown == [t EXCEPT !.node[k] = NewNode(found.father)] IN
  IF found.father = null THEN [grown EXCEPT !.root = k]
  ELSE [grown EXCEPT !.node[found.father][found.side] = k]

(* Nodes u and v exchange their places; each keeps its height. *)
swap(t, u, v) ==
  LET x(n) == CASE n = u -> v [] n = v -> u [] OTHER -> n
      placed(n) == [t.node[x(n)] EXCEPT !.ls = x(@), !.rs = x(@), !.parent = x(@)]
  IN [root |-> x(t.root),
      node |-> [n \in Keys |-> [placed(n) EXCEPT !.height = t.node[n].height]]]

(* The leaf n leaves the tree, which is balanced again from its father up. *)
CutLeaf(t, n) ==
  LET father == t.node[n].parent
      cut == [Relink(t, n, null) EXCEPT !.node[n] = Freed]
  IN IF father = null THEN cut ELSE maintain(cut, father)

(* A node with two children first changes places with the next one, a node *)
(* with one child with that child.                                         *)
Erased(t, n) ==
  LET inner == IF null \in {t.node[n].ls, t.node[n].rs} THEN t ELSE swap(t, n, next(t, n))
      child == IF inner.node[n].ls # null THEN inner.node[n].ls ELSE inner.node[n].rs
  IN CutLeaf(IF child = null THEN inner ELSE swap(inner, n, child), n)

Becomes(t) == root' = t.root /\ node' = t.node
Returns(call, position, flag) ==
  result' = [call |-> call, it |-> position, ok |-> flag]
Reads == UNCHANGED <<treeVars, cacheVars>>

Init ==
  /\ root = null
  /\ node = [k \in Keys |-> Freed]
  /\ _size = 0
  /\ front_cache = null /\ last_cache = null /\ is_dirty = FALSE
  /\ result = [call |-> <<>>, it |-> null, ok |-> TRUE]

(* Mutant: the caches are kept over an insertion. *)
InsertKeepingCaches(k) ==
  LET found == find_unique(Tree, k) IN
  \/ found.curr # null /\ Reads /\ Returns(<<"insert", k>>, k, FALSE)
  \/ /\ found.curr = null
     /\ Becomes(maintain(new_node(Tree, k, found), k))
     /\ _size' = _size + 1
     /\ Returns(<<"insert", k>>, k, TRUE)
     /\ UNCHANGED cacheVars

(* insert(), and operator[] on a key: the entry that is there stays. *)
Insert(k) ==
  LET found == find_unique(Tree, k) IN
  \/ found.curr # null /\ Reads /\ Returns(<<"insert", k>>, k, FALSE)
  \/ /\ found.curr = null
     /\ Becomes(maintain(new_node(Tree, k, found), k))
     /\ _size' = _size + 1
     /\ is_dirty' = TRUE
     /\ Returns(<<"insert", k>>, k, TRUE)
     /\ UNCHANGED <<front_cache, last_cache>>

(* erase(): by key, or by an iterator on it. *)
Erase(k) ==
  \/ find_unique(Tree, k).curr = null /\ Reads /\ Returns(<<"erase", k>>, null, FALSE)
  \/ /\ find_unique(Tree, k).curr # null
     /\ Becomes(Erased(Tree, k))
     /\ _size' = _size - 1
     /\ is_dirty' = TRUE
     /\ Returns(<<"erase", k>>, null, TRUE)
     /\ UNCHANGED <<front_cache, last_cache>>

Clear ==
  /\ root' = null /\ node' = [k \in Keys |-> Freed] /\ _size' = 0
  /\ front_cache' = null /\ last_cache' = null /\ is_dirty' = FALSE
  /\ Returns(<<"clear">>, null, TRUE)

(* The copy constructor and the assignment of another map make the same    *)
(* tree out of new nodes; they differ in the caches of an empty map.       *)
Copy ==
  /\ front_cache' = null /\ last_cache' = null
  /\ is_dirty' \in {TRUE, root # null}
  /\ Returns(<<"copy">>, null, TRUE)
  /\ UNCHANGED treeVars

-------------------------------------------------------------------------------
(***************************************************************************)
(* Looking things up.                                                      *)
(***************************************************************************)
Find(k) == Reads /\ Returns(<<"find", k>>, find_unique(Tree, k).curr, TRUE)
LowerBound(k) == Reads /\ Returns(<<"lower_bound", k>>, lower_bound(Tree, k), TRUE)

(* front() and last() compute both ends when the tree has changed. *)
front == IF is_dirty THEN find_min(Tree) ELSE front_cache
last == IF is_dirty THEN find_max(Tree) ELSE last_cache

ReadsEnds ==
  /\ front_cache' = front /\ last_cache' = last /\ is_dirty' = FALSE
  /\ UNCHANGED treeVars

Begin == ReadsEnds /\ Returns(<<"begin">>, front, TRUE)

Allocated(k) == node[k] # Freed

(* An iterator on key k is incremented. *)
Increment(k) == Allocated(k) /\ Reads /\ Returns(<<"++", k>>, next(Tree, k), TRUE)

(* An iterator on key k, or end(), is decremented; before the first key    *)
(* invalid_iterator is thrown and nothing changes.                         *)
Decrement(k) ==
  /\ Allocated(k) /\ prev(Tree, k) # null
  /\ Reads /\ Returns(<<"--", k>>, prev(Tree, k), TRUE)

DecrementEnd == last # null /\ ReadsEnds /\ Returns(<<"--", null>>, last, TRUE)

Next ==
  \/ \E k \in Keys : \/ Insert(k) \/ Erase(k) \/ Find(k) \/ LowerBound(k)
                     \/ Increment(k) \/ Decrement(k)
  \/ Clear \/ Copy \/ Begin \/ DecrementEnd

Spec == Init /\ [][Next]_vars

-------------------------------------------------------------------------------
(***************************************************************************)
(* Correctness.                                                            *)
(***************************************************************************)

(* Every rotation, on the way up from an insertion or an erase, leaves the *)
(* heights exact and no node leaning by more than one level: the map stays *)
(* logarithmic, and maintain(), which only looks for a lean of exactly     *)
(* two, never meets a larger one.                                          *)
Balanced ==
  \A k \in Keys : Allocated(k) =>
    LET l == h(Tree, node[k].ls)
        r == h(Tree, node[k].rs)
    IN /\ node[k].height = (IF l > r THEN l ELSE r) + 1
       /\ l - r \in -1 .. 1

Sorted == INSTANCE SortedKeys WITH
  keys <- {k \in Keys : Allocated(k)}, count <- _size, End <- null

(* The map is the sorted set of its keys: lookups, bounds and size answer  *)
(* as the set does, and an iterator on any key steps to the keys next to   *)
(* it, however often its node has been rotated or moved meanwhile.         *)
ImplementsSortedKeys == Sorted!KeysSpec
===============================================================================
