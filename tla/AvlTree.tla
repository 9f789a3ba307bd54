------------------------------ MODULE AvlTree ------------------------------
(***************************************************************************)
(* supertel/lib/avl-tree.c: an AVL tree of nodes with parent pointers.  A  *)
(* node is named by its key, since the clients look a key up before they   *)
(* add it.  The heap h holds the fields of all nodes; the recursive        *)
(* functions of the source are operators from a heap to a result, the heap *)
(* afterwards and the node they return.                                    *)
(***************************************************************************)
EXTENDS Integers, FiniteSets

CONSTANTS
    N,          \* keys are 1 .. N
    RemoveUpTo  \* keys are removed from trees of at most so many nodes

ASSUME AvlAssumption == N \in Nat /\ RemoveUpTo \in Nat

NULL == 0
Key == 1 .. N

VARIABLES
    heap,   \* fields of the nodes: left, right, parent and height by key
    root,   \* t->root
    count,  \* t->count
    keys    \* what the client has put into the tree

vars == <<heap, root, count, keys>>

Res(h, n) == [heap |-> h, node |-> n]

-----------------------------------------------------------------------------
(* Heights and rotations.                                                  *)

node_height(h, n) == IF n = NULL THEN 0 ELSE h.height[n]

node_balance_factor(h, n) == node_height(h, h.left[n]) - node_height(h, h.right[n])

node_fix_height(h, n) ==
    LET hl == node_height(h, h.left[n])
        hr == node_height(h, h.right[n])
    IN  [h EXCEPT !.height[n] = (IF hl > hr THEN hl ELSE hr) + 1]

set_parent(h, n, p) == IF n = NULL THEN h ELSE [h EXCEPT !.parent[n] = p]

\* Faulty variant: the subtree that changes sides keeps its old parent.
rotate_left_keeps_parent(h, a) ==
    LET b  == h.right[a]
        C  == h.left[b]
        h1 == set_parent(set_parent(h, b, h.parent[a]), a, b)
        h2 == [h1 EXCEPT !.left[b] = a, !.right[a] = C]
    IN  Res(node_fix_height(node_fix_height(h2, a), b), b)

node_rotate_left(h, a) ==
    LET b  == h.right[a]
        C  == h.left[b]
        h1 == set_parent(set_parent(set_parent(h, b, h.parent[a]), a, b), C, a)
        h2 == [h1 EXCEPT !.left[b] = a, !.right[a] = C]
    IN  Res(node_fix_height(node_fix_height(h2, a), b), b)

\* Faulty variant: the subtree that changes sides is lost.
rotate_right_loses_subtree(h, a) ==
    LET b  == h.left[a]
        h1 == set_parent(set_parent(h, b, h.parent[a]), a, b)
        h2 == [h1 EXCEPT !.right[b] = a, !.left[a] = NULL]
    IN  Res(node_fix_height(node_fix_height(h2, a), b), b)

node_rotate_right(h, a) ==
    LET b  == h.left[a]
        C  == h.right[b]
        h1 == set_parent(set_parent(set_parent(h, b, h.parent[a]), a, b), C, a)
        h2 == [h1 EXCEPT !.right[b] = a, !.left[a] = C]
    IN  Res(node_fix_height(node_fix_height(h2, a), b), b)

\* Faulty variant: single rotations only.
balance_by_single_rotations(h, n) ==
    LET f == node_fix_height(h, n) IN
    CASE node_balance_factor(f, n) = 2  -> node_rotate_right(f, n)
      [] node_balance_factor(f, n) = -2 -> node_rotate_left(f, n)
      [] OTHER                          -> Res(f, n)

node_balance(h, n) ==
    LET f == node_fix_height(h, n)
        l == f.left[n]
        r == f.right[n]
    IN CASE node_balance_factor(f, n) = 2 /\ node_balance_factor(f, l) < 0 ->
               LET x == node_rotate_left(f, l)
               IN  node_rotate_right([x.heap EXCEPT !.left[n] = x.node], n)
         [] node_balance_factor(f, n) = 2 /\ node_balance_factor(f, l) >= 0 ->
               node_rotate_right(f, n)
         [] node_balance_factor(f, n) = -2 /\ node_balance_factor(f, r) > 0 ->
               LET x == node_rotate_right(f, r)
               IN  node_rotate_left([x.heap EXCEPT !.right[n] = x.node], n)
         [] node_balance_factor(f, n) = -2 /\ node_balance_factor(f, r) <= 0 ->
               node_rotate_left(f, n)
         [] OTHER -> Res(f, n)

-----------------------------------------------------------------------------
(* Insertion.  node_insert_or_get differs from node_insert only for a key  *)
(* the tree has: it then balances the nodes on the way, which are balanced.*)

allocate(h, k, parent) ==
    [h EXCEPT !.left[k] = NULL, !.right[k] = NULL, !.parent[k] = parent, !.height[k] = 1]

RECURSIVE node_insert(_, _, _, _)
node_insert(h, n, parent, k) ==
    IF n = NULL THEN Res(allocate(h, k, parent), k)
    ELSE IF k < n
         THEN LET x == node_insert(h, h.left[n], n, k)
              IN  node_balance([x.heap EXCEPT !.left[n] = x.node], n)
         ELSE LET x == node_insert(h, h.right[n], n, k)
              IN  node_balance([x.heap EXCEPT !.right[n] = x.node], n)

-----------------------------------------------------------------------------
(* Removal.                                                                *)

RECURSIVE node_leftmost(_, _)
node_leftmost(h, n) == IF h.left[n] = NULL THEN n ELSE node_leftmost(h, h.left[n])

RECURSIVE node_rightmost(_, _)
node_rightmost(h, n) == IF h.right[n] = NULL THEN n ELSE node_rightmost(h, h.right[n])

\* The right child of the node taken out keeps that node as its parent.
RECURSIVE node_remove_min(_, _)
node_remove_min(h, n) ==
    IF h.left[n] = NULL THEN Res(h, h.right[n])
    ELSE LET x == node_remove_min(h, h.left[n])
         IN  node_balance([x.heap EXCEPT !.left[n] = x.node], n)

node_is_left(h, n)  == n # NULL /\ h.parent[n] # NULL /\ h.left[h.parent[n]] = n
node_is_right(h, n) == n # NULL /\ h.parent[n] # NULL /\ h.right[h.parent[n]] = n

\* The node with the key is replaced by the leftmost one of its right subtree.
replace(h, n) ==
    LET min == node_leftmost(h, h.right[n])
        p   == h.parent[n]
        x   == node_remove_min(h, h.right[n])
        h1  == [x.heap EXCEPT !.right[min] = x.node, !.left[min] = h.left[n], !.parent[min] = p]
        h2  == IF p = NULL THEN h1
               ELSE IF node_is_left(h, n) THEN [h1 EXCEPT !.left[p] = min]
                                          ELSE [h1 EXCEPT !.right[p] = min]
    IN  node_balance(set_parent(set_parent(h2, h2.left[min], min), h2.right[min], min), min)

RECURSIVE node_remove(_, _, _)
node_remove(h, n, k) ==
    IF n = NULL THEN Res(h, NULL)
    ELSE IF k < n
         THEN LET x == node_remove(h, h.left[n], k)
              IN  node_balance([x.heap EXCEPT !.left[n] = x.node], n)
    ELSE IF k > n
         THEN LET x == node_remove(h, h.right[n], k)
              IN  node_balance([x.heap EXCEPT !.right[n] = x.node], n)
    ELSE IF h.right[n] = NULL
         THEN Res(set_parent(h, h.left[n], h.parent[n]), h.left[n])
    ELSE replace(h, n)

-----------------------------------------------------------------------------
(* Lookup and iteration.                                                   *)

RECURSIVE node_get(_, _, _)
node_get(h, n, k) ==
    IF n = NULL \/ n = k THEN n
    ELSE node_get(h, IF k > n THEN h.right[n] ELSE h.left[n], k)

avl_tree_get(k) == node_get(heap, root, k)

\* Climb while the node is, or is not, a left child.
RECURSIVE climb(_, _, _)
climb(h, n, left) ==
    IF n # NULL /\ node_is_left(h, n) = left THEN climb(h, h.parent[n], left) ELSE n

node_next(h, n) ==
    IF h.right[n] # NULL THEN node_leftmost(h, h.right[n])
    ELSE IF node_is_left(h, n) THEN h.parent[n]
    ELSE LET m == climb(h, h.parent[n], FALSE)
         IN  IF m # NULL /\ ~ node_is_right(h, m) THEN h.parent[m] ELSE m

node_prev(h, n) ==
    IF h.left[n] # NULL THEN node_rightmost(h, h.left[n])
    ELSE IF node_is_right(h, n) THEN h.parent[n]
    ELSE LET m == climb(h, h.parent[n], TRUE)
         IN  IF m # NULL /\ ~ node_is_left(h, m) THEN h.parent[m] ELSE m

-----------------------------------------------------------------------------
(* The tree and its clients.                                               *)

Nowhere == [k \in Key |-> NULL]
NoNodes == [left |-> Nowhere, right |-> Nowhere, parent |-> Nowhere, height |-> Nowhere]

Init ==
    /\ heap = NoNodes
    /\ root = NULL
    /\ count = 0
    /\ keys = {}

\* avl_tree_add, and avl_tree_add_or_get, of a key the tree does not have.
avl_tree_add(k) ==
    /\ avl_tree_get(k) = NULL
    /\ LET x == node_insert(heap, root, root, k) IN
       /\ heap' = x.heap
       /\ root' = x.node
    /\ count' = count + 1
    /\ keys' = keys \cup {k}

\* A pointer left to the node that was removed would find nothing there.
freed(h, k) ==
    [h EXCEPT !.left[k] = NULL, !.right[k] = NULL, !.parent[k] = NULL, !.height[k] = 0]

\* avl_tree_remove and avl_tree_remove_get_data, of a key the client has put in.
avl_tree_remove(k) ==
    /\ k \in keys
    /\ count <= RemoveUpTo
    /\ LET x == node_remove(heap, root, k) IN
       /\ heap' = freed(x.heap, k)
       /\ root' = x.node
    /\ count' = IF avl_tree_get(k) # NULL THEN count - 1 ELSE count
    /\ keys' = keys \ {k}

avl_tree_purge ==
    /\ root # NULL
    /\ root' = NULL
    /\ count' = 0
    /\ keys' = {}
    /\ heap' = NoNodes

Next ==
    \/ \E k \in Key : avl_tree_add(k) \/ avl_tree_remove(k)
    \/ avl_tree_purge

Spec == Init /\ [][Next]_vars

-----------------------------------------------------------------------------
(* Properties.                                                             *)

RECURSIVE Subtree(_)
Subtree(n) == IF n = NULL THEN {} ELSE {n} \cup Subtree(heap.left[n]) \cup Subtree(heap.right[n])

\* avl_tree_get finds exactly what was put in, and count counts it: rotations
\* lose no node and keep the order.
Found ==
    /\ \A k \in Key : avl_tree_get(k) = IF k \in keys THEN k ELSE NULL
    /\ count = Cardinality(keys)

RECURSIVE Depth(_)
Depth(n) ==
    IF n = NULL THEN 0
    ELSE LET l == Depth(heap.left[n])
             r == Depth(heap.right[n])
         IN  1 + (IF l > r THEN l ELSE r)

\* The tree is balanced and every node knows its height (node_balance): no path
\* is longer than the AVL bound.
Balanced ==
    \A n \in Subtree(root) :
        /\ heap.height[n] = Depth(n)
        /\ node_balance_factor(heap, n) \in -1 .. 1

\* avl_tree_node_next and avl_tree_node_prev go through the keys in order, from
\* any node, up and down the parent pointers.
Iteration ==
    \A k \in keys :
        /\ node_next(heap, k) = (IF \E j \in keys : j > k
                                 THEN CHOOSE j \in keys : j > k /\ \A i \in keys : i > k => i >= j
                                 ELSE NULL)
        /\ node_prev(heap, k) = (IF \E j \in keys : j < k
                                 THEN CHOOSE j \in keys : j < k /\ \A i \in keys : i < k => i <= j
                                 ELSE NULL)

\* avl-tree.h, on the field parent: it is the "parent node".
ParentIsParent ==
    \A n \in Subtree(root) : \A c \in {heap.left[n], heap.right[n]} \ {NULL} : heap.parent[c] = n
=============================================================================
