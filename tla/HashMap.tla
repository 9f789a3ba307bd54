------------------------------ MODULE HashMap ------------------------------
(***************************************************************************)
(* supertel/lib/hash-map.c: the AVL tree with, in each node, a doubly      *)
(* linked list (containers.c) of the elements with that hash.  The shell   *)
(* of task2 keeps its clients in the same structure.  Nodes are named by   *)
(* their hash, and elements by numbers that malloc hands out again once    *)
(* they are freed.  Lists may also be filled with list_prepend,            *)
(* list_add_after and list_add_before, as any client of a list may.        *)
(***************************************************************************)
EXTENDS AvlTree, Sequences

LOCAL INSTANCE SequencesExt

CONSTANTS
    E,          \* elements are 1 .. E
    BusyUpTo    \* there are elements in maps of at most so many nodes

ASSUME HashMapAssumption == E \in Nat /\ BusyUpTo \in Nat

Element == 1 .. E

VARIABLES
    element,    \* fields of the elements: next, prev, and host, the node they are in
    data_list,  \* node -> front, back and count of its list
    content     \* node -> what the client has put there, in order

mapVars == <<vars, element, data_list, content>>

-----------------------------------------------------------------------------
(* Lists.                                                                  *)

list_init == [front |-> NULL, back |-> NULL, count |-> 0]

\* Changes a field of an element, if there is one.
set_field(els, e, field, value) ==
    IF e = NULL THEN els ELSE [els EXCEPT ![e][field] = value]

Unallocated == {e \in Element : element[e].host = NULL}

\* The new element e, between prev and next, either of which may be NULL.
link(k, e, prev, next) ==
    element' = set_field(set_field([element EXCEPT ![e] = [next |-> next, prev |-> prev, host |-> k]],
                                   prev, "next", e), next, "prev", e)

list_prepend(k, e) ==
    LET l == data_list[k]
    IN  /\ link(k, e, NULL, l.front)
        /\ data_list' = [data_list EXCEPT
               ![k] = [front |-> e, back |-> IF l.back = NULL THEN e ELSE l.back,
                       count |-> l.count + 1]]

list_append(k, e) ==
    LET l == data_list[k]
    IN  /\ link(k, e, l.back, NULL)
        /\ data_list' = [data_list EXCEPT
               ![k] = [front |-> IF l.front = NULL THEN e ELSE l.front, back |-> e,
                       count |-> l.count + 1]]

list_add_after(k, e, el) ==
    LET l == data_list[k]
    IN  IF el = NULL THEN list_prepend(k, e)
        ELSE /\ link(k, e, el, element[el].next)
             /\ data_list' = [data_list EXCEPT
                    ![k] = [front |-> IF l.front = NULL THEN e ELSE l.front,
                            back |-> IF l.back = NULL \/ l.back = el THEN e ELSE l.back,
                            count |-> l.count + 1]]

list_add_before(k, e, el) ==
    LET l == data_list[k]
    IN  IF el = NULL THEN list_append(k, e)
        ELSE /\ link(k, e, element[el].prev, el)
             /\ data_list' = [data_list EXCEPT
                    ![k] = [front |-> IF l.front = NULL \/ l.front = el THEN e ELSE l.front,
                            back |-> IF l.back = NULL THEN e ELSE l.back,
                            count |-> l.count + 1]]

Free == [next |-> NULL, prev |-> NULL, host |-> NULL]
Lost == [next |-> NULL, prev |-> NULL, host |-> N + 1]    \* and never freed

\* Faulty variant: the last element leaves the end of the list as it is.
remove_keeps_back(k, e) ==
    LET l    == data_list[k]
        prev == element[e].prev
        next == element[e].next
    IN  /\ element' = set_field(set_field([element EXCEPT ![e] = Free], prev, "next", next),
                                next, "prev", prev)
        /\ data_list' = [data_list EXCEPT
               ![k] = [front |-> IF e = l.front THEN next ELSE l.front,
                       back |-> IF next = NULL /\ prev = NULL THEN NULL ELSE l.back,
                       count |-> l.count - 1]]

list_remove_and_advance(k, e) ==
    LET l    == data_list[k]
        prev == element[e].prev
        next == element[e].next
    IN  /\ element' = set_field(set_field([element EXCEPT ![e] = Free], prev, "next", next),
                                next, "prev", prev)
        /\ data_list' = [data_list EXCEPT
               ![k] = [front |-> IF e = l.front THEN next ELSE l.front,
                       back |-> IF e = l.back THEN prev ELSE l.back,
                       count |-> l.count - 1]]

\* The elements of a node's list, forwards and backwards.
RECURSIVE Forwards(_)
Forwards(e) == IF e = NULL THEN <<>> ELSE <<e>> \o Forwards(element[e].next)

RECURSIVE Backwards(_)
Backwards(e) == IF e = NULL THEN <<>> ELSE <<e>> \o Backwards(element[e].prev)

-----------------------------------------------------------------------------
(* The map.                                                                *)

Busy == \E k \in keys : data_list[k].count > 0

\* hash_map_add and hash_map_add_or_get of a hash the map does not have.
hash_map_add(k) ==
    /\ Busy => count < BusyUpTo
    /\ avl_tree_add(k)
    /\ data_list' = [data_list EXCEPT ![k] = list_init]
    /\ UNCHANGED <<element, content>>

\* The list is purged after the node it is in has been freed: its elements are
\* freed, or, when that memory has changed, lost.
hash_map_remove(k) ==
    /\ avl_tree_remove(k)
    /\ \E fate \in {Free, Lost} :
          element' = [e \in Element |-> IF element[e].host = k THEN fate ELSE element[e]]
    /\ data_list' = [data_list EXCEPT ![k] = list_init]
    /\ content' = [content EXCEPT ![k] = <<>>]

\* The lists are not purged.
hash_map_purge ==
    /\ avl_tree_purge
    /\ element' = [e \in Element |-> IF element[e].host # NULL THEN Lost ELSE Free]
    /\ data_list' = [k \in Key |-> list_init]
    /\ content' = [k \in Key |-> <<>>]

\* e is what malloc gives for an element in the list of node k.
Allocates(k, e) ==
    /\ avl_tree_get(k) # NULL /\ count <= BusyUpTo
    /\ e \in Unallocated /\ \A f \in Unallocated : e <= f
    /\ UNCHANGED vars

hash_map_node_add(k, e) ==
    /\ Allocates(k, e)
    /\ list_append(k, e)
    /\ content' = [content EXCEPT ![k] = Append(@, e)]

\* A client adds an element next to the i-th one, or at an end when i is none.
AddAfter(k, e, i) ==
    /\ Allocates(k, e)
    /\ list_add_after(k, e, IF i = 0 THEN NULL ELSE content[k][i])
    /\ content' = [content EXCEPT ![k] = InsertAt(@, i + 1, e)]

AddBefore(k, e, i) ==
    /\ Allocates(k, e)
    /\ list_add_before(k, e, IF i > Len(content[k]) THEN NULL ELSE content[k][i])
    /\ content' = [content EXCEPT ![k] = InsertAt(@, i, e)]

hash_map_node_remove(k, e) ==
    /\ avl_tree_get(k) # NULL /\ e \in ToSet(content[k])
    /\ list_remove_and_advance(k, e)
    /\ content' = [content EXCEPT ![k] = SelectSeq(@, LAMBDA f : f # e)]
    /\ UNCHANGED vars

hash_map_init ==
    /\ Init
    /\ element = [e \in Element |-> Free]
    /\ data_list = [k \in Key |-> list_init]
    /\ content = [k \in Key |-> <<>>]

MapNext ==
    \/ \E k \in Key : hash_map_add(k) \/ hash_map_remove(k)
    \/ \E k \in keys, e \in Element :
          \/ hash_map_node_add(k, e) \/ hash_map_node_remove(k, e)
          \/ \E i \in 0 .. Len(content[k]) : AddAfter(k, e, i) \/ AddBefore(k, e, i + 1)
    \/ hash_map_purge

MapSpec == hash_map_init /\ [][MapNext]_mapVars

-----------------------------------------------------------------------------
\* The list of every node holds what was put there and not removed, in order,
\* whichever way it is walked, and counts it; whatever nodes and elements were
\* removed in between, and whichever memory the elements got.
ListsKept ==
    \A k \in keys :
        LET l == data_list[k]
        IN  /\ Forwards(l.front) = content[k]
            /\ Backwards(l.back) = Reverse(content[k])
            /\ l.count = Len(content[k])
=============================================================================
