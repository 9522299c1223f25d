-------------------------------- MODULE List --------------------------------
(***************************************************************************)
(* lib/kernel/list.c: the intrusive doubly linked list with a head and a  *)
(* tail sentinel.  A link store lk is a record of two functions, next and  *)
(* prev, from the list_elem nodes (sentinels included) to nodes or Null;  *)
(* every operation is a function of the store it is given, and writes     *)
(* through the pointers in the order list.c does, so that aliasing (an   *)
(* element inserted twice, a removed element removed again) has the       *)
(* effect it has in the code.  Each operation runs with interrupts off    *)
(* (intr_disable ... intr_set_status), so it is one step of its caller.   *)
(***************************************************************************)
EXTENDS Naturals, Sequences, FiniteSets

CONSTANT Null   \* NULL

(* Lines 6-13, list_init. *)
ListInit(lk, h, t) ==
  [next |-> [lk.next EXCEPT ![h] = t, ![t] = Null],
   prev |-> [lk.prev EXCEPT ![h] = Null, ![t] = h]]

(* Lines 16-28, list_insert_before: elem->prev = before->prev,            *)
(* elem->next = before, before->prev->next = elem, before->prev = elem.   *)
ListInsertBefore(lk, before, e) ==
  LET pr1 == [lk.prev EXCEPT ![e] = lk.prev[before]]
      n1  == [lk.next EXCEPT ![e] = before]
      n2  == [n1 EXCEPT ![pr1[before]] = e]
  IN  [next |-> n2, prev |-> [pr1 EXCEPT ![before] = e]]

(* Lines 38-42, list_append: insert before the tail sentinel. *)
ListAppend(lk, t, e) == ListInsertBefore(lk, t, e)

(* list_remove without pelem->next->prev = pelem->prev. *)
ListRemoveNoBackLink(lk, e) ==
  [lk EXCEPT !.next[lk.prev[e]] = lk.next[e]]

(* Lines 45-54, list_remove: pelem->prev->next = pelem->next, then        *)
(* pelem->next->prev = pelem->prev; pelem keeps its own links.            *)
ListRemove(lk, e) ==
  LET n1 == [lk.next EXCEPT ![lk.prev[e]] = lk.next[e]]
  IN  [next |-> n1, prev |-> [lk.prev EXCEPT ![n1[e]] = lk.prev[e]]]

(* Lines 57-65, list_pop: remove head.next (the caller has asserted the   *)
(* list is not empty).                                                     *)
ListPop(lk, h) == ListRemove(lk, lk.next[h])

(* Lines 122-125, list_empty. *)
ListEmpty(lk, h, t) == lk.next[h] = t

(* The elements met walking next from x until the tail: the loop of       *)
(* elem_find, list_traversal and list_len.  A walk that meets NULL, or   *)
(* runs longer than there are nodes (a cycle), ends in Null.              *)
RECURSIVE Walk(_, _, _, _)
Walk(lk, x, t, fuel) ==
  IF x = t THEN <<>>
  ELSE IF x = Null \/ fuel = 0 THEN <<Null>>
  ELSE <<x>> \o Walk(lk, lk.next[x], t, fuel - 1)

(* The list's elements from head.next to the tail, as the loops see them. *)
ListElems(lk, h, t) == Walk(lk, lk.next[h], t, Cardinality(DOMAIN lk.next))

(* Lines 68-81, elem_find. *)
ElemFind(lk, h, t, e) ==
  \E i \in DOMAIN ListElems(lk, h, t) : ListElems(lk, h, t)[i] = e

(* The list is well formed: the walk from the head reaches the tail with *)
(* each element once, each element's prev is the node before it, the     *)
(* tail's prev is the last element, and the sentinels end in NULL.        *)
ListWellFormed(lk, h, t) ==
  LET s  == ListElems(lk, h, t)
      ns == <<h>> \o s \o <<t>>
  IN  /\ \A i \in DOMAIN s : s[i] # Null
      /\ Cardinality({s[i] : i \in DOMAIN s}) = Len(s)
      /\ \A i \in 2..Len(ns) : lk.prev[ns[i]] = ns[i - 1]
      /\ lk.prev[h] = Null /\ lk.next[t] = Null
=============================================================================
