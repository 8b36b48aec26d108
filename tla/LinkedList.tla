----------------------------- MODULE LinkedList -----------------------------
(***************************************************************************)
(* Singly linked lists as idOS keeps them everywhere: nodes are statically *)
(* allocated, each node carries its own `next' pointer, and the list is a  *)
(* head pointer plus, for the lists that are appended to, a tail pointer.  *)
(* The run queues of sch.cpp, the timer list of timer.cpp and the autostr  *)
(* list of autostr.cpp all have this form.                                 *)
(*                                                                         *)
(* The operators relate the pointers to the sequence of nodes they stand   *)
(* for; nothing here is recursive, so that TLAPS can reason about them.    *)
(***************************************************************************)
EXTENDS Naturals, Sequences, FiniteSets, Functions

(* The duplicate-free sequences over a finite set of nodes: what a well    *)
(* formed list can stand for.                                              *)
DistinctSeqs(S) ==
  {q \in UNION {[1..n -> S] : n \in 0..Cardinality(S)} : IsInjective(q)}

(* The nodes of a list.                                                    *)
Nodes(q) == {q[i] : i \in DOMAIN q}

(* Following nxt from head visits exactly q and then meets nil.            *)
Linked(q, head, nxt, nil) ==
  /\ head = IF q = <<>> THEN nil ELSE q[1]
  /\ \A i \in DOMAIN q : nxt[q[i]] = IF i = Len(q) THEN nil ELSE q[i + 1]

(* The tail pointer is meaningful only while the list has a node.          *)
EndsAt(q, tail) == q # <<>> => tail = q[Len(q)]

(* Head, tail and next pointers stand for the duplicate-free sequence q.   *)
IsList(S, q, head, tail, nxt, nil) ==
  q \in DistinctSeqs(S) /\ Linked(q, head, nxt, nil) /\ EndsAt(q, tail)

(* Appending a node, as task_set_ready, timer_set_sys and autostr_set_sys  *)
(* all do it: next of the node is cleared, then the node becomes the head  *)
(* of an empty list or the successor of tail.                              *)
HeadAfterAppend(head, nil, t) == IF head = nil THEN t ELSE head
NextAfterAppend(head, tail, nxt, nil, t) ==
  IF head = nil THEN [nxt EXCEPT ![t] = nil]
  ELSE [nxt EXCEPT ![t] = nil, ![tail] = t]

(* The list, among the candidates qs, that a head pointer stands for.      *)
ListFrom(qs, head, nxt, nil) == CHOOSE q \in qs : Linked(q, head, nxt, nil)
=============================================================================
