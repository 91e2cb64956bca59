---------------------------- MODULE BoundedFifo ----------------------------
(***************************************************************************)
(* What the message queues of ISIX promise (libisix/include/isix/fifo.h):  *)
(* each is a sequence of a bounded number of items, out of which a reader  *)
(* takes the one that was put in first.  The module Fifo implements it.    *)
(***************************************************************************)
EXTENDS Naturals, Sequences

CONSTANTS
  Fifos,    \* the queues
  Item,     \* the items
  Null,     \* no item
  Size      \* n_elem of isix_fifo_create_ex for each queue

VARIABLES
  q,     \* the items in each queue, the oldest first
  out    \* the item read last from each queue

\* isix_fifo_write of the item x.
Put(f, x) ==
  /\ Len(q[f]) < Size[f]
  /\ q' = [q EXCEPT ![f] = Append(@, x)]
  /\ UNCHANGED out

\* isix_fifo_read.
Get(f) ==
  /\ q[f] # <<>>
  /\ out' = [out EXCEPT ![f] = Head(q[f])]
  /\ q' = [q EXCEPT ![f] = Tail(@)]

\* isix_fifo_destroy: what nobody read is gone.
Drop(f) ==
  /\ q' = [q EXCEPT ![f] = <<>>]
  /\ out' = [out EXCEPT ![f] = Null]

Init == q = [f \in Fifos |-> <<>>] /\ out = [f \in Fifos |-> Null]

Next == \E f \in Fifos : Get(f) \/ Drop(f) \/ \E x \in Item : Put(f, x)

Spec == Init /\ [][Next]_<<q, out>>
=============================================================================
