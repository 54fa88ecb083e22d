---------------------------- MODULE BoundedQueue ----------------------------
(***************************************************************************)
(* What the lock-free queues of src/src/parallel promise their two users:  *)
(* a first-in first-out queue of at most Capacity items, each operation    *)
(* atomic.  A refused produce (full) and a refused consume (empty) leave   *)
(* it alone, so they are stuttering steps here.                            *)
(***************************************************************************)
EXTENDS Naturals, Sequences

CONSTANTS
  Item,      \* what can be produced
  Nothing,   \* value of delivered before the first successful consume
  Capacity   \* number of slots

VARIABLES
  queue,     \* the items produced and not yet consumed, oldest first
  delivered  \* the item the last successful consume returned

vars == <<queue, delivered>>

Init ==
  /\ queue = <<>>
  /\ delivered = Nothing

Put(m) ==
  /\ Len(queue) < Capacity
  /\ queue' = Append(queue, m)
  /\ UNCHANGED delivered

Take ==
  /\ queue # <<>>
  /\ delivered' = Head(queue)
  /\ queue' = Tail(queue)

Next == (\E m \in Item : Put(m)) \/ Take

Spec == Init /\ [][Next]_vars
=============================================================================
