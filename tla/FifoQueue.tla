------------------------------ MODULE FifoQueue ------------------------------
(***************************************************************************)
(* What an OPA_Queue promises its clients, with no pointer in sight: a     *)
(* FIFO of elements, many enqueuers, one consumer.                         *)
(*                                                                         *)
(* An enqueue takes effect at one instant (Enqueue) but is still running   *)
(* until Complete: between the two its element is pending.  The consumer   *)
(* cannot get past a pending element, so OPA_Queue_is_empty answers 1 both *)
(* when there is no element and when the first one is pending, even if     *)
(* later enqueues have already returned.  This is the promise the code     *)
(* keeps; that of an atomic FIFO, where a completed enqueue is always      *)
(* visible, it does not keep.                                              *)
(***************************************************************************)
EXTENDS Naturals, Sequences

CONSTANTS Elements,   \* the client structures that carry a queue header
          Null        \* OPA_SHM_REL_NULL

VARIABLES items,      \* the elements in the queue, oldest first
          pending,    \* the elements of items whose enqueue has not returned
          reply       \* what the consumer's last call answered

vars == <<items, pending, reply>>

Replies == [op : {"none", "empty", "nonempty", "peek", "dequeue"},
            elt : Elements \cup {Null}]

Blocked == items = <<>> \/ Head(items) \in pending

Init == /\ items = <<>>
        /\ pending = {}
        /\ reply = [op |-> "none", elt |-> Null]

Enqueue(e) ==
    /\ \A i \in DOMAIN items : items[i] # e
    /\ items' = Append(items, e)
    /\ pending' = pending \cup {e}
    /\ UNCHANGED reply

Complete(e) ==
    /\ e \in pending
    /\ pending' = pending \ {e}
    /\ UNCHANGED <<items, reply>>

(* is_empty answers 1 exactly when the consumer is blocked, and 0 exactly  *)
(* when it is not.                                                         *)
IsEmpty ==
    /\ reply' = [op |-> IF Blocked THEN "empty" ELSE "nonempty", elt |-> Null]
    /\ UNCHANGED <<items, pending>>

(* Right after is_empty: the element that the next dequeue returns, or    *)
(* NULL when is_empty has answered 1.                                      *)
Peek ==
    /\ \/ reply.op = "empty" /\ reply' = [op |-> "peek", elt |-> Null]
       \/ reply.op = "nonempty" /\ ~Blocked
          /\ reply' = [op |-> "peek", elt |-> Head(items)]
    /\ UNCHANGED <<items, pending>>

Dequeue ==
    /\ ~Blocked
    /\ items' = Tail(items)
    /\ reply' = [op |-> "dequeue", elt |-> Head(items)]
    /\ UNCHANGED pending

Next == \/ \E e \in Elements : Enqueue(e) \/ Complete(e)
        \/ IsEmpty
        \/ Peek
        \/ Dequeue

Spec == Init /\ [][Next]_vars
=============================================================================
