------------------------------ MODULE OPA_Queue ------------------------------
(***************************************************************************)
(* The multi-producer, single-consumer queue of src/src/opa_queue.h, one   *)
(* access to shared memory per action, under sequential consistency.       *)
(*                                                                         *)
(* The queue is a linked list from the consumer's shadow_head (or, when    *)
(* that is NULL, from head) to tail.  A producer swaps tail first and      *)
(* links its element to its predecessor only afterwards, so the list has a *)
(* gap for every enqueue between its two steps.                            *)
(*                                                                         *)
(* shadow_head, _e and _r_e are read and written by the consumer alone:    *)
(* their accesses ride along with the shared access next to them.  A       *)
(* relative address and its absolute address denote the same element.      *)
(***************************************************************************)
EXTENDS Naturals, Sequences, FiniteSets

CONSTANTS Producers,  \* the threads that enqueue
          Elements,   \* the client structures that carry a queue header
          Null        \* OPA_SHM_REL_NULL

ASSUME NullAssumption == Null \notin Elements

VARIABLES
    head, tail,       \* OPA_Queue_info_t, shared by every thread
    shadow_head,      \* OPA_Queue_info_t, used by the consumer alone
    next,             \* the hdr.next field of each element
    pool,             \* elements the clients hold outside any queue call
    ppc,              \* where each producer is in OPA_Queue_enqueue
    r_elt, r_prev,    \* its local variables
    cpc,              \* where the consumer is in is_empty or dequeue
    r_e,               \* dequeue's local variable (r_e and _r_e)
    reply,            \* what the consumer's last call answered
    q                 \* history: the swapped-in elements not yet unlinked,
                      \* in the order of their swaps

producerVars == <<ppc, r_elt, r_prev>>
consumerVars == <<shadow_head, cpc, r_e, reply>>
vars == <<head, tail, next, pool, q, producerVars, consumerVars>>

Addr == Elements \cup {Null}

Items(s) == {s[i] : i \in 1..Len(s)}

-----------------------------------------------------------------------------
(* OPA_Queue_init.  The memory of an element is the client's: its next     *)
(* field holds anything until it is enqueued or OPA_Queue_header_init is   *)
(* called.                                                                 *)
Init ==
    /\ head = Null /\ tail = Null /\ shadow_head = Null
    /\ next \in [Elements -> Addr]
    /\ pool = Elements
    /\ ppc = [p \in Producers |-> "idle"]
    /\ r_elt = [p \in Producers |-> Null]
    /\ r_prev = [p \in Producers |-> Null]
    /\ cpc = "idle" /\ r_e = Null
    /\ reply = [op |-> "none", elt |-> Null]
    /\ q = <<>>

(* OPA_Queue_header_init, on an element its caller owns.                   *)
HeaderInit(e) ==
    /\ e \in pool
    /\ next' = [next EXCEPT ![e] = Null]
    /\ UNCHANGED <<head, tail, pool, q, producerVars, consumerVars>>

-----------------------------------------------------------------------------
(* OPA_Queue_enqueue.                                                      *)

(* Mutant: the client's garbage is left in elt->next.                      *)
EnqueueCallNoReset(p, e) ==
    /\ ppc[p] = "idle"
    /\ e \in pool
    /\ pool' = pool \ {e}
    /\ r_elt' = [r_elt EXCEPT ![p] = e]
    /\ ppc' = [ppc EXCEPT ![p] = "swap"]
    /\ UNCHANGED <<head, tail, next, q, r_prev, consumerVars>>

EnqueueCall(p, e) ==
    /\ ppc[p] = "idle"
    /\ e \in pool
    /\ pool' = pool \ {e}
    /\ r_elt' = [r_elt EXCEPT ![p] = e]
    /\ next' = [next EXCEPT ![e] = Null]
    /\ ppc' = [ppc EXCEPT ![p] = "swap"]
    /\ UNCHANGED <<head, tail, q, r_prev, consumerVars>>

EnqueueSwap(p) ==
    /\ ppc[p] = "swap"
    /\ r_prev' = [r_prev EXCEPT ![p] = tail]
    /\ tail' = r_elt[p]
    /\ q' = Append(q, r_elt[p])
    /\ ppc' = [ppc EXCEPT ![p] = "link"]
    /\ UNCHANGED <<head, next, pool, r_elt, consumerVars>>

(* The enqueue returns: its locals are gone.                               *)
EnqueueReturn(p) ==
    /\ ppc' = [ppc EXCEPT ![p] = "idle"]
    /\ r_elt' = [r_elt EXCEPT ![p] = Null]
    /\ r_prev' = [r_prev EXCEPT ![p] = Null]

EnqueueSetHead(p) ==
    /\ ppc[p] = "link"
    /\ r_prev[p] = Null
    /\ head' = r_elt[p]
    /\ EnqueueReturn(p)
    /\ UNCHANGED <<tail, next, pool, q, consumerVars>>

(* Mutant: elt->next is reset after elt can be found, not before.          *)
EnqueueSetNextLateReset(p) ==
    /\ ppc[p] = "link"
    /\ r_prev[p] # Null
    /\ next' = [next EXCEPT ![r_prev[p]] = r_elt[p], ![r_elt[p]] = Null]
    /\ EnqueueReturn(p)
    /\ UNCHANGED <<head, tail, pool, q, consumerVars>>

EnqueueSetNext(p) ==
    /\ ppc[p] = "link"
    /\ r_prev[p] # Null
    /\ next' = [next EXCEPT ![r_prev[p]] = r_elt[p]]
    /\ EnqueueReturn(p)
    /\ UNCHANGED <<head, tail, pool, q, consumerVars>>

EnqueueStep(p) == EnqueueSwap(p) \/ EnqueueSetHead(p) \/ EnqueueSetNext(p)

-----------------------------------------------------------------------------
(* OPA_Queue_is_empty.                                                     *)

Answer(op, elt) == reply' = [op |-> op, elt |-> elt]

IsEmptyShadow ==
    /\ cpc = "idle"
    /\ shadow_head # Null
    /\ Answer("nonempty", Null)
    /\ UNCHANGED <<head, tail, next, pool, q, producerVars, shadow_head, cpc, r_e>>

(* Mutant: is_empty trusts shadow_head, and never looks at head.           *)
IsEmptyTrustShadow ==
    /\ cpc = "idle"
    /\ shadow_head = Null
    /\ Answer("empty", Null)
    /\ UNCHANGED <<head, tail, next, pool, q, producerVars, shadow_head, cpc, r_e>>

IsEmptyLoadHead ==
    /\ cpc = "idle"
    /\ shadow_head = Null
    /\ IF head = Null
         THEN Answer("empty", Null) /\ UNCHANGED cpc
         ELSE cpc' = "copy_head" /\ UNCHANGED reply
    /\ UNCHANGED <<head, tail, next, pool, q, producerVars, shadow_head, r_e>>

IsEmptyCopyHead ==
    /\ cpc = "copy_head"
    /\ shadow_head' = head
    /\ cpc' = "reset_head"
    /\ UNCHANGED <<head, tail, next, pool, q, producerVars, r_e, reply>>

(* Mutant: head is not reset "for next time".                              *)
IsEmptyNoReset ==
    /\ cpc = "reset_head"
    /\ cpc' = "idle"
    /\ Answer("nonempty", Null)
    /\ UNCHANGED <<head, tail, next, pool, q, producerVars, shadow_head, r_e>>

IsEmptyResetHead ==
    /\ cpc = "reset_head"
    /\ head' = Null
    /\ cpc' = "idle"
    /\ Answer("nonempty", Null)
    /\ UNCHANGED <<tail, next, pool, q, producerVars, shadow_head, r_e>>

-----------------------------------------------------------------------------
(* OPA_Queue_peek_head, callable once is_empty has answered.               *)

PeekHead ==
    /\ cpc = "idle"
    /\ reply.op \in {"empty", "nonempty"}
    /\ Answer("peek", shadow_head)
    /\ UNCHANGED <<head, tail, next, pool, q, producerVars, shadow_head, cpc, r_e>>

-----------------------------------------------------------------------------
(* OPA_Queue_dequeue, callable once is_empty has answered 0.               *)

MayDequeue == \/ reply.op = "nonempty"
              \/ reply.op = "peek" /\ reply.elt # Null

DequeueCall ==
    /\ cpc = "idle"
    /\ MayDequeue
    /\ r_e' = shadow_head
    /\ cpc' = IF next[shadow_head] # Null THEN "advance" ELSE "cas"
    /\ UNCHANGED <<head, tail, next, pool, q, producerVars, shadow_head, reply>>

DequeueAdvance ==
    /\ cpc = "advance"
    /\ shadow_head' = next[r_e]
    /\ q' = Tail(q)
    /\ cpc' = "clear"
    /\ UNCHANGED <<head, tail, next, pool, producerVars, r_e, reply>>

(* Mutant: when the compare-and-swap fails, no wait for the link.          *)
DequeueCasNoWait ==
    /\ cpc = "cas"
    /\ shadow_head' = Null
    /\ tail' = IF tail = r_e THEN Null ELSE tail
    /\ q' = Tail(q)
    /\ cpc' = "clear"
    /\ UNCHANGED <<head, next, pool, producerVars, r_e, reply>>

DequeueCas ==
    /\ cpc = "cas"
    /\ shadow_head' = Null
    /\ IF tail = r_e
         THEN /\ tail' = Null
              /\ q' = Tail(q)
              /\ cpc' = "clear"
         ELSE /\ cpc' = "wait"
              /\ UNCHANGED <<tail, q>>
    /\ UNCHANGED <<head, next, pool, producerVars, r_e, reply>>

(* The busy-wait for the enqueuer that has swapped tail but not yet linked *)
(* its element; a turn that reads NULL again changes nothing.              *)
DequeueWait ==
    /\ cpc = "wait"
    /\ next[r_e] # Null
    /\ cpc' = "advance"
    /\ UNCHANGED <<head, tail, next, pool, q, producerVars, shadow_head, r_e, reply>>

DequeueClear ==
    /\ cpc = "clear"
    /\ next' = [next EXCEPT ![r_e] = Null]
    /\ pool' = pool \cup {r_e}
    /\ Answer("dequeue", r_e)
    /\ r_e' = Null
    /\ cpc' = "idle"
    /\ UNCHANGED <<head, tail, q, producerVars, shadow_head>>

IsEmptyCall == IsEmptyShadow \/ IsEmptyLoadHead

(* The steps of a call the consumer is already in.                         *)
ConsumerStep == \/ IsEmptyCopyHead \/ IsEmptyResetHead
                \/ DequeueAdvance \/ DequeueCas \/ DequeueWait \/ DequeueClear

Consumer == IsEmptyCall \/ PeekHead \/ DequeueCall \/ ConsumerStep

Next == \/ \E e \in Elements : HeaderInit(e)
        \/ \E p \in Producers, e \in Elements : EnqueueCall(p, e)
        \/ \E p \in Producers : EnqueueStep(p)
        \/ Consumer

Spec == Init /\ [][Next]_vars

-----------------------------------------------------------------------------
(* Fairness: a producer inside OPA_Queue_enqueue, and the consumer inside  *)
(* a call, go on taking steps, as running threads do (the test's threads   *)
(* are preemptively scheduled and yield).  The consumer is the loop of     *)
(* test_queue_threaded_dequeue: it polls is_empty for ever, and when the   *)
(* answer is 0 it dequeues, at the latest after one peek and a second      *)
(* is_empty.  Nothing makes a producer start an enqueue.                   *)

ConsumerFairness == /\ WF_vars(ConsumerStep)
                    /\ WF_vars(IsEmptyCall)
                    /\ SF_vars(DequeueCall)

FairSpec == /\ Spec
            /\ \A p \in Producers : WF_vars(EnqueueStep(p))
            /\ ConsumerFairness

-----------------------------------------------------------------------------
(* Type invariant: what each field and local variable may hold.            *)
TypeOK ==
    /\ head \in Addr /\ tail \in Addr /\ shadow_head \in Addr
    /\ next \in [Elements -> Addr]
    /\ pool \subseteq Elements
    /\ ppc \in [Producers -> {"idle", "swap", "link"}]
    /\ r_elt \in [Producers -> Addr]
    /\ r_prev \in [Producers -> Addr]
    /\ cpc \in {"idle", "copy_head", "reset_head", "advance", "cas", "wait", "clear"}
    /\ r_e \in Addr
    /\ reply \in [op : {"none", "empty", "nonempty", "peek", "dequeue"}, elt : Addr]
    /\ q \in Seq(Elements)

-----------------------------------------------------------------------------
(* The inductive invariant, in named parts.                                *)

(* An enqueue between its swap and its link, onto an empty queue ...       *)
OwesHead(p) == ppc[p] = "link" /\ r_prev[p] = Null
(* ... and onto a queue with a last element.                               *)
OwesNext(p) == ppc[p] = "link" /\ r_prev[p] # Null

(* The element the consumer takes next, once it has found one.             *)
front == IF cpc \in {"advance", "cas", "wait"} THEN r_e ELSE shadow_head

(* Every element is in one place: with a client, in an enqueue that has    *)
(* not swapped yet, in the queue, or in a dequeue about to return it.      *)
Ownership ==
    /\ \A i, j \in 1..Len(q) : q[i] = q[j] => i = j
    /\ \A i \in 1..Len(q) : q[i] \notin pool
    /\ \A p \in Producers : ppc[p] # "idle" =>
          /\ r_elt[p] \in Elements \ pool
          /\ \A r \in Producers \ {p} : ppc[r] # "idle" => r_elt[p] # r_elt[r]
    /\ \A p \in Producers : ppc[p] = "swap" =>
          /\ \A i \in 1..Len(q) : q[i] # r_elt[p]
          /\ next[r_elt[p]] = Null
    /\ cpc = "clear" =>
          /\ r_e \in Elements \ pool
          /\ \A i \in 1..Len(q) : q[i] # r_e
          /\ \A p \in Producers : ppc[p] # "idle" => r_elt[p] # r_e

(* Two neighbours are linked, or the enqueue of the second still owes the  *)
(* link; the last element has no link; tail is the last element.           *)
Chain ==
    /\ \A i \in 1..Len(q)-1 :
          \/ next[q[i]] = q[i+1]
          \/ \E p \in Producers : OwesNext(p) /\ r_prev[p] = q[i] /\ r_elt[p] = q[i+1]
    /\ q # <<>> => next[q[Len(q)]] = Null
    /\ tail = IF q = <<>> THEN Null ELSE q[Len(q)]

(* A link that is owed is owed between neighbours, and not yet there.      *)
Owed ==
    \A p \in Producers :
        /\ OwesNext(p) => \E i \in 1..Len(q)-1 : /\ r_prev[p] = q[i]
                                                 /\ r_elt[p] = q[i+1]
                                                 /\ next[q[i]] = Null
        /\ OwesHead(p) => q # <<>> /\ r_elt[p] = q[1] /\ front = Null /\ head = Null

(* Where the consumer is, and how the list begins: at the element it has   *)
(* found, or at head, or at an element whose enqueuer owes the head.       *)
Front ==
    /\ front # Null => /\ q # <<>> /\ front = q[1]
                       /\ head = IF cpc = "reset_head" THEN q[1] ELSE Null
    /\ front = Null => \/ q = <<>> /\ head = Null
                       \/ q # <<>> /\ head = q[1]
                       \/ q # <<>> /\ head = Null /\ \E p \in Producers : OwesHead(p)
    /\ cpc = "copy_head" => shadow_head = Null /\ head # Null
    /\ cpc \in {"reset_head", "advance", "cas", "wait"} => front # Null
    /\ cpc = "advance" => next[r_e] # Null
    /\ cpc = "cas" => shadow_head = r_e
    /\ cpc = "wait" => shadow_head = Null /\ Len(q) > 1

(* What the consumer may rely on between two calls.                        *)
Replied ==
    /\ cpc = "idle" /\ MayDequeue => shadow_head # Null
    /\ cpc = "idle" /\ reply.op = "empty" => shadow_head = Null
    /\ cpc \in {"advance", "cas", "wait", "clear"} => MayDequeue
    /\ reply.op \in {"empty", "none"} => cpc \in {"idle", "copy_head", "reset_head"}

(* A thread that is in no call holds no address, and a producer that has   *)
(* not swapped yet no predecessor.                                         *)
Locals ==
    /\ cpc \in {"idle", "copy_head", "reset_head"} => r_e = Null
    /\ cpc = "advance" => shadow_head \in {Null, r_e}
    /\ \A p \in Producers : /\ ppc[p] = "idle" => r_elt[p] = Null
                            /\ ppc[p] # "link" => r_prev[p] = Null

IInv == TypeOK /\ Ownership /\ Chain /\ Owed /\ Front /\ Replied /\ Locals

-----------------------------------------------------------------------------
(* An element its client holds, before its enqueue or after its dequeue,   *)
(* may be freed (test_queue_threaded_dequeue does): no field of the queue, *)
(* no link of an element still inside it and no thread that is in the      *)
(* middle of OPA_Queue_enqueue or OPA_Queue_dequeue still holds its        *)
(* address.                                                                *)
NoDanglingReference ==
    \A e \in pool :
        /\ e \notin {head, tail, shadow_head, r_e}
        /\ \A p \in Producers : e \notin {r_elt[p], r_prev[p]}
        /\ \A i \in 1..Len(q) : next[q[i]] # e

(* Enqueuers and consumer both write head.  A store of one never wipes out *)
(* the value of another: an enqueuer fills an empty head, and with the     *)
(* first element of the list; the consumer resets it only after it has     *)
(* copied exactly that value to shadow_head.                               *)
HeadNeverOverwritten ==
    [][head' # head => \/ head = Null /\ head' = q[1]
                       \/ head' = Null /\ shadow_head = head]_vars

(* While an element is in the queue its next field is written once: by the *)
(* enqueuer of the element that follows it, and never by the consumer,     *)
(* whose OPA_SHM_SET_REL_NULL(_e->next) must not erase a link.             *)
LinkWrittenOnce ==
    [][\A i \in 1..Len(q) : next'[q[i]] # next[q[i]] =>
            next[q[i]] = Null /\ i < Len(q) /\ next'[q[i]] = q[i+1]]_vars

(* The queue implements FifoQueue.  An element the consumer has unlinked   *)
(* counts as in the queue until dequeue returns it; an element is pending  *)
(* while its enqueuer owes a link or the head.                             *)
items == IF cpc = "clear" THEN <<r_e>> \o q ELSE q

pending == {r_elt[p] : p \in {x \in Producers : ppc[x] = "link"}}

Fifo == INSTANCE FifoQueue
          WITH Elements <- Elements, Null <- Null,
               items <- items, pending <- pending, reply <- reply

ImplementsFifo == Fifo!Spec

(* Under FairSpec every element that a swap has put into the queue comes   *)
(* out of it: test_queue_threaded_dequeue waits for all of them.           *)
EventuallyDequeued ==
    \A e \in Elements :
        e \in Items(q) ~> reply = [op |-> "dequeue", elt |-> e]

(* "Implements a fast, lockfree, multi-producer, single-consumer queue":   *)
(* a consumer that runs, whatever the other threads do, completes.         *)
ConsumerSpec == Spec /\ ConsumerFairness

DequeueLockFree == (cpc = "wait") ~> (cpc = "idle")
=============================================================================
