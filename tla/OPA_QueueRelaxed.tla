-------------------------- MODULE OPA_QueueRelaxed --------------------------
(***************************************************************************)
(* The queue of src/src/opa_queue.h on hardware that delays stores.        *)
(*                                                                         *)
(* OPA_load_ptr and OPA_store_ptr are plain accesses in every port but     *)
(* opa_by_lock.h, so a store waits in its thread's buffer until it reaches *)
(* memory.  With Model = "TSO" (x86) the buffer is first in, first out,    *)
(* and an atomic instruction empties it first.  With Model = "PSO" (the    *)
(* store order of the POWER, ARM and C11-relaxed ports, which put no       *)
(* barrier into swap and compare-and-swap) stores to different locations   *)
(* overtake each other, and an atomic instruction waits only for earlier   *)
(* stores to its own location.  Loads are performed in program order.      *)
(*                                                                         *)
(* Each element carries a payload, written by its client before the        *)
(* enqueue and read after the dequeue.                                     *)
(***************************************************************************)
EXTENDS Naturals, Sequences

CONSTANTS Producers, Elements, Null,
          Consumer,   \* the consuming thread
          Model       \* the order in which stores reach memory

ASSUME ModelAssumption == /\ Null \notin Elements
                          /\ Consumer \notin Producers
                          /\ Model \in {"TSO", "PSO"}

VARIABLES
    mem,              \* shared memory, by location
    buf,              \* stores of each thread that have not reached memory
    shadow_head,      \* private to the consumer
    pool, ppc, r_elt, r_prev, cpc, r_e, reply, q   \* as in OPA_Queue

producerVars == <<ppc, r_elt, r_prev>>
consumerVars == <<shadow_head, cpc, r_e, reply>>
vars == <<mem, buf, pool, q, producerVars, consumerVars>>

Threads == Producers \cup {Consumer}
head == <<"head", Null>>
tail == <<"tail", Null>>
next(e) == <<"next", e>>
data(e) == <<"data", e>>
Links == {head} \cup {next(e) : e \in Elements}
Locations == Links \cup {tail} \cup {data(e) : e \in Elements}

Addr == Elements \cup {Null}

(* The payload of an element: e once its client has written it, Null when  *)
(* the memory holds what was there before.  The next field of an element   *)
(* that was never in the queue holds what the client's memory held.        *)

Init ==
    /\ mem \in [Locations -> Addr]
    /\ \A l \in Locations : mem[l] # Null => \E e \in Elements : l = next(e)
    /\ buf = [t \in Threads |-> <<>>]
    /\ shadow_head = Null
    /\ pool = Elements
    /\ ppc = [p \in Producers |-> "idle"]
    /\ r_elt = [p \in Producers |-> Null]
    /\ r_prev = [p \in Producers |-> Null]
    /\ cpc = "idle" /\ r_e = Null
    /\ reply = [op |-> "none", elt |-> Null]
    /\ q = <<>>

-----------------------------------------------------------------------------
(* Memory accesses.                                                        *)

Stores(t, l) == {i \in DOMAIN buf[t] : buf[t][i].loc = l}

(* A thread sees its own latest store.                                     *)
Load(t, l) ==
    IF Stores(t, l) = {} THEN mem[l]
    ELSE buf[t][CHOOSE i \in Stores(t, l) : \A j \in Stores(t, l) : j <= i].val

Store(t, writes) == buf' = [buf EXCEPT ![t] = @ \o writes]

Write(l, x) == [loc |-> l, val |-> x]

(* Mutant: an atomic instruction waits for none of its thread's stores.    *)
AtomicReadyNoDrain(t, l) == TRUE

(* An atomic instruction on l may be performed.                            *)
AtomicReady(t, l) ==
    CASE Model = "TSO" -> buf[t] = <<>>
      [] Model = "PSO" -> Stores(t, l) = {}

(* The i-th buffered store reaches memory.                                 *)
Flush(t, i) ==
    /\ i \in DOMAIN buf[t]
    /\ CASE Model = "TSO" -> i = 1
         [] Model = "PSO" -> \A j \in 1..i-1 : buf[t][j].loc # buf[t][i].loc
    /\ mem' = [mem EXCEPT ![buf[t][i].loc] = buf[t][i].val]
    /\ buf' = [buf EXCEPT ![t] = SubSeq(@, 1, i-1) \o SubSeq(@, i+1, Len(@))]
    /\ UNCHANGED <<pool, q, producerVars, consumerVars>>

FlushSome(t) == \E i \in DOMAIN buf[t] : Flush(t, i)

-----------------------------------------------------------------------------
(* Handing an element from one thread to another between two uses of it is *)
(* the clients' business (malloc and free in the tests) and ordered: no    *)
(* store to the element is still on its way.                               *)
HandedOver(e) == /\ e \in pool
                 /\ \A t \in Threads : Stores(t, next(e)) = {}

(* OPA_Queue_header_init, by the client that owns the element.  Until the  *)
(* element is enqueued or handed on nobody else reads the field, so it is  *)
(* taken to have reached memory at once.                                   *)
HeaderInit(e) ==
    /\ HandedOver(e)
    /\ mem' = [mem EXCEPT ![next(e)] = Null]
    /\ UNCHANGED <<buf, pool, q, producerVars, consumerVars>>

(* OPA_Queue_enqueue.  The client fills in the payload first.              *)

(* Mutant: the client's garbage is left in elt->next.                      *)
EnqueueCallNoReset(p, e) ==
    /\ ppc[p] = "idle"
    /\ HandedOver(e)
    /\ pool' = pool \ {e}
    /\ r_elt' = [r_elt EXCEPT ![p] = e]
    /\ Store(p, <<Write(data(e), e)>>)
    /\ ppc' = [ppc EXCEPT ![p] = "swap"]
    /\ UNCHANGED <<mem, q, r_prev, consumerVars>>

EnqueueCall(p, e) ==
    /\ ppc[p] = "idle"
    /\ HandedOver(e)
    /\ pool' = pool \ {e}
    /\ r_elt' = [r_elt EXCEPT ![p] = e]
    /\ Store(p, <<Write(data(e), e), Write(next(e), Null)>>)
    /\ ppc' = [ppc EXCEPT ![p] = "swap"]
    /\ UNCHANGED <<mem, q, r_prev, consumerVars>>

(* Mutant: no OPA_write_barrier before the swap.                           *)
EnqueueSwapNoBarrier(p) ==
    /\ ppc[p] = "swap"
    /\ AtomicReady(p, tail)
    /\ r_prev' = [r_prev EXCEPT ![p] = mem[tail]]
    /\ mem' = [mem EXCEPT ![tail] = r_elt[p]]
    /\ q' = Append(q, r_elt[p])
    /\ ppc' = [ppc EXCEPT ![p] = "link"]
    /\ UNCHANGED <<buf, pool, r_elt, consumerVars>>

(* OPA_write_barrier, then the swap: what was stored before the barrier    *)
(* has reached memory when the swap does.                                  *)
EnqueueSwap(p) ==
    /\ ppc[p] = "swap"
    /\ buf[p] = <<>>
    /\ r_prev' = [r_prev EXCEPT ![p] = mem[tail]]
    /\ mem' = [mem EXCEPT ![tail] = r_elt[p]]
    /\ q' = Append(q, r_elt[p])
    /\ ppc' = [ppc EXCEPT ![p] = "link"]
    /\ UNCHANGED <<buf, pool, r_elt, consumerVars>>

(* Mutant: no test for the tail that the swap returned.                    *)
LinkOfHead(p) == head

(* The link by which p's element is found.                                 *)
LinkOf(p) == IF r_prev[p] = Null THEN head ELSE next(r_prev[p])

EnqueueLink(p) ==
    /\ ppc[p] = "link"
    /\ Store(p, <<Write(LinkOf(p), r_elt[p])>>)
    /\ ppc' = [ppc EXCEPT ![p] = "idle"]
    /\ r_elt' = [r_elt EXCEPT ![p] = Null]
    /\ r_prev' = [r_prev EXCEPT ![p] = Null]
    /\ UNCHANGED <<mem, pool, q, consumerVars>>

EnqueueStep(p) == EnqueueSwap(p) \/ EnqueueLink(p)

-----------------------------------------------------------------------------
(* OPA_Queue_is_empty and OPA_Queue_peek_head.                             *)

Answer(op, elt) == reply' = [op |-> op, elt |-> elt]

IsEmptyShadow ==
    /\ cpc = "idle"
    /\ shadow_head # Null
    /\ Answer("nonempty", Null)
    /\ UNCHANGED <<mem, buf, pool, q, producerVars, shadow_head, cpc, r_e>>

IsEmptyLoadHead ==
    /\ cpc = "idle"
    /\ shadow_head = Null
    /\ IF Load(Consumer, head) = Null
         THEN Answer("empty", Null) /\ UNCHANGED cpc
         ELSE cpc' = "copy_head" /\ UNCHANGED reply
    /\ UNCHANGED <<mem, buf, pool, q, producerVars, shadow_head, r_e>>

IsEmptyCopyHead ==
    /\ cpc = "copy_head"
    /\ shadow_head' = Load(Consumer, head)
    /\ cpc' = "reset_head"
    /\ UNCHANGED <<mem, buf, pool, q, producerVars, r_e, reply>>

IsEmptyResetHead ==
    /\ cpc = "reset_head"
    /\ Store(Consumer, <<Write(head, Null)>>)
    /\ cpc' = "idle"
    /\ Answer("nonempty", Null)
    /\ UNCHANGED <<mem, pool, q, producerVars, shadow_head, r_e>>

IsEmptyCall == IsEmptyShadow \/ IsEmptyLoadHead

PeekHead ==
    /\ cpc = "idle"
    /\ reply.op \in {"empty", "nonempty"}
    /\ Answer("peek", shadow_head)
    /\ UNCHANGED <<mem, buf, pool, q, producerVars, shadow_head, cpc, r_e>>

-----------------------------------------------------------------------------
(* OPA_Queue_dequeue.                                                      *)

MayDequeue == \/ reply.op = "nonempty"
              \/ reply.op = "peek" /\ reply.elt # Null

DequeueCall ==
    /\ cpc = "idle"
    /\ MayDequeue
    /\ r_e' = shadow_head
    /\ cpc' = IF Load(Consumer, next(shadow_head)) # Null THEN "advance" ELSE "cas"
    /\ UNCHANGED <<mem, buf, pool, q, producerVars, shadow_head, reply>>

DequeueAdvance ==
    /\ cpc = "advance"
    /\ shadow_head' = Load(Consumer, next(r_e))
    /\ q' = Tail(q)
    /\ cpc' = "clear"
    /\ UNCHANGED <<mem, buf, pool, producerVars, r_e, reply>>

(* Mutant: when the compare-and-swap fails, no wait for the link.          *)
DequeueCasNoWait ==
    /\ cpc = "cas"
    /\ AtomicReady(Consumer, tail)
    /\ shadow_head' = Null
    /\ mem' = IF mem[tail] = r_e THEN [mem EXCEPT ![tail] = Null] ELSE mem
    /\ q' = Tail(q)
    /\ cpc' = "clear"
    /\ UNCHANGED <<buf, pool, producerVars, r_e, reply>>

DequeueCas ==
    /\ cpc = "cas"
    /\ AtomicReady(Consumer, tail)
    /\ shadow_head' = Null
    /\ IF mem[tail] = r_e
         THEN /\ mem' = [mem EXCEPT ![tail] = Null]
              /\ q' = Tail(q)
              /\ cpc' = "clear"
         ELSE /\ cpc' = "wait"
              /\ UNCHANGED <<mem, q>>
    /\ UNCHANGED <<buf, pool, producerVars, r_e, reply>>

DequeueWait ==
    /\ cpc = "wait"
    /\ Load(Consumer, next(r_e)) # Null
    /\ cpc' = "advance"
    /\ UNCHANGED <<mem, buf, pool, q, producerVars, shadow_head, r_e, reply>>

(* OPA_SHM_SET_REL_NULL(_e->next) and OPA_read_barrier.  The answer is the *)
(* element; the client then reads the payload, and the memory is free.     *)
DequeueClear ==
    /\ cpc = "clear"
    /\ Store(Consumer, <<Write(next(r_e), Null)>>)
    /\ Answer("dequeue", mem[data(r_e)])
    /\ mem' = [mem EXCEPT ![data(r_e)] = Null]
    /\ pool' = pool \cup {r_e}
    /\ r_e' = Null
    /\ cpc' = "idle"
    /\ UNCHANGED <<q, producerVars, shadow_head>>

ConsumerStep == \/ IsEmptyCopyHead \/ IsEmptyResetHead
                \/ DequeueAdvance \/ DequeueCas \/ DequeueWait \/ DequeueClear

Next == \/ \E t \in Threads : FlushSome(t)
        \/ \E e \in Elements : HeaderInit(e)
        \/ \E p \in Producers, e \in Elements : EnqueueCall(p, e)
        \/ \E p \in Producers : EnqueueStep(p)
        \/ IsEmptyCall \/ PeekHead \/ DequeueCall \/ ConsumerStep

Spec == Init /\ [][Next]_vars

(* As in OPA_Queue; and a store does not stay in a buffer for ever.        *)
FairSpec == /\ Spec
            /\ \A p \in Producers : WF_vars(EnqueueStep(p))
            /\ WF_vars(ConsumerStep)
            /\ WF_vars(IsEmptyCall)
            /\ SF_vars(DequeueCall)
            /\ \A t \in Threads : WF_vars(FlushSome(t))

-----------------------------------------------------------------------------
(* Type invariant.                                                         *)

TypeOK ==
    /\ mem \in [Locations -> Addr]
    /\ buf \in [Threads -> Seq([loc : Locations, val : Addr])]
    /\ shadow_head \in Addr
    /\ pool \subseteq Elements
    /\ ppc \in [Producers -> {"idle", "swap", "link"}]
    /\ r_elt \in [Producers -> Addr]
    /\ r_prev \in [Producers -> Addr]
    /\ cpc \in {"idle", "copy_head", "reset_head", "advance", "cas", "wait", "clear"}
    /\ r_e \in Addr
    /\ reply \in [op : {"none", "empty", "nonempty", "peek", "dequeue"}, elt : Addr]
    /\ q \in Seq(Elements)

-----------------------------------------------------------------------------
(* The inductive invariant, in named parts; with stores in flight, the     *)
(* parts of OPA_Queue's IInv.                                              *)

InFlight(t) == {buf[t][i] : i \in DOMAIN buf[t]}

(* An enqueue has swapped e in, and the store of e to the link l has not   *)
(* reached memory: it is not made yet, or in flight, perhaps since an      *)
(* earlier enqueue of the same producer.                                   *)
Owes(p, l, e) == \/ ppc[p] = "link" /\ l = LinkOf(p) /\ e = r_elt[p]
                 \/ Write(l, e) \in InFlight(p) /\ l \in Links /\ e # Null

(* The consumer's reset of head is in flight.                              *)
Resetting == Write(head, Null) \in InFlight(Consumer)

(* The element the consumer takes next, once it has found one.             *)
front == IF cpc \in {"advance", "cas", "wait"} THEN r_e ELSE shadow_head

(* Every element is in one place, as in OPA_Queue.                         *)
Ownership ==
    /\ \A i, j \in 1..Len(q) : q[i] = q[j] => i = j
    /\ \A i \in 1..Len(q) : q[i] \notin pool
    /\ \A p \in Producers : ppc[p] # "idle" =>
          /\ r_elt[p] \in Elements \ pool
          /\ \A r \in Producers \ {p} : ppc[r] # "idle" => r_elt[p] # r_elt[r]
    /\ \A p \in Producers : ppc[p] = "swap" => \A i \in 1..Len(q) : q[i] # r_elt[p]
    /\ cpc = "clear" =>
          /\ r_e \in Elements \ pool
          /\ \A i \in 1..Len(q) : q[i] # r_e
          /\ \A p \in Producers : ppc[p] # "idle" => r_elt[p] # r_e

(* What can be in flight: no two stores of a thread to one location; of a  *)
(* producer the link of its last enqueue, and what it prepares its next    *)
(* element with, which its write barrier waits for; of the consumer the    *)
(* resets of head and of the links of elements that clients own.           *)
Buffers ==
    /\ \A t \in Threads : \A i, j \in 1..Len(buf[t]) :
          buf[t][i].loc = buf[t][j].loc => i = j
    /\ \A p \in Producers :
          /\ ppc[p] = "idle" => Len(buf[p]) <= 1
          /\ ppc[p] = "swap" => Len(buf[p]) <= 3
          /\ ppc[p] = "link" => buf[p] = <<>>
    /\ \A p \in Producers : \A w \in InFlight(p) :
          \/ w.loc \in Links /\ w.val # Null
          \/ ppc[p] = "swap" /\ w \in {Write(data(r_elt[p]), r_elt[p]),
                                       Write(next(r_elt[p]), Null)}
    /\ \A w \in InFlight(Consumer) :
          w = Write(head, Null) \/ \E e \in pool : w = Write(next(e), Null)

(* An element's payload and NULL link are in memory, or in flight before   *)
(* the swap; of an element in the queue they are in memory.                *)
Prepared ==
    /\ \A p \in Producers : ppc[p] = "swap" =>
          /\ \/ mem[data(r_elt[p])] = r_elt[p]
             \/ Write(data(r_elt[p]), r_elt[p]) \in InFlight(p)
          /\ \/ mem[next(r_elt[p])] = Null
             \/ Write(next(r_elt[p]), Null) \in InFlight(p)
    /\ \A i \in 1..Len(q) : mem[data(q[i])] = q[i]
    /\ cpc = "clear" => mem[data(r_e)] = r_e

(* Two neighbours are linked, or the link is owed; tail is the last.       *)
Chain ==
    /\ \A i \in 1..Len(q)-1 :
          \/ mem[next(q[i])] = q[i+1]
          \/ \E p \in Producers : Owes(p, next(q[i]), q[i+1])
    /\ q # <<>> => mem[next(q[Len(q)])] = Null
    /\ mem[tail] = IF q = <<>> THEN Null ELSE q[Len(q)]

(* A link that is owed is owed by one producer, for the first element or   *)
(* between neighbours, and is not there yet.                               *)
Owed ==
    \A p \in Producers, e \in Elements :
        /\ Owes(p, head, e) => q # <<>> /\ e = q[1]
        /\ \A x \in Elements : Owes(p, next(x), e) =>
              \E i \in 1..Len(q)-1 : x = q[i] /\ e = q[i+1] /\ mem[next(x)] = Null
        /\ \A r \in Producers, l, m \in Links :
              Owes(p, l, e) /\ Owes(r, m, e) => p = r

OwesHead == \E p \in Producers, e \in Elements : Owes(p, head, e)

(* Where the consumer is, and how the list begins.  Under TSO the reset of *)
(* head cannot still be in flight when the consumer has nothing left.      *)
Front ==
    /\ front # Null => /\ q # <<>> /\ front = q[1]
                       /\ ~OwesHead
                       /\ IF cpc = "reset_head" THEN mem[head] = q[1] /\ ~Resetting
                          ELSE mem[head] = Null \/ Resetting
    /\ front = Null =>
          /\ Model = "TSO" => ~Resetting
          /\ \/ q = <<>> /\ (mem[head] = Null \/ Resetting)
             \/ q # <<>> /\ mem[head] = q[1] /\ ~OwesHead
             \/ q # <<>> /\ (mem[head] = Null \/ Resetting) /\ OwesHead
             \/ Model = "PSO" /\ q # <<>> /\ mem[head] = Null /\ ~OwesHead   \* lost
    /\ cpc = "copy_head" => shadow_head = Null /\ mem[head] # Null /\ ~Resetting
    /\ cpc \in {"reset_head", "advance", "cas", "wait"} => front # Null
    /\ cpc = "advance" => mem[next(r_e)] # Null
    /\ cpc = "cas" => shadow_head = r_e
    /\ cpc = "wait" => shadow_head = Null /\ Len(q) > 1

(* What the consumer may rely on between two calls; and the payload it has *)
(* been given is that of the element.                                      *)
Replied ==
    /\ cpc = "idle" /\ MayDequeue => shadow_head # Null
    /\ cpc = "idle" /\ reply.op = "empty" => shadow_head = Null
    /\ cpc \in {"advance", "cas", "wait", "clear"} => MayDequeue
    /\ reply.op \in {"empty", "none"} => cpc \in {"idle", "copy_head", "reset_head"}
    /\ reply.op = "dequeue" => reply.elt # Null

Locals ==
    /\ cpc \in {"idle", "copy_head", "reset_head"} => r_e = Null
    /\ cpc = "advance" => shadow_head \in {Null, r_e}
    /\ \A p \in Producers : /\ ppc[p] = "idle" => r_elt[p] = Null
                            /\ ppc[p] # "link" => r_prev[p] = Null

RelaxedInv == /\ TypeOK /\ Ownership /\ Buffers /\ Prepared
              /\ Chain /\ Owed /\ Front /\ Replied /\ Locals

-----------------------------------------------------------------------------
(* What the client reads of a dequeued element is what the enqueuing       *)
(* client stored, although that store is plain: OPA_write_barrier before   *)
(* the swap.  (reply.elt is the payload.)                                  *)
PayloadVisible == reply.op = "dequeue" => reply.elt # Null

(* What comes out of the queue comes out in the order of the swaps, in     *)
(* either store order, lost elements or not: dequeue unlinks the oldest    *)
(* element, and gives its client the payload of that one.                  *)
DequeuedInOrder ==
    [][/\ cpc' = "clear" /\ cpc # "clear" => q # <<>> /\ r_e' = Head(q) /\ q' = Tail(q)
       /\ cpc = "clear" /\ cpc' # "clear" => reply'.elt = r_e]_vars

(* Under TSO, too, the queue implements FifoQueue; an enqueue is pending   *)
(* until its link has reached memory, which may be after its return.       *)
items == IF cpc = "clear" THEN <<r_e>> \o q ELSE q

pending == {e \in Elements : \E p \in Producers, l \in Links : Owes(p, l, e)}

Fifo == INSTANCE FifoQueue
          WITH Elements <- Elements, Null <- Null,
               items <- items, pending <- pending, reply <- reply

ImplementsFifoTSO == Fifo!Spec

(* Every element that was swapped into the queue comes out of it.          *)
EventuallyDequeuedTSO ==
    \A e \in Elements :
        (\E i \in DOMAIN q : q[i] = e) ~> reply = [op |-> "dequeue", elt |-> e]

(* test_queue_threaded_dequeue "verifies that each thread added each       *)
(* sequence number exactly once": an element is not lost.  When no call is *)
(* running and no store is on its way, the consumer can find the first     *)
(* element of a queue that is not empty.                                   *)
Quiescent == /\ \A p \in Producers : ppc[p] = "idle"
             /\ cpc = "idle"
             /\ \A t \in Threads : buf[t] = <<>>

NothingLost == Quiescent /\ q # <<>> => mem[head] # Null \/ shadow_head # Null
=============================================================================
