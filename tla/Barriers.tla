------------------------------ MODULE Barriers ------------------------------
(***************************************************************************)
(* What the barriers, load_acquire and store_release of each port keep in  *)
(* order, and the small programs whose outcome depends on it.              *)
(*                                                                         *)
(* A thread's accesses are performed, one at a time, in any order that the *)
(* machine and the barriers between them allow.  An order is a set of      *)
(* pairs: <<"L", "S">> says that a load is performed before a later store. *)
(* All threads see an access when it is performed (POWER is weaker).  What *)
(* the instructions and library calls order is taken from their manuals;   *)
(* which of them a port uses, and where, from the port.                    *)
(***************************************************************************)
EXTENDS Naturals, Sequences, FiniteSets

CONSTANTS Ports, Tests, Threads,
          Rounds      \* passes of the linear array's threads over the array

ASSUME BarriersAssumption ==
    /\ Ports \subseteq {"x86", "p3", "ppc", "arm", "sicortex", "ia64", "gcc",
                       "c11", "sun", "nt", "by_lock"}
    /\ Tests \subseteq {"linear_array", "publish", "handover", "store_load", "done"}
    /\ {1, 2} \subseteq Threads /\ Threads \subseteq Nat
    /\ Rounds \in Nat

VARIABLES port, test,
          mem,        \* shared memory
          performed,  \* of each thread, the accesses that have been performed
          seen        \* what each load has returned

vars == <<port, test, mem, performed, seen>>

-----------------------------------------------------------------------------
(* Orders.                                                                 *)

LL == <<"L", "L">>
LS == <<"L", "S">>
SL == <<"S", "L">>
SS == <<"S", "S">>

All == {LL, LS, SL, SS}
None == {}
AllButStoreLoad == {LL, LS, SS}     \* x86, SPARC TSO, lwsync, an acq_rel fence

(* The ports.  machine is what needs no barrier; acquire stands right      *)
(* after the load of load_acquire, release right before the store of       *)
(* store_release.                                                          *)

(* Compiler barriers, but for read_write.                                  *)
X86 == [machine |-> AllButStoreLoad, write |-> None, read |-> None,
        readWrite |-> All, acquire |-> None, release |-> None]

(* A lock-prefixed instruction for want of mfence.                         *)
P3 == [X86 EXCEPT !.readWrite = All]

Eieio == {SS}
Lwsync == AllButStoreLoad

(* Mutant: lwsync for sync.                                                *)
PPCLight == [machine |-> None, write |-> Eieio, read |-> Lwsync, readWrite |-> Lwsync,
             acquire |-> Lwsync, release |-> Lwsync]

(* Mutant: eieio in store_release.                                         *)
PPCEieio == [machine |-> None, write |-> Eieio, read |-> Lwsync, readWrite |-> All,
             acquire |-> Lwsync, release |-> Eieio]

(* Mutant: eieio for sync.                                                 *)
PPCNoSync == [machine |-> None, write |-> Eieio, read |-> Lwsync, readWrite |-> Eieio,
              acquire |-> Lwsync, release |-> Lwsync]

(* eieio, lwsync and sync.                                                 *)
PPC == [machine |-> None, write |-> Eieio, read |-> Lwsync, readWrite |-> All,
        acquire |-> Lwsync, release |-> Lwsync]

(* Mutant: nothing but a compiler barrier for readers.                     *)
ARMCompilerOnly == [machine |-> None, write |-> All, read |-> None, readWrite |-> All,
                    acquire |-> All, release |-> All]

(* dmb and dsb.                                                            *)
ARM == [machine |-> None, write |-> All, read |-> All, readWrite |-> All,
        acquire |-> All, release |-> All]

(* sync.                                                                   *)
SiCortex == [machine |-> None, write |-> All, read |-> All, readWrite |-> All,
             acquire |-> All, release |-> All]

(* mf; load_acquire and store_release do not compile.                      *)
IA64 == [machine |-> None, write |-> All, read |-> All, readWrite |-> All]

(* __sync_synchronize.  load_acquire and store_release use an acquire and  *)
(* a release operation on a local variable: the one orders nothing that    *)
(* comes before it, the other nothing that comes after.                    *)
GCC == [machine |-> None, write |-> All, read |-> All, readWrite |-> All,
        acquire |-> None, release |-> None]

(* Fences of memory_order_acq_rel; the loads and stores are relaxed.       *)
C11 == [machine |-> None, write |-> AllButStoreLoad, read |-> AllButStoreLoad,
        readWrite |-> AllButStoreLoad, acquire |-> {LL, LS}, release |-> {LS, SS}]

(* membar_producer, membar_consumer; membar_enter, membar_exit.            *)
Sun == [machine |-> AllButStoreLoad, write |-> {SS}, read |-> {LL}, readWrite |-> {LL, SS},
        acquire |-> {SL, SS}, release |-> {LS, SS}]

(* _ReadWriteBarrier and its like are instructions to the compiler alone.  *)
NT == [machine |-> AllButStoreLoad, write |-> None, read |-> None, readWrite |-> None,
       acquire |-> None, release |-> None]

(* Each access is a critical section of one mutex; the barriers are empty. *)
ByLock == [machine |-> All, write |-> None, read |-> None, readWrite |-> None,
           acquire |-> None, release |-> None]

P == CASE port = "x86" -> X86
       [] port = "p3" -> P3
       [] port = "ppc" -> PPC
       [] port = "arm" -> ARM
       [] port = "sicortex" -> SiCortex
       [] port = "ia64" -> IA64
       [] port = "gcc" -> GCC
       [] port = "c11" -> C11
       [] port = "sun" -> Sun
       [] port = "nt" -> NT
       [] port = "by_lock" -> ByLock

(* A load through a pointer waits for the load of the pointer on every     *)
(* machine that has a port of its own; the languages of the compilers'     *)
(* ports promise nothing of the kind.                                      *)
KeepsDependencies == port \notin {"gcc", "c11"}

-----------------------------------------------------------------------------
(* Programs: accesses and barriers.                                        *)

Load(l) == [kind |-> "L", loc |-> l, via |-> 0]
Follow(l, i) == [kind |-> "L", loc |-> l, via |-> i]  \* where the i-th load points
Store(l) == [kind |-> "S", loc |-> l, incr |-> FALSE]
Incr(l) == [kind |-> "S", loc |-> l, incr |-> TRUE]   \* performed at its store
Barrier(order) == [kind |-> "barrier", order |-> order]

Times(n, s) == [i \in 1 .. n * Len(s) |-> s[((i - 1) % Len(s)) + 1]]

(* test_barriers_linear_array: writers increment the array upwards, with   *)
(* write barriers, readers read it downwards, with read barriers.          *)
LinearArray(t) ==
    IF t % 2 = 1
      THEN Times(Rounds, <<Incr("x"), Barrier(P.write), Incr("y"), Barrier(P.write)>>)
      ELSE Times(Rounds, <<Load("y"), Barrier(P.read), Load("x"), Barrier(P.read)>>)

(* OPA_Queue_enqueue stores a payload x and NULL in the next field z, and  *)
(* then links the element, y.  The consumer finds the element by its link. *)
(* OPA_Queue_dequeue loads its next field, and the client of peek_head     *)
(* anything in it, through the link and before any barrier; the client of  *)
(* dequeue loads the payload after OPA_read_barrier.                       *)
Publish(t) ==
    IF t = 1 THEN <<Store("x"), Store("z"), Barrier(P.write), Store("y")>>
             ELSE <<Load("y"), Follow("z", 1), Barrier(P.read), Load("x")>>

(* load_acquire and store_release, which pair up: the data is written      *)
(* before the release, and read, or written over, after the acquire.       *)
Handover(t) ==
    CASE t = 1 -> <<Load("z"), Store("x"), Barrier(P.release), Store("y")>>
      [] t = 2 -> <<Load("y"), Barrier(P.acquire), Load("x"), Store("z")>>
      [] OTHER -> <<>>

(* A reader of test_threaded_llsc_int_stack wants its store to head to be  *)
(* "perceived as stored before reading" another variable.                  *)
StoreThenLoad(t) ==
    CASE t = 1 -> <<Store("x"), Barrier(P.readWrite), Load("y")>>
      [] t = 2 -> <<Store("y"), Barrier(P.readWrite), Load("x")>>
      [] OTHER -> <<>>

(* threaded_llsc_int_aba_helper_0: "make sure we are done" with the loads  *)
(* and stores of a round "before we allow thread 1 to continue".           *)
DoneThenContinue(t) ==
    CASE t = 1 -> <<Load("z"), Store("x"), Barrier(P.readWrite), Store("y")>>
      [] t = 2 -> <<Load("y"), Barrier(P.readWrite), Load("x"), Store("z")>>
      [] OTHER -> <<>>

Program(t) == CASE test = "linear_array" -> LinearArray(t)
                [] test = "publish" -> Publish(t)
                [] test = "handover" -> Handover(t)
                [] test = "store_load" -> StoreThenLoad(t)
                [] test = "done" -> DoneThenContinue(t)

Accesses(t) == {i \in DOMAIN Program(t) : Program(t)[i].kind # "barrier"}

(* The i-th access of a program must be performed before the j-th.         *)
Before(prog, i, j) ==
    /\ i < j
    /\ LET pair == <<prog[i].kind, prog[j].kind>>
       IN \/ prog[i].loc = prog[j].loc
          \/ pair \in P.machine
          \/ pair = LL /\ prog[j].via = i /\ KeepsDependencies
          \/ \E k \in i+1 .. j-1 : prog[k].kind = "barrier" /\ pair \in prog[k].order

-----------------------------------------------------------------------------
Init == /\ port \in Ports
        /\ test \in Tests
        /\ test = "handover" => port # "ia64"
        /\ mem = [l \in {"x", "y", "z"} |-> 0]
        /\ performed = [t \in Threads |-> {}]
        /\ seen = [t \in Threads |-> <<>>]

Ready(t, i) == /\ i \in Accesses(t) \ performed[t]
               /\ \A j \in Accesses(t) : Before(Program(t), j, i) => j \in performed[t]

PerformLoad(t, i) ==
    LET a == Program(t)[i]
    IN /\ Ready(t, i)
       /\ a.kind = "L"
       /\ seen' = [seen EXCEPT ![t] = [j \in DOMAIN @ \cup {i} |-> IF j = i THEN mem[a.loc] ELSE @[j]]]
       /\ performed' = [performed EXCEPT ![t] = @ \cup {i}]
       /\ UNCHANGED <<port, test, mem>>

PerformStore(t, i) ==
    LET a == Program(t)[i]
    IN /\ Ready(t, i)
       /\ a.kind = "S"
       /\ mem' = [mem EXCEPT ![a.loc] = IF a.incr THEN @ + 1 ELSE 1]
       /\ performed' = [performed EXCEPT ![t] = @ \cup {i}]
       /\ UNCHANGED <<port, test, seen>>

Next == \E t \in Threads : \E i \in DOMAIN Program(t) :
            PerformLoad(t, i) \/ PerformStore(t, i)

Spec == Init /\ [][Next]_vars

-----------------------------------------------------------------------------
Saw(t, i) == i \in DOMAIN seen[t]

TypeOK ==
    /\ port \in Ports /\ test \in Tests
    /\ test = "handover" => port # "ia64"
    /\ mem \in [{"x", "y", "z"} -> Nat]
    /\ performed \in [Threads -> SUBSET Nat]
    /\ DOMAIN seen = Threads

(* The inductive invariant, in named parts: one for each program, about    *)
(* the ports whose barriers keep what that program needs.                  *)

(* What a thread has seen is what its performed loads returned.            *)
Loaded ==
    \A t \in Threads :
        /\ performed[t] \subseteq Accesses(t)
        /\ \A i \in performed[t] : Program(t)[i].kind = "L" => Saw(t, i)
        /\ \A i \in DOMAIN seen[t] : i \in performed[t] /\ seen[t][i] \in Nat

(* The writers that have incremented x and not yet y.                      *)
Middle == {w \in Threads \X (1 .. 4 * Rounds) :
              /\ w[1] % 2 = 1 /\ w[2] % 4 = 1
              /\ w[2] \in performed[w[1]] /\ w[2] + 2 \notin performed[w[1]]}

(* x is ahead of y by the writers in the middle of the array; a reader has *)
(* seen no more than there is now.                                         *)
Array ==
    test = "linear_array" =>
        /\ IsFiniteSet(Middle)
        /\ mem.x = mem.y + Cardinality(Middle)
        /\ \A t \in Threads : \A i \in performed[t] :
              i % 4 = 3 => i - 2 \in performed[t]
        /\ \A t \in Threads : t % 2 = 0 =>
              \A i \in DOMAIN seen[t] :
                  /\ i % 4 = 1 => seen[t][i] <= mem.y
                  /\ i % 4 = 3 => seen[t][i-2] <= seen[t][i]

(* The value of a flag that t's i-th access sets.                          *)
Flag(t, i) == IF i \in performed[t] THEN 1 ELSE 0

Published ==
    test = "publish" =>
        /\ mem.x = Flag(1, 1) /\ mem.z = Flag(1, 2) /\ mem.y = Flag(1, 4)
        /\ 4 \in performed[1] => {1, 2} \subseteq performed[1]
        /\ \A t \in Threads \ {1} :
              /\ Saw(t, 1) => seen[t][1] <= mem.y
              /\ Saw(t, 4) => Saw(t, 1) /\ seen[t][1] <= seen[t][4]
              /\ KeepsDependencies /\ Saw(t, 2) => Saw(t, 1) /\ seen[t][1] <= seen[t][2]

(* The two programs that hand a variable over differ in the barrier only.  *)
HandedOver ==
    test = "done" \/ (test = "handover" /\ port # "gcc") =>
        /\ mem.x = Flag(1, 2) /\ mem.y = Flag(1, 4) /\ mem.z = Flag(2, 4)
        /\ 4 \in performed[1] => {1, 2} \subseteq performed[1]
        /\ 3 \in performed[2] \/ 4 \in performed[2] => 1 \in performed[2]
        /\ Saw(2, 1) /\ seen[2][1] = 1 => 4 \in performed[1]
        /\ Saw(2, 1) /\ seen[2][1] = 1 /\ Saw(2, 3) => seen[2][3] = 1
        /\ Saw(1, 1) /\ seen[1][1] # 0 =>
              4 \in performed[2] /\ ~(Saw(2, 1) /\ seen[2][1] = 1)

(* Who has read has stored; if it has read 0, it stored first.             *)
StoredFirst ==
    test = "store_load" /\ port \notin {"c11", "sun", "nt"} =>
        /\ mem.x = Flag(1, 1) /\ mem.y = Flag(2, 1)
        /\ \A t \in {1, 2} : 3 \in performed[t] => 1 \in performed[t]
        /\ ~(Saw(1, 3) /\ Saw(2, 3) /\ seen[1][3] = 0 /\ seen[2][3] = 0)

BarriersInv == TypeOK /\ Loaded /\ Array /\ Published /\ HandedOver /\ StoredFirst

(* "Verify that the values never increase when read back in forward order" *)
(* (test_barriers.c), with several writers in the middle of the array.     *)
NeverIncreasing ==
    test = "linear_array" =>
        \A t \in Threads, r \in 0 .. Rounds - 1 :
            t % 2 = 0 /\ Saw(t, 4*r + 1) /\ Saw(t, 4*r + 3) =>
                seen[t][4*r + 1] <= seen[t][4*r + 3]

(* Who finds an element finds what was stored in it before: in every port  *)
(* the payload, OPA_write_barrier in enqueue and OPA_read_barrier in       *)
(* dequeue; and what is read before any read barrier, enqueue's NULL or a  *)
(* peeked payload, in the ports that keep loads through a pointer in order.*)
PublishedIsVisible ==
    test = "publish" =>
        \A t \in Threads \ {1} :
            /\ Saw(t, 1) /\ Saw(t, 4) => seen[t][1] <= seen[t][4]
            /\ KeepsDependencies /\ Saw(t, 1) /\ Saw(t, 2) => seen[t][1] <= seen[t][2]

(* A handed over variable belongs to the receiver: it reads what the giver *)
(* stored, and the giver does not read what it stores afterwards.          *)
Received(acquired) ==
    acquired => /\ Saw(2, 3) => seen[2][3] = 1
                /\ Saw(1, 1) => seen[1][1] = 0

(* load_acquire and store_release of every port but gcc's hand over.       *)
AcquireSeesRelease ==
    test = "handover" /\ port # "gcc" => Received(Saw(2, 1) /\ seen[2][1] = 1)

(* So does OPA_read_write_barrier, in every port.                          *)
BarrierHandsOver ==
    test = "done" => Received(Saw(2, 1) /\ seen[2][1] = 1)

(* It also orders a store before a later load, where it is more than an    *)
(* acq_rel fence, a pair of one-sided membars or a compiler barrier.       *)
StoreBeforeLoad ==
    test = "store_load" /\ port \notin {"c11", "sun", "nt"} =>
        ~(Saw(1, 3) /\ Saw(2, 3) /\ seen[1][3] = 0 /\ seen[2][3] = 0)
=============================================================================
