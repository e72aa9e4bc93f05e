------------------------------- MODULE PortOps -------------------------------
(***************************************************************************)
(* The OPA_* calls of the ports whose machine, library or compiler has     *)
(* compare-and-swap.  A call is one instruction, whose answer the port     *)
(* makes into what the call returns, or it is a plain load and then a loop *)
(* of compare-and-swaps, each with the value the one before returned: the  *)
(* OPA_*_by_cas functions of src/src/primitives/opa_emulated.h, which the  *)
(* gcc port uses for swap if its compiler has none, and their copy in the  *)
(* ia64 port.                                                              *)
(***************************************************************************)
EXTENDS Integers, Emulated

CONSTANTS Threads,
          Ports,      \* the ports checked
          CallSet,    \* the calls that threads make
          MaxCalls    \* how many calls each thread makes

(* by_cas is opa_emulated.h, with everything it can express by cas;        *)
(* gcc_swap the gcc port where SYNC_LOCK_TEST_AND_SET_IS_SWAP is defined.  *)
ASSUME PortsAssumption ==
    /\ Ports \subseteq {"by_cas", "x86", "ia64", "c11", "gcc", "gcc_swap", "sun", "nt"}
    /\ CallSet \subseteq CallRecords
    /\ MaxCalls \in Nat

VARIABLES port,       \* chosen when the library is built
          v, pc, req, res,
          prev, cmp,  \* the locals of the loop
          calls       \* calls made by each thread

vars == <<port, v, pc, req, res, prev, cmp, calls>>

-----------------------------------------------------------------------------
(* The ports.                                                              *)

(* fetchadd takes a few immediates; with any other addend the ia64 port    *)
(* "falls back to the CAS implementation".                                 *)
Immediates == {-16, -8, -4, -1, 1, 4, 8, 16}

(* The calls that are loops.  The swap of gcc_swap is                      *)
(* __sync_lock_test_and_set.                                               *)
Looped(r) ==
    CASE port = "by_cas" -> r.op \in AddCalls \cup {"swap"}
      [] port = "gcc" -> r.op = "swap"
      [] port = "ia64" -> r.op \in AddCalls /\ Addend(r) \notin Immediates
      [] OTHER -> FALSE

(* What one instruction makes of a cell that holds x.  Only the four bytes *)
(* of the int are modelled of ia64's xchg8.                                *)
Instruction(r, x) ==
    CASE r.op = "load" -> x
      [] r.op \in {"store", "swap"} -> r.val
      [] r.op \in AddCalls -> Wrap(x + Addend(r))
      [] r.op = "cas" -> IF x = r.oldv THEN r.val ELSE x

(* Mutant: sun's fetch_and_decr subtracts, like its neighbour.             *)
SunAnswerSameSign(r, new) ==
    CASE r.op \in {"fetch_and_add", "fetch_and_incr"} -> Wrap(new - Addend(r))
      [] r.op = "fetch_and_decr" -> Wrap(new - 1)

(* The atomic_*_nv of Solaris return the new value.  The subtraction is in *)
(* ints that may overflow, and wraps around on that system's machines.     *)
SunAnswer(r, new) ==
    CASE r.op = "fetch_and_add" -> Wrap(new - r.val)
      [] r.op = "fetch_and_incr" -> Wrap(new - 1)
      [] r.op = "fetch_and_decr" -> Wrap(new + 1)

(* What a call returns when its instruction found old and left new: c11    *)
(* and ia64 test decr_and_test's old value, the others the new one.        *)
TestsNewValue == port \in {"x86", "gcc", "gcc_swap", "sun", "nt"}

Answer(r, old, new) ==
    CASE r.op = "decr_and_test" /\ TestsNewValue -> IF new = 0 THEN 1 ELSE 0
      [] r.op \in {"fetch_and_add", "fetch_and_incr", "fetch_and_decr"} /\ port = "sun" ->
            SunAnswer(r, new)
      [] OTHER -> Returned(r, old)

(* The value that a loop tries to store.  ia64's copy stores val.          *)
Stored(r, x) == IF port = "ia64" THEN r.val ELSE Attempted(r, x)

-----------------------------------------------------------------------------
Init == /\ port \in Ports
        /\ v = 0
        /\ pc = [t \in Threads |-> "idle"]
        /\ req = [t \in Threads |-> NoCall]
        /\ res = [t \in Threads |-> 0]
        /\ prev = [t \in Threads |-> 0]
        /\ cmp = [t \in Threads |-> 0]
        /\ calls = [t \in Threads |-> 0]

Invoke(t, r) ==
    /\ pc[t] = "idle"
    /\ calls[t] < MaxCalls
    /\ calls' = [calls EXCEPT ![t] = @ + 1]
    /\ req' = [req EXCEPT ![t] = r]
    /\ pc' = [pc EXCEPT ![t] = IF Looped(r) THEN "read" ELSE "direct"]
    /\ UNCHANGED <<port, v, res, prev, cmp>>

Finish(t, x) ==
    /\ pc' = [pc EXCEPT ![t] = "return"]
    /\ res' = [res EXCEPT ![t] = x]

Direct(t) ==
    /\ pc[t] = "direct"
    /\ v' = Instruction(req[t], v)
    /\ Finish(t, Answer(req[t], v, v'))
    /\ UNCHANGED <<port, req, prev, cmp, calls>>

(* prev = OPA_load(ptr); cmp = prev;                                       *)
ReadFirst(t) ==
    /\ pc[t] = "read"
    /\ prev' = [prev EXCEPT ![t] = v]
    /\ cmp' = [cmp EXCEPT ![t] = v]
    /\ pc' = [pc EXCEPT ![t] = "cas"]
    /\ UNCHANGED <<port, v, req, res, calls>>

(* Mutant: the next round compares with the same value again.              *)
CasKeepComparand(t) ==
    /\ pc[t] = "cas"
    /\ prev' = [prev EXCEPT ![t] = v]
    /\ IF v = cmp[t]
         THEN v' = Stored(req[t], prev[t]) /\ Finish(t, Returned(req[t], v))
         ELSE UNCHANGED <<v, pc, res>>
    /\ UNCHANGED <<port, req, cmp, calls>>

(* prev = OPA_cas(ptr, cmp, ...); while (prev != cmp), and cmp = prev at   *)
(* the head of the next round.                                             *)
Cas(t) ==
    /\ pc[t] = "cas"
    /\ prev' = [prev EXCEPT ![t] = v]
    /\ cmp' = [cmp EXCEPT ![t] = v]
    /\ IF v = cmp[t]
         THEN v' = Stored(req[t], prev[t]) /\ Finish(t, Returned(req[t], v))
         ELSE UNCHANGED <<v, pc, res>>
    /\ UNCHANGED <<port, req, calls>>

Return(t) ==
    /\ pc[t] = "return"
    /\ pc' = [pc EXCEPT ![t] = "idle"]
    /\ req' = [req EXCEPT ![t] = NoCall]
    /\ res' = [res EXCEPT ![t] = 0]
    /\ prev' = [prev EXCEPT ![t] = 0]
    /\ cmp' = [cmp EXCEPT ![t] = 0]
    /\ UNCHANGED <<port, v, calls>>

Step(t) == Direct(t) \/ ReadFirst(t) \/ Cas(t) \/ Return(t)

Next == \E t \in Threads : Step(t) \/ \E r \in CallSet : Invoke(t, r)

Spec == Init /\ [][Next]_vars

(* A thread in a call goes on running.                                     *)
FairSpec == Spec /\ \A t \in Threads : WF_vars(Step(t))

-----------------------------------------------------------------------------
(* A call takes effect at its instruction, or at the compare-and-swap that *)
(* finds cmp in the cell, even when the cell has held other values in      *)
(* between.                                                                *)
stage == [t \in Threads |-> CASE pc[t] = "idle" -> "idle"
                              [] pc[t] = "return" -> "done"
                              [] OTHER -> "called"]

Atomic == INSTANCE AtomicOps
            WITH Half <- Half, Threads <- Threads,
                 v <- v, stage <- stage, req <- req, res <- res

(* "The exact semantics of our OPA_* ops" (opa_by_lock.h): every call is   *)
(* atomic, whatever the interleaving, and returns what it should.          *)
PortsAreAtomic == Atomic!Spec

(* The loops are lock-free: a compare-and-swap fails only because another  *)
(* thread's call has changed the cell since, so when no new calls are made *)
(* every call returns.                                                     *)
CasLoopsEnd == \A t \in Threads : pc[t] # "idle" ~> pc[t] = "idle"
=============================================================================
