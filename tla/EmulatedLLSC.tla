---------------------------- MODULE EmulatedLLSC ----------------------------
(***************************************************************************)
(* The OPA_*_by_llsc functions of src/src/primitives/opa_emulated.h, over  *)
(* the load-linked and store-conditional of the POWER and ARM ports; the   *)
(* inline assembly of the SiCortex port has the same loops.                *)
(*                                                                         *)
(* The hardware: OPA_LL sets the thread's reservation; any store to the    *)
(* cell clears every reservation; OPA_SC stores only while the reservation *)
(* is there, and may also lose it for no reason (an interrupt, an evicted  *)
(* line).  Spurious bounds how often that happens.                         *)
(***************************************************************************)
EXTENDS Integers, Emulated

CONSTANTS Threads,
          CallSet,    \* the calls that threads make
          MaxCalls,   \* how many calls each thread makes
          Spurious    \* how many reservations are lost for no reason

ASSUME LLSCAssumption == CallSet \subseteq CallRecords /\ MaxCalls \in Nat /\ Spurious \in Nat

VARIABLES v, pc, req, prev, res,
          reserved,   \* the threads that hold a reservation on the cell
          calls,      \* calls made by each thread
          lost        \* reservations lost for no reason

vars == <<v, pc, req, prev, res, reserved, calls, lost>>

Init == /\ v = 0
        /\ pc = [t \in Threads |-> "idle"]
        /\ req = [t \in Threads |-> NoCall]
        /\ prev = [t \in Threads |-> 0]
        /\ res = [t \in Threads |-> 0]
        /\ reserved = {}
        /\ calls = [t \in Threads |-> 0]
        /\ lost = 0

Invoke(t, r) ==
    /\ pc[t] = "idle"
    /\ calls[t] < MaxCalls
    /\ calls' = [calls EXCEPT ![t] = @ + 1]
    /\ req' = [req EXCEPT ![t] = r]
    /\ pc' = [pc EXCEPT ![t] = IF r.op \in {"load", "store"} THEN r.op ELSE "ll"]
    /\ UNCHANGED <<v, prev, res, reserved, lost>>

Finish(t, x) ==
    /\ pc' = [pc EXCEPT ![t] = "return"]
    /\ res' = [res EXCEPT ![t] = Returned(req[t], x)]

(* OPA_LL and a successful OPA_SC.                                         *)
LoadLinked(t) ==
    /\ prev' = [prev EXCEPT ![t] = v]
    /\ reserved' = reserved \cup {t}

StoreConditional(t, x) ==
    /\ t \in reserved
    /\ v' = x
    /\ reserved' = {}

Load(t) ==
    /\ pc[t] = "load"
    /\ Finish(t, v)
    /\ UNCHANGED <<v, req, prev, reserved, calls, lost>>

Store(t) ==
    /\ pc[t] = "store"
    /\ v' = req[t].val
    /\ reserved' = {}
    /\ Finish(t, 0)
    /\ UNCHANGED <<req, prev, calls, lost>>

(* Mutant: cas does not compare prev with oldv.                            *)
LLNoCompare(t) ==
    /\ pc[t] = "ll"
    /\ LoadLinked(t)
    /\ pc' = [pc EXCEPT ![t] = "sc"]
    /\ UNCHANGED <<v, req, res, calls, lost>>

(* prev = OPA_LL(ptr); a cas whose comparand differs leaves the loop.      *)
LL(t) ==
    /\ pc[t] = "ll"
    /\ LoadLinked(t)
    /\ IF req[t].op = "cas" /\ v # req[t].oldv
         THEN Finish(t, v)
         ELSE pc' = [pc EXCEPT ![t] = "sc"] /\ UNCHANGED res
    /\ UNCHANGED <<v, req, calls, lost>>

SCStore(t) ==
    /\ pc[t] = "sc"
    /\ StoreConditional(t, Attempted(req[t], prev[t]))
    /\ Finish(t, prev[t])
    /\ UNCHANGED <<req, prev, calls, lost>>

(* Mutant: the loop condition takes a failed OPA_SC for a success.         *)
SCIgnoreFailure(t) ==
    /\ pc[t] = "sc"
    /\ t \notin reserved
    /\ Finish(t, prev[t])
    /\ UNCHANGED <<v, req, prev, reserved, calls, lost>>

(* Mutant: after a failure only OPA_SC is repeated, not OPA_LL.            *)
SCRetryStore(t) ==
    /\ pc[t] = "sc"
    /\ t \notin reserved
    /\ UNCHANGED vars

(* OPA_SC returns 0: round the loop again.                                 *)
SCFail(t) ==
    /\ pc[t] = "sc"
    /\ t \notin reserved
    /\ pc' = [pc EXCEPT ![t] = "ll"]
    /\ UNCHANGED <<v, req, prev, res, reserved, calls, lost>>

LoseReservation(t) ==
    /\ t \in reserved
    /\ lost < Spurious
    /\ reserved' = reserved \ {t}
    /\ lost' = lost + 1
    /\ UNCHANGED <<v, pc, req, prev, res, calls>>

Return(t) ==
    /\ pc[t] = "return"
    /\ pc' = [pc EXCEPT ![t] = "idle"]
    /\ req' = [req EXCEPT ![t] = NoCall]
    /\ prev' = [prev EXCEPT ![t] = 0]
    /\ res' = [res EXCEPT ![t] = 0]
    /\ UNCHANGED <<v, reserved, calls, lost>>

Step(t) == Load(t) \/ Store(t) \/ LL(t) \/ SCStore(t) \/ SCFail(t) \/ Return(t)

Next == \E t \in Threads : \/ \E r \in CallSet : Invoke(t, r)
                           \/ Step(t)
                           \/ LoseReservation(t)

Spec == Init /\ [][Next]_vars

(* A thread in a call goes on running.                                     *)
FairSpec == Spec /\ \A t \in Threads : WF_vars(Step(t))

-----------------------------------------------------------------------------
TypeOK ==
    /\ v \in Ints
    /\ pc \in [Threads -> {"idle", "load", "store", "ll", "sc", "return"}]
    /\ req \in [Threads -> CallRecords]
    /\ prev \in [Threads -> Ints]
    /\ res \in [Threads -> Ints]
    /\ reserved \subseteq Threads

(* The inductive invariant.  A thread that may still store holds the value *)
(* of the cell: there is no ABA window between OPA_LL and OPA_SC.  A cas   *)
(* stores only over its comparand.                                         *)
Inv ==
    /\ TypeOK
    /\ \A t \in Threads :
          /\ pc[t] \in {"ll", "sc"} => req[t].op \notin {"load", "store"}
          /\ pc[t] \in {"load", "store"} => req[t].op = pc[t]
          /\ pc[t] = "sc" /\ t \in reserved => v = prev[t]
          /\ pc[t] = "sc" /\ req[t].op = "cas" => prev[t] = req[t].oldv

(* A call takes effect at its successful OPA_SC, a failing cas at its      *)
(* OPA_LL.                                                                 *)
stage == [t \in Threads |-> CASE pc[t] = "idle" -> "idle"
                              [] pc[t] = "return" -> "done"
                              [] OTHER -> "called"]

Atomic == INSTANCE AtomicOps
            WITH Half <- Half, Threads <- Threads,
                 v <- v, stage <- stage, req <- req, res <- res

(* Every emulated call is atomic, whatever the interleaving and the        *)
(* spurious failures, and with the wrap-around of the machine's ints.      *)
LoopsAreAtomic == Atomic!Spec

(* The loops are lock-free: an OPA_SC fails only because another thread's  *)
(* store has succeeded, or spuriously, so when both cease every call       *)
(* returns.                                                                *)
LoopsEnd == \A t \in Threads : pc[t] # "idle" ~> pc[t] = "idle"
=============================================================================
