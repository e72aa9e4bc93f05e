------------------------------ MODULE AtomicOps ------------------------------
(***************************************************************************)
(* What an OPA_int_t promises the threads that share it: every OPA_* call  *)
(* takes effect at one instant between its invocation and its return.      *)
(* opa_by_lock.h calls its critical sections "a very readable reference    *)
(* for the exact semantics of our OPA_* ops"; NewValue and Result are what *)
(* those critical sections do.                                             *)
(***************************************************************************)
EXTENDS MachineInts

CONSTANT Threads

VARIABLES v,          \* the cell
          stage,      \* of each thread's call: idle, called or done
          req,        \* the call
          res         \* its result

vars == <<v, stage, req, res>>

NewValue(r, x) ==
    CASE r.op = "load" -> x
      [] r.op \in {"store", "swap"} -> r.val
      [] r.op \in {"add", "fetch_and_add"} -> Wrap(x + r.val)
      [] r.op \in {"incr", "fetch_and_incr"} -> Wrap(x + 1)
      [] r.op \in {"decr", "fetch_and_decr", "decr_and_test"} -> Wrap(x - 1)
      [] r.op = "cas" -> IF x = r.oldv THEN r.val ELSE x

(* A void function returns 0 here.                                         *)
Result(r, x) ==
    CASE r.op \in {"load", "swap", "cas", "fetch_and_add",
                   "fetch_and_incr", "fetch_and_decr"} -> x
      [] r.op = "decr_and_test" -> IF Wrap(x - 1) = 0 THEN 1 ELSE 0
      [] r.op \in {"store", "add", "incr", "decr"} -> 0

Init == /\ v = 0
        /\ stage = [t \in Threads |-> "idle"]
        /\ req = [t \in Threads |-> NoCall]
        /\ res = [t \in Threads |-> 0]

Invoke(t, r) ==
    /\ stage[t] = "idle"
    /\ stage' = [stage EXCEPT ![t] = "called"]
    /\ req' = [req EXCEPT ![t] = r]
    /\ UNCHANGED <<v, res>>

Perform(t) ==
    /\ stage[t] = "called"
    /\ v' = NewValue(req[t], v)
    /\ res' = [res EXCEPT ![t] = Result(req[t], v)]
    /\ stage' = [stage EXCEPT ![t] = "done"]
    /\ UNCHANGED req

Return(t) ==
    /\ stage[t] = "done"
    /\ stage' = [stage EXCEPT ![t] = "idle"]
    /\ req' = [req EXCEPT ![t] = NoCall]
    /\ res' = [res EXCEPT ![t] = 0]
    /\ UNCHANGED v

Next == \E t \in Threads : \/ \E r \in CallRecords : Invoke(t, r)
                           \/ Perform(t)
                           \/ Return(t)

Spec == Init /\ [][Next]_vars
=============================================================================
