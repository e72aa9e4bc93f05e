----------------------------- MODULE LLSCProofs -----------------------------
(***************************************************************************)
(* Proofs about EmulatedLLSC, for every number of threads, every width of  *)
(* an int and every set of calls.                                          *)
(***************************************************************************)
EXTENDS EmulatedLLSC, EmulatedLemmas

-----------------------------------------------------------------------------
(* The inductive invariant.                                                *)

LEMMA InvInit == Init => Inv
  BY SmallInts DEF Init, Inv, TypeOK, NoCall, CallRecords, Ops

LEMMA InvStep == Inv /\ [Next]_vars => Inv'
  <1> SUFFICES ASSUME Inv, [Next]_vars PROVE Inv'
    OBVIOUS
  <1> USE DEF Inv, TypeOK
  <1>1. ASSUME NEW t \in Threads, NEW r \in CallSet, Invoke(t, r) PROVE Inv'
    BY <1>1, LLSCAssumption DEF Invoke, CallRecords, Ops
  <1>2. ASSUME NEW t \in Threads, Load(t) PROVE Inv'
    <2>1. Returned(req[t], v) \in Ints
      BY AttemptedInts
    <2> QED  BY <1>2, <2>1 DEF Load, Finish
  <1>3. ASSUME NEW t \in Threads, Store(t) PROVE Inv'
    <2>1. Returned(req[t], 0) \in Ints /\ req[t].val \in Ints
      BY AttemptedInts, SmallInts DEF CallRecords
    <2> QED  BY <1>3, <2>1 DEF Store, Finish
  <1>4. ASSUME NEW t \in Threads, LL(t) PROVE Inv'
    <2>1. Returned(req[t], v) \in Ints
      BY AttemptedInts
    <2>2. CASE req[t].op = "cas" /\ v # req[t].oldv
      BY <1>4, <2>1, <2>2 DEF LL, LoadLinked, Finish
    <2>3. CASE ~(req[t].op = "cas" /\ v # req[t].oldv)
      BY <1>4, <2>3 DEF LL, LoadLinked
    <2> QED  BY <2>2, <2>3
  <1>5. ASSUME NEW t \in Threads, SCStore(t) PROVE Inv'
    <2>1. Returned(req[t], prev[t]) \in Ints /\ Attempted(req[t], prev[t]) \in Ints
      BY AttemptedInts
    <2> QED  BY <1>5, <2>1 DEF SCStore, StoreConditional, Finish
  <1>6. ASSUME NEW t \in Threads, SCFail(t) PROVE Inv'
    BY <1>6 DEF SCFail
  <1>7. ASSUME NEW t \in Threads, LoseReservation(t) PROVE Inv'
    BY <1>7 DEF LoseReservation
  <1>8. ASSUME NEW t \in Threads, Return(t) PROVE Inv'
    <2>1. NoCall \in CallRecords /\ NoCall.op = "load"
      BY SmallInts DEF NoCall, CallRecords, Ops
    <2> QED  BY <1>8, <2>1, SmallInts DEF Return
  <1>9. CASE UNCHANGED vars
    BY <1>9 DEF vars
  <1> QED
    BY <1>1, <1>2, <1>3, <1>4, <1>5, <1>6, <1>7, <1>8, <1>9 DEF Next, Step

(* Between OPA_LL and OPA_SC a thread that keeps its reservation holds the *)
(* value of the cell: what a successful OPA_SC stores is computed from     *)
(* what it replaces, in each loop of opa_emulated.h.                       *)
THEOREM NoStaleStore == Spec => []Inv
  <1>1. Init => Inv
    BY InvInit
  <1>2. Inv /\ [Next]_vars => Inv'
    BY InvStep
  <1> QED  BY <1>1, <1>2, PTL DEF Spec

-----------------------------------------------------------------------------
(* The refinement.                                                         *)

(* AtomicOps counts with the same ints.                                    *)
LEMMA SameInts ==
  /\ Atomic!CallRecords = CallRecords
  /\ Atomic!NoCall = NoCall
  /\ \A x \in Int : Atomic!Wrap(x) = Wrap(x)
  BY DEF Atomic!CallRecords, CallRecords, Atomic!Ops, Ops, Atomic!Ints, Ints,
         Atomic!NoCall, NoCall, Atomic!Wrap, Wrap

LEMMA StageStep ==
  ASSUME Inv, NEW t \in Threads, NEW s \in {"idle", "load", "store", "ll", "sc", "return"},
         pc' = [pc EXCEPT ![t] = s]
  PROVE  /\ stage[t] = CASE pc[t] = "idle" -> "idle"
                          [] pc[t] = "return" -> "done"
                          [] OTHER -> "called"
         /\ stage' = [stage EXCEPT ![t] = CASE s = "idle" -> "idle"
                                             [] s = "return" -> "done"
                                             [] OTHER -> "called"]
  BY DEF stage, Inv, TypeOK

(* A completed loop does what the abstract call does to the value read.    *)
LEMMA SameEffect ==
  ASSUME NEW r \in CallRecords, NEW x \in Ints,
         r.op \notin {"load", "store"},
         r.op = "cas" => x = r.oldv
  PROVE  /\ Attempted(r, x) = Atomic!NewValue(r, x)
         /\ Returned(r, x) = Atomic!Result(r, x)
  <1>1. x + -1 = x - 1
    BY SmallInts
  <1>2. r.op \in Ops
    BY DEF CallRecords
  <1>3. Attempted(r, x) = Atomic!NewValue(r, x)
    <2>1. r.val \in Int /\ x \in Int
      BY SmallInts DEF CallRecords
    <2>2. /\ Atomic!Wrap(x + r.val) = Wrap(x + r.val)
          /\ Atomic!Wrap(x + 1) = Wrap(x + 1)
          /\ Atomic!Wrap(x - 1) = Wrap(x + -1)
      BY <2>1, <1>1, SameInts
    <2>3. CASE r.op \in {"add", "fetch_and_add"}
      BY <2>2, <2>3 DEF Attempted, Addend, AddCalls, Atomic!NewValue
    <2>4. CASE r.op \in {"incr", "fetch_and_incr"}
      BY <2>2, <2>4 DEF Attempted, Addend, AddCalls, Atomic!NewValue
    <2>5. CASE r.op \in {"decr", "fetch_and_decr", "decr_and_test"}
      BY <2>2, <2>5 DEF Attempted, Addend, AddCalls, Atomic!NewValue
    <2>6. CASE r.op \in {"cas", "swap"}
      BY <2>6 DEF Attempted, AddCalls, Atomic!NewValue
    <2> QED  BY <2>3, <2>4, <2>5, <2>6, <1>2 DEF Ops
  <1>4. Returned(r, x) = Atomic!Result(r, x)
    <2>1. (Atomic!Wrap(x - 1) = 0) <=> (x = 1)
      BY DecrTest, SameInts, SmallInts
    <2> QED  BY <2>1, <1>2 DEF Returned, Atomic!Result, Ops
  <1> QED  BY <1>3, <1>4

LEMMA StepImplements == Inv /\ [Next]_vars => [Atomic!Next]_(Atomic!vars)
  <1> SUFFICES ASSUME Inv, [Next]_vars PROVE [Atomic!Next]_(Atomic!vars)
    OBVIOUS
  <1>1. ASSUME NEW t \in Threads, NEW r \in CallSet, Invoke(t, r)
        PROVE  Atomic!Next
    <2>1. r \in CallRecords
      BY LLSCAssumption
    <2>2. stage[t] = "idle" /\ stage' = [stage EXCEPT ![t] = "called"]
      BY <1>1, <2>1, StageStep DEF Invoke, CallRecords
    <2>3. Atomic!Invoke(t, r)
      BY <1>1, <2>2 DEF Invoke, Atomic!Invoke
    <2> QED  BY <2>1, <2>3, SameInts DEF Atomic!Next
  <1>2. ASSUME NEW t \in Threads, Load(t) PROVE Atomic!Next
    <2>1. stage[t] = "called" /\ stage' = [stage EXCEPT ![t] = "done"]
      BY <1>2, StageStep DEF Load, Finish
    <2>2. req[t].op = "load"
      BY <1>2 DEF Load, Inv
    <2>3. Atomic!NewValue(req[t], v) = v /\ Atomic!Result(req[t], v) = Returned(req[t], v)
      BY <2>2 DEF Atomic!NewValue, Atomic!Result, Returned
    <2>4. Atomic!Perform(t)
      BY <1>2, <2>1, <2>3 DEF Load, Finish, Atomic!Perform
    <2> QED  BY <2>4 DEF Atomic!Next
  <1>3. ASSUME NEW t \in Threads, Store(t) PROVE Atomic!Next
    <2>1. stage[t] = "called" /\ stage' = [stage EXCEPT ![t] = "done"]
      BY <1>3, StageStep DEF Store, Finish
    <2>2. req[t].op = "store"
      BY <1>3 DEF Store, Inv
    <2>3. /\ Atomic!NewValue(req[t], v) = req[t].val
          /\ Atomic!Result(req[t], v) = Returned(req[t], 0)
      BY <2>2 DEF Atomic!NewValue, Atomic!Result, Returned
    <2>4. Atomic!Perform(t)
      BY <1>3, <2>1, <2>3 DEF Store, Finish, Atomic!Perform
    <2> QED  BY <2>4 DEF Atomic!Next
  <1>4. ASSUME NEW t \in Threads, LL(t), req[t].op = "cas" /\ v # req[t].oldv
        PROVE  Atomic!Next
    <2>1. stage[t] = "called" /\ stage' = [stage EXCEPT ![t] = "done"]
      BY <1>4, StageStep DEF LL, LoadLinked, Finish
    <2>2. Atomic!NewValue(req[t], v) = v /\ Atomic!Result(req[t], v) = Returned(req[t], v)
      BY <1>4 DEF Atomic!NewValue, Atomic!Result, Returned
    <2>3. Atomic!Perform(t)
      BY <1>4, <2>1, <2>2 DEF LL, LoadLinked, Finish, Atomic!Perform
    <2> QED  BY <2>3 DEF Atomic!Next
  <1>5. ASSUME NEW t \in Threads, LL(t), ~(req[t].op = "cas" /\ v # req[t].oldv)
        PROVE  UNCHANGED Atomic!vars
    <2>1. stage[t] = "called" /\ stage' = [stage EXCEPT ![t] = "called"]
      BY <1>5, StageStep DEF LL, LoadLinked
    <2>2. stage' = stage
      BY <2>1 DEF stage
    <2> QED  BY <1>5, <2>2 DEF LL, LoadLinked, Atomic!vars
  <1>6. ASSUME NEW t \in Threads, SCStore(t) PROVE Atomic!Next
    <2>1. stage[t] = "called" /\ stage' = [stage EXCEPT ![t] = "done"]
      BY <1>6, StageStep DEF SCStore, StoreConditional, Finish
    <2>2. /\ v = prev[t] /\ v \in Ints /\ req[t] \in CallRecords
          /\ req[t].op \notin {"load", "store"}
          /\ req[t].op = "cas" => v = req[t].oldv
      BY <1>6 DEF SCStore, StoreConditional, Inv, TypeOK
    <2>3. /\ Attempted(req[t], v) = Atomic!NewValue(req[t], v)
          /\ Returned(req[t], v) = Atomic!Result(req[t], v)
      BY <2>2, SameEffect
    <2>4. Atomic!Perform(t)
      BY <1>6, <2>1, <2>2, <2>3 DEF SCStore, StoreConditional, Finish, Atomic!Perform
    <2> QED  BY <2>4 DEF Atomic!Next
  <1>7. ASSUME NEW t \in Threads, SCFail(t) PROVE UNCHANGED Atomic!vars
    <2>1. stage[t] = "called" /\ stage' = [stage EXCEPT ![t] = "called"]
      BY <1>7, StageStep DEF SCFail
    <2>2. stage' = stage
      BY <2>1 DEF stage
    <2> QED  BY <1>7, <2>2 DEF SCFail, Atomic!vars
  <1>8. ASSUME NEW t \in Threads, LoseReservation(t) PROVE UNCHANGED Atomic!vars
    BY <1>8 DEF LoseReservation, Atomic!vars, stage
  <1>9. ASSUME NEW t \in Threads, Return(t) PROVE Atomic!Next
    <2>1. stage[t] = "done" /\ stage' = [stage EXCEPT ![t] = "idle"]
      BY <1>9, StageStep DEF Return
    <2>2. Atomic!Return(t)
      BY <1>9, <2>1, SameInts DEF Return, Atomic!Return
    <2> QED  BY <2>2 DEF Atomic!Next
  <1>10. CASE UNCHANGED vars
    BY <1>10 DEF vars, Atomic!vars, stage
  <1> QED
    BY <1>1, <1>2, <1>3, <1>4, <1>5, <1>6, <1>7, <1>8, <1>9, <1>10 DEF Next, Step

(* The LL/SC emulations of opa_emulated.h are atomic calls: they implement *)
(* AtomicOps, for every int width, number of threads and pattern of        *)
(* spurious failures.                                                      *)
THEOREM LLSCImplementsAtomicOps == Spec => LoopsAreAtomic
  <1>1. Init => Atomic!Init
    BY SameInts DEF Init, Atomic!Init, stage
  <1>2. Inv /\ [Next]_vars => [Atomic!Next]_(Atomic!vars)
    BY StepImplements
  <1>3. Spec => []Inv
    BY NoStaleStore
  <1> QED  BY <1>1, <1>2, <1>3, PTL DEF Spec, LoopsAreAtomic, Atomic!Spec
=============================================================================
