----------------------------- MODULE PortProofs -----------------------------
(***************************************************************************)
(* Proofs about PortOps, for every number of threads, every width of an    *)
(* int, every set of ports and every set of calls.                         *)
(***************************************************************************)
EXTENDS PortOps, EmulatedLemmas

(* No call of an ia64 port takes its fallback, which stores the addend.    *)
NoFallback == "ia64" \in Ports =>
                 \A r \in CallSet : r.op \in AddCalls => Addend(r) \in Immediates

TypeOK ==
    /\ port \in Ports
    /\ v \in Ints
    /\ pc \in [Threads -> {"idle", "direct", "read", "cas", "return"}]
    /\ req \in [Threads -> CallRecords]
    /\ res \in [Threads -> Ints]
    /\ prev \in [Threads -> Ints]
    /\ cmp \in [Threads -> Ints]

(* The inductive invariant: a loop compares with the value from which it   *)
(* computes what it stores.                                                *)
Inv ==
    /\ TypeOK
    /\ \A t \in Threads :
          /\ pc[t] \in {"read", "cas"} =>
                port # "ia64" /\ req[t].op \in AddCalls \cup {"swap"}
          /\ pc[t] = "cas" => cmp[t] = prev[t]

-----------------------------------------------------------------------------
(* Ints.                                                                   *)

(* One wrap-around at most, for the sum or difference of two ints.         *)
LEMMA WrapCases ==
  \A y \in Int : -3 * Half <= y /\ y < 3 * Half =>
      Wrap(y) = IF y < -Half THEN y + 2 * Half
                ELSE IF y >= Half THEN y - 2 * Half ELSE y
  <1> SUFFICES ASSUME NEW y \in Int, -3 * Half <= y, y < 3 * Half
               PROVE  Wrap(y) = IF y < -Half THEN y + 2 * Half
                                ELSE IF y >= Half THEN y - 2 * Half ELSE y
    OBVIOUS
  <1> DEFINE w == 2 * Half
  <1>1. w \in Nat \ {0} /\ Half \in Nat
    BY HalfAssumption
  <1>2. CASE y < -Half
    <2>1. (y + Half) % w = y + Half + w
      BY <1>1, <1>2, Z3
    <2> QED  BY <2>1, <1>1, <1>2 DEF Wrap
  <1>3. CASE y >= Half
    <2>1. (y + Half) % w = y + Half - w
      BY <1>1, <1>3, Z3
    <2> QED  BY <2>1, <1>1, <1>3 DEF Wrap
  <1>4. CASE -Half <= y /\ y < Half
    <2>1. (y + Half) % w = y + Half
      BY <1>1, <1>4, Z3
    <2> QED  BY <2>1, <1>1, <1>4 DEF Wrap
  <1> QED  BY <1>1, <1>2, <1>3, <1>4

(* Subtracting from the new value what was added gives the old one, even   *)
(* if both the sum and the difference wrap around.                         *)
LEMMA WrapBack == \A x, d \in Ints : Wrap(Wrap(x + d) - d) = x
  <1> SUFFICES ASSUME NEW x \in Ints, NEW d \in Ints PROVE Wrap(Wrap(x + d) - d) = x
    OBVIOUS
  <1>1. /\ x \in Int /\ -Half <= x /\ x < Half
        /\ d \in Int /\ -Half <= d /\ d < Half
        /\ Half \in Nat /\ Half > 1
    BY HalfAssumption DEF Ints
  <1>2. Wrap(x + d) = IF x + d < -Half THEN x + d + 2 * Half
                      ELSE IF x + d >= Half THEN x + d - 2 * Half ELSE x + d
    <2>1. x + d \in Int /\ -3 * Half <= x + d /\ x + d < 3 * Half
      BY <1>1
    <2> QED  BY <1>1, <2>1, WrapCases
  <1>3. CASE x + d < -Half
    <2>1. Wrap(x + d) - d = x + 2 * Half
      BY <1>1, <1>2, <1>3
    <2>2. Wrap(x + 2 * Half) = x
      <3>1. x + 2 * Half \in Int /\ -3 * Half <= x + 2 * Half /\ x + 2 * Half < 3 * Half
        BY <1>1
      <3> QED  BY <1>1, <3>1, WrapCases
    <2> QED  BY <2>1, <2>2
  <1>4. CASE x + d >= Half
    <2>1. Wrap(x + d) - d = x - 2 * Half
      BY <1>1, <1>2, <1>4
    <2>2. Wrap(x - 2 * Half) = x
      <3>1. x - 2 * Half \in Int /\ -3 * Half <= x - 2 * Half /\ x - 2 * Half < 3 * Half
        BY <1>1
      <3> QED  BY <1>1, <3>1, WrapCases
    <2> QED  BY <2>1, <2>2
  <1>5. CASE ~(x + d < -Half) /\ ~(x + d >= Half)
    <2>1. Wrap(x + d) - d = x
      BY <1>1, <1>2, <1>5
    <2>2. Wrap(x) = x
      <3>1. -3 * Half <= x /\ x < 3 * Half
        BY <1>1
      <3> QED  BY <1>1, <3>1, WrapCases
    <2> QED  BY <2>1, <2>2
  <1> QED  BY <1>3, <1>4, <1>5

-----------------------------------------------------------------------------
(* The instructions.                                                       *)

(* AtomicOps counts with the same ints.                                    *)
LEMMA SameInts ==
  /\ Atomic!CallRecords = CallRecords
  /\ Atomic!NoCall = NoCall
  /\ \A x \in Int : Atomic!Wrap(x) = Wrap(x)
  BY DEF Atomic!CallRecords, CallRecords, Atomic!Ops, Ops, Atomic!Ints, Ints,
         Atomic!NoCall, NoCall, Atomic!Wrap, Wrap

(* Adding Addend(r) is what AtomicOps says of each call that adds.         *)
LEMMA SameSum ==
  ASSUME NEW r \in CallRecords, NEW x \in Ints, r.op \in AddCalls
  PROVE  /\ Addend(r) \in Ints
         /\ Atomic!NewValue(r, x) = Wrap(x + Addend(r))
  <1>1. r.val \in Ints /\ r.val \in Int /\ x \in Int /\ -1 \in Ints /\ 1 \in Ints
    BY SmallInts DEF CallRecords
  <1>2. /\ Atomic!Wrap(x + r.val) = Wrap(x + r.val)
        /\ Atomic!Wrap(x + 1) = Wrap(x + 1)
        /\ Atomic!Wrap(x - 1) = Wrap(x + -1)
    <2>1. x + -1 = x - 1
      BY <1>1
    <2> QED  BY <1>1, <2>1, SameInts
  <1>3. CASE r.op \in {"add", "fetch_and_add"}
    BY <1>1, <1>2, <1>3 DEF Addend, Atomic!NewValue
  <1>4. CASE r.op \in {"incr", "fetch_and_incr"}
    BY <1>1, <1>2, <1>4 DEF Addend, Atomic!NewValue
  <1>5. CASE r.op \in {"decr", "fetch_and_decr", "decr_and_test"}
    BY <1>1, <1>2, <1>5 DEF Addend, Atomic!NewValue
  <1> QED  BY <1>3, <1>4, <1>5 DEF AddCalls

LEMMA SameInstruction ==
  ASSUME NEW r \in CallRecords, NEW x \in Ints
  PROVE  /\ Instruction(r, x) = Atomic!NewValue(r, x)
         /\ Instruction(r, x) \in Ints
  <1>1. r.op \in Ops /\ r.val \in Ints
    BY DEF CallRecords
  <1>2. CASE r.op \in AddCalls
    <2>1. Instruction(r, x) = Wrap(x + Addend(r))
      BY <1>2 DEF Instruction, AddCalls
    <2>2. x + Addend(r) \in Int
      <3>1. x \in Int /\ Addend(r) \in Int
        BY <1>2, SameSum, SmallInts
      <3> QED  BY <3>1
    <2> QED  BY <1>2, <2>1, <2>2, SameSum, WrapInts
  <1>3. CASE r.op \notin AddCalls
    BY <1>1, <1>3 DEF Instruction, Atomic!NewValue, AddCalls, Ops
  <1> QED  BY <1>2, <1>3

(* Testing the old value for 1 is testing the new one for 0.               *)
LEMMA SameTest ==
  ASSUME NEW r \in CallRecords, NEW x \in Ints, r.op = "decr_and_test"
  PROVE  (Instruction(r, x) = 0) <=> (x = 1)
  <1>1. x + -1 = x - 1
    BY SmallInts
  <1>2. Instruction(r, x) = Wrap(x - 1)
    BY <1>1 DEF Instruction, AddCalls, Addend
  <1> QED  BY <1>2, DecrTest

(* What the Solaris port recomputes is the old value.                      *)
LEMMA SunAnswersOld ==
  ASSUME NEW r \in CallRecords, NEW x \in Ints,
         r.op \in {"fetch_and_add", "fetch_and_incr", "fetch_and_decr"}
  PROVE  SunAnswer(r, Instruction(r, x)) = x
  <1>1. Addend(r) \in Ints /\ Addend(r) \in Int /\ Instruction(r, x) \in Int
    BY SameSum, SameInstruction, SmallInts DEF AddCalls
  <1>2. Instruction(r, x) = Wrap(x + Addend(r))
    BY DEF Instruction, AddCalls
  <1>3. Wrap(Instruction(r, x) - Addend(r)) = x
    BY <1>1, <1>2, WrapBack
  <1>4. CASE r.op = "fetch_and_add"
    BY <1>3, <1>4 DEF SunAnswer, Addend
  <1>5. CASE r.op = "fetch_and_incr"
    BY <1>3, <1>5 DEF SunAnswer, Addend
  <1>6. CASE r.op = "fetch_and_decr"
    <2>1. Addend(r) = -1
      BY <1>6 DEF Addend
    <2>2. Instruction(r, x) + 1 = Instruction(r, x) - Addend(r)
      BY <1>1, <2>1
    <2> QED  BY <1>3, <1>6, <2>2 DEF SunAnswer
  <1> QED  BY <1>4, <1>5, <1>6

LEMMA ReturnedIsResult ==
  ASSUME NEW r \in CallRecords, NEW x \in Ints
  PROVE  Returned(r, x) = Atomic!Result(r, x)
  <1>1. (Atomic!Wrap(x - 1) = 0) <=> (x = 1)
    BY DecrTest, SameInts, SmallInts
  <1>2. r.op \in Ops
    BY DEF CallRecords
  <1> QED  BY <1>1, <1>2 DEF Returned, Atomic!Result, Ops

(* Every port returns what AtomicOps says.                                 *)
LEMMA SameAnswer ==
  ASSUME NEW r \in CallRecords, NEW x \in Ints
  PROVE  /\ Answer(r, x, Instruction(r, x)) = Atomic!Result(r, x)
         /\ Answer(r, x, Instruction(r, x)) \in Ints
  <1>1. Returned(r, x) \in Ints
    BY AttemptedInts
  <1>2. Answer(r, x, Instruction(r, x)) = Returned(r, x)
    <2>1. CASE r.op = "decr_and_test"
      BY <2>1, SameTest DEF Answer, TestsNewValue, Returned
    <2>2. CASE r.op \in {"fetch_and_add", "fetch_and_incr", "fetch_and_decr"}
      BY <2>2, SunAnswersOld DEF Answer, TestsNewValue, Returned
    <2>3. CASE r.op \notin {"decr_and_test", "fetch_and_add", "fetch_and_incr", "fetch_and_decr"}
      BY <2>3 DEF Answer, TestsNewValue
    <2> QED  BY <2>1, <2>2, <2>3
  <1> QED  BY <1>1, <1>2, ReturnedIsResult

-----------------------------------------------------------------------------
(* The inductive invariant.                                                *)

LEMMA InvInit == Init => Inv
  BY SmallInts DEF Init, Inv, TypeOK, NoCall, CallRecords, Ops

LEMMA InvStep == NoFallback /\ Inv /\ [Next]_vars => Inv'
  <1> SUFFICES ASSUME NoFallback, Inv, [Next]_vars PROVE Inv'
    OBVIOUS
  <1> USE DEF Inv, TypeOK
  <1>1. ASSUME NEW t \in Threads, NEW r \in CallSet, Invoke(t, r) PROVE Inv'
    <2>1. r \in CallRecords
      BY PortsAssumption
    <2>2. CASE Looped(r)
      <3>1. port # "ia64" /\ r.op \in AddCalls \cup {"swap"}
        BY <2>2 DEF Looped, NoFallback
      <3> QED  BY <1>1, <2>1, <2>2, <3>1 DEF Invoke
    <2>3. CASE ~Looped(r)
      BY <1>1, <2>1, <2>3 DEF Invoke
    <2> QED  BY <2>2, <2>3
  <1>2. ASSUME NEW t \in Threads, Direct(t) PROVE Inv'
    <2>1. Instruction(req[t], v) \in Ints /\ Answer(req[t], v, Instruction(req[t], v)) \in Ints
      BY SameInstruction, SameAnswer
    <2> QED  BY <1>2, <2>1 DEF Direct, Finish
  <1>3. ASSUME NEW t \in Threads, ReadFirst(t) PROVE Inv'
    BY <1>3 DEF ReadFirst
  <1>4. ASSUME NEW t \in Threads, Cas(t) PROVE Inv'
    <2>1. Stored(req[t], prev[t]) \in Ints /\ Returned(req[t], v) \in Ints
      BY <1>4, AttemptedInts DEF Cas, Stored
    <2>2. CASE v = cmp[t]
      BY <1>4, <2>1, <2>2 DEF Cas, Finish
    <2>3. CASE v # cmp[t]
      BY <1>4, <2>3 DEF Cas
    <2> QED  BY <2>2, <2>3
  <1>5. ASSUME NEW t \in Threads, Return(t) PROVE Inv'
    <2>1. NoCall \in CallRecords
      BY SmallInts DEF NoCall, CallRecords, Ops
    <2> QED  BY <1>5, <2>1, SmallInts DEF Return
  <1>6. CASE UNCHANGED vars
    BY <1>6 DEF vars
  <1> QED  BY <1>1, <1>2, <1>3, <1>4, <1>5, <1>6 DEF Next, Step

-----------------------------------------------------------------------------
(* The refinement.                                                         *)

LEMMA StageStep ==
  ASSUME Inv, NEW t \in Threads, NEW s \in {"idle", "direct", "read", "cas", "return"},
         pc' = [pc EXCEPT ![t] = s]
  PROVE  /\ stage[t] = CASE pc[t] = "idle" -> "idle"
                          [] pc[t] = "return" -> "done"
                          [] OTHER -> "called"
         /\ stage' = [stage EXCEPT ![t] = CASE s = "idle" -> "idle"
                                             [] s = "return" -> "done"
                                             [] OTHER -> "called"]
  BY DEF stage, Inv, TypeOK

LEMMA StepImplements == Inv /\ [Next]_vars => [Atomic!Next]_(Atomic!vars)
  <1> SUFFICES ASSUME Inv, [Next]_vars PROVE [Atomic!Next]_(Atomic!vars)
    OBVIOUS
  <1>1. ASSUME NEW t \in Threads, NEW r \in CallSet, Invoke(t, r)
        PROVE  Atomic!Next
    <2>1. r \in CallRecords
      BY PortsAssumption
    <2>2. stage[t] = "idle" /\ stage' = [stage EXCEPT ![t] = "called"]
      <3>1. CASE Looped(r)
        BY <1>1, <3>1, StageStep DEF Invoke
      <3>2. CASE ~Looped(r)
        BY <1>1, <3>2, StageStep DEF Invoke
      <3> QED  BY <3>1, <3>2
    <2>3. Atomic!Invoke(t, r)
      BY <1>1, <2>2 DEF Invoke, Atomic!Invoke
    <2> QED  BY <2>1, <2>3, SameInts DEF Atomic!Next
  <1>2. ASSUME NEW t \in Threads, Direct(t) PROVE Atomic!Next
    <2>1. stage[t] = "called" /\ stage' = [stage EXCEPT ![t] = "done"]
      BY <1>2, StageStep DEF Direct, Finish
    <2>2. /\ Instruction(req[t], v) = Atomic!NewValue(req[t], v)
          /\ Answer(req[t], v, Instruction(req[t], v)) = Atomic!Result(req[t], v)
      BY SameInstruction, SameAnswer DEF Inv, TypeOK
    <2>3. Atomic!Perform(t)
      BY <1>2, <2>1, <2>2 DEF Direct, Finish, Atomic!Perform
    <2> QED  BY <2>3 DEF Atomic!Next
  <1>3. ASSUME NEW t \in Threads, ReadFirst(t) PROVE UNCHANGED Atomic!vars
    <2>1. stage[t] = "called" /\ stage' = [stage EXCEPT ![t] = "called"]
      BY <1>3, StageStep DEF ReadFirst
    <2>2. stage' = stage
      BY <2>1 DEF stage
    <2> QED  BY <1>3, <2>2 DEF ReadFirst, Atomic!vars
  <1>4. ASSUME NEW t \in Threads, Cas(t), v = cmp[t] PROVE Atomic!Next
    <2>1. stage[t] = "called" /\ stage' = [stage EXCEPT ![t] = "done"]
      BY <1>4, StageStep DEF Cas, Finish
    <2>2. /\ v = prev[t] /\ v \in Ints /\ req[t] \in CallRecords
          /\ port # "ia64" /\ req[t].op \in AddCalls \cup {"swap"}
      BY <1>4 DEF Cas, Inv, TypeOK
    <2>3. Stored(req[t], prev[t]) = Atomic!NewValue(req[t], v)
      <3>1. CASE req[t].op \in AddCalls
        BY <2>2, <3>1, SameSum DEF Stored, Attempted
      <3>2. CASE req[t].op = "swap"
        BY <2>2, <3>2 DEF Stored, Attempted, AddCalls, Atomic!NewValue
      <3> QED  BY <2>2, <3>1, <3>2
    <2>4. Returned(req[t], v) = Atomic!Result(req[t], v)
      BY <2>2, ReturnedIsResult
    <2>5. Atomic!Perform(t)
      BY <1>4, <2>1, <2>3, <2>4 DEF Cas, Finish, Atomic!Perform
    <2> QED  BY <2>5 DEF Atomic!Next
  <1>5. ASSUME NEW t \in Threads, Cas(t), v # cmp[t] PROVE UNCHANGED Atomic!vars
    BY <1>5 DEF Cas, Atomic!vars, stage
  <1>6. ASSUME NEW t \in Threads, Return(t) PROVE Atomic!Next
    <2>1. stage[t] = "done" /\ stage' = [stage EXCEPT ![t] = "idle"]
      BY <1>6, StageStep DEF Return
    <2>2. Atomic!Return(t)
      BY <1>6, <2>1, SameInts DEF Return, Atomic!Return
    <2> QED  BY <2>2 DEF Atomic!Next
  <1>7. CASE UNCHANGED vars
    BY <1>7 DEF vars, Atomic!vars, stage
  <1> QED
    BY <1>1, <1>2, <1>3, <1>4, <1>5, <1>6, <1>7 DEF Next, Step

(* Every port's calls are atomic and return what opa_by_lock.h says, for   *)
(* every int width, number of threads and set of calls, those of the ia64  *)
(* fallback excepted.                                                      *)
THEOREM PortsImplementAtomicOps ==
  ASSUME NoFallback PROVE Spec => PortsAreAtomic
  <1>1. Init => Inv
    BY InvInit
  <1>2. Inv /\ [Next]_vars => Inv'
    BY InvStep, NoFallback
  <1>3. Init => Atomic!Init
    BY SameInts DEF Init, Atomic!Init, stage
  <1>4. Inv /\ [Next]_vars => [Atomic!Next]_(Atomic!vars)
    BY StepImplements
  <1> QED  BY <1>1, <1>2, <1>3, <1>4, PTL DEF Spec, PortsAreAtomic, Atomic!Spec
=============================================================================
