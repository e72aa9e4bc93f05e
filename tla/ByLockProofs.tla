---------------------------- MODULE ByLockProofs ----------------------------
(***************************************************************************)
(* Proofs about ByLock, for every number of processes, every width of an   *)
(* int and every set of calls.                                             *)
(***************************************************************************)
EXTENDS ByLock, EmulatedLemmas

PCs == {"idle", "enter", "read", "write", "exit", "return"}

TypeOK ==
    /\ attached \subseteq Threads
    /\ answer \in [Threads -> {"none", "ok", "error"}]
    /\ mutexReady \in BOOLEAN
    /\ owner \in Threads \cup {Nobody}
    /\ v \in Ints
    /\ pc \in [Threads -> PCs]
    /\ req \in [Threads -> CallRecords]
    /\ local \in [Threads -> Ints]
    /\ hasty \subseteq Threads /\ unguarded \subseteq Threads

(* Who has got 0 is attached, and the leader gets it exactly when the      *)
(* mutex has been initialised.                                             *)
Attached == /\ \A t \in Threads : answer[t] = "ok" => t \in attached
            /\ answer[Leader] = "ok" <=> mutexReady

(* A call is made by a process that has got 0, and, unless it is hasty,    *)
(* when the leader has, too.                                               *)
Waited == \A t \in Threads : pc[t] # "idle" =>
             /\ answer[t] = "ok"
             /\ t \in hasty \/ answer[Leader] = "ok"

(* Who is in a critical section holds the mutex.                           *)
Holds == unguarded = {} =>
            \A t \in Threads : InSection(t) => owner = t /\ mutexReady

(* What a critical section has read is still in the cell when it stores.   *)
Fresh == unguarded = {} => \A t \in Threads : pc[t] = "write" => local[t] = v

Inv == TypeOK /\ Attached /\ Waited /\ OnlyHastyUnguarded /\ Holds /\ Fresh

-----------------------------------------------------------------------------
LEMMA NoCallIsCall == NoCall \in CallRecords
  BY SmallInts DEF NoCall, CallRecords, Ops

LEMMA StoredInts ==
  ASSUME NEW r \in CallRecords, NEW x \in Ints
  PROVE  Stored(r, x) \in Ints
  <1>1. r.op \in Ops /\ r.val \in Ints /\ r.val \in Int /\ x \in Int
    BY SmallInts DEF CallRecords
  <1>2. Wrap(x + r.val) \in Ints /\ Wrap(x + 1) \in Ints /\ Wrap(x - 1) \in Ints
    BY <1>1, WrapInts
  <1> QED  BY <1>1, <1>2 DEF Stored

LEMMA InvInit == Init => Inv
  BY SmallInts, NoCallIsCall, ByLockAssumption
     DEF Init, Inv, TypeOK, Attached, Waited, OnlyHastyUnguarded, Holds, Fresh,
         InSection, PCs

LEMMA InvStep == Inv /\ [Next]_vars => Inv'
  <1> SUFFICES ASSUME Inv, [Next]_vars PROVE Inv'
    OBVIOUS
  <1> USE ByLockAssumption
      DEF Inv, TypeOK, Attached, Waited, OnlyHastyUnguarded, Holds, Fresh, InSection,
          PCs, lockVars, history
  <1>1. ASSUME NEW t \in Threads, LockInitCall(t) PROVE Inv'
    BY <1>1 DEF LockInitCall
  <1>2. ASSUME NEW t \in Threads, LeaderInit(t) PROVE Inv'
    BY <1>2 DEF LeaderInit
  <1>3. ASSUME NEW t \in Threads, NEW r \in CallSet, Invoke(t, r) PROVE Inv'
    <2>1. r \in CallRecords
      BY ByLockAssumption
    <2> QED  BY <1>3, <2>1 DEF Invoke
  <1>4. ASSUME NEW t \in Threads, Enter(t) PROVE Inv'
    BY <1>4, ByLockAssumption DEF Enter
  <1>5. ASSUME NEW t \in Threads, Read(t) PROVE Inv'
    BY <1>5 DEF Read
  <1>6. ASSUME NEW t \in Threads, Write(t) PROVE Inv'
    <2>1. Stored(req[t], local[t]) \in Ints
      BY StoredInts
    <2>2. v' \in Ints /\ local' \in [Threads -> Ints]
      BY <1>6, <2>1 DEF Write
    <2>3. pc' = [pc EXCEPT ![t] = "exit"] /\ UNCHANGED <<lockVars, owner, req, history>>
      BY <1>6 DEF Write
    <2>4. unguarded = {} => \A u \in Threads \ {t} : pc[u] # "write"
      BY <1>6 DEF Write
    <2> QED  BY <1>6, <2>2, <2>3, <2>4 DEF Write
  <1>7. ASSUME NEW t \in Threads, Exit(t) PROVE Inv'
    BY <1>7 DEF Exit
  <1>8. ASSUME NEW t \in Threads, Return(t) PROVE Inv'
    BY <1>8, NoCallIsCall, SmallInts DEF Return
  <1>9. CASE UNCHANGED vars
    BY <1>9 DEF vars
  <1> QED
    BY <1>1, <1>2, <1>3, <1>4, <1>5, <1>6, <1>7, <1>8, <1>9 DEF Next, Step

LEMMA Invariance == Spec => []Inv
  BY InvInit, InvStep, PTL DEF Spec

(* A mutex that is not initialised lets in only a process that has not     *)
(* waited until the leader of OPA_Interprocess_lock_init had got 0, never  *)
(* the leader or one that has waited, for any number of processes and      *)
(* whichever of its pthread calls fails.                                   *)
THEOREM WaitingForTheLeaderIsEnough == Spec => []OnlyHastyUnguarded
  <1>1. Inv => OnlyHastyUnguarded
    BY DEF Inv
  <1> QED  BY <1>1, Invariance, PTL

(* As long as nobody has been let in like that, critical sections exclude  *)
(* each other, while any number of other processes attach to the mutex.    *)
THEOREM GuardedSectionsExclude == Spec => []SectionsExclude
  <1>1. Inv => SectionsExclude
    BY ByLockAssumption
       DEF Inv, TypeOK, Attached, Waited, Holds, SectionsExclude, InSection
  <1> QED  BY <1>1, Invariance, PTL

-----------------------------------------------------------------------------
(* The refinement.                                                         *)

(* AtomicOps counts with the same ints.                                    *)
LEMMA SameInts ==
  /\ Atomic!CallRecords = CallRecords
  /\ Atomic!NoCall = NoCall
  /\ \A x \in Int : Atomic!Wrap(x) = Wrap(x)
  BY DEF Atomic!CallRecords, CallRecords, Atomic!Ops, Ops, Atomic!Ints, Ints,
         Atomic!NoCall, NoCall, Atomic!Wrap, Wrap

(* The store of a critical section that has read x.                        *)
LEMMA SameStore ==
  ASSUME NEW r \in CallRecords, NEW x \in Ints
  PROVE  Atomic!NewValue(r, x) =
           IF r.op # "load" /\ (r.op = "cas" => x = r.oldv) THEN Stored(r, x) ELSE x
  <1>1. r.op \in Ops /\ r.val \in Int /\ x \in Int
    BY SmallInts DEF CallRecords
  <1>2. /\ Atomic!Wrap(x + r.val) = Wrap(x + r.val)
        /\ Atomic!Wrap(x + 1) = Wrap(x + 1)
        /\ Atomic!Wrap(x - 1) = Wrap(x - 1)
    BY <1>1, SameInts
  <1> QED  BY <1>1, <1>2 DEF Atomic!NewValue, Stored, Ops

(* The stage of t's call, and what it will answer.                         *)
StageOf(s) == CASE s = "idle" -> "idle"
                [] s \in {"exit", "return"} -> "done"
                [] OTHER -> "called"

Kept(s, r, x) ==
    IF s \notin {"exit", "return"} THEN 0
    ELSE CASE r.op = "decr_and_test" -> IF x = 0 THEN 1 ELSE 0
           [] r.op \in {"store", "add", "incr", "decr"} -> 0
           [] OTHER -> x

LEMMA Mapped == /\ stage = [t \in Threads |-> StageOf(pc[t])]
                /\ res = [t \in Threads |-> Kept(pc[t], req[t], local[t])]
  BY DEF stage, res, StageOf, Kept

LEMMA MappedNext == /\ stage' = [t \in Threads |-> StageOf(pc'[t])]
                    /\ res' = [t \in Threads |-> Kept(pc'[t], req'[t], local'[t])]
  BY DEF stage, res, StageOf, Kept

(* A step of one thread.                                                   *)
LEMMA StageStep ==
  ASSUME TypeOK, NEW t \in Threads, NEW s \in PCs, pc' = [pc EXCEPT ![t] = s]
  PROVE  /\ stage[t] = StageOf(pc[t])
         /\ stage' = [stage EXCEPT ![t] = StageOf(s)]
         /\ StageOf(s) = StageOf(pc[t]) => stage' = stage
  BY Mapped, MappedNext DEF TypeOK

LEMMA ResStep ==
  ASSUME TypeOK, NEW t \in Threads, NEW s \in PCs, pc' = [pc EXCEPT ![t] = s],
         \A u \in Threads \ {t} : req'[u] = req[u] /\ local'[u] = local[u]
  PROVE  /\ res' = [res EXCEPT ![t] = Kept(s, req'[t], local'[t])]
         /\ Kept(s, req'[t], local'[t]) = Kept(pc[t], req[t], local[t]) => res' = res
  BY Mapped, MappedNext DEF TypeOK

(* Once somebody has entered unguarded, it stays on record.                *)
LEMMA RecordStays == [Next]_vars /\ unguarded' = {} => unguarded = {}
  BY DEF Next, Step, vars, history, LockInitCall, LeaderInit, Invoke, Enter, Read, Write,
         Exit, Return

LEMMA StepImplements ==
    Inv /\ unguarded = {} /\ [Next]_vars => [Atomic!Next]_(Atomic!vars)
  <1> SUFFICES ASSUME Inv, unguarded = {}, [Next]_vars
               PROVE  [Atomic!Next]_(Atomic!vars)
    OBVIOUS
  <1> USE DEF lockVars
  <1>0. TypeOK
    BY DEF Inv
  <1>1. ASSUME NEW t \in Threads, LockInitCall(t) \/ LeaderInit(t) PROVE UNCHANGED Atomic!vars
    BY <1>1, Mapped, MappedNext DEF LockInitCall, LeaderInit, Atomic!vars
  <1>2. ASSUME NEW t \in Threads, NEW r \in CallSet, Invoke(t, r) PROVE Atomic!Next
    <2>1. r \in CallRecords
      BY ByLockAssumption
    <2>2. /\ stage[t] = "idle" /\ stage' = [stage EXCEPT ![t] = "called"]
          /\ res' = res
      <3>1. /\ pc[t] = "idle" /\ pc' = [pc EXCEPT ![t] = "enter"]
            /\ local' = local /\ \A u \in Threads \ {t} : req'[u] = req[u]
        BY <1>0, <1>2 DEF Invoke, TypeOK
      <3>2. Kept("enter", req'[t], local'[t]) = Kept("idle", req[t], local[t])
        BY DEF Kept
      <3>3. res' = res
        BY <1>0, <3>1, <3>2, ResStep DEF PCs
      <3> QED  BY <1>0, <3>1, <3>3, StageStep DEF StageOf, PCs
    <2>3. Atomic!Invoke(t, r)
      BY <1>2, <2>2 DEF Invoke, Atomic!Invoke
    <2> QED  BY <2>1, <2>3, SameInts DEF Atomic!Next
  <1>3. ASSUME NEW t \in Threads, Enter(t) PROVE UNCHANGED Atomic!vars
    <2>1. /\ pc[t] = "enter" /\ pc' = [pc EXCEPT ![t] = "read"]
          /\ req' = req /\ \A u \in Threads \ {t} : local'[u] = local[u]
      BY <1>0, <1>3 DEF Enter, TypeOK
    <2>2. stage' = stage
      BY <1>0, <2>1, StageStep DEF StageOf, PCs
    <2>3. res' = res
      <3>1. Kept("read", req'[t], local'[t]) = Kept("enter", req[t], local[t])
        BY <1>3 DEF Enter, Kept
      <3> QED  BY <1>0, <2>1, <3>1, ResStep DEF PCs
    <2> QED  BY <1>3, <2>2, <2>3 DEF Enter, Atomic!vars
  <1>4. ASSUME NEW t \in Threads, Read(t) PROVE UNCHANGED Atomic!vars
    <2>1. /\ pc[t] = "read" /\ pc' = [pc EXCEPT ![t] = "write"]
          /\ req' = req /\ \A u \in Threads \ {t} : local'[u] = local[u]
      BY <1>0, <1>4 DEF Read, TypeOK
    <2>2. stage' = stage
      BY <1>0, <2>1, StageStep DEF StageOf, PCs
    <2>3. res' = res
      <3>1. Kept("write", req'[t], local'[t]) = Kept("read", req[t], local[t])
        BY <1>4 DEF Read, Kept
      <3> QED  BY <1>0, <2>1, <3>1, ResStep DEF PCs
    <2> QED  BY <1>4, <2>2, <2>3 DEF Read, Atomic!vars
  <1>5. ASSUME NEW t \in Threads, Write(t) PROVE Atomic!Next
    <2>1. v \in Ints /\ local[t] = v /\ req[t] \in CallRecords /\ pc[t] = "write"
      BY <1>0, <1>5 DEF Write, Inv, Fresh, TypeOK
    <2>2. v' = Atomic!NewValue(req[t], v)
      BY <1>5, <2>1, SameStore DEF Write
    <2>3. local'[t] = IF req[t].op = "decr_and_test" THEN v' ELSE v
      BY <1>0, <1>5, <2>1 DEF Write, TypeOK
    <2>4. req[t].op = "decr_and_test" => v' = Atomic!Wrap(v - 1)
      BY <2>2 DEF Atomic!NewValue
    <2>5. req[t].op \in Ops
      BY <2>1 DEF CallRecords
    <2>6. Kept("exit", req[t], local'[t]) = Atomic!Result(req[t], v)
      BY <2>3, <2>4, <2>5 DEF Kept, Atomic!Result, Ops
    <2>7. /\ stage[t] = "called" /\ stage' = [stage EXCEPT ![t] = "done"]
          /\ res' = [res EXCEPT ![t] = Atomic!Result(req[t], v)]
      <3>1. /\ pc' = [pc EXCEPT ![t] = "exit"] /\ req' = req
            /\ \A u \in Threads \ {t} : local'[u] = local[u]
        BY <1>0, <1>5 DEF Write, TypeOK
      <3>2. res' = [res EXCEPT ![t] = Kept("exit", req'[t], local'[t])]
        BY <1>0, <3>1, ResStep DEF PCs
      <3> QED  BY <1>0, <2>1, <2>6, <3>1, <3>2, StageStep DEF StageOf, PCs
    <2>8. Atomic!Perform(t)
      BY <1>5, <2>2, <2>7 DEF Write, Atomic!Perform
    <2> QED  BY <2>8 DEF Atomic!Next
  <1>6. ASSUME NEW t \in Threads, Exit(t) PROVE UNCHANGED Atomic!vars
    <2>1. /\ pc[t] = "exit" /\ pc' = [pc EXCEPT ![t] = "return"]
          /\ req' = req /\ \A u \in Threads \ {t} : local'[u] = local[u]
      BY <1>0, <1>6 DEF Exit, TypeOK
    <2>2. stage' = stage
      BY <1>0, <2>1, StageStep DEF StageOf, PCs
    <2>3. res' = res
      <3>1. Kept("return", req'[t], local'[t]) = Kept("exit", req[t], local[t])
        BY <1>6 DEF Exit, Kept
      <3> QED  BY <1>0, <2>1, <3>1, ResStep DEF PCs
    <2> QED  BY <1>6, <2>2, <2>3 DEF Exit, Atomic!vars
  <1>7. ASSUME NEW t \in Threads, Return(t) PROVE Atomic!Next
    <2>1. /\ stage[t] = "done" /\ stage' = [stage EXCEPT ![t] = "idle"]
          /\ res' = [res EXCEPT ![t] = 0]
      <3>1. /\ pc[t] = "return" /\ pc' = [pc EXCEPT ![t] = "idle"]
            /\ \A u \in Threads \ {t} : req'[u] = req[u] /\ local'[u] = local[u]
        BY <1>0, <1>7 DEF Return, TypeOK
      <3>2. Kept("idle", req'[t], local'[t]) = 0
        BY DEF Kept
      <3>3. res' = [res EXCEPT ![t] = 0]
        BY <1>0, <3>1, <3>2, ResStep DEF PCs
      <3> QED  BY <1>0, <3>1, <3>3, StageStep DEF StageOf, PCs
    <2>2. Atomic!Return(t)
      BY <1>7, <2>1, SameInts DEF Return, Atomic!Return
    <2> QED  BY <2>2 DEF Atomic!Next
  <1>8. CASE UNCHANGED vars
    BY <1>8, Mapped, MappedNext DEF vars, Atomic!vars
  <1> QED
    BY <1>1, <1>2, <1>3, <1>4, <1>5, <1>6, <1>7, <1>8 DEF Next, Step

(* Each critical section of opa_by_lock.h is an atomic call, for any       *)
(* number of processes and every int width, as long as nobody has entered  *)
(* one through a mutex that is not initialised: nothing comes between what *)
(* it reads and what it stores.                                            *)
THEOREM ByLockIsAtomic == Spec => SectionsAreAtomic
  <1>1. Init => Atomic!Init
    <2>1. Init => stage = [t \in Threads |-> "idle"] /\ res = [t \in Threads |-> 0]
      BY Mapped DEF Init, StageOf, Kept
    <2> QED  BY <2>1, SameInts DEF Init, Atomic!Init
  <1>2. Inv /\ [Next]_vars => [unguarded' = {} => [Atomic!Next]_(Atomic!vars)]_vars
    BY StepImplements, RecordStays
  <1> QED  BY <1>1, <1>2, Invariance, PTL DEF Spec, SectionsAreAtomic
=============================================================================
