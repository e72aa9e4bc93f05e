--------------------------- MODULE EmulatedLemmas ---------------------------
(***************************************************************************)
(* What is true of ints and of Emulated's operators, for ints of any width.*)
(***************************************************************************)
EXTENDS Emulated, TLAPS

(* The sum of two ints wraps around to an int: opa_emulated.h's            *)
(* prev + val stays an int.                                                *)
LEMMA WrapInts == \A x \in Int : Wrap(x) \in Ints
  BY HalfAssumption, Z3 DEF Wrap, Ints

(* decr_and_test compares the old value with 1 where opa_by_lock.h         *)
(* compares the new one with 0: the same for ints of two bits or more.     *)
LEMMA DecrTest == \A x \in Ints : (Wrap(x - 1) = 0) <=> (x = 1)
  <1> SUFFICES ASSUME NEW x \in Ints PROVE (Wrap(x - 1) = 0) <=> (x = 1)
    OBVIOUS
  <1>1. x - 1 + Half \in -1 .. 2 * Half - 2
    BY HalfAssumption DEF Ints
  <1>2. CASE x = -Half
    <2>1. (x - 1 + Half) % (2 * Half) = 2 * Half - 1
      BY <1>2, HalfAssumption, Z3
    <2> QED  BY <2>1, <1>2, HalfAssumption DEF Wrap
  <1>3. CASE x # -Half
    <2>1. x - 1 + Half \in 0 .. 2 * Half - 2
      BY <1>3, <1>1, HalfAssumption DEF Ints
    <2>2. (x - 1 + Half) % (2 * Half) = x - 1 + Half
      BY <2>1, HalfAssumption, Z3
    <2> QED  BY <2>1, <2>2, HalfAssumption DEF Wrap, Ints
  <1> QED  BY <1>2, <1>3

(* Every value a call reads, stores or answers is an int.                  *)
LEMMA SmallInts == 0 \in Ints /\ 1 \in Ints /\ -1 \in Ints /\ Ints \subseteq Int
  BY HalfAssumption DEF Ints

LEMMA AttemptedInts ==
  \A r \in CallRecords, x \in Ints : Attempted(r, x) \in Ints /\ Returned(r, x) \in Ints
  <1> SUFFICES ASSUME NEW r \in CallRecords, NEW x \in Ints
               PROVE  Attempted(r, x) \in Ints /\ Returned(r, x) \in Ints
    OBVIOUS
  <1>1. r.val \in Ints /\ r.op \in Ops
    BY DEF CallRecords
  <1>2. Attempted(r, x) \in Ints
    <2>1. CASE r.op \in AddCalls
      <3>1. Addend(r) \in Int
        BY <2>1, <1>1, SmallInts DEF Addend, AddCalls
      <3>2. x + Addend(r) \in Int
        BY <3>1, SmallInts
      <3> QED  BY <3>2, <2>1, WrapInts DEF Attempted
    <2>2. CASE r.op \notin AddCalls
      BY <2>2, <1>1 DEF Attempted
    <2> QED  BY <2>1, <2>2
  <1>3. Returned(r, x) \in Ints
    BY <1>1, SmallInts DEF Returned, Ops
  <1> QED  BY <1>2, <1>3
=============================================================================
