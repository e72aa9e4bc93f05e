----------------------------- MODULE MachineInts -----------------------------
(***************************************************************************)
(* The ints of the machine, two's complement, and the calls that           *)
(* src/src/opa_primitives.h declares on an OPA_int_t.                      *)
(***************************************************************************)
EXTENDS Integers

CONSTANT Half         \* 2^(w-1), for ints of w bits

(* At least two bits: 1 is an int.                                         *)
ASSUME HalfAssumption == Half \in Nat /\ Half > 1

Ints == -Half .. Half - 1

(* What the machine keeps of a sum.                                        *)
Wrap(x) == ((x + Half) % (2 * Half)) - Half

Ops == {"load", "store", "add", "incr", "decr", "decr_and_test",
        "fetch_and_add", "fetch_and_incr", "fetch_and_decr", "cas", "swap"}

(* val is the second argument of store, add, fetch_and_add and swap and    *)
(* the new value of cas; oldv is the comparand of cas.                     *)
CallRecords == [op : Ops, val : Ints, oldv : Ints]

NoCall == [op |-> "load", val |-> 0, oldv |-> 0]
=============================================================================
