------------------------------ MODULE Emulated ------------------------------
(***************************************************************************)
(* The part of src/src/primitives/opa_emulated.h that the LL/SC and the    *)
(* compare-and-swap emulations share: the chains of one-line functions     *)
(* that express each OPA_* call by fetch_and_add, cas or swap.             *)
(***************************************************************************)
EXTENDS MachineInts

(* The calls that end in fetch_and_add, and the value each passes on.      *)
AddCalls == {"add", "incr", "decr", "decr_and_test",
             "fetch_and_add", "fetch_and_incr", "fetch_and_decr"}

Addend(r) ==
    CASE r.op \in {"add", "fetch_and_add"} -> r.val
      [] r.op \in {"incr", "fetch_and_incr"} -> 1
      [] r.op \in {"decr", "fetch_and_decr", "decr_and_test"} -> -1

(* What each call makes of the value that fetch_and_add, cas or swap       *)
(* returned: decr_and_test compares it with 1, the void ones drop it.      *)
Returned(r, prev) ==
    CASE r.op \in {"fetch_and_add", "fetch_and_incr", "fetch_and_decr",
                   "cas", "swap", "load"} -> prev
      [] r.op = "decr_and_test" -> IF prev = 1 THEN 1 ELSE 0
      [] r.op \in {"add", "incr", "decr", "store"} -> 0

(* The value a successful attempt stores, computed from the value read.    *)
Attempted(r, prev) == IF r.op \in AddCalls THEN Wrap(prev + Addend(r)) ELSE r.val
=============================================================================
