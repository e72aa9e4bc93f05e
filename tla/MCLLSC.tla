------------------------------ MODULE MCLLSC ------------------------------
EXTENDS EmulatedLLSC

Call(o, x, y) == [op |-> o, val |-> x, oldv |-> y]

(* Every OPA_* call; the arguments make sums wrap around, and let other    *)
(* threads take the cell from a value and back to it.                      *)
MCCalls ==
    {Call(o, 0, 0) : o \in {"load", "incr", "decr", "decr_and_test",
                            "fetch_and_incr", "fetch_and_decr", "swap"}}
    \cup {Call(o, x, 0) : o \in {"add", "fetch_and_add"}, x \in {-2, 1}}
    \cup {Call("store", 1, 0), Call("cas", 1, 0), Call("cas", 0, 1)}
===========================================================================
