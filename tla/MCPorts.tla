------------------------------- MODULE MCPorts -------------------------------
EXTENDS PortOps

Call(o, x, y) == [op |-> o, val |-> x, oldv |-> y]

(* Every OPA_* call; sums wrap around, and a cas or a store brings the     *)
(* cell back to the value another thread's loop has read.  The addends are *)
(* immediates of ia64's fetchadd.                                          *)
MCCalls ==
    {Call(o, 0, 0) : o \in {"load", "incr", "decr", "decr_and_test",
                            "fetch_and_incr", "fetch_and_decr", "swap"}}
    \cup {Call(o, x, 0) : o \in {"add", "fetch_and_add"}, x \in {-1, 1}}
    \cup {Call("store", 1, 0), Call("cas", 1, 0), Call("cas", 0, 1)}

(* 2 and -3 are no immediates.                                             *)
MCFallbackCalls ==
    {Call(o, x, 0) : o \in {"add", "fetch_and_add"}, x \in {1, 2, -3}}
    \cup {Call("swap", 1, 0), Call("store", 0, 0), Call("cas", 2, 1),
          Call("load", 0, 0), Call("decr_and_test", 0, 0)}
=============================================================================
