------------------------------ MODULE ShmAddr ------------------------------
(***************************************************************************)
(* Relative addresses: OPA_Shm_asymm_init of src/src/opa_queue.c and the   *)
(* conversions of src/src/opa_queue.h, in the arithmetic of size_t.        *)
(*                                                                         *)
(* Processes map one shared segment at addresses of their own, and each    *)
(* says where by OPA_Shm_asymm_init.  Nothing in the code keeps the        *)
(* segment away from AsymmNull, an element away from its start, two        *)
(* threads from making the first call at once, or a caller from giving     *)
(* another address than the segment's (the tests give 0).  A link in the   *)
(* segment (a head, a tail, a next) holds a relative address that one      *)
(* process has computed and others convert back.                           *)
(***************************************************************************)
EXTENDS Integers

CONSTANTS Processes,
          Callers,    \* the threads of a process that call OPA_Shm_asymm_init
          Size,       \* the size of the address space
          AsymmNull,  \* OPA_SHM_ASYMM_NULL_VAL
          Offsets     \* where in the segment there are elements

Addresses == 0 .. Size - 1

ASSUME ShmAssumption == /\ Size \in Nat \ {0}
                        /\ AsymmNull \in Addresses
                        /\ Offsets \subseteq Addresses

VARIABLES
    segment,          \* where each process has mapped the segment
    base,             \* OPA_Shm_asymm_base_addr of each process
    setting,          \* the calls of OPA_Shm_asymm_init between the test of
                      \* the base and its assignment
    given,            \* for the record, the bases that passed the test
    ready,            \* the processes in which a call has returned 0
    link              \* the link in shared memory once one is stored, with
                      \* the element it is for and the process that stored it

vars == <<segment, base, setting, given, ready, link>>

RelNull == 0

Plus(x, y) == IF x + y < Size THEN x + y ELSE x + y - Size
Minus(x, y) == IF x >= y THEN x - y ELSE x - y + Size

(* Mutant: the difference the wrong way round.                             *)
AbsToRelSwapped(p, a) == Minus(base[p], a)

AbsToRel(p, a) == Minus(a, base[p])
RelToAbs(p, r) == Plus(base[p], r)

(* The address at which process p sees the element at an offset.           *)
ElementAt(p, o) == Plus(segment[p], o)

Init == /\ segment \in [Processes -> Addresses]
        /\ base = [p \in Processes |-> AsymmNull]
        /\ setting = {}
        /\ given = [p \in Processes |-> {}]
        /\ ready = {}
        /\ link = {}

Calling(p, c) == \E s \in setting : s.proc = p /\ s.caller = c

Accept(p, c, b) ==
    /\ setting' = setting \cup {[proc |-> p, caller |-> c, base |-> b]}
    /\ given' = [given EXCEPT ![p] = @ \cup {b}]

(* Mutant: a later call moves the base.                                    *)
AsymmTestNothing(p, c, b) ==
    /\ ~Calling(p, c)
    /\ Accept(p, c, b)
    /\ UNCHANGED <<segment, base, ready, link>>

(* A call that finds the base set is refused with an error, whatever its   *)
(* argument, and changes nothing.                                          *)
AsymmTest(p, c, b) ==
    /\ ~Calling(p, c)
    /\ base[p] = AsymmNull
    /\ Accept(p, c, b)
    /\ UNCHANGED <<segment, base, ready, link>>

(* By now the base may have been set by another thread's first call, and   *)
(* links may have been made with it.                                       *)
AsymmSet(s) ==
    /\ base' = [base EXCEPT ![s.proc] = s.base]
    /\ setting' = setting \ {s}
    /\ ready' = ready \cup {s.proc}
    /\ UNCHANGED <<segment, given, link>>

(* OPA_Shm_abs_to_rel of an element p has a pointer to, and the store of   *)
(* the result.  The assertion in it expands to nothing: to call it only    *)
(* after OPA_Shm_asymm_init is the client's obligation.                    *)
StoreLink(p, o) ==
    /\ p \in ready
    /\ link' = {[rel |-> AbsToRel(p, ElementAt(p, o)), elt |-> o, maker |-> p]}
    /\ UNCHANGED <<segment, base, setting, given, ready>>

Next == \/ \E p \in Processes, c \in Callers, b \in Addresses : AsymmTest(p, c, b)
        \/ \E s \in setting : AsymmSet(s)
        \/ \E p \in Processes, o \in Offsets : StoreLink(p, o)

Spec == Init /\ [][Next]_vars

-----------------------------------------------------------------------------
TypeOK == /\ segment \in [Processes -> Addresses]
          /\ base \in [Processes -> Addresses]
          /\ setting \subseteq [proc : Processes, caller : Callers, base : Addresses]
          /\ given \in [Processes -> SUBSET Addresses]
          /\ ready \subseteq Processes
          /\ link \subseteq [rel : Addresses, elt : Offsets, maker : Processes]

(* Each of two processes was given one base, and the segment lies equally  *)
(* far from both: they were given its address, or memory is the same to    *)
(* both and they were given 0.                                             *)
Agree(p, r) == \E b, c \in Addresses :
                  /\ given[p] = {b} /\ given[r] = {c}
                  /\ Minus(segment[p], b) = Minus(segment[r], c)

(* Between processes that agree a link leads to the element it was stored  *)
(* for, however many threads initialised at once and even if the base is   *)
(* AsymmNull, at which the segment may lie.  It is taken for               *)
(* OPA_SHM_REL_NULL exactly when the element lies at the base.             *)
LinksResolve ==
    \A l \in link, p \in ready : Agree(l.maker, p) =>
        /\ RelToAbs(p, l.rel) = ElementAt(p, l.elt)
        /\ l.rel = RelNull <=> ElementAt(p, l.elt) = base[p]

(* "This function will return an error if it has already been called"      *)
(* (opa_queue.h): once a call has returned 0 no other passes the test, if  *)
(* nobody gave AsymmNull.  Calls that passed it before may still return 0. *)
RefusedOnceCalled ==
    [][\A s \in setting' \ setting :
          s.proc \in ready => AsymmNull \in given[s.proc]]_vars

(* The inductive invariant: a base was given, and a relative address is    *)
(* the distance from one that its maker was given.                         *)
Inv == /\ TypeOK
       /\ \A p \in ready : base[p] \in given[p]
       /\ \A s \in setting : s.base \in given[s.proc]
       /\ \A l \in link : \E b \in given[l.maker] :
             l.rel = Minus(ElementAt(l.maker, l.elt), b)
=============================================================================
