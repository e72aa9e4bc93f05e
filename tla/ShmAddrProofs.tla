--------------------------- MODULE ShmAddrProofs ---------------------------
(***************************************************************************)
(* Proofs about ShmAddr, for an address space of any size.                 *)
(***************************************************************************)
EXTENDS ShmAddr, TLAPS

(* The arithmetic of size_t.                                               *)
LEMMA Closed ==
  \A x, y \in Addresses : Plus(x, y) \in Addresses /\ Minus(x, y) \in Addresses
  BY ShmAssumption DEF Addresses, Plus, Minus

(* Two segments at the same distance from two bases: the distance of an    *)
(* element from the one base leads to it from the other.                   *)
LEMMA SameDistance ==
  \A s, t, b, c, o \in Addresses :
      Minus(s, b) = Minus(t, c) =>
          /\ Plus(c, Minus(Plus(s, o), b)) = Plus(t, o)
          /\ Minus(Plus(s, o), b) = 0 <=> Plus(t, o) = c
  BY ShmAssumption DEF Addresses, Plus, Minus

LEMMA InvInit == Init => Inv
  BY ShmAssumption DEF Init, Inv, TypeOK

LEMMA InvStep == Inv /\ [Next]_vars => Inv'
  <1> SUFFICES ASSUME Inv, [Next]_vars PROVE Inv'
    OBVIOUS
  <1> USE DEF Inv, TypeOK
  <1>1. ASSUME NEW p \in Processes, NEW c \in Callers, NEW b \in Addresses,
               AsymmTest(p, c, b)
        PROVE  Inv'
    <2>1. /\ setting' = setting \cup {[proc |-> p, caller |-> c, base |-> b]}
          /\ given' = [given EXCEPT ![p] = @ \cup {b}]
          /\ UNCHANGED <<segment, base, ready, link>>
      BY <1>1 DEF AsymmTest, Accept
    <2>2. /\ \A q \in Processes : given[q] \subseteq given'[q]
          /\ b \in given'[p] /\ given' \in [Processes -> SUBSET Addresses]
      BY <2>1
    <2>3. \A q, o : ElementAt(q, o)' = ElementAt(q, o)
      BY <2>1 DEF ElementAt
    <2>4. ASSUME NEW s \in setting' PROVE s.base \in given'[s.proc]
      BY <2>1, <2>2
    <2>5. ASSUME NEW l \in link
          PROVE  \E d \in given'[l.maker] : l.rel = Minus(ElementAt(l.maker, l.elt), d)
      BY <2>2
    <2> QED  BY <2>1, <2>2, <2>3, <2>4, <2>5
  <1>2. ASSUME NEW s \in setting, AsymmSet(s) PROVE Inv'
    <2>1. /\ base' = [base EXCEPT ![s.proc] = s.base] /\ setting' = setting \ {s}
          /\ ready' = ready \cup {s.proc} /\ UNCHANGED <<segment, given, link>>
      BY <1>2 DEF AsymmSet
    <2>2. \A q, o : ElementAt(q, o)' = ElementAt(q, o)
      BY <2>1 DEF ElementAt
    <2>3. ASSUME NEW p \in ready' PROVE base'[p] \in given[p]
      BY <2>1
    <2> QED  BY <2>1, <2>2, <2>3
  <1>3. ASSUME NEW p \in Processes, NEW o \in Offsets, StoreLink(p, o) PROVE Inv'
    <2>1. /\ p \in ready /\ UNCHANGED <<segment, base, setting, given, ready>>
          /\ link' = {[rel |-> Minus(ElementAt(p, o), base[p]), elt |-> o, maker |-> p]}
      BY <1>3 DEF StoreLink, AbsToRel
    <2>2. \A q, x : ElementAt(q, x)' = ElementAt(q, x)
      BY <2>1 DEF ElementAt
    <2>3. Minus(ElementAt(p, o), base[p]) \in Addresses
      BY Closed, ShmAssumption DEF ElementAt
    <2> QED  BY <2>1, <2>2, <2>3
  <1>4. CASE UNCHANGED vars
    BY <1>4 DEF vars, ElementAt
  <1> QED  BY <1>1, <1>2, <1>3, <1>4 DEF Next

LEMMA Invariant == Spec => []Inv
  BY InvInit, InvStep, PTL DEF Spec

(* Between processes that agree on where the segment starts relative       *)
(* addresses of opa_queue.h name the same element, and are                 *)
(* OPA_SHM_REL_NULL for the one at the base alone, whatever the address    *)
(* space and the places where the segment is mapped.                       *)
THEOREM AddressesAgree == Spec => []LinksResolve
  <1>1. ASSUME Inv PROVE LinksResolve
    <2> SUFFICES ASSUME NEW l \in link, NEW p \in ready, Agree(l.maker, p)
                 PROVE  /\ RelToAbs(p, l.rel) = ElementAt(p, l.elt)
                        /\ l.rel = RelNull <=> ElementAt(p, l.elt) = base[p]
      BY DEF LinksResolve
    <2>1. PICK b, c \in Addresses :
             /\ given[l.maker] = {b} /\ given[p] = {c}
             /\ Minus(segment[l.maker], b) = Minus(segment[p], c)
      BY DEF Agree
    <2>2. base[p] = c /\ l.rel = Minus(Plus(segment[l.maker], l.elt), b)
      BY <1>1, <2>1 DEF Inv, ElementAt
    <2>3. segment[l.maker] \in Addresses /\ segment[p] \in Addresses /\ l.elt \in Addresses
      BY <1>1, ShmAssumption DEF Inv, TypeOK
    <2>4. ASSUME NEW s \in Addresses, NEW t \in Addresses, NEW o \in Addresses,
                 Minus(s, b) = Minus(t, c)
          PROVE  /\ Plus(c, Minus(Plus(s, o), b)) = Plus(t, o)
                 /\ Minus(Plus(s, o), b) = 0 <=> Plus(t, o) = c
      BY <2>4, SameDistance
    <2>5. /\ Plus(c, Minus(Plus(segment[l.maker], l.elt), b))
               = Plus(segment[p], l.elt)
          /\ Minus(Plus(segment[l.maker], l.elt), b) = 0
               <=> Plus(segment[p], l.elt) = c
      BY <2>1, <2>3, <2>4
    <2> QED  BY <2>2, <2>5 DEF RelToAbs, ElementAt, RelNull
  <1>2. Inv => LinksResolve
    BY <1>1
  <1> QED  BY <1>2, Invariant, PTL

(* OPA_Shm_asymm_init keeps the promise of its comment, for any number of  *)
(* threads, where nobody gives it AsymmNull.                               *)
THEOREM LaterCallsRefused == Spec => RefusedOnceCalled
  <1>1. ASSUME Inv, [Next]_vars, NEW s \in setting' \ setting, s.proc \in ready
        PROVE  AsymmNull \in given[s.proc]
    <2>1. PICK p \in Processes, c \in Callers, b \in Addresses : AsymmTest(p, c, b)
      BY <1>1 DEF Next, AsymmSet, StoreLink, vars
    <2>2. s.proc = p /\ base[p] = AsymmNull
      BY <1>1, <2>1 DEF AsymmTest, Accept
    <2> QED  BY <1>1, <2>2 DEF Inv
  <1>2. Inv /\ [Next]_vars => [\A s \in setting' \ setting :
                                  s.proc \in ready => AsymmNull \in given[s.proc]]_vars
    BY <1>1
  <1> QED  BY <1>2, Invariant, PTL DEF Spec, RefusedOnceCalled
============================================================================
