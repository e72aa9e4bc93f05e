---------------------------- MODULE QueueProofs ----------------------------
(***************************************************************************)
(* Proofs about OPA_Queue, and about QueueOverCAS, which implements it,    *)
(* for any set of producers and of elements.                               *)
(***************************************************************************)
EXTENDS QueueOverCAS, SequenceTheorems, TLAPS

(* What a swap and an unlinking do to the history, entry by entry.         *)
LEMMA AppendQ ==
    ASSUME q \in Seq(Elements), NEW e \in Elements, q' = Append(q, e)
    PROVE  /\ q' \in Seq(Elements) /\ q' # <<>>
           /\ Len(q) \in Nat /\ Len(q') = Len(q) + 1
           /\ \A i \in 1..Len(q) : q'[i] = q[i]
           /\ q'[Len(q) + 1] = e
           /\ (q = <<>>) <=> (Len(q) = 0)
<1> QED BY AppendProperties, LenProperties, EmptySeq

LEMMA TailQ ==
    ASSUME q \in Seq(Elements), q # <<>>, q' = Tail(q)
    PROVE  /\ q' \in Seq(Elements)
           /\ Len(q) \in Nat /\ Len(q) > 0 /\ Len(q') = Len(q) - 1
           /\ \A i \in 1..Len(q') : q'[i] = q[i + 1]
           /\ (q' = <<>>) <=> (Len(q) = 1)
<1>1. Len(q) \in Nat /\ Len(q) # 0
  BY LenProperties, EmptySeq
<1>2. /\ q' \in Seq(Elements) /\ Len(q') = Len(q) - 1
      /\ \A i \in 1..Len(q') : q'[i] = q[i + 1]
  BY HeadTailProperties
<1>3. (q' = <<>>) <=> (Len(q') = 0)
  BY <1>2, EmptySeq
<1> QED BY <1>1, <1>2, <1>3

LEMMA ElementQ ==
    ASSUME q \in Seq(Elements)
    PROVE  /\ Len(q) \in Nat
           /\ \A i \in 1..Len(q) : q[i] \in Elements
           /\ (q = <<>>) <=> (Len(q) = 0)
<1> QED BY LenProperties, ElementOfSeq, EmptySeq

LEMMA TypeInit == Init => TypeOK
<1> USE NullAssumption
<1> QED BY DEF Init, TypeOK, Addr

(* Every step keeps every field and local variable in its type, provided   *)
(* the invariant held before it: without Front, Tail(q) could be taken of  *)
(* an empty queue, and next of NULL.                                       *)
LEMMA TypeStep == IInv /\ [Next]_vars => TypeOK'
<1> SUFFICES ASSUME IInv, [Next]_vars PROVE TypeOK'
  OBVIOUS
<1> USE NullAssumption DEF TypeOK, Addr, producerVars, consumerVars
<1>0. TypeOK
  BY DEF IInv
<1>1. ASSUME NEW e \in Elements, HeaderInit(e) PROVE TypeOK'
  BY <1>0, <1>1 DEF HeaderInit
<1>2. ASSUME NEW p \in Producers, NEW e \in Elements, EnqueueCall(p, e)
      PROVE TypeOK'
  BY <1>0, <1>2 DEF EnqueueCall
<1>3. ASSUME NEW p \in Producers, EnqueueSwap(p) PROVE TypeOK'
  <2>1. r_elt[p] \in Elements
    BY <1>3 DEF IInv, Ownership, EnqueueSwap
  <2>2. Append(q, r_elt[p]) \in Seq(Elements)
    BY <1>0, <2>1
  <2> QED BY <1>0, <1>3, <2>1, <2>2 DEF EnqueueSwap
<1>4. ASSUME NEW p \in Producers, EnqueueSetHead(p) PROVE TypeOK'
  BY <1>0, <1>4 DEF EnqueueSetHead, EnqueueReturn
<1>5. ASSUME NEW p \in Producers, EnqueueSetNext(p) PROVE TypeOK'
  BY <1>0, <1>5 DEF EnqueueSetNext, EnqueueReturn
<1>6. CASE IsEmptyShadow
  BY <1>0, <1>6 DEF IsEmptyShadow, Answer
<1>7. CASE IsEmptyLoadHead
  BY <1>0, <1>7 DEF IsEmptyLoadHead, Answer
<1>8. CASE IsEmptyCopyHead
  BY <1>0, <1>8 DEF IsEmptyCopyHead
<1>9. CASE IsEmptyResetHead
  BY <1>0, <1>9 DEF IsEmptyResetHead, Answer
<1>10. CASE PeekHead
  BY <1>0, <1>10 DEF PeekHead, Answer
<1>11. CASE DequeueCall
  BY <1>0, <1>11 DEF DequeueCall
<1>12. CASE DequeueAdvance
  <2>1. front = r_e /\ r_e # Null /\ q # <<>>
    BY <1>12 DEF DequeueAdvance, IInv, Front, front
  <2>2. Tail(q) \in Seq(Elements)
    BY <1>0, <2>1, HeadTailProperties
  <2>3. next[r_e] \in Addr
    BY <1>0, <2>1
  <2> QED BY <1>0, <1>12, <2>2, <2>3 DEF DequeueAdvance
<1>13. CASE DequeueCas
  <2>1. q # <<>>
    BY <1>13 DEF DequeueCas, IInv, Front, front
  <2>2. Tail(q) \in Seq(Elements)
    BY <1>0, <2>1, HeadTailProperties
  <2> QED BY <1>0, <1>13, <2>2 DEF DequeueCas
<1>14. CASE DequeueWait
  BY <1>0, <1>14 DEF DequeueWait
<1>15. CASE DequeueClear
  BY <1>0, <1>15 DEF DequeueClear, Answer, IInv, Ownership
<1>16. CASE UNCHANGED vars
  BY <1>0, <1>16 DEF vars
<1> QED
  BY <1>1, <1>2, <1>3, <1>4, <1>5, <1>6, <1>7, <1>8, <1>9, <1>10, <1>11,
     <1>12, <1>13, <1>14, <1>15, <1>16
     DEF Next, EnqueueStep, Consumer, IsEmptyCall, ConsumerStep

-----------------------------------------------------------------------------
(* The element the consumer has found is not the element of any enqueue    *)
(* that is still running: its enqueuer has linked it.                      *)
LEMMA FrontSettled ==
    ASSUME IInv, front # Null
    PROVE  /\ q # <<>> /\ front = q[1] /\ Len(q) \in Nat /\ Len(q) > 0
           /\ \A p \in Producers : ppc[p] # "idle" => r_elt[p] # q[1]
<1> USE DEF IInv
<1>1. /\ q # <<>> /\ front = q[1]
      /\ Len(q) \in Nat /\ Len(q) > 0
  BY ElementQ DEF TypeOK, Front
<1>2. ASSUME NEW p \in Producers, ppc[p] # "idle", r_elt[p] = q[1]
      PROVE FALSE
  <2>1. CASE ppc[p] = "swap"
    BY <1>1, <1>2, <2>1 DEF Ownership
  <2>2. CASE OwesHead(p)
    BY <2>2 DEF Owed
  <2>3. CASE OwesNext(p)
    <3>1. PICK i \in 1..Len(q)-1 : r_elt[p] = q[i+1]
      BY <2>3 DEF Owed
    <3>2. 1 \in 1..Len(q) /\ i+1 \in 1..Len(q) /\ i+1 # 1
      BY <1>1
    <3> QED BY <1>2, <3>1, <3>2 DEF Ownership
  <2> QED BY <1>2, <2>1, <2>2, <2>3 DEF TypeOK, OwesHead, OwesNext
<1> QED BY <1>1, <1>2

(* dequeue's compare-and-swap succeeds only on the last element.           *)
LEMMA CasOnLast ==
    ASSUME IInv, cpc = "cas", tail = r_e
    PROVE  Len(q) = 1 /\ r_e = q[1]
<1>1. front = r_e /\ front # Null
  BY DEF front, Front, IInv
<1>2. /\ q # <<>> /\ r_e = q[1]
      /\ Len(q) \in Nat /\ Len(q) > 0
  BY <1>1, FrontSettled
<1>3. q[1] = q[Len(q)]
  BY <1>2 DEF IInv, Chain
<1>4. 1 \in 1..Len(q) /\ Len(q) \in 1..Len(q)
  BY <1>2
<1>5. Len(q) = 1
  BY <1>3, <1>4 DEF IInv, Ownership
<1> QED BY <1>2, <1>5

(* The actions that change neither the history, nor the pool, nor a local  *)
(* variable of a producer, nor a link, leave most of the invariant alone.  *)
LEMMA OwnershipStep == IInv /\ [Next]_vars => Ownership'
<1> SUFFICES ASSUME IInv, [Next]_vars PROVE Ownership'
  OBVIOUS
<1> USE NullAssumption DEF TypeOK, Addr, producerVars, consumerVars, Ownership
<1>0. TypeOK /\ Ownership
  BY DEF IInv
<1>q. /\ Len(q) \in Nat
      /\ \A i \in 1..Len(q) : q[i] \in Elements
      /\ (q = <<>>) <=> (Len(q) = 0)
  BY <1>0, ElementQ
<1>1. ASSUME NEW e \in Elements, HeaderInit(e) PROVE Ownership'
  BY <1>0, <1>1 DEF HeaderInit
<1>2. ASSUME NEW p \in Producers, NEW e \in Elements, EnqueueCall(p, e)
      PROVE Ownership'
  BY <1>0, <1>q, <1>2 DEF EnqueueCall
<1>3. ASSUME NEW p \in Producers, EnqueueSwap(p) PROVE Ownership'
  <2>1. r_elt[p] \in Elements
    BY <1>0, <1>3 DEF EnqueueSwap
  <2>2. /\ Len(q') = Len(q) + 1
        /\ \A i \in 1..Len(q) : q'[i] = q[i]
        /\ q'[Len(q) + 1] = r_elt[p]
    BY <1>0, <1>3, <2>1, AppendQ DEF EnqueueSwap
  <2> QED BY <1>0, <1>q, <1>3, <2>1, <2>2 DEF EnqueueSwap
<1>4. ASSUME NEW p \in Producers, EnqueueSetHead(p) PROVE Ownership'
  BY <1>0, <1>4 DEF EnqueueSetHead, EnqueueReturn
<1>5. ASSUME NEW p \in Producers, EnqueueSetNext(p) PROVE Ownership'
  BY <1>0, <1>5 DEF EnqueueSetNext, EnqueueReturn, IInv, Owed, OwesNext
<1>6. CASE IsEmptyShadow
  BY <1>0, <1>6 DEF IsEmptyShadow
<1>7. CASE IsEmptyLoadHead
  BY <1>0, <1>7 DEF IsEmptyLoadHead
<1>8. CASE IsEmptyCopyHead
  BY <1>0, <1>8 DEF IsEmptyCopyHead
<1>9. CASE IsEmptyResetHead
  BY <1>0, <1>9 DEF IsEmptyResetHead
<1>10. CASE PeekHead
  BY <1>0, <1>10 DEF PeekHead
<1>11. CASE DequeueCall
  BY <1>0, <1>11 DEF DequeueCall
<1>12. CASE DequeueAdvance
  <2>1. r_e = q[1] /\ q # <<>>
    BY <1>12 DEF DequeueAdvance, IInv, Front, front
  <2>2. /\ Len(q) > 0 /\ Len(q') = Len(q) - 1
        /\ \A i \in 1..Len(q') : q'[i] = q[i + 1]
    BY <1>0, <1>12, <2>1, TailQ DEF DequeueAdvance
  <2>3. \A p \in Producers : ppc[p] # "idle" => r_elt[p] # q[1]
    BY <1>12, FrontSettled DEF DequeueAdvance, IInv, Front
  <2> QED BY <1>0, <1>q, <1>12, <2>1, <2>2, <2>3 DEF DequeueAdvance
<1>13. CASE DequeueCas
  <2>1. /\ r_e = q[1] /\ q # <<>>
        /\ \A p \in Producers : ppc[p] # "idle" => r_elt[p] # q[1]
    BY <1>13, FrontSettled DEF DequeueCas, IInv, Front, front
  <2>2. CASE tail = r_e
    <3>1. Len(q) = 1 /\ Len(q') = 0
      BY <1>0, <1>13, <2>1, <2>2, CasOnLast, TailQ DEF DequeueCas
    <3> QED BY <1>0, <1>q, <1>13, <2>1, <2>2, <3>1 DEF DequeueCas
  <2>3. CASE tail # r_e
    BY <1>0, <1>13, <2>3 DEF DequeueCas
  <2> QED BY <2>2, <2>3
<1>14. CASE DequeueWait
  BY <1>0, <1>14 DEF DequeueWait
<1>15. CASE DequeueClear
  BY <1>0, <1>q, <1>15 DEF DequeueClear
<1>16. CASE UNCHANGED vars
  BY <1>0, <1>16 DEF vars
<1> QED
  BY <1>1, <1>2, <1>3, <1>4, <1>5, <1>6, <1>7, <1>8, <1>9, <1>10, <1>11,
     <1>12, <1>13, <1>14, <1>15, <1>16
     DEF Next, EnqueueStep, Consumer, IsEmptyCall, ConsumerStep

LEMMA ChainStep == IInv /\ [Next]_vars => Chain'
<1> SUFFICES ASSUME IInv, [Next]_vars PROVE Chain'
  OBVIOUS
<1> USE NullAssumption DEF Addr, producerVars, consumerVars, Chain, OwesNext
<1>0. TypeOK /\ Ownership /\ Chain
  BY DEF IInv
<1>q. /\ Len(q) \in Nat
      /\ \A i \in 1..Len(q) : q[i] \in Elements
      /\ (q = <<>>) <=> (Len(q) = 0)
  BY <1>0, ElementQ DEF TypeOK
<1>1. ASSUME NEW e \in Elements, HeaderInit(e) PROVE Chain'
  <2>1. \A i \in 1..Len(q) : next'[q[i]] = next[q[i]]
    BY <1>0, <1>1, <1>q DEF HeaderInit, TypeOK, Ownership
  <2> QED BY <1>0, <1>q, <1>1, <2>1 DEF HeaderInit
<1>2. ASSUME NEW p \in Producers, NEW e \in Elements, EnqueueCall(p, e)
      PROVE Chain'
  <2>1. \A i \in 1..Len(q) : next'[q[i]] = next[q[i]]
    BY <1>0, <1>2, <1>q DEF EnqueueCall, TypeOK, Ownership
  <2>2. \A r \in Producers : OwesNext(r) => /\ OwesNext(r)'
                                            /\ r_elt'[r] = r_elt[r]
                                            /\ r_prev'[r] = r_prev[r]
    BY <1>0, <1>2 DEF EnqueueCall, TypeOK
  <2> QED BY <1>0, <1>q, <1>2, <2>1, <2>2 DEF EnqueueCall
<1>3. ASSUME NEW p \in Producers, EnqueueSwap(p) PROVE Chain'
  <2>1. r_elt[p] \in Elements /\ next[r_elt[p]] = Null
    BY <1>0, <1>3 DEF EnqueueSwap, Ownership
  <2>2. /\ Len(q') = Len(q) + 1 /\ q' # <<>>
        /\ \A i \in 1..Len(q) : q'[i] = q[i]
        /\ q'[Len(q) + 1] = r_elt[p]
    BY <1>0, <1>3, <2>1, AppendQ DEF EnqueueSwap, TypeOK
  <2>3. \A r \in Producers : OwesNext(r) => /\ OwesNext(r)'
                                            /\ r_elt'[r] = r_elt[r]
                                            /\ r_prev'[r] = r_prev[r]
    BY <1>0, <1>3 DEF EnqueueSwap, TypeOK
  <2>4. ppc'[p] = "link" /\ r_prev'[p] = tail /\ r_elt'[p] = r_elt[p]
    BY <1>0, <1>3 DEF EnqueueSwap, TypeOK
  <2>5. ASSUME NEW i \in 1..Len(q')-1
        PROVE  \/ next'[q'[i]] = q'[i+1]
               \/ \E r \in Producers : /\ OwesNext(r)'
                                       /\ r_prev'[r] = q'[i]
                                       /\ r_elt'[r] = q'[i+1]
    <3>1. CASE i = Len(q)
      <4>1. tail = q[i] /\ q[i] # Null /\ q'[i] = q[i]
        BY <1>0, <1>q, <2>2, <3>1
      <4> QED BY <1>q, <2>2, <2>4, <3>1, <4>1
    <3>2. CASE i # Len(q)
      <4>1. i \in 1..Len(q)-1 /\ q'[i] = q[i] /\ q'[i+1] = q[i+1]
        BY <1>q, <2>2, <3>2
      <4> QED BY <1>0, <1>3, <2>3, <4>1 DEF EnqueueSwap
    <3> QED BY <3>1, <3>2
  <2>6. /\ next'[q'[Len(q')]] = Null
        /\ tail' = q'[Len(q')]
    BY <1>q, <1>3, <2>1, <2>2 DEF EnqueueSwap
  <2> QED BY <2>2, <2>5, <2>6
<1>4. ASSUME NEW p \in Producers, EnqueueSetHead(p) PROVE Chain'
  <2>1. \A r \in Producers : OwesNext(r) => /\ OwesNext(r)'
                                            /\ r_elt'[r] = r_elt[r]
                                            /\ r_prev'[r] = r_prev[r]
    BY <1>0, <1>4 DEF EnqueueSetHead, EnqueueReturn, TypeOK
  <2> QED BY <1>0, <1>q, <1>4, <2>1 DEF EnqueueSetHead
<1>5. ASSUME NEW p \in Producers, EnqueueSetNext(p) PROVE Chain'
  <2>1. PICK j \in 1..Len(q)-1 : /\ r_prev[p] = q[j]
                                 /\ r_elt[p] = q[j+1]
                                 /\ next[q[j]] = Null
    BY <1>5 DEF EnqueueSetNext, IInv, Owed
  <2>2. /\ next'[q[j]] = q[j+1]
        /\ \A i \in 1..Len(q) : i # j => next'[q[i]] = next[q[i]]
    BY <1>0, <1>5, <1>q, <2>1 DEF EnqueueSetNext, TypeOK, Ownership
  <2>3. \A r \in Producers \ {p} : OwesNext(r) => /\ OwesNext(r)'
                                                  /\ r_elt'[r] = r_elt[r]
                                                  /\ r_prev'[r] = r_prev[r]
    BY <1>0, <1>5 DEF EnqueueSetNext, EnqueueReturn, TypeOK
  <2>4. ASSUME NEW i \in 1..Len(q)-1
        PROVE  \/ next'[q[i]] = q[i+1]
               \/ \E r \in Producers : /\ OwesNext(r)'
                                       /\ r_prev'[r] = q[i]
                                       /\ r_elt'[r] = q[i+1]
    <3>1. CASE i = j
      BY <2>2, <3>1
    <3>2. CASE i # j
      <4>1. i \in 1..Len(q) /\ j \in 1..Len(q) /\ q[i] # q[j]
        BY <1>0, <1>q, <3>2 DEF Ownership
      <4> QED BY <1>0, <2>1, <2>2, <2>3, <3>2, <4>1
    <3> QED BY <3>1, <3>2
  <2>5. next'[q[Len(q)]] = next[q[Len(q)]]
    BY <1>q, <2>2
  <2> QED BY <1>0, <1>q, <1>5, <2>1, <2>4, <2>5 DEF EnqueueSetNext
<1>6. CASE IsEmptyShadow
  BY <1>0, <1>6 DEF IsEmptyShadow
<1>7. CASE IsEmptyLoadHead
  BY <1>0, <1>7 DEF IsEmptyLoadHead
<1>8. CASE IsEmptyCopyHead
  BY <1>0, <1>8 DEF IsEmptyCopyHead
<1>9. CASE IsEmptyResetHead
  BY <1>0, <1>9 DEF IsEmptyResetHead
<1>10. CASE PeekHead
  BY <1>0, <1>10 DEF PeekHead
<1>11. CASE DequeueCall
  BY <1>0, <1>11 DEF DequeueCall
<1>12. CASE DequeueAdvance
  <2>1. r_e = q[1] /\ q # <<>> /\ next[q[1]] # Null
    BY <1>12 DEF DequeueAdvance, IInv, Front, front
  <2>2. /\ Len(q) > 0 /\ Len(q') = Len(q) - 1
        /\ \A i \in 1..Len(q') : q'[i] = q[i + 1]
        /\ (q' = <<>>) <=> (Len(q) = 1)
    BY <1>0, <1>12, <2>1, TailQ DEF DequeueAdvance, TypeOK
  <2>3. Len(q) # 1
    BY <1>0, <2>1
  <2>4. ASSUME NEW i \in 1..Len(q')-1
        PROVE  \/ next'[q'[i]] = q'[i+1]
               \/ \E r \in Producers : /\ OwesNext(r)'
                                       /\ r_prev'[r] = q'[i]
                                       /\ r_elt'[r] = q'[i+1]
    <3>1. i+1 \in 1..Len(q)-1 /\ q'[i] = q[i+1] /\ q'[i+1] = q[i+2]
      BY <1>q, <2>2
    <3> QED BY <1>0, <1>12, <3>1 DEF DequeueAdvance
  <2>5. q' # <<>> /\ q'[Len(q')] = q[Len(q)]
    BY <1>q, <2>2, <2>3
  <2> QED BY <1>0, <1>12, <2>1, <2>4, <2>5 DEF DequeueAdvance
<1>13. CASE DequeueCas
  <2>1. CASE tail = r_e
    <3>1. Len(q) = 1 /\ Len(q') = 0 /\ q' = <<>>
      BY <1>0, <1>q, <1>13, <2>1, CasOnLast, TailQ DEF DequeueCas, TypeOK
    <3> QED BY <1>13, <2>1, <3>1 DEF DequeueCas
  <2>2. CASE tail # r_e
    BY <1>0, <1>13, <2>2 DEF DequeueCas
  <2> QED BY <2>1, <2>2
<1>14. CASE DequeueWait
  BY <1>0, <1>14 DEF DequeueWait
<1>15. CASE DequeueClear
  <2>1. \A i \in 1..Len(q) : next'[q[i]] = next[q[i]]
    BY <1>0, <1>15, <1>q DEF DequeueClear, TypeOK, Ownership
  <2> QED BY <1>0, <1>q, <1>15, <2>1 DEF DequeueClear
<1>16. CASE UNCHANGED vars
  BY <1>0, <1>16 DEF vars
<1> QED
  BY <1>1, <1>2, <1>3, <1>4, <1>5, <1>6, <1>7, <1>8, <1>9, <1>10, <1>11,
     <1>12, <1>13, <1>14, <1>15, <1>16
     DEF Next, EnqueueStep, Consumer, IsEmptyCall, ConsumerStep

(* A producer whose enqueue goes on, untouched by the step of another.     *)
SameCall(r) == ppc'[r] = ppc[r] /\ r_elt'[r] = r_elt[r] /\ r_prev'[r] = r_prev[r]

LEMMA OwedStep == IInv /\ [Next]_vars => Owed'
<1> SUFFICES ASSUME IInv, [Next]_vars PROVE Owed'
  OBVIOUS
<1> USE NullAssumption
        DEF Addr, producerVars, consumerVars, Owed, OwesNext, OwesHead
<1>0. TypeOK /\ Ownership /\ Chain /\ Owed /\ Front
  BY DEF IInv
<1>q. /\ Len(q) \in Nat
      /\ \A i \in 1..Len(q) : q[i] \in Elements
      /\ (q = <<>>) <=> (Len(q) = 0)
  BY <1>0, ElementQ DEF TypeOK
<1>1. ASSUME NEW e \in Elements, HeaderInit(e) PROVE Owed'
  <2>1. \A i \in 1..Len(q) : next'[q[i]] = next[q[i]]
    BY <1>0, <1>1, <1>q DEF HeaderInit, TypeOK, Ownership
  <2> QED BY <1>0, <1>q, <1>1, <2>1 DEF HeaderInit, front
<1>2. ASSUME NEW p \in Producers, NEW e \in Elements, EnqueueCall(p, e)
      PROVE Owed'
  <2>1. \A i \in 1..Len(q) : next'[q[i]] = next[q[i]]
    BY <1>0, <1>2, <1>q DEF EnqueueCall, TypeOK, Ownership
  <2>2. /\ ppc'[p] = "swap"
        /\ \A r \in Producers \ {p} : SameCall(r)
    BY <1>0, <1>2 DEF EnqueueCall, TypeOK, SameCall
  <2>3. UNCHANGED <<q, front, head>>
    BY <1>2 DEF EnqueueCall, front
  <2> QED BY <1>0, <1>q, <2>1, <2>2, <2>3 DEF SameCall
<1>3. ASSUME NEW p \in Producers, EnqueueSwap(p) PROVE Owed'
  <2>1. r_elt[p] \in Elements
    BY <1>0, <1>3 DEF EnqueueSwap, Ownership
  <2>2. /\ Len(q') = Len(q) + 1 /\ q' # <<>>
        /\ \A i \in 1..Len(q) : q'[i] = q[i]
        /\ q'[Len(q) + 1] = r_elt[p]
    BY <1>0, <1>3, <2>1, AppendQ DEF EnqueueSwap, TypeOK
  <2>3. /\ \A r \in Producers \ {p} : SameCall(r)
        /\ ppc'[p] = "link" /\ r_prev'[p] = tail /\ r_elt'[p] = r_elt[p]
    BY <1>0, <1>3 DEF EnqueueSwap, TypeOK, SameCall
  <2>4. UNCHANGED <<next, front, head>>
    BY <1>3 DEF EnqueueSwap, front
  <2>5. ASSUME NEW r \in Producers, OwesNext(r)'
        PROVE  \E i \in 1..Len(q')-1 : /\ r_prev'[r] = q'[i]
                                       /\ r_elt'[r] = q'[i+1]
                                       /\ next'[q'[i]] = Null
    <3>1. CASE r = p
      <4>1. Len(q) \in 1..Len(q')-1 /\ q'[Len(q)] = tail /\ next[tail] = Null
        BY <1>0, <1>q, <2>2, <2>3, <2>5, <3>1 DEF Chain
      <4> QED BY <2>2, <2>3, <2>4, <3>1, <4>1
    <3>2. CASE r # p
      <4>1. PICK i \in 1..Len(q)-1 : /\ r_prev[r] = q[i]
                                     /\ r_elt[r] = q[i+1]
                                     /\ next[q[i]] = Null
        BY <1>0, <2>3, <2>5, <3>2 DEF SameCall
      <4>2. i \in 1..Len(q')-1 /\ q'[i] = q[i] /\ q'[i+1] = q[i+1]
        BY <1>q, <2>2, <4>1
      <4> QED BY <2>3, <2>4, <3>2, <4>1, <4>2 DEF SameCall
    <3> QED BY <3>1, <3>2
  <2>6. ASSUME NEW r \in Producers, OwesHead(r)'
        PROVE q' # <<>> /\ r_elt'[r] = q'[1] /\ front' = Null /\ head' = Null
    <3>1. CASE r = p
      <4>1. q = <<>> /\ Len(q) = 0
        BY <1>0, <1>q, <2>3, <2>6, <3>1 DEF Chain
      <4>2. front = Null /\ head = Null
        BY <1>0, <4>1 DEF Front
      <4> QED BY <2>2, <2>3, <2>4, <3>1, <4>1, <4>2
    <3>2. CASE r # p
      <4>1. q # <<>> /\ r_elt[r] = q[1] /\ front = Null /\ head = Null
        BY <1>0, <2>3, <2>6, <3>2 DEF SameCall
      <4> QED BY <1>q, <2>2, <2>3, <2>4, <3>2, <4>1 DEF SameCall
    <3> QED BY <3>1, <3>2
  <2> QED BY <2>5, <2>6
<1>4. ASSUME NEW p \in Producers, EnqueueSetHead(p) PROVE Owed'
  <2>1. /\ \A r \in Producers \ {p} : SameCall(r)
        /\ ppc'[p] = "idle"
    BY <1>0, <1>4 DEF EnqueueSetHead, EnqueueReturn, TypeOK, SameCall
  <2>2. \A r \in Producers \ {p} : ~OwesHead(r)
    BY <1>0, <1>4 DEF EnqueueSetHead, Ownership
  <2> QED BY <1>0, <1>q, <1>4, <2>1, <2>2 DEF EnqueueSetHead, front, SameCall
<1>5. ASSUME NEW p \in Producers, EnqueueSetNext(p) PROVE Owed'
  <2>1. PICK j \in 1..Len(q)-1 : /\ r_prev[p] = q[j]
                                 /\ r_elt[p] = q[j+1]
                                 /\ next[q[j]] = Null
    BY <1>0, <1>5 DEF EnqueueSetNext
  <2>2. \A i \in 1..Len(q) : i # j => next'[q[i]] = next[q[i]]
    BY <1>0, <1>5, <1>q, <2>1 DEF EnqueueSetNext, TypeOK, Ownership
  <2>3. /\ \A r \in Producers \ {p} : SameCall(r)
        /\ ppc'[p] = "idle" /\ ppc[p] = "link"
    BY <1>0, <1>5 DEF EnqueueSetNext, EnqueueReturn, TypeOK, SameCall
  <2>4. UNCHANGED <<q, front, head>>
    BY <1>5 DEF EnqueueSetNext, front
  <2>5. ASSUME NEW r \in Producers, OwesNext(r)'
        PROVE  \E i \in 1..Len(q)-1 : /\ r_prev'[r] = q[i]
                                      /\ r_elt'[r] = q[i+1]
                                      /\ next'[q[i]] = Null
    <3>1. r # p /\ OwesNext(r)
      BY <2>3, <2>5 DEF SameCall
    <3>2. PICK i \in 1..Len(q)-1 : /\ r_prev[r] = q[i]
                                   /\ r_elt[r] = q[i+1]
                                   /\ next[q[i]] = Null
      BY <1>0, <3>1
    <3>3. i # j
      BY <1>0, <2>1, <2>3, <3>1, <3>2 DEF Ownership
    <3> QED BY <1>q, <2>2, <2>3, <3>1, <3>2, <3>3 DEF SameCall
  <2> QED BY <1>0, <2>3, <2>4, <2>5 DEF SameCall
<1>6. CASE IsEmptyShadow
  BY <1>0, <1>6 DEF IsEmptyShadow, front
<1>7. CASE IsEmptyLoadHead
  BY <1>0, <1>7 DEF IsEmptyLoadHead, front
<1>8. CASE IsEmptyCopyHead
  BY <1>0, <1>8 DEF IsEmptyCopyHead, Front
<1>9. CASE IsEmptyResetHead
  BY <1>0, <1>9 DEF IsEmptyResetHead, front
<1>10. CASE PeekHead
  BY <1>0, <1>10 DEF PeekHead, front
<1>11. CASE DequeueCall
  BY <1>0, <1>11 DEF DequeueCall, front
<1>12. CASE DequeueAdvance
  <2>1. r_e = q[1] /\ q # <<>> /\ next[q[1]] # Null /\ front # Null
    BY <1>0, <1>12 DEF DequeueAdvance, Front, front
  <2>2. /\ Len(q) > 0 /\ Len(q') = Len(q) - 1
        /\ \A i \in 1..Len(q') : q'[i] = q[i + 1]
    BY <1>0, <1>12, <2>1, TailQ DEF DequeueAdvance, TypeOK
  <2>3. ASSUME NEW r \in Producers, OwesNext(r)
        PROVE  \E i \in 1..Len(q')-1 : /\ r_prev[r] = q'[i]
                                       /\ r_elt[r] = q'[i+1]
                                       /\ next[q'[i]] = Null
    <3>1. PICK i \in 1..Len(q)-1 : /\ r_prev[r] = q[i]
                                   /\ r_elt[r] = q[i+1]
                                   /\ next[q[i]] = Null
      BY <1>0, <2>3
    <3>2. i # 1
      BY <2>1, <3>1
    <3>3. i-1 \in 1..Len(q')-1 /\ q'[i-1] = q[i] /\ q'[(i-1)+1] = q[i+1]
      BY <1>q, <2>2, <3>2
    <3> QED BY <3>1, <3>3
  <2>4. \A r \in Producers : ~OwesHead(r)
    BY <1>0, <2>1
  <2> QED BY <1>12, <2>3, <2>4 DEF DequeueAdvance
<1>13. CASE DequeueCas
  <2>1. front # Null /\ front' = IF tail = r_e THEN Null ELSE r_e
    BY <1>0, <1>13 DEF DequeueCas, Front, front
  <2>2. \A r \in Producers : ~OwesHead(r)
    BY <1>0, <2>1
  <2>3. CASE tail = r_e
    <3>1. Len(q) = 1
      BY <1>0, <1>13, <2>3, CasOnLast DEF DequeueCas
    <3>2. \A r \in Producers : ~OwesNext(r)
      BY <1>0, <3>1
    <3> QED BY <1>13, <2>2, <3>2 DEF DequeueCas
  <2>4. CASE tail # r_e
    BY <1>0, <1>13, <2>2, <2>4 DEF DequeueCas
  <2> QED BY <2>3, <2>4
<1>14. CASE DequeueWait
  BY <1>0, <1>14 DEF DequeueWait, front
<1>15. CASE DequeueClear
  <2>1. \A i \in 1..Len(q) : next'[q[i]] = next[q[i]]
    BY <1>0, <1>15, <1>q DEF DequeueClear, TypeOK, Ownership
  <2> QED BY <1>0, <1>q, <1>15, <2>1 DEF DequeueClear, front
<1>16. CASE UNCHANGED vars
  BY <1>0, <1>16 DEF vars, front
<1> QED
  BY <1>1, <1>2, <1>3, <1>4, <1>5, <1>6, <1>7, <1>8, <1>9, <1>10, <1>11,
     <1>12, <1>13, <1>14, <1>15, <1>16
     DEF Next, EnqueueStep, Consumer, IsEmptyCall, ConsumerStep

LEMMA FrontStep == IInv /\ [Next]_vars => Front'
<1> SUFFICES ASSUME IInv, [Next]_vars PROVE Front'
  OBVIOUS
<1> USE NullAssumption DEF Addr, producerVars, consumerVars
<1>0. TypeOK /\ Ownership /\ Chain /\ Owed /\ Front /\ Replied
  BY DEF IInv
<1>q. /\ Len(q) \in Nat
      /\ \A i \in 1..Len(q) : q[i] \in Elements
      /\ (q = <<>>) <=> (Len(q) = 0)
  BY <1>0, ElementQ DEF TypeOK
<1>1. ASSUME NEW e \in Elements, HeaderInit(e) PROVE Front'
  <2>1. q # <<>> => next'[q[1]] = next[q[1]]
    BY <1>0, <1>1, <1>q DEF HeaderInit, TypeOK, Ownership
  <2> QED BY <1>0, <1>1, <2>1 DEF HeaderInit, Front, front, OwesHead
<1>2. ASSUME NEW p \in Producers, NEW e \in Elements, EnqueueCall(p, e)
      PROVE Front'
  <2>1. q # <<>> => next'[q[1]] = next[q[1]]
    BY <1>0, <1>2, <1>q DEF EnqueueCall, TypeOK, Ownership
  <2>2. \A r \in Producers : OwesHead(r) => OwesHead(r)'
    BY <1>0, <1>2 DEF EnqueueCall, TypeOK, OwesHead
  <2> QED BY <1>0, <1>2, <2>1, <2>2 DEF EnqueueCall, Front, front
<1>3. ASSUME NEW p \in Producers, EnqueueSwap(p) PROVE Front'
  <2>1. r_elt[p] \in Elements
    BY <1>0, <1>3 DEF EnqueueSwap, Ownership
  <2>2. /\ Len(q') = Len(q) + 1 /\ q' # <<>>
        /\ \A i \in 1..Len(q) : q'[i] = q[i]
        /\ q # <<>> => q'[1] = q[1]
    BY <1>0, <1>q, <1>3, <2>1, AppendQ DEF EnqueueSwap, TypeOK
  <2>3. \A r \in Producers : OwesHead(r) => OwesHead(r)'
    BY <1>0, <1>3 DEF EnqueueSwap, TypeOK, OwesHead
  <2>4. q = <<>> => OwesHead(p)'
    BY <1>0, <1>3 DEF EnqueueSwap, TypeOK, OwesHead, Chain
  <2>5. UNCHANGED <<next, head, cpc, shadow_head, r_e, front>>
    BY <1>3 DEF EnqueueSwap, front
  <2>6. Len(q) > 1 => Len(q') > 1
    BY <1>q, <2>2
  <2> QED BY <1>0, <2>2, <2>3, <2>4, <2>5, <2>6 DEF Front
<1>4. ASSUME NEW p \in Producers, EnqueueSetHead(p) PROVE Front'
  <2>1. q # <<>> /\ r_elt[p] = q[1] /\ front = Null /\ head = Null
    BY <1>0, <1>4 DEF EnqueueSetHead, Owed, OwesHead
  <2>2. UNCHANGED <<next, q, cpc, shadow_head, r_e, front>> /\ head' = q[1]
    BY <1>4, <2>1 DEF EnqueueSetHead, front
  <2>3. q[1] # Null
    BY <1>q, <2>1
  <2> QED BY <1>0, <2>1, <2>2, <2>3 DEF Front
<1>5. ASSUME NEW p \in Producers, EnqueueSetNext(p) PROVE Front'
  <2>1. \A r \in Producers : OwesHead(r) => OwesHead(r)'
    BY <1>0, <1>5 DEF EnqueueSetNext, EnqueueReturn, TypeOK, OwesHead
  <2>2. next[r_e] # Null => next'[r_e] # Null
    BY <1>0, <1>5 DEF EnqueueSetNext, Ownership, TypeOK
  <2> QED BY <1>0, <1>5, <2>1, <2>2 DEF EnqueueSetNext, Front, front
<1>6. CASE IsEmptyShadow
  BY <1>0, <1>6 DEF IsEmptyShadow, Front, front, OwesHead
<1>7. CASE IsEmptyLoadHead
  BY <1>0, <1>7 DEF IsEmptyLoadHead, Front, front, OwesHead
<1>8. CASE IsEmptyCopyHead
  BY <1>0, <1>8 DEF IsEmptyCopyHead, Front, front, OwesHead
<1>9. CASE IsEmptyResetHead
  BY <1>0, <1>9 DEF IsEmptyResetHead, Front, front, OwesHead
<1>10. CASE PeekHead
  BY <1>0, <1>10 DEF PeekHead, Front, front, OwesHead
<1>11. CASE DequeueCall
  <2>1. shadow_head # Null
    BY <1>0, <1>11 DEF DequeueCall, Replied
  <2> QED BY <1>0, <1>11, <2>1 DEF DequeueCall, Front, front
<1>12. CASE DequeueAdvance
  <2>1. /\ r_e = q[1] /\ q # <<>> /\ next[q[1]] # Null /\ front # Null
        /\ head = Null
    BY <1>0, <1>12 DEF DequeueAdvance, Front, front
  <2>2. /\ Len(q) > 0 /\ Len(q') = Len(q) - 1
        /\ \A i \in 1..Len(q') : q'[i] = q[i + 1]
        /\ (q' = <<>>) <=> (Len(q) = 1)
    BY <1>0, <1>12, <2>1, TailQ DEF DequeueAdvance, TypeOK
  <2>3. Len(q) # 1
    BY <1>0, <2>1 DEF Chain
  <2>4. next[q[1]] = q[2]
    BY <1>0, <1>q, <2>1, <2>2, <2>3 DEF Chain, Owed, Ownership, OwesNext
  <2>5. q'[1] = q[2] /\ q' # <<>>
    BY <1>q, <2>2, <2>3
  <2> QED BY <1>12, <2>1, <2>4, <2>5 DEF DequeueAdvance, Front, front
<1>13. CASE DequeueCas
  <2>1. /\ q # <<>> /\ r_e = q[1] /\ r_e # Null /\ head = Null
    BY <1>0, <1>13 DEF DequeueCas, Front, front
  <2>2. CASE tail = r_e
    <3>1. q' = <<>>
      BY <1>0, <1>q, <1>13, <2>1, <2>2, CasOnLast, TailQ DEF DequeueCas, TypeOK
    <3> QED BY <1>13, <2>1, <2>2, <3>1 DEF DequeueCas, Front, front
  <2>3. CASE tail # r_e
    <3>1. Len(q) > 1
      BY <1>0, <1>q, <2>1, <2>3 DEF Chain
    <3> QED BY <1>13, <2>1, <2>3, <3>1 DEF DequeueCas, Front, front
  <2> QED BY <2>2, <2>3
<1>14. CASE DequeueWait
  BY <1>0, <1>14 DEF DequeueWait, Front, front, OwesHead
<1>15. CASE DequeueClear
  BY <1>0, <1>15 DEF DequeueClear, Front, front, OwesHead
<1>16. CASE UNCHANGED vars
  BY <1>0, <1>16 DEF vars, Front, front, OwesHead
<1> QED
  BY <1>1, <1>2, <1>3, <1>4, <1>5, <1>6, <1>7, <1>8, <1>9, <1>10, <1>11,
     <1>12, <1>13, <1>14, <1>15, <1>16
     DEF Next, EnqueueStep, Consumer, IsEmptyCall, ConsumerStep

LEMMA RepliedStep == IInv /\ [Next]_vars => Replied'
<1> SUFFICES ASSUME IInv, [Next]_vars PROVE Replied'
  OBVIOUS
<1> USE NullAssumption DEF producerVars, consumerVars, Replied, MayDequeue, Answer
<1>0. TypeOK /\ Front /\ Replied
  BY DEF IInv
<1>1. ASSUME NEW e \in Elements, HeaderInit(e) PROVE Replied'
  BY <1>0, <1>1 DEF HeaderInit
<1>2. ASSUME NEW p \in Producers, NEW e \in Elements, EnqueueCall(p, e)
      PROVE Replied'
  BY <1>0, <1>2 DEF EnqueueCall
<1>3. ASSUME NEW p \in Producers, EnqueueSwap(p) PROVE Replied'
  BY <1>0, <1>3 DEF EnqueueSwap
<1>4. ASSUME NEW p \in Producers, EnqueueSetHead(p) PROVE Replied'
  BY <1>0, <1>4 DEF EnqueueSetHead
<1>5. ASSUME NEW p \in Producers, EnqueueSetNext(p) PROVE Replied'
  BY <1>0, <1>5 DEF EnqueueSetNext
<1>6. CASE IsEmptyShadow
  BY <1>0, <1>6 DEF IsEmptyShadow
<1>7. CASE IsEmptyLoadHead
  BY <1>0, <1>7 DEF IsEmptyLoadHead
<1>8. CASE IsEmptyCopyHead
  BY <1>0, <1>8 DEF IsEmptyCopyHead
<1>9. CASE IsEmptyResetHead
  <2>1. shadow_head # Null
    BY <1>0, <1>9 DEF IsEmptyResetHead, Front, front
  <2> QED BY <1>0, <1>9, <2>1 DEF IsEmptyResetHead
<1>10. CASE PeekHead
  BY <1>0, <1>10 DEF PeekHead
<1>11. CASE DequeueCall
  BY <1>0, <1>11 DEF DequeueCall
<1>12. CASE DequeueAdvance
  BY <1>0, <1>12 DEF DequeueAdvance
<1>13. CASE DequeueCas
  BY <1>0, <1>13 DEF DequeueCas
<1>14. CASE DequeueWait
  BY <1>0, <1>14 DEF DequeueWait
<1>15. CASE DequeueClear
  BY <1>0, <1>15 DEF DequeueClear
<1>16. CASE UNCHANGED vars
  BY <1>0, <1>16 DEF vars
<1> QED
  BY <1>1, <1>2, <1>3, <1>4, <1>5, <1>6, <1>7, <1>8, <1>9, <1>10, <1>11,
     <1>12, <1>13, <1>14, <1>15, <1>16
     DEF Next, EnqueueStep, Consumer, IsEmptyCall, ConsumerStep

LEMMA LocalsStep == IInv /\ [Next]_vars => Locals'
<1> SUFFICES ASSUME IInv, [Next]_vars PROVE Locals'
  OBVIOUS
<1> USE NullAssumption DEF producerVars, consumerVars, Locals
<1>0. TypeOK /\ Front /\ Locals
  BY DEF IInv
<1>1. ASSUME NEW e \in Elements, HeaderInit(e) PROVE Locals'
  BY <1>0, <1>1 DEF HeaderInit
<1>2. ASSUME NEW p \in Producers, NEW e \in Elements, EnqueueCall(p, e)
      PROVE Locals'
  BY <1>0, <1>2 DEF EnqueueCall, TypeOK
<1>3. ASSUME NEW p \in Producers, EnqueueSwap(p) PROVE Locals'
  BY <1>0, <1>3 DEF EnqueueSwap, TypeOK
<1>4. ASSUME NEW p \in Producers, EnqueueSetHead(p) PROVE Locals'
  BY <1>0, <1>4 DEF EnqueueSetHead, EnqueueReturn, TypeOK
<1>5. ASSUME NEW p \in Producers, EnqueueSetNext(p) PROVE Locals'
  BY <1>0, <1>5 DEF EnqueueSetNext, EnqueueReturn, TypeOK
<1>6. CASE IsEmptyShadow
  BY <1>0, <1>6 DEF IsEmptyShadow
<1>7. CASE IsEmptyLoadHead
  BY <1>0, <1>7 DEF IsEmptyLoadHead
<1>8. CASE IsEmptyCopyHead
  BY <1>0, <1>8 DEF IsEmptyCopyHead
<1>9. CASE IsEmptyResetHead
  BY <1>0, <1>9 DEF IsEmptyResetHead
<1>10. CASE PeekHead
  BY <1>0, <1>10 DEF PeekHead
<1>11. CASE DequeueCall
  BY <1>0, <1>11 DEF DequeueCall
<1>12. CASE DequeueAdvance
  BY <1>0, <1>12 DEF DequeueAdvance
<1>13. CASE DequeueCas
  BY <1>0, <1>13 DEF DequeueCas
<1>14. CASE DequeueWait
  BY <1>0, <1>14 DEF DequeueWait, Front, front
<1>15. CASE DequeueClear
  BY <1>0, <1>15 DEF DequeueClear
<1>16. CASE UNCHANGED vars
  BY <1>0, <1>16 DEF vars
<1> QED
  BY <1>1, <1>2, <1>3, <1>4, <1>5, <1>6, <1>7, <1>8, <1>9, <1>10, <1>11,
     <1>12, <1>13, <1>14, <1>15, <1>16
     DEF Next, EnqueueStep, Consumer, IsEmptyCall, ConsumerStep

-----------------------------------------------------------------------------
(* The structure of the queue holds in every reachable state, for any      *)
(* number of producers and of elements.                                    *)
THEOREM Structure == Spec => []IInv
<1>1. Init => IInv
  <2> SUFFICES ASSUME Init PROVE IInv
    OBVIOUS
  <2>1. TypeOK
    BY TypeInit
  <2>2. q = <<>> /\ Len(q) = 0
    BY EmptySeq DEF Init
  <2>3. Ownership /\ Chain /\ Owed
    BY <2>2 DEF Init, Ownership, Chain, Owed, OwesHead, OwesNext
  <2>4. Front /\ Replied /\ Locals
    BY <2>2 DEF Init, Front, front, Replied, MayDequeue, Locals
  <2> QED BY <2>1, <2>3, <2>4 DEF IInv
<1>2. IInv /\ [Next]_vars => IInv'
  BY TypeStep, OwnershipStep, ChainStep, OwedStep, FrontStep, RepliedStep,
     LocalsStep DEF IInv
<1> QED BY <1>1, <1>2, PTL DEF Spec

(* Every field and local variable keeps its type.                          *)
THEOREM TypeCorrect == Spec => []TypeOK
<1>1. IInv => TypeOK
  BY DEF IInv
<1> QED BY <1>1, Structure, PTL

(* What the invariant says of the addresses in the queue.                  *)
LEMMA NextInQueue ==
    ASSUME IInv, NEW i \in 1..Len(q)
    PROVE  next[q[i]] = Null \/ (i < Len(q) /\ next[q[i]] = q[i+1])
<1>q. Len(q) \in Nat /\ ((q = <<>>) <=> (Len(q) = 0))
  BY ElementQ DEF IInv, TypeOK
<1>1. CASE i = Len(q)
  BY <1>q, <1>1 DEF IInv, Chain
<1>2. CASE i # Len(q) /\ next[q[i]] # q[i+1]
  <2>1. i \in 1..Len(q)-1
    BY <1>q, <1>2
  <2>2. PICK p \in Producers : OwesNext(p) /\ r_prev[p] = q[i]
    BY <1>2, <2>1 DEF IInv, Chain
  <2>3. PICK j \in 1..Len(q)-1 : r_prev[p] = q[j] /\ next[q[j]] = Null
    BY <2>2 DEF IInv, Owed
  <2> QED BY <2>2, <2>3
<1> QED BY <1>q, <1>1, <1>2

(* A client may free the elements it holds.                                *)
THEOREM ClientsMayFree == Spec => []NoDanglingReference
<1>1. IInv => NoDanglingReference
  <2> SUFFICES ASSUME IInv, NEW e \in pool
               PROVE  /\ e \notin {head, tail, shadow_head, r_e}
                      /\ \A p \in Producers : e \notin {r_elt[p], r_prev[p]}
                      /\ \A i \in 1..Len(q) : next[q[i]] # e
    BY DEF NoDanglingReference
  <2>0. TypeOK /\ Ownership /\ Chain /\ Owed /\ Front /\ Locals
    BY DEF IInv
  <2>q. /\ Len(q) \in Nat
        /\ (q = <<>>) <=> (Len(q) = 0)
        /\ e # Null
        /\ \A i \in 1..Len(q) : q[i] # e
    BY <2>0, ElementQ, NullAssumption DEF TypeOK, Ownership
  <2>1. e # head /\ e # tail
    BY <2>0, <2>q DEF Chain, Front
  <2>2. e # shadow_head /\ e # r_e
    <3>1. front # e
      BY <2>0, <2>q DEF Front
    <3>2. r_e # e
      BY <2>0, <2>q, <3>1 DEF Locals, Ownership, front, TypeOK
    <3> QED BY <2>0, <2>q, <3>1, <3>2 DEF Front, Locals, front
  <2>3. ASSUME NEW p \in Producers PROVE e # r_elt[p] /\ e # r_prev[p]
    <3>1. e # r_elt[p]
      BY <2>0, <2>q DEF Locals, Ownership
    <3>2. e # r_prev[p]
      BY <2>0, <2>q DEF Locals, Owed, OwesNext, OwesHead
    <3> QED BY <3>1, <3>2
  <2>4. \A i \in 1..Len(q) : next[q[i]] # e
    BY <2>q, NextInQueue
  <2> QED BY <2>1, <2>2, <2>3, <2>4
<1> QED BY <1>1, Structure, PTL

(* No store to head wipes out another.                                     *)
THEOREM HeadStores == Spec => HeadNeverOverwritten
<1>1. IInv /\ [Next]_vars =>
        [head' # head => \/ head = Null /\ head' = q[1]
                         \/ head' = Null /\ shadow_head = head]_vars
  <2> SUFFICES ASSUME IInv, Next, head' # head
               PROVE  \/ head = Null /\ head' = q[1]
                      \/ head' = Null /\ shadow_head = head
    OBVIOUS
  <2>1. CASE \E p \in Producers : EnqueueSetHead(p)
    BY <2>1 DEF EnqueueSetHead, IInv, Owed, OwesHead
  <2>2. CASE IsEmptyResetHead
    BY <2>2 DEF IsEmptyResetHead, IInv, Front, front
  <2> QED BY <2>1, <2>2
          DEF Next, EnqueueStep, Consumer, IsEmptyCall, ConsumerStep,
              HeaderInit, EnqueueCall, EnqueueSwap, EnqueueSetNext,
              IsEmptyShadow, IsEmptyLoadHead, IsEmptyCopyHead, PeekHead,
              DequeueCall, DequeueAdvance, DequeueCas, DequeueWait, DequeueClear
<1> QED BY <1>1, Structure, PTL DEF Spec, HeadNeverOverwritten

(* The links of the queue are written once each.                           *)
THEOREM LinkStores == Spec => LinkWrittenOnce
<1>1. IInv /\ [Next]_vars =>
        [\A i \in 1..Len(q) : next'[q[i]] # next[q[i]] =>
            next[q[i]] = Null /\ i < Len(q) /\ next'[q[i]] = q[i+1]]_vars
  <2> SUFFICES ASSUME IInv, Next, NEW i \in 1..Len(q),
                      next'[q[i]] # next[q[i]]
               PROVE  next[q[i]] = Null /\ i < Len(q) /\ next'[q[i]] = q[i+1]
    OBVIOUS
  <2>0. TypeOK /\ Ownership /\ Owed
    BY DEF IInv
  <2>q. Len(q) \in Nat /\ q[i] \in Elements /\ q[i] \notin pool
    BY <2>0, ElementQ DEF TypeOK, Ownership
  <2>1. ASSUME NEW p \in Producers, EnqueueSetNext(p)
        PROVE  next[q[i]] = Null /\ i < Len(q) /\ next'[q[i]] = q[i+1]
    <3>1. PICK j \in 1..Len(q)-1 : /\ r_prev[p] = q[j]
                                   /\ r_elt[p] = q[j+1]
                                   /\ next[q[j]] = Null
      BY <2>0, <2>1 DEF EnqueueSetNext, Owed, OwesNext
    <3>2. q[i] = q[j]
      BY <2>0, <2>1, <2>q, <3>1 DEF EnqueueSetNext, TypeOK
    <3>3. j \in 1..Len(q) /\ i = j
      BY <2>0, <2>q, <3>2 DEF Ownership
    <3> QED BY <2>0, <2>1, <2>q, <3>1, <3>3 DEF EnqueueSetNext, TypeOK
  <2>2. ~ \E e \in Elements : HeaderInit(e)
    BY <2>0, <2>q DEF HeaderInit, TypeOK
  <2>3. ~ \E p \in Producers, e \in Elements : EnqueueCall(p, e)
    BY <2>0, <2>q DEF EnqueueCall, TypeOK
  <2>4. ~ DequeueClear
    BY <2>0, <2>q DEF DequeueClear, TypeOK, Ownership
  <2> QED BY <2>1, <2>2, <2>3, <2>4
          DEF Next, EnqueueStep, Consumer, IsEmptyCall, ConsumerStep,
              EnqueueSwap, EnqueueSetHead,
              IsEmptyShadow, IsEmptyLoadHead, IsEmptyCopyHead,
              IsEmptyResetHead, PeekHead, DequeueCall, DequeueAdvance,
              DequeueCas, DequeueWait
<1> QED BY <1>1, Structure, PTL DEF Spec, LinkWrittenOnce

-----------------------------------------------------------------------------
(* An element put in front of a sequence.                                  *)
LEMMA Cons ==
    ASSUME NEW S, NEW e \in S, NEW s \in Seq(S)
    PROVE  /\ <<e>> \o s \in Seq(S) /\ <<e>> \o s # <<>>
           /\ Head(<<e>> \o s) = e /\ Tail(<<e>> \o s) = s
           /\ \A x \in S : Append(<<e>> \o s, x) = <<e>> \o Append(s, x)
<1>1. <<e>> \in Seq(S) /\ Len(<<e>>) = 1 /\ <<e>>[1] = e
  OBVIOUS
<1>q. Len(s) \in Nat
  BY LenProperties
<1>2. /\ <<e>> \o s \in Seq(S) /\ Len(<<e>> \o s) = 1 + Len(s)
      /\ (<<e>> \o s)[1] = e
      /\ \A i \in 2..1 + Len(s) : (<<e>> \o s)[i] = s[i-1]
  BY <1>1, <1>q, ConcatProperties
<1>3. <<e>> \o s # <<>>
  BY <1>q, <1>2, EmptySeq
<1>4. /\ Tail(<<e>> \o s) \in Seq(S) /\ Len(Tail(<<e>> \o s)) = Len(s)
      /\ \A i \in 1..Len(s) : Tail(<<e>> \o s)[i] = (<<e>> \o s)[i+1]
  BY <1>q, <1>2, <1>3, HeadTailProperties
<1>5. \A i \in 1..Len(s) : Tail(<<e>> \o s)[i] = s[i]
  BY <1>q, <1>2, <1>4
<1>6. Tail(<<e>> \o s) = s
  BY <1>4, <1>5, SeqEqual
<1>7. ASSUME NEW x \in S PROVE Append(<<e>> \o s, x) = <<e>> \o Append(s, x)
  <2>1. <<x>> \in Seq(S)
    OBVIOUS
  <2>2. /\ Append(<<e>> \o s, x) = (<<e>> \o s) \o <<x>>
        /\ Append(s, x) = s \o <<x>>
    BY <1>2, AppendIsConcat
  <2> QED BY <1>1, <2>1, <2>2, ConcatAssociative
<1> QED BY <1>2, <1>3, <1>6, <1>7

LEMMA ConsTail ==
    ASSUME NEW S, NEW s \in Seq(S), s # <<>>
    PROVE  <<s[1]>> \o Tail(s) = s
<1>1. /\ s[1] \in S /\ Tail(s) \in Seq(S) /\ Len(Tail(s)) = Len(s) - 1
      /\ \A i \in 1..Len(s)-1 : Tail(s)[i] = s[i+1]
      /\ Len(s) \in Nat /\ Len(s) > 0
  BY HeadTailProperties, LenProperties, EmptySeq, ElementOfSeq
<1>2. <<s[1]>> \in Seq(S) /\ Len(<<s[1]>>) = 1 /\ <<s[1]>>[1] = s[1]
  BY <1>1
<1>3. /\ <<s[1]>> \o Tail(s) \in Seq(S)
      /\ Len(<<s[1]>> \o Tail(s)) = Len(s)
      /\ \A i \in 1..Len(s) : (<<s[1]>> \o Tail(s))[i] =
                                 IF i <= 1 THEN s[1] ELSE Tail(s)[i-1]
  BY <1>1, <1>2, ConcatProperties
<1>4. ASSUME NEW i \in 1..Len(s) PROVE (<<s[1]>> \o Tail(s))[i] = s[i]
  <2>1. CASE i <= 1
    BY <1>1, <1>3, <2>1
  <2>2. CASE i > 1
    <3>1. i-1 \in 1..Len(s)-1 /\ (i-1)+1 = i
      BY <1>1, <2>2
    <3> QED BY <1>1, <1>3, <2>2, <3>1
  <2> QED BY <1>1, <2>1, <2>2
<1> QED BY <1>3, <1>4, SeqEqual

(* The consumer has found an element exactly when the abstract consumer is *)
(* not blocked, outside the window in which it unlinks an element.         *)
LEMMA NotBlocked ==
    ASSUME IInv, cpc # "clear", front # Null
    PROVE  ~Fifo!Blocked /\ items = q /\ q # <<>> /\ Head(items) = front
<1>1. /\ q # <<>> /\ front = q[1] /\ items = q
      /\ \A p \in Producers : ppc[p] # "idle" => r_elt[p] # q[1]
  BY FrontSettled DEF items
<1>2. Head(q) = q[1]
  OBVIOUS
<1>3. q[1] \notin pending
  BY <1>1 DEF pending
<1> QED BY <1>1, <1>2, <1>3 DEF Fifo!Blocked

(* Every step of the code is a step of FifoQueue or leaves it alone.       *)
LEMMA StepImplementsFifo ==
    IInv /\ [Next]_vars => [Fifo!Next]_(Fifo!vars)
<1> SUFFICES ASSUME IInv, [Next]_vars PROVE [Fifo!Next]_(Fifo!vars)
  OBVIOUS
<1> USE DEF Fifo!vars, producerVars, consumerVars
<1>0. /\ TypeOK /\ Ownership /\ Chain /\ Owed /\ Front /\ Replied /\ Locals
      /\ q \in Seq(Elements)
  BY DEF IInv, TypeOK
<1>q. /\ Len(q) \in Nat /\ \A i \in 1..Len(q) : q[i] \in Elements
      /\ (q = <<>>) <=> (Len(q) = 0)
  BY <1>0, ElementQ
<1>1. ASSUME NEW e \in Elements, HeaderInit(e) PROVE UNCHANGED Fifo!vars
  BY <1>1 DEF HeaderInit, items, pending
<1>2. ASSUME NEW p \in Producers, NEW e \in Elements, EnqueueCall(p, e)
      PROVE UNCHANGED Fifo!vars
  <2>1. pending' = pending
    BY <1>0, <1>2 DEF EnqueueCall, TypeOK, pending
  <2> QED BY <1>2, <2>1 DEF EnqueueCall, items
<1>3. ASSUME NEW p \in Producers, EnqueueSwap(p) PROVE Fifo!Enqueue(r_elt[p])
  <2>1. r_elt[p] \in Elements /\ q' = Append(q, r_elt[p]) /\ cpc' = cpc
        /\ r_e' = r_e /\ reply' = reply
    BY <1>0, <1>3 DEF EnqueueSwap, Ownership
  <2>2. items' = Append(items, r_elt[p])
    <3>1. CASE cpc = "clear"
      <4>1. r_e \in Elements
        BY <1>0, <3>1 DEF Ownership
      <4> QED BY <1>0, <2>1, <3>1, <4>1, Cons DEF items
    <3>2. CASE cpc # "clear"
      BY <2>1, <3>2 DEF items
    <3> QED BY <3>1, <3>2
  <2>3. pending' = pending \cup {r_elt[p]}
    BY <1>0, <1>3 DEF EnqueueSwap, TypeOK, pending
  <2>4. \A i \in DOMAIN items : items[i] # r_elt[p]
    <3>1. \A i \in 1..Len(q) : q[i] # r_elt[p]
      BY <1>0, <1>3 DEF EnqueueSwap, Ownership
    <3>2. CASE cpc # "clear"
      BY <1>0, <3>1, <3>2, LenProperties DEF items
    <3>3. CASE cpc = "clear"
      <4>1. r_e \in Elements /\ r_e # r_elt[p]
        BY <1>0, <1>3, <3>3 DEF Ownership, EnqueueSwap
      <4>2. /\ <<r_e>> \in Seq(Elements) /\ Len(<<r_e>>) = 1
            /\ <<r_e>>[1] = r_e
        BY <4>1
      <4>3. /\ Len(<<r_e>> \o q) = 1 + Len(q)
            /\ DOMAIN (<<r_e>> \o q) = 1..1 + Len(q)
            /\ \A i \in 1..1 + Len(q) :
                 (<<r_e>> \o q)[i] = IF i <= 1 THEN <<r_e>>[i] ELSE q[i-1]
        BY <1>0, <4>2, ConcatProperties, LenProperties
      <4> QED BY <1>q, <3>1, <3>3, <4>1, <4>2, <4>3 DEF items
    <3> QED BY <3>2, <3>3
  <2> QED BY <2>1, <2>2, <2>3, <2>4 DEF Fifo!Enqueue
<1>4. ASSUME NEW p \in Producers, EnqueueSetHead(p) \/ EnqueueSetNext(p)
      PROVE Fifo!Complete(r_elt[p])
  <2>1. /\ ppc[p] = "link" /\ EnqueueReturn(p)
        /\ UNCHANGED <<q, cpc, r_e, reply>>
    BY <1>4 DEF EnqueueSetHead, EnqueueSetNext
  <2>2. r_elt[p] \in pending
    BY <2>1 DEF pending
  <2>3. pending' = pending \ {r_elt[p]}
    BY <1>0, <2>1 DEF EnqueueReturn, TypeOK, Ownership, pending
  <2> QED BY <2>1, <2>2, <2>3 DEF Fifo!Complete, items
<1>5. CASE IsEmptyShadow
  <2>1. front # Null /\ cpc # "clear"
    BY <1>5 DEF IsEmptyShadow, front
  <2>2. ~Fifo!Blocked
    BY <2>1, NotBlocked
  <2> QED BY <1>5, <2>2
          DEF IsEmptyShadow, Answer, items, pending, Fifo!IsEmpty, Fifo!Next
<1>6. CASE IsEmptyLoadHead
  <2>1. CASE head = Null
    <3>1. front = Null /\ items = q
      BY <1>6 DEF IsEmptyLoadHead, front, items
    <3>2. ASSUME q # <<>> PROVE Head(q) \in pending
      <4>1. PICK p \in Producers : OwesHead(p)
        BY <1>0, <1>q, <2>1, <3>1, <3>2, NullAssumption DEF Front
      <4>2. q[1] \in pending
        BY <1>0, <4>1 DEF Owed, OwesHead, pending
      <4> QED BY <4>2
    <3>3. Fifo!Blocked
      BY <3>1, <3>2 DEF Fifo!Blocked
    <3> QED BY <1>6, <2>1, <3>3
            DEF IsEmptyLoadHead, Answer, items, pending, Fifo!IsEmpty, Fifo!Next
  <2>2. CASE head # Null
    BY <1>6, <2>2 DEF IsEmptyLoadHead, items, pending
  <2> QED BY <2>1, <2>2
<1>7. CASE IsEmptyCopyHead
  BY <1>7 DEF IsEmptyCopyHead, items, pending
<1>8. CASE IsEmptyResetHead
  <2>1. front # Null /\ cpc # "clear"
    BY <1>0, <1>8 DEF IsEmptyResetHead, Front
  <2>2. ~Fifo!Blocked
    BY <2>1, NotBlocked
  <2> QED BY <1>8, <2>2
          DEF IsEmptyResetHead, Answer, items, pending, Fifo!IsEmpty, Fifo!Next
<1>9. CASE PeekHead
  <2>1. CASE reply.op = "empty"
    <3>1. shadow_head = Null
      BY <1>0, <1>9, <2>1 DEF PeekHead, Replied
    <3> QED BY <1>9, <2>1, <3>1
            DEF PeekHead, Answer, items, pending, Fifo!Peek, Fifo!Next
  <2>2. CASE reply.op = "nonempty"
    <3>1. front = shadow_head /\ front # Null /\ cpc # "clear"
      BY <1>0, <1>9, <2>2 DEF PeekHead, Replied, MayDequeue, front
    <3>2. ~Fifo!Blocked /\ Head(items) = shadow_head
      BY <3>1, NotBlocked
    <3> QED BY <1>9, <2>2, <3>2
            DEF PeekHead, Answer, items, pending, Fifo!Peek, Fifo!Next
  <2> QED BY <1>9, <2>1, <2>2 DEF PeekHead
<1>10. CASE DequeueCall
  BY <1>10 DEF DequeueCall, items, pending
<1>11. CASE DequeueAdvance
  <2>1. q # <<>> /\ r_e = q[1]
    BY <1>0, <1>11 DEF DequeueAdvance, Front, front
  <2>2. items' = items
    BY <1>0, <1>11, <2>1, ConsTail DEF DequeueAdvance, items
  <2> QED BY <1>11, <2>2 DEF DequeueAdvance, pending
<1>12. CASE DequeueCas
  <2>1. q # <<>> /\ r_e = q[1]
    BY <1>0, <1>12 DEF DequeueCas, Front, front
  <2>2. items' = items
    BY <1>0, <1>12, <2>1, ConsTail DEF DequeueCas, items
  <2> QED BY <1>12, <2>2 DEF DequeueCas, pending
<1>13. CASE DequeueWait
  BY <1>13 DEF DequeueWait, items, pending
<1>14. CASE DequeueClear
  <2>1. r_e \in Elements /\ r_e \notin pending
    BY <1>0, <1>14 DEF DequeueClear, Ownership, pending
  <2>2. /\ items = <<r_e>> \o q /\ items # <<>>
        /\ Head(items) = r_e /\ Tail(items) = q
    BY <1>0, <1>14, <2>1, Cons DEF DequeueClear, items
  <2>3. ~Fifo!Blocked
    BY <2>1, <2>2 DEF Fifo!Blocked
  <2>4. items' = q /\ pending' = pending /\ reply' = [op |-> "dequeue", elt |-> r_e]
    BY <1>14 DEF DequeueClear, Answer, items, pending
  <2> QED BY <2>2, <2>3, <2>4 DEF Fifo!Dequeue, Fifo!Next
<1>15. CASE UNCHANGED vars
  BY <1>15 DEF vars, items, pending
<1>16. ASSUME NEW p \in Producers, EnqueueStep(p) PROVE Fifo!Next
  <2>1. r_elt[p] \in Elements
    BY <1>0, <1>16
       DEF EnqueueStep, EnqueueSwap, EnqueueSetHead, EnqueueSetNext, Ownership
  <2> QED BY <1>3, <1>4, <1>16, <2>1 DEF EnqueueStep, Fifo!Next
<1> QED
  BY <1>1, <1>2, <1>5, <1>6, <1>7, <1>8, <1>9, <1>10, <1>11, <1>12, <1>13,
     <1>14, <1>15, <1>16
     DEF Next, Consumer, IsEmptyCall, ConsumerStep

(* The queue implements the FIFO: nothing is lost, duplicated or reordered *)
(* for any number of producers and elements.                               *)
THEOREM QueueImplementsFifo == Spec => ImplementsFifo
<1>1. Init => Fifo!Init
  BY DEF Init, Fifo!Init, items, pending
<1>2. IInv /\ [Next]_vars => [Fifo!Next]_(Fifo!vars)
  BY StepImplementsFifo
<1> QED BY <1>1, <1>2, Structure, PTL DEF Spec, ImplementsFifo, Fifo!Spec

-----------------------------------------------------------------------------
(* The queue over a compare-and-swap loop is the queue over a swap         *)
(* instruction.                                                            *)

(* Where a producer is: all that the refinement needs to know.             *)
PCs == [Producers -> {"idle", "swap", "swap_cas", "link"}]

LEMMA PcInit == CasInit => ppc \in PCs
  BY DEF CasInit, Init, PCs

LEMMA ConsumerKeepsPc == Consumer => ppc' = ppc
  BY DEF Consumer, IsEmptyCall, IsEmptyShadow, IsEmptyLoadHead, PeekHead, DequeueCall,
         ConsumerStep, IsEmptyCopyHead, IsEmptyResetHead, DequeueAdvance, DequeueCas,
         DequeueWait, DequeueClear, producerVars

LEMMA PcStep == ppc \in PCs /\ [CasNext]_casVars => (ppc \in PCs)'
  <1> SUFFICES ASSUME ppc \in PCs, [CasNext]_casVars PROVE ppc' \in PCs
    OBVIOUS
  <1> USE DEF PCs
  <1>1. ASSUME NEW e \in Elements, HeaderInit(e) PROVE ppc' \in PCs
    BY <1>1 DEF HeaderInit, producerVars
  <1>2. ASSUME NEW p \in Producers, NEW e \in Elements, EnqueueCall(p, e) PROVE ppc' \in PCs
    BY <1>2 DEF EnqueueCall
  <1>3. ASSUME NEW p \in Producers, SwapStep(p) PROVE ppc' \in PCs
    BY <1>3 DEF SwapStep, SwapLoad, SwapCasSucceed, SwapCasRetry, vars, producerVars
  <1>4. ASSUME NEW p \in Producers, LinkStep(p) PROVE ppc' \in PCs
    BY <1>4 DEF LinkStep, EnqueueSetHead, EnqueueSetNext, EnqueueReturn
  <1>5. CASE Consumer
    BY <1>5, ConsumerKeepsPc
  <1>6. CASE UNCHANGED casVars
    BY <1>6 DEF casVars, vars, producerVars
  <1> QED  BY <1>1, <1>2, <1>3, <1>4, <1>5, <1>6 DEF CasNext

-----------------------------------------------------------------------------
(* The mapping.                                                            *)

LEMMA SwappingStep ==
  ASSUME ppc \in PCs, NEW p \in Producers, NEW s \in {"idle", "swap", "swap_cas", "link"},
         ppc' = [ppc EXCEPT ![p] = s]
  PROVE  swapping' = [swapping EXCEPT ![p] = IF s = "swap_cas" THEN "swap" ELSE s]
  BY DEF swapping, PCs

LEMMA SwappingStays == ppc' = ppc => swapping' = swapping
  BY DEF swapping

(* What does not look at ppc is the same action in both.                   *)
LEMMA ConsumerSame == Consumer => Swap!Consumer
  <1> SUFFICES ASSUME Consumer PROVE Swap!Consumer
    OBVIOUS
  <1>1. swapping' = swapping
    BY ConsumerKeepsPc, SwappingStays
  <1> USE <1>1 DEF producerVars, Swap!producerVars, Answer, Swap!Answer,
                   MayDequeue, Swap!MayDequeue
  <1>2. CASE IsEmptyCall
    <2>1. CASE IsEmptyShadow
      BY <2>1 DEF IsEmptyShadow, Swap!IsEmptyShadow, Swap!IsEmptyCall, Swap!Consumer
    <2>2. CASE IsEmptyLoadHead
      BY <2>2 DEF IsEmptyLoadHead, Swap!IsEmptyLoadHead, Swap!IsEmptyCall, Swap!Consumer
    <2> QED  BY <1>2, <2>1, <2>2 DEF IsEmptyCall
  <1>3. CASE PeekHead
    BY <1>3 DEF PeekHead, Swap!PeekHead, Swap!Consumer
  <1>4. CASE DequeueCall
    BY <1>4 DEF DequeueCall, Swap!DequeueCall, Swap!Consumer
  <1>5. CASE ConsumerStep
    <2>1. CASE IsEmptyCopyHead
      BY <2>1 DEF IsEmptyCopyHead, Swap!IsEmptyCopyHead, Swap!ConsumerStep, Swap!Consumer
    <2>2. CASE IsEmptyResetHead
      BY <2>2 DEF IsEmptyResetHead, Swap!IsEmptyResetHead, Swap!ConsumerStep, Swap!Consumer
    <2>3. CASE DequeueAdvance
      BY <2>3 DEF DequeueAdvance, Swap!DequeueAdvance, Swap!ConsumerStep, Swap!Consumer
    <2>4. CASE DequeueCas
      BY <2>4 DEF DequeueCas, Swap!DequeueCas, Swap!ConsumerStep, Swap!Consumer
    <2>5. CASE DequeueWait
      BY <2>5 DEF DequeueWait, Swap!DequeueWait, Swap!ConsumerStep, Swap!Consumer
    <2>6. CASE DequeueClear
      BY <2>6 DEF DequeueClear, Swap!DequeueClear, Swap!ConsumerStep, Swap!Consumer
    <2> QED  BY <1>5, <2>1, <2>2, <2>3, <2>4, <2>5, <2>6 DEF ConsumerStep
  <1> QED  BY <1>2, <1>3, <1>4, <1>5 DEF Consumer

LEMMA StepImplementsQueue ==
  ppc \in PCs /\ [CasNext]_casVars => [Swap!Next]_(Swap!vars)
  <1> SUFFICES ASSUME ppc \in PCs, [CasNext]_casVars PROVE [Swap!Next]_(Swap!vars)
    OBVIOUS
  <1> USE DEF consumerVars, Swap!consumerVars
  <1>1. ASSUME NEW e \in Elements, HeaderInit(e) PROVE Swap!Next
    <2>1. swapping' = swapping
      BY <1>1, SwappingStays DEF HeaderInit, producerVars
    <2>2. Swap!HeaderInit(e)
      BY <1>1, <2>1 DEF HeaderInit, Swap!HeaderInit, producerVars, Swap!producerVars
    <2> QED  BY <2>2 DEF Swap!Next
  <1>2. ASSUME NEW p \in Producers, NEW e \in Elements, EnqueueCall(p, e) PROVE Swap!Next
    <2>1. swapping[p] = "idle" /\ swapping' = [swapping EXCEPT ![p] = "swap"]
      BY <1>2, SwappingStep DEF EnqueueCall, swapping
    <2>2. Swap!EnqueueCall(p, e)
      BY <1>2, <2>1 DEF EnqueueCall, Swap!EnqueueCall
    <2> QED  BY <2>2 DEF Swap!Next
  <1>3. ASSUME NEW p \in Producers, SwapLoad(p) PROVE UNCHANGED Swap!vars
    <2>1. swapping[p] = "swap" /\ swapping' = [swapping EXCEPT ![p] = "swap"]
      BY <1>3, SwappingStep DEF SwapLoad, swapping
    <2>2. swapping' = swapping
      BY <2>1 DEF swapping
    <2> QED  BY <1>3, <2>2 DEF SwapLoad, Swap!vars, Swap!producerVars
  <1>4. ASSUME NEW p \in Producers, SwapCasSucceed(p) PROVE Swap!Next
    <2>1. swapping[p] = "swap" /\ swapping' = [swapping EXCEPT ![p] = "link"]
      BY <1>4, SwappingStep DEF SwapCasSucceed, swapping
    <2>2. Swap!EnqueueSwap(p)
      BY <1>4, <2>1 DEF SwapCasSucceed, Swap!EnqueueSwap
    <2> QED  BY <2>2 DEF Swap!Next, Swap!EnqueueStep
  <1>5. ASSUME NEW p \in Producers, SwapCasRetry(p) PROVE UNCHANGED Swap!vars
    BY <1>5, SwappingStays DEF SwapCasRetry, vars, producerVars, Swap!vars, Swap!producerVars
  <1>6. ASSUME NEW p \in Producers, LinkStep(p) PROVE Swap!Next
    <2>1. swapping[p] = "link" /\ swapping' = [swapping EXCEPT ![p] = "idle"]
      BY <1>6, SwappingStep DEF LinkStep, EnqueueSetHead, EnqueueSetNext, EnqueueReturn, swapping
    <2>2. CASE EnqueueSetHead(p)
      BY <2>1, <2>2 DEF EnqueueSetHead, EnqueueReturn, Swap!EnqueueSetHead, Swap!EnqueueReturn,
                        Swap!EnqueueStep, Swap!Next
    <2>3. CASE EnqueueSetNext(p)
      BY <2>1, <2>3 DEF EnqueueSetNext, EnqueueReturn, Swap!EnqueueSetNext, Swap!EnqueueReturn,
                        Swap!EnqueueStep, Swap!Next
    <2> QED  BY <1>6, <2>2, <2>3 DEF LinkStep
  <1>7. CASE Consumer
    BY <1>7, ConsumerSame DEF Swap!Next
  <1>8. CASE UNCHANGED casVars
    BY <1>8, SwappingStays DEF casVars, vars, producerVars, Swap!vars, Swap!producerVars
  <1> QED  BY <1>1, <1>2, <1>3, <1>4, <1>5, <1>6, <1>7, <1>8 DEF CasNext, SwapStep

(* OPA_Queue_enqueue over OPA_swap_ptr_by_cas is OPA_Queue_enqueue over a  *)
(* swap instruction, for any number of producers and elements: whatever is *)
(* proved of OPA_Queue holds of it too.                                    *)
THEOREM CASQueueImplementsQueue == CasSpec => ImplementsQueue
  <1>1. CasInit => Swap!Init
    BY DEF CasInit, Init, Swap!Init, Swap!Addr, Addr, swapping
  <1>2. ppc \in PCs /\ [CasNext]_casVars => [Swap!Next]_(Swap!vars)
    BY StepImplementsQueue
  <1> QED  BY <1>1, <1>2, PcInit, PcStep, PTL DEF CasSpec, ImplementsQueue, Swap!Spec
=============================================================================
