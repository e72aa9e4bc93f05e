--------------------------- MODULE RelaxedProofs ---------------------------
(***************************************************************************)
(* Proofs about OPA_QueueRelaxed, for any sets of producers and elements   *)
(* and for both orders in which stores reach memory.                       *)
(***************************************************************************)
EXTENDS OPA_QueueRelaxed, SequenceTheorems, TLAPS

-----------------------------------------------------------------------------
(* Locations and writes.                                                   *)

(* The fields of the queue and of its elements are different locations.    *)
LEMMA Places ==
    /\ head \in Links /\ head \in Locations /\ tail \in Locations
    /\ head # tail /\ tail \notin Links
    /\ \A l \in Links : l \in Locations
    /\ \A e \in Elements :
          /\ next(e) \in Links /\ next(e) \in Locations /\ data(e) \in Locations
          /\ next(e) \notin {head, tail} /\ data(e) \notin Links \cup {tail}
    /\ \A e, f \in Elements : /\ next(e) = next(f) => e = f
                              /\ data(e) = data(f) => e = f
                              /\ data(e) # next(f)
    /\ \A l \in Links : l = head \/ \E e \in Elements : l = next(e)
<1>1. "head" # "tail" /\ "head" # "next" /\ "head" # "data"
      /\ "tail" # "next" /\ "tail" # "data" /\ "next" # "data"
  OBVIOUS
<1> QED BY <1>1 DEF Links, Locations, head, tail, next, data

LEMMA Writes ==
    /\ \A l, x : Write(l, x).loc = l /\ Write(l, x).val = x
    /\ \A l, x, m, y : Write(l, x) = Write(m, y) <=> l = m /\ x = y
    /\ \A l \in Locations, x \in Addr :
          Write(l, x) \in [loc : Locations, val : Addr]
    /\ \A w \in [loc : Locations, val : Addr] :
          w = Write(w.loc, w.val) /\ w.loc \in Locations /\ w.val \in Addr
<1> QED BY DEF Write

-----------------------------------------------------------------------------
(* Buffers: what is in them, and that no two stores are to one location.   *)
Contents(s) == {s[i] : i \in DOMAIN s}

Distinct(s) == \A i, j \in 1..Len(s) : s[i].loc = s[j].loc => i = j

(* What is left of a sequence without its i-th entry, entry by entry.      *)
LEMMA Without ==
    ASSUME NEW S, NEW s \in Seq(S), NEW i \in 1..Len(s)
    PROVE  LET u == SubSeq(s, 1, i-1) \o SubSeq(s, i+1, Len(s))
           IN  /\ u \in Seq(S) /\ Len(u) = Len(s) - 1
               /\ \A j \in 1..Len(s)-1 : u[j] = IF j < i THEN s[j] ELSE s[j+1]
<1>1. /\ Len(s) \in Nat /\ \A j \in 1..Len(s) : s[j] \in S
  BY LenProperties, ElementOfSeq
<1>2. PICK a : a = SubSeq(s, 1, i-1)
  OBVIOUS
<1>3. PICK b : b = SubSeq(s, i+1, Len(s))
  OBVIOUS
<1>4. /\ 1 \in Int /\ i-1 \in Int /\ (\A j \in 1..i-1 : s[j] \in S)
      /\ i+1 \in Int /\ Len(s) \in Int /\ (\A j \in i+1..Len(s) : s[j] \in S)
  BY <1>1
<1>5. /\ a \in Seq(S) /\ Len(a) = (IF 1 <= i-1 THEN (i-1)-1+1 ELSE 0)
      /\ \A j \in 1..(i-1)-1+1 : a[j] = s[1+j-1]
  BY <1>2, <1>4, SubSeqProperties
<1>6. /\ b \in Seq(S)
      /\ Len(b) = (IF i+1 <= Len(s) THEN Len(s)-(i+1)+1 ELSE 0)
      /\ \A j \in 1..Len(s)-(i+1)+1 : b[j] = s[(i+1)+j-1]
  BY <1>3, <1>4, SubSeqProperties
<1>7. Len(a) = i-1 /\ \A j \in 1..i-1 : a[j] = s[j]
  <2>1. (i-1)-1+1 = i-1 /\ \A j \in 1..i-1 : 1+j-1 = j
    BY <1>1
  <2> QED BY <1>1, <1>5, <2>1
<1>8. Len(b) = Len(s)-i /\ \A j \in 1..Len(s)-i : b[j] = s[i+j]
  <2>1. Len(s)-(i+1)+1 = Len(s)-i /\ \A j \in 1..Len(s)-i : (i+1)+j-1 = i+j
    BY <1>1
  <2>2. Len(b) = Len(s)-i
    BY <1>1, <1>6
  <2> QED BY <1>6, <2>1, <2>2
<1>9. /\ a \o b \in Seq(S) /\ Len(a \o b) = Len(a) + Len(b)
      /\ \A j \in 1..Len(a) + Len(b) :
           (a \o b)[j] = IF j <= Len(a) THEN a[j] ELSE b[j - Len(a)]
  BY <1>5, <1>6, ConcatProperties
<1>10. Len(a) + Len(b) = Len(s) - 1
  BY <1>1, <1>7, <1>8
<1>11. ASSUME NEW j \in 1..Len(s)-1, j < i PROVE (a \o b)[j] = s[j]
  <2>1. j \in 1..i-1 /\ j <= Len(a)
    BY <1>1, <1>7, <1>11
  <2> QED BY <1>7, <1>9, <1>10, <2>1
<1>12. ASSUME NEW j \in 1..Len(s)-1, ~(j < i) PROVE (a \o b)[j] = s[j+1]
  <2>1. j - Len(a) \in 1..Len(s)-i /\ i + (j - Len(a)) = j+1 /\ ~(j <= Len(a))
    BY <1>1, <1>7, <1>12
  <2>2. (a \o b)[j] = b[j - Len(a)]
    BY <1>9, <1>10, <2>1
  <2>3. b[j - Len(a)] = s[i + (j - Len(a))]
    BY <1>8, <2>1
  <2> QED BY <2>1, <2>2, <2>3
<1> QED BY <1>2, <1>3, <1>9, <1>10, <1>11, <1>12

(* A store leaves a buffer.                                                *)
LEMMA Remove ==
    ASSUME NEW S, NEW s \in Seq(S), NEW i \in DOMAIN s, Distinct(s)
    PROVE  LET u == SubSeq(s, 1, i-1) \o SubSeq(s, i+1, Len(s))
           IN  /\ u \in Seq(S) /\ Distinct(u)
               /\ Len(s) \in Nat /\ Len(s) > 0 /\ Len(u) = Len(s) - 1
               /\ s[i] \in Contents(s) /\ Contents(u) = Contents(s) \ {s[i]}
<1>1. Len(s) \in Nat /\ i \in 1..Len(s) /\ Len(s) > 0 /\ s[i] \in Contents(s)
  BY LenProperties DEF Contents
<1>2. PICK u : u = SubSeq(s, 1, i-1) \o SubSeq(s, i+1, Len(s))
  OBVIOUS
<1>3. /\ u \in Seq(S) /\ Len(u) = Len(s) - 1
      /\ \A j \in 1..Len(s)-1 : u[j] = IF j < i THEN s[j] ELSE s[j+1]
  BY <1>1, <1>2, Without
<1>4. /\ Len(s) \in Nat /\ i \in 1..Len(s)
      /\ DOMAIN s = 1..Len(s) /\ DOMAIN u = 1..Len(s)-1
  BY <1>1, <1>3, LenProperties
<1> DEFINE m(j) == IF j < i THEN j ELSE j+1
<1>5. \A j \in 1..Len(s)-1 : m(j) \in 1..Len(s) /\ m(j) # i /\ u[j] = s[m(j)]
  BY <1>3, <1>4
<1>6. \A j, k \in 1..Len(s)-1 : m(j) = m(k) => j = k
  BY <1>4
<1>7. \A n \in 1..Len(s) : n # i => \E j \in 1..Len(s)-1 : m(j) = n
  <2> SUFFICES ASSUME NEW n \in 1..Len(s), n # i
               PROVE  \E j \in 1..Len(s)-1 : m(j) = n
    OBVIOUS
  <2>1. CASE n < i
    <3>1. n \in 1..Len(s)-1 /\ m(n) = n
      BY <1>4, <2>1
    <3> QED BY <3>1
  <2>2. CASE n > i
    <3>1. n-1 \in 1..Len(s)-1 /\ m(n-1) = n
      BY <1>4, <2>2
    <3> QED BY <3>1
  <2> QED BY <1>4, <2>1, <2>2
<1> HIDE DEF m
<1>8. Distinct(u)
  BY <1>3, <1>5, <1>6 DEF Distinct
<1>9. ASSUME NEW x \in Contents(u) PROVE x \in Contents(s) \ {s[i]}
  <2>1. PICK j \in 1..Len(s)-1 : x = u[j]
    BY <1>4, <1>9 DEF Contents
  <2>2. x = s[m(j)] /\ m(j) \in 1..Len(s) /\ m(j) # i
    BY <1>5, <2>1
  <2>3. x # s[i]
    BY <2>2 DEF Distinct
  <2> QED BY <1>4, <2>2, <2>3 DEF Contents
<1>10. ASSUME NEW x \in Contents(s), x # s[i] PROVE x \in Contents(u)
  <2>1. PICK n \in 1..Len(s) : x = s[n]
    BY <1>4, <1>10 DEF Contents
  <2>2. PICK j \in 1..Len(s)-1 : m(j) = n
    BY <1>7, <1>10, <2>1
  <2>3. x = u[j]
    BY <1>5, <2>1, <2>2
  <2> QED BY <1>4, <2>3 DEF Contents
<1>11. Contents(u) = Contents(s) \ {s[i]}
  BY <1>9, <1>10
<1> QED BY <1>1, <1>2, <1>3, <1>8, <1>11

(* A store to a location that is not on its way yet enters a buffer.       *)
LEMMA Add ==
    ASSUME NEW S, NEW s \in Seq(S), NEW w \in S, Distinct(s),
           \A x \in Contents(s) : x.loc # w.loc
    PROVE  /\ s \o <<w>> \in Seq(S) /\ Distinct(s \o <<w>>)
           /\ Len(s) \in Nat /\ Len(s \o <<w>>) = Len(s) + 1
           /\ Contents(s \o <<w>>) = Contents(s) \cup {w}
<1>1. Len(s) \in Nat /\ DOMAIN s = 1..Len(s)
  BY LenProperties
<1>2. PICK u : u = Append(s, w) /\ u = s \o <<w>>
  BY AppendIsConcat
<1>3. /\ u \in Seq(S) /\ Len(u) = Len(s) + 1
      /\ \A i \in 1..Len(s) : u[i] = s[i]
      /\ u[Len(s) + 1] = w
  BY <1>2, AppendProperties
<1>4. DOMAIN u = 1..Len(s) + 1
  BY <1>3, LenProperties
<1>5. \A i \in 1..Len(s) : s[i].loc # w.loc
  BY <1>1 DEF Contents
<1>6. /\ \A i \in 1..Len(s) + 1 : i \in 1..Len(s) \/ i = Len(s) + 1
      /\ \A i \in 1..Len(s) : i \in 1..Len(s) + 1
      /\ Len(s) + 1 \in 1..Len(s) + 1
  BY <1>1
<1>7. Distinct(u)
  BY <1>3, <1>5, <1>6 DEF Distinct
<1>8. Contents(u) = Contents(s) \cup {w}
  BY <1>1, <1>3, <1>4, <1>6 DEF Contents
<1> QED BY <1>1, <1>2, <1>3, <1>7, <1>8

LEMMA Empty ==
    /\ Contents(<<>>) = {} /\ Distinct(<<>>) /\ Len(<<>>) = 0
    /\ \A S : \A s \in Seq(S) :
          /\ Len(s) \in Nat
          /\ (s = <<>>) <=> (Len(s) = 0)
          /\ (s = <<>>) <=> (Contents(s) = {})
<1>1. DOMAIN <<>> = {} /\ Len(<<>>) = 0
  OBVIOUS
<1>2. ASSUME NEW S, NEW s \in Seq(S)
      PROVE  /\ Len(s) \in Nat /\ DOMAIN s = 1..Len(s)
             /\ (s = <<>>) <=> (Len(s) = 0)
  BY EmptySeq, LenProperties
<1>3. ASSUME NEW S, NEW s \in Seq(S), Contents(s) = {} PROVE s = <<>>
  <2>1. 1 \notin DOMAIN s
    BY <1>3 DEF Contents
  <2> QED BY <1>2, <2>1
<1> QED BY <1>1, <1>2, <1>3 DEF Contents, Distinct

-----------------------------------------------------------------------------
(* The stores of a thread, as the invariant describes them.                *)
Stored == [loc : Locations, val : Addr]

LEMMA Buffered ==
    ASSUME TypeOK, Buffers, NEW t \in Threads
    PROVE  /\ buf[t] \in Seq(Stored) /\ Distinct(buf[t])
           /\ InFlight(t) = Contents(buf[t]) /\ Len(buf[t]) \in Nat
           /\ (buf[t] = <<>>) <=> (InFlight(t) = {})
           /\ (buf[t] = <<>>) <=> (Len(buf[t]) = 0)
           /\ \A w \in InFlight(t) : w \in Stored /\ w = Write(w.loc, w.val)
           /\ \A v, w \in InFlight(t) : v.loc = w.loc => v = w
           /\ \A l : (Stores(t, l) = {}) <=> (\A w \in InFlight(t) : w.loc # l)
<1>1. buf[t] \in Seq(Stored) /\ Distinct(buf[t])
  BY DEF TypeOK, Buffers, Distinct, Stored
<1>2. /\ Len(buf[t]) \in Nat /\ DOMAIN buf[t] = 1..Len(buf[t])
      /\ \A i \in 1..Len(buf[t]) : buf[t][i] \in Stored
  BY <1>1, LenProperties, ElementOfSeq
<1>3. InFlight(t) = Contents(buf[t])
  BY DEF InFlight, Contents
<1>4. \A w \in InFlight(t) : w \in Stored /\ w = Write(w.loc, w.val)
  <2>1. \A w \in InFlight(t) : w \in Stored
    BY <1>2 DEF InFlight
  <2> QED BY <2>1, Writes DEF Stored
<1>5. \A v, w \in InFlight(t) : v.loc = w.loc => v = w
  BY <1>1, <1>2 DEF InFlight, Distinct
<1>6. \A l : (Stores(t, l) = {}) <=> (\A w \in InFlight(t) : w.loc # l)
  BY DEF Stores, InFlight
<1> QED BY <1>1, <1>2, <1>3, <1>4, <1>5, <1>6, Empty

(* The consumer reads through its own stores: head is NULL for it while    *)
(* its reset is in flight, and the link of an element in the queue or in   *)
(* the consumer's hands is what memory holds.                              *)
LEMMA Loads ==
    ASSUME TypeOK, Buffers
    PROVE  /\ Load(Consumer, head) = IF Resetting THEN Null ELSE mem[head]
           /\ \A e \in Elements \ pool : Load(Consumer, next(e)) = mem[next(e)]
<1>0. Consumer \in Threads
  BY DEF Threads
<1>1. ASSUME NEW w \in InFlight(Consumer)
      PROVE  /\ w = Write(head, Null) \/ \E e \in pool : w = Write(next(e), Null)
             /\ w.val = Null /\ w.loc # head => \E e \in pool : w.loc = next(e)
  BY Writes DEF Buffers
<1>2. ASSUME Resetting PROVE Load(Consumer, head) = Null
  <2>1. PICK i \in DOMAIN buf[Consumer] : buf[Consumer][i] = Write(head, Null)
    BY <1>2 DEF Resetting, InFlight
  <2>2. DOMAIN buf[Consumer] = 1..Len(buf[Consumer]) /\ Len(buf[Consumer]) \in Nat
    BY <1>0, Buffered, LenProperties
  <2>3. Stores(Consumer, head) = {i}
    <3>1. i \in Stores(Consumer, head)
      BY <2>1, Writes DEF Stores
    <3>2. \A j \in Stores(Consumer, head) : j = i
      BY <1>0, <2>1, <2>2, Writes DEF Buffers, Stores
    <3> QED BY <3>1, <3>2
  <2> DEFINE last == CHOOSE k \in Stores(Consumer, head) :
                        \A j \in Stores(Consumer, head) : j <= k
  <2>4. last = i
    BY <2>2, <2>3
  <2>5. Load(Consumer, head) = buf[Consumer][last].val
    BY <2>3 DEF Load
  <2> HIDE DEF last
  <2> QED BY <2>1, <2>4, <2>5, Writes
<1>3. ASSUME ~Resetting PROVE Stores(Consumer, head) = {}
  <2>1. \A w \in InFlight(Consumer) : w.loc # head
    BY <1>1, <1>3, Places, Writes DEF Resetting, TypeOK
  <2> QED BY <1>0, <2>1, Buffered
<1>4. ASSUME NEW e \in Elements \ pool PROVE Stores(Consumer, next(e)) = {}
  <2>1. \A w \in InFlight(Consumer) : w.loc # next(e)
    BY <1>1, Places, Writes DEF TypeOK
  <2> QED BY <1>0, <2>1, Buffered
<1> QED BY <1>2, <1>3, <1>4 DEF Load

-----------------------------------------------------------------------------
(* What each kind of step does to the stores in flight.                    *)

SameDebts == \A p \in Producers, l \in Links, e \in Elements :
                Owes(p, l, e)' <=> Owes(p, l, e)

OthersKeep(t) == \A u \in Threads \ {t} : buf'[u] = buf[u]

Flushes(t, w) ==
    /\ w \in InFlight(t)
    /\ mem' = [mem EXCEPT ![w.loc] = w.val]
    /\ InFlight(t)' = InFlight(t) \ {w}
    /\ Len(buf[t]) > 0 /\ Len(buf'[t]) = Len(buf[t]) - 1
    /\ Distinct(buf'[t])
    /\ buf' \in [Threads -> Seq(Stored)]
    /\ OthersKeep(t)
    /\ UNCHANGED <<pool, q, producerVars, consumerVars>>

LEMMA FlushEffect ==
    ASSUME TypeOK, Buffers, NEW t \in Threads, FlushSome(t)
    PROVE  \E w \in InFlight(t) : Flushes(t, w)
<1>1. PICK i \in DOMAIN buf[t] : Flush(t, i)
  BY DEF FlushSome
<1>2. /\ mem' = [mem EXCEPT ![buf[t][i].loc] = buf[t][i].val]
      /\ buf' = [buf EXCEPT ![t] = SubSeq(@, 1, i-1) \o SubSeq(@, i+1, Len(@))]
      /\ UNCHANGED <<pool, q, producerVars, consumerVars>>
  BY <1>1 DEF Flush
<1>3. buf \in [Threads -> Seq(Stored)]
  BY DEF TypeOK, Stored
<1>4. PICK u : u = SubSeq(buf[t], 1, i-1) \o SubSeq(buf[t], i+1, Len(buf[t]))
  OBVIOUS
<1>5. /\ u \in Seq(Stored) /\ Distinct(u)
      /\ Len(buf[t]) > 0 /\ Len(u) = Len(buf[t]) - 1
      /\ buf[t][i] \in Contents(buf[t])
      /\ Contents(u) = Contents(buf[t]) \ {buf[t][i]}
  BY <1>4, Buffered, Remove
<1>6. buf' = [buf EXCEPT ![t] = u]
  BY <1>2, <1>4
<1>7. buf'[t] = u /\ OthersKeep(t) /\ buf' \in [Threads -> Seq(Stored)]
  BY <1>3, <1>5, <1>6 DEF OthersKeep
<1>8. InFlight(t)' = Contents(u) /\ InFlight(t) = Contents(buf[t])
  BY <1>7 DEF InFlight, Contents
<1> QED BY <1>2, <1>5, <1>7, <1>8 DEF Flushes

(* A step that adds w to the stores of t.                                  *)
Adds(t, w) ==
    /\ InFlight(t)' = InFlight(t) \cup {w}
    /\ Len(buf'[t]) = Len(buf[t]) + 1
    /\ Distinct(buf'[t])
    /\ buf' \in [Threads -> Seq(Stored)]
    /\ OthersKeep(t)

LEMMA StoreEffect ==
    ASSUME TypeOK, Buffers, NEW t \in Threads, NEW w \in Stored,
           \A x \in InFlight(t) : x.loc # w.loc, Store(t, <<w>>)
    PROVE  Adds(t, w)
<1>1. /\ buf \in [Threads -> Seq(Stored)]
      /\ buf' = [buf EXCEPT ![t] = buf[t] \o <<w>>]
  BY DEF TypeOK, Stored, Store
<1>2. /\ buf[t] \in Seq(Stored) /\ Distinct(buf[t])
      /\ InFlight(t) = Contents(buf[t])
  BY Buffered
<1>3. PICK u : u = buf[t] \o <<w>>
  OBVIOUS
<1>4. /\ u \in Seq(Stored) /\ Distinct(u) /\ Len(u) = Len(buf[t]) + 1
      /\ Contents(u) = Contents(buf[t]) \cup {w}
  BY <1>2, <1>3, Add
<1>5. buf'[t] = u /\ OthersKeep(t) /\ buf' \in [Threads -> Seq(Stored)]
  BY <1>1, <1>3, <1>4 DEF OthersKeep
<1>6. InFlight(t)' = Contents(u)
  BY <1>5 DEF InFlight, Contents
<1> QED BY <1>2, <1>4, <1>5, <1>6 DEF Adds

LEMMA Pair ==
    ASSUME NEW S, NEW v \in S, NEW w \in S
    PROVE  <<v>> \in Seq(S) /\ <<w>> \in Seq(S) /\ <<v>> \o <<w>> = <<v, w>>
<1>1. <<v>> \in Seq(S) /\ <<w>> \in Seq(S) /\ <<v, w>> \in Seq(S)
  OBVIOUS
<1>a. Len(<<v, w>>) = 2 /\ <<v, w>>[1] = v /\ <<v, w>>[2] = w
  OBVIOUS
<1>b. PICK a : a = <<v, w>>
  OBVIOUS
<1>2. a \in Seq(S) /\ Len(a) = 2 /\ a[1] = v /\ a[2] = w
  BY <1>1, <1>a, <1>b
<1>3. PICK b : b = Append(<<v>>, w)
  OBVIOUS
<1>4. b \in Seq(S) /\ Len(b) = 2 /\ b[1] = v /\ b[2] = w
  <2>1. Len(<<v>>) = 1 /\ <<v>>[1] = v
    OBVIOUS
  <2>2. /\ b \in Seq(S) /\ Len(b) = Len(<<v>>) + 1
        /\ \A i \in 1..Len(<<v>>) : b[i] = <<v>>[i]
        /\ b[Len(<<v>>) + 1] = w
    BY <1>1, <1>3, AppendProperties
  <2>3. Len(b) = 2 /\ b[2] = w
    BY <2>1, <2>2
  <2>4. b[1] = v
    BY <2>1, <2>2
  <2> QED BY <2>2, <2>3, <2>4
<1>5. Len(a) = Len(b) /\ \A i \in 1..Len(a) : a[i] = b[i]
  BY <1>2, <1>4
<1>6. a = b
  BY <1>2, <1>4, <1>5, SeqEqual
<1> QED BY <1>1, <1>b, <1>3, <1>6, AppendIsConcat

LEMMA TwoStores ==
    ASSUME TypeOK, Buffers, NEW t \in Threads, NEW v \in Stored, NEW w \in Stored,
           \A x \in InFlight(t) : x.loc # v.loc /\ x.loc # w.loc,
           v.loc # w.loc, Store(t, <<v, w>>)
    PROVE  /\ InFlight(t)' = InFlight(t) \cup {v, w}
           /\ Len(buf'[t]) = Len(buf[t]) + 2
           /\ Distinct(buf'[t])
           /\ buf' \in [Threads -> Seq(Stored)]
           /\ OthersKeep(t)
<1>1. /\ buf \in [Threads -> Seq(Stored)]
      /\ buf' = [buf EXCEPT ![t] = buf[t] \o <<v, w>>]
  BY DEF TypeOK, Stored, Store
<1>2. /\ buf[t] \in Seq(Stored) /\ Distinct(buf[t])
      /\ InFlight(t) = Contents(buf[t])
  BY Buffered
<1>3. PICK a : a = buf[t] \o <<v>>
  OBVIOUS
<1>4. /\ a \in Seq(Stored) /\ Distinct(a) /\ Len(a) = Len(buf[t]) + 1
      /\ Contents(a) = Contents(buf[t]) \cup {v} /\ Len(buf[t]) \in Nat
  BY <1>2, <1>3, Add
<1>5. PICK u : u = a \o <<w>>
  OBVIOUS
<1>6. \A x \in Contents(a) : x.loc # w.loc
  BY <1>2, <1>4
<1>7. /\ u \in Seq(Stored) /\ Distinct(u) /\ Len(u) = Len(a) + 1
      /\ Contents(u) = Contents(a) \cup {w}
  BY <1>4, <1>5, <1>6, Add
<1>8. u = buf[t] \o <<v, w>>
  <2>1. <<v>> \in Seq(Stored) /\ <<w>> \in Seq(Stored) /\ <<v>> \o <<w>> = <<v, w>>
    BY Pair
  <2>2. u = buf[t] \o (<<v>> \o <<w>>)
    BY <1>2, <1>3, <1>5, <2>1, ConcatAssociative
  <2> QED BY <2>1, <2>2
<1>9. buf'[t] = u /\ OthersKeep(t) /\ buf' \in [Threads -> Seq(Stored)]
  BY <1>1, <1>7, <1>8 DEF OthersKeep
<1>10. InFlight(t)' = Contents(u)
  BY <1>9 DEF InFlight, Contents
<1> QED BY <1>2, <1>4, <1>7, <1>9, <1>10

(* The steps of the consumer leave the debts of the producers alone.       *)
LEMMA SameProducers ==
    ASSUME UNCHANGED producerVars, \A p \in Producers : buf'[p] = buf[p]
    PROVE  /\ SameDebts
           /\ \A p \in Producers : InFlight(p)' = InFlight(p)
<1> QED BY DEF producerVars, SameDebts, Owes, LinkOf, InFlight

LEMMA ProducersKeep ==
    ASSUME OthersKeep(Consumer)
    PROVE  \A p \in Producers : buf'[p] = buf[p]
<1> QED BY ModelAssumption DEF OthersKeep, Threads

(* The steps of a producer leave the stores of the others alone.           *)
LEMMA OthersInFlight ==
    ASSUME NEW t \in Threads, OthersKeep(t)
    PROVE  /\ \A u \in Threads \ {t} : InFlight(u)' = InFlight(u)
           /\ t # Consumer => (Resetting' <=> Resetting)
<1> QED BY DEF OthersKeep, InFlight, Resetting, Threads

LEMMA CallEffect ==
    ASSUME TypeOK, Buffers, NEW p \in Producers, NEW e \in Elements,
           EnqueueCall(p, e)
    PROVE  /\ \A w \in InFlight(p) : /\ w.loc \in Links /\ w.val # Null
                                      /\ w.loc # next(e)
           /\ InFlight(p)' = InFlight(p) \cup {Write(data(e), e), Write(next(e), Null)}
           /\ Len(buf'[p]) = Len(buf[p]) + 2 /\ Distinct(buf'[p])
           /\ buf' \in [Threads -> Seq(Stored)] /\ OthersKeep(p)
           /\ SameDebts /\ (Resetting' <=> Resetting)
<1>0. p \in Threads /\ p # Consumer
  BY ModelAssumption DEF Threads
<1>1. /\ ppc[p] = "idle" /\ Stores(p, next(e)) = {}
      /\ Store(p, <<Write(data(e), e), Write(next(e), Null)>>)
      /\ r_elt' = [r_elt EXCEPT ![p] = e] /\ r_prev' = r_prev
      /\ ppc' = [ppc EXCEPT ![p] = "swap"]
  BY <1>0 DEF EnqueueCall, HandedOver
<1>2. \A w \in InFlight(p) : /\ w.loc \in Links /\ w.val # Null
                             /\ w.loc # next(e)
  BY <1>0, <1>1, Buffered DEF Buffers
<1>3. /\ Write(data(e), e) \in Stored /\ Write(next(e), Null) \in Stored
      /\ Write(data(e), e).loc = data(e) /\ Write(next(e), Null).loc = next(e)
      /\ data(e) # next(e) /\ data(e) \notin Links
  BY Places, Writes DEF Stored, Addr
<1>4. \A w \in InFlight(p) : w.loc # data(e) /\ w.loc # next(e)
  BY <1>2, <1>3
<1>5. /\ InFlight(p)' = InFlight(p) \cup {Write(data(e), e), Write(next(e), Null)}
      /\ Len(buf'[p]) = Len(buf[p]) + 2 /\ Distinct(buf'[p])
      /\ buf' \in [Threads -> Seq(Stored)] /\ OthersKeep(p)
  BY <1>0, <1>1, <1>3, <1>4, TwoStores
<1>6. /\ \A u \in Threads \ {p} : InFlight(u)' = InFlight(u)
      /\ Resetting' <=> Resetting
  BY <1>0, <1>5, OthersInFlight
<1>7. ASSUME NEW r \in Producers, NEW l \in Links, NEW f \in Elements
      PROVE  Owes(r, l, f)' <=> Owes(r, l, f)
  <2>1. CASE r = p
    <3>1. Write(l, f) \notin {Write(data(e), e), Write(next(e), Null)}
      BY <1>3, Writes, ModelAssumption
    <3>2. ppc[p] # "link" /\ ppc'[p] # "link"
      BY <1>1 DEF TypeOK
    <3> QED BY <1>5, <2>1, <3>1, <3>2 DEF Owes
  <2>2. CASE r # p
    <3>1. /\ ppc'[r] = ppc[r] /\ r_elt'[r] = r_elt[r] /\ r_prev'[r] = r_prev[r]
          /\ InFlight(r)' = InFlight(r)
      BY <1>1, <1>6, <2>2 DEF TypeOK, Threads
    <3> QED BY <3>1 DEF Owes, LinkOf
  <2> QED BY <2>1, <2>2
<1> QED BY <1>2, <1>5, <1>6, <1>7 DEF SameDebts

LEMMA SwapEffect ==
    ASSUME TypeOK, Buffers, NEW p \in Producers, EnqueueSwap(p), r_elt[p] \in Elements
    PROVE  /\ InFlight(p) = {} /\ \A t \in Threads : InFlight(t)' = InFlight(t)
           /\ Resetting' <=> Resetting
           /\ \A r \in Producers, l \in Links, e \in Elements :
                 Owes(r, l, e)' <=> \/ Owes(r, l, e)
                                    \/ /\ r = p /\ e = r_elt[p]
                                       /\ l = IF mem[tail] = Null THEN head
                                              ELSE next(mem[tail])
<1>0. p \in Threads /\ p # Consumer
  BY ModelAssumption DEF Threads
<1>1. /\ ppc[p] = "swap" /\ ppc' = [ppc EXCEPT ![p] = "link"]
      /\ r_elt' = r_elt /\ r_prev' = [r_prev EXCEPT ![p] = mem[tail]]
      /\ buf[p] = <<>> /\ buf' = buf
  BY DEF EnqueueSwap
<1>2. InFlight(p) = {} /\ \A t \in Threads : InFlight(t)' = InFlight(t)
  BY <1>0, <1>1, Buffered DEF InFlight
<1>3. Resetting' <=> Resetting
  BY <1>1 DEF Resetting, InFlight
<1>4. ASSUME NEW r \in Producers, NEW l \in Links, NEW e \in Elements
      PROVE  Owes(r, l, e)' <=> \/ Owes(r, l, e)
                                \/ /\ r = p /\ e = r_elt[p]
                                   /\ l = IF mem[tail] = Null THEN head
                                          ELSE next(mem[tail])
  <2>1. CASE r = p
    <3>1. ppc'[p] = "link" /\ r_prev'[p] = mem[tail] /\ r_elt'[p] = r_elt[p]
      BY <1>1 DEF TypeOK
    <3> QED BY <1>0, <1>1, <1>2, <2>1, <3>1 DEF Owes, LinkOf
  <2>2. CASE r # p
    <3>1. /\ ppc'[r] = ppc[r] /\ r_elt'[r] = r_elt[r] /\ r_prev'[r] = r_prev[r]
          /\ InFlight(r)' = InFlight(r)
      BY <1>1, <1>2, <2>2 DEF TypeOK, Threads
    <3> QED BY <2>2, <3>1 DEF Owes, LinkOf
  <2> QED BY <2>1, <2>2
<1> QED BY <1>2, <1>3, <1>4

LEMMA LinkEffect ==
    ASSUME TypeOK, Buffers, NEW p \in Producers, EnqueueLink(p), r_elt[p] \in Elements
    PROVE  /\ LinkOf(p) \in Links /\ InFlight(p) = {} /\ Len(buf[p]) = 0
           /\ Adds(p, Write(LinkOf(p), r_elt[p]))
           /\ SameDebts /\ (Resetting' <=> Resetting)
<1>0. p \in Threads /\ p # Consumer
  BY ModelAssumption DEF Threads
<1>1. /\ ppc[p] = "link" /\ ppc' = [ppc EXCEPT ![p] = "idle"]
      /\ r_elt' = [r_elt EXCEPT ![p] = Null] /\ r_prev' = [r_prev EXCEPT ![p] = Null]
      /\ Store(p, <<Write(LinkOf(p), r_elt[p])>>)
  BY DEF EnqueueLink
<1>2. InFlight(p) = {} /\ Len(buf[p]) = 0
  <2>1. buf[p] = <<>>
    BY <1>1 DEF Buffers
  <2> QED BY <1>0, <2>1, Buffered
<1>3. LinkOf(p) \in Links
  BY Places DEF LinkOf, TypeOK, Addr
<1>4. Write(LinkOf(p), r_elt[p]) \in Stored
  BY <1>3, Places, Writes DEF Stored, Addr
<1>5. Adds(p, Write(LinkOf(p), r_elt[p]))
  BY <1>0, <1>1, <1>2, <1>4, StoreEffect
<1>6. /\ \A u \in Threads \ {p} : InFlight(u)' = InFlight(u)
      /\ Resetting' <=> Resetting
  BY <1>0, <1>5, OthersInFlight DEF Adds
<1>7. ASSUME NEW r \in Producers, NEW l \in Links, NEW f \in Elements
      PROVE  Owes(r, l, f)' <=> Owes(r, l, f)
  <2>1. CASE r = p
    <3>1. ppc'[p] # "link"
      BY <1>1 DEF TypeOK
    <3>2. InFlight(p)' = {Write(LinkOf(p), r_elt[p])}
      BY <1>2, <1>5 DEF Adds
    <3>3. Owes(p, l, f) <=> l = LinkOf(p) /\ f = r_elt[p]
      BY <1>1, <1>2 DEF Owes
    <3>4. Owes(p, l, f)' <=> Write(l, f) \in InFlight(p)'
      BY <3>1, ModelAssumption DEF Owes, Links, head, next
    <3> QED BY <2>1, <3>2, <3>3, <3>4, Writes
  <2>2. CASE r # p
    <3>1. /\ ppc'[r] = ppc[r] /\ r_elt'[r] = r_elt[r] /\ r_prev'[r] = r_prev[r]
          /\ InFlight(r)' = InFlight(r)
      BY <1>1, <1>6, <2>2 DEF TypeOK, Threads
    <3> QED BY <3>1 DEF Owes, LinkOf
  <2> QED BY <2>1, <2>2
<1> QED BY <1>2, <1>3, <1>5, <1>6, <1>7 DEF SameDebts

(* A store of the consumer, to head or to a link.                          *)
LEMMA ConsumerStore ==
    ASSUME TypeOK, Buffers, NEW l \in Links, UNCHANGED producerVars,
           \A w \in InFlight(Consumer) : w.loc # l,
           Store(Consumer, <<Write(l, Null)>>)
    PROVE  /\ Adds(Consumer, Write(l, Null)) /\ SameDebts
           /\ \A p \in Producers : buf'[p] = buf[p]
           /\ Resetting' <=> (Resetting \/ l = head)
<1>1. Consumer \in Threads /\ Write(l, Null) \in Stored /\ Write(l, Null).loc = l
  BY Places, Writes DEF Threads, Stored, Addr
<1>2. Adds(Consumer, Write(l, Null))
  BY <1>1, StoreEffect
<1>3. \A p \in Producers : buf'[p] = buf[p]
  BY <1>2, ProducersKeep DEF Adds
<1>4. Resetting' <=> (Resetting \/ l = head)
  <2>1. Resetting' <=> Write(head, Null) \in InFlight(Consumer)'
    BY DEF Resetting, head
  <2> QED BY <1>2, <2>1, Writes DEF Adds, Resetting
<1> QED BY <1>2, <1>3, <1>4, SameProducers

LEMMA ResetEffect ==
    ASSUME TypeOK, Buffers, Front, IsEmptyResetHead
    PROVE  /\ Adds(Consumer, Write(head, Null)) /\ SameDebts
           /\ \A p \in Producers : buf'[p] = buf[p]
           /\ ~Resetting /\ Resetting'
<1>1. ~Resetting
  BY DEF IsEmptyResetHead, Front
<1>2. \A w \in InFlight(Consumer) : w.loc # head
  BY <1>1, Places, Writes DEF Buffers, TypeOK, Resetting
<1> QED BY <1>1, <1>2, ConsumerStore, Places DEF IsEmptyResetHead

LEMMA ClearEffect ==
    ASSUME TypeOK, Buffers, Ownership, DequeueClear
    PROVE  /\ r_e \in Elements \ pool
           /\ Adds(Consumer, Write(next(r_e), Null)) /\ SameDebts
           /\ \A p \in Producers : buf'[p] = buf[p]
           /\ Resetting' <=> Resetting
<1>1. r_e \in Elements \ pool
  BY DEF DequeueClear, Ownership
<1>2. ASSUME NEW w \in InFlight(Consumer) PROVE w.loc # next(r_e)
  <2>1. w = Write(head, Null) \/ \E e \in pool : w = Write(next(e), Null)
    BY DEF Buffers
  <2>2. w.loc = head \/ \E e \in pool : w.loc = next(e)
    BY <2>1, Writes
  <2>3. pool \subseteq Elements
    BY DEF TypeOK
  <2> QED BY <1>1, <2>2, <2>3, Places
<1> QED BY <1>1, <1>2, ConsumerStore, Places DEF DequeueClear

(* A step that stores nothing.                                             *)
LEMMA NoStore ==
    ASSUME UNCHANGED <<buf, producerVars>>
    PROVE  /\ SameDebts /\ (Resetting' <=> Resetting)
           /\ \A t \in Threads : InFlight(t)' = InFlight(t)
<1> QED BY SameProducers DEF Resetting, InFlight

(* OPA_Queue_header_init writes one field, of an element a client owns.    *)
LEMMA HeaderEffect ==
    ASSUME TypeOK, NEW e \in Elements, HeaderInit(e)
    PROVE  /\ SameDebts /\ (Resetting' <=> Resetting)
           /\ \A t \in Threads : InFlight(t)' = InFlight(t)
           /\ mem' = [mem EXCEPT ![next(e)] = Null] /\ e \in pool
           /\ mem'[head] = mem[head] /\ mem'[tail] = mem[tail]
           /\ mem'[next(e)] = Null
           /\ \A x \in Elements : /\ mem'[data(x)] = mem[data(x)]
                                  /\ x # e => mem'[next(x)] = mem[next(x)]
           /\ UNCHANGED <<buf, pool, q, producerVars, consumerVars>>
<1>1. /\ mem' = [mem EXCEPT ![next(e)] = Null] /\ e \in pool
      /\ UNCHANGED <<buf, pool, q, producerVars, consumerVars>>
  BY DEF HeaderInit, HandedOver
<1>2. mem \in [Locations -> Addr]
  BY DEF TypeOK
<1>3. /\ mem'[head] = mem[head] /\ mem'[tail] = mem[tail] /\ mem'[next(e)] = Null
      /\ \A x \in Elements : /\ mem'[data(x)] = mem[data(x)]
                             /\ x # e => mem'[next(x)] = mem[next(x)]
  BY <1>1, <1>2, Places
<1> QED BY <1>1, <1>3, NoStore

-----------------------------------------------------------------------------
(* The four kinds of stores that reach memory.                             *)

(* The consumer's reset of head.                                           *)
FlushReset == Flushes(Consumer, Write(head, Null)) /\ SameDebts
              /\ mem' = [mem EXCEPT ![head] = Null] /\ Resetting /\ ~Resetting'

(* The consumer's reset of the link of an element it has given back.       *)
FlushClear(e) == Flushes(Consumer, Write(next(e), Null)) /\ SameDebts
                 /\ mem' = [mem EXCEPT ![next(e)] = Null]
                 /\ (Resetting' <=> Resetting)

(* A producer's link.                                                      *)
FlushLink(p, l, e) ==
    /\ Flushes(p, Write(l, e)) /\ mem' = [mem EXCEPT ![l] = e]
    /\ Owes(p, l, e) /\ (Resetting' <=> Resetting)
    /\ \A r \in Producers, m \in Links, f \in Elements :
          Owes(r, m, f)' <=> Owes(r, m, f) /\ ~(r = p /\ m = l /\ f = e)

(* The payload or the NULL link of an element that is not swapped in yet.  *)
FlushPrepared(p, l, x) ==
    /\ Flushes(p, Write(l, x)) /\ SameDebts /\ (Resetting' <=> Resetting)
    /\ mem' = [mem EXCEPT ![l] = x]
    /\ ppc[p] = "swap"
    /\ \/ l = data(r_elt[p]) /\ x = r_elt[p]
       \/ l = next(r_elt[p]) /\ x = Null

LEMMA ConsumerFlush ==
    ASSUME TypeOK, Buffers, FlushSome(Consumer)
    PROVE  FlushReset \/ \E e \in pool : FlushClear(e)
<1>0. Consumer \in Threads
  BY DEF Threads
<1>1. PICK w \in InFlight(Consumer) : Flushes(Consumer, w)
  BY <1>0, FlushEffect
<1>2. /\ InFlight(Consumer)' = InFlight(Consumer) \ {w}
      /\ mem' = [mem EXCEPT ![w.loc] = w.val]
      /\ OthersKeep(Consumer) /\ UNCHANGED producerVars
  BY <1>1 DEF Flushes
<1>3. SameDebts
  BY <1>2, ProducersKeep, SameProducers
<1>4. Resetting' <=> Write(head, Null) \in InFlight(Consumer)'
  BY DEF Resetting, head
<1>5. CASE w = Write(head, Null)
  BY <1>1, <1>2, <1>3, <1>4, <1>5, Writes DEF FlushReset, Resetting
<1>6. ASSUME NEW e \in pool, w = Write(next(e), Null) PROVE FlushClear(e)
  <2>1. w # Write(head, Null)
    BY <1>6, Places, Writes DEF TypeOK
  <2>2. Resetting' <=> Resetting
    BY <1>2, <1>4, <2>1 DEF Resetting
  <2>3. w.loc = next(e) /\ w.val = Null
    BY <1>6, Writes
  <2> QED BY <1>1, <1>2, <1>3, <1>6, <2>2, <2>3 DEF FlushClear
<1> QED BY <1>5, <1>6 DEF Buffers

LEMMA ProducerFlush ==
    ASSUME TypeOK, Buffers, NEW p \in Producers, FlushSome(p)
    PROVE  \/ \E l \in Links, e \in Elements : FlushLink(p, l, e)
           \/ \E l \in Locations, x \in Addr : FlushPrepared(p, l, x)
<1>0. p \in Threads /\ p # Consumer
  BY ModelAssumption DEF Threads
<1>1. PICK w \in InFlight(p) : Flushes(p, w)
  BY <1>0, FlushEffect
<1>2. /\ InFlight(p)' = InFlight(p) \ {w}
      /\ mem' = [mem EXCEPT ![w.loc] = w.val]
      /\ OthersKeep(p) /\ UNCHANGED <<ppc, r_elt, r_prev>>
  BY <1>1 DEF Flushes, producerVars
<1>3. /\ \A u \in Threads \ {p} : InFlight(u)' = InFlight(u)
      /\ Resetting' <=> Resetting
  BY <1>0, <1>2, OthersInFlight
<1>4. /\ w = Write(w.loc, w.val) /\ w.loc \in Locations /\ w.val \in Addr
      /\ ppc[p] # "link"
  <2>1. buf[p] # <<>>
    BY <1>0, <1>1, Buffered
  <2> QED BY <1>0, <2>1, Buffered DEF Stored, Buffers
<1>5. ASSUME NEW r \in Producers, NEW m \in Links, NEW f \in Elements
      PROVE  Owes(r, m, f)' <=> Owes(r, m, f) /\ ~(r = p /\ w = Write(m, f))
  <2>1. CASE r = p
    <3>1. Owes(p, m, f) <=> Write(m, f) \in InFlight(p)
      BY <1>4, ModelAssumption DEF Owes
    <3>2. Owes(p, m, f)' <=> Write(m, f) \in InFlight(p)'
      BY <1>2, <1>4, ModelAssumption DEF Owes, Links, head, next
    <3> QED BY <1>2, <2>1, <3>1, <3>2
  <2>2. CASE r # p
    <3>1. InFlight(r)' = InFlight(r)
      BY <1>3, <2>2 DEF Threads
    <3> QED BY <1>2, <2>2, <3>1 DEF Owes, LinkOf
  <2> QED BY <2>1, <2>2
<1>6. CASE w.loc \in Links /\ w.val # Null
  <2>1. w.val \in Elements /\ w = Write(w.loc, w.val)
    BY <1>4, <1>6 DEF Addr
  <2>2. Owes(p, w.loc, w.val)
    BY <1>6, <2>1 DEF Owes
  <2>3. FlushLink(p, w.loc, w.val)
    BY <1>1, <1>2, <1>3, <1>5, <2>1, <2>2, Writes DEF FlushLink
  <2> QED BY <1>6, <2>1, <2>3
<1>7. CASE ppc[p] = "swap" /\ w \in {Write(data(r_elt[p]), r_elt[p]),
                                    Write(next(r_elt[p]), Null)}
  <2>1. CASE w.loc \in Links /\ w.val # Null
    BY <1>6, <2>1
  <2>2. CASE ~(w.loc \in Links /\ w.val # Null)
    <3>1. \A m \in Links, f \in Elements : w # Write(m, f)
      BY <2>2, Writes, ModelAssumption
    <3>2. SameDebts
      BY <1>5, <3>1 DEF SameDebts
    <3>3. \/ w.loc = data(r_elt[p]) /\ w.val = r_elt[p]
          \/ w.loc = next(r_elt[p]) /\ w.val = Null
      BY <1>7, Writes
    <3>4. FlushPrepared(p, w.loc, w.val)
      BY <1>1, <1>2, <1>3, <1>4, <1>7, <3>2, <3>3 DEF FlushPrepared
    <3> QED BY <1>4, <3>4
  <2> QED BY <2>1, <2>2
<1> QED BY <1>6, <1>7 DEF Buffers

-----------------------------------------------------------------------------
(* What a swap and an unlinking do to the history, entry by entry.         *)
LEMMA AppendQ ==
    ASSUME q \in Seq(Elements), NEW e \in Elements, q' = Append(q, e)
    PROVE  /\ q' \in Seq(Elements) /\ q' # <<>>
           /\ Len(q) \in Nat /\ Len(q') = Len(q) + 1
           /\ \A i \in 1..Len(q) : q'[i] = q[i]
           /\ q'[Len(q) + 1] = e
<1> QED BY AppendProperties, LenProperties

LEMMA TailQ ==
    ASSUME q \in Seq(Elements), q # <<>>, q' = Tail(q)
    PROVE  /\ q' \in Seq(Elements)
           /\ Len(q) \in Nat /\ Len(q) > 0 /\ Len(q') = Len(q) - 1
           /\ \A i \in 1..Len(q') : q'[i] = q[i + 1]
           /\ (q' = <<>>) <=> (Len(q) = 1)
<1>1. Len(q) \in Nat /\ Len(q) # 0
  BY LenProperties, EmptySeq
<1>2. /\ q' \in Seq(Elements) /\ Len(q') = Len(q) - 1
      /\ \A i \in 1..Len(q') : q'[i] = q[i + 1]
  BY HeadTailProperties
<1>3. (q' = <<>>) <=> (Len(q') = 0)
  BY <1>2, EmptySeq
<1> QED BY <1>1, <1>2, <1>3

LEMMA ElementQ ==
    ASSUME TypeOK
    PROVE  /\ Len(q) \in Nat /\ \A i \in 1..Len(q) : q[i] \in Elements
           /\ (q = <<>>) <=> (Len(q) = 0)
<1> QED BY LenProperties, ElementOfSeq, EmptySeq DEF TypeOK

(* The element the consumer has found is not that of any enqueue that is   *)
(* still running or whose link is on its way.                              *)
LEMMA FrontSettled ==
    ASSUME RelaxedInv, front # Null
    PROVE  /\ q # <<>> /\ front = q[1] /\ Len(q) \in Nat /\ Len(q) > 0
           /\ q[1] \in Elements \ pool
           /\ \A p \in Producers, l \in Links : ~Owes(p, l, q[1])
           /\ \A p \in Producers : ppc[p] # "idle" => r_elt[p] # q[1]
<1>0. TypeOK /\ Ownership /\ Owed /\ Front
  BY DEF RelaxedInv
<1>1. q # <<>> /\ front = q[1] /\ ~OwesHead
  BY <1>0 DEF Front
<1>2. Len(q) \in Nat /\ Len(q) > 0 /\ q[1] \in Elements \ pool
  BY <1>0, <1>1, ElementQ DEF Ownership
<1>3. ASSUME NEW p \in Producers, NEW l \in Links, Owes(p, l, q[1]) PROVE FALSE
  <2>1. l # head
    BY <1>1, <1>2, <1>3 DEF OwesHead
  <2>2. PICK x \in Elements : l = next(x)
    BY <2>1, Places
  <2>3. PICK i \in 1..Len(q)-1 : q[1] = q[i+1]
    BY <1>0, <1>2, <1>3, <2>2 DEF Owed
  <2>4. 1 \in 1..Len(q) /\ i+1 \in 1..Len(q) /\ i+1 # 1
    BY <1>2
  <2> QED BY <1>0, <2>3, <2>4 DEF Ownership
<1>4. ASSUME NEW p \in Producers, ppc[p] # "idle", r_elt[p] = q[1] PROVE FALSE
  <2>1. CASE ppc[p] = "swap"
    <3>1. 1 \in 1..Len(q)
      BY <1>2
    <3> QED BY <1>0, <1>4, <2>1, <3>1 DEF Ownership
  <2>2. CASE ppc[p] = "link"
    <3>1. LinkOf(p) \in Links
      BY <1>0, Places DEF LinkOf, TypeOK, Addr
    <3>2. Owes(p, LinkOf(p), q[1])
      BY <1>4, <2>2 DEF Owes
    <3> QED BY <1>3, <3>1, <3>2
  <2> QED BY <1>0, <1>4, <2>1, <2>2 DEF TypeOK
<1> QED BY <1>1, <1>2, <1>3, <1>4

(* dequeue's compare-and-swap succeeds only on the last element.           *)
LEMMA CasOnLast ==
    ASSUME RelaxedInv, cpc = "cas", mem[tail] = r_e
    PROVE  Len(q) = 1 /\ r_e = q[1]
<1>1. front = r_e /\ front # Null
  BY DEF front, Front, RelaxedInv
<1>2. q # <<>> /\ r_e = q[1] /\ Len(q) \in Nat /\ Len(q) > 0
  BY <1>1, FrontSettled
<1>3. q[1] = q[Len(q)]
  BY <1>2 DEF RelaxedInv, Chain
<1>4. 1 \in 1..Len(q) /\ Len(q) \in 1..Len(q)
  BY <1>2
<1> QED BY <1>2, <1>3, <1>4 DEF RelaxedInv, Ownership

-----------------------------------------------------------------------------
(* One lemma for each part of the invariant.                               *)
LEMMA TypeStep == RelaxedInv /\ [Next]_vars => TypeOK'
<1> SUFFICES ASSUME RelaxedInv, [Next]_vars PROVE TypeOK'
  OBVIOUS
<1> USE ModelAssumption DEF producerVars, consumerVars
<1>0. /\ TypeOK /\ Ownership /\ Buffers /\ Front
      /\ buf \in [Threads -> Seq(Stored)]
  BY DEF RelaxedInv, TypeOK, Stored
<1>f. front # Null => q # <<>> /\ front \in Elements \ pool
  BY FrontSettled
<1>1. ASSUME NEW t \in Threads, FlushSome(t) PROVE TypeOK'
  <2>1. PICK w \in InFlight(t) : Flushes(t, w)
    BY <1>0, <1>1, FlushEffect
  <2>2. w.loc \in Locations /\ w.val \in Addr
    BY <1>0, Buffered DEF Stored
  <2> QED BY <1>0, <2>1, <2>2 DEF Flushes, TypeOK, Stored
<1>2. ASSUME NEW p \in Producers, NEW e \in Elements, EnqueueCall(p, e)
      PROVE TypeOK'
  <2>1. buf' \in [Threads -> Seq(Stored)]
    BY <1>0, <1>2, CallEffect
  <2> QED BY <1>0, <1>2, <2>1 DEF EnqueueCall, HandedOver, TypeOK, Stored, Addr
<1>3. ASSUME NEW p \in Producers, EnqueueSwap(p) PROVE TypeOK'
  <2>1. r_elt[p] \in Elements
    BY <1>0, <1>3 DEF Ownership, EnqueueSwap
  <2>2. Append(q, r_elt[p]) \in Seq(Elements)
    BY <1>0, <2>1 DEF TypeOK
  <2> QED BY <1>0, <1>3, <2>1, <2>2, Places DEF EnqueueSwap, TypeOK, Addr
<1>4. ASSUME NEW p \in Producers, EnqueueLink(p) PROVE TypeOK'
  <2>1. r_elt[p] \in Elements
    BY <1>0, <1>4 DEF Ownership, EnqueueLink
  <2>2. buf' \in [Threads -> Seq(Stored)]
    BY <1>0, <1>4, <2>1, LinkEffect DEF Adds
  <2> QED BY <1>0, <1>4, <2>2 DEF EnqueueLink, TypeOK, Stored, Addr
<1>5. CASE IsEmptyShadow
  BY <1>0, <1>5 DEF IsEmptyShadow, Answer, TypeOK, Addr
<1>6. CASE IsEmptyLoadHead
  <2>1. CASE Load(Consumer, head) = Null
    <3>1. /\ reply' = [op |-> "empty", elt |-> Null]
          /\ UNCHANGED <<mem, buf, pool, q, ppc, r_elt, r_prev, shadow_head, r_e, cpc>>
      BY <1>6, <2>1 DEF IsEmptyLoadHead, Answer
    <3> QED BY <1>0, <3>1 DEF TypeOK, Addr
  <2>2. CASE Load(Consumer, head) # Null
    BY <1>0, <1>6, <2>2 DEF IsEmptyLoadHead, TypeOK
  <2> QED BY <2>1, <2>2
<1>7. CASE IsEmptyCopyHead
  <2>1. Load(Consumer, head) \in Addr
    BY <1>0, Loads, Places DEF TypeOK, Addr
  <2> QED BY <1>0, <1>7, <2>1 DEF IsEmptyCopyHead, TypeOK
<1>8. CASE IsEmptyResetHead
  <2>1. buf' \in [Threads -> Seq(Stored)]
    BY <1>0, <1>8, ResetEffect DEF Adds
  <2> QED BY <1>0, <1>8, <2>1 DEF IsEmptyResetHead, Answer, TypeOK, Stored, Addr
<1>9. CASE PeekHead
  BY <1>0, <1>9 DEF PeekHead, Answer, TypeOK, Addr
<1>10. CASE DequeueCall
  BY <1>0, <1>10 DEF DequeueCall, TypeOK
<1>11. CASE DequeueAdvance
  <2>1. front = r_e /\ r_e # Null /\ q # <<>> /\ r_e \in Elements \ pool
    BY <1>0, <1>f, <1>11 DEF DequeueAdvance, Front, front
  <2>2. Tail(q) \in Seq(Elements)
    BY <1>0, <2>1, HeadTailProperties DEF TypeOK
  <2>3. Load(Consumer, next(r_e)) \in Addr
    <3>1. Load(Consumer, next(r_e)) = mem[next(r_e)]
      BY <1>0, <2>1, Loads
    <3>2. next(r_e) \in Locations
      BY <2>1, Places
    <3> QED BY <1>0, <3>1, <3>2 DEF TypeOK
  <2> QED BY <1>0, <1>11, <2>2, <2>3 DEF DequeueAdvance, TypeOK
<1>12. CASE DequeueCas
  <2>1. q # <<>>
    BY <1>0, <1>12 DEF DequeueCas, Front, front
  <2>2. Tail(q) \in Seq(Elements)
    BY <1>0, <2>1, HeadTailProperties DEF TypeOK
  <2> QED BY <1>0, <1>12, <2>2, Places DEF DequeueCas, TypeOK, Addr
<1>13. CASE DequeueWait
  BY <1>0, <1>13 DEF DequeueWait, TypeOK
<1>14. CASE DequeueClear
  <2>1. buf' \in [Threads -> Seq(Stored)] /\ r_e \in Elements
    BY <1>0, <1>14, ClearEffect DEF Adds
  <2> QED BY <1>0, <1>14, <2>1, Places
          DEF DequeueClear, Answer, TypeOK, Stored, Addr
<1>15. CASE UNCHANGED vars
  BY <1>0, <1>15 DEF vars, TypeOK
<1>h. ASSUME NEW e \in Elements, HeaderInit(e) PROVE TypeOK'
  BY <1>0, <1>h, HeaderEffect, Places DEF TypeOK, Addr
<1> QED
  BY <1>h, <1>1, <1>2, <1>3, <1>4, <1>5, <1>6, <1>7, <1>8, <1>9, <1>10, <1>11,
     <1>12, <1>13, <1>14, <1>15
     DEF Next, EnqueueStep, IsEmptyCall, ConsumerStep

LEMMA OwnershipStep == RelaxedInv /\ [Next]_vars => Ownership'
<1> SUFFICES ASSUME RelaxedInv, [Next]_vars PROVE Ownership'
  OBVIOUS
<1> USE ModelAssumption DEF producerVars, consumerVars, Ownership
<1>0. TypeOK /\ Ownership /\ Front
  BY DEF RelaxedInv
<1>q. /\ Len(q) \in Nat /\ \A i \in 1..Len(q) : q[i] \in Elements
      /\ (q = <<>>) <=> (Len(q) = 0)
  BY <1>0, ElementQ
<1>1. ASSUME UNCHANGED <<q, pool, ppc, r_elt, cpc, r_e>> PROVE Ownership'
  BY <1>0, <1>1
<1>2. ASSUME NEW p \in Producers, NEW e \in Elements, EnqueueCall(p, e)
      PROVE Ownership'
  BY <1>0, <1>q, <1>2 DEF EnqueueCall, HandedOver, TypeOK, Addr
<1>3. ASSUME NEW p \in Producers, EnqueueSwap(p) PROVE Ownership'
  <2>1. r_elt[p] \in Elements
    BY <1>0, <1>3 DEF EnqueueSwap
  <2>2. /\ Len(q') = Len(q) + 1
        /\ \A i \in 1..Len(q) : q'[i] = q[i]
        /\ q'[Len(q) + 1] = r_elt[p]
    BY <1>0, <1>3, <2>1, AppendQ DEF EnqueueSwap, TypeOK
  <2> QED BY <1>0, <1>q, <1>3, <2>1, <2>2 DEF EnqueueSwap, TypeOK, Addr
<1>4. ASSUME NEW p \in Producers, EnqueueLink(p) PROVE Ownership'
  BY <1>0, <1>4 DEF EnqueueLink, TypeOK, Addr
<1>5. CASE IsEmptyLoadHead \/ IsEmptyCopyHead \/ IsEmptyResetHead
  BY <1>0, <1>5 DEF IsEmptyLoadHead, IsEmptyCopyHead, IsEmptyResetHead
<1>6. CASE DequeueCall
  BY <1>0, <1>6 DEF DequeueCall
<1>7. CASE DequeueAdvance
  <2>1. /\ r_e = q[1] /\ q # <<>> /\ q[1] \in Elements \ pool
        /\ \A p \in Producers : ppc[p] # "idle" => r_elt[p] # q[1]
    BY <1>0, <1>7, FrontSettled DEF DequeueAdvance, Front, front
  <2>2. /\ Len(q) > 0 /\ Len(q') = Len(q) - 1
        /\ \A i \in 1..Len(q') : q'[i] = q[i + 1]
    BY <1>0, <1>7, <2>1, TailQ DEF DequeueAdvance, TypeOK
  <2> QED BY <1>0, <1>q, <1>7, <2>1, <2>2 DEF DequeueAdvance
<1>8. CASE DequeueCas
  <2>1. /\ r_e = q[1] /\ q # <<>> /\ q[1] \in Elements \ pool
        /\ \A p \in Producers : ppc[p] # "idle" => r_elt[p] # q[1]
    BY <1>0, <1>8, FrontSettled DEF DequeueCas, Front, front
  <2>2. CASE mem[tail] = r_e
    <3>1. Len(q) = 1 /\ Len(q') = 0
      BY <1>0, <1>8, <2>1, <2>2, CasOnLast, TailQ DEF DequeueCas, TypeOK
    <3> QED BY <1>0, <1>q, <1>8, <2>1, <2>2, <3>1 DEF DequeueCas
  <2>3. CASE mem[tail] # r_e
    BY <1>0, <1>8, <2>3 DEF DequeueCas
  <2> QED BY <2>2, <2>3
<1>9. CASE DequeueWait
  BY <1>0, <1>9 DEF DequeueWait
<1>10. CASE DequeueClear
  BY <1>0, <1>q, <1>10 DEF DequeueClear
<1>11. CASE \/ \E t \in Threads : FlushSome(t)
           \/ IsEmptyShadow \/ PeekHead \/ UNCHANGED vars
  BY <1>1, <1>11 DEF FlushSome, Flush, IsEmptyShadow, PeekHead, vars
<1>h. ASSUME NEW e \in Elements, HeaderInit(e) PROVE Ownership'
  BY <1>0, <1>1, <1>h, HeaderEffect
<1> QED
  BY <1>h, <1>2, <1>3, <1>4, <1>5, <1>6, <1>7, <1>8, <1>9, <1>10, <1>11
     DEF Next, EnqueueStep, IsEmptyCall, ConsumerStep

(* Buffers, one thread at a time.                                          *)
ProducerBuffer(p) ==
    /\ ppc[p] = "idle" => Len(buf[p]) <= 1
    /\ ppc[p] = "swap" => Len(buf[p]) <= 3
    /\ ppc[p] = "link" => buf[p] = <<>>
    /\ \A w \in InFlight(p) :
          \/ w.loc \in Links /\ w.val # Null
          \/ ppc[p] = "swap" /\ w \in {Write(data(r_elt[p]), r_elt[p]),
                                       Write(next(r_elt[p]), Null)}

ConsumerBuffer ==
    \A w \in InFlight(Consumer) :
        w = Write(head, Null) \/ \E e \in pool : w = Write(next(e), Null)

LEMMA BuffersByThread ==
    Buffers <=> /\ \A t \in Threads : Distinct(buf[t])
                /\ \A p \in Producers : ProducerBuffer(p)
                /\ ConsumerBuffer
<1> QED BY DEF Buffers, Distinct, ProducerBuffer, ConsumerBuffer

LEMMA ProducerBufferKept ==
    ASSUME NEW p \in Producers, ProducerBuffer(p), buf'[p] = buf[p],
           ppc'[p] = ppc[p], r_elt'[p] = r_elt[p]
    PROVE  ProducerBuffer(p)'
<1>1. InFlight(p)' = InFlight(p)
  BY DEF InFlight
<1> QED BY <1>1 DEF ProducerBuffer, Links, Write, head, next, data

LEMMA ConsumerBufferKept ==
    ASSUME ConsumerBuffer, buf'[Consumer] = buf[Consumer], pool \subseteq pool'
    PROVE  ConsumerBuffer'
<1>1. InFlight(Consumer)' = InFlight(Consumer)
  BY DEF InFlight
<1> QED BY <1>1 DEF ConsumerBuffer, Write, head, next

LEMMA BuffersStep == RelaxedInv /\ [Next]_vars => Buffers'
<1> SUFFICES ASSUME RelaxedInv, [Next]_vars PROVE Buffers'
  OBVIOUS
<1> USE ModelAssumption DEF producerVars, consumerVars
<1>0. TypeOK /\ Ownership /\ Buffers /\ Front
  BY DEF RelaxedInv
<1>b. /\ \A t \in Threads : Distinct(buf[t])
      /\ \A p \in Producers : ProducerBuffer(p)
      /\ ConsumerBuffer
  BY <1>0, BuffersByThread
<1>g. ASSUME \A t \in Threads : Distinct(buf'[t]),
             \A p \in Producers : ProducerBuffer(p)', ConsumerBuffer'
      PROVE  Buffers'
  BY <1>g DEF Buffers, Distinct, ProducerBuffer, ConsumerBuffer
<1>t. /\ Consumer \in Threads /\ Consumer \notin Producers
      /\ \A p \in Producers : p \in Threads
      /\ \A t \in Threads : t \in Producers \/ t = Consumer
  BY DEF Threads
<1>1. ASSUME NEW t \in Threads, FlushSome(t) PROVE Buffers'
  <2>1. PICK w \in InFlight(t) : Flushes(t, w)
    BY <1>0, <1>1, FlushEffect
  <2>2. /\ InFlight(t)' = InFlight(t) \ {w} /\ Len(buf[t]) > 0
        /\ Len(buf'[t]) = Len(buf[t]) - 1 /\ Distinct(buf'[t])
        /\ \A u \in Threads \ {t} : buf'[u] = buf[u]
        /\ UNCHANGED <<pool, ppc, r_elt>> /\ Len(buf[t]) \in Nat
        /\ buf[t] # <<>>
    BY <1>0, <2>1, Buffered, Empty DEF Flushes, OthersKeep
  <2>3. \A u \in Threads : Distinct(buf'[u])
    BY <1>b, <2>2
  <2>4. ASSUME NEW p \in Producers PROVE ProducerBuffer(p)'
    <3>1. CASE p = t
      <4>1. ProducerBuffer(p)
        BY <1>b
      <4>2. ppc[p] # "link"
        BY <2>2, <3>1, <4>1 DEF ProducerBuffer
      <4> QED BY <2>2, <3>1, <4>1, <4>2
              DEF ProducerBuffer, Links, Write, head, next, data
    <3>2. CASE p # t
      BY <1>b, <1>t, <2>2, <3>2, ProducerBufferKept
    <3> QED BY <3>1, <3>2
  <2>5. ConsumerBuffer'
    <3>1. CASE t = Consumer
      BY <1>b, <2>2, <3>1 DEF ConsumerBuffer, Write, head, next
    <3>2. CASE t # Consumer
      BY <1>b, <1>t, <2>2, <3>2, ConsumerBufferKept
    <3> QED BY <3>1, <3>2
  <2> QED BY <1>g, <2>3, <2>4, <2>5
<1>2. ASSUME NEW p \in Producers, NEW e \in Elements, EnqueueCall(p, e)
      PROVE Buffers'
  <2>1. /\ \A w \in InFlight(p) : w.loc \in Links /\ w.val # Null
        /\ InFlight(p)' = InFlight(p) \cup {Write(data(e), e), Write(next(e), Null)}
        /\ Len(buf'[p]) = Len(buf[p]) + 2 /\ Distinct(buf'[p])
        /\ \A u \in Threads \ {p} : buf'[u] = buf[u]
    BY <1>0, <1>2, CallEffect DEF OthersKeep
  <2>2. /\ ppc[p] = "idle" /\ ppc'[p] = "swap" /\ r_elt'[p] = e
        /\ \A r \in Producers \ {p} : ppc'[r] = ppc[r] /\ r_elt'[r] = r_elt[r]
        /\ pool' = pool \ {e} /\ Stores(Consumer, next(e)) = {}
    BY <1>0, <1>t, <1>2 DEF EnqueueCall, HandedOver, TypeOK
  <2>3. \A u \in Threads : Distinct(buf'[u])
    BY <1>b, <2>1
  <2>4. ASSUME NEW r \in Producers PROVE ProducerBuffer(r)'
    <3>1. CASE r = p
      <4>1. Len(buf[p]) \in Nat /\ Len(buf[p]) <= 1
        BY <1>0, <1>b, <1>t, <2>2, Buffered DEF ProducerBuffer
      <4>2. Len(buf'[p]) <= 3
        BY <2>1, <4>1
      <4> QED BY <2>1, <2>2, <3>1, <4>2
              DEF ProducerBuffer, Links, Write, head, next, data
    <3>2. CASE r # p
      BY <1>b, <1>t, <2>1, <2>2, <3>2, ProducerBufferKept
    <3> QED BY <3>1, <3>2
  <2>5. ConsumerBuffer'
    <3>1. InFlight(Consumer)' = InFlight(Consumer)
      BY <1>t, <2>1 DEF InFlight
    <3>2. \A w \in InFlight(Consumer) : w.loc # next(e)
      BY <1>0, <1>t, <2>2, Buffered
    <3>3. \A w \in InFlight(Consumer) :
            w = Write(head, Null) \/ \E f \in pool \ {e} : w = Write(next(f), Null)
      BY <1>b, <3>2, Writes DEF ConsumerBuffer
    <3> QED BY <2>2, <3>1, <3>3 DEF ConsumerBuffer, Write, head, next
  <2> QED BY <1>g, <2>3, <2>4, <2>5
<1>3. ASSUME NEW p \in Producers, EnqueueSwap(p) PROVE Buffers'
  <2>1. /\ buf[p] = <<>> /\ buf' = buf /\ ppc'[p] = "link" /\ r_elt' = r_elt
        /\ \A r \in Producers \ {p} : ppc'[r] = ppc[r]
        /\ pool' = pool /\ InFlight(p)' = InFlight(p) /\ InFlight(p) = {}
    BY <1>0, <1>3, <1>t, Buffered DEF EnqueueSwap, TypeOK, InFlight
  <2>2. ASSUME NEW r \in Producers PROVE ProducerBuffer(r)'
    <3>1. CASE r = p
      BY <2>1, <3>1 DEF ProducerBuffer
    <3>2. CASE r # p
      BY <1>b, <2>1, <3>2, ProducerBufferKept
    <3> QED BY <3>1, <3>2
  <2> QED BY <1>b, <1>g, <2>1, <2>2, ConsumerBufferKept
<1>4. ASSUME NEW p \in Producers, EnqueueLink(p) PROVE Buffers'
  <2>1. r_elt[p] \in Elements
    BY <1>0, <1>4 DEF Ownership, EnqueueLink
  <2>2. /\ LinkOf(p) \in Links /\ InFlight(p)' = {Write(LinkOf(p), r_elt[p])}
        /\ Len(buf'[p]) = 1 /\ Distinct(buf'[p])
        /\ \A u \in Threads \ {p} : buf'[u] = buf[u]
    <3>1. /\ LinkOf(p) \in Links /\ InFlight(p) = {} /\ Len(buf[p]) = 0
          /\ Adds(p, Write(LinkOf(p), r_elt[p]))
      BY <1>0, <1>4, <2>1, LinkEffect
    <3> QED BY <3>1 DEF Adds, OthersKeep
  <2>3. /\ ppc'[p] = "idle" /\ pool' = pool
        /\ \A r \in Producers \ {p} : ppc'[r] = ppc[r] /\ r_elt'[r] = r_elt[r]
    BY <1>0, <1>4 DEF EnqueueLink, TypeOK
  <2>4. ASSUME NEW r \in Producers PROVE ProducerBuffer(r)'
    <3>1. CASE r = p
      <4>1. \A w \in InFlight(p)' : w.loc \in Links /\ w.val # Null
        BY <2>1, <2>2, Writes
      <4>2. ppc'[p] = "idle" /\ Len(buf'[p]) <= 1
        BY <2>2, <2>3
      <4> QED BY <3>1, <4>1, <4>2 DEF ProducerBuffer, Links, Write, head, next, data
    <3>2. CASE r # p
      BY <1>b, <1>t, <2>2, <2>3, <3>2, ProducerBufferKept
    <3> QED BY <3>1, <3>2
  <2>5. ConsumerBuffer'
    BY <1>b, <1>t, <2>2, <2>3, ConsumerBufferKept
  <2> QED BY <1>b, <1>g, <2>2, <2>4, <2>5
<1>5. ASSUME UNCHANGED <<ppc, r_elt>>, pool \subseteq pool',
             \A p \in Producers : buf'[p] = buf[p],
             NEW w, Adds(Consumer, w),
             w = Write(head, Null) \/ \E e \in pool' : w = Write(next(e), Null)
      PROVE  Buffers'
  <2>1. \A t \in Threads : Distinct(buf'[t])
    BY <1>b, <1>t, <1>5 DEF Adds
  <2>2. \A p \in Producers : ProducerBuffer(p)'
    BY <1>b, <1>5, ProducerBufferKept
  <2>3. ConsumerBuffer'
    BY <1>b, <1>5 DEF Adds, ConsumerBuffer, Write, head, next
  <2> QED BY <1>g, <2>1, <2>2, <2>3
<1>6. CASE IsEmptyResetHead
  <2>1. /\ Adds(Consumer, Write(head, Null))
        /\ \A p \in Producers : buf'[p] = buf[p]
    BY <1>0, <1>6, ResetEffect
  <2>2. UNCHANGED <<ppc, r_elt>> /\ pool \subseteq pool'
    BY <1>6 DEF IsEmptyResetHead
  <2> QED BY <1>5, <2>1, <2>2
<1>7. CASE DequeueClear
  <2>1. /\ Adds(Consumer, Write(next(r_e), Null))
        /\ \A p \in Producers : buf'[p] = buf[p]
    BY <1>0, <1>7, ClearEffect
  <2>2. UNCHANGED <<ppc, r_elt>> /\ pool \subseteq pool' /\ r_e \in pool'
    BY <1>7 DEF DequeueClear
  <2> QED BY <1>5, <2>1, <2>2
<1>8. ASSUME UNCHANGED <<buf, pool, ppc, r_elt>> PROVE Buffers'
  BY <1>b, <1>g, <1>8, ProducerBufferKept, ConsumerBufferKept
<1>9. CASE \/ IsEmptyShadow \/ IsEmptyLoadHead \/ IsEmptyCopyHead \/ PeekHead
          \/ DequeueCall \/ DequeueAdvance \/ DequeueCas \/ DequeueWait
          \/ UNCHANGED vars
  BY <1>8, <1>9 DEF IsEmptyShadow, IsEmptyLoadHead, IsEmptyCopyHead, PeekHead,
     DequeueCall, DequeueAdvance, DequeueCas, DequeueWait, vars
<1>h. ASSUME NEW e \in Elements, HeaderInit(e) PROVE Buffers'
  BY <1>0, <1>8, <1>h, HeaderEffect
<1> QED
  BY <1>h, <1>1, <1>2, <1>3, <1>4, <1>6, <1>7, <1>9
     DEF Next, EnqueueStep, IsEmptyCall, ConsumerStep

(* A link that is on its way is that of an element in the queue, which is  *)
(* neither the client's nor that of an enqueue before its swap.            *)
LEMMA OwedPlace ==
    ASSUME RelaxedInv, NEW p \in Producers, NEW l \in Links, NEW e \in Elements,
           Owes(p, l, e)
    PROVE  \/ l = head /\ q # <<>> /\ e = q[1]
           \/ \E i \in 1..Len(q)-1 :
                 /\ l = next(q[i]) /\ e = q[i+1] /\ mem[l] = Null
                 /\ q[i] \in Elements \ pool
                 /\ \A r \in Producers : ppc[r] = "swap" => r_elt[r] # q[i]
                 /\ cpc = "clear" => r_e # q[i]
<1>0. TypeOK /\ Ownership /\ Owed
  BY DEF RelaxedInv
<1>1. CASE l = head
  BY <1>0, <1>1 DEF Owed
<1>2. CASE l # head
  <2>1. PICK x \in Elements : l = next(x)
    BY <1>2, Places
  <2>2. PICK i \in 1..Len(q)-1 : x = q[i] /\ e = q[i+1] /\ mem[next(x)] = Null
    BY <1>0, <2>1 DEF Owed
  <2>3. i \in 1..Len(q)
    BY <1>0, ElementQ
  <2> QED BY <1>0, <2>1, <2>2, <2>3 DEF Ownership
<1> QED BY <1>1, <1>2

(* An element before its swap is prepared.                                 *)
IsPrepared(p) ==
    ppc[p] = "swap" =>
          /\ \/ mem[data(r_elt[p])] = r_elt[p]
             \/ Write(data(r_elt[p]), r_elt[p]) \in InFlight(p)
          /\ \/ mem[next(r_elt[p])] = Null
             \/ Write(next(r_elt[p]), Null) \in InFlight(p)

LEMMA PreparedStep == RelaxedInv /\ [Next]_vars => Prepared'
<1> SUFFICES ASSUME RelaxedInv, [Next]_vars PROVE Prepared'
  OBVIOUS
<1> USE ModelAssumption DEF producerVars, consumerVars
<1>0. /\ TypeOK /\ Ownership /\ Buffers /\ Front /\ Prepared
      /\ mem \in [Locations -> Addr]
  BY DEF RelaxedInv, TypeOK
<1>q. /\ Len(q) \in Nat /\ \A i \in 1..Len(q) : q[i] \in Elements
      /\ (q = <<>>) <=> (Len(q) = 0)
  BY <1>0, ElementQ
<1>p. \A p \in Producers : ppc[p] = "swap" =>
         /\ r_elt[p] \in Elements \ pool
         /\ \A i \in 1..Len(q) : q[i] # r_elt[p]
         /\ \A r \in Producers \ {p} : ppc[r] # "idle" => r_elt[p] # r_elt[r]
         /\ cpc = "clear" => r_e # r_elt[p]
  BY <1>0 DEF Ownership
<1>i. \A p \in Producers : IsPrepared(p)
  BY <1>0 DEF Prepared, IsPrepared
<1>g. ASSUME \A p \in Producers : IsPrepared(p)',
             \A i \in 1..Len(q') : mem'[data(q'[i])] = q'[i],
             cpc' = "clear" => mem'[data(r_e')] = r_e'
      PROVE  Prepared'
  BY <1>g DEF Prepared, IsPrepared
<1>1. ASSUME UNCHANGED <<ppc, r_elt, q, cpc, r_e>>,
             \A p \in Producers : InFlight(p)' = InFlight(p),
             \A e \in Elements : mem'[data(e)] = mem[data(e)],
             \A e \in Elements : mem'[next(e)] \in {mem[next(e)], Null}
      PROVE  Prepared'
  <2>1. \A p \in Producers : IsPrepared(p)'
    BY <1>i, <1>p, <1>1 DEF IsPrepared
  <2>2. cpc = "clear" => r_e \in Elements
    BY <1>0 DEF Ownership
  <2> QED BY <1>0, <1>g, <1>q, <1>1, <2>1, <2>2 DEF Prepared
<1>2. CASE FlushSome(Consumer)
  <2>1. CASE FlushReset
    BY <1>0, <1>1, <2>1, ProducersKeep, SameProducers, Places
       DEF FlushReset, Flushes
  <2>2. ASSUME NEW e \in pool, FlushClear(e) PROVE Prepared'
    <3>1. e \in Elements
      BY <1>0 DEF TypeOK
    <3> QED BY <1>0, <1>1, <2>2, <3>1, ProducersKeep, SameProducers, Places
            DEF FlushClear, Flushes
  <2> QED BY <1>0, <1>2, <2>1, <2>2, ConsumerFlush
<1>3. ASSUME NEW p \in Producers, FlushSome(p) PROVE Prepared'
  <2>0. p \in Threads
    BY DEF Threads
  <2>1. ASSUME NEW l \in Links, NEW e \in Elements, FlushLink(p, l, e)
        PROVE  Prepared'
    <3>1. /\ mem' = [mem EXCEPT ![l] = e] /\ Owes(p, l, e)
          /\ InFlight(p)' = InFlight(p) \ {Write(l, e)}
          /\ OthersKeep(p) /\ UNCHANGED <<ppc, r_elt, q, cpc, r_e>>
      BY <2>1 DEF FlushLink, Flushes
    <3>2. \A r \in Producers \ {p} : InFlight(r)' = InFlight(r)
      BY <2>0, <3>1, OthersInFlight DEF Threads
    <3>3. \A f \in Elements : mem'[data(f)] = mem[data(f)]
      BY <1>0, <3>1, Places
    <3>4. \A r \in Producers : ppc[r] = "swap" =>
                                mem'[next(r_elt[r])] = mem[next(r_elt[r])]
      <4> SUFFICES ASSUME NEW r \in Producers, ppc[r] = "swap"
                   PROVE  mem'[next(r_elt[r])] = mem[next(r_elt[r])]
        OBVIOUS
      <4>1. l # next(r_elt[r])
        BY <1>p, <3>1, OwedPlace, Places
      <4> QED BY <1>0, <1>p, <3>1, <4>1, Places
    <3>5. \A f \in Elements : /\ Write(data(f), f) # Write(l, e)
                              /\ Write(next(f), Null) # Write(l, e)
      BY Writes, Places
    <3>6. ASSUME NEW r \in Producers PROVE IsPrepared(r)'
      <4>1. ppc[r] = "swap" =>
              /\ Write(data(r_elt[r]), r_elt[r]) \in InFlight(r) =>
                    Write(data(r_elt[r]), r_elt[r]) \in InFlight(r)'
              /\ Write(next(r_elt[r]), Null) \in InFlight(r) =>
                    Write(next(r_elt[r]), Null) \in InFlight(r)'
        BY <1>p, <3>1, <3>2, <3>5
      <4> QED BY <1>i, <1>p, <3>1, <3>3, <3>4, <4>1 DEF IsPrepared
    <3>7. cpc = "clear" => r_e \in Elements
      BY <1>0 DEF Ownership
    <3> QED BY <1>0, <1>g, <1>q, <3>1, <3>3, <3>6, <3>7 DEF Prepared
  <2>2. ASSUME NEW l \in Locations, NEW x \in Addr, FlushPrepared(p, l, x)
        PROVE  Prepared'
    <3>1. /\ mem' = [mem EXCEPT ![l] = x] /\ ppc[p] = "swap"
          /\ InFlight(p)' = InFlight(p) \ {Write(l, x)}
          /\ OthersKeep(p) /\ UNCHANGED <<ppc, r_elt, q, cpc, r_e>>
          /\ \/ l = data(r_elt[p]) /\ x = r_elt[p]
             \/ l = next(r_elt[p]) /\ x = Null
      BY <2>2 DEF FlushPrepared, Flushes
    <3>2. \A r \in Producers \ {p} : InFlight(r)' = InFlight(r)
      BY <2>0, <3>1, OthersInFlight DEF Threads
    <3>3. r_elt[p] \in Elements
      BY <1>p, <3>1
    <3>4. \A f \in Elements : f # r_elt[p] => /\ mem'[data(f)] = mem[data(f)]
                                              /\ mem'[next(f)] = mem[next(f)]
      BY <1>0, <3>1, <3>3, Places
    <3>5. ASSUME NEW r \in Producers PROVE IsPrepared(r)'
      <4>1. CASE r = p
        <5>1. CASE l = data(r_elt[p]) /\ x = r_elt[p]
          <6>1. mem'[data(r_elt[p])] = r_elt[p]
            BY <1>0, <3>1, <3>3, <5>1, Places
          <6>2. mem'[next(r_elt[p])] = mem[next(r_elt[p])]
            BY <1>0, <3>1, <3>3, <5>1, Places
          <6>3. Write(next(r_elt[p]), Null) # Write(l, x)
            BY <3>3, <5>1, Places, Writes
          <6> QED BY <1>i, <3>1, <4>1, <6>1, <6>2, <6>3 DEF IsPrepared
        <5>2. CASE l = next(r_elt[p]) /\ x = Null
          <6>1. mem'[next(r_elt[p])] = Null
            BY <1>0, <3>1, <3>3, <5>2, Places
          <6>2. mem'[data(r_elt[p])] = mem[data(r_elt[p])]
            BY <1>0, <3>1, <3>3, <5>2, Places
          <6>3. Write(data(r_elt[p]), r_elt[p]) # Write(l, x)
            BY <3>3, <5>2, Places, Writes
          <6> QED BY <1>i, <3>1, <4>1, <6>1, <6>2, <6>3 DEF IsPrepared
        <5> QED BY <3>1, <5>1, <5>2
      <4>2. CASE r # p
        <5>1. ppc[r] = "swap" => r_elt[r] \in Elements /\ r_elt[r] # r_elt[p]
          BY <1>p, <3>1, <4>2
        <5> QED BY <1>i, <3>1, <3>2, <3>4, <4>2, <5>1 DEF IsPrepared
      <4> QED BY <4>1, <4>2
    <3>6. cpc = "clear" => r_e \in Elements /\ r_e # r_elt[p]
      BY <1>0, <1>p, <3>1 DEF Ownership
    <3>7. \A i \in 1..Len(q) : q[i] # r_elt[p]
      BY <1>p, <3>1
    <3> QED BY <1>0, <1>g, <1>q, <3>1, <3>4, <3>5, <3>6, <3>7 DEF Prepared
  <2> QED BY <1>0, <1>3, <2>1, <2>2, ProducerFlush
<1>4. ASSUME NEW p \in Producers, NEW e \in Elements, EnqueueCall(p, e)
      PROVE Prepared'
  <2>0. p \in Threads
    BY DEF Threads
  <2>1. /\ InFlight(p)' = InFlight(p) \cup {Write(data(e), e), Write(next(e), Null)}
        /\ OthersKeep(p)
    BY <1>0, <1>4, CallEffect
  <2>2. /\ r_elt'[p] = e /\ UNCHANGED <<mem, q, cpc, r_e>>
        /\ \A r \in Producers \ {p} : ppc'[r] = ppc[r] /\ r_elt'[r] = r_elt[r]
    BY <1>0, <1>4 DEF EnqueueCall, HandedOver, TypeOK
  <2>3. \A r \in Producers \ {p} : InFlight(r)' = InFlight(r)
    BY <2>0, <2>1, OthersInFlight DEF Threads
  <2>4. ASSUME NEW r \in Producers PROVE IsPrepared(r)'
    <3>1. CASE r = p
      BY <2>1, <2>2, <3>1 DEF IsPrepared
    <3>2. CASE r # p
      BY <1>i, <2>2, <2>3, <3>2 DEF IsPrepared
    <3> QED BY <3>1, <3>2
  <2> QED BY <1>0, <1>g, <2>2, <2>4 DEF Prepared
<1>5. ASSUME NEW p \in Producers, EnqueueSwap(p) PROVE Prepared'
  <2>1. ppc[p] = "swap" /\ r_elt[p] \in Elements
    BY <1>p, <1>5 DEF EnqueueSwap
  <2>2. InFlight(p) = {} /\ \A r \in Producers : InFlight(r)' = InFlight(r)
    BY <1>0, <1>5, <2>1, SwapEffect DEF Threads
  <2>3. mem[data(r_elt[p])] = r_elt[p]
    BY <1>i, <2>1, <2>2 DEF IsPrepared
  <2>4. /\ r_elt' = r_elt /\ cpc' = cpc /\ r_e' = r_e
        /\ \A r \in Producers : ppc'[r] = "swap" => ppc[r] = "swap"
        /\ \A f \in Elements : /\ mem'[data(f)] = mem[data(f)]
                                /\ mem'[next(f)] = mem[next(f)]
    BY <1>0, <1>5, Places DEF EnqueueSwap, TypeOK
  <2>5. /\ Len(q') = Len(q) + 1
        /\ \A i \in 1..Len(q) : q'[i] = q[i]
        /\ q'[Len(q) + 1] = r_elt[p]
    BY <1>0, <1>5, <2>1, AppendQ DEF EnqueueSwap, TypeOK
  <2>6. \A r \in Producers : IsPrepared(r)'
    BY <1>i, <1>p, <2>2, <2>4 DEF IsPrepared
  <2>7. ASSUME NEW i \in 1..Len(q') PROVE mem'[data(q'[i])] = q'[i]
    <3>1. CASE i = Len(q) + 1
      BY <2>1, <2>3, <2>4, <2>5, <3>1
    <3>2. CASE i # Len(q) + 1
      <4>1. i \in 1..Len(q)
        BY <1>q, <2>5, <3>2
      <4> QED BY <1>0, <1>q, <2>4, <2>5, <4>1 DEF Prepared
    <3> QED BY <3>1, <3>2
  <2>8. cpc = "clear" => r_e \in Elements
    BY <1>0 DEF Ownership
  <2> QED BY <1>0, <1>g, <2>4, <2>6, <2>7, <2>8 DEF Prepared
<1>6. ASSUME NEW p \in Producers, EnqueueLink(p) PROVE Prepared'
  <2>0. p \in Threads /\ r_elt[p] \in Elements
    BY <1>0, <1>6 DEF Threads, Ownership, EnqueueLink
  <2>1. OthersKeep(p)
    BY <1>0, <1>6, <2>0, LinkEffect DEF Adds
  <2>2. /\ ppc'[p] = "idle" /\ UNCHANGED <<mem, q, cpc, r_e>>
        /\ \A r \in Producers \ {p} : ppc'[r] = ppc[r] /\ r_elt'[r] = r_elt[r]
    BY <1>0, <1>6 DEF EnqueueLink, TypeOK
  <2>3. \A r \in Producers \ {p} : InFlight(r)' = InFlight(r)
    BY <2>0, <2>1, OthersInFlight DEF Threads
  <2>4. ASSUME NEW r \in Producers PROVE IsPrepared(r)'
    BY <1>i, <2>2, <2>3 DEF IsPrepared
  <2> QED BY <1>0, <1>g, <2>2, <2>4 DEF Prepared
<1>7. ASSUME UNCHANGED <<mem, ppc, r_elt, q, r_e>>, cpc' # "clear",
             \A p \in Producers : InFlight(p)' = InFlight(p)
      PROVE  Prepared'
  BY <1>0, <1>g, <1>i, <1>7 DEF Prepared, IsPrepared
<1>8. CASE IsEmptyResetHead
  BY <1>0, <1>7, <1>8, ResetEffect, SameProducers DEF IsEmptyResetHead
<1>9. ASSUME UNCHANGED <<buf, ppc, r_elt, r_prev, r_e>>, q # <<>>, r_e = q[1],
             q' = Tail(q), \A e \in Elements : /\ mem'[data(e)] = mem[data(e)]
                                               /\ mem'[next(e)] = mem[next(e)]
      PROVE  Prepared'
  <2>1. \A p \in Producers : InFlight(p)' = InFlight(p)
    BY <1>9, SameProducers
  <2>2. /\ Len(q) > 0 /\ Len(q') = Len(q) - 1
        /\ \A i \in 1..Len(q') : q'[i] = q[i + 1]
    BY <1>0, <1>9, TailQ DEF TypeOK
  <2>3. \A p \in Producers : IsPrepared(p)'
    BY <1>i, <1>p, <1>9, <2>1 DEF IsPrepared
  <2>4. ASSUME NEW i \in 1..Len(q') PROVE mem'[data(q'[i])] = q'[i]
    <3>1. i+1 \in 1..Len(q) /\ q'[i] = q[i+1]
      BY <1>q, <2>2
    <3> QED BY <1>0, <1>q, <1>9, <3>1 DEF Prepared
  <2>5. mem'[data(r_e')] = r_e'
    <3>1. 1 \in 1..Len(q)
      BY <1>q, <2>2
    <3> QED BY <1>0, <1>q, <1>9, <3>1 DEF Prepared
  <2> QED BY <1>g, <2>3, <2>4, <2>5
<1>10. CASE DequeueAdvance
  <2>1. q # <<>> /\ r_e = q[1]
    BY <1>0, <1>10 DEF DequeueAdvance, Front, front
  <2> QED BY <1>9, <1>10, <2>1 DEF DequeueAdvance
<1>11. CASE DequeueCas
  <2>1. q # <<>> /\ r_e = q[1]
    BY <1>0, <1>11 DEF DequeueCas, Front, front
  <2>2. CASE mem[tail] = r_e
    <3>1. /\ UNCHANGED <<buf, ppc, r_elt, r_prev, r_e>> /\ q' = Tail(q)
          /\ mem' = [mem EXCEPT ![tail] = Null]
      BY <1>11, <2>2 DEF DequeueCas
    <3>2. \A e \in Elements : /\ mem'[data(e)] = mem[data(e)]
                              /\ mem'[next(e)] = mem[next(e)]
      BY <1>0, <3>1, Places
    <3> QED BY <1>9, <2>1, <3>1, <3>2
  <2>3. CASE mem[tail] # r_e
    <3>1. UNCHANGED <<mem, buf, ppc, r_elt, r_prev, q, r_e>> /\ cpc' = "wait"
      BY <1>11, <2>3 DEF DequeueCas
    <3> QED BY <1>7, <3>1, SameProducers
  <2> QED BY <2>2, <2>3
<1>12. CASE DequeueClear
  <2>1. /\ r_e \in Elements /\ \A p \in Producers : buf'[p] = buf[p]
    BY <1>0, <1>12, ClearEffect
  <2>2. /\ mem' = [mem EXCEPT ![data(r_e)] = Null] /\ cpc = "clear"
        /\ UNCHANGED <<ppc, r_elt, r_prev, q>> /\ cpc' = "idle"
    BY <1>12 DEF DequeueClear
  <2>3. \A p \in Producers : InFlight(p)' = InFlight(p)
    BY <2>1, <2>2, SameProducers
  <2>4. \A e \in Elements : /\ e # r_e => mem'[data(e)] = mem[data(e)]
                            /\ mem'[next(e)] = mem[next(e)]
    BY <1>0, <2>1, <2>2, Places
  <2>5. \A p \in Producers : IsPrepared(p)'
    BY <1>i, <1>p, <2>2, <2>3, <2>4 DEF IsPrepared
  <2>6. \A i \in 1..Len(q) : q[i] # r_e
    BY <1>0, <2>2 DEF Ownership
  <2> QED BY <1>0, <1>g, <1>q, <2>2, <2>4, <2>5, <2>6 DEF Prepared
<1>13. CASE \/ IsEmptyShadow \/ IsEmptyLoadHead \/ IsEmptyCopyHead \/ PeekHead
           \/ DequeueWait \/ UNCHANGED vars
  <2>1. UNCHANGED <<mem, buf, ppc, r_elt, r_prev, q, r_e>>
    BY <1>13 DEF IsEmptyShadow, IsEmptyLoadHead, IsEmptyCopyHead, PeekHead,
       DequeueWait, vars
  <2>2. cpc' = "clear" => cpc = "clear"
    BY <1>13 DEF IsEmptyShadow, IsEmptyLoadHead, IsEmptyCopyHead, PeekHead,
       DequeueWait, vars
  <2>3. \A p \in Producers : InFlight(p)' = InFlight(p)
    BY <2>1, SameProducers
  <2> QED BY <1>0, <1>g, <1>i, <2>1, <2>2, <2>3 DEF Prepared, IsPrepared
<1>14. CASE DequeueCall
  <2>1. UNCHANGED <<mem, buf, ppc, r_elt, r_prev, q>> /\ cpc' # "clear"
    BY <1>14 DEF DequeueCall
  <2>2. \A p \in Producers : InFlight(p)' = InFlight(p)
    BY <2>1, SameProducers
  <2> QED BY <1>0, <1>g, <1>i, <2>1, <2>2 DEF Prepared, IsPrepared
<1>h. ASSUME NEW e \in Elements, HeaderInit(e) PROVE Prepared'
  <2>1. /\ UNCHANGED <<ppc, r_elt, q, cpc, r_e>>
        /\ \A p \in Producers : InFlight(p)' = InFlight(p)
        /\ \A x \in Elements : /\ mem'[data(x)] = mem[data(x)]
                               /\ mem'[next(x)] \in {mem[next(x)], Null}
    BY <1>0, <1>h, HeaderEffect DEF Threads
  <2> QED BY <1>1, <2>1
<1> QED
  BY <1>h, <1>2, <1>3, <1>4, <1>5, <1>6, <1>8, <1>10, <1>11, <1>12, <1>13, <1>14
     DEF Next, EnqueueStep, IsEmptyCall, ConsumerStep, Threads

(* What a flush does to the links of the queue.                            *)
LEMMA FlushedLinks ==
    ASSUME RelaxedInv, NEW t \in Threads, FlushSome(t)
    PROVE  \/ /\ SameDebts
              /\ \A i \in 1..Len(q) : mem'[next(q[i])] = mem[next(q[i])]
           \/ \E p \in Producers, e \in Elements :
                 /\ FlushLink(p, head, e)
                 /\ \A i \in 1..Len(q) : mem'[next(q[i])] = mem[next(q[i])]
           \/ \E p \in Producers, j \in 1..Len(q)-1 :
                 /\ FlushLink(p, next(q[j]), q[j+1])
                 /\ mem[next(q[j])] = Null /\ mem'[next(q[j])] = q[j+1]
                 /\ \A i \in 1..Len(q) : i # j => mem'[next(q[i])] = mem[next(q[i])]
<1>0. TypeOK /\ Ownership /\ Buffers /\ mem \in [Locations -> Addr]
  BY DEF RelaxedInv, TypeOK
<1>q. /\ Len(q) \in Nat /\ \A i \in 1..Len(q) : q[i] \in Elements \ pool
      /\ \A i, j \in 1..Len(q) : q[i] = q[j] => i = j
  BY <1>0, ElementQ DEF Ownership
<1>1. CASE FlushReset
  <2>1. SameDebts /\ mem' = [mem EXCEPT ![head] = Null]
    BY <1>1 DEF FlushReset
  <2> QED BY <1>0, <1>q, <2>1, Places
<1>2. ASSUME NEW e \in pool, FlushClear(e)
      PROVE  SameDebts /\ \A i \in 1..Len(q) : mem'[next(q[i])] = mem[next(q[i])]
  <2>1. SameDebts /\ mem' = [mem EXCEPT ![next(e)] = Null] /\ e \in Elements
    BY <1>0, <1>2 DEF FlushClear, TypeOK
  <2> QED BY <1>0, <1>q, <2>1, Places
<1>3. ASSUME NEW p \in Producers, NEW l \in Locations, NEW x \in Addr,
             FlushPrepared(p, l, x)
      PROVE  SameDebts /\ \A i \in 1..Len(q) : mem'[next(q[i])] = mem[next(q[i])]
  <2>1. /\ SameDebts /\ mem' = [mem EXCEPT ![l] = x] /\ ppc[p] = "swap"
        /\ l = data(r_elt[p]) \/ l = next(r_elt[p])
    BY <1>3 DEF FlushPrepared
  <2>2. r_elt[p] \in Elements /\ \A i \in 1..Len(q) : q[i] # r_elt[p]
    BY <1>0, <2>1 DEF Ownership
  <2> QED BY <1>0, <1>q, <2>1, <2>2, Places
<1>4. ASSUME NEW p \in Producers, NEW l \in Links, NEW e \in Elements,
             FlushLink(p, l, e)
      PROVE  \/ /\ FlushLink(p, head, e)
                /\ \A i \in 1..Len(q) : mem'[next(q[i])] = mem[next(q[i])]
             \/ \E j \in 1..Len(q)-1 :
                   /\ FlushLink(p, next(q[j]), q[j+1])
                   /\ mem[next(q[j])] = Null /\ mem'[next(q[j])] = q[j+1]
                   /\ \A i \in 1..Len(q) :
                         i # j => mem'[next(q[i])] = mem[next(q[i])]
  <2>1. mem' = [mem EXCEPT ![l] = e] /\ Owes(p, l, e)
    BY <1>4 DEF FlushLink
  <2>2. CASE l = head
    BY <1>0, <1>q, <1>4, <2>1, <2>2, Places
  <2>3. ASSUME NEW j \in 1..Len(q)-1, l = next(q[j]), e = q[j+1], mem[l] = Null
        PROVE  /\ FlushLink(p, next(q[j]), q[j+1])
               /\ mem[next(q[j])] = Null /\ mem'[next(q[j])] = q[j+1]
               /\ \A i \in 1..Len(q) : i # j => mem'[next(q[i])] = mem[next(q[i])]
    <3>1. j \in 1..Len(q)
      BY <1>q
    <3>2. \A i \in 1..Len(q) : i # j => next(q[i]) # next(q[j])
      BY <1>q, <3>1, Places
    <3>3. mem \in [Locations -> Addr] /\ \A i \in 1..Len(q) : next(q[i]) \in Locations
      BY <1>0, <1>q, Places DEF TypeOK
    <3>4. FlushLink(p, next(q[j]), q[j+1]) /\ mem[next(q[j])] = Null
      BY <1>4, <2>3
    <3>5. mem' = [mem EXCEPT ![next(q[j])] = q[j+1]]
      BY <2>1, <2>3
    <3>6. next(q[j]) \in Locations
      BY <3>1, <3>3
    <3>7. mem'[next(q[j])] = q[j+1]
      BY <3>3, <3>5, <3>6
    <3>8. ASSUME NEW i \in 1..Len(q), i # j
          PROVE  mem'[next(q[i])] = mem[next(q[i])]
      <4>1. next(q[i]) # next(q[j]) /\ next(q[i]) \in Locations
        BY <3>2, <3>3, <3>8
      <4> QED BY <3>3, <3>5, <4>1
    <3> QED BY <3>4, <3>7, <3>8
  <2>4. CASE l # head
    <3>1. PICK j \in 1..Len(q)-1 : l = next(q[j]) /\ e = q[j+1] /\ mem[l] = Null
      BY <2>1, <2>4, OwedPlace
    <3>2. /\ FlushLink(p, next(q[j]), q[j+1])
          /\ mem[next(q[j])] = Null /\ mem'[next(q[j])] = q[j+1]
          /\ \A i \in 1..Len(q) : i # j => mem'[next(q[i])] = mem[next(q[i])]
      BY <2>3, <3>1
    <3> QED BY <3>2
  <2> QED BY <2>2, <2>4
<1>5. CASE t = Consumer
  BY <1>0, <1>1, <1>2, <1>5, ConsumerFlush
<1>6. CASE t \in Producers
  BY <1>0, <1>3, <1>4, <1>6, ProducerFlush
<1> QED BY <1>5, <1>6 DEF Threads

LEMMA ChainStep == RelaxedInv /\ [Next]_vars => Chain'
<1> SUFFICES ASSUME RelaxedInv, [Next]_vars PROVE Chain'
  OBVIOUS
<1> USE ModelAssumption DEF producerVars, consumerVars
<1>0. /\ TypeOK /\ Ownership /\ Buffers /\ Prepared /\ Chain /\ Owed /\ Front
      /\ mem \in [Locations -> Addr]
  BY DEF RelaxedInv, TypeOK
<1>q. /\ Len(q) \in Nat /\ \A i \in 1..Len(q) : q[i] \in Elements
      /\ (q = <<>>) <=> (Len(q) = 0)
      /\ \A i \in 1..Len(q) : next(q[i]) \in Links
      /\ \A i \in 1..Len(q)-1 : q[i] \in Elements /\ q[i+1] \in Elements
  BY <1>0, ElementQ, Places
<1>k. ASSUME q' = q, SameDebts, mem'[tail] = mem[tail],
             \A i \in 1..Len(q) : mem'[next(q[i])] = mem[next(q[i])]
      PROVE  Chain'
  <2>1. ASSUME NEW i \in 1..Len(q)-1
        PROVE  \/ mem'[next(q[i])] = q[i+1]
               \/ \E p \in Producers : (Owes(p, next(q[i]), q[i+1]))'
    <3>1. i \in 1..Len(q)
      BY <1>q
    <3> QED BY <1>0, <1>q, <1>k, <3>1 DEF Chain, SameDebts
  <2> QED BY <1>0, <1>q, <1>k, <2>1 DEF Chain
<1>1. ASSUME NEW t \in Threads, FlushSome(t) PROVE Chain'
  <2>0. q' = q
    BY <1>1 DEF FlushSome, Flush
  <2>1. mem'[tail] = mem[tail]
    <3>1. PICK w \in InFlight(t) : Flushes(t, w)
      BY <1>0, <1>1, FlushEffect
    <3>2. w.loc # tail
      <4>1. CASE t = Consumer
        <5>1. w = Write(head, Null) \/ \E e \in pool : w = Write(next(e), Null)
          BY <1>0, <4>1 DEF Buffers
        <5>2. w.loc = head \/ \E e \in Elements : w.loc = next(e)
          BY <1>0, <5>1, Writes DEF TypeOK
        <5> QED BY <5>2, Places
      <4>2. CASE t \in Producers
        BY <1>0, <4>2, Places, Writes DEF Buffers, Ownership
      <4> QED BY <4>1, <4>2 DEF Threads
    <3> QED BY <1>0, <3>1, <3>2, Places DEF Flushes
  <2>2. CASE /\ SameDebts
             /\ \A i \in 1..Len(q) : mem'[next(q[i])] = mem[next(q[i])]
    BY <1>k, <2>0, <2>1, <2>2
  <2>3. ASSUME NEW p \in Producers, NEW e \in Elements, FlushLink(p, head, e),
               \A i \in 1..Len(q) : mem'[next(q[i])] = mem[next(q[i])]
        PROVE  Chain'
    <3>1. \A r \in Producers, x \in Elements, f \in Elements :
             Owes(r, next(x), f)' <=> Owes(r, next(x), f)
      BY <2>3, Places DEF FlushLink
    <3>2. ASSUME NEW i \in 1..Len(q)-1
          PROVE  \/ mem'[next(q[i])] = q[i+1]
                 \/ \E r \in Producers : (Owes(r, next(q[i]), q[i+1]))'
      <4>1. i \in 1..Len(q)
        BY <1>q
      <4> QED BY <1>0, <1>q, <2>0, <2>3, <3>1, <4>1 DEF Chain
    <3> QED BY <1>0, <1>q, <2>0, <2>1, <2>3, <3>2 DEF Chain
  <2>4. ASSUME NEW p \in Producers, NEW j \in 1..Len(q)-1,
               FlushLink(p, next(q[j]), q[j+1]), mem'[next(q[j])] = q[j+1],
               \A i \in 1..Len(q) : i # j => mem'[next(q[i])] = mem[next(q[i])]
        PROVE  Chain'
    <3>1. \A r \in Producers, x \in Elements, f \in Elements :
             x # q[j] => (Owes(r, next(x), f)' <=> Owes(r, next(x), f))
      BY <1>q, <2>4, Places DEF FlushLink
    <3>2. ASSUME NEW i \in 1..Len(q)-1
          PROVE  \/ mem'[next(q[i])] = q[i+1]
                 \/ \E r \in Producers : (Owes(r, next(q[i]), q[i+1]))'
      <4>1. CASE i = j
        BY <2>4, <4>1
      <4>2. CASE i # j
        <5>1. i \in 1..Len(q) /\ j \in 1..Len(q) /\ q[i] # q[j]
          BY <1>0, <1>q, <4>2 DEF Ownership
        <5> QED BY <1>0, <1>q, <2>0, <2>4, <3>1, <4>2, <5>1 DEF Chain
      <4> QED BY <4>1, <4>2
    <3>3. Len(q) \in 1..Len(q) /\ Len(q) # j
      BY <1>q
    <3> QED BY <1>0, <1>q, <2>0, <2>1, <2>4, <3>2, <3>3 DEF Chain
  <2> QED BY <1>1, <2>2, <2>3, <2>4, FlushedLinks
<1>2. ASSUME NEW p \in Producers, NEW e \in Elements, EnqueueCall(p, e)
      PROVE Chain'
  BY <1>0, <1>k, <1>2, CallEffect DEF EnqueueCall
<1>3. ASSUME NEW p \in Producers, EnqueueSwap(p) PROVE Chain'
  <2>1. /\ ppc[p] = "swap" /\ r_elt[p] \in Elements
        /\ mem' = [mem EXCEPT ![tail] = r_elt[p]] /\ q' = Append(q, r_elt[p])
    BY <1>0, <1>3 DEF EnqueueSwap, Ownership
  <2>2. /\ InFlight(p) = {}
        /\ \A r \in Producers, l \in Links, e \in Elements :
             Owes(r, l, e)' <=> \/ Owes(r, l, e)
                                \/ /\ r = p /\ e = r_elt[p]
                                   /\ l = IF mem[tail] = Null THEN head
                                          ELSE next(mem[tail])
    BY <1>0, <1>3, <2>1, SwapEffect
  <2>3. mem[next(r_elt[p])] = Null
    BY <1>0, <2>1, <2>2 DEF Prepared
  <2>4. /\ Len(q') = Len(q) + 1 /\ q' # <<>>
        /\ \A i \in 1..Len(q) : q'[i] = q[i]
        /\ q'[Len(q) + 1] = r_elt[p]
    BY <1>0, <2>1, AppendQ DEF TypeOK
  <2>5. /\ mem'[tail] = r_elt[p]
        /\ \A x \in Elements : mem'[next(x)] = mem[next(x)]
    BY <1>0, <2>1, Places
  <2>6. ASSUME NEW i \in 1..Len(q')-1
        PROVE  \/ mem'[next(q'[i])] = q'[i+1]
               \/ \E r \in Producers : (Owes(r, next(q[i]), q[i+1]))'
    <3>1. CASE i = Len(q)
      <4>1. mem[tail] = q[i] /\ q[i] \in Elements /\ q'[i] = q[i]
            /\ q'[i+1] = r_elt[p]
        BY <1>0, <1>q, <2>4, <3>1 DEF Chain
      <4>2. (Owes(p, next(q[i]), q[i+1]))'
        BY <2>1, <2>2, <4>1, Places
      <4> QED BY <4>2
    <3>2. CASE i # Len(q)
      <4>1. /\ i \in 1..Len(q)-1 /\ q'[i] = q[i] /\ q'[i+1] = q[i+1]
            /\ q[i] \in Elements /\ q[i+1] \in Elements /\ next(q[i]) \in Links
        BY <1>q, <2>4, <3>2
      <4>2. CASE mem[next(q[i])] = q[i+1]
        BY <2>5, <4>1, <4>2
      <4>3. CASE mem[next(q[i])] # q[i+1]
        <5>1. PICK r \in Producers : Owes(r, next(q[i]), q[i+1])
          BY <1>0, <4>1, <4>3 DEF Chain
        <5>2. (Owes(r, next(q[i]), q[i+1]))'
          BY <2>2, <4>1, <5>1
        <5> QED BY <5>2
      <4> QED BY <4>2, <4>3
    <3> QED BY <3>1, <3>2
  <2>7. mem'[next(q'[Len(q')])] = Null /\ mem'[tail] = q'[Len(q')]
    BY <1>q, <2>1, <2>3, <2>4, <2>5
  <2> QED BY <2>4, <2>6, <2>7 DEF Chain
<1>4. ASSUME NEW p \in Producers, EnqueueLink(p) PROVE Chain'
  <2>1. r_elt[p] \in Elements
    BY <1>0, <1>4 DEF Ownership, EnqueueLink
  <2> QED BY <1>0, <1>k, <1>4, <2>1, LinkEffect DEF EnqueueLink
<1>5. CASE IsEmptyResetHead
  BY <1>0, <1>k, <1>5, ResetEffect DEF IsEmptyResetHead
<1>6. CASE DequeueAdvance
  <2>1. /\ r_e = q[1] /\ q # <<>> /\ mem[next(q[1])] # Null
        /\ q' = Tail(q) /\ mem' = mem /\ UNCHANGED <<buf, ppc, r_elt, r_prev>>
    BY <1>0, <1>6 DEF DequeueAdvance, Front, front
  <2>2. /\ Len(q) > 0 /\ Len(q') = Len(q) - 1
        /\ \A i \in 1..Len(q') : q'[i] = q[i + 1]
        /\ (q' = <<>>) <=> (Len(q) = 1)
    BY <1>0, <2>1, TailQ DEF TypeOK
  <2>3. Len(q) # 1
    BY <1>0, <2>1 DEF Chain
  <2>4. SameDebts
    BY <2>1, NoStore
  <2>5. ASSUME NEW i \in 1..Len(q')-1
        PROVE  \/ mem'[next(q'[i])] = q'[i+1]
               \/ \E r \in Producers : (Owes(r, next(q[i]), q[i+1]))'
    <3>1. /\ i+1 \in 1..Len(q)-1 /\ q'[i] = q[i+1] /\ q'[i+1] = q[(i+1)+1]
          /\ next(q[i+1]) \in Links /\ q[(i+1)+1] \in Elements
      BY <1>q, <2>2
    <3>2. CASE mem[next(q[i+1])] = q[(i+1)+1]
      BY <2>1, <3>1, <3>2
    <3>3. CASE mem[next(q[i+1])] # q[(i+1)+1]
      <4>1. PICK r \in Producers : Owes(r, next(q[i+1]), q[(i+1)+1])
        BY <1>0, <3>1, <3>3 DEF Chain
      <4>2. (Owes(r, next(q[i]), q[i+1]))'
        BY <2>4, <3>1, <4>1 DEF SameDebts
      <4> QED BY <4>2
    <3> QED BY <3>2, <3>3
  <2>6. q' # <<>> /\ q'[Len(q')] = q[Len(q)]
    BY <1>q, <2>2, <2>3
  <2> QED BY <1>0, <2>1, <2>5, <2>6 DEF Chain
<1>7. CASE DequeueCas
  <2>1. CASE mem[tail] = r_e
    <3>1. /\ q # <<>> /\ q' = Tail(q) /\ mem' = [mem EXCEPT ![tail] = Null]
      BY <1>0, <1>7, <2>1 DEF DequeueCas, Front, front
    <3>2. Len(q) = 1 /\ Len(q') = 0 /\ q' = <<>>
      BY <1>0, <1>q, <1>7, <2>1, <3>1, CasOnLast, TailQ DEF DequeueCas, TypeOK
    <3>3. mem'[tail] = Null
      BY <1>0, <3>1, Places
    <3> QED BY <3>2, <3>3 DEF Chain
  <2>2. CASE mem[tail] # r_e
    BY <1>k, <1>7, <2>2, NoStore DEF DequeueCas
  <2> QED BY <2>1, <2>2
<1>8. CASE DequeueClear
  <2>1. SameDebts /\ r_e \in Elements
    BY <1>0, <1>8, ClearEffect
  <2>2. mem' = [mem EXCEPT ![data(r_e)] = Null] /\ q' = q
    BY <1>8 DEF DequeueClear
  <2>3. /\ mem'[tail] = mem[tail]
        /\ \A x \in Elements : mem'[next(x)] = mem[next(x)]
    BY <1>0, <2>1, <2>2, Places
  <2> QED BY <1>k, <1>q, <2>1, <2>2, <2>3
<1>9. CASE \/ IsEmptyShadow \/ IsEmptyLoadHead \/ IsEmptyCopyHead \/ PeekHead
          \/ DequeueCall \/ DequeueWait \/ UNCHANGED vars
  <2>1. UNCHANGED <<mem, buf, ppc, r_elt, r_prev, q>>
    BY <1>9 DEF IsEmptyShadow, IsEmptyLoadHead, IsEmptyCopyHead, PeekHead,
       DequeueCall, DequeueWait, vars
  <2> QED BY <1>k, <2>1, NoStore
<1>h. ASSUME NEW e \in Elements, HeaderInit(e) PROVE Chain'
  <2>1. \A i \in 1..Len(q) : q[i] # e
    BY <1>0, <1>h, HeaderEffect DEF Ownership
  <2> QED BY <1>0, <1>k, <1>q, <1>h, <2>1, HeaderEffect
<1> QED
  BY <1>h, <1>1, <1>2, <1>3, <1>4, <1>5, <1>6, <1>7, <1>8, <1>9
     DEF Next, EnqueueStep, IsEmptyCall, ConsumerStep

(* The three things Owed says of a debt.                                   *)
OwedOk(p, l, e) ==
    /\ l = head => q # <<>> /\ e = q[1]
    /\ \A x \in Elements : l = next(x) =>
          \E i \in 1..Len(q)-1 : x = q[i] /\ e = q[i+1] /\ mem[next(x)] = Null
    /\ \A r \in Producers, m \in Links : Owes(r, m, e) => p = r

LEMMA OwedByDebt ==
    Owed <=> \A p \in Producers, l \in Links, e \in Elements :
                Owes(p, l, e) => OwedOk(p, l, e)
<1>1. ASSUME Owed, NEW p \in Producers, NEW l \in Links, NEW e \in Elements,
             Owes(p, l, e)
      PROVE  OwedOk(p, l, e)
  BY <1>1 DEF Owed, OwedOk
<1>2. ASSUME \A p \in Producers, l \in Links, e \in Elements :
                Owes(p, l, e) => OwedOk(p, l, e)
      PROVE  Owed
  <2> SUFFICES ASSUME NEW p \in Producers, NEW e \in Elements
               PROVE  /\ Owes(p, head, e) => q # <<>> /\ e = q[1]
                      /\ \A x \in Elements : Owes(p, next(x), e) =>
                            \E i \in 1..Len(q)-1 :
                               x = q[i] /\ e = q[i+1] /\ mem[next(x)] = Null
                      /\ \A r \in Producers, l, m \in Links :
                            Owes(p, l, e) /\ Owes(r, m, e) => p = r
    BY DEF Owed
  <2> QED BY <1>2, Places DEF OwedOk
<1> QED BY <1>1, <1>2

LEMMA OwedStep == RelaxedInv /\ [Next]_vars => Owed'
<1> SUFFICES ASSUME RelaxedInv, [Next]_vars PROVE Owed'
  OBVIOUS
<1> USE ModelAssumption DEF producerVars, consumerVars
<1>0. /\ TypeOK /\ Ownership /\ Buffers /\ Prepared /\ Chain /\ Owed /\ Front
      /\ mem \in [Locations -> Addr]
  BY DEF RelaxedInv, TypeOK
<1>q. /\ Len(q) \in Nat /\ \A i \in 1..Len(q) : q[i] \in Elements
      /\ (q = <<>>) <=> (Len(q) = 0)
      /\ \A i \in 1..Len(q)-1 : i \in 1..Len(q) /\ i+1 \in 1..Len(q)
  BY <1>0, ElementQ
<1>o. \A p \in Producers, l \in Links, e \in Elements :
         Owes(p, l, e) => OwedOk(p, l, e)
  BY <1>0, OwedByDebt
<1>g. ASSUME \A p \in Producers, l \in Links, e \in Elements :
                Owes(p, l, e)' =>
                  /\ l = head => q' # <<>> /\ e = q'[1]
                  /\ \A x \in Elements : l = next(x) =>
                        \E i \in 1..Len(q')-1 :
                           x = q'[i] /\ e = q'[i+1] /\ mem'[next(x)] = Null
                  /\ \A r \in Producers, m \in Links : Owes(r, m, e)' => p = r
      PROVE  Owed'
  <2> SUFFICES ASSUME NEW p \in Producers, NEW e \in Elements
               PROVE  /\ Owes(p, head, e)' => q' # <<>> /\ e = q'[1]
                      /\ \A x \in Elements : Owes(p, next(x), e)' =>
                            \E i \in 1..Len(q')-1 :
                               x = q'[i] /\ e = q'[i+1] /\ mem'[next(x)] = Null
                      /\ \A r \in Producers, l, m \in Links :
                            Owes(p, l, e)' /\ Owes(r, m, e)' => p = r
    BY DEF Owed
  <2> QED BY <1>g, Places
<1>k. ASSUME q' = q, SameDebts,
             \A i \in 1..Len(q) : mem'[next(q[i])] = mem[next(q[i])]
      PROVE  Owed'
  <2>1. ASSUME NEW p \in Producers, NEW l \in Links, NEW e \in Elements,
               Owes(p, l, e)'
        PROVE  /\ l = head => q' # <<>> /\ e = q'[1]
               /\ \A x \in Elements : l = next(x) =>
                     \E i \in 1..Len(q')-1 :
                        x = q'[i] /\ e = q'[i+1] /\ mem'[next(x)] = Null
               /\ \A r \in Producers, m \in Links : Owes(r, m, e)' => p = r
    <3>1. OwedOk(p, l, e)
      BY <1>o, <1>k, <2>1 DEF SameDebts
    <3> QED BY <1>q, <1>k, <3>1 DEF OwedOk, SameDebts
  <2> QED BY <1>g, <2>1
<1>1. ASSUME NEW t \in Threads, FlushSome(t) PROVE Owed'
  <2>0. q' = q
    BY <1>1 DEF FlushSome, Flush
  <2>1. CASE /\ SameDebts
             /\ \A i \in 1..Len(q) : mem'[next(q[i])] = mem[next(q[i])]
    BY <1>k, <2>0, <2>1
  <2>2. ASSUME NEW p \in Producers, NEW e \in Elements, FlushLink(p, head, e),
               \A i \in 1..Len(q) : mem'[next(q[i])] = mem[next(q[i])]
        PROVE  Owed'
    <3>1. \A r \in Producers, m \in Links, f \in Elements :
             Owes(r, m, f)' => Owes(r, m, f)
      BY <2>2 DEF FlushLink
    <3>2. ASSUME NEW r \in Producers, NEW m \in Links, NEW f \in Elements,
                 Owes(r, m, f)'
          PROVE  /\ m = head => q' # <<>> /\ f = q'[1]
                 /\ \A x \in Elements : m = next(x) =>
                       \E i \in 1..Len(q')-1 :
                          x = q'[i] /\ f = q'[i+1] /\ mem'[next(x)] = Null
                 /\ \A u \in Producers, n \in Links : Owes(u, n, f)' => r = u
      <4>1. OwedOk(r, m, f)
        BY <1>o, <3>1, <3>2
      <4> QED BY <1>q, <2>0, <2>2, <3>1, <4>1 DEF OwedOk
    <3> QED BY <1>g, <3>2
  <2>3. ASSUME NEW p \in Producers, NEW j \in 1..Len(q)-1,
               FlushLink(p, next(q[j]), q[j+1]),
               \A i \in 1..Len(q) : i # j => mem'[next(q[i])] = mem[next(q[i])]
        PROVE  Owed'
    <3>1. /\ \A r \in Producers, m \in Links, f \in Elements :
               Owes(r, m, f)' => /\ Owes(r, m, f)
                                 /\ ~(r = p /\ m = next(q[j]) /\ f = q[j+1])
          /\ Owes(p, next(q[j]), q[j+1])
      BY <2>3 DEF FlushLink
    <3>2. ASSUME NEW r \in Producers, NEW m \in Links, NEW f \in Elements,
                 Owes(r, m, f)'
          PROVE  /\ m = head => q' # <<>> /\ f = q'[1]
                 /\ \A x \in Elements : m = next(x) =>
                       \E i \in 1..Len(q')-1 :
                          x = q'[i] /\ f = q'[i+1] /\ mem'[next(x)] = Null
                 /\ \A u \in Producers, n \in Links : Owes(u, n, f)' => r = u
      <4>1. OwedOk(r, m, f)
        BY <1>o, <3>1, <3>2
      <4>2. ASSUME NEW x \in Elements, m = next(x)
            PROVE  \E i \in 1..Len(q)-1 :
                      x = q[i] /\ f = q[i+1] /\ mem'[next(x)] = Null
        <5>1. PICK i \in 1..Len(q)-1 : x = q[i] /\ f = q[i+1] /\ mem[next(x)] = Null
          BY <4>1, <4>2 DEF OwedOk
        <5>2. i # j
          <6> SUFFICES ASSUME i = j PROVE FALSE
            OBVIOUS
          <6>1. Owes(p, next(q[j]), f) /\ m = next(q[j]) /\ f = q[j+1]
            BY <3>1, <4>2, <5>1
          <6>2. r = p
            BY <1>q, <4>1, <6>1, Places DEF OwedOk
          <6> QED BY <3>1, <3>2, <6>1, <6>2
        <5> QED BY <1>q, <2>3, <5>1, <5>2
      <4> QED BY <2>0, <3>1, <4>1, <4>2 DEF OwedOk
    <3> QED BY <1>g, <3>2
  <2> QED BY <1>1, <2>1, <2>2, <2>3, FlushedLinks
<1>2. ASSUME NEW p \in Producers, NEW e \in Elements, EnqueueCall(p, e)
      PROVE Owed'
  BY <1>0, <1>k, <1>2, CallEffect DEF EnqueueCall
<1>3. ASSUME NEW p \in Producers, EnqueueSwap(p) PROVE Owed'
  <2>1. /\ ppc[p] = "swap" /\ r_elt[p] \in Elements
        /\ mem' = [mem EXCEPT ![tail] = r_elt[p]] /\ q' = Append(q, r_elt[p])
        /\ \A i \in 1..Len(q) : q[i] # r_elt[p]
    BY <1>0, <1>3 DEF EnqueueSwap, Ownership
  <2>2. \A r \in Producers, l \in Links, e \in Elements :
             Owes(r, l, e)' <=> \/ Owes(r, l, e)
                                \/ /\ r = p /\ e = r_elt[p]
                                   /\ l = IF mem[tail] = Null THEN head
                                          ELSE next(mem[tail])
    BY <1>0, <1>3, <2>1, SwapEffect
  <2>3. /\ Len(q') = Len(q) + 1 /\ q' # <<>>
        /\ \A i \in 1..Len(q) : q'[i] = q[i]
        /\ q'[Len(q) + 1] = r_elt[p]
    BY <1>0, <2>1, AppendQ DEF TypeOK
  <2>4. \A x \in Elements : mem'[next(x)] = mem[next(x)]
    BY <1>0, <2>1, Places
  <2>5. \A r \in Producers, l \in Links : ~Owes(r, l, r_elt[p])
    <3> SUFFICES ASSUME NEW r \in Producers, NEW l \in Links, Owes(r, l, r_elt[p])
                 PROVE  FALSE
      OBVIOUS
    <3>1. CASE l = head /\ q # <<>> /\ r_elt[p] = q[1]
      <4>1. 1 \in 1..Len(q)
        BY <1>q, <3>1
      <4> QED BY <2>1, <3>1, <4>1
    <3>2. ASSUME NEW i \in 1..Len(q)-1, r_elt[p] = q[i+1] PROVE FALSE
      BY <1>q, <2>1, <3>2
    <3> QED BY <2>1, <3>1, <3>2, OwedPlace
  <2>6. ASSUME NEW r \in Producers, NEW l \in Links, NEW e \in Elements,
               Owes(r, l, e)'
        PROVE  /\ l = head => q' # <<>> /\ e = q'[1]
               /\ \A x \in Elements : l = next(x) =>
                     \E i \in 1..Len(q')-1 :
                        x = q'[i] /\ e = q'[i+1] /\ mem'[next(x)] = Null
               /\ \A u \in Producers, m \in Links : Owes(u, m, e)' => r = u
    <3>1. CASE Owes(r, l, e)
      <4>1. OwedOk(r, l, e)
        BY <1>o, <3>1
      <4>2. l = head => e = q'[1]
        <5> SUFFICES ASSUME l = head PROVE e = q'[1]
          OBVIOUS
        <5>1. q # <<>> /\ e = q[1]
          BY <4>1 DEF OwedOk
        <5>2. 1 \in 1..Len(q)
          BY <1>q, <5>1
        <5> QED BY <2>3, <5>1, <5>2
      <4>3. ASSUME NEW x \in Elements, l = next(x)
            PROVE  \E i \in 1..Len(q')-1 :
                      x = q'[i] /\ e = q'[i+1] /\ mem'[next(x)] = Null
        <5>1. PICK i \in 1..Len(q)-1 : x = q[i] /\ e = q[i+1] /\ mem[next(x)] = Null
          BY <4>1, <4>3 DEF OwedOk
        <5>2. i \in 1..Len(q')-1 /\ q'[i] = q[i] /\ q'[i+1] = q[i+1]
          BY <1>q, <2>3
        <5> QED BY <2>4, <5>1, <5>2
      <4>4. e # r_elt[p]
        BY <2>5, <3>1
      <4> QED BY <2>2, <2>3, <4>1, <4>2, <4>3, <4>4 DEF OwedOk
    <3>2. CASE /\ r = p /\ e = r_elt[p]
               /\ l = IF mem[tail] = Null THEN head ELSE next(mem[tail])
      <4>1. CASE q = <<>>
        <5>1. l = head /\ Len(q) = 0
          BY <1>0, <1>q, <3>2, <4>1 DEF Chain
        <5>2. q'[1] = e
          BY <2>3, <3>2, <5>1
        <5>3. \A x \in Elements : l # next(x)
          BY <5>1, Places
        <5> QED BY <2>2, <2>3, <2>5, <3>2, <5>1, <5>2, <5>3
      <4>2. CASE q # <<>>
        <5>1. /\ Len(q) \in 1..Len(q) /\ mem[tail] = q[Len(q)]
              /\ mem[next(q[Len(q)])] = Null
          BY <1>0, <1>q, <4>2 DEF Chain
        <5>2. l = next(q[Len(q)]) /\ q[Len(q)] \in Elements
          BY <1>q, <3>2, <5>1
        <5>3. /\ Len(q) \in 1..Len(q')-1 /\ q'[Len(q)] = q[Len(q)]
              /\ q'[Len(q) + 1] = e
          BY <1>q, <2>3, <3>2, <5>1
        <5>4. \A x \in Elements : l = next(x) =>
                 \E i \in 1..Len(q')-1 :
                    x = q'[i] /\ e = q'[i+1] /\ mem'[next(x)] = Null
          BY <2>4, <5>1, <5>2, <5>3, Places
        <5>5. l # head
          BY <5>2, Places
        <5> QED BY <2>2, <2>5, <3>2, <5>4, <5>5
      <4> QED BY <4>1, <4>2
    <3> QED BY <2>2, <2>6, <3>1, <3>2
  <2> QED BY <1>g, <2>6
<1>4. ASSUME NEW p \in Producers, EnqueueLink(p) PROVE Owed'
  <2>1. r_elt[p] \in Elements
    BY <1>0, <1>4 DEF Ownership, EnqueueLink
  <2> QED BY <1>0, <1>k, <1>4, <2>1, LinkEffect DEF EnqueueLink
<1>5. CASE IsEmptyResetHead
  BY <1>0, <1>k, <1>5, ResetEffect DEF IsEmptyResetHead
<1>6. ASSUME q # <<>>, q' = Tail(q), SameDebts, ~OwesHead,
             \A x \in Elements : mem'[next(x)] = mem[next(x)],
             Len(q) = 1 \/ mem[next(q[1])] # Null
      PROVE  Owed'
  <2>1. /\ Len(q) > 0 /\ Len(q') = Len(q) - 1
        /\ \A i \in 1..Len(q') : q'[i] = q[i + 1]
    BY <1>0, <1>6, TailQ DEF TypeOK
  <2>2. ASSUME NEW r \in Producers, NEW l \in Links, NEW e \in Elements,
               Owes(r, l, e)'
        PROVE  /\ l = head => q' # <<>> /\ e = q'[1]
               /\ \A x \in Elements : l = next(x) =>
                     \E i \in 1..Len(q')-1 :
                        x = q'[i] /\ e = q'[i+1] /\ mem'[next(x)] = Null
               /\ \A u \in Producers, m \in Links : Owes(u, m, e)' => r = u
    <3>1. Owes(r, l, e) /\ OwedOk(r, l, e)
      BY <1>o, <1>6, <2>2 DEF SameDebts
    <3>2. l # head
      BY <1>6, <3>1 DEF OwesHead
    <3>3. ASSUME NEW x \in Elements, l = next(x)
          PROVE  \E i \in 1..Len(q')-1 :
                    x = q'[i] /\ e = q'[i+1] /\ mem'[next(x)] = Null
      <4>1. PICK i \in 1..Len(q)-1 : x = q[i] /\ e = q[i+1] /\ mem[next(x)] = Null
        BY <3>1, <3>3 DEF OwedOk
      <4>2. i # 1
        BY <1>q, <1>6, <4>1
      <4>3. /\ i-1 \in 1..Len(q')-1 /\ i-1 \in 1..Len(q') /\ i \in 1..Len(q')
            /\ (i-1)+1 = i
        BY <1>q, <2>1, <4>2
      <4>4. q'[i-1] = q[i] /\ q'[(i-1)+1] = q[i+1]
        BY <2>1, <4>3
      <4> QED BY <1>6, <4>1, <4>3, <4>4
    <3> QED BY <1>6, <3>1, <3>2, <3>3 DEF OwedOk, SameDebts
  <2> QED BY <1>g, <2>2
<1>7. CASE DequeueAdvance
  <2>1. /\ q # <<>> /\ ~OwesHead /\ mem[next(q[1])] # Null
        /\ q' = Tail(q) /\ mem' = mem /\ UNCHANGED <<buf, ppc, r_elt, r_prev>>
    BY <1>0, <1>7 DEF DequeueAdvance, Front, front
  <2> QED BY <1>6, <2>1, NoStore
<1>8. CASE DequeueCas
  <2>1. CASE mem[tail] = r_e
    <3>1. /\ q # <<>> /\ ~OwesHead /\ q' = Tail(q)
          /\ mem' = [mem EXCEPT ![tail] = Null]
          /\ UNCHANGED <<buf, ppc, r_elt, r_prev>>
      BY <1>0, <1>8, <2>1 DEF DequeueCas, Front, front
    <3>2. Len(q) = 1
      BY <1>8, <2>1, CasOnLast DEF DequeueCas
    <3>3. \A x \in Elements : mem'[next(x)] = mem[next(x)]
      BY <1>0, <3>1, Places
    <3> QED BY <1>6, <3>1, <3>2, <3>3, NoStore
  <2>2. CASE mem[tail] # r_e
    BY <1>k, <1>8, <2>2, NoStore DEF DequeueCas
  <2> QED BY <2>1, <2>2
<1>9. CASE DequeueClear
  <2>1. SameDebts /\ r_e \in Elements
    BY <1>0, <1>9, ClearEffect
  <2>2. mem' = [mem EXCEPT ![data(r_e)] = Null] /\ q' = q
    BY <1>9 DEF DequeueClear
  <2>3. \A x \in Elements : mem'[next(x)] = mem[next(x)]
    BY <1>0, <2>1, <2>2, Places
  <2> QED BY <1>k, <1>q, <2>1, <2>2, <2>3
<1>10. CASE \/ IsEmptyShadow \/ IsEmptyLoadHead \/ IsEmptyCopyHead \/ PeekHead
           \/ DequeueCall \/ DequeueWait \/ UNCHANGED vars
  <2>1. UNCHANGED <<mem, buf, ppc, r_elt, r_prev, q>>
    BY <1>10 DEF IsEmptyShadow, IsEmptyLoadHead, IsEmptyCopyHead, PeekHead,
       DequeueCall, DequeueWait, vars
  <2> QED BY <1>k, <2>1, NoStore
<1>h. ASSUME NEW e \in Elements, HeaderInit(e) PROVE Owed'
  <2>1. \A i \in 1..Len(q) : q[i] # e
    BY <1>0, <1>h, HeaderEffect DEF Ownership
  <2> QED BY <1>0, <1>k, <1>q, <1>h, <2>1, HeaderEffect
<1> QED
  BY <1>h, <1>1, <1>2, <1>3, <1>4, <1>5, <1>7, <1>8, <1>9, <1>10
     DEF Next, EnqueueStep, IsEmptyCall, ConsumerStep

LEMMA SameDebtsHead ==
    ASSUME SameDebts PROVE OwesHead' <=> OwesHead
<1> QED BY Places DEF SameDebts, OwesHead

LEMMA FrontStep == RelaxedInv /\ [Next]_vars => Front'
<1> SUFFICES ASSUME RelaxedInv, [Next]_vars PROVE Front'
  OBVIOUS
<1> USE ModelAssumption DEF producerVars, consumerVars
<1>0. /\ TypeOK /\ Ownership /\ Buffers /\ Chain /\ Owed /\ Front /\ Replied /\ Locals
      /\ mem \in [Locations -> Addr]
  BY DEF RelaxedInv, TypeOK
<1>q. /\ Len(q) \in Nat /\ \A i \in 1..Len(q) : q[i] \in Elements
      /\ (q = <<>>) <=> (Len(q) = 0)
      /\ q # <<>> => q[1] \in Elements
  BY <1>0, ElementQ
<1>f. front # Null => q[1] \in Elements \ pool /\ front = q[1]
  BY FrontSettled
<1>k. ASSUME UNCHANGED <<q, shadow_head, cpc, r_e>>, OwesHead' <=> OwesHead,
             Resetting' <=> Resetting, mem'[head] = mem[head],
             cpc = "advance" => mem'[next(r_e)] # Null
      PROVE  Front'
  <2>1. front' = front
    BY <1>k DEF front
  <2> QED BY <1>0, <1>k, <2>1 DEF Front
<1>1. CASE FlushReset
  <2>1. /\ mem'[head] = Null /\ Resetting /\ ~Resetting'
        /\ UNCHANGED <<q, shadow_head, cpc, r_e>> /\ SameDebts
        /\ \A x \in Elements : mem'[next(x)] = mem[next(x)]
    BY <1>0, <1>1, Places DEF FlushReset, Flushes
  <2>2. (OwesHead' <=> OwesHead) /\ front' = front
    BY <2>1, SameDebtsHead DEF front
  <2>3. cpc # "copy_head" /\ cpc # "reset_head"
    BY <1>0, <2>1 DEF Front
  <2>4. cpc = "advance" => mem'[next(r_e)] # Null
    BY <1>0, <1>f, <2>1 DEF Front, front
  <2>5. front = Null => Model = "PSO"
    BY <1>0, <2>1 DEF Front
  <2> QED BY <1>0, <2>1, <2>2, <2>3, <2>4, <2>5 DEF Front
<1>2. ASSUME NEW e \in pool, FlushClear(e) PROVE Front'
  <2>1. /\ mem' = [mem EXCEPT ![next(e)] = Null] /\ e \in Elements
        /\ UNCHANGED <<q, shadow_head, cpc, r_e>> /\ SameDebts
        /\ Resetting' <=> Resetting
    BY <1>0, <1>2 DEF FlushClear, Flushes, TypeOK
  <2>2. mem'[head] = mem[head]
    BY <1>0, <2>1, Places
  <2>3. cpc = "advance" => mem'[next(r_e)] # Null
    <3> SUFFICES ASSUME cpc = "advance" PROVE mem'[next(r_e)] # Null
      OBVIOUS
    <3>1. r_e \in Elements \ pool /\ mem[next(r_e)] # Null
      BY <1>0, <1>f DEF Front, front
    <3>2. next(r_e) # next(e)
      BY <2>1, <3>1, Places
    <3> QED BY <1>0, <2>1, <3>1, <3>2, Places
  <2> QED BY <1>k, <2>1, <2>2, <2>3, SameDebtsHead
<1>3. ASSUME NEW p \in Producers, NEW l \in Locations, NEW x \in Addr,
             FlushPrepared(p, l, x)
      PROVE  Front'
  <2>1. /\ mem' = [mem EXCEPT ![l] = x] /\ ppc[p] = "swap"
        /\ UNCHANGED <<q, shadow_head, cpc, r_e>> /\ SameDebts
        /\ Resetting' <=> Resetting
        /\ l = data(r_elt[p]) \/ l = next(r_elt[p])
    BY <1>3 DEF FlushPrepared, Flushes
  <2>2. r_elt[p] \in Elements
    BY <1>0, <2>1 DEF Ownership
  <2>3. mem'[head] = mem[head]
    BY <1>0, <2>1, <2>2, Places
  <2>4. cpc = "advance" => mem'[next(r_e)] # Null
    <3> SUFFICES ASSUME cpc = "advance" PROVE mem'[next(r_e)] # Null
      OBVIOUS
    <3>1. front = r_e /\ front # Null /\ mem[next(r_e)] # Null
      BY <1>0 DEF Front, front
    <3>2. r_e \in Elements /\ r_e # r_elt[p]
      BY <2>1, <3>1, FrontSettled
    <3>3. l # next(r_e)
      BY <2>1, <2>2, <3>2, Places
    <3> QED BY <1>0, <2>1, <3>1, <3>2, <3>3, Places
  <2> QED BY <1>k, <2>1, <2>3, <2>4, SameDebtsHead
<1>4. ASSUME NEW p \in Producers, NEW l \in Links, NEW e \in Elements,
             FlushLink(p, l, e)
      PROVE  Front'
  <2>1. /\ mem' = [mem EXCEPT ![l] = e] /\ Owes(p, l, e)
        /\ UNCHANGED <<q, shadow_head, cpc, r_e>>
        /\ Resetting' <=> Resetting
        /\ \A r \in Producers, m \in Links, f \in Elements :
             Owes(r, m, f)' <=> Owes(r, m, f) /\ ~(r = p /\ m = l /\ f = e)
    BY <1>4 DEF FlushLink, Flushes
  <2>2. CASE l = head
    <3>1. OwesHead /\ q # <<>> /\ e = q[1]
      BY <1>0, <2>1, <2>2 DEF OwesHead, Owed
    <3>2. front = Null /\ front' = front
      BY <1>0, <2>1, <3>1 DEF Front, front
    <3>3. ~OwesHead'
      <4> SUFFICES ASSUME NEW r \in Producers, NEW f \in Elements,
                          Owes(r, head, f)'
                   PROVE  FALSE
        BY DEF OwesHead
      <4>1. Owes(r, head, f)
        BY <2>1, Places
      <4>2. f = e
        BY <1>0, <3>1, <4>1 DEF Owed
      <4>3. r = p
        BY <1>0, <2>1, <2>2, <4>1, <4>2, Places DEF Owed
      <4> QED BY <2>1, <2>2, <4>2, <4>3, Places
    <3>4. mem'[head] = q[1] /\ q[1] # Null
      BY <1>0, <1>q, <2>1, <2>2, <3>1, Places
    <3> QED BY <1>0, <2>1, <3>1, <3>2, <3>3, <3>4 DEF Front
  <2>3. CASE l # head
    <3>1. OwesHead' <=> OwesHead
      BY <2>1, <2>3, Places DEF OwesHead
    <3>2. mem'[head] = mem[head]
      BY <1>0, <2>1, <2>3, Places
    <3>3. cpc = "advance" => mem'[next(r_e)] # Null
      <4> SUFFICES ASSUME cpc = "advance" PROVE mem'[next(r_e)] # Null
        OBVIOUS
      <4>1. r_e \in Elements /\ mem[next(r_e)] # Null
        BY <1>0, <1>f DEF Front, front
      <4> QED BY <1>0, <2>1, <4>1, Places
    <3> QED BY <1>k, <2>1, <3>1, <3>2, <3>3
  <2> QED BY <2>2, <2>3
<1>5. ASSUME NEW t \in Threads, FlushSome(t) PROVE Front'
  BY <1>0, <1>1, <1>2, <1>3, <1>4, <1>5, ConsumerFlush, ProducerFlush DEF Threads
<1>6. ASSUME NEW p \in Producers, NEW e \in Elements, EnqueueCall(p, e)
      PROVE Front'
  <2>1. SameDebts /\ (Resetting' <=> Resetting)
    BY <1>0, <1>6, CallEffect
  <2> QED BY <1>0, <1>k, <1>6, <2>1, SameDebtsHead DEF EnqueueCall, Front
<1>7. ASSUME NEW p \in Producers, EnqueueSwap(p) PROVE Front'
  <2>1. /\ r_elt[p] \in Elements /\ mem' = [mem EXCEPT ![tail] = r_elt[p]]
        /\ q' = Append(q, r_elt[p]) /\ UNCHANGED <<shadow_head, cpc, r_e>>
    BY <1>0, <1>7 DEF EnqueueSwap, Ownership
  <2>2. /\ Resetting' <=> Resetting
        /\ \A r \in Producers, l \in Links, e \in Elements :
             Owes(r, l, e)' <=> \/ Owes(r, l, e)
                                \/ /\ r = p /\ e = r_elt[p]
                                   /\ l = IF mem[tail] = Null THEN head
                                          ELSE next(mem[tail])
    BY <1>0, <1>7, <2>1, SwapEffect
  <2>3. /\ Len(q') = Len(q) + 1 /\ q' # <<>>
        /\ \A i \in 1..Len(q) : q'[i] = q[i]
    BY <1>0, <2>1, AppendQ DEF TypeOK
  <2>4. /\ mem'[head] = mem[head]
        /\ \A x \in Elements : mem'[next(x)] = mem[next(x)]
    BY <1>0, <2>1, Places
  <2>5. front' = front
    BY <2>1 DEF front
  <2>6. cpc = "advance" => mem'[next(r_e)] # Null
    BY <1>0, <1>f, <2>4 DEF Front, front
  <2>7. CASE q = <<>>
    <3>1. mem[tail] = Null
      BY <1>0, <2>7 DEF Chain
    <3>2. OwesHead'
      BY <2>1, <2>2, <3>1, Places DEF OwesHead
    <3> QED BY <1>0, <2>1, <2>2, <2>3, <2>4, <2>5, <2>6, <2>7, <3>2 DEF Front
  <2>8. CASE q # <<>>
    <3>1. 1 \in 1..Len(q) /\ Len(q) \in 1..Len(q)
      BY <1>q, <2>8
    <3>2. q'[1] = q[1]
      BY <2>3, <3>1
    <3>3. mem[tail] \in Elements
      BY <1>0, <1>q, <2>8, <3>1 DEF Chain
    <3>4. OwesHead' <=> OwesHead
      BY <2>2, <3>3, Places DEF OwesHead
    <3>5. Len(q) > 1 => Len(q') > 1
      BY <1>q, <2>3
    <3> QED BY <1>0, <2>1, <2>2, <2>3, <2>4, <2>5, <2>6, <2>8, <3>2, <3>4, <3>5
            DEF Front
  <2> QED BY <2>7, <2>8
<1>8. ASSUME NEW p \in Producers, EnqueueLink(p) PROVE Front'
  <2>1. r_elt[p] \in Elements
    BY <1>0, <1>8 DEF Ownership, EnqueueLink
  <2>2. SameDebts /\ (Resetting' <=> Resetting)
    BY <1>0, <1>8, <2>1, LinkEffect
  <2> QED BY <1>0, <1>k, <1>8, <2>2, SameDebtsHead DEF EnqueueLink, Front
<1>9. CASE IsEmptyShadow \/ PeekHead \/ UNCHANGED vars
  <2>1. UNCHANGED <<mem, buf, ppc, r_elt, r_prev, q, shadow_head, cpc, r_e>>
    BY <1>9 DEF IsEmptyShadow, PeekHead, vars
  <2> QED BY <1>0, <1>k, <2>1, NoStore, SameDebtsHead DEF Front
<1>10. CASE IsEmptyLoadHead
  <2>1. /\ UNCHANGED <<mem, buf, ppc, r_elt, r_prev, q, shadow_head, r_e>>
        /\ cpc = "idle" /\ shadow_head = Null
    BY <1>10 DEF IsEmptyLoadHead
  <2>2. (Resetting' <=> Resetting) /\ (OwesHead' <=> OwesHead)
    BY <2>1, NoStore, SameDebtsHead
  <2>3. CASE Load(Consumer, head) = Null
    <3>1. cpc' = cpc
      BY <1>10, <2>3 DEF IsEmptyLoadHead
    <3> QED BY <1>0, <1>k, <2>1, <2>2, <3>1 DEF Front
  <2>4. CASE Load(Consumer, head) # Null
    <3>1. cpc' = "copy_head" /\ ~Resetting /\ mem[head] # Null
      BY <1>0, <1>10, <2>4, Loads DEF IsEmptyLoadHead
    <3>2. front' = front
      BY <2>1, <3>1 DEF front
    <3> QED BY <1>0, <2>1, <2>2, <3>1, <3>2 DEF Front
  <2> QED BY <2>3, <2>4
<1>11. CASE IsEmptyCopyHead
  <2>1. /\ UNCHANGED <<mem, buf, ppc, r_elt, r_prev, q, r_e>>
        /\ cpc = "copy_head" /\ cpc' = "reset_head"
        /\ shadow_head' = Load(Consumer, head)
    BY <1>11 DEF IsEmptyCopyHead
  <2>2. (Resetting' <=> Resetting) /\ (OwesHead' <=> OwesHead)
    BY <2>1, NoStore, SameDebtsHead
  <2>3. /\ ~Resetting /\ shadow_head' = mem[head] /\ mem[head] # Null
        /\ front = Null /\ front' = mem[head]
    BY <1>0, <2>1, Loads DEF Front, front
  <2>4. q # <<>> /\ mem[head] = q[1] /\ ~OwesHead
    BY <1>0, <2>3 DEF Front
  <2> QED BY <2>1, <2>2, <2>3, <2>4 DEF Front
<1>12. CASE IsEmptyResetHead
  <2>1. /\ UNCHANGED <<mem, q, shadow_head, r_e>>
        /\ cpc = "reset_head" /\ cpc' = "idle"
    BY <1>12 DEF IsEmptyResetHead
  <2>2. Resetting' /\ (OwesHead' <=> OwesHead)
    BY <1>0, <1>12, ResetEffect, SameDebtsHead
  <2>3. front' = front /\ front # Null
    BY <1>0, <2>1 DEF Front, front
  <2> QED BY <1>0, <2>1, <2>2, <2>3 DEF Front
<1>13. CASE DequeueCall
  <2>1. /\ UNCHANGED <<mem, buf, ppc, r_elt, r_prev, q, shadow_head>>
        /\ cpc = "idle" /\ r_e' = shadow_head
        /\ cpc' = IF Load(Consumer, next(shadow_head)) # Null THEN "advance" ELSE "cas"
    BY <1>13 DEF DequeueCall
  <2>2. (Resetting' <=> Resetting) /\ (OwesHead' <=> OwesHead)
    BY <2>1, NoStore, SameDebtsHead
  <2>3. /\ front' = front /\ front = shadow_head /\ front # Null
        /\ shadow_head \in Elements \ pool
    BY <1>0, <1>f, <1>13, <2>1 DEF front, Replied, DequeueCall
  <2>4. Load(Consumer, next(shadow_head)) = mem[next(shadow_head)]
    BY <1>0, <2>3, Loads
  <2> QED BY <1>0, <2>1, <2>2, <2>3, <2>4 DEF Front
<1>14. CASE DequeueAdvance
  <2>1. /\ UNCHANGED <<mem, buf, ppc, r_elt, r_prev, r_e>> /\ q' = Tail(q)
        /\ cpc = "advance" /\ cpc' = "clear"
        /\ shadow_head' = Load(Consumer, next(r_e))
    BY <1>14 DEF DequeueAdvance
  <2>2. (Resetting' <=> Resetting) /\ (OwesHead' <=> OwesHead)
    BY <2>1, NoStore, SameDebtsHead
  <2>3. /\ front = r_e /\ front # Null /\ q # <<>> /\ r_e = q[1]
        /\ ~OwesHead /\ (mem[head] = Null \/ Resetting)
        /\ mem[next(q[1])] # Null /\ r_e \in Elements \ pool
    BY <1>0, <1>f, <2>1 DEF Front, front
  <2>4. front' = mem[next(q[1])]
    BY <1>0, <2>1, <2>3, Loads DEF front
  <2>5. /\ Len(q) > 0 /\ Len(q') = Len(q) - 1
        /\ \A i \in 1..Len(q') : q'[i] = q[i + 1]
        /\ (q' = <<>>) <=> (Len(q) = 1)
    BY <1>0, <2>1, <2>3, TailQ DEF TypeOK
  <2>6. Len(q) # 1
    BY <1>0, <2>3 DEF Chain
  <2>7. mem[next(q[1])] = q[2]
    <3>1. 1 \in 1..Len(q)-1 /\ 1+1 = 2 /\ 1+1 \in 1..Len(q)
      BY <1>q, <2>5, <2>6
    <3>2. q[1+1] \in Elements
      BY <1>q, <3>1
    <3>3. ASSUME NEW p \in Producers, Owes(p, next(q[1]), q[1+1]) PROVE FALSE
      <4>1. \E i \in 1..Len(q)-1 : q[1] = q[i] /\ mem[next(q[1])] = Null
        BY <1>0, <2>3, <3>2, <3>3 DEF Owed
      <4> QED BY <2>3, <4>1
    <3> QED BY <1>0, <3>1, <3>3 DEF Chain
  <2>8. q' # <<>> /\ q'[1] = q[2]
    BY <1>q, <2>5, <2>6
  <2> QED BY <2>1, <2>2, <2>3, <2>4, <2>7, <2>8 DEF Front
<1>15. CASE DequeueCas
  <2>1. /\ front = r_e /\ front # Null /\ q # <<>> /\ r_e = q[1]
        /\ ~OwesHead /\ (mem[head] = Null \/ Resetting)
        /\ cpc = "cas" /\ shadow_head' = Null /\ r_e' = r_e
        /\ UNCHANGED <<buf, ppc, r_elt, r_prev>>
    BY <1>0, <1>15 DEF DequeueCas, Front, front
  <2>2. (Resetting' <=> Resetting) /\ (OwesHead' <=> OwesHead)
    BY <2>1, NoStore, SameDebtsHead
  <2>3. CASE mem[tail] = r_e
    <3>1. /\ mem' = [mem EXCEPT ![tail] = Null] /\ q' = Tail(q) /\ cpc' = "clear"
      BY <1>15, <2>3 DEF DequeueCas
    <3>2. mem'[head] = mem[head]
      BY <1>0, <3>1, Places
    <3>3. q' = <<>>
      BY <1>0, <2>1, <2>3, <3>1, CasOnLast, TailQ DEF TypeOK
    <3>4. Model = "TSO" => ~Resetting
      <4> SUFFICES ASSUME Model = "TSO" PROVE ~Resetting
        OBVIOUS
      <4>1. buf[Consumer] = <<>>
        BY <1>15 DEF DequeueCas, AtomicReady
      <4>2. Consumer \in Threads
        BY DEF Threads
      <4>3. InFlight(Consumer) = {}
        BY <1>0, <4>1, <4>2, Buffered
      <4> QED BY <4>3 DEF Resetting
    <3>5. front' = Null
      BY <2>1, <3>1 DEF front
    <3> QED BY <2>1, <2>2, <3>1, <3>2, <3>3, <3>4, <3>5 DEF Front
  <2>4. CASE mem[tail] # r_e
    <3>1. UNCHANGED <<mem, q>> /\ cpc' = "wait"
      BY <1>15, <2>4 DEF DequeueCas
    <3>2. Len(q) # 1
      BY <1>0, <2>1, <2>4 DEF Chain
    <3>3. Len(q) > 1
      <4>1. Len(q) \in Nat /\ Len(q) # 0
        BY <1>q, <2>1
      <4>2. \A n \in Nat : n # 0 /\ n # 1 => n > 1
        OBVIOUS
      <4> QED BY <3>2, <4>1, <4>2
    <3>4. front' = front
      BY <2>1, <3>1 DEF front
    <3> QED BY <2>1, <2>2, <3>1, <3>3, <3>4 DEF Front
  <2> QED BY <2>3, <2>4
<1>16. CASE DequeueWait
  <2>1. /\ UNCHANGED <<mem, buf, ppc, r_elt, r_prev, q, shadow_head, r_e>>
        /\ cpc = "wait" /\ cpc' = "advance" /\ Load(Consumer, next(r_e)) # Null
    BY <1>16 DEF DequeueWait
  <2>2. (Resetting' <=> Resetting) /\ (OwesHead' <=> OwesHead)
    BY <2>1, NoStore, SameDebtsHead
  <2>3. front' = front /\ front # Null /\ r_e \in Elements \ pool
    BY <1>0, <1>f, <2>1 DEF Front, front
  <2>4. mem[next(r_e)] # Null
    BY <1>0, <2>1, <2>3, Loads
  <2> QED BY <1>0, <2>1, <2>2, <2>3, <2>4 DEF Front
<1>17. CASE DequeueClear
  <2>1. /\ r_e \in Elements /\ (Resetting' <=> Resetting) /\ (OwesHead' <=> OwesHead)
    BY <1>0, <1>17, ClearEffect, SameDebtsHead
  <2>2. /\ mem' = [mem EXCEPT ![data(r_e)] = Null] /\ UNCHANGED <<q, shadow_head>>
        /\ cpc = "clear" /\ cpc' = "idle"
    BY <1>17 DEF DequeueClear
  <2>3. mem'[head] = mem[head]
    BY <1>0, <2>1, <2>2, Places
  <2>4. front' = front
    BY <2>2 DEF front
  <2> QED BY <1>0, <2>1, <2>2, <2>3, <2>4 DEF Front
<1>h. ASSUME NEW e \in Elements, HeaderInit(e) PROVE Front'
  <2>1. cpc = "advance" => r_e \in Elements \ pool /\ mem[next(r_e)] # Null
    BY <1>0, <1>f DEF Front, front
  <2>2. cpc = "advance" => mem'[next(r_e)] # Null
    BY <1>0, <1>h, <2>1, HeaderEffect
  <2> QED BY <1>0, <1>k, <1>h, <2>2, HeaderEffect, SameDebtsHead
<1> QED
  BY <1>h, <1>5, <1>6, <1>7, <1>8, <1>9, <1>10, <1>11, <1>12, <1>13, <1>14, <1>15,
     <1>16, <1>17
     DEF Next, EnqueueStep, IsEmptyCall, ConsumerStep

LEMMA RepliedStep == RelaxedInv /\ [Next]_vars => Replied'
<1> SUFFICES ASSUME RelaxedInv, [Next]_vars PROVE Replied'
  OBVIOUS
<1> USE ModelAssumption DEF producerVars, consumerVars
<1>0. TypeOK /\ Ownership /\ Prepared /\ Front /\ Replied
  BY DEF RelaxedInv
<1>1. ASSUME UNCHANGED <<cpc, shadow_head, reply>> PROVE Replied'
  BY <1>0, <1>1 DEF Replied, MayDequeue
<1>2. CASE (\E t \in Threads : FlushSome(t)) \/ UNCHANGED vars
  BY <1>1, <1>2 DEF FlushSome, Flush, vars
<1>p. ASSUME NEW p \in Producers,
             EnqueueStep(p) \/ \E e \in Elements : EnqueueCall(p, e)
      PROVE  Replied'
  BY <1>1, <1>p DEF EnqueueCall, EnqueueStep, EnqueueSwap, EnqueueLink
<1>3. CASE IsEmptyShadow
  BY <1>0, <1>3 DEF IsEmptyShadow, Answer, Replied, MayDequeue
<1>4. CASE IsEmptyLoadHead
  <2>1. CASE Load(Consumer, head) = Null
    BY <1>0, <1>4, <2>1 DEF IsEmptyLoadHead, Answer, Replied, MayDequeue
  <2>2. CASE Load(Consumer, head) # Null
    BY <1>0, <1>4, <2>2 DEF IsEmptyLoadHead, Replied, MayDequeue
  <2> QED BY <2>1, <2>2
<1>5. CASE IsEmptyCopyHead
  BY <1>0, <1>5 DEF IsEmptyCopyHead, Replied, MayDequeue
<1>6. CASE IsEmptyResetHead
  BY <1>0, <1>6 DEF IsEmptyResetHead, Answer, Replied, MayDequeue, Front, front
<1>7. CASE PeekHead
  BY <1>0, <1>7 DEF PeekHead, Answer, Replied, MayDequeue
<1>8. CASE DequeueCall
  BY <1>0, <1>8 DEF DequeueCall, Replied, MayDequeue
<1>9. CASE DequeueAdvance
  BY <1>0, <1>9 DEF DequeueAdvance, Replied, MayDequeue
<1>10. CASE DequeueCas
  BY <1>0, <1>10 DEF DequeueCas, Replied, MayDequeue
<1>11. CASE DequeueWait
  BY <1>0, <1>11 DEF DequeueWait, Replied, MayDequeue
<1>12. CASE DequeueClear
  <2>1. mem[data(r_e)] # Null
    BY <1>0, <1>12 DEF DequeueClear, Prepared, Ownership
  <2> QED BY <1>0, <1>12, <2>1 DEF DequeueClear, Answer, Replied, MayDequeue
<1>h. ASSUME NEW e \in Elements, HeaderInit(e) PROVE Replied'
  BY <1>0, <1>1, <1>h, HeaderEffect
<1> QED
  BY <1>h, <1>2, <1>p, <1>3, <1>4, <1>5, <1>6, <1>7, <1>8, <1>9, <1>10, <1>11, <1>12
     DEF Next, IsEmptyCall, ConsumerStep

LEMMA LocalsStep == RelaxedInv /\ [Next]_vars => Locals'
<1> SUFFICES ASSUME RelaxedInv, [Next]_vars PROVE Locals'
  OBVIOUS
<1> USE ModelAssumption DEF producerVars, consumerVars, Locals
<1>0. TypeOK /\ Front /\ Locals
  BY DEF RelaxedInv
<1>1. ASSUME UNCHANGED <<cpc, shadow_head, r_e, ppc, r_elt, r_prev>> PROVE Locals'
  BY <1>0, <1>1
<1>2. CASE \/ \E t \in Threads : FlushSome(t)
          \/ IsEmptyShadow \/ PeekHead \/ UNCHANGED vars
  BY <1>1, <1>2 DEF FlushSome, Flush, IsEmptyShadow, PeekHead, vars
<1>3. ASSUME NEW p \in Producers, NEW e \in Elements, EnqueueCall(p, e)
      PROVE Locals'
  BY <1>0, <1>3 DEF EnqueueCall, HandedOver, TypeOK
<1>4. ASSUME NEW p \in Producers, EnqueueSwap(p) PROVE Locals'
  BY <1>0, <1>4 DEF EnqueueSwap, TypeOK
<1>5. ASSUME NEW p \in Producers, EnqueueLink(p) PROVE Locals'
  BY <1>0, <1>5 DEF EnqueueLink, TypeOK
<1>6. CASE IsEmptyLoadHead \/ IsEmptyCopyHead \/ IsEmptyResetHead
  BY <1>0, <1>6 DEF IsEmptyLoadHead, IsEmptyCopyHead, IsEmptyResetHead
<1>7. CASE DequeueCall \/ DequeueAdvance \/ DequeueCas \/ DequeueClear
  BY <1>0, <1>7 DEF DequeueCall, DequeueAdvance, DequeueCas, DequeueClear
<1>8. CASE DequeueWait
  BY <1>0, <1>8 DEF DequeueWait, Front
<1>h. ASSUME NEW e \in Elements, HeaderInit(e) PROVE Locals'
  BY <1>0, <1>1, <1>h, HeaderEffect
<1> QED
  BY <1>h, <1>2, <1>3, <1>4, <1>5, <1>6, <1>7, <1>8
     DEF Next, EnqueueStep, IsEmptyCall, ConsumerStep

LEMMA InitInvariant == Init => RelaxedInv
<1> SUFFICES ASSUME Init PROVE RelaxedInv
  OBVIOUS
<1> USE ModelAssumption DEF Init
<1>1. TypeOK
  <2>1. <<>> \in Seq(Elements) /\ <<>> \in Seq([loc : Locations, val : Addr])
    BY EmptySeq
  <2> QED BY <2>1 DEF TypeOK, Addr
<1>2. /\ \A t \in Threads : InFlight(t) = {} /\ Len(buf[t]) = 0
      /\ Len(q) = 0 /\ q = <<>> /\ front = Null /\ ~Resetting
  BY DEF InFlight, Resetting, Threads, front
<1>3. \A p \in Producers : p \in Threads
  BY DEF Threads
<1>4. \A p \in Producers : \A l, e : ~Owes(p, l, e)
  BY <1>2, <1>3 DEF Owes
<1>5. ~OwesHead
  BY <1>4 DEF OwesHead
<1>6. Ownership /\ Prepared /\ Replied /\ Locals
  BY <1>2 DEF Ownership, Prepared, Replied, MayDequeue, Locals
<1>7. Buffers
  BY <1>2, <1>3 DEF Buffers, Threads
<1>8. Chain /\ Owed /\ Front
  BY <1>2, <1>4, <1>5, Places DEF Chain, Owed, Front
<1> QED BY <1>1, <1>6, <1>7, <1>8 DEF RelaxedInv

LEMMA StepInvariant == RelaxedInv /\ [Next]_vars => RelaxedInv'
<1> QED BY TypeStep, OwnershipStep, BuffersStep, PreparedStep, ChainStep,
           OwedStep, FrontStep, RepliedStep, LocalsStep DEF RelaxedInv

(* The structure of the queue with stores in flight, in either store       *)
(* order: who owns an element, what can be on its way, which links are in  *)
(* memory and which are owed.                                              *)
THEOREM RelaxedStructure == Spec => []RelaxedInv
<1> QED BY InitInvariant, StepInvariant, PTL DEF Spec

(* In either store order the client that dequeues an element reads the     *)
(* payload its enqueuer wrote: OPA_write_barrier before the swap is enough.*)
THEOREM PayloadArrives == Spec => []PayloadVisible
<1>1. RelaxedInv => PayloadVisible
  BY DEF RelaxedInv, Replied, PayloadVisible
<1> QED BY <1>1, RelaxedStructure, PTL

(* In either store order elements come out in the order in which they were *)
(* swapped in: whatever the late reset of head wipes out, nothing overtakes*)
(* it.                                                                     *)
THEOREM OrderIsKept == Spec => DequeuedInOrder
<1> DEFINE InOrder ==
      /\ cpc' = "clear" /\ cpc # "clear" => q # <<>> /\ r_e' = Head(q) /\ q' = Tail(q)
      /\ cpc = "clear" /\ cpc' # "clear" => reply'.elt = r_e
<1>1. ASSUME RelaxedInv, [Next]_vars PROVE [InOrder]_vars
  <2>0. TypeOK /\ Buffers /\ Prepared /\ Front
    BY <1>1 DEF RelaxedInv
  <2>1. CASE DequeueAdvance \/ DequeueCas
    <3>1. q # <<>> /\ r_e = q[1] /\ Head(q) = q[1] /\ cpc # "clear"
      BY <2>0, <2>1 DEF DequeueAdvance, DequeueCas, Front, front
    <3> QED BY <2>1, <3>1 DEF DequeueAdvance, DequeueCas
  <2>2. CASE DequeueClear
    <3>1. cpc' = "idle" /\ reply'.elt = r_e
      BY <2>0, <2>2 DEF DequeueClear, Answer, Prepared
    <3> QED BY <3>1
  <2>3. ASSUME NEW t \in Threads, FlushSome(t) PROVE cpc' = cpc
    BY <2>3 DEF FlushSome, Flush, consumerVars
  <2>4. ASSUME NEW p \in Producers, EnqueueStep(p) PROVE cpc' = cpc
    BY <2>4 DEF EnqueueStep, EnqueueSwap, EnqueueLink, consumerVars
  <2>5. ASSUME NEW p \in Producers, NEW e \in Elements, EnqueueCall(p, e) PROVE cpc' = cpc
    BY <2>5 DEF EnqueueCall, consumerVars
  <2>h. ASSUME NEW e \in Elements, HeaderInit(e) PROVE cpc' = cpc
    BY <2>h DEF HeaderInit, consumerVars
  <2>6. CASE IsEmptyCall \/ PeekHead \/ DequeueCall \/ IsEmptyCopyHead
             \/ IsEmptyResetHead \/ DequeueWait
    BY <2>6 DEF IsEmptyCall, IsEmptyShadow, IsEmptyLoadHead, PeekHead, DequeueCall,
                IsEmptyCopyHead, IsEmptyResetHead, DequeueWait
  <2> QED BY <1>1, <2>h, <2>1, <2>2, <2>3, <2>4, <2>5, <2>6 DEF Next, ConsumerStep
<1>2. RelaxedInv /\ [Next]_vars => [InOrder]_vars
  BY <1>1
<1> QED BY <1>2, RelaxedStructure, PTL DEF Spec, DequeuedInOrder

-----------------------------------------------------------------------------
(* With the store order of x86.                                            *)

(* On x86 no element is lost: when every call has returned and every store *)
(* has arrived, a queue that holds an element shows it to the consumer.    *)
THEOREM NothingLostTSO ==
    ASSUME Model = "TSO" PROVE Spec => []NothingLost
<1>1. ASSUME RelaxedInv, Quiescent, q # <<>>
      PROVE  mem[head] # Null \/ shadow_head # Null
  <2>1. \A t \in Threads : InFlight(t) = {}
    BY <1>1 DEF Quiescent, InFlight
  <2>2. \A p \in Producers : \A l, e : ~Owes(p, l, e)
    BY <1>1, <2>1 DEF Owes, Quiescent, Threads
  <2>3. ~OwesHead /\ front = shadow_head
    BY <1>1, <2>2 DEF OwesHead, Quiescent, front
  <2>4. q[1] \in Elements
    BY <1>1, ElementQ DEF RelaxedInv
  <2> QED BY <1>1, <2>3, <2>4, ModelAssumption DEF RelaxedInv, Front
<1>2. RelaxedInv => NothingLost
  BY <1>1 DEF NothingLost
<1> QED BY <1>2, RelaxedStructure, PTL

(* An element put in front of a sequence.                                  *)
LEMMA Cons ==
    ASSUME NEW S, NEW e \in S, NEW s \in Seq(S)
    PROVE  /\ <<e>> \o s \in Seq(S) /\ <<e>> \o s # <<>>
           /\ Head(<<e>> \o s) = e /\ Tail(<<e>> \o s) = s
           /\ \A x \in S : Append(<<e>> \o s, x) = <<e>> \o Append(s, x)
<1>1. <<e>> \in Seq(S) /\ Len(<<e>>) = 1 /\ <<e>>[1] = e
  OBVIOUS
<1>q. Len(s) \in Nat
  BY LenProperties
<1>2. /\ <<e>> \o s \in Seq(S) /\ Len(<<e>> \o s) = 1 + Len(s)
      /\ (<<e>> \o s)[1] = e
      /\ \A i \in 2..1 + Len(s) : (<<e>> \o s)[i] = s[i-1]
  BY <1>1, <1>q, ConcatProperties
<1>3. <<e>> \o s # <<>>
  BY <1>q, <1>2, EmptySeq
<1>4. /\ Tail(<<e>> \o s) \in Seq(S) /\ Len(Tail(<<e>> \o s)) = Len(s)
      /\ \A i \in 1..Len(s) : Tail(<<e>> \o s)[i] = (<<e>> \o s)[i+1]
  BY <1>q, <1>2, <1>3, HeadTailProperties
<1>5. \A i \in 1..Len(s) : Tail(<<e>> \o s)[i] = s[i]
  BY <1>q, <1>2, <1>4
<1>6. Tail(<<e>> \o s) = s
  BY <1>4, <1>5, SeqEqual
<1>7. ASSUME NEW x \in S PROVE Append(<<e>> \o s, x) = <<e>> \o Append(s, x)
  <2>1. <<x>> \in Seq(S)
    OBVIOUS
  <2>2. /\ Append(<<e>> \o s, x) = (<<e>> \o s) \o <<x>>
        /\ Append(s, x) = s \o <<x>>
    BY <1>2, AppendIsConcat
  <2> QED BY <1>1, <2>1, <2>2, ConcatAssociative
<1> QED BY <1>2, <1>3, <1>6, <1>7

LEMMA ConsTail ==
    ASSUME NEW S, NEW s \in Seq(S), s # <<>>
    PROVE  <<s[1]>> \o Tail(s) = s
<1>1. /\ s[1] \in S /\ Tail(s) \in Seq(S) /\ Len(Tail(s)) = Len(s) - 1
      /\ \A i \in 1..Len(s)-1 : Tail(s)[i] = s[i+1]
      /\ Len(s) \in Nat /\ Len(s) > 0
  BY HeadTailProperties, LenProperties, EmptySeq, ElementOfSeq
<1>2. <<s[1]>> \in Seq(S) /\ Len(<<s[1]>>) = 1 /\ <<s[1]>>[1] = s[1]
  BY <1>1
<1>3. /\ <<s[1]>> \o Tail(s) \in Seq(S)
      /\ Len(<<s[1]>> \o Tail(s)) = Len(s)
      /\ \A i \in 1..Len(s) : (<<s[1]>> \o Tail(s))[i] =
                                 IF i <= 1 THEN s[1] ELSE Tail(s)[i-1]
  BY <1>1, <1>2, ConcatProperties
<1>4. ASSUME NEW i \in 1..Len(s) PROVE (<<s[1]>> \o Tail(s))[i] = s[i]
  <2>1. CASE i <= 1
    BY <1>1, <1>3, <2>1
  <2>2. CASE i > 1
    <3>1. i-1 \in 1..Len(s)-1 /\ (i-1)+1 = i
      BY <1>1, <2>2
    <3> QED BY <1>1, <1>3, <2>2, <3>1
  <2> QED BY <1>1, <2>1, <2>2
<1> QED BY <1>3, <1>4, SeqEqual

(* An owed link is the only one that is owed for its element, and the      *)
(* element is in the queue.                                                *)
LEMMA OneDebt ==
    ASSUME RelaxedInv, NEW p \in Producers, NEW l \in Links, NEW e \in Elements,
           Owes(p, l, e)
    PROVE  /\ \E i \in 1..Len(q) : e = q[i]
           /\ \A r \in Producers, m \in Links : Owes(r, m, e) => r = p /\ m = l
<1>0. TypeOK /\ Ownership /\ Owed
  BY DEF RelaxedInv
<1>q. Len(q) \in Nat /\ (q = <<>> <=> Len(q) = 0)
  BY <1>0, ElementQ
<1>1. ASSUME NEW r \in Producers, NEW m \in Links, Owes(r, m, e)
      PROVE  \E k \in 1..Len(q) : /\ e = q[k]
                                  /\ m = IF k = 1 THEN head ELSE next(q[k-1])
  <2>1. CASE m = head /\ q # <<>> /\ e = q[1]
    <3>1. 1 \in 1..Len(q)
      BY <1>q, <2>1
    <3> QED BY <2>1, <3>1
  <2>2. ASSUME NEW i \in 1..Len(q)-1, m = next(q[i]), e = q[i+1]
        PROVE  \E k \in 1..Len(q) : /\ e = q[k]
                                    /\ m = IF k = 1 THEN head ELSE next(q[k-1])
    <3>1. i+1 \in 1..Len(q) /\ i+1 # 1 /\ (i+1)-1 = i
      BY <1>q, <2>2
    <3> QED BY <2>2, <3>1
  <2> QED BY <1>1, <2>1, <2>2, OwedPlace
<1>2. PICK k \in 1..Len(q) : e = q[k] /\ l = IF k = 1 THEN head ELSE next(q[k-1])
  BY <1>1
<1>3. ASSUME NEW r \in Producers, NEW m \in Links, Owes(r, m, e)
      PROVE  r = p /\ m = l
  <2>1. PICK n \in 1..Len(q) : e = q[n] /\ m = IF n = 1 THEN head ELSE next(q[n-1])
    BY <1>1, <1>3
  <2>2. n = k
    BY <1>0, <1>2, <2>1 DEF Ownership
  <2>3. r = p
    BY <1>0, <1>3 DEF Owed
  <2> QED BY <1>2, <2>1, <2>2, <2>3
<1> QED BY <1>2, <1>3

LEMMA SamePending ==
    ASSUME SameDebts PROVE pending' = pending
<1>1. Links' = Links
  BY DEF Links, head, next
<1> QED BY <1>1 DEF SameDebts, pending

(* The consumer has found an element: the abstract consumer is not         *)
(* blocked, outside the window in which an element is unlinked.            *)
LEMMA NotBlocked ==
    ASSUME RelaxedInv, cpc # "clear", front # Null
    PROVE  ~Fifo!Blocked /\ items = q /\ q # <<>> /\ Head(items) = front
<1>1. /\ q # <<>> /\ front = q[1] /\ items = q
      /\ \A p \in Producers, l \in Links : ~Owes(p, l, q[1])
  BY FrontSettled DEF items
<1>2. Head(q) = q[1]
  OBVIOUS
<1>3. q[1] \notin pending
  BY <1>1 DEF pending
<1> QED BY <1>1, <1>2, <1>3 DEF Fifo!Blocked

(* Under TSO the consumer sees NULL in head only when it is blocked.       *)
LEMMA HeadNullBlocked ==
    ASSUME Model = "TSO", RelaxedInv, cpc = "idle", shadow_head = Null,
           Load(Consumer, head) = Null
    PROVE  Fifo!Blocked
<1>0. TypeOK /\ Buffers /\ Owed /\ Front
  BY DEF RelaxedInv
<1>1. front = Null /\ items = q
  BY DEF front, items
<1>2. ~Resetting /\ mem[head] = Null
  BY <1>0, <1>1, Loads DEF Front
<1>3. ASSUME q # <<>> PROVE Head(q) \in pending
  <2>1. q[1] \in Elements /\ Head(q) = q[1]
    BY <1>0, <1>3, ElementQ
  <2>2. OwesHead
    BY <1>0, <1>1, <1>2, <1>3, <2>1, ModelAssumption DEF Front
  <2>3. PICK p \in Producers, e \in Elements : Owes(p, head, e)
    BY <2>2 DEF OwesHead
  <2>4. e = q[1]
    BY <1>0, <2>3 DEF Owed
  <2> QED BY <2>1, <2>3, <2>4, Places DEF pending
<1> QED BY <1>1, <1>3 DEF Fifo!Blocked

(* Every step under TSO is a step of FifoQueue or leaves it alone: a link  *)
(* that reaches memory completes its enqueue.                              *)
LEMMA StepImplementsFifo ==
    ASSUME Model = "TSO", RelaxedInv, [Next]_vars PROVE [Fifo!Next]_(Fifo!vars)
<1> USE DEF Fifo!vars, producerVars, consumerVars
<1>0. /\ TypeOK /\ Ownership /\ Buffers /\ Prepared /\ Front /\ Replied /\ Locals
      /\ q \in Seq(Elements)
  BY DEF RelaxedInv, TypeOK
<1>q. /\ Len(q) \in Nat /\ \A i \in 1..Len(q) : q[i] \in Elements
      /\ (q = <<>>) <=> (Len(q) = 0)
  BY <1>0, ElementQ
<1>1. ASSUME FlushSome(Consumer) PROVE UNCHANGED Fifo!vars
  <2>1. SameDebts /\ UNCHANGED <<q, cpc, r_e, reply>>
    BY <1>0, <1>1, ConsumerFlush DEF FlushReset, FlushClear, Flushes
  <2> QED BY <2>1, SamePending DEF items
<1>2. ASSUME NEW p \in Producers, FlushSome(p) PROVE [Fifo!Next]_(Fifo!vars)
  <2>1. ASSUME NEW l \in Locations, NEW x \in Addr, FlushPrepared(p, l, x)
        PROVE  UNCHANGED Fifo!vars
    <3>1. SameDebts /\ UNCHANGED <<q, cpc, r_e, reply>>
      BY <2>1 DEF FlushPrepared, Flushes
    <3> QED BY <3>1, SamePending DEF items
  <2>2. ASSUME NEW l \in Links, NEW e \in Elements, FlushLink(p, l, e)
        PROVE  Fifo!Complete(e)
    <3>1. /\ Owes(p, l, e) /\ UNCHANGED <<q, cpc, r_e, reply>>
          /\ \A r \in Producers, m \in Links, f \in Elements :
                Owes(r, m, f)' <=> Owes(r, m, f) /\ ~(r = p /\ m = l /\ f = e)
      BY <2>2 DEF FlushLink, Flushes
    <3>2. \A r \in Producers, m \in Links : Owes(r, m, e) => r = p /\ m = l
      BY <3>1, OneDebt
    <3>3. Links' = Links
      BY DEF Links, head, next
    <3>4. pending' = pending \ {e} /\ e \in pending
      BY <3>1, <3>2, <3>3 DEF pending
    <3> QED BY <3>1, <3>4 DEF Fifo!Complete, items
  <2> QED BY <1>0, <1>2, <2>1, <2>2, ProducerFlush DEF Fifo!Next
<1>3. ASSUME NEW p \in Producers, NEW e \in Elements, EnqueueCall(p, e)
      PROVE  UNCHANGED Fifo!vars
  BY <1>0, <1>3, CallEffect, SamePending DEF EnqueueCall, items
<1>4. ASSUME NEW p \in Producers, EnqueueSwap(p) PROVE Fifo!Next
  <2>1. r_elt[p] \in Elements /\ q' = Append(q, r_elt[p]) /\ cpc' = cpc
        /\ r_e' = r_e /\ reply' = reply
    BY <1>0, <1>4 DEF EnqueueSwap, Ownership
  <2>2. items' = Append(items, r_elt[p])
    <3>1. CASE cpc = "clear"
      <4>1. r_e \in Elements
        BY <1>0, <3>1 DEF Ownership
      <4> QED BY <1>0, <2>1, <3>1, <4>1, Cons DEF items
    <3>2. CASE cpc # "clear"
      BY <2>1, <3>2 DEF items
    <3> QED BY <3>1, <3>2
  <2>3. pending' = pending \cup {r_elt[p]}
    <3> DEFINE m == IF mem[tail] = Null THEN head ELSE next(mem[tail])
    <3>1. \A r \in Producers, l \in Links, e \in Elements :
             Owes(r, l, e)' <=> Owes(r, l, e) \/ (r = p /\ e = r_elt[p] /\ l = m)
      BY <1>0, <1>4, <2>1, SwapEffect
    <3>2. m \in Links
      BY <1>0, Places DEF TypeOK, Addr
    <3>3. Links' = Links
      BY DEF Links, head, next
    <3> HIDE DEF m
    <3> QED BY <2>1, <3>1, <3>2, <3>3 DEF pending
  <2>4. \A i \in DOMAIN items : items[i] # r_elt[p]
    <3>1. \A i \in 1..Len(q) : q[i] # r_elt[p]
      BY <1>0, <1>4 DEF EnqueueSwap, Ownership
    <3>2. CASE cpc # "clear"
      BY <1>0, <3>1, <3>2, LenProperties DEF items
    <3>3. CASE cpc = "clear"
      <4>1. r_e \in Elements /\ r_e # r_elt[p]
        BY <1>0, <1>4, <3>3 DEF Ownership, EnqueueSwap
      <4>2. /\ <<r_e>> \in Seq(Elements) /\ Len(<<r_e>>) = 1
            /\ <<r_e>>[1] = r_e
        BY <4>1
      <4>3. /\ Len(<<r_e>> \o q) = 1 + Len(q)
            /\ DOMAIN (<<r_e>> \o q) = 1..1 + Len(q)
            /\ \A i \in 1..1 + Len(q) :
                 (<<r_e>> \o q)[i] = IF i <= 1 THEN <<r_e>>[i] ELSE q[i-1]
        BY <1>0, <4>2, ConcatProperties, LenProperties
      <4> QED BY <1>q, <3>1, <3>3, <4>1, <4>2, <4>3 DEF items
    <3> QED BY <3>2, <3>3
  <2> QED BY <2>1, <2>2, <2>3, <2>4 DEF Fifo!Enqueue, Fifo!Next
<1>5. ASSUME NEW p \in Producers, EnqueueLink(p) PROVE UNCHANGED Fifo!vars
  <2>1. r_elt[p] \in Elements
    BY <1>0, <1>5 DEF EnqueueLink, Ownership
  <2> QED BY <1>0, <1>5, <2>1, LinkEffect, SamePending DEF EnqueueLink, items
<1>6. CASE IsEmptyShadow
  <2>1. front # Null /\ cpc # "clear"
    BY <1>6 DEF IsEmptyShadow, front
  <2>2. ~Fifo!Blocked
    BY <2>1, NotBlocked
  <2>3. pending' = pending
    BY <1>6, NoStore, SamePending DEF IsEmptyShadow
  <2> QED BY <1>6, <2>2, <2>3
          DEF IsEmptyShadow, Answer, items, Fifo!IsEmpty, Fifo!Next
<1>7. CASE IsEmptyLoadHead
  <2>1. pending' = pending
    BY <1>7, NoStore, SamePending DEF IsEmptyLoadHead
  <2>2. CASE Load(Consumer, head) = Null
    <3>1. Fifo!Blocked
      BY <1>7, <2>2, HeadNullBlocked DEF IsEmptyLoadHead
    <3> QED BY <1>7, <2>1, <2>2, <3>1
            DEF IsEmptyLoadHead, Answer, items, Fifo!IsEmpty, Fifo!Next
  <2>3. CASE Load(Consumer, head) # Null
    BY <1>7, <2>1, <2>3 DEF IsEmptyLoadHead, items
  <2> QED BY <2>2, <2>3
<1>8. CASE IsEmptyCopyHead
  BY <1>8, NoStore, SamePending DEF IsEmptyCopyHead, items
<1>9. CASE IsEmptyResetHead
  <2>1. front # Null /\ cpc # "clear"
    BY <1>0, <1>9 DEF IsEmptyResetHead, Front
  <2>2. ~Fifo!Blocked
    BY <2>1, NotBlocked
  <2>3. pending' = pending
    BY <1>0, <1>9, ResetEffect, SamePending
  <2> QED BY <1>9, <2>2, <2>3
          DEF IsEmptyResetHead, Answer, items, Fifo!IsEmpty, Fifo!Next
<1>10. CASE PeekHead
  <2>0. pending' = pending
    BY <1>10, NoStore, SamePending DEF PeekHead
  <2>1. CASE reply.op = "empty"
    <3>1. shadow_head = Null
      BY <1>0, <1>10, <2>1 DEF PeekHead, Replied
    <3> QED BY <1>10, <2>0, <2>1, <3>1
            DEF PeekHead, Answer, items, Fifo!Peek, Fifo!Next
  <2>2. CASE reply.op = "nonempty"
    <3>1. front = shadow_head /\ front # Null /\ cpc # "clear"
      BY <1>0, <1>10, <2>2 DEF PeekHead, Replied, MayDequeue, front
    <3>2. ~Fifo!Blocked /\ Head(items) = shadow_head
      BY <3>1, NotBlocked
    <3> QED BY <1>10, <2>0, <2>2, <3>2
            DEF PeekHead, Answer, items, Fifo!Peek, Fifo!Next
  <2> QED BY <1>10, <2>1, <2>2 DEF PeekHead
<1>11. CASE DequeueCall
  BY <1>11, NoStore, SamePending DEF DequeueCall, items
<1>12. CASE DequeueAdvance \/ DequeueCas
  <2>1. q # <<>> /\ r_e = q[1]
    BY <1>0, <1>12 DEF DequeueAdvance, DequeueCas, Front, front
  <2>2. items' = items
    BY <1>0, <1>12, <2>1, ConsTail DEF DequeueAdvance, DequeueCas, items
  <2> QED BY <1>12, <2>2, NoStore, SamePending DEF DequeueAdvance, DequeueCas
<1>13. CASE DequeueWait
  BY <1>13, NoStore, SamePending DEF DequeueWait, items
<1>14. CASE DequeueClear
  <2>1. r_e \in Elements /\ r_e \notin pending /\ mem[data(r_e)] = r_e
    BY <1>0, <1>14, OneDebt DEF DequeueClear, Ownership, Prepared, pending
  <2>2. /\ items = <<r_e>> \o q /\ items # <<>>
        /\ Head(items) = r_e /\ Tail(items) = q
    BY <1>0, <1>14, <2>1, Cons DEF DequeueClear, items
  <2>3. ~Fifo!Blocked
    BY <2>1, <2>2 DEF Fifo!Blocked
  <2>4. pending' = pending
    BY <1>0, <1>14, ClearEffect, SamePending
  <2>5. items' = q /\ reply' = [op |-> "dequeue", elt |-> r_e]
    BY <1>14, <2>1 DEF DequeueClear, Answer, items
  <2> QED BY <2>2, <2>3, <2>4, <2>5 DEF Fifo!Dequeue, Fifo!Next
<1>15. CASE UNCHANGED vars
  BY <1>15, NoStore, SamePending DEF vars, items
<1>h. ASSUME NEW e \in Elements, HeaderInit(e) PROVE UNCHANGED Fifo!vars
  BY <1>0, <1>h, HeaderEffect, SamePending DEF items
<1> QED
  BY <1>h, <1>1, <1>2, <1>3, <1>4, <1>5, <1>6, <1>7, <1>8, <1>9, <1>10, <1>11, <1>12,
     <1>13, <1>14, <1>15
     DEF Next, Threads, EnqueueStep, IsEmptyCall, ConsumerStep

(* On x86 the queue implements the FIFO although its stores are delayed,   *)
(* for any number of producers and elements: an enqueue is pending until   *)
(* its link is in memory, the payload read is that of the element.         *)
THEOREM QueueImplementsFifoTSO ==
    ASSUME Model = "TSO" PROVE Spec => ImplementsFifoTSO
<1>1. Init => Fifo!Init
  <2> SUFFICES ASSUME Init PROVE Fifo!Init
    OBVIOUS
  <2>1. \A p \in Producers, l \in Links, e \in Elements : ~Owes(p, l, e)
    BY DEF Init, Owes, InFlight, Threads
  <2> QED BY <2>1 DEF Init, Fifo!Init, items, pending
<1>2. RelaxedInv /\ [Next]_vars => [Fifo!Next]_(Fifo!vars)
  BY StepImplementsFifo
<1> QED BY <1>1, <1>2, RelaxedStructure, PTL DEF Spec, ImplementsFifoTSO, Fifo!Spec
=============================================================================
