--------------------------- MODULE BarriersProofs ---------------------------
(***************************************************************************)
(* Proofs about Barriers, for every port, any set of threads and any       *)
(* number of rounds.                                                       *)
(***************************************************************************)
EXTENDS Barriers, FiniteSetTheorems, TLAPS

(* What the ports keep in order, by the machine or by the barrier.         *)
Keeps(pair, order) == pair \in P.machine \/ pair \in order

LEMMA Orders ==
    ASSUME TypeOK
    PROVE  /\ Keeps(SS, P.write) /\ Keeps(LL, P.read)
           /\ Keeps(LL, P.readWrite) /\ Keeps(LS, P.readWrite) /\ Keeps(SS, P.readWrite)
           /\ port \notin {"gcc", "ia64"} =>
                 /\ Keeps(LS, P.release) /\ Keeps(SS, P.release)
                 /\ Keeps(LL, P.acquire) /\ Keeps(LS, P.acquire)
           /\ port \notin {"c11", "sun", "nt"} => Keeps(SL, P.readWrite)
<1> DEFINE Ok == /\ Keeps(SS, P.write) /\ Keeps(LL, P.read)
                 /\ Keeps(LL, P.readWrite) /\ Keeps(LS, P.readWrite)
                 /\ Keeps(SS, P.readWrite)
                 /\ port \notin {"gcc", "ia64"} =>
                       /\ Keeps(LS, P.release) /\ Keeps(SS, P.release)
                       /\ Keeps(LL, P.acquire) /\ Keeps(LS, P.acquire)
                 /\ port \notin {"c11", "sun", "nt"} => Keeps(SL, P.readWrite)
<1> USE DEF Keeps, All, None, AllButStoreLoad
<1>1. CASE port = "x86"
  <2>1. P = X86
    BY <1>1 DEF P
  <2> QED BY <1>1, <2>1 DEF X86
<1>2. CASE port = "p3"
  <2>1. P = P3
    BY <1>2 DEF P
  <2> QED BY <1>2, <2>1 DEF P3, X86
<1>3. CASE port = "ppc"
  <2>1. P = PPC
    BY <1>3 DEF P
  <2> QED BY <1>3, <2>1 DEF PPC, Eieio, Lwsync
<1>4. CASE port = "arm"
  <2>1. P = ARM
    BY <1>4 DEF P
  <2> QED BY <1>4, <2>1 DEF ARM
<1>5. CASE port = "sicortex"
  <2>1. P = SiCortex
    BY <1>5 DEF P
  <2> QED BY <1>5, <2>1 DEF SiCortex
<1>6. CASE port = "ia64"
  <2>1. P = IA64
    BY <1>6 DEF P
  <2> QED BY <1>6, <2>1 DEF IA64
<1>7. CASE port = "gcc"
  <2>1. P = GCC
    BY <1>7 DEF P
  <2> QED BY <1>7, <2>1 DEF GCC
<1>8. CASE port = "c11"
  <2>1. P = C11
    BY <1>8 DEF P
  <2> QED BY <1>8, <2>1 DEF C11
<1>9. CASE port = "sun"
  <2>1. P = Sun
    BY <1>9 DEF P
  <2> QED BY <1>9, <2>1 DEF Sun
<1>10. CASE port = "nt"
  <2>1. P = NT
    BY <1>10 DEF P
  <2> QED BY <1>10, <2>1 DEF NT
<1>11. CASE port = "by_lock"
  <2>1. P = ByLock
    BY <1>11 DEF P
  <2> QED BY <1>11, <2>1 DEF ByLock
<1>12. port \in {"x86", "p3", "ppc", "arm", "sicortex", "ia64", "gcc",
                 "c11", "sun", "nt", "by_lock"}
  BY BarriersAssumption DEF TypeOK
<1> QED BY <1>1, <1>2, <1>3, <1>4, <1>5, <1>6, <1>7, <1>8, <1>9, <1>10, <1>11, <1>12

-----------------------------------------------------------------------------
(* The programs, access by access.                                         *)

(* The i-th access of t's program, and what must be performed before it.   *)
IsLoad(t, i, l) == Program(t)[i].kind = "L" /\ Program(t)[i].loc = l
IsStore(t, i, l) == Program(t)[i].kind = "S" /\ Program(t)[i].loc = l
                    /\ Program(t)[i].incr = FALSE
IsIncr(t, i, l) == Program(t)[i].kind = "S" /\ Program(t)[i].loc = l
                   /\ Program(t)[i].incr = TRUE
After(t, i, j) == Before(Program(t), i, j)

LEMMA PublishProgram ==
    ASSUME TypeOK, test = "publish"
    PROVE  /\ \A t \in Threads : Accesses(t) = {1, 2, 4}
           /\ IsStore(1, 1, "x") /\ IsStore(1, 2, "z") /\ IsStore(1, 4, "y")
           /\ After(1, 1, 4) /\ After(1, 2, 4)
           /\ \A t \in Threads \ {1} :
                 /\ IsLoad(t, 1, "y") /\ IsLoad(t, 2, "z") /\ IsLoad(t, 4, "x")
                 /\ After(t, 1, 4)
                 /\ KeepsDependencies => After(t, 1, 2)
<1>1. \A t : Program(t) = Publish(t)
  BY DEF Program
<1>2. /\ Program(1) = <<Store("x"), Store("z"), Barrier(P.write), Store("y")>>
      /\ \A t \in Threads \ {1} :
            Program(t) = <<Load("y"), Follow("z", 1), Barrier(P.read), Load("x")>>
  BY <1>1 DEF Publish
<1>3. /\ Accesses(1) = {1, 2, 4}
      /\ IsStore(1, 1, "x") /\ IsStore(1, 2, "z") /\ IsStore(1, 4, "y")
  BY <1>2 DEF Accesses, IsStore, Store, Barrier
<1>4. After(1, 1, 4) /\ After(1, 2, 4)
  BY <1>2, Orders DEF After, Before, Store, Barrier, Keeps, SS
<1>5. ASSUME NEW t \in Threads \ {1}
      PROVE  /\ Accesses(t) = {1, 2, 4}
             /\ IsLoad(t, 1, "y") /\ IsLoad(t, 2, "z") /\ IsLoad(t, 4, "x")
             /\ After(t, 1, 4)
             /\ KeepsDependencies => After(t, 1, 2)
  <2>1. Program(t) = <<Load("y"), Follow("z", 1), Barrier(P.read), Load("x")>>
    BY <1>2
  <2>2. Accesses(t) = {1, 2, 4}
    BY <2>1 DEF Load, Follow, Barrier, Accesses
  <2>3. IsLoad(t, 1, "y") /\ IsLoad(t, 2, "z") /\ IsLoad(t, 4, "x")
    BY <2>1 DEF Load, Follow, Barrier, IsLoad
  <2>4. After(t, 1, 4)
    BY <2>1, Orders DEF After, Before, Load, Follow, Barrier, Keeps, LL
  <2>5. KeepsDependencies => After(t, 1, 2)
    BY <2>1 DEF After, Before, Load, Follow, LL
  <2> QED BY <2>2, <2>3, <2>4, <2>5
<1> QED BY <1>3, <1>4, <1>5

(* The barriers by which the two programs hand a variable over.            *)
LEMMA HandoverProgram ==
    ASSUME TypeOK, test = "done" \/ (test = "handover" /\ port # "gcc")
    PROVE  /\ Accesses(1) = {1, 2, 4} /\ Accesses(2) = {1, 3, 4}
           /\ \A t \in Threads \ {1, 2} : Accesses(t) = {}
           /\ IsLoad(1, 1, "z") /\ IsStore(1, 2, "x") /\ IsStore(1, 4, "y")
           /\ IsLoad(2, 1, "y") /\ IsLoad(2, 3, "x") /\ IsStore(2, 4, "z")
           /\ After(1, 1, 4) /\ After(1, 2, 4) /\ After(2, 1, 3) /\ After(2, 1, 4)
<1>1. PICK give, take :
        /\ Program(1) = <<Load("z"), Store("x"), Barrier(give), Store("y")>>
        /\ Program(2) = <<Load("y"), Barrier(take), Load("x"), Store("z")>>
        /\ \A t \in Threads \ {1, 2} : Program(t) = <<>>
        /\ Keeps(LS, give) /\ Keeps(SS, give) /\ Keeps(LL, take) /\ Keeps(LS, take)
  <2>1. CASE test = "done"
    <3>1. /\ Program(1) = <<Load("z"), Store("x"), Barrier(P.readWrite), Store("y")>>
          /\ Program(2) = <<Load("y"), Barrier(P.readWrite), Load("x"), Store("z")>>
          /\ \A t \in Threads \ {1, 2} : Program(t) = <<>>
      BY <2>1 DEF Program, DoneThenContinue
    <3> QED BY <3>1, Orders
  <2>2. CASE test = "handover" /\ port # "gcc"
    <3>1. /\ Program(1) = <<Load("z"), Store("x"), Barrier(P.release), Store("y")>>
          /\ Program(2) = <<Load("y"), Barrier(P.acquire), Load("x"), Store("z")>>
          /\ \A t \in Threads \ {1, 2} : Program(t) = <<>>
      BY <2>2 DEF Program, Handover
    <3>2. port \notin {"gcc", "ia64"}
      BY <2>2 DEF TypeOK
    <3> QED BY <3>1, <3>2, Orders
  <2> QED BY <2>1, <2>2
<1>2. /\ Accesses(1) = {1, 2, 4} /\ IsLoad(1, 1, "z")
      /\ IsStore(1, 2, "x") /\ IsStore(1, 4, "y")
  BY <1>1 DEF Accesses, IsLoad, IsStore, Load, Store, Barrier
<1>3. /\ Accesses(2) = {1, 3, 4} /\ IsLoad(2, 1, "y")
      /\ IsLoad(2, 3, "x") /\ IsStore(2, 4, "z")
  BY <1>1 DEF Accesses, IsLoad, IsStore, Load, Store, Barrier
<1>4. \A t \in Threads \ {1, 2} : Accesses(t) = {}
  BY <1>1 DEF Accesses
<1>5. After(1, 1, 4) /\ After(1, 2, 4)
  BY <1>1 DEF After, Before, Load, Store, Barrier, Keeps, LS, SS
<1>6. After(2, 1, 3) /\ After(2, 1, 4)
  BY <1>1 DEF After, Before, Load, Store, Barrier, Keeps, LL, LS
<1> QED BY <1>2, <1>3, <1>4, <1>5, <1>6

LEMMA StoreLoadProgram ==
    ASSUME TypeOK, test = "store_load", port \notin {"c11", "sun", "nt"}
    PROVE  /\ Accesses(1) = {1, 3} /\ Accesses(2) = {1, 3}
           /\ \A t \in Threads \ {1, 2} : Accesses(t) = {}
           /\ IsStore(1, 1, "x") /\ IsLoad(1, 3, "y") /\ After(1, 1, 3)
           /\ IsStore(2, 1, "y") /\ IsLoad(2, 3, "x") /\ After(2, 1, 3)
<1>1. /\ Program(1) = <<Store("x"), Barrier(P.readWrite), Load("y")>>
      /\ Program(2) = <<Store("y"), Barrier(P.readWrite), Load("x")>>
      /\ \A t \in Threads \ {1, 2} : Program(t) = <<>>
  BY DEF Program, StoreThenLoad
<1>2. Accesses(1) = {1, 3} /\ IsStore(1, 1, "x") /\ IsLoad(1, 3, "y")
  BY <1>1 DEF Accesses, IsLoad, IsStore, Load, Store, Barrier
<1>3. Accesses(2) = {1, 3} /\ IsStore(2, 1, "y") /\ IsLoad(2, 3, "x")
  BY <1>1 DEF Accesses, IsLoad, IsStore, Load, Store, Barrier
<1>4. \A t \in Threads \ {1, 2} : Accesses(t) = {}
  BY <1>1 DEF Accesses
<1>5. After(1, 1, 3) /\ After(2, 1, 3)
  BY <1>1, Orders DEF After, Before, Load, Store, Barrier, Keeps, SL
<1> QED BY <1>2, <1>3, <1>4, <1>5

(* A round of the linear array has four entries.                           *)
LEMMA Round ==
    ASSUME NEW a, NEW b, NEW c, NEW d, NEW s, s = Times(Rounds, <<a, b, c, d>>)
    PROVE  /\ DOMAIN s = 1 .. 4 * Rounds
           /\ \A i \in DOMAIN s : /\ i % 4 = 1 => s[i] = a
                                  /\ i % 4 = 2 => s[i] = b
                                  /\ i % 4 = 3 => s[i] = c
                                  /\ i % 4 = 0 => s[i] = d
<1>1. Rounds \in Nat
  BY BarriersAssumption
<1>2. s = [i \in 1 .. Rounds * 4 |-> <<a, b, c, d>>[((i - 1) % 4) + 1]]
  BY DEF Times
<1>3. Rounds * 4 = 4 * Rounds
  BY <1>1
<1>4. \A i \in Nat \ {0} : /\ i % 4 = 1 => (i - 1) % 4 = 0
                           /\ i % 4 = 2 => (i - 1) % 4 = 1
                           /\ i % 4 = 3 => (i - 1) % 4 = 2
                           /\ i % 4 = 0 => (i - 1) % 4 = 3
  OBVIOUS
<1>5. PICK u : /\ u = <<a, b, c, d>>
               /\ u[0 + 1] = a /\ u[1 + 1] = b /\ u[2 + 1] = c /\ u[3 + 1] = d
  OBVIOUS
<1>6. DOMAIN s = 1 .. 4 * Rounds /\ \A i \in DOMAIN s : s[i] = u[((i - 1) % 4) + 1]
  BY <1>2, <1>3, <1>5
<1>7. \A i \in DOMAIN s : i \in Nat \ {0}
  BY <1>1, <1>6
<1> QED BY <1>4, <1>5, <1>6, <1>7

LEMMA ArrayRound ==
    ASSUME NEW t, NEW a, NEW b, NEW order,
           Program(t) = Times(Rounds, <<a, Barrier(order), b, Barrier(order)>>),
           a.kind \in {"L", "S"}, b.kind = a.kind, Keeps(<<a.kind, b.kind>>, order)
    PROVE  /\ Accesses(t) = {i \in 1 .. 4 * Rounds : i % 2 = 1}
           /\ \A i \in Accesses(t) : /\ i % 4 = 1 \/ i % 4 = 3
                                     /\ i % 4 = 1 => Program(t)[i] = a
                                     /\ i % 4 = 3 => Program(t)[i] = b
           /\ \A i \in Accesses(t) : i % 4 = 3 => /\ i - 2 \in Accesses(t)
                                                  /\ (i - 2) % 4 = 1
                                                  /\ After(t, i - 2, i)
<1>0. Rounds \in Nat
  BY BarriersAssumption
<1>1. /\ DOMAIN Program(t) = 1 .. 4 * Rounds
      /\ \A i \in 1 .. 4 * Rounds :
            /\ i % 4 = 1 => Program(t)[i] = a
            /\ i % 4 = 2 => Program(t)[i] = Barrier(order)
            /\ i % 4 = 3 => Program(t)[i] = b
            /\ i % 4 = 0 => Program(t)[i] = Barrier(order)
  <2>1. PICK s, w : /\ s = Program(t) /\ w = Barrier(order)
                    /\ s = Times(Rounds, <<a, w, b, w>>)
    OBVIOUS
  <2>2. /\ DOMAIN s = 1 .. 4 * Rounds
        /\ \A i \in DOMAIN s : /\ i % 4 = 1 => s[i] = a
                               /\ i % 4 = 2 => s[i] = w
                               /\ i % 4 = 3 => s[i] = b
                               /\ i % 4 = 0 => s[i] = w
    BY <2>1, Round
  <2> QED BY <2>1, <2>2
<1>2. \A i \in Nat : /\ i % 4 = 0 \/ i % 4 = 1 \/ i % 4 = 2 \/ i % 4 = 3
                     /\ i % 2 = 1 <=> i % 4 = 1 \/ i % 4 = 3
  OBVIOUS
<1>3. Barrier(order).kind = "barrier" /\ Barrier(order).order = order
  BY DEF Barrier
<1>4. Accesses(t) = {i \in 1 .. 4 * Rounds : i % 2 = 1}
  <2>1. ASSUME NEW i \in 1 .. 4 * Rounds
        PROVE  Program(t)[i].kind # "barrier" <=> i % 2 = 1
    <3>1. i \in Nat
      BY <1>0
    <3>2. a.kind # "barrier" /\ b.kind # "barrier"
      OBVIOUS
    <3>3. \/ Program(t)[i] = a /\ i % 2 = 1
          \/ Program(t)[i] = b /\ i % 2 = 1
          \/ Program(t)[i] = Barrier(order) /\ i % 2 # 1
      BY <1>1, <1>2, <3>1
    <3> QED BY <1>3, <3>2, <3>3
  <2> QED BY <1>1, <2>1 DEF Accesses
<1>5. \A i \in Accesses(t) : i \in Nat /\ i \in 1 .. 4 * Rounds /\ (i % 4 = 1 \/ i % 4 = 3)
  BY <1>0, <1>2, <1>4
<1>6. ASSUME NEW i \in Accesses(t), i % 4 = 3
      PROVE  i - 2 \in Accesses(t) /\ (i - 2) % 4 = 1 /\ After(t, i - 2, i)
  <2>1. \A k \in Nat : k % 4 = 3 => /\ k > 2 /\ (k - 2) % 4 = 1 /\ (k - 2) % 2 = 1
                                    /\ (k - 1) % 4 = 2
    OBVIOUS
  <2>2. i \in Nat /\ i > 2 /\ (i - 2) % 4 = 1 /\ (i - 2) % 2 = 1 /\ (i - 1) % 4 = 2
    BY <1>5, <1>6, <2>1
  <2>3. \A n \in Nat : i \in 1 .. n => i - 2 \in 1 .. n /\ i - 1 \in 1 .. n
    BY <2>2
  <2>4. 4 * Rounds \in Nat
    BY <1>0
  <2>5. i \in 1 .. 4 * Rounds /\ i - 2 \in 1 .. 4 * Rounds /\ i - 1 \in 1 .. 4 * Rounds
    BY <1>5, <2>3, <2>4
  <2>6. /\ Program(t)[i - 2] = a /\ Program(t)[i] = b
        /\ Program(t)[i - 1] = Barrier(order)
    BY <1>1, <1>6, <2>2, <2>5
  <2>7. i - 2 < i /\ i - 1 \in (i - 2) + 1 .. i - 1
    BY <2>2
  <2> QED BY <1>3, <1>4, <2>2, <2>5, <2>6, <2>7 DEF After, Before, Keeps
<1> QED BY <1>1, <1>4, <1>5, <1>6

LEMMA ArrayProgram ==
    ASSUME TypeOK, test = "linear_array", NEW t \in Threads
    PROVE  /\ Accesses(t) = {i \in 1 .. 4 * Rounds : i % 2 = 1}
           /\ \A i \in Accesses(t) : i % 4 = 1 \/ i % 4 = 3
           /\ \A i \in Accesses(t) : i % 4 = 3 => /\ i - 2 \in Accesses(t)
                                                  /\ (i - 2) % 4 = 1
                                                  /\ After(t, i - 2, i)
           /\ t % 2 = 1 => \A i \in Accesses(t) : /\ i % 4 = 1 => IsIncr(t, i, "x")
                                                  /\ i % 4 = 3 => IsIncr(t, i, "y")
           /\ t % 2 = 0 => \A i \in Accesses(t) : /\ i % 4 = 1 => IsLoad(t, i, "y")
                                                  /\ i % 4 = 3 => IsLoad(t, i, "x")
           /\ t % 2 = 0 \/ t % 2 = 1
<1>0. t \in Nat
  BY BarriersAssumption
<1>1. (t % 2 = 0 \/ t % 2 = 1) /\ ~(t % 2 = 0 /\ t % 2 = 1)
  BY <1>0
<1>2. Program(t) = LinearArray(t)
  BY DEF Program
<1>3. CASE t % 2 = 1
  <2>1. Program(t) = Times(Rounds, <<Incr("x"), Barrier(P.write),
                                     Incr("y"), Barrier(P.write)>>)
    BY <1>2, <1>3 DEF LinearArray
  <2>2. Incr("x").kind = "S" /\ Incr("y").kind = "S" /\ Keeps(<<"S", "S">>, P.write)
    BY Orders DEF Incr, SS
  <2>3. /\ Accesses(t) = {i \in 1 .. 4 * Rounds : i % 2 = 1}
        /\ \A i \in Accesses(t) : /\ i % 4 = 1 \/ i % 4 = 3
                                  /\ i % 4 = 1 => Program(t)[i] = Incr("x")
                                  /\ i % 4 = 3 => Program(t)[i] = Incr("y")
        /\ \A i \in Accesses(t) : i % 4 = 3 => /\ i - 2 \in Accesses(t)
                                               /\ (i - 2) % 4 = 1
                                               /\ After(t, i - 2, i)
    BY <2>1, <2>2, ArrayRound
  <2>4. \A i \in Accesses(t) : /\ i % 4 = 1 => IsIncr(t, i, "x")
                               /\ i % 4 = 3 => IsIncr(t, i, "y")
    BY <2>3 DEF IsIncr, Incr
  <2> QED BY <1>1, <1>3, <2>3, <2>4
<1>4. CASE t % 2 = 0
  <2>1. Program(t) = Times(Rounds, <<Load("y"), Barrier(P.read),
                                     Load("x"), Barrier(P.read)>>)
    BY <1>1, <1>2, <1>4 DEF LinearArray
  <2>2. Load("y").kind = "L" /\ Load("x").kind = "L" /\ Keeps(<<"L", "L">>, P.read)
    BY Orders DEF Load, LL
  <2>3. /\ Accesses(t) = {i \in 1 .. 4 * Rounds : i % 2 = 1}
        /\ \A i \in Accesses(t) : /\ i % 4 = 1 \/ i % 4 = 3
                                  /\ i % 4 = 1 => Program(t)[i] = Load("y")
                                  /\ i % 4 = 3 => Program(t)[i] = Load("x")
        /\ \A i \in Accesses(t) : i % 4 = 3 => /\ i - 2 \in Accesses(t)
                                               /\ (i - 2) % 4 = 1
                                               /\ After(t, i - 2, i)
    BY <2>1, <2>2, ArrayRound
  <2>4. \A i \in Accesses(t) : /\ i % 4 = 1 => IsLoad(t, i, "y")
                               /\ i % 4 = 3 => IsLoad(t, i, "x")
    BY <2>3 DEF IsLoad, Load
  <2> QED BY <1>1, <1>4, <2>3, <2>4
<1> QED BY <1>1, <1>3, <1>4

-----------------------------------------------------------------------------
(* What performing an access does.                                         *)

(* t's i-th access is performed, after all that must be before it.         *)
Performs(t, i) ==
    /\ i \in Accesses(t) /\ i \notin performed[t]
    /\ \A j \in Accesses(t) : After(t, j, i) => j \in performed[t]
    /\ performed'[t] = performed[t] \cup {i}
    /\ \A u \in Threads \ {t} : performed'[u] = performed[u]
    /\ performed' \in [Threads -> SUBSET Nat]

(* ... and returns x.                                                      *)
Sees(t, i, x) ==
    /\ seen'[t][i] = x /\ DOMAIN seen'[t] = DOMAIN seen[t] \cup {i}
    /\ \A j \in DOMAIN seen[t] : j # i => seen'[t][j] = seen[t][j]
    /\ \A u \in Threads \ {t} : seen'[u] = seen[u]
    /\ DOMAIN seen' = Threads

LEMMA AccessesAreNat == ASSUME TypeOK, NEW t \in Threads PROVE Accesses(t) \subseteq Nat
<1>1. CASE test = "linear_array"
  BY <1>1, ArrayProgram, BarriersAssumption
<1>2. CASE test = "publish"
  BY <1>2, PublishProgram
<1>3. CASE test = "store_load"
  BY <1>3 DEF Accesses, Program, StoreThenLoad
<1>4. CASE test = "handover"
  BY <1>4 DEF Accesses, Program, Handover
<1>5. CASE test = "done"
  BY <1>5 DEF Accesses, Program, DoneThenContinue
<1> QED BY <1>1, <1>2, <1>3, <1>4, <1>5, BarriersAssumption DEF TypeOK

LEMMA LoadEffect ==
    ASSUME TypeOK, NEW t \in Threads, NEW i, PerformLoad(t, i)
    PROVE  /\ Performs(t, i) /\ Sees(t, i, mem[Program(t)[i].loc])
           /\ Program(t)[i].kind = "L" /\ UNCHANGED <<port, test, mem>>
<1>1. /\ Ready(t, i) /\ Program(t)[i].kind = "L" /\ UNCHANGED <<port, test, mem>>
      /\ performed' = [performed EXCEPT ![t] = @ \cup {i}]
  BY DEF PerformLoad
<1>2. seen' = [seen EXCEPT ![t] = [j \in DOMAIN seen[t] \cup {i} |->
                  IF j = i THEN mem[Program(t)[i].loc] ELSE seen[t][j]]]
  BY DEF PerformLoad
<1>3. Performs(t, i)
  BY <1>1, AccessesAreNat DEF Ready, Performs, After, TypeOK
<1>4. seen'[t] = [j \in DOMAIN seen[t] \cup {i} |->
                     IF j = i THEN mem[Program(t)[i].loc] ELSE seen[t][j]]
      /\ (\A u \in Threads \ {t} : seen'[u] = seen[u]) /\ DOMAIN seen' = Threads
  BY <1>2 DEF TypeOK
<1>5. Sees(t, i, mem[Program(t)[i].loc])
  BY <1>4 DEF Sees
<1> QED BY <1>1, <1>3, <1>5

LEMMA StoreEffect ==
    ASSUME TypeOK, NEW t \in Threads, NEW i, PerformStore(t, i)
    PROVE  /\ Performs(t, i) /\ UNCHANGED <<port, test, seen>>
           /\ Program(t)[i].kind = "S"
           /\ mem' = [mem EXCEPT ![Program(t)[i].loc] =
                         IF Program(t)[i].incr THEN @ + 1 ELSE 1]
<1>1. /\ Ready(t, i) /\ Program(t)[i].kind = "S" /\ UNCHANGED <<port, test, seen>>
      /\ performed' = [performed EXCEPT ![t] = @ \cup {i}]
      /\ mem' = [mem EXCEPT ![Program(t)[i].loc] =
                         IF Program(t)[i].incr THEN @ + 1 ELSE 1]
  BY DEF PerformStore
<1>2. Performs(t, i)
  BY <1>1, AccessesAreNat DEF Ready, Performs, After, TypeOK
<1> QED BY <1>1, <1>2

LoadStep(t, i) ==
    /\ Performs(t, i) /\ Sees(t, i, mem[Program(t)[i].loc])
    /\ Program(t)[i].kind = "L" /\ UNCHANGED <<port, test, mem>>

StoreStep(t, i) ==
    /\ Performs(t, i) /\ UNCHANGED <<port, test, seen>>
    /\ Program(t)[i].kind = "S"
    /\ mem' = [mem EXCEPT ![Program(t)[i].loc] =
                  IF Program(t)[i].incr THEN @ + 1 ELSE 1]

LEMMA Steps ==
    ASSUME TypeOK, [Next]_vars, ~UNCHANGED vars
    PROVE  \E t \in Threads, i \in Nat : LoadStep(t, i) \/ StoreStep(t, i)
<1>0. PICK t \in Threads : \E i \in DOMAIN Program(t) :
         PerformLoad(t, i) \/ PerformStore(t, i)
  BY DEF Next
<1>1. PICK i \in DOMAIN Program(t) : PerformLoad(t, i) \/ PerformStore(t, i)
  BY <1>0
<1>2. LoadStep(t, i) \/ StoreStep(t, i)
  BY <1>1, LoadEffect, StoreEffect DEF LoadStep, StoreStep
<1>3. i \in Nat
  BY <1>2, AccessesAreNat DEF LoadStep, StoreStep, Performs
<1> QED BY <1>2, <1>3

LEMMA Fixed ==
    ASSUME UNCHANGED <<port, test>>
    PROVE  \A t : Program(t)' = Program(t) /\ Accesses(t)' = Accesses(t)
<1>1. P' = P
  BY DEF P, X86, P3, PPC, ARM, SiCortex, IA64, GCC, C11, Sun, NT, ByLock,
         All, None, AllButStoreLoad, Eieio, Lwsync, LL, LS, SL, SS
<1>2. \A t : Program(t)' = Program(t)
  BY <1>1 DEF Program, LinearArray, Publish, Handover, StoreThenLoad,
              DoneThenContinue, Times, Load, Follow, Store, Incr, Barrier
<1> QED BY <1>2 DEF Accesses

(* A program only loads from x, y and z.                                   *)
LEMMA LoadsWhere ==
    ASSUME TypeOK, NEW t \in Threads, NEW i \in Accesses(t),
           Program(t)[i].kind = "L"
    PROVE  Program(t)[i].loc \in {"x", "y", "z"}
<1> USE DEF Load, Store, Barrier
<1>1. CASE test = "linear_array"
  <2>1. CASE t % 2 = 0
    BY <1>1, <2>1, ArrayProgram DEF IsLoad
  <2>2. CASE t % 2 = 1
    BY <1>1, <2>2, ArrayProgram DEF IsIncr
  <2> QED BY <1>1, <2>1, <2>2, ArrayProgram
<1>2. CASE test = "publish"
  BY <1>2, PublishProgram DEF IsLoad, IsStore
<1>3. CASE test = "store_load"
  BY <1>3 DEF Accesses, Program, StoreThenLoad
<1>4. CASE test = "handover"
  BY <1>4 DEF Accesses, Program, Handover
<1>5. CASE test = "done"
  BY <1>5 DEF Accesses, Program, DoneThenContinue
<1> QED BY <1>1, <1>2, <1>3, <1>4, <1>5, BarriersAssumption DEF TypeOK

-----------------------------------------------------------------------------
(* One lemma for each part of the invariant.                               *)
LEMMA TypeStep == ASSUME TypeOK, [Next]_vars PROVE TypeOK'
<1>1. CASE UNCHANGED vars
  BY <1>1 DEF vars, TypeOK
<1>2. ASSUME NEW t \in Threads, NEW i \in Nat, LoadStep(t, i) PROVE TypeOK'
  BY <1>2 DEF LoadStep, Performs, Sees, TypeOK
<1>3. ASSUME NEW t \in Threads, NEW i \in Nat, StoreStep(t, i) PROVE TypeOK'
  <2>1. mem' \in [{"x", "y", "z"} -> Nat]
    <3>1. PICK l, y : mem' = [mem EXCEPT ![l] = y] /\ (l \in {"x", "y", "z"} => y \in Nat)
      <4>1. PICK l, b : mem' = [mem EXCEPT ![l] = IF b THEN mem[l] + 1 ELSE 1]
        BY <1>3 DEF StoreStep
      <4>2. PICK y : y = IF b THEN mem[l] + 1 ELSE 1
        OBVIOUS
      <4>3. mem' = [mem EXCEPT ![l] = y] /\ (l \in {"x", "y", "z"} => y \in Nat)
        BY <4>1, <4>2 DEF TypeOK
      <4> QED BY <4>3
    <3> QED BY <3>1 DEF TypeOK
  <2> QED BY <1>3, <2>1 DEF StoreStep, Performs, TypeOK
<1> QED BY <1>1, <1>2, <1>3, Steps

LEMMA LoadedStep == ASSUME TypeOK, Loaded, [Next]_vars PROVE Loaded'
<1>0. UNCHANGED <<port, test>>
  BY Steps DEF vars, LoadStep, StoreStep
<1>1. \A t : Program(t)' = Program(t) /\ Accesses(t)' = Accesses(t)
  BY <1>0, Fixed
<1>2. CASE UNCHANGED vars
  BY <1>1, <1>2 DEF vars, Loaded, Saw
<1>3. ASSUME NEW t \in Threads, NEW i \in Nat, LoadStep(t, i) PROVE Loaded'
  <2>1. mem[Program(t)[i].loc] \in Nat
    BY <1>3, LoadsWhere DEF LoadStep, Performs, TypeOK
  <2>2. ASSUME NEW u \in Threads
        PROVE  /\ performed'[u] \subseteq Accesses(u)
               /\ \A j \in performed'[u] :
                     Program(u)[j].kind = "L" => j \in DOMAIN seen'[u]
               /\ \A j \in DOMAIN seen'[u] : j \in performed'[u] /\ seen'[u][j] \in Nat
    <3>1. CASE u = t
      BY <1>3, <2>1, <3>1 DEF LoadStep, Performs, Sees, Loaded, Saw
    <3>2. CASE u # t
      BY <1>3, <3>2 DEF LoadStep, Performs, Sees, Loaded, Saw
    <3> QED BY <3>1, <3>2
  <2> QED BY <1>1, <2>2 DEF Loaded, Saw
<1>4. ASSUME NEW t \in Threads, NEW i \in Nat, StoreStep(t, i) PROVE Loaded'
  <2>1. ASSUME NEW u \in Threads
        PROVE  /\ performed'[u] \subseteq Accesses(u)
               /\ \A j \in performed'[u] :
                     Program(u)[j].kind = "L" => j \in DOMAIN seen'[u]
               /\ \A j \in DOMAIN seen'[u] : j \in performed'[u] /\ seen'[u][j] \in Nat
    <3>1. CASE u = t
      BY <1>4, <3>1 DEF StoreStep, Performs, Loaded, Saw
    <3>2. CASE u # t
      BY <1>4, <3>2 DEF StoreStep, Performs, Loaded, Saw
    <3> QED BY <3>1, <3>2
  <2> QED BY <1>1, <2>1 DEF Loaded, Saw
<1> QED BY <1>2, <1>3, <1>4, Steps

LEMMA PublishedStep == ASSUME BarriersInv, [Next]_vars PROVE Published'
<1>0. TypeOK /\ Loaded /\ Published
  BY DEF BarriersInv
<1>1. CASE UNCHANGED vars
  BY <1>0, <1>1 DEF vars, Published, Flag, Saw, KeepsDependencies
<1> SUFFICES ASSUME ~UNCHANGED vars, test' = "publish" PROVE Published'
  BY <1>1 DEF Published
<1>2. test = "publish" /\ 1 \in Threads /\ KeepsDependencies' = KeepsDependencies
  BY Steps, <1>0, BarriersAssumption DEF LoadStep, StoreStep, KeepsDependencies
<1>p. /\ \A t \in Threads : Accesses(t) = {1, 2, 4}
      /\ IsStore(1, 1, "x") /\ IsStore(1, 2, "z") /\ IsStore(1, 4, "y")
      /\ After(1, 1, 4) /\ After(1, 2, 4)
      /\ \A t \in Threads \ {1} :
            /\ IsLoad(t, 1, "y") /\ IsLoad(t, 2, "z") /\ IsLoad(t, 4, "x")
            /\ After(t, 1, 4)
            /\ KeepsDependencies => After(t, 1, 2)
  BY <1>0, <1>2, PublishProgram
<1>i. /\ mem.x = Flag(1, 1) /\ mem.z = Flag(1, 2) /\ mem.y = Flag(1, 4)
      /\ 4 \in performed[1] => {1, 2} \subseteq performed[1]
      /\ \A t \in Threads \ {1} :
            /\ Saw(t, 1) => seen[t][1] <= mem.y
            /\ Saw(t, 4) => Saw(t, 1) /\ seen[t][1] <= seen[t][4]
            /\ KeepsDependencies /\ Saw(t, 2) => Saw(t, 1) /\ seen[t][1] <= seen[t][2]
  BY <1>0, <1>2 DEF Published
<1>m. /\ mem \in [{"x", "y", "z"} -> Nat]
      /\ mem.x \in Nat /\ mem.y \in Nat /\ mem.z \in Nat
      /\ mem.y <= mem.x /\ mem.y <= mem.z
  BY <1>0, <1>i DEF TypeOK, Flag
<1>3. ASSUME NEW t \in Threads, NEW i \in Nat, LoadStep(t, i) PROVE Published'
  <2>1. /\ t # 1 /\ i \in {1, 2, 4} /\ i \notin performed[t]
        /\ i = 4 => 1 \in performed[t]
        /\ i = 2 /\ KeepsDependencies => 1 \in performed[t]
    BY <1>2, <1>3, <1>p DEF LoadStep, Performs, IsStore
  <2>2. mem' = mem /\ performed'[1] = performed[1]
    BY <1>2, <1>3, <2>1 DEF LoadStep, Performs
  <2>3. ASSUME NEW u \in Threads \ {1}
        PROVE  /\ 1 \in DOMAIN seen'[u] => seen'[u][1] <= mem.y
               /\ 4 \in DOMAIN seen'[u] => /\ 1 \in DOMAIN seen'[u]
                                            /\ seen'[u][1] <= seen'[u][4]
               /\ KeepsDependencies /\ 2 \in DOMAIN seen'[u] =>
                     1 \in DOMAIN seen'[u] /\ seen'[u][1] <= seen'[u][2]
    <3>1. CASE u # t
      BY <1>3, <1>i, <3>1 DEF LoadStep, Sees, Saw
    <3>2. CASE u = t
      <4>1. /\ DOMAIN seen'[t] = DOMAIN seen[t] \cup {i}
            /\ \A k \in DOMAIN seen[t] : k # i => seen'[t][k] = seen[t][k]
            /\ seen'[t][i] = mem[Program(t)[i].loc]
        BY <1>3 DEF LoadStep, Sees
      <4>2. i \notin DOMAIN seen[t] /\ (1 \in performed[t] => 1 \in DOMAIN seen[t])
        BY <1>0, <1>p, <2>1 DEF Loaded, Saw, IsLoad
      <4>3. 1 \in DOMAIN seen[t] => seen[t][1] \in Nat
        BY <1>0 DEF Loaded
      <4>4. CASE i = 1
        <5>1. 4 \notin DOMAIN seen[t] /\ (KeepsDependencies => 2 \notin DOMAIN seen[t])
          BY <1>i, <2>1, <4>2, <4>4 DEF Saw
        <5>2. seen'[t][1] = mem.y
          BY <1>p, <2>1, <4>1, <4>4 DEF IsLoad
        <5> QED BY <1>m, <3>2, <4>1, <4>4, <5>1, <5>2
      <4>5. CASE i = 2
        <5>1. seen'[t][2] = mem.z
          BY <1>p, <2>1, <4>1, <4>5 DEF IsLoad
        <5> QED BY <1>i, <1>m, <2>1, <3>2, <4>1, <4>2, <4>3, <4>5, <5>1 DEF Saw
      <4>6. CASE i = 4
        <5>1. seen'[t][4] = mem.x
          BY <1>p, <2>1, <4>1, <4>6 DEF IsLoad
        <5> QED BY <1>i, <1>m, <2>1, <3>2, <4>1, <4>2, <4>3, <4>6, <5>1 DEF Saw
      <4> QED BY <2>1, <4>4, <4>5, <4>6
    <3> QED BY <3>1, <3>2
  <2> QED BY <1>2, <1>i, <2>2, <2>3 DEF Published, Flag, Saw
<1>4. ASSUME NEW t \in Threads, NEW i \in Nat, StoreStep(t, i) PROVE Published'
  <2>1. /\ t = 1 /\ i \in {1, 2, 4} /\ i \notin performed[1]
        /\ i = 4 => {1, 2} \subseteq performed[1]
    BY <1>2, <1>4, <1>p DEF StoreStep, Performs, IsLoad
  <2>2. performed'[1] = performed[1] \cup {i} /\ seen' = seen
    BY <1>4, <2>1 DEF StoreStep, Performs
  <2>3. /\ i = 1 => mem' = [mem EXCEPT !["x"] = 1]
        /\ i = 2 => mem' = [mem EXCEPT !["z"] = 1]
        /\ i = 4 => mem' = [mem EXCEPT !["y"] = 1]
    BY <1>4, <1>p, <2>1 DEF StoreStep, IsStore
  <2>4. /\ mem'.x = IF 1 \in performed'[1] THEN 1 ELSE 0
        /\ mem'.z = IF 2 \in performed'[1] THEN 1 ELSE 0
        /\ mem'.y = IF 4 \in performed'[1] THEN 1 ELSE 0
    BY <1>i, <1>m, <2>1, <2>2, <2>3 DEF Flag
  <2>5. 4 \in performed'[1] => {1, 2} \subseteq performed'[1]
    BY <1>i, <2>1, <2>2
  <2>6. mem.y <= mem'.y /\ mem'.y \in Nat
    BY <1>i, <1>m, <2>2, <2>4 DEF Flag
  <2>7. ASSUME NEW u \in Threads \ {1}, 1 \in DOMAIN seen[u]
        PROVE  seen[u][1] <= mem'.y
    BY <1>0, <1>i, <1>m, <2>6, <2>7 DEF Loaded, Saw
  <2> QED BY <1>2, <1>i, <2>2, <2>4, <2>5, <2>7 DEF Published, Flag, Saw
<1> QED BY <1>0, <1>3, <1>4, Steps

LEMMA HandedOverStep == ASSUME BarriersInv, [Next]_vars PROVE HandedOver'
<1>0. TypeOK /\ Loaded /\ HandedOver /\ {1, 2} \subseteq Threads
  BY BarriersAssumption DEF BarriersInv
<1>1. CASE UNCHANGED vars
  BY <1>0, <1>1 DEF vars, HandedOver, Flag, Saw
<1> DEFINE Hands == test = "done" \/ (test = "handover" /\ port # "gcc")
<1>2. UNCHANGED <<port, test>>
  BY <1>0, Steps DEF vars, LoadStep, StoreStep
<1> SUFFICES ASSUME ~UNCHANGED vars, Hands PROVE HandedOver'
  BY <1>1, <1>2 DEF HandedOver
<1>p. /\ Accesses(1) = {1, 2, 4} /\ Accesses(2) = {1, 3, 4}
      /\ \A t \in Threads \ {1, 2} : Accesses(t) = {}
      /\ IsLoad(1, 1, "z") /\ IsStore(1, 2, "x") /\ IsStore(1, 4, "y")
      /\ IsLoad(2, 1, "y") /\ IsLoad(2, 3, "x") /\ IsStore(2, 4, "z")
      /\ After(1, 1, 4) /\ After(1, 2, 4) /\ After(2, 1, 3) /\ After(2, 1, 4)
  BY <1>0, HandoverProgram
<1>i. /\ mem.x = Flag(1, 2) /\ mem.y = Flag(1, 4) /\ mem.z = Flag(2, 4)
      /\ 4 \in performed[1] => {1, 2} \subseteq performed[1]
      /\ 3 \in performed[2] \/ 4 \in performed[2] => 1 \in performed[2]
      /\ Saw(2, 1) /\ seen[2][1] = 1 => 4 \in performed[1]
      /\ Saw(2, 1) /\ seen[2][1] = 1 /\ Saw(2, 3) => seen[2][3] = 1
      /\ Saw(1, 1) /\ seen[1][1] # 0 =>
            4 \in performed[2] /\ ~(Saw(2, 1) /\ seen[2][1] = 1)
  BY <1>0 DEF HandedOver
<1>l. /\ \A t \in {1, 2} : \A i \in DOMAIN seen[t] : i \in performed[t]
      /\ 1 \in performed[2] => Saw(2, 1)
      /\ mem \in [{"x", "y", "z"} -> Nat]
  BY <1>0, <1>p DEF Loaded, IsLoad, TypeOK
<1>3. ASSUME NEW t \in Threads, NEW i \in Nat, LoadStep(t, i) PROVE HandedOver'
  <2>1. /\ i \notin performed[t]
        /\ (t = 1 /\ i = 1) \/ (t = 2 /\ i = 1) \/ (t = 2 /\ i = 3 /\ 1 \in performed[2])
    BY <1>3, <1>p DEF LoadStep, Performs, IsStore
  <2>2. mem' = mem
    BY <1>3 DEF LoadStep
  <2>3. CASE t = 1
    <3>1. /\ performed'[1] = performed[1] \cup {1} /\ performed'[2] = performed[2]
          /\ seen'[2] = seen[2] /\ DOMAIN seen'[1] = DOMAIN seen[1] \cup {1}
          /\ seen'[1][1] = mem.z /\ 1 \notin performed[1]
      BY <1>0, <1>3, <1>p, <2>1, <2>3 DEF LoadStep, Performs, Sees, IsLoad
    <3>2. ~(Saw(2, 1) /\ seen[2][1] = 1)
      BY <1>i, <3>1
    <3>3. mem.z # 0 => 4 \in performed[2]
      BY <1>i DEF Flag
    <3> QED BY <1>i, <2>2, <3>1, <3>2, <3>3 DEF HandedOver, Flag, Saw
  <2>4. CASE t = 2 /\ i = 1
    <3>1. /\ performed'[2] = performed[2] \cup {1} /\ performed'[1] = performed[1]
          /\ seen'[1] = seen[1] /\ DOMAIN seen'[2] = DOMAIN seen[2] \cup {1}
          /\ seen'[2][1] = mem.y /\ 1 \notin performed[2]
      BY <1>0, <1>3, <1>p, <2>1, <2>4 DEF LoadStep, Performs, Sees, IsLoad
    <3>2. 3 \notin performed[2] /\ 4 \notin performed[2] /\ ~Saw(2, 3)
      BY <1>i, <1>l, <3>1 DEF Saw
    <3>3. mem.y = 1 => 4 \in performed[1]
      BY <1>i DEF Flag
    <3> QED BY <1>i, <2>2, <3>1, <3>2, <3>3 DEF HandedOver, Flag, Saw
  <2>5. CASE t = 2 /\ i = 3
    <3>1. /\ performed'[2] = performed[2] \cup {3} /\ performed'[1] = performed[1]
          /\ seen'[1] = seen[1] /\ DOMAIN seen'[2] = DOMAIN seen[2] \cup {3}
          /\ seen'[2][3] = mem.x /\ 1 \in performed[2] /\ Saw(2, 1)
          /\ seen'[2][1] = seen[2][1]
      BY <1>0, <1>3, <1>l, <1>p, <2>1, <2>5 DEF LoadStep, Performs, Sees, IsLoad, Saw
    <3>2. seen[2][1] = 1 => mem.x = 1
      BY <1>i, <3>1 DEF Flag
    <3> QED BY <1>i, <2>2, <3>1, <3>2 DEF HandedOver, Flag, Saw
  <2> QED BY <2>1, <2>3, <2>4, <2>5
<1>4. ASSUME NEW t \in Threads, NEW i \in Nat, StoreStep(t, i) PROVE HandedOver'
  <2>1. /\ i \notin performed[t]
        /\ \/ t = 1 /\ i = 2
           \/ t = 1 /\ i = 4 /\ {1, 2} \subseteq performed[1]
           \/ t = 2 /\ i = 4 /\ 1 \in performed[2]
    BY <1>4, <1>p DEF StoreStep, Performs, IsLoad
  <2>2. seen' = seen
    BY <1>4 DEF StoreStep
  <2>3. CASE t = 1 /\ i = 2
    <3>1. /\ performed'[1] = performed[1] \cup {2} /\ performed'[2] = performed[2]
          /\ mem' = [mem EXCEPT !["x"] = 1]
      BY <1>0, <1>4, <1>p, <2>3 DEF StoreStep, Performs, IsStore
    <3> QED BY <1>i, <1>l, <2>2, <3>1 DEF HandedOver, Flag, Saw
  <2>4. CASE t = 1 /\ i = 4
    <3>1. /\ performed'[1] = performed[1] \cup {4} /\ performed'[2] = performed[2]
          /\ mem' = [mem EXCEPT !["y"] = 1] /\ {1, 2} \subseteq performed[1]
      BY <1>0, <1>4, <1>p, <2>1, <2>4 DEF StoreStep, Performs, IsStore
    <3> QED BY <1>i, <1>l, <2>2, <3>1 DEF HandedOver, Flag, Saw
  <2>5. CASE t = 2 /\ i = 4
    <3>1. /\ performed'[2] = performed[2] \cup {4} /\ performed'[1] = performed[1]
          /\ mem' = [mem EXCEPT !["z"] = 1] /\ 1 \in performed[2]
      BY <1>0, <1>4, <1>p, <2>1, <2>5 DEF StoreStep, Performs, IsStore
    <3> QED BY <1>i, <1>l, <2>2, <3>1 DEF HandedOver, Flag, Saw
  <2> QED BY <2>1, <2>3, <2>4, <2>5
<1> QED BY <1>0, <1>3, <1>4, Steps

LEMMA StoredFirstStep == ASSUME BarriersInv, [Next]_vars PROVE StoredFirst'
<1>0. TypeOK /\ Loaded /\ StoredFirst /\ {1, 2} \subseteq Threads
  BY BarriersAssumption DEF BarriersInv
<1>1. CASE UNCHANGED vars
  BY <1>0, <1>1 DEF vars, StoredFirst, Flag, Saw
<1>2. UNCHANGED <<port, test>>
  BY <1>0, Steps DEF vars, LoadStep, StoreStep
<1> SUFFICES ASSUME ~UNCHANGED vars, test = "store_load", port \notin {"c11", "sun", "nt"}
             PROVE  StoredFirst'
  BY <1>1, <1>2 DEF StoredFirst
<1>p. /\ Accesses(1) = {1, 3} /\ Accesses(2) = {1, 3}
      /\ \A t \in Threads \ {1, 2} : Accesses(t) = {}
      /\ IsStore(1, 1, "x") /\ IsLoad(1, 3, "y") /\ After(1, 1, 3)
      /\ IsStore(2, 1, "y") /\ IsLoad(2, 3, "x") /\ After(2, 1, 3)
  BY <1>0, StoreLoadProgram
<1>i. /\ mem.x = Flag(1, 1) /\ mem.y = Flag(2, 1)
      /\ \A t \in {1, 2} : 3 \in performed[t] => 1 \in performed[t]
      /\ ~(Saw(1, 3) /\ Saw(2, 3) /\ seen[1][3] = 0 /\ seen[2][3] = 0)
  BY <1>0 DEF StoredFirst
<1>l. /\ \A t \in {1, 2} : Saw(t, 3) => 3 \in performed[t]
      /\ mem \in [{"x", "y", "z"} -> Nat]
  BY <1>0 DEF Loaded, Saw, TypeOK
<1>3. ASSUME NEW t \in Threads, NEW i \in Nat, LoadStep(t, i) PROVE StoredFirst'
  <2>1. t \in {1, 2} /\ i = 3 /\ 1 \in performed[t] /\ mem' = mem
    BY <1>3, <1>p DEF LoadStep, Performs, IsStore
  <2>2. CASE t = 1
    <3>1. /\ performed'[1] = performed[1] \cup {3} /\ performed'[2] = performed[2]
          /\ seen'[2] = seen[2] /\ seen'[1][3] = mem.y
      BY <1>0, <1>3, <1>p, <2>1, <2>2 DEF LoadStep, Performs, Sees, IsLoad
    <3>2. Saw(2, 3) => mem.y = 1
      BY <1>i, <1>l DEF Flag
    <3> QED BY <1>i, <2>1, <2>2, <3>1, <3>2 DEF StoredFirst, Flag, Saw
  <2>3. CASE t = 2
    <3>1. /\ performed'[2] = performed[2] \cup {3} /\ performed'[1] = performed[1]
          /\ seen'[1] = seen[1] /\ seen'[2][3] = mem.x
      BY <1>0, <1>3, <1>p, <2>1, <2>3 DEF LoadStep, Performs, Sees, IsLoad
    <3>2. Saw(1, 3) => mem.x = 1
      BY <1>i, <1>l DEF Flag
    <3> QED BY <1>i, <2>1, <2>3, <3>1, <3>2 DEF StoredFirst, Flag, Saw
  <2> QED BY <2>1, <2>2, <2>3
<1>4. ASSUME NEW t \in Threads, NEW i \in Nat, StoreStep(t, i) PROVE StoredFirst'
  <2>1. t \in {1, 2} /\ i = 1 /\ seen' = seen
    BY <1>4, <1>p DEF StoreStep, Performs, IsLoad
  <2>2. CASE t = 1
    <3>1. /\ performed'[1] = performed[1] \cup {1} /\ performed'[2] = performed[2]
          /\ mem' = [mem EXCEPT !["x"] = 1]
      BY <1>0, <1>4, <1>p, <2>1, <2>2 DEF StoreStep, Performs, IsStore
    <3> QED BY <1>i, <1>l, <2>1, <3>1 DEF StoredFirst, Flag, Saw
  <2>3. CASE t = 2
    <3>1. /\ performed'[2] = performed[2] \cup {1} /\ performed'[1] = performed[1]
          /\ mem' = [mem EXCEPT !["y"] = 1]
      BY <1>0, <1>4, <1>p, <2>1, <2>3 DEF StoreStep, Performs, IsStore
    <3> QED BY <1>i, <1>l, <2>1, <3>1 DEF StoredFirst, Flag, Saw
  <2> QED BY <2>1, <2>2, <2>3
<1> QED BY <1>0, <1>3, <1>4, Steps

(* The writers in the middle, one by one.                                  *)
LEMMA InMiddle ==
    /\ \A t \in Threads, i \in 1 .. 4 * Rounds :
          <<t, i>> \in Middle <=> /\ t % 2 = 1 /\ i % 4 = 1
                                  /\ i \in performed[t] /\ i + 2 \notin performed[t]
    /\ \A w \in Middle : \E t \in Threads, i \in 1 .. 4 * Rounds : w = <<t, i>>
<1> QED BY DEF Middle

LEMMA InMiddleNext ==
    /\ \A t \in Threads, i \in 1 .. 4 * Rounds :
          <<t, i>> \in Middle' <=> /\ t % 2 = 1 /\ i % 4 = 1
                                   /\ i \in performed'[t] /\ i + 2 \notin performed'[t]
    /\ \A w \in Middle' : \E t \in Threads, i \in 1 .. 4 * Rounds : w = <<t, i>>
<1> QED BY DEF Middle

LEMMA ArrayStep == ASSUME BarriersInv, [Next]_vars PROVE Array'
<1>0. TypeOK /\ Loaded /\ Array
  BY DEF BarriersInv
<1>1. CASE UNCHANGED vars
  <2>1. Middle' = Middle
    BY <1>1 DEF vars, Middle
  <2> QED BY <1>0, <1>1, <2>1 DEF vars, Array
<1>2. UNCHANGED <<port, test>>
  BY <1>0, Steps DEF vars, LoadStep, StoreStep
<1> SUFFICES ASSUME ~UNCHANGED vars, test = "linear_array" PROVE Array'
  BY <1>1, <1>2 DEF Array
<1>p. ASSUME NEW t \in Threads
      PROVE  /\ Accesses(t) = {i \in 1 .. 4 * Rounds : i % 2 = 1}
             /\ \A i \in Accesses(t) : i % 4 = 1 \/ i % 4 = 3
             /\ \A i \in Accesses(t) : i % 4 = 3 => /\ i - 2 \in Accesses(t)
                                                    /\ (i - 2) % 4 = 1
                                                    /\ After(t, i - 2, i)
             /\ t % 2 = 1 => \A i \in Accesses(t) : /\ i % 4 = 1 => IsIncr(t, i, "x")
                                                    /\ i % 4 = 3 => IsIncr(t, i, "y")
             /\ t % 2 = 0 => \A i \in Accesses(t) : /\ i % 4 = 1 => IsLoad(t, i, "y")
                                                    /\ i % 4 = 3 => IsLoad(t, i, "x")
             /\ t % 2 = 0 \/ t % 2 = 1
  BY <1>0, ArrayProgram
<1>i. /\ IsFiniteSet(Middle) /\ mem.x = mem.y + Cardinality(Middle)
      /\ \A t \in Threads : \A i \in performed[t] : i % 4 = 3 => i - 2 \in performed[t]
      /\ \A t \in Threads : t % 2 = 0 =>
            \A i \in DOMAIN seen[t] : /\ i % 4 = 1 => seen[t][i] <= mem.y
                                      /\ i % 4 = 3 => seen[t][i-2] <= seen[t][i]
  BY <1>0 DEF Array
<1>m. /\ mem \in [{"x", "y", "z"} -> Nat] /\ mem.x \in Nat /\ mem.y \in Nat
      /\ Cardinality(Middle) \in Nat /\ mem.y <= mem.x
  <2>1. Cardinality(Middle) \in Nat
    BY <1>i, FS_CardinalityType
  <2>2. mem \in [{"x", "y", "z"} -> Nat] /\ mem.x \in Nat /\ mem.y \in Nat
    BY <1>0 DEF TypeOK
  <2> QED BY <1>i, <2>1, <2>2
<1>o. ASSUME NEW t \in Threads, NEW i \in Nat, Performs(t, i)
      PROVE  \A u \in Threads : \A j \in performed'[u] :
                j % 4 = 3 => j - 2 \in performed'[u]
  BY <1>i, <1>o, <1>p DEF Performs
<1>3. ASSUME NEW t \in Threads, NEW i \in Nat, LoadStep(t, i) PROVE Array'
  <2>1. /\ t % 2 = 0 /\ Performs(t, i) /\ mem' = mem
        /\ i \in Accesses(t) /\ i \notin performed[t]
    BY <1>3, <1>p DEF LoadStep, Performs, IsIncr
  <2>2. Middle' = Middle
    <3>1. \A u \in Threads : u % 2 = 1 => performed'[u] = performed[u]
      BY <2>1 DEF Performs
    <3>2. ASSUME NEW u \in Threads, NEW j \in 1 .. 4 * Rounds
          PROVE  <<u, j>> \in Middle' <=> <<u, j>> \in Middle
      <4>1. CASE u % 2 = 1
        <5>1. performed'[u] = performed[u]
          BY <3>1, <4>1
        <5> QED BY <5>1, InMiddle, InMiddleNext
      <4>2. CASE u % 2 # 1
        BY <4>2, InMiddle, InMiddleNext
      <4> QED BY <4>1, <4>2
    <3>3. Middle' \subseteq Middle
      BY <3>2, InMiddleNext
    <3>4. Middle \subseteq Middle'
      BY <3>2, InMiddle
    <3> QED BY <3>3, <3>4
  <2>3. ASSUME NEW u \in Threads, u % 2 = 0, NEW j \in DOMAIN seen'[u]
        PROVE  /\ j % 4 = 1 => seen'[u][j] <= mem.y
               /\ j % 4 = 3 => seen'[u][j-2] <= seen'[u][j]
    <3>1. CASE u # t
      BY <1>3, <1>i, <2>3, <3>1 DEF LoadStep, Sees
    <3>2. CASE u = t /\ j # i
      <4>1. /\ j \in DOMAIN seen[t] /\ seen'[t][j] = seen[t][j] /\ j \in performed[t]
            /\ j \in Accesses(t)
        BY <1>0, <1>3, <2>3, <3>2 DEF LoadStep, Sees, Loaded
      <4>2. ASSUME j % 4 = 3 PROVE seen'[t][j-2] = seen[t][j-2]
        <5>1. j - 2 \in performed[t] /\ j - 2 \in Accesses(t) /\ (j - 2) % 4 = 1
          BY <1>i, <1>p, <4>1, <4>2
        <5>2. j - 2 \in DOMAIN seen[t] /\ j - 2 # i
          BY <1>0, <1>p, <2>1, <5>1 DEF Loaded, Saw, IsLoad
        <5> QED BY <1>3, <5>2 DEF LoadStep, Sees
      <4> QED BY <1>i, <2>1, <3>2, <4>1, <4>2
    <3>3. CASE u = t /\ j = i /\ i % 4 = 1
      <4>1. seen'[t][i] = mem.y
        BY <1>3, <1>p, <2>1, <3>3 DEF LoadStep, Sees, IsLoad
      <4> QED BY <1>m, <3>3, <4>1
    <3>4. CASE u = t /\ j = i /\ i % 4 = 3
      <4>1. seen'[t][i] = mem.x
        BY <1>3, <1>p, <2>1, <3>4 DEF LoadStep, Sees, IsLoad
      <4>2. i - 2 \in performed[t] /\ i - 2 \in Accesses(t) /\ (i - 2) % 4 = 1
        BY <1>p, <2>1, <3>4 DEF Performs
      <4>3. i - 2 \in DOMAIN seen[t] /\ i - 2 # i
        BY <1>0, <1>p, <2>1, <4>2 DEF Loaded, Saw, IsLoad
      <4>4. /\ seen'[t][i-2] = seen[t][i-2] /\ seen[t][i-2] <= mem.y
            /\ seen[t][i-2] \in Nat
        BY <1>0, <1>3, <1>i, <2>1, <4>2, <4>3 DEF LoadStep, Sees, Loaded
      <4> QED BY <1>m, <3>4, <4>1, <4>4
    <3> QED BY <1>p, <2>1, <3>1, <3>2, <3>3, <3>4
  <2> QED BY <1>i, <1>o, <2>1, <2>2, <2>3 DEF Array
<1>4. ASSUME NEW t \in Threads, NEW i \in Nat, StoreStep(t, i) PROVE Array'
  <2>1. /\ t % 2 = 1 /\ Performs(t, i) /\ seen' = seen
        /\ i \in Accesses(t) /\ i \notin performed[t]
        /\ i \in 1 .. 4 * Rounds
    BY <1>4, <1>p DEF StoreStep, Performs, IsLoad
  <2>o. \A u \in Threads, j \in 1 .. 4 * Rounds :
           u # t => (<<u, j>> \in Middle' <=> <<u, j>> \in Middle)
    BY <2>1, InMiddle, InMiddleNext DEF Performs
  <2>2. CASE i % 4 = 1
    <3>1. mem' = [mem EXCEPT !["x"] = mem["x"] + 1]
      BY <1>4, <1>p, <2>1, <2>2 DEF StoreStep, IsIncr
    <3>2. mem'.x = mem.x + 1 /\ mem'.y = mem.y
      BY <1>m, <3>1
    <3>3. i + 2 \notin performed[t] /\ <<t, i>> \notin Middle
      <4>1. (i + 2) % 4 = 3 /\ (i + 2) - 2 = i
        BY <2>2
      <4> QED BY <1>i, <2>1, <4>1, InMiddle
    <3>4. ASSUME NEW j \in 1 .. 4 * Rounds
          PROVE  <<t, j>> \in Middle' <=> <<t, j>> \in Middle \/ j = i
      <4>1. CASE j = i
        <5>1. i + 2 # i
          OBVIOUS
        <5> QED BY <2>1, <2>2, <3>3, <4>1, <5>1, InMiddleNext DEF Performs
      <4>2. CASE j # i
        <5>1. j % 4 = 1 => j + 2 # i
          BY <2>2
        <5> QED BY <2>1, <4>2, <5>1, InMiddle, InMiddleNext DEF Performs
      <4> QED BY <4>1, <4>2
    <3>5. Middle' = Middle \cup {<<t, i>>}
      BY <2>1, <2>o, <3>4, InMiddle, InMiddleNext
    <3>6. IsFiniteSet(Middle') /\ Cardinality(Middle') = Cardinality(Middle) + 1
      BY <1>i, <3>3, <3>5, FS_AddElement
    <3>7. mem'.x = mem'.y + Cardinality(Middle')
      BY <1>i, <1>m, <3>2, <3>6
    <3> QED BY <1>i, <1>o, <2>1, <3>2, <3>6, <3>7 DEF Array
  <2>3. CASE i % 4 = 3
    <3>1. mem' = [mem EXCEPT !["y"] = mem["y"] + 1]
      BY <1>4, <1>p, <2>1, <2>3 DEF StoreStep, IsIncr
    <3>2. mem'.y = mem.y + 1 /\ mem'.x = mem.x
      BY <1>m, <3>1
    <3>3. /\ i - 2 \in performed[t] /\ i - 2 \in 1 .. 4 * Rounds /\ (i - 2) % 4 = 1
          /\ (i - 2) + 2 = i
      BY <1>p, <2>1, <2>3 DEF Performs
    <3>4. <<t, i - 2>> \in Middle
      BY <2>1, <3>3, InMiddle
    <3>5. ASSUME NEW j \in 1 .. 4 * Rounds
          PROVE  <<t, j>> \in Middle' <=> <<t, j>> \in Middle /\ j # i - 2
      <4>1. CASE j = i - 2
        BY <2>1, <3>3, <4>1, InMiddleNext DEF Performs
      <4>2. CASE j # i - 2
        <5>1. j + 2 # i /\ (j % 4 = 1 => j # i)
          BY <2>3, <4>2
        <5> QED BY <2>1, <4>2, <5>1, InMiddle, InMiddleNext DEF Performs
      <4> QED BY <4>1, <4>2
    <3>6. Middle' = Middle \ {<<t, i - 2>>}
      BY <2>1, <2>o, <3>3, <3>5, InMiddle, InMiddleNext
    <3>7. IsFiniteSet(Middle') /\ Cardinality(Middle') = Cardinality(Middle) - 1
      BY <1>i, <3>4, <3>6, FS_RemoveElement
    <3>8. mem'.x = mem'.y + Cardinality(Middle')
      BY <1>i, <1>m, <3>2, <3>7
    <3>9. ASSUME NEW u \in Threads, u % 2 = 0, NEW j \in DOMAIN seen[u], j % 4 = 1
          PROVE  seen[u][j] <= mem'.y
      <4>1. seen[u][j] \in Nat /\ seen[u][j] <= mem.y
        BY <1>0, <1>i, <3>9 DEF Loaded
      <4> QED BY <1>m, <3>2, <4>1
    <3> QED BY <1>i, <1>o, <2>1, <3>7, <3>8, <3>9 DEF Array
  <2> QED BY <1>p, <2>1, <2>2, <2>3
<1> QED BY <1>0, <1>3, <1>4, Steps

LEMMA InitInvariant == Init => BarriersInv
<1> SUFFICES ASSUME Init PROVE BarriersInv
  OBVIOUS
<1>1. \A t \in Threads : performed[t] = {} /\ DOMAIN seen[t] = {}
  BY DEF Init
<1>2. TypeOK /\ 1 \in Threads /\ 2 \in Threads
  BY BarriersAssumption DEF Init, TypeOK
<1>3. Loaded
  BY <1>1 DEF Loaded
<1>4. Middle = {}
  BY <1>1, InMiddle
<1>5. IsFiniteSet(Middle) /\ Cardinality(Middle) = 0
  BY <1>4, FS_EmptySet
<1>6. mem.x = 0 /\ mem.y = 0 /\ mem.z = 0
  BY DEF Init
<1>7. Array
  BY <1>1, <1>5, <1>6 DEF Array
<1>8. Published /\ HandedOver /\ StoredFirst
  BY <1>1, <1>2, <1>6 DEF Published, HandedOver, StoredFirst, Flag, Saw
<1> QED BY <1>2, <1>3, <1>7, <1>8 DEF BarriersInv

(* The structure of the four programs' runs, on every port: what has been  *)
(* performed determines the memory, and bounds what has been seen.         *)
THEOREM BarrierStructure == Spec => []BarriersInv
<1>1. BarriersInv /\ [Next]_vars => BarriersInv'
  BY TypeStep, LoadedStep, ArrayStep, PublishedStep, HandedOverStep, StoredFirstStep
     DEF BarriersInv
<1> QED BY <1>1, InitInvariant, PTL DEF Spec

(* test_barriers_linear_array passes on every port, for any number of      *)
(* writers, readers and rounds.                                            *)
THEOREM LinearArrayDecreases == Spec => []NeverIncreasing
<1>1. ASSUME BarriersInv PROVE NeverIncreasing
  <2> SUFFICES ASSUME test = "linear_array", NEW t \in Threads,
                      NEW r \in 0 .. Rounds - 1, t % 2 = 0, Saw(t, 4*r + 3)
               PROVE  seen[t][4*r + 1] <= seen[t][4*r + 3]
    BY DEF NeverIncreasing
  <2>1. r \in Nat
    BY BarriersAssumption
  <2>2. \A k \in Nat : (4*k + 3) % 4 = 3 /\ (4*k + 3) - 2 = 4*k + 1
    OBVIOUS
  <2> QED BY <1>1, <2>1, <2>2 DEF BarriersInv, Array, Saw
<1>2. BarriersInv => NeverIncreasing
  BY <1>1
<1> QED BY <1>2, BarrierStructure, PTL

(* On every port who finds a published element finds what was stored in    *)
(* it before: OPA_write_barrier and OPA_read_barrier are strong enough for *)
(* the queue.                                                              *)
THEOREM PublicationWorks == Spec => []PublishedIsVisible
<1>1. BarriersInv => PublishedIsVisible
  BY DEF BarriersInv, Published, PublishedIsVisible
<1> QED BY <1>1, BarrierStructure, PTL

(* load_acquire and store_release hand a variable over, on every port but  *)
(* gcc's.                                                                  *)
THEOREM AcquireReleaseWorks == Spec => []AcquireSeesRelease
<1>1. BarriersInv => AcquireSeesRelease
  BY DEF BarriersInv, HandedOver, AcquireSeesRelease, Received
<1> QED BY <1>1, BarrierStructure, PTL

(* OPA_read_write_barrier hands a variable over, on every port.            *)
THEOREM ReadWriteBarrierWorks == Spec => []BarrierHandsOver
<1>1. BarriersInv => BarrierHandsOver
  BY DEF BarriersInv, HandedOver, BarrierHandsOver, Received
<1> QED BY <1>1, BarrierStructure, PTL

(* OPA_read_write_barrier orders a store before a later load, on every     *)
(* port but c11, sun and nt.                                               *)
THEOREM FullBarrierWorks == Spec => []StoreBeforeLoad
<1>1. BarriersInv => StoreBeforeLoad
  BY DEF BarriersInv, StoredFirst, StoreBeforeLoad
<1> QED BY <1>1, BarrierStructure, PTL
=============================================================================
