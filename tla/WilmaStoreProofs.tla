-------------------------- MODULE WilmaStoreProofs --------------------------
(***************************************************************************)
(* Theorems about WilmaStore.  The store has each name once because every *)
(* copy that a task may yet write back has: copies are taken from the      *)
(* store and changed in one place only.  The mutex is where the two tasks  *)
(* say.  The lists in RAM are guarded by it or not: what the web server    *)
(* shows is of one scan because the event task fills WILMA_VISIBLE_APS     *)
(* under the mutex only, and the candidates are known until two of the     *)
(* three tasks that use them meet: until then, whoever has taken a         *)
(* candidate's name finds its password under the same index.               *)
(***************************************************************************)
EXTENDS WilmaStore, FiniteSetTheorems, WellFoundedInduction, TLAPS

Once(copy) == \A i, j \in DOMAIN copy : copy[i].ssid = copy[j].ssid => i = j
Good(copy) == copy \in Seq(Stations) /\ Once(copy)

\* What each task holds in its hands.
WebHolds ==
  /\ web.at \in {"add", "remove"} => Good(web.copy) /\ web.ssid \in Ssids
  /\ web.at = "add" => web.password \in Passwords
  /\ web.at = "remove" => Holds(web.copy, web.ssid)
EventHolds ==
  /\ event.at = "state" =>
       Good(event.copy) /\ event.state \in States /\ Holds(event.copy, event.ssid)
  /\ event.at = "fill" =>
       event = [at |-> "fill", raw |-> event.raw, records |-> event.records,
                next |-> event.next, copy |-> event.copy]
  /\ event.at = "fill" =>
       event.raw \in Scans /\ event.records = FilterSortUnique(AtMostAps(event.raw))

IInv == Good(store) /\ WebHolds /\ EventHolds /\ MutexHeldInside

-----------------------------------------------------------------------------
(* ap_filter_sort_unique, for every list of records.                       *)

\* Induction over the natural numbers, for a set instead of a predicate.
LEMMA Upwards ==
  ASSUME NEW T, 0 \in T, \A n \in Nat : n \in T => n + 1 \in T
  PROVE  \A n \in Nat : n \in T
<1> DEFINE Out == Nat \ T
<1> SUFFICES ASSUME Out # {} PROVE FALSE
  OBVIOUS
<1>1. PICK m \in Out : \A y \in Out : <<y, m>> \notin OpToRel(<, Nat)
  BY NatLessThanWellFounded, WFMin
<1>2. m # 0 /\ m - 1 \in Nat
  OBVIOUS
<1>3. m - 1 \in Out
  BY <1>2
<1>4. <<m - 1, m>> \in OpToRel(<, Nat)
  BY <1>2 DEF OpToRel
<1> QED BY <1>1, <1>3, <1>4

LEMMA MaxIs ==
  ASSUME NEW S \in SUBSET Int, NEW m \in S, \A y \in S : m >= y
  PROVE  Max(S) = m
<1>1. \A x \in S : (\A y \in S : x >= y) => x = m
  OBVIOUS
<1> QED BY <1>1 DEF Max

\* FoldLeft(ClearRepeats, records, ...) clears one index after the other.
LEMMA FoldClears ==
  ASSUME NEW e, NEW L \in Nat
  PROVE  \E f : /\ f[0] = e
                /\ \A n \in 1..L : f[n] = ClearRepeats(f[n - 1], n)
                /\ FoldLeft(ClearRepeats, e, [i \in 1..L |-> i]) = f[L]
<1> DEFINE buf == [i \in 1..L |-> i]
           D == DOMAIN buf
           Step(g, u) == IF u = {} THEN e ELSE ClearRepeats(g[u \ {Max(u)}], buf[Max(u)])
           iter == CHOOSE g : g = [u \in SUBSET D |-> Step(g, u)]
           T == {k \in Nat : \E g : g = [u \in SUBSET (1..k) |-> Step(g, u)]}
<1>1. FoldLeft(ClearRepeats, e, buf) = iter[D]
  BY DEF FoldLeft, MapThenFoldSet
<1>2. D = 1..L /\ L \in Nat /\ \A i \in 1..L : buf[i] = i
  OBVIOUS
<1> HIDE DEF buf
<1>3. 0 \in T
  <2> DEFINE g0 == [u \in SUBSET (1..0) |-> e]
  <2>1. \A u \in SUBSET (1..0) : u = {}
    OBVIOUS
  <2>2. g0 = [u \in SUBSET (1..0) |-> Step(g0, u)]
    BY <2>1
  <2> QED BY <2>2
<1>4. ASSUME NEW k \in Nat, k \in T PROVE k + 1 \in T
  <2>1. PICK g : g = [u \in SUBSET (1..k) |-> Step(g, u)]
    BY <1>4
  <2> DEFINE h == [u \in SUBSET (1..k + 1) |-> IF k + 1 \in u THEN ClearRepeats(g[u \ {k + 1}], buf[k + 1]) ELSE g[u]]
  <2>2. ASSUME NEW u \in SUBSET (1..k + 1) PROVE h[u] = Step(h, u)
    <3>1. CASE k + 1 \in u
      <4>1. Max(u) = k + 1
        BY <3>1, MaxIs
      <4>2. u \ {k + 1} \in SUBSET (1..k) /\ k + 1 \notin u \ {k + 1} /\ u \ {k + 1} \in SUBSET (1..k + 1)
        OBVIOUS
      <4>3. h[u \ {k + 1}] = g[u \ {k + 1}]
        BY <4>2
      <4> QED BY <3>1, <4>1, <4>3
    <3>2. CASE k + 1 \notin u
      <4>1. u \in SUBSET (1..k)
        BY <3>2
      <4>2. g[u] = Step(g, u)
        BY <2>1, <4>1
      <4>3. u \ {Max(u)} \in SUBSET (1..k + 1) /\ k + 1 \notin u \ {Max(u)}
        BY <3>2
      <4>4. h[u \ {Max(u)}] = g[u \ {Max(u)}]
        BY <4>3
      <4> QED BY <3>2, <4>2, <4>4
    <3> QED BY <3>1, <3>2
  <2>3. h = [u \in SUBSET (1..k + 1) |-> Step(h, u)]
    BY <2>2
  <2> HIDE DEF h, Step
  <2>4. \E x : x = [u \in SUBSET (1..k + 1) |-> Step(x, u)]
    BY <2>3
  <2> QED BY <2>4
<1>5. L \in T
  <2> HIDE DEF T
  <2> QED BY <1>2, <1>3, <1>4, Upwards
<1>6. iter = [u \in SUBSET D |-> Step(iter, u)]
  BY <1>2, <1>5
<1> DEFINE f == [n \in 0..L |-> iter[1..n]]
<1> HIDE DEF iter
<1>7. f[0] = e
  BY <1>2, <1>6
<1>8. ASSUME NEW n \in 1..L PROVE f[n] = ClearRepeats(f[n - 1], n)
  <2>1. n \in 1..n /\ 1..n \in SUBSET (1..L) /\ n \in Int /\ n - 1 \in 0..L
    BY <1>2
  <2>2. Max(1..n) = n
    <3>1. 1..n \in SUBSET Int /\ \A y \in 1..n : n >= y
      BY <2>1
    <3> QED BY <2>1, <3>1, MaxIs
  <2>4. (1..n) \ {n} = 1..n - 1
    BY <2>1
  <2>3. iter[1..n] = Step(iter, 1..n)
    <3> HIDE DEF Step
    <3> QED BY <1>2, <1>6, <2>1
  <2>6. buf[n] = n
    BY <1>2
  <2>7. 1..n # {}
    BY <2>1
  <2>5. iter[1..n] = ClearRepeats(iter[1..n - 1], n)
    BY <2>2, <2>3, <2>4, <2>6, <2>7
  <2> QED BY <1>2, <2>1, <2>5
<1>9. FoldLeft(ClearRepeats, e, [i \in 1..L |-> i]) = f[L]
  BY <1>1, <1>2 DEF buf
<1> QED BY <1>7, <1>8, <1>9

\* The records of raw that are of the same access point as record i.
Class(raw, i) == {j \in 1..Len(raw) : SameAp(raw[i], raw[j])}

\* Record i speaks for its class; record i is not reached yet, nor is its class.
Stands(raw, new, i) ==
  /\ \A j \in Class(raw, i) : j # i => new[j].ssid = Empty
  /\ \A j \in Class(raw, i) : new[i].rssi >= raw[j].rssi
  /\ \E j \in Class(raw, i) : new[i].rssi = raw[j].rssi
Waits(raw, new, k, i) == \A j \in Class(raw, i) : j > k /\ new[j] = raw[j]

\* The invariant of the outer loop of ap_filter_sort_unique, after k records.
SameNames(raw, new) ==
  \A i \in 1..Len(raw) : new[i].auth = raw[i].auth /\ new[i].ssid \in {raw[i].ssid, Empty}
Spoken(raw, new) ==
  \A i \in 1..Len(raw) : raw[i].ssid # Empty => \E j \in Class(raw, i) : new[j].ssid # Empty
Standing(raw, new, k) == \A i \in 1..Len(raw) : i <= k /\ new[i].ssid # Empty => Stands(raw, new, i)
Waiting(raw, new, k) == \A i \in 1..Len(raw) : i > k /\ new[i].ssid # Empty => Waits(raw, new, k, i)
Fits(raw, new) == new \in Seq(Records) /\ Len(new) = Len(raw)
Cleared(raw, new, k) ==
  Fits(raw, new) /\ SameNames(raw, new) /\ Spoken(raw, new) /\ Standing(raw, new, k) /\ Waiting(raw, new, k)

LEMMA RecordFields ==
  ASSUME NEW s \in Seq(Records), NEW i \in 1..Len(s)
  PROVE  /\ s[i] \in Records
         /\ s[i].ssid \in Ssids \cup {Empty} /\ s[i].auth \in {"open", "psk"} /\ s[i].rssi \in Nat
<1>1. s[i] \in Records
  OBVIOUS
<1> QED BY <1>1 DEF Records

\* Of the strengths of some of a list's records one is the best.
HasBest(f, S) == \E b \in S : \A i \in S : f[b] >= f[i]

LEMMA BestStrength ==
  ASSUME NEW f, NEW S, NEW L \in Nat, S \subseteq 1..L, S # {}, \A i \in S : f[i] \in Nat
  PROVE  HasBest(f, S)
<1> DEFINE T == {k \in Nat : \A K \in SUBSET S : K \subseteq 1..k /\ K # {} => HasBest(f, K)}
<1>1. 0 \in T
  <2>1. \A K : K \subseteq 1..0 => K = {}
    OBVIOUS
  <2> QED BY <2>1
<1>2. ASSUME NEW k \in Nat, k \in T PROVE k + 1 \in T
  <2> SUFFICES ASSUME NEW K \in SUBSET S, K \subseteq 1..k + 1, K # {}
               PROVE  HasBest(f, K)
    OBVIOUS
  <2> DEFINE J == K \ {k + 1}
  <2>1. J \in SUBSET S /\ J \subseteq 1..k
    OBVIOUS
  <2>2. CASE J = {}
    <3>1. k + 1 \in K /\ \A i \in K : i = k + 1
      BY <2>2
    <3>2. f[k + 1] \in Nat
      BY <3>1
    <3> QED BY <3>1, <3>2 DEF HasBest
  <2>3. CASE J # {}
    <3>1. PICK b \in J : \A i \in J : f[b] >= f[i]
      BY <1>2, <2>1, <2>3 DEF HasBest
    <3>2. CASE k + 1 \notin K
      BY <3>1, <3>2 DEF HasBest
    <3>3. CASE k + 1 \in K
      <4>1. f[b] \in Nat /\ f[k + 1] \in Nat /\ \A i \in J : f[i] \in Nat
        BY <3>3
      <4>2. \A i \in K : i \in J \/ i = k + 1
        OBVIOUS
      <4>3. CASE f[b] >= f[k + 1]
        BY <3>1, <4>1, <4>2, <4>3 DEF HasBest
      <4>4. CASE f[k + 1] > f[b]
        <5>1. \A i \in K : f[k + 1] >= f[i]
          BY <3>1, <4>1, <4>2, <4>4
        <5> QED BY <3>3, <5>1 DEF HasBest
      <4> QED BY <4>1, <4>3, <4>4
    <3> QED BY <3>2, <3>3
  <2> QED BY <2>2, <2>3
<1> HIDE DEF T
<1>3. L \in T
  BY <1>1, <1>2, Upwards
<1> QED BY <1>3 DEF T

LEMMA ClearedAtFirst ==
  ASSUME NEW raw \in Seq(Records)
  PROVE  Cleared(raw, raw, 0)
<1>1. Fits(raw, raw) /\ SameNames(raw, raw)
  BY DEF Fits, SameNames
<1>2. Spoken(raw, raw)
  BY DEF Spoken, Class, SameAp
<1>3. Standing(raw, raw, 0)
  BY DEF Standing
<1>4. Waiting(raw, raw, 0)
  BY DEF Waiting, Waits, Class
<1> QED BY <1>1, <1>2, <1>3, <1>4 DEF Cleared

LEMMA ClassesMeet ==
  ASSUME NEW raw \in Seq(Records), NEW i \in 1..Len(raw), NEW j \in Class(raw, i)
  PROVE  /\ j \in 1..Len(raw) /\ i \in Class(raw, j)
         /\ \A k \in 1..Len(raw) : k \in Class(raw, i) <=> k \in Class(raw, j)
         /\ raw[i].ssid = raw[j].ssid /\ raw[i].auth = raw[j].auth
  BY DEF Class, SameAp

\* A record that was cleared already changes nothing.
LEMMA ClearsNothing ==
  ASSUME NEW raw \in Seq(Records), NEW new, NEW k \in Nat, k + 1 \in 1..Len(raw),
         Cleared(raw, new, k), new[k + 1].ssid = Empty
  PROVE  Cleared(raw, new, k + 1)
<1> DEFINE n == Len(raw)
<1>1. n \in Nat /\ \A i \in 1..n : (i <= k + 1 <=> i <= k \/ i = k + 1) /\ (i > k <=> i > k + 1 \/ i = k + 1)
  OBVIOUS
<1>2. Standing(raw, new, k + 1)
  BY <1>1 DEF Cleared, Standing
<1>3. ASSUME NEW i \in 1..n, i > k + 1, new[i].ssid # Empty
      PROVE  Waits(raw, new, k + 1, i)
  <2>1. Waits(raw, new, k, i)
    BY <1>1, <1>3 DEF Cleared, Waiting
  <2>2. i \in Class(raw, i) /\ raw[i].ssid # Empty
    BY <1>3 DEF Cleared, SameNames, Class, SameAp
  <2>3. ASSUME NEW j \in Class(raw, i) PROVE j > k + 1 /\ new[j] = raw[j]
    <3>1. j \in 1..n /\ j > k /\ new[j] = raw[j] /\ raw[j].ssid = raw[i].ssid
      BY <2>1, ClassesMeet DEF Waits
    <3>2. j # k + 1
      BY <2>2, <3>1
    <3> QED BY <1>1, <3>1, <3>2
  <2> QED BY <2>3 DEF Waits
<1>4. Waiting(raw, new, k + 1)
  BY <1>3 DEF Waiting
<1> QED BY <1>2, <1>4 DEF Cleared

\* One that was not takes the best strength of its class, and clears the others.
LEMMA ClearsClass ==
  ASSUME NEW raw \in Seq(Records), NEW new, NEW m \in 1..Len(raw),
         Cleared(raw, new, m - 1), new[m].ssid # Empty
  PROVE  \E b \in Nat :
           /\ \A j \in Class(raw, m) : b >= raw[j].rssi
           /\ \E j \in Class(raw, m) : b = raw[j].rssi
           /\ \A j \in Class(raw, m) : j >= m /\ new[j] = raw[j]
           /\ ClearRepeats(new, m) =
                [j \in 1..Len(raw) |-> IF j = m THEN [new[m] EXCEPT !.rssi = b]
                                       ELSE IF j \in Class(raw, m) THEN [new[j] EXCEPT !.ssid = Empty] ELSE new[j]]
<1> DEFINE n == Len(raw)
           C == Class(raw, m)
           same == {j \in m..Len(new) : SameAp(new[m], new[j])}
<1>1. n \in Nat /\ Len(new) = n /\ DOMAIN new = 1..n /\ m \in Nat /\ m <= n
  BY DEF Cleared, Fits
<1>2. Waits(raw, new, m - 1, m)
  BY <1>1 DEF Cleared, Waiting
<1>3. m \in C
  BY DEF Class, SameAp
<1>4. \A j \in C : j \in 1..n /\ j >= m /\ new[j] = raw[j] /\ SameAp(raw[m], raw[j])
  BY <1>1, <1>2 DEF Waits, Class
<1>5. C \subseteq same
  BY <1>1, <1>3, <1>4
<1>6. ASSUME NEW j \in same PROVE j \in C
  <2>1. j \in 1..n /\ new[j].ssid = new[m].ssid /\ new[j].auth = new[m].auth
    BY <1>1 DEF SameAp
  <2>2. raw[j].ssid = new[j].ssid /\ raw[j].auth = new[j].auth
    BY <2>1 DEF Cleared, SameNames
  <2> QED BY <1>3, <1>4, <2>1, <2>2 DEF Class, SameAp
<1>7. same = C
  BY <1>5, <1>6
<1> HIDE DEF same, C
<1>8. \A j \in C : raw[j].rssi \in Nat
  BY <1>4, RecordFields
<1> DEFINE f == [j \in C |-> raw[j].rssi]
<1>9. PICK w \in C : \A j \in C : f[w] >= f[j]
  <2>1. C \subseteq 1..n /\ C # {} /\ \A j \in C : f[j] \in Nat
    BY <1>3, <1>4, <1>8
  <2> HIDE DEF f
  <2> QED BY <1>1, <2>1, BestStrength DEF HasBest
<1> DEFINE strengths == {new[j].rssi : j \in same}
           best == CHOOSE r \in strengths : \A j \in same : r >= new[j].rssi
<1>10. raw[w].rssi \in strengths /\ \A j \in same : raw[w].rssi >= new[j].rssi
  BY <1>4, <1>7, <1>9
<1>11. best \in strengths /\ \A j \in same : best >= new[j].rssi
  BY <1>10
<1>12. PICK v \in C : best = raw[v].rssi
  BY <1>4, <1>7, <1>11
<1>13. \A j \in C : best >= raw[j].rssi
  BY <1>4, <1>7, <1>11
<1>14. ClearRepeats(new, m) = [j \in 1..n |-> IF j = m THEN [new[m] EXCEPT !.rssi = best]
                                ELSE IF j \in C THEN [new[j] EXCEPT !.ssid = Empty] ELSE new[j]]
  BY <1>1, <1>7 DEF ClearRepeats, same
<1>15. best \in Nat
  BY <1>8, <1>12
<1> HIDE DEF best
<1> QED BY <1>4, <1>12, <1>13, <1>14, <1>15 DEF C

LEMMA ClearsOne ==
  ASSUME NEW raw \in Seq(Records), NEW new, NEW m \in 1..Len(raw),
         Cleared(raw, new, m - 1), new[m].ssid # Empty
  PROVE  Cleared(raw, ClearRepeats(new, m), m)
<1> DEFINE n == Len(raw)
           C == Class(raw, m)
           done == ClearRepeats(new, m)
<1>1. PICK b \in Nat :
        /\ \A j \in C : b >= raw[j].rssi
        /\ \E j \in C : b = raw[j].rssi
        /\ \A j \in C : j >= m /\ new[j] = raw[j]
        /\ done = [j \in 1..n |-> IF j = m THEN [new[m] EXCEPT !.rssi = b]
                                 ELSE IF j \in C THEN [new[j] EXCEPT !.ssid = Empty] ELSE new[j]]
  BY ClearsClass
<1>2. n \in Nat /\ new \in Seq(Records) /\ Len(new) = n /\ m \in Nat /\ m <= n
  BY DEF Cleared, Fits
<1>3. m \in C
  BY DEF Class, SameAp
<1>4. \A j \in 1..n : new[j] \in Records
  BY <1>2
<1>5. new[m] \in Records
  BY <1>4
<1> HIDE DEF done, n
<1>6. done[m] \in Records /\ done[m].ssid = new[m].ssid /\ done[m].auth = new[m].auth /\ done[m].rssi = b
  <2>1. m \in 1..n
    BY DEF n
  <2>2. done[m] = [new[m] EXCEPT !.rssi = b]
    BY <1>1, <2>1
  <2> QED BY <1>5, <2>2 DEF Records
<1>7. ASSUME NEW j \in C, j # m
      PROVE  done[j] \in Records /\ done[j].ssid = Empty /\ done[j].auth = new[j].auth
  <2>1. j \in 1..n /\ new[j] \in Records
    BY <1>4 DEF Class, n
  <2> QED BY <1>1, <1>7, <2>1 DEF Records
<1>8. ASSUME NEW j \in 1..n, j \notin C PROVE done[j] = new[j]
  BY <1>1, <1>3, <1>8
<1>9. done \in Seq(Records) /\ Len(done) = n
  <2>1. \A j \in 1..n : done[j] \in Records
    BY <1>4, <1>6, <1>7, <1>8
  <2>2. DOMAIN done = 1..n /\ done = [j \in 1..n |-> done[j]]
    BY <1>1
  <2>3. done \in [1..n -> Records]
    BY <2>1, <2>2
  <2> QED BY <1>2, <2>3
<1>10. SameNames(raw, done)
  <2>1. \A j \in 1..n : new[j].auth = raw[j].auth /\ new[j].ssid \in {raw[j].ssid, Empty}
    BY DEF Cleared, SameNames, n
  <2>2. \A j \in 1..n : done[j].auth = raw[j].auth /\ done[j].ssid \in {raw[j].ssid, Empty}
    BY <1>6, <1>7, <1>8, <2>1
  <2> QED BY <2>2 DEF SameNames, n
<1>11. Spoken(raw, done)
  <2> SUFFICES ASSUME NEW i \in 1..n, raw[i].ssid # Empty
               PROVE  \E j \in Class(raw, i) : done[j].ssid # Empty
    BY DEF Spoken, n
  <2>1. PICK j \in Class(raw, i) : new[j].ssid # Empty
    BY DEF Cleared, Spoken, n
  <2>2. j \in 1..n
    BY DEF Class, n
  <2>3. CASE j \in C
    <3>1. m \in Class(raw, i)
      BY <2>2, <2>3 DEF Class, SameAp, n
    <3> QED BY <1>6, <3>1
  <2>4. CASE j \notin C
    BY <1>8, <2>1, <2>2, <2>4
  <2> QED BY <2>3, <2>4
<1>12. ASSUME NEW i \in 1..n, i <= m, done[i].ssid # Empty PROVE Stands(raw, done, i)
  <2>1. CASE i = m
    <3>1. \A j \in C : j # m => done[j].ssid = Empty
      BY <1>7
    <3> QED BY <1>1, <1>6, <2>1, <3>1 DEF Stands
  <2>2. CASE i # m
    <3>1. i \notin C
      BY <1>7, <1>12, <2>2
    <3>2. done[i] = new[i] /\ i <= m - 1
      BY <1>2, <1>8, <1>12, <2>2, <3>1
    <3>3. Stands(raw, new, i)
      BY <1>12, <3>2 DEF Cleared, Standing, n
    <3>4. ASSUME NEW j \in Class(raw, i), j # i PROVE done[j].ssid = Empty
      <4>1. j \in 1..n /\ new[j].ssid = Empty
        BY <3>3, <3>4 DEF Stands, Class, n
      <4>2. j # m
        BY <4>1
      <4>3. j \in C \/ j \notin C
        OBVIOUS
      <4> QED BY <1>7, <1>8, <4>1, <4>2, <4>3
    <3>5. \A j \in Class(raw, i) : done[i].rssi >= raw[j].rssi
      BY <3>2, <3>3 DEF Stands
    <3>6. \E j \in Class(raw, i) : done[i].rssi = raw[j].rssi
      BY <3>2, <3>3 DEF Stands
    <3> QED BY <3>4, <3>5, <3>6 DEF Stands
  <2> QED BY <2>1, <2>2
<1>13. ASSUME NEW i \in 1..n, i > m, done[i].ssid # Empty PROVE Waits(raw, done, m, i)
  <2>1. i # m /\ i > m - 1
    BY <1>2, <1>13
  <2>2. i \notin C
    BY <1>7, <1>13, <2>1
  <2>3. new[i].ssid # Empty
    BY <1>8, <1>13, <2>2
  <2>4. Waits(raw, new, m - 1, i)
    BY <2>1, <2>3 DEF Cleared, Waiting, n
  <2>5. ASSUME NEW j \in Class(raw, i) PROVE j > m /\ done[j] = raw[j]
    <3>1. j \in 1..n /\ j > m - 1 /\ new[j] = raw[j]
      BY <2>4 DEF Waits, Class, n
    <3>2. j \notin C
      BY <2>2 DEF Class, SameAp, n
    <3>3. j # m
      BY <1>3, <3>2
    <3> QED BY <1>2, <1>8, <3>1, <3>2, <3>3
  <2> QED BY <2>5 DEF Waits
<1>14. Fits(raw, done)
  BY <1>9 DEF Fits, n
<1>15. Standing(raw, done, m)
  BY <1>12 DEF Standing, n
<1>16. Waiting(raw, done, m)
  BY <1>13 DEF Waiting, n
<1>17. Cleared(raw, done, m)
  BY <1>10, <1>11, <1>14, <1>15, <1>16 DEF Cleared
<1> QED BY <1>17 DEF done

\* The whole loop.
LEMMA ClearsAll ==
  ASSUME NEW raw \in Seq(Records)
  PROVE  Cleared(raw, FoldLeft(ClearRepeats, raw, [i \in 1..Len(raw) - 1 |-> i]), Len(raw))
<1> DEFINE n == Len(raw)
           L == IF n = 0 THEN 0 ELSE n - 1
           all == FoldLeft(ClearRepeats, raw, [i \in 1..n - 1 |-> i])
<1>1. n \in Nat /\ L \in Nat /\ L <= n /\ n <= L + 1
  OBVIOUS
<1>2. [i \in 1..n - 1 |-> i] = [i \in 1..L |-> i]
  <2>1. 1..n - 1 = 1..L
    BY <1>1
  <2> QED BY <2>1
<1>3. PICK f : /\ f[0] = raw
               /\ \A k \in 1..L : f[k] = ClearRepeats(f[k - 1], k)
               /\ FoldLeft(ClearRepeats, raw, [i \in 1..L |-> i]) = f[L]
  <2> HIDE DEF L
  <2> QED BY <1>1, FoldClears
<1>4. all = f[L]
  BY <1>2, <1>3
<1> DEFINE T == {k \in Nat : k <= L => Cleared(raw, f[k], k)}
<1> HIDE DEF all, L
<1>5. 0 \in T
  BY <1>3, ClearedAtFirst
<1>6. ASSUME NEW k \in Nat, k \in T PROVE k + 1 \in T
  <2> SUFFICES ASSUME k + 1 <= L PROVE Cleared(raw, f[k + 1], k + 1)
    OBVIOUS
  <2>1. Cleared(raw, f[k], k) /\ k + 1 \in 1..L /\ k + 1 \in 1..n /\ (k + 1) - 1 = k
    BY <1>1, <1>6
  <2>2. f[k + 1] = ClearRepeats(f[k], k + 1)
    BY <1>3, <2>1
  <2>3. CASE f[k][k + 1].ssid = Empty
    <3>1. f[k + 1] = f[k]
      BY <2>2, <2>3 DEF ClearRepeats
    <3> QED BY <2>1, <2>3, <3>1, ClearsNothing
  <2>4. CASE f[k][k + 1].ssid # Empty
    <3> DEFINE m == k + 1
    <3>1. m \in 1..n /\ Cleared(raw, f[k], m - 1) /\ f[k][m].ssid # Empty
      BY <2>1, <2>4
    <3> HIDE DEF m
    <3>2. Cleared(raw, ClearRepeats(f[k], m), m)
      BY <3>1, ClearsOne
    <3> QED BY <2>2, <3>2 DEF m
  <2> QED BY <2>3, <2>4
<1> HIDE DEF T
<1>7. L \in T
  BY <1>1, <1>5, <1>6, Upwards
<1>8. Cleared(raw, all, L)
  BY <1>1, <1>4, <1>7 DEF T
<1>9. ASSUME NEW i \in 1..n, all[i].ssid # Empty PROVE Stands(raw, all, i)
  <2>1. CASE i <= L
    BY <1>8, <1>9, <2>1 DEF Cleared, Standing
  <2>2. CASE i > L
    <3>1. Waits(raw, all, L, i)
      BY <1>8, <1>9, <2>2 DEF Cleared, Waiting
    <3>2. \A j \in Class(raw, i) : j \in 1..n /\ j > L /\ all[j] = raw[j]
      BY <3>1 DEF Waits, Class
    <3>3. \A j \in Class(raw, i) : j = i
      BY <1>1, <2>2, <3>2
    <3>4. i \in Class(raw, i) /\ raw[i].rssi \in Nat
      BY RecordFields DEF Class, SameAp
    <3>5. \A j \in Class(raw, i) : all[i].rssi >= raw[j].rssi
      BY <3>2, <3>3, <3>4
    <3>6. all[i].rssi = raw[i].rssi
      BY <3>2, <3>4
    <3> QED BY <3>3, <3>4, <3>5, <3>6 DEF Stands
  <2> QED BY <1>1, <2>1, <2>2
<1>10. Standing(raw, all, n)
  BY <1>9 DEF Standing
<1>11. Waiting(raw, all, n)
  BY <1>1 DEF Waiting
<1>12. Cleared(raw, all, n)
  BY <1>8, <1>10, <1>11 DEF Cleared
<1> QED BY <1>12 DEF all

\* ap_compare_rssi orders the records.
LEMMA BetterOrders ==
  ASSUME NEW r \in Records, NEW q \in Records, NEW p \in Records
  PROVE  ~Better(r, r) /\ (Better(r, q) /\ Better(q, p) => Better(r, p))
<1>1. \A x \in Records : x.rssi \in Nat /\ x.ssid \in Ssids \cup {Empty}
  BY DEF Records
<1>2. Ssids \cup {Empty} \subseteq Nat
  BY WilmaStoreAssumption DEF Empty
<1>3. /\ r.rssi \in Nat /\ r.ssid \in Nat /\ q.rssi \in Nat /\ q.ssid \in Nat
      /\ p.rssi \in Nat /\ p.ssid \in Nat
  BY <1>1, <1>2
<1> QED BY <1>3 DEF Better

\* No record is worse than the worst.
HasWorst(once, S) == \E w \in S : \A x \in S : ~Better(once[w], once[x])

LEMMA WorstRecord ==
  ASSUME NEW once \in Seq(Records), NEW S, S \subseteq 1..Len(once), S # {}
  PROVE  HasWorst(once, S)
<1> DEFINE L == Len(once)
           T == {k \in Nat : \A K \in SUBSET (1..L) : K \subseteq 1..k /\ K # {} => HasWorst(once, K)}
<1>1. L \in Nat /\ \A i \in 1..L : once[i] \in Records
  OBVIOUS
<1> HIDE DEF L
<1>2. 0 \in T
  <2>1. \A K : K \subseteq 1..0 => K = {}
    OBVIOUS
  <2> QED BY <2>1
<1>3. ASSUME NEW k \in Nat, k \in T PROVE k + 1 \in T
  <2> SUFFICES ASSUME NEW K \in SUBSET (1..L), K \subseteq 1..k + 1, K # {}
               PROVE  HasWorst(once, K)
    OBVIOUS
  <2> DEFINE J == K \ {k + 1}
  <2>1. J \in SUBSET (1..L) /\ J \subseteq 1..k
    OBVIOUS
  <2>2. CASE J = {}
    <3>1. k + 1 \in K /\ \A x \in K : x = k + 1
      BY <2>2
    <3>2. ~Better(once[k + 1], once[k + 1])
      BY <1>1, <3>1, BetterOrders
    <3> QED BY <3>1, <3>2 DEF HasWorst
  <2>3. CASE J # {}
    <3>1. PICK w \in J : \A x \in J : ~Better(once[w], once[x])
      BY <1>3, <2>1, <2>3 DEF HasWorst
    <3>2. \A x \in K : x \in J \/ x = k + 1
      OBVIOUS
    <3>3. CASE k + 1 \notin K \/ ~Better(once[w], once[k + 1])
      BY <3>1, <3>2, <3>3 DEF HasWorst
    <3>4. CASE k + 1 \in K /\ Better(once[w], once[k + 1])
      <4>1. once[w] \in Records /\ once[k + 1] \in Records
        BY <1>1, <3>4
      <4>2. ASSUME NEW x \in K PROVE ~Better(once[k + 1], once[x])
        <5>1. once[x] \in Records
          BY <1>1
        <5>2. CASE x = k + 1
          BY <4>1, <5>2, BetterOrders
        <5>3. CASE x \in J
          BY <3>1, <3>4, <4>1, <5>1, <5>3, BetterOrders
        <5> QED BY <3>2, <5>2, <5>3
      <4> QED BY <3>4, <4>2 DEF HasWorst
    <3> QED BY <3>3, <3>4
  <2> QED BY <2>2, <2>3
<1> HIDE DEF T
<1>4. L \in T
  BY <1>1, <1>2, <1>3, Upwards
<1> QED BY <1>4 DEF T, L

Sorts(once, o) == \A i, j \in DOMAIN o : i < j => ~Better(once[o[j]], once[o[i]])
HasOrder(once, S) == \E o \in SetToSeqs(S) : Sorts(once, o)

LEMMA IndicesFinite ==
  ASSUME NEW n \in Nat, NEW S, S \subseteq 1..n
  PROVE  IsFiniteSet(S) /\ Cardinality(S) \in Nat /\ Cardinality(S) <= n
<1>1. IsFiniteSet(1..n) /\ Cardinality(1..n) = n
  BY FS_Interval
<1>2. IsFiniteSet(S) /\ Cardinality(S) <= n
  BY <1>1, FS_Subset
<1> QED BY <1>2, FS_CardinalityType

\* Some order of the records has none after a worse one.
LEMMA SomeOrderSorts ==
  ASSUME NEW once \in Seq(Records), NEW S, S \subseteq 1..Len(once)
  PROVE  HasOrder(once, S)
<1> DEFINE L == Len(once)
           T == {k \in Nat : \A K \in SUBSET (1..L) : Cardinality(K) = k => HasOrder(once, K)}
<1>1. L \in Nat
  OBVIOUS
<1> HIDE DEF L
<1>2. 0 \in T
  <2> SUFFICES ASSUME NEW K \in SUBSET (1..L), Cardinality(K) = 0
               PROVE  HasOrder(once, K)
    OBVIOUS
  <2> DEFINE o == [i \in 1..0 |-> 0]
  <2>1. o \in SetToSeqs(K)
    BY DEF SetToSeqs
  <2>2. Sorts(once, o)
    BY DEF Sorts
  <2> HIDE DEF o
  <2> QED BY <2>1, <2>2 DEF HasOrder
<1>3. ASSUME NEW k \in Nat, k \in T PROVE k + 1 \in T
  <2> SUFFICES ASSUME NEW K \in SUBSET (1..L), Cardinality(K) = k + 1
               PROVE  HasOrder(once, K)
    OBVIOUS
  <2>1. IsFiniteSet(K) /\ K # {}
    <3>1. IsFiniteSet(K)
      BY <1>1, IndicesFinite
    <3> QED BY <3>1, FS_EmptySet
  <2>2. PICK w \in K : \A x \in K : ~Better(once[w], once[x])
    BY <2>1, WorstRecord DEF L, HasWorst
  <2> DEFINE J == K \ {w}
  <2>3. J \in SUBSET (1..L) /\ Cardinality(J) = k
    <3>1. Cardinality(J) = Cardinality(K) - 1
      BY <2>1, FS_RemoveElement
    <3> QED BY <3>1
  <2>4. PICK p \in SetToSeqs(J) : Sorts(once, p)
    BY <1>3, <2>3 DEF HasOrder
  <2>5. p \in [1..k -> J] /\ \A i, j \in 1..k : i # j => p[i] # p[j]
    BY <2>3, <2>4 DEF SetToSeqs
  <2> HIDE DEF J
  <2> DEFINE o == [i \in 1..k + 1 |-> IF i = k + 1 THEN w ELSE p[i]]
  <2>6. o[k + 1] = w /\ \A i \in 1..k : o[i] = p[i] /\ p[i] \in K /\ p[i] # w
    BY <2>5 DEF J
  <2>7. DOMAIN o = 1..k + 1 /\ \A i \in 1..k + 1 : i \in 1..k \/ i = k + 1
    OBVIOUS
  <2>8. o \in [1..k + 1 -> K]
    <3>1. \A i \in 1..k + 1 : o[i] \in K
      BY <2>6, <2>7
    <3> QED BY <3>1
  <2> HIDE DEF o
  <2>9. \A i, j \in 1..k + 1 : i # j => o[i] # o[j]
    BY <2>5, <2>6, <2>7
  <2>10. o \in SetToSeqs(K)
    BY <2>8, <2>9 DEF SetToSeqs
  <2>11. ASSUME NEW i \in 1..k + 1, NEW j \in 1..k + 1, i < j
         PROVE  ~Better(once[o[j]], once[o[i]])
    <3>1. i \in 1..k
      BY <2>11
    <3>2. CASE j = k + 1
      BY <2>2, <2>6, <3>1, <3>2
    <3>3. CASE j \in 1..k
      BY <2>4, <2>5, <2>6, <2>11, <3>1, <3>3 DEF Sorts
    <3> QED BY <2>7, <3>2, <3>3
  <2>12. Sorts(once, o)
    BY <2>7, <2>11 DEF Sorts
  <2> QED BY <2>10, <2>12 DEF HasOrder
<1> HIDE DEF T
<1>4. \A k \in Nat : k \in T
  BY <1>2, <1>3, Upwards
<1>5. Cardinality(S) \in Nat /\ S \in SUBSET (1..L)
  BY <1>1, IndicesFinite DEF L
<1> QED BY <1>4, <1>5 DEF T

\* An order of a set of indices is one of all of them.
Reaches(o, S) == \A x \in S : \E i \in DOMAIN o : o[i] = x

LEMMA OrdersAll ==
  ASSUME NEW n \in Nat, NEW S, S \subseteq 1..n, NEW o \in SetToSeqs(S)
  PROVE  /\ DOMAIN o = 1..Cardinality(S)
         /\ \A i \in DOMAIN o : o[i] \in S
         /\ \A i, j \in DOMAIN o : i # j => o[i] # o[j]
         /\ Reaches(o, S)
<1> DEFINE c == Cardinality(S)
<1>1. o \in [1..c -> S] /\ \A i, j \in 1..c : i # j => o[i] # o[j]
  BY DEF SetToSeqs
<1>2. c \in Nat /\ IsFiniteSet(S)
  BY IndicesFinite
<1>3. IsFiniteSet(1..c) /\ Cardinality(1..c) = c
  BY <1>2, FS_Interval
<1>4. o \in Injection(1..c, S)
  BY <1>1 DEF Injection, IsInjective
<1>5. o \in Surjection(1..c, S)
  BY <1>2, <1>3, <1>4, FS_Injection
<1>6. \A x \in S : \E i \in 1..c : o[i] = x
  BY <1>5 DEF Surjection
<1> QED BY <1>1, <1>6 DEF Reaches

\* What ap_filter_sort_unique makes of a scan: ScanIsSorted for any list of records.
Presents(raw, got) ==
  LET named == {r \in ToSet(raw) : r.ssid # Empty}
  IN  /\ ToSet(got) = {r \in named : \A q \in named : SameAp(r, q) => r.rssi >= q.rssi}
      /\ \A i, j \in DOMAIN got : i < j => ~SameAp(got[i], got[j]) /\ got[i].rssi >= got[j].rssi

LEMMA SameRecord ==
  ASSUME NEW r \in Records, NEW q \in Records, SameAp(r, q), r.rssi = q.rssi
  PROVE  r = q
  BY DEF Records, SameAp

\* The list that the loop left, in an order that sorts the named ones.
Ordered(raw, once, order) ==
  /\ Cleared(raw, once, Len(raw))
  /\ order \in SetToSeqs({i \in 1..Len(raw) : once[i].ssid # Empty})
  /\ Sorts(once, order)

LEMMA FilterOrders ==
  ASSUME NEW raw \in Seq(Records)
  PROVE  \E once, order : /\ Ordered(raw, once, order)
                         /\ FilterSortUnique(raw) = [i \in DOMAIN order |-> once[order[i]]]
<1> DEFINE once == FoldLeft(ClearRepeats, raw, [i \in 1..Len(raw) - 1 |-> i])
           named == {i \in DOMAIN once : once[i].ssid # Empty}
           order == CHOOSE o \in SetToSeqs(named) : \A i, j \in DOMAIN o : i < j => ~Better(once[o[j]], once[o[i]])
<1>1. FilterSortUnique(raw) = [i \in DOMAIN order |-> once[order[i]]]
  BY DEF FilterSortUnique
<1>2. Cleared(raw, once, Len(raw))
  BY ClearsAll
<1> HIDE DEF once
<1>3. once \in Seq(Records) /\ Len(once) = Len(raw) /\ DOMAIN once = 1..Len(raw)
  BY <1>2 DEF Cleared, Fits
<1>4. \E o \in SetToSeqs(named) : Sorts(once, o)
  <2>1. named \subseteq 1..Len(once)
    BY <1>3
  <2> HIDE DEF named
  <2> QED BY <1>3, <2>1, SomeOrderSorts DEF HasOrder
<1>5. order \in SetToSeqs(named) /\ Sorts(once, order)
  BY <1>4 DEF Sorts
<1> HIDE DEF order
<1>6. named = {i \in 1..Len(raw) : once[i].ssid # Empty}
  BY <1>3
<1>7. Ordered(raw, once, order)
  BY <1>2, <1>5, <1>6 DEF Ordered
<1> QED BY <1>1, <1>7

LEMMA OrderedPresents ==
  ASSUME NEW raw \in Seq(Records), NEW once, NEW order, Ordered(raw, once, order),
         NEW got, got = [i \in DOMAIN order |-> once[order[i]]]
  PROVE  got \in Seq(Records) /\ Len(got) <= Len(raw) /\ Presents(raw, got)
<1> DEFINE n == Len(raw)
           S == {i \in 1..n : once[i].ssid # Empty}
           named == {r \in ToSet(raw) : r.ssid # Empty}
           best == {r \in named : \A q \in named : SameAp(r, q) => r.rssi >= q.rssi}
<1>1. n \in Nat /\ DOMAIN raw = 1..n
  OBVIOUS
<1>2. once \in Seq(Records) /\ Len(once) = n
  BY DEF Ordered, Cleared, Fits
<1>3. \A i \in 1..n : once[i] \in Records
  BY <1>2
<1>4. \A i \in 1..n : raw[i] \in Records
  OBVIOUS
<1>5. \A i \in S : Stands(raw, once, i)
  BY <1>1 DEF Ordered, Cleared, Standing
<1>6. \A i \in S : once[i].ssid = raw[i].ssid /\ once[i].auth = raw[i].auth /\ i \in 1..n
  BY DEF Ordered, Cleared, SameNames
<1>7. /\ DOMAIN order = 1..Cardinality(S) /\ Cardinality(S) \in Nat /\ Cardinality(S) <= n
      /\ \A i \in DOMAIN order : order[i] \in S
      /\ \A i, j \in DOMAIN order : i # j => order[i] # order[j]
      /\ \A x \in S : \E i \in DOMAIN order : order[i] = x
  <2>1. S \subseteq 1..n /\ order \in SetToSeqs(S)
    BY DEF Ordered
  <2> HIDE DEF S, n
  <2>2. Cardinality(S) \in Nat /\ Cardinality(S) <= n
    BY <1>1, <2>1, IndicesFinite
  <2>3. DOMAIN order = 1..Cardinality(S)
    BY <1>1, <2>1, OrdersAll
  <2>4. \A i \in DOMAIN order : order[i] \in S
    BY <1>1, <2>1, OrdersAll
  <2>5. \A i, j \in DOMAIN order : i # j => order[i] # order[j]
    BY <1>1, <2>1, OrdersAll
  <2>6. Reaches(order, S)
    BY <1>1, <2>1, OrdersAll
  <2> QED BY <2>2, <2>3, <2>4, <2>5, <2>6 DEF Reaches
<1>8. \A r \in named : \E l \in 1..n : r = raw[l] /\ raw[l].ssid # Empty
  BY <1>1 DEF ToSet
<1>9. \A l \in 1..n : raw[l].ssid # Empty => raw[l] \in named
  BY <1>1 DEF ToSet
<1>10. ToSet(got) = {once[order[i]] : i \in DOMAIN order} /\ DOMAIN got = DOMAIN order
  BY DEF ToSet
<1> HIDE DEF S, named
<1>11. \A i \in S : once[i].ssid # Empty
  BY DEF S
<1>12. \A x \in S : \E i \in DOMAIN order : once[order[i]] = once[x]
  BY <1>7
<1>13. \A i \in DOMAIN got : order[i] \in S /\ got[i] = once[order[i]] /\ got[i] \in Records
  BY <1>3, <1>6, <1>7, <1>10
<1>14. got \in Seq(Records) /\ Len(got) <= n
  <2>1. got \in [1..Cardinality(S) -> Records]
    BY <1>7, <1>10, <1>13
  <2>2. DOMAIN got = 1..Cardinality(S)
    BY <2>1
  <2> QED BY <1>7, <2>1, <2>2
<1>15. ASSUME NEW i \in S PROVE once[i] \in best
  <2>1. PICK j \in Class(raw, i) : once[i].rssi = raw[j].rssi
    BY <1>5 DEF Stands
  <2>2. j \in 1..n /\ raw[i].ssid = raw[j].ssid /\ raw[i].auth = raw[j].auth
    BY DEF Class, SameAp
  <2>3. once[i] = raw[j]
    BY <1>3, <1>4, <1>6, <2>1, <2>2, SameRecord DEF SameAp
  <2>4. once[i] \in named
    BY <1>9, <1>11, <2>2, <2>3
  <2>5. ASSUME NEW q \in named, SameAp(once[i], q) PROVE once[i].rssi >= q.rssi
    <3>1. PICK l \in 1..n : q = raw[l]
      BY <1>8
    <3>2. l \in Class(raw, i)
      BY <1>6, <2>5, <3>1 DEF Class, SameAp
    <3> QED BY <1>5, <3>1, <3>2 DEF Stands
  <2> QED BY <2>4, <2>5
<1>16. ASSUME NEW r \in best PROVE \E i \in DOMAIN order : once[order[i]] = r
  <2>1. PICK l \in 1..n : r = raw[l] /\ raw[l].ssid # Empty
    BY <1>8
  <2>2. PICK j \in Class(raw, l) : once[j].ssid # Empty
    BY <2>1 DEF Ordered, Cleared, Spoken
  <2>3. j \in S /\ j \in 1..n
    BY <2>2 DEF S, Class
  <2>4. SameAp(once[j], r)
    BY <1>6, <2>1, <2>3, ClassesMeet DEF SameAp
  <2>5. l \in Class(raw, j)
    BY <2>3, ClassesMeet
  <2>6. once[j].rssi >= r.rssi
    BY <1>5, <2>1, <2>3, <2>5 DEF Stands
  <2>7. once[j] \in named
    BY <1>15, <2>3
  <2>8. r.rssi >= once[j].rssi
    BY <2>4, <2>7 DEF SameAp
  <2>9. once[j] \in Records /\ r \in Records
    BY <1>3, <1>4, <2>1, <2>3
  <2>10. once[j].rssi = r.rssi
    BY <2>6, <2>8, <2>9 DEF Records
  <2>11. once[j] = r
    BY <2>4, <2>9, <2>10, SameRecord
  <2> QED BY <1>12, <2>3, <2>11
<1>17. ToSet(got) = best
  <2>1. \A r \in ToSet(got) : r \in best
    BY <1>7, <1>10, <1>15
  <2>2. \A r \in best : r \in ToSet(got)
    BY <1>10, <1>16
  <2> QED BY <2>1, <2>2
<1>18. ASSUME NEW i \in DOMAIN got, NEW j \in DOMAIN got, i < j
       PROVE  ~SameAp(got[i], got[j]) /\ got[i].rssi >= got[j].rssi
  <2>1. order[i] \in S /\ order[j] \in S /\ order[i] # order[j]
    BY <1>7, <1>10, <1>18
  <2>2. ~SameAp(got[i], got[j])
    <3> SUFFICES ASSUME SameAp(got[i], got[j]) PROVE FALSE
      OBVIOUS
    <3>1. order[j] \in Class(raw, order[i])
      BY <1>6, <1>13, <2>1 DEF Class, SameAp
    <3>2. once[order[j]].ssid = Empty
      BY <1>5, <2>1, <3>1 DEF Stands
    <3> QED BY <1>11, <2>1, <3>2
  <2>3. ~Better(got[j], got[i])
    BY <1>10, <1>13, <1>18 DEF Ordered, Sorts
  <2>4. got[i].rssi \in Nat /\ got[j].rssi \in Nat
    BY <1>13 DEF Records
  <2>5. got[i].rssi >= got[j].rssi
    BY <2>3, <2>4 DEF Better
  <2> QED BY <2>2, <2>5
<1>19. Presents(raw, got)
  BY <1>17, <1>18 DEF Presents, named
<1> QED BY <1>14, <1>19

LEMMA FilterPresents ==
  ASSUME NEW raw \in Seq(Records)
  PROVE  /\ FilterSortUnique(raw) \in Seq(Records) /\ Len(FilterSortUnique(raw)) <= Len(raw)
         /\ Presents(raw, FilterSortUnique(raw))
<1>1. PICK once, order : /\ Ordered(raw, once, order)
                         /\ FilterSortUnique(raw) = [i \in DOMAIN order |-> once[order[i]]]
  BY FilterOrders
<1> QED BY <1>1, OrderedPresents

\* What update_ssid_list takes of a scan fits in WILMA_VISIBLE_APS.
LEMMA AtMostFits ==
  ASSUME NEW raw \in Scans
  PROVE  AtMostAps(raw) \in Seq(Records) /\ Len(AtMostAps(raw)) <= MaxAps
<1>1. raw \in Seq(Records) /\ MaxAps \in Nat /\ Len(raw) \in Nat
  BY WilmaStoreAssumption
<1> DEFINE m == IF Len(raw) > MaxAps THEN MaxAps ELSE Len(raw)
<1>2. m \in 0..Len(raw) /\ m <= MaxAps
  BY <1>1
<1>3. SubSeq(raw, 1, m) \in Seq(Records) /\ Len(SubSeq(raw, 1, m)) = m
  <2> HIDE DEF m
  <2>1. 1 \in Int /\ m \in Int /\ \A i \in 1..m : i \in 1..Len(raw)
    BY <1>1, <1>2
  <2> QED BY <1>1, <1>2, <2>1
<1> QED BY <1>2, <1>3 DEF AtMostAps

LEMMA FilterFits ==
  ASSUME NEW raw \in Scans
  PROVE  /\ FilterSortUnique(AtMostAps(raw)) \in Seq(Records)
         /\ Len(FilterSortUnique(AtMostAps(raw))) <= MaxAps
<1>1. AtMostAps(raw) \in Seq(Records) /\ Len(AtMostAps(raw)) <= MaxAps
  BY AtMostFits
<1> DEFINE few == AtMostAps(raw)
<1> HIDE DEF few
<1>2. /\ FilterSortUnique(few) \in Seq(Records) /\ Len(FilterSortUnique(few)) <= Len(few)
  BY <1>1, FilterPresents DEF few
<1>3. Len(few) \in Nat /\ Len(FilterSortUnique(few)) \in Nat /\ MaxAps \in Nat
  BY <1>1, <1>2, WilmaStoreAssumption DEF few
<1> QED BY <1>1, <1>2, <1>3 DEF few
-----------------------------------------------------------------------------
USE WilmaStoreAssumption

(* Lemmas about copies of the blob.                                        *)

LEMMA NothingIsGood == Good(<<>>)
  BY DEF Good, Once

LEMMA EntryIsStation ==
  ASSUME NEW s \in Ssids, NEW p \in Passwords
  PROVE  Entry(s, p) \in Stations /\ Entry(s, p).ssid = s /\ Entry(s, p).state = "new"
  BY DEF Entry, Stations, States

LEMMA OneIsGood ==
  ASSUME NEW e \in Stations
  PROVE  Good(<<e>>)
  BY DEF Good, Once

\* At finds an entry with the name, if there is one.
LEMMA AtFinds ==
  ASSUME NEW copy, Good(copy), NEW s, Holds(copy, s)
  PROVE  At(copy, s) \in DOMAIN copy /\ copy[At(copy, s)].ssid = s
<1>1. PICK i \in DOMAIN copy : copy[i].ssid = s
  BY DEF Holds
<1>2. \A j \in DOMAIN copy : copy[j].ssid = s => j = i
  BY <1>1 DEF Good, Once
<1>3. \A j \in 1..i - 1 : j \in DOMAIN copy /\ j # i
  BY <1>1 DEF Good
<1>4. \E k \in DOMAIN copy : copy[k].ssid = s /\ \A j \in 1..k - 1 : copy[j].ssid # s
  BY <1>1, <1>2, <1>3
<1> QED
  BY <1>4 DEF At

\* An entry that takes another's place under the same name, ...
LEMMA ReplacedIsGood ==
  ASSUME NEW copy, Good(copy), NEW i \in DOMAIN copy, NEW e \in Stations, e.ssid = copy[i].ssid
  PROVE  Good([copy EXCEPT ![i] = e])
  BY DEF Good, Once

\* ... one under a new name at the end, ...
LEMMA AppendedIsGood ==
  ASSUME NEW copy, Good(copy), NEW e \in Stations, ~Holds(copy, e.ssid)
  PROVE  Good(Append(copy, e))
<1> DEFINE n == Len(copy)
<1>1. Append(copy, e) \in Seq(Stations) /\ DOMAIN Append(copy, e) = 1..n + 1
  BY DEF Good
<1>2. \A i \in 1..n : Append(copy, e)[i] = copy[i] /\ copy[i].ssid # e.ssid
  BY DEF Good, Holds
<1>3. Append(copy, e)[n + 1] = e
  BY DEF Good
<1>4. \A i, j \in 1..n : copy[i].ssid = copy[j].ssid => i = j
  BY DEF Good, Once
<1>5. \A i \in 1..n + 1 : i \in 1..n \/ i = n + 1
  BY DEF Good
<1> QED
  BY <1>1, <1>2, <1>3, <1>4, <1>5 DEF Good, Once

\* ... and the last entry in the place of one that goes keep the names apart.
LEMMA SwappedIsGood ==
  ASSUME NEW copy, Good(copy), NEW i \in DOMAIN copy
  PROVE  Good(SwapOut(copy, i))
<1> DEFINE n == Len(copy)  s == SwapOut(copy, i)  from(j) == IF j = i THEN n ELSE j
<1>1. n \in Nat \ {0} /\ DOMAIN copy = 1..n /\ i \in 1..n
  BY DEF Good
<1>2. \A j \in 1..n - 1 : from(j) \in 1..n
  BY <1>1
<1>3. s = [j \in 1..n - 1 |-> copy[from(j)]]
  BY DEF SwapOut
<1>4. \A j \in 1..n - 1 : copy[from(j)] \in Stations
  BY <1>1, <1>2 DEF Good
<1>5. s \in Seq(Stations) /\ DOMAIN s = 1..n - 1
  BY <1>1, <1>3, <1>4
<1>6. \A j, k \in 1..n - 1 : from(j) = from(k) => j = k
  BY <1>1
<1>7. \A j, k \in 1..n - 1 : s[j].ssid = s[k].ssid => j = k
  BY <1>1, <1>2, <1>3, <1>6 DEF Good, Once
<1> QED
  BY <1>5, <1>7 DEF Good, Once
-----------------------------------------------------------------------------
(* Every step keeps the invariant.                                         *)

LEMMA InitInv == Init => IInv
  BY NothingIsGood DEF Init, Ram, Idle, IInv, WebHolds, EventHolds, MutexHeldInside

\* get_saved_stations gives a good copy.
LEMMA CopyIsGood ==
  ASSUME Good(store), NEW copy \in {store, <<>>}
  PROVE  Good(copy)
  BY NothingIsGood

\* Where connect_to_station_index leaves a task.
LEMMA NamedIs ==
  ASSUME NEW i
  PROVE  Named(i).at \in {"idle", "password"}
  BY DEF Named, Idle

\* What the event task's use of the candidates leaves alone.
EventReads == EventDisconnected \/ EventFails \/ EventMovesOn \/ EventConnectsWith

LEMMA EventReadsLeaves ==
  ASSUME EventReads
  PROVE  /\ UNCHANGED <<store, visible, found, list, count, mutex, web, thread, orders, shown, requests, fails, given>>
         /\ {event.at, event'.at} \subseteq {"idle", "next", "password"}
         /\ events' = events \/ DriverEvent
<1>1. CASE EventDisconnected
  BY <1>1, NamedIs DEF EventDisconnected, DriverEvent, Idle, aps
<1>2. CASE EventFails
  BY <1>2 DEF EventFails, DriverEvent, Idle, aps, candidates
<1>3. CASE EventMovesOn
  BY <1>3, NamedIs DEF EventMovesOn, Idle, aps, bounds
<1>4. CASE EventConnectsWith
  BY <1>4 DEF EventConnectsWith, Idle, aps, bounds
<1> QED
  BY <1>1, <1>2, <1>3, <1>4 DEF EventReads

\* What the manager's thread leaves alone; it writes the blob in one way.
LEMMA ThreadLeaves ==
  ASSUME Thread
  PROVE  /\ UNCHANGED <<visible, found, list, count, mutex, web, event, shown, events, fails, given>>
         /\ store' = store \/ (ThreadForgets /\ store' = <<>> /\ thread' # thread)
         /\ orders' = orders \/ ThreadConnects
         /\ requests' = requests \/ (requests < MaxRequests /\ requests' = requests + 1)
         /\ thread.at \in {"idle", "password", "reset"} /\ thread'.at \in {"idle", "password", "reset"}
<1>1. CASE ThreadConnects
  BY <1>1 DEF ThreadConnects, Idle, aps, candidates, bounds
<1>2. CASE ThreadConnectsAny
  BY <1>2, NamedIs DEF ThreadConnectsAny, Idle, aps, bounds
<1>3. CASE ThreadConnectsWith
  BY <1>3 DEF ThreadConnectsWith, Idle, aps, bounds
<1>4. CASE ThreadForgets
  <2>1. thread.at # thread'.at
    BY <1>4 DEF ThreadForgets, Idle
  <2> QED
    BY <1>4, <2>1 DEF ThreadForgets, Idle, aps, candidates
<1>5. CASE ThreadClears
  BY <1>5 DEF ThreadClears, Idle, aps, candidates, bounds
<1> QED
  BY <1>1, <1>2, <1>3, <1>4, <1>5 DEF Thread

LEMMA WebAddsInv ==
  ASSUME IInv, NEW s \in Ssids, NEW p \in Passwords, WebAdds(s, p)
  PROVE  IInv'
<1>1. PICK copy \in {store, <<>>} :
        web' = [at |-> "add", copy |-> copy, ssid |-> s, password |-> p]
  BY DEF WebAdds
<1>2. web.at = "idle"
  BY DEF WebAdds, WebRequest, Idle
<1>3. Good(copy)
  BY CopyIsGood DEF IInv
<1> QED
  BY <1>1, <1>2, <1>3 DEF WebAdds, IInv, Good, WebHolds, EventHolds, MutexHeldInside

LEMMA WebAddWritesInv == IInv /\ WebAddWrites => IInv'
<1> SUFFICES ASSUME IInv, WebAddWrites PROVE IInv'
  OBVIOUS
<1>1. Good(web.copy) /\ web.ssid \in Ssids /\ web.password \in Passwords
  BY DEF WebAddWrites, IInv, WebHolds
<1> DEFINE e == Entry(web.ssid, web.password)
<1>2. e \in Stations /\ e.ssid = web.ssid
  BY <1>1, EntryIsStation
<1>3. Good(store')
  <2>1. CASE AddFirst
    <3>1. Cut[web.password] \in Passwords
      BY <1>1
    <3>2. Entry(web.ssid, Cut[web.password]) \in Stations
      BY <1>1, <3>1, EntryIsStation
    <3> QED
      BY <2>1, <3>2, OneIsGood DEF AddFirst
  <2>2. CASE AddAgain
    <3>1. At(web.copy, web.ssid) \in DOMAIN web.copy /\ web.copy[At(web.copy, web.ssid)].ssid = web.ssid
      BY <1>1, <2>2, AtFinds DEF AddAgain
    <3> QED
      BY <1>1, <1>2, <2>2, <3>1, ReplacedIsGood DEF AddAgain
  <2>3. CASE AddNew
    BY <1>1, <1>2, <2>3, AppendedIsGood DEF AddNew, IInv
  <2> QED
    BY <2>1, <2>2, <2>3 DEF WebAddWrites
<1>4. web'.at \in {"idle", "connect"} /\ web.at = "add"
  BY DEF WebAddWrites, AddFirst, AddAgain, AddNew, Idle
<1> QED
  BY <1>3, <1>4 DEF WebAddWrites, IInv, Good, WebHolds, EventHolds, MutexHeldInside

LEMMA WebRemovesInv ==
  ASSUME IInv, NEW s \in Ssids, WebRemoves(s)
  PROVE  IInv'
<1>1. PICK copy \in {store, <<>>} :
        web' = IF Holds(copy, s) THEN [at |-> "remove", copy |-> copy, ssid |-> s] ELSE Idle
  BY DEF WebRemoves
<1>2. web.at = "idle" /\ Good(copy)
  BY CopyIsGood DEF WebRemoves, WebRequest, Idle, IInv
<1>3. web'.at \in {"remove", "idle"} /\ WebHolds'
  BY <1>1, <1>2 DEF WebHolds, Idle, Good, Holds
<1> QED
  BY <1>2, <1>3 DEF WebRemoves, IInv, Good, EventHolds, MutexHeldInside

LEMMA WebRemoveWritesInv == IInv /\ WebRemoveWrites => IInv'
<1> SUFFICES ASSUME IInv, WebRemoveWrites PROVE IInv'
  OBVIOUS
<1>1. At(web.copy, web.ssid) \in DOMAIN web.copy /\ Good(web.copy)
  BY AtFinds DEF WebRemoveWrites, IInv, WebHolds
<1>2. Good(store')
  BY <1>1, SwappedIsGood DEF WebRemoveWrites
<1>3. web.at = "remove" /\ web'.at \in {"forget", "idle", "panic"}
  BY DEF WebRemoveWrites, Idle
<1> QED
  BY <1>2, <1>3 DEF WebRemoveWrites, IInv, Good, WebHolds, EventHolds, MutexHeldInside

\* The steps of the web server's task that touch neither copies nor the store.
LEMMA WebInv == IInv /\ Web => IInv'
<1> SUFFICES ASSUME IInv, Web PROVE IInv'
  OBVIOUS
<1> USE DEF IInv, Good, WebHolds, EventHolds, MutexHeldInside, Idle
<1>1. CASE \E s \in Ssids : WebRemoves(s) \/ \E p \in Passwords : WebAdds(s, p)
  BY <1>1, WebRemovesInv, WebAddsInv
<1>2. CASE WebAddWrites
  BY <1>2, WebAddWritesInv
<1>3. CASE WebConnects
  BY <1>3, NamedIs DEF WebConnects
<1>4. CASE WebConnectsWith
  BY <1>4 DEF WebConnectsWith
<1>5. CASE WebRemoveWrites
  BY <1>5, WebRemoveWritesInv
<1>6. CASE WebForgets
  BY <1>6 DEF WebForgets
<1>7. CASE WebClears
  BY <1>7 DEF WebClears
<1>8. CASE WebShows
  BY <1>8 DEF WebShows, WebRequest
<1>9. CASE WebLocks
  BY <1>9 DEF WebLocks
<1>10. CASE WebShowsNext
  BY <1>10 DEF WebShowsNext
<1> QED
  BY <1>1, <1>2, <1>3, <1>4, <1>5, <1>6, <1>7, <1>8, <1>9, <1>10 DEF Web

LEMMA EventSetsStateInv ==
  ASSUME IInv, NEW s \in Ssids, NEW state \in States, EventSetsState(s, state)
  PROVE  IInv'
<1>1. PICK copy \in {store, <<>>} :
        event' = IF Holds(copy, s) /\ copy[At(copy, s)].state # state
                 THEN [at |-> "state", copy |-> copy, ssid |-> s, state |-> state]
                 ELSE After(state)
  BY DEF EventSetsState
<1>2. event.at = "idle" /\ Good(copy)
  BY CopyIsGood DEF EventSetsState, DriverEvent, Idle, IInv
<1>3. event'.at \in {"state", "next", "idle"} /\ EventHolds'
  BY <1>1, <1>2 DEF EventHolds, After, Idle, Good, Holds
<1> QED
  BY <1>2, <1>3 DEF EventSetsState, IInv, Good, WebHolds, MutexHeldInside

LEMMA EventStateWritesInv == IInv /\ EventStateWrites => IInv'
<1> SUFFICES ASSUME IInv, EventStateWrites PROVE IInv'
  OBVIOUS
<1> DEFINE copy == event.copy  i == At(copy, event.ssid)  e == [copy[i] EXCEPT !.state = event.state]
<1>1. i \in DOMAIN copy /\ Good(copy) /\ event.state \in States
  BY AtFinds DEF EventStateWrites, IInv, EventHolds
<1>2. e \in Stations /\ e.ssid = copy[i].ssid
  <2>1. copy[i] \in Stations
    BY <1>1 DEF Good
  <2> QED
    BY <1>1, <2>1 DEF Stations
<1>3. store' = [copy EXCEPT ![i] = e]
  BY DEF EventStateWrites
<1>4. Good(store')
  BY <1>1, <1>2, <1>3, ReplacedIsGood
<1> QED
  BY <1>4 DEF EventStateWrites, After, Idle, IInv, Good, WebHolds, EventHolds, MutexHeldInside

LEMMA EventTakesScanInv == IInv /\ EventTakesScan => IInv'
<1> SUFFICES ASSUME IInv, EventTakesScan PROVE IInv'
  OBVIOUS
<1>1. PICK raw \in Scans : ScanGivesNothing(raw) \/ ScanGives(raw)
  BY DEF EventTakesScan
<1>2. CASE ScanGivesNothing(raw)
  BY <1>2 DEF EventTakesScan, ScanGivesNothing, Idle, IInv, Good, WebHolds, EventHolds, MutexHeldInside
<1>3. CASE ScanGives(raw)
  <2> DEFINE records == FilterSortUnique(AtMostAps(raw))
  <2>1. \/ event'.at = "panic"
        \/ \E copy \in {store, <<>>} :
             event' = [at |-> "fill", raw |-> raw, records |-> records, next |-> 1, copy |-> copy]
    BY <1>3 DEF ScanGives
  <2> HIDE DEF records
  <2>2. event'.at \in {"fill", "panic"}
    BY <2>1
  <2>3. event'.at = "fill" =>
          /\ event'.raw = raw /\ event'.records = records
          /\ event' = [at |-> "fill", raw |-> event'.raw, records |-> event'.records,
                       next |-> event'.next, copy |-> event'.copy]
    BY <2>1
  <2>4. EventHolds'
    BY <2>2, <2>3 DEF EventHolds, records
  <2> QED
    BY <1>3, <2>2, <2>4 DEF EventTakesScan, ScanGives, IInv, Good, WebHolds, MutexHeldInside
<1> QED
  BY <1>1, <1>2, <1>3

LEMMA EventFillsInv == IInv /\ EventFills => IInv'
<1> SUFFICES ASSUME IInv, EventFills PROVE IInv'
  OBVIOUS
<1>1. CASE event' = Idle /\ mutex' = "free"
  BY <1>1 DEF EventFills, Idle, IInv, Good, WebHolds, EventHolds, MutexHeldInside
<1>2. CASE event' = [event EXCEPT !.next = @ + 1] /\ UNCHANGED mutex
  <2>1. event' = [at |-> "fill", raw |-> event.raw, records |-> event.records,
                  next |-> event.next + 1, copy |-> event.copy]
    BY <1>2 DEF EventFills, IInv, EventHolds
  <2> QED
    BY <1>2, <2>1 DEF EventFills, IInv, Good, WebHolds, EventHolds, MutexHeldInside
<1> QED
  BY <1>1, <1>2 DEF EventFills

LEMMA DriverEventsInv == IInv /\ DriverEvents => IInv'
<1> SUFFICES ASSUME IInv, DriverEvents PROVE IInv'
  OBVIOUS
<1>1. CASE \E s \in Ssids, state \in States \ {"new"} : EventSetsState(s, state)
  BY <1>1, EventSetsStateInv
<1>2. CASE EventScanDone
  BY <1>2 DEF EventScanDone, DriverEvent, Idle, IInv, Good, WebHolds, EventHolds, MutexHeldInside
<1>3. CASE EventLocks
  BY <1>3 DEF EventLocks, Idle, IInv, Good, WebHolds, EventHolds, MutexHeldInside
<1>4. CASE EventReads
  BY <1>4, EventReadsLeaves DEF IInv, Good, WebHolds, EventHolds, MutexHeldInside
<1> QED
  BY <1>1, <1>2, <1>3, <1>4, EventStateWritesInv, EventTakesScanInv, EventFillsInv DEF DriverEvents, EventReads

LEMMA NextInv == IInv /\ [Next]_vars => IInv'
<1> SUFFICES ASSUME IInv, [Next]_vars PROVE IInv'
  OBVIOUS
<1> USE DEF IInv, Good, WebHolds, EventHolds, MutexHeldInside
<1>1. CASE Thread
  BY <1>1, ThreadLeaves, NothingIsGood
<1>2. CASE Reboot
  BY <1>2 DEF Reboot, Idle
<1>3. CASE UNCHANGED vars
  BY <1>3 DEF vars
<1> QED
  BY <1>1, <1>2, <1>3, WebInv, DriverEventsInv DEF Next
-----------------------------------------------------------------------------
(* What the store becomes as a set, for the promise of StationStore.       *)

Without(copy, s) == {e \in ToSet(copy) : e.ssid # s}

LEMMA ReplacedAsSet ==
  ASSUME NEW copy, Good(copy), NEW i \in DOMAIN copy, NEW e
  PROVE  ToSet([copy EXCEPT ![i] = e]) = Without(copy, copy[i].ssid) \cup {e}
<1> DEFINE new == [copy EXCEPT ![i] = e]
<1>1. DOMAIN new = DOMAIN copy /\ new[i] = e /\ \A j \in DOMAIN copy : j # i => new[j] = copy[j]
  BY DEF Good
<1>2. \A j \in DOMAIN copy : copy[j].ssid # copy[i].ssid <=> j # i
  BY DEF Good, Once
<1> QED
  BY <1>1, <1>2 DEF ToSet, Without

LEMMA AppendedAsSet ==
  ASSUME NEW copy, Good(copy), NEW e \in Stations, ~Holds(copy, e.ssid)
  PROVE  ToSet(Append(copy, e)) = Without(copy, e.ssid) \cup {e}
<1> DEFINE n == Len(copy)  new == Append(copy, e)
<1>1. DOMAIN copy = 1..n /\ n \in Nat /\ DOMAIN new = 1..n + 1
  BY DEF Good
<1>2. new[n + 1] = e /\ \A j \in 1..n : new[j] = copy[j] /\ copy[j].ssid # e.ssid
  BY DEF Good, Holds
<1>3. \A j \in 1..n + 1 : j \in 1..n \/ j = n + 1
  BY <1>1
<1> QED
  BY <1>1, <1>2, <1>3 DEF ToSet, Without

\* Where SwapOut takes its entries from: every place but i.
LEMMA NothingMissed ==
  ASSUME NEW n \in Nat, NEW i \in 1..n, NEW k \in 1..n, k # i
  PROVE  \E j \in 1..n - 1 : (IF j = i THEN n ELSE j) = k
<1>1. CASE k = n
  <2>1. i \in 1..n - 1 /\ (IF i = i THEN n ELSE i) = k
    BY <1>1
  <2> QED
    BY <2>1
<1>2. CASE k # n
  <2>1. k \in 1..n - 1 /\ (IF k = i THEN n ELSE k) = k
    BY <1>2
  <2> QED
    BY <2>1
<1> QED
  BY <1>1, <1>2

LEMMA SwappedAsSet ==
  ASSUME NEW copy, Good(copy), NEW i \in DOMAIN copy
  PROVE  ToSet(SwapOut(copy, i)) = Without(copy, copy[i].ssid)
<1> DEFINE n == Len(copy)  from(j) == IF j = i THEN n ELSE j
<1>1. n \in Nat \ {0} /\ DOMAIN copy = 1..n /\ i \in 1..n
  BY DEF Good
<1>2. ToSet(SwapOut(copy, i)) = {copy[from(j)] : j \in 1..n - 1}
  BY <1>1 DEF ToSet, SwapOut
<1>3. \A j \in 1..n : copy[j].ssid # copy[i].ssid <=> j # i
  BY <1>1 DEF Good, Once
<1>4. \A j \in 1..n - 1 : from(j) \in 1..n /\ from(j) # i
  BY <1>1
<1>5. \A k \in 1..n : k # i => \E j \in 1..n - 1 : from(j) = k
  BY <1>1, NothingMissed
<1>6. Without(copy, copy[i].ssid) = {copy[k] : k \in {m \in 1..n : m # i}}
  BY <1>1, <1>3 DEF ToSet, Without
<1>7. {copy[from(j)] : j \in 1..n - 1} = {copy[k] : k \in {m \in 1..n : m # i}}
  <2> HIDE DEF n, from
  <2> QED
    BY <1>4, <1>5
<1> QED
  BY <1>2, <1>6, <1>7

\* Only four actions write the blob.
LEMMA Writers ==
  ASSUME Next
  PROVE  UNCHANGED store \/ WebAddWrites \/ WebRemoveWrites \/ EventStateWrites \/ ThreadForgets
<1>1. CASE Web
  BY <1>1 DEF Web, WebRemoves, WebAdds, WebConnects, WebConnectsWith, WebForgets, WebClears,
              WebShows, WebLocks, WebShowsNext
<1>2. CASE DriverEvents
  BY <1>2 DEF DriverEvents, EventSetsState, EventScanDone, EventLocks, EventTakesScan, EventFills,
              EventDisconnected, EventFails, EventMovesOn, EventConnectsWith
<1>3. CASE Thread
  BY <1>3, ThreadLeaves
<1> QED
  BY <1>1, <1>2, <1>3 DEF Next, Reboot

LEMMA AddKeepsPromise ==
  ASSUME IInv, WebAddWrites, store' # store
  PROVE  Store!Put(ToSet(web.copy), web.ssid)
<1> DEFINE copy == web.copy
<1>1. Good(copy) /\ web.ssid \in Ssids /\ web.password \in Passwords
  BY DEF WebAddWrites, IInv, WebHolds
<1>2. SUFFICES ASSUME NEW p \in Passwords,
                      ToSet(store') = Without(copy, web.ssid) \cup {Entry(web.ssid, p)}
               PROVE  Store!Put(ToSet(copy), web.ssid)
  <2> DEFINE e == Entry(web.ssid, web.password)
  <2>1. e \in Stations /\ e.ssid = web.ssid
    BY <1>1, EntryIsStation
  <2>2. CASE AddFirst
    <3>1. copy = <<>> /\ store' = <<Entry(web.ssid, Cut[web.password])>>
      BY <2>2 DEF AddFirst
    <3>2. ToSet(store') = Without(copy, web.ssid) \cup {Entry(web.ssid, Cut[web.password])}
      BY <3>1 DEF ToSet, Without
    <3>3. Cut[web.password] \in Passwords
      BY <1>1
    <3> QED
      BY <3>2, <3>3, <1>2
  <2>3. CASE AddAgain
    <3>1. At(copy, web.ssid) \in DOMAIN copy /\ copy[At(copy, web.ssid)].ssid = web.ssid
      BY <1>1, <2>3, AtFinds DEF AddAgain
    <3>2. store' = [copy EXCEPT ![At(copy, web.ssid)] = e]
      BY <2>3 DEF AddAgain
    <3>3. ToSet([copy EXCEPT ![At(copy, web.ssid)] = e])
            = Without(copy, copy[At(copy, web.ssid)].ssid) \cup {e}
      BY <1>1, <3>1, ReplacedAsSet
    <3>4. ToSet(store') = Without(copy, web.ssid) \cup {e}
      BY <3>1, <3>2, <3>3
    <3> QED
      BY <1>1, <3>4, <1>2
  <2>4. CASE AddNew
    <3>1. store' = Append(copy, e) /\ ~Holds(copy, e.ssid)
      BY <2>1, <2>4 DEF AddNew
    <3> QED
      BY <1>1, <2>1, <3>1, AppendedAsSet, <1>2
  <2> QED
    BY <2>2, <2>3, <2>4 DEF WebAddWrites
<1> DEFINE e == Entry(web.ssid, p)
<1>3. e \in ToSet(store') /\ e.ssid = web.ssid /\ e.state = "new"
  BY <1>2 DEF Entry
<1> QED
  BY <1>2, <1>3 DEF Store!Put, Store!Others, Without

LEMMA RemoveKeepsPromise ==
  ASSUME IInv, WebRemoveWrites
  PROVE  Store!Drop(ToSet(web.copy), web.ssid)
<1> DEFINE copy == web.copy  i == At(copy, web.ssid)
<1>1. Good(copy) /\ i \in DOMAIN copy /\ copy[i].ssid = web.ssid
  BY AtFinds DEF WebRemoveWrites, IInv, WebHolds
<1>2. ToSet(store') = Without(copy, web.ssid)
  BY <1>1, SwappedAsSet DEF WebRemoveWrites
<1> QED
  BY <1>2 DEF Store!Drop, Store!Others, Without

LEMMA MarkKeepsPromise ==
  ASSUME IInv, EventStateWrites
  PROVE  Store!Mark(ToSet(event.copy), event.ssid)
<1> DEFINE copy == event.copy  i == At(copy, event.ssid)  e == copy[i]  f == [e EXCEPT !.state = event.state]
<1>2. Good(copy) /\ i \in DOMAIN copy /\ e.ssid = event.ssid /\ event.state \in States
  BY AtFinds DEF EventStateWrites, IInv, EventHolds
<1>3. store' = [copy EXCEPT ![i] = f]
  BY DEF EventStateWrites
<1>4. ToSet(store') = Without(copy, event.ssid) \cup {f}
  <2>1. ToSet([copy EXCEPT ![i] = f]) = Without(copy, copy[i].ssid) \cup {f}
    BY <1>2, ReplacedAsSet
  <2> QED
    BY <1>2, <1>3, <2>1
<1>5. e \in Stations /\ e \in ToSet(copy)
  BY <1>2 DEF Good, ToSet
<1>6. f.state = event.state
  BY <1>5 DEF Stations
<1> QED
  BY <1>2, <1>4, <1>5, <1>6 DEF Store!Mark, Store!Others, Without

LEMMA StepKeepsPromise == IInv /\ [Next]_vars => [store' # store => StorePromise]_vars
<1> SUFFICES ASSUME IInv, Next, store' # store PROVE StorePromise
  BY DEF vars
<1>1. CASE WebAddWrites
  BY <1>1, AddKeepsPromise DEF WebAddWrites, StorePromise, WebPromise
<1>2. CASE WebRemoveWrites
  BY <1>2, RemoveKeepsPromise DEF WebRemoveWrites, StorePromise, WebPromise
<1>3. CASE EventStateWrites
  <2>1. event'.at # event.at
    BY <1>3 DEF EventStateWrites, After, Idle
  <2> QED
    BY <1>3, <2>1, MarkKeepsPromise DEF EventStateWrites, StorePromise
<1>4. CASE ThreadForgets
  <2>1. thread' # thread /\ ToSet(store') = {}
    BY <1>4 DEF ThreadForgets, Idle, ToSet
  <2> QED
    BY <2>1 DEF StorePromise, Store!Forget
<1> QED
  BY <1>1, <1>2, <1>3, <1>4, Writers
-----------------------------------------------------------------------------
(* Types, the answer of the web server and the candidates.                 *)

Aps == [ssid : Ssids \cup {Empty}, scan : Nat]
Pairs == [ssid : Ssids, password : Passwords]

\* The places of the three tasks, ...
Places ==
  /\ web.at \in {"idle", "add", "connect", "password", "remove", "forget", "clear", "lock", "show", "panic"}
  /\ event.at \in {"idle", "state", "next", "password", "lock", "scan", "fill", "panic"}
  /\ thread.at \in {"idle", "password", "reset"}
  /\ requests \in 0..MaxRequests /\ events \in 0..MaxEvents /\ fails \in 0..MaxFails

\* ... the lists in RAM, ...
Lengths ==
  /\ visible \in [1..MaxAps -> Aps] /\ found \in 0..MaxAps
  /\ DOMAIN list = 1..MaxCandidates /\ count \in 0..MaxCandidates
  /\ shown \in Seq(Aps)
  /\ event.at = "fill" =>
       /\ event.records \in Seq(Records) /\ Len(event.records) <= MaxAps
       /\ event.next \in 1..Len(event.records) + 1

\* ... which hold the access points of one scan, except while the event task fills them,
\* and of which the web server has sent the first ones.
OneScanVisible ==
  /\ event.at # "fill" => \A i, j \in 1..found : visible[i].scan = visible[j].scan
  /\ event.at = "fill" => /\ found = Len(event.records)
                          /\ \A i \in 1..event.next - 1 : visible[i].scan = events
FirstShown ==
  /\ web.at = "lock" => shown = <<>>
  /\ web.at = "show" => Len(shown) <= found /\ \A i \in 1..Len(shown) : shown[i] = visible[i]
OneScanShown == fails = 0 => OneScanVisible /\ FirstShown

\* Every copy of the blob, every order and every entry to be written is of pairs that
\* were given.
Given(copy) == \A i \in DOMAIN copy : Station(copy[i].ssid, copy[i].password) \in given
OnlyGiven ==
  /\ given \subseteq Pairs /\ orders \in Seq(Pairs) /\ \A i \in 1..Len(orders) : orders[i] \in given
  /\ Given(store)
  /\ web.at \in {"add", "remove"} => Given(web.copy)
  /\ web.at = "add" => {Station(web.ssid, web.password), Station(web.ssid, Cut[web.password])} \subseteq given
  /\ event.at \in {"state", "fill"} => Given(event.copy) /\ Good(event.copy)

\* The candidates, as long as no two tasks ran into each other over them; between its
\* two copies a task still finds the name it took.
Finds(task) == task.at = "password" => index \in 1..count /\ list[index].ssid = task.ssid
Undisturbed ==
  /\ cfg \in given \cup {NoStation}
  /\ \A i \in 1..count : list[i] \in given
  /\ Finds(web) /\ Finds(event) /\ Finds(thread)
  /\ web.at = "clear" => count = 0
CandidatesStand ==
  /\ index \in 1..MaxCandidates /\ met \in BOOLEAN
  /\ ~met => Undisturbed

LEMMA ConstantsFit ==
  /\ MaxAps \in Nat \ {0} /\ MaxCandidates \in Nat \ {0} /\ MaxRequests \in Nat /\ MaxEvents \in Nat /\ MaxFails \in Nat
  /\ Empty = 0 /\ Empty \in Ssids \cup {Empty}
  BY DEF Empty

\* The event task's record while it fills the lists.
LEMMA FillGoesOn ==
  ASSUME EventHolds, event.at = "fill", event' = [event EXCEPT !.next = @ + 1]
  PROVE  event' = [at |-> "fill", raw |-> event.raw, records |-> event.records,
                   next |-> event.next + 1, copy |-> event.copy]
  BY DEF EventHolds

LEMMA PlacesStep ==
  ASSUME EventHolds, Places, [Next]_vars
  PROVE  Places'
<1> USE DEF Places
<1>1. /\ MaxRequests \in Nat /\ MaxEvents \in Nat /\ MaxFails \in Nat
      /\ requests \in 0..MaxRequests /\ events \in 0..MaxEvents /\ fails \in 0..MaxFails
  BY ConstantsFit
<1>2. ASSUME Fails PROVE fails' \in 0..MaxFails
  BY <1>1, <1>2 DEF Fails
<1>3. ASSUME NEW copy, Reads(copy) PROVE fails' \in 0..MaxFails
  BY <1>1, <1>2, <1>3 DEF Reads
<1>4. ASSUME WebRequest PROVE requests' \in 0..MaxRequests
  BY <1>1, <1>4 DEF WebRequest
<1>5. ASSUME DriverEvent PROVE events' \in 0..MaxEvents
  BY <1>1, <1>5 DEF DriverEvent
<1>6. ASSUME NEW s \in Ssids, NEW p \in Passwords, WebAdds(s, p) PROVE Places'
  <2>1. requests' \in 0..MaxRequests /\ fails' \in 0..MaxFails /\ web'.at = "add"
    BY <1>3, <1>4, <1>6 DEF WebAdds
  <2> QED
    BY <1>6, <2>1 DEF WebAdds
<1>7. ASSUME NEW s \in Ssids, WebRemoves(s) PROVE Places'
  <2>1. requests' \in 0..MaxRequests /\ fails' \in 0..MaxFails /\ web'.at \in {"remove", "idle"}
    BY <1>3, <1>4, <1>7 DEF WebRemoves, Idle
  <2> QED
    BY <1>7, <2>1 DEF WebRemoves
<1>8. CASE WebAddWrites
  <2>1. fails' \in 0..MaxFails /\ web'.at \in {"connect", "idle"}
    BY <1>1, <1>2, <1>8 DEF WebAddWrites, AddFirst, AddAgain, AddNew, Idle
  <2> QED
    BY <1>8, <2>1 DEF WebAddWrites
<1>9. CASE WebConnects \/ WebConnectsWith \/ WebRemoveWrites \/ WebForgets \/ WebClears \/ WebLocks \/ WebShowsNext
  <2>1. web'.at \in {web.at, "password", "idle", "forget", "clear", "show", "panic"}
    BY <1>9, NamedIs DEF WebConnects, WebConnectsWith, WebRemoveWrites, WebForgets, WebClears, WebLocks, WebShowsNext, Idle
  <2>2. UNCHANGED <<event, thread, requests, events, fails>>
    BY <1>9 DEF WebConnects, WebConnectsWith, WebRemoveWrites, WebForgets, WebClears, WebLocks, WebShowsNext, bounds
  <2> QED
    BY <2>1, <2>2
<1>10. CASE WebShows
  <2>1. requests' \in 0..MaxRequests /\ web'.at = "lock"
    BY <1>4, <1>10 DEF WebShows
  <2> QED
    BY <1>10, <2>1 DEF WebShows
<1>11. ASSUME NEW s \in Ssids, NEW state \in States, EventSetsState(s, state) PROVE Places'
  <2>1. events' \in 0..MaxEvents /\ fails' \in 0..MaxFails /\ event'.at \in {"state", "next", "idle"}
    BY <1>3, <1>5, <1>11 DEF EventSetsState, After, Idle
  <2> QED
    BY <1>11, <2>1 DEF EventSetsState
<1>12. CASE EventStateWrites \/ EventLocks \/ EventFills
  <2>1. event'.at \in {"idle", "next", "scan", "fill"}
    <3>1. ASSUME EventFills PROVE event'.at \in {"idle", "fill"}
      <4>1. event.at = "fill" /\ (event' = Idle \/ event' = [event EXCEPT !.next = @ + 1])
        BY <3>1 DEF EventFills
      <4> QED
        BY <4>1, FillGoesOn DEF Idle
    <3> QED
      BY <1>12, <3>1 DEF EventStateWrites, EventLocks, After, Idle
  <2>2. UNCHANGED <<web, thread, requests, events, fails>>
    BY <1>12 DEF EventStateWrites, EventLocks, EventFills, bounds
  <2> QED
    BY <2>1, <2>2
<1>13. CASE EventScanDone
  <2>1. events' \in 0..MaxEvents /\ event'.at = "lock"
    BY <1>5, <1>13 DEF EventScanDone
  <2> QED
    BY <1>13, <2>1 DEF EventScanDone
<1>14. CASE EventTakesScan
  <2>1. fails' \in 0..MaxFails /\ event'.at \in {"idle", "fill", "panic"}
    BY <1>1, <1>2, <1>3, <1>14 DEF EventTakesScan, ScanGives, ScanGivesNothing, Idle
  <2> QED
    BY <1>14, <2>1 DEF EventTakesScan
<1>15. CASE Thread
  <2>1. requests' \in 0..MaxRequests
    BY <1>1, <1>15, ThreadLeaves
  <2> QED
    BY <1>15, <2>1, ThreadLeaves
<1>16. CASE Reboot
  BY <1>16 DEF Reboot, bounds, Idle
<1>17. CASE UNCHANGED vars
  BY <1>17 DEF vars, bounds
<1>18. CASE EventReads
  <2>1. events' \in 0..MaxEvents
    BY <1>5, <1>18, EventReadsLeaves
  <2> QED
    BY <1>18, <2>1, EventReadsLeaves
<1> QED
  BY <1>6, <1>7, <1>8, <1>9, <1>10, <1>11, <1>12, <1>13, <1>14, <1>15, <1>16, <1>17, <1>18 DEF Next, Web, DriverEvents, EventReads

\* A step that takes a scan, the only one that starts filling the lists.
LEMMA FillsWhat ==
  ASSUME NEW raw \in Scans, ScanGives(raw), event'.at = "fill"
  PROVE  /\ event'.records \in Seq(Records) /\ Len(event'.records) <= MaxAps /\ Len(event'.records) \in Nat
         /\ event'.next = 1 /\ found' = Len(event'.records) /\ event'.copy \in {store, <<>>}
<1> DEFINE records == FilterSortUnique(AtMostAps(raw))
<1>1. records \in Seq(Records) /\ Len(records) <= MaxAps /\ found' = Len(records)
  BY FilterFits DEF ScanGives
<1> HIDE DEF records
<1>2. \E copy \in {store, <<>>} :
        event' = [at |-> "fill", raw |-> raw, records |-> records, next |-> 1, copy |-> copy]
  <2>1. \/ event' = [at |-> "panic"]
        \/ \E copy \in {store, <<>>} :
             event' = [at |-> "fill", raw |-> raw, records |-> records, next |-> 1, copy |-> copy]
    BY DEF ScanGives, records
  <2> QED
    BY <2>1
<1>3. event'.records = records /\ event'.next = 1 /\ event'.copy \in {store, <<>>}
  BY <1>2
<1>4. Len(records) \in Nat
  BY <1>1
<1> QED
  BY <1>1, <1>3, <1>4

\* What a scan that gives nothing leaves in the number of access points.
LEMMA NothingFits ==
  ASSUME NEW raw \in Scans, ScanGivesNothing(raw), found \in 0..MaxAps
  PROVE  found' \in 0..MaxAps
<1>1. raw \in Seq(Records) /\ Len(raw) \in Nat /\ MaxAps \in Nat
  BY ConstantsFit
<1>2. Len(AtMostAps(raw)) \in 0..MaxAps
  <2>1. \A n \in Nat : n <= Len(raw) => Len(SubSeq(raw, 1, n)) = n
    BY <1>1
  <2> QED
    BY <1>1, <2>1 DEF AtMostAps
<1> QED
  BY <1>1, <1>2 DEF ScanGivesNothing

LEMMA LengthsStep ==
  ASSUME IInv, Places, Lengths, [Next]_vars
  PROVE  Lengths'
<1>1. MaxAps \in Nat /\ MaxCandidates \in Nat /\ Empty \in Ssids \cup {Empty} /\ 0 \in Nat
  BY ConstantsFit
<1>2. ASSUME \/ \E s \in Ssids : WebRemoves(s) \/ \E p \in Passwords : WebAdds(s, p)
             \/ WebAddWrites \/ WebConnects \/ WebConnectsWith \/ WebRemoveWrites \/ WebLocks
             \/ UNCHANGED vars
      PROVE  UNCHANGED <<visible, found, list, count, shown, event>>
  BY <1>2 DEF WebRemoves, WebAdds, WebAddWrites, WebConnects, WebConnectsWith, WebRemoveWrites, WebLocks,
     vars, aps, candidates
<1>3. ASSUME UNCHANGED <<visible, found, list, count, shown, event>> PROVE Lengths'
  BY <1>3 DEF Lengths
<1>4. CASE WebForgets
  <2>1. count' = 0 /\ UNCHANGED <<visible, found, list, shown, event>>
    BY <1>4 DEF WebForgets, aps
  <2> QED
    BY <1>1, <2>1 DEF Lengths
<1>5. CASE WebClears
  <2>1. DOMAIN list' = DOMAIN list /\ UNCHANGED <<visible, found, count, shown, event>>
    BY <1>5 DEF WebClears, aps
  <2> QED
    BY <2>1 DEF Lengths
<1>6. CASE WebShows
  <2>1. shown' = <<>> /\ UNCHANGED <<visible, found, list, count, event>>
    BY <1>6 DEF WebShows, aps, candidates
  <2> QED
    BY <2>1 DEF Lengths
<1>7. CASE WebShowsNext
  <2>1. UNCHANGED <<visible, found, list, count, event>>
    BY <1>7 DEF WebShowsNext, aps, candidates
  <2>2. shown' \in Seq(Aps)
    <3>1. CASE Len(shown) < found
      <4>1. shown \in Seq(Aps) /\ Len(shown) \in Nat /\ found \in Nat /\ found <= MaxAps
        BY <1>1 DEF Lengths
      <4>2. Len(shown) + 1 \in 1..MaxAps
        BY <1>1, <3>1, <4>1
      <4>3. visible[Len(shown) + 1] \in Aps
        BY <4>2 DEF Lengths
      <4>4. shown' = Append(shown, visible[Len(shown) + 1])
        BY <1>7, <3>1 DEF WebShowsNext
      <4> QED
        BY <4>1, <4>3, <4>4
    <3>2. CASE ~(Len(shown) < found)
      BY <1>7, <3>2 DEF WebShowsNext, Lengths
    <3> QED
      BY <3>1, <3>2
  <2> QED
    BY <2>1, <2>2 DEF Lengths
<1>8. ASSUME \/ \E s \in Ssids, state \in States \ {"new"} : EventSetsState(s, state)
             \/ EventStateWrites \/ EventScanDone \/ EventLocks
      PROVE  Lengths'
  <2>1. UNCHANGED <<visible, found, list, count, shown>>
    BY <1>8 DEF EventSetsState, EventStateWrites, EventScanDone, EventLocks, aps, candidates
  <2>2. event'.at \in {"state", "next", "idle", "lock", "scan"}
    BY <1>8 DEF EventSetsState, EventStateWrites, EventScanDone, EventLocks, After, Idle
  <2> QED
    BY <2>1, <2>2 DEF Lengths
<1>9. CASE EventTakesScan
  <2>1. PICK raw \in Scans : ScanGivesNothing(raw) \/ ScanGives(raw)
    BY <1>9 DEF EventTakesScan
  <2>2. UNCHANGED <<visible, list, shown>>
    BY <1>9 DEF EventTakesScan
  <2>3. CASE ScanGivesNothing(raw)
    <3>1. found' \in 0..MaxAps
      BY <2>3, NothingFits DEF Lengths
    <3>2. event'.at = "idle" /\ count' = count
      BY <2>3 DEF ScanGivesNothing, Idle
    <3> QED
      BY <2>2, <3>1, <3>2 DEF Lengths
  <2>4. CASE ScanGives(raw)
    <3>1. count' = 0 /\ found' = Len(FilterSortUnique(AtMostAps(raw)))
      BY <2>4 DEF ScanGives
    <3>2. found' \in 0..MaxAps
      <4>1. Len(FilterSortUnique(AtMostAps(raw))) \in Nat /\ Len(FilterSortUnique(AtMostAps(raw))) <= MaxAps
        BY FilterFits
      <4> QED
        BY <1>1, <3>1, <4>1
    <3>3. event'.at = "fill" =>
            /\ event'.records \in Seq(Records) /\ Len(event'.records) <= MaxAps
            /\ event'.next \in 1..Len(event'.records) + 1
      BY <2>4, FillsWhat
    <3> QED
      BY <1>1, <2>2, <3>1, <3>2, <3>3 DEF Lengths
  <2> QED
    BY <2>1, <2>3, <2>4
<1>10. CASE EventFills
  <2>1. event.at = "fill" /\ UNCHANGED <<found, shown>>
    BY <1>10 DEF EventFills
  <2>2. CASE event.next > Len(event.records)
    <3>1. event' = Idle /\ UNCHANGED <<visible, list, count>>
      BY <1>10, <2>2 DEF EventFills
    <3> QED
      BY <2>1, <3>1 DEF Lengths, Idle
  <2>3. CASE ~(event.next > Len(event.records))
    <3> DEFINE s == event.records[event.next].ssid
    <3>1. /\ visible' = [visible EXCEPT ![event.next] = [ssid |-> s, scan |-> events]]
          /\ Lists(s) \/ UNCHANGED <<list, count>>
          /\ Lists(s) => Chosen(s)
          /\ event' = [event EXCEPT !.next = @ + 1]
      <4>1. IF Chosen(s) THEN Lists(s) ELSE UNCHANGED <<list, count>>
        BY <1>10, <2>3 DEF EventFills
      <4>2. /\ visible' = [visible EXCEPT ![event.next] = [ssid |-> s, scan |-> events]]
            /\ event' = [event EXCEPT !.next = @ + 1]
        BY <1>10, <2>3 DEF EventFills
      <4>3. Lists(s) => Chosen(s)
        <5>1. ASSUME UNCHANGED <<list, count>> PROVE ~Lists(s)
          BY <5>1 DEF Lists, Lengths
        <5> QED
          BY <4>1, <5>1
      <4> QED
        BY <4>1, <4>2, <4>3
    <3>2. event.next \in 1..Len(event.records) /\ event.records \in Seq(Records) /\ Len(event.records) \in Nat
      <4>1. event.records \in Seq(Records) /\ event.next \in 1..Len(event.records) + 1
        BY <2>1 DEF Lengths
      <4>2. Len(event.records) \in Nat
        BY <4>1
      <4> QED
        BY <2>3, <4>1, <4>2
    <3>3. s \in Ssids \cup {Empty} /\ events \in Nat
      <4>1. event.records[event.next] \in Records
        BY <3>2
      <4>2. events \in 0..MaxEvents /\ MaxEvents \in Nat
        BY ConstantsFit DEF Places
      <4> QED
        BY <4>1, <4>2 DEF Records
    <3>4. visible' \in [1..MaxAps -> Aps]
      BY <3>1, <3>3 DEF Lengths, Aps
    <3>5. DOMAIN list' = 1..MaxCandidates /\ count' \in 0..MaxCandidates
      BY <1>1, <3>1 DEF Lists, Chosen, Lengths
    <3>6. /\ event'.records = event.records /\ event'.next = event.next + 1
      BY <2>1, <3>1, FillGoesOn DEF IInv
    <3>7. event'.next \in 1..Len(event'.records) + 1
      BY <3>2, <3>6
    <3> QED
      BY <2>1, <3>4, <3>5, <3>6, <3>7 DEF Lengths
  <2> QED
    BY <2>2, <2>3
<1>11. CASE Reboot
  <2>1. /\ visible' = [i \in 1..MaxAps |-> [ssid |-> Empty, scan |-> 0]] /\ found' = 0
        /\ list' = [i \in 1..MaxCandidates |-> NoStation] /\ count' = 0 /\ shown' = <<>> /\ event' = Idle
    BY <1>11 DEF Reboot
  <2>2. visible' \in [1..MaxAps -> Aps]
    <3>1. [ssid |-> Empty, scan |-> 0] \in Aps
      BY <1>1 DEF Aps
    <3> QED
      BY <2>1, <3>1
  <2> QED
    <3>1. event'.at = "idle" /\ shown' \in Seq(Aps)
      BY <2>1 DEF Idle
    <3>2. found' \in 0..MaxAps /\ count' \in 0..MaxCandidates /\ DOMAIN list' = 1..MaxCandidates
      BY <1>1, <2>1
    <3> QED
      BY <2>2, <3>1, <3>2 DEF Lengths
<1>12. CASE Thread
  BY <1>3, <1>12, ThreadLeaves
<1>13. CASE EventReads
  BY <1>13, EventReadsLeaves DEF Lengths
<1> QED
  BY <1>2, <1>3, <1>4, <1>5, <1>6, <1>7, <1>8, <1>9, <1>10, <1>11, <1>12, <1>13 DEF Next, Web, DriverEvents, EventReads

\* A step that changes neither the lists nor what is shown of them.
LEMMA SameShown ==
  ASSUME OneScanShown, UNCHANGED <<visible, found, shown>>, fails' = 0 => fails = 0,
         web'.at \in {"lock", "show"} => web' = web,
         event'.at = "fill" => event' = event /\ UNCHANGED events,
         event.at = "fill" => event' = event
  PROVE  OneScanShown'
  BY DEF OneScanShown, OneScanVisible, FirstShown

LEMMA FailsGrows ==
  /\ \A copy : Reads(copy) /\ fails \in Nat /\ fails' = 0 => fails = 0
  /\ Fails /\ fails \in Nat => fails' # 0
  BY DEF Reads, Fails

LEMMA OneScanShownStep ==
  ASSUME IInv, Places, Lengths, OneScanShown, [Next]_vars
  PROVE  OneScanShown'
<1>1. fails \in Nat /\ MaxAps \in Nat /\ shown \in Seq(Aps) /\ Len(shown) \in Nat
  BY ConstantsFit DEF Places, Lengths
<1>2. ASSUME NEW s \in Ssids, WebRemoves(s) \/ \E p \in Passwords : WebAdds(s, p) PROVE OneScanShown'
  <2>1. UNCHANGED <<visible, found, shown, event, events>> /\ web'.at \in {"add", "remove", "idle"}
    BY <1>2 DEF WebRemoves, WebAdds, aps, Idle
  <2>2. fails' = 0 => fails = 0
    BY <1>1, <1>2, FailsGrows DEF WebRemoves, WebAdds
  <2> QED
    BY <2>1, <2>2, SameShown
<1>3. CASE WebAddWrites
  <2>1. UNCHANGED <<visible, found, shown, event, events>> /\ web'.at \in {"connect", "idle"}
    BY <1>3 DEF WebAddWrites, AddFirst, AddAgain, AddNew, aps, Idle
  <2>2. fails' = 0 => fails = 0
    BY <1>1, <1>3, FailsGrows DEF WebAddWrites, AddFirst, AddAgain, AddNew
  <2> QED
    BY <2>1, <2>2, SameShown
<1>4. CASE WebConnects \/ WebConnectsWith \/ WebRemoveWrites \/ WebForgets \/ WebClears
  <2>1. UNCHANGED <<visible, found, shown, event, events, fails>>
    BY <1>4 DEF WebConnects, WebConnectsWith, WebRemoveWrites, WebForgets, WebClears, aps, bounds
  <2>2. web'.at \in {"password", "idle", "forget", "clear", "panic"}
    BY <1>4, NamedIs DEF WebConnects, WebConnectsWith, WebRemoveWrites, WebForgets, WebClears, Idle
  <2> QED
    BY <2>1, <2>2, SameShown
<1>5. CASE WebShows
  <2>1. shown' = <<>> /\ UNCHANGED <<visible, found, event, events, fails>> /\ web'.at = "lock"
    BY <1>5 DEF WebShows, aps
  <2> QED
    BY <2>1 DEF OneScanShown, OneScanVisible, FirstShown
<1>6. CASE WebLocks
  <2>1. UNCHANGED <<visible, found, shown, event, events, fails>> /\ web.at = "lock" /\ web'.at \in {"show", "idle"}
    BY <1>6 DEF WebLocks, aps, bounds, Idle
  <2>2. ASSUME fails = 0 PROVE FirstShown'
    <3>1. shown = <<>> /\ found \in 0..MaxAps
      BY <2>1, <2>2 DEF OneScanShown, FirstShown, Lengths
    <3> QED
      BY <1>1, <2>1, <3>1 DEF FirstShown
  <2>3. ASSUME fails = 0 PROVE OneScanVisible'
    BY <2>1, <2>3 DEF OneScanShown, OneScanVisible
  <2> QED
    BY <2>1, <2>2, <2>3 DEF OneScanShown
<1>7. CASE WebShowsNext
  <2>1. UNCHANGED <<visible, found, event, events, fails>> /\ web.at = "show"
    BY <1>7 DEF WebShowsNext, aps, bounds
  <2>2. CASE Len(shown) < found
    <3>1. shown' = Append(shown, visible[Len(shown) + 1]) /\ web' = web
      BY <1>7, <2>2 DEF WebShowsNext
    <3>2. visible[Len(shown) + 1] \in Aps /\ Len(shown) + 1 <= found
      <4>1. found \in Nat /\ found <= MaxAps
        BY <1>1 DEF Lengths
      <4>2. Len(shown) + 1 \in 1..MaxAps
        BY <1>1, <2>2, <4>1
      <4> QED
        BY <1>1, <2>2, <4>1, <4>2 DEF Lengths
    <3>3. /\ Len(shown') = Len(shown) + 1 /\ shown'[Len(shown) + 1] = visible[Len(shown) + 1]
          /\ \A i \in 1..Len(shown) : shown'[i] = shown[i]
      BY <1>1, <3>1, <3>2
    <3>4. ASSUME fails = 0 PROVE FirstShown'
      <4>1. \A i \in 1..Len(shown) : shown[i] = visible[i]
        BY <2>1, <3>4 DEF OneScanShown, FirstShown
      <4>2. \A i \in 1..Len(shown') : shown'[i] = visible[i]
        BY <1>1, <3>3, <4>1
      <4> QED
        BY <2>1, <3>1, <3>2, <3>3, <4>2 DEF FirstShown
    <3>5. ASSUME fails = 0 PROVE OneScanVisible'
      BY <2>1, <3>5 DEF OneScanShown, OneScanVisible
    <3> QED
      BY <2>1, <3>4, <3>5 DEF OneScanShown
  <2>3. CASE ~(Len(shown) < found)
    <3>1. web'.at = "idle" /\ shown' = shown
      BY <1>7, <2>3 DEF WebShowsNext, Idle
    <3> QED
      BY <2>1, <3>1, SameShown
  <2> QED
    BY <2>2, <2>3
<1>8. ASSUME \/ \E s \in Ssids, state \in States \ {"new"} : EventSetsState(s, state)
             \/ EventStateWrites \/ EventScanDone \/ EventLocks
      PROVE  OneScanShown'
  <2>1. UNCHANGED <<visible, found, shown, web>>
    BY <1>8 DEF EventSetsState, EventStateWrites, EventScanDone, EventLocks, aps
  <2>2. event.at \in {"state", "idle", "lock"} /\ event'.at \in {"state", "next", "idle", "lock", "scan"}
    BY <1>8 DEF EventSetsState, EventStateWrites, EventScanDone, EventLocks, DriverEvent, After, Idle
  <2>3. fails' = 0 => fails = 0
    BY <1>1, <1>8, FailsGrows DEF EventSetsState, EventStateWrites, EventScanDone, EventLocks, bounds
  <2> QED
    BY <2>1, <2>2, <2>3, SameShown
<1>9. ASSUME event.at \in {"scan", "fill"}, UNCHANGED <<web, shown>>, fails = 0 PROVE FirstShown'
  <2>1. web.at # "show"
    BY <1>9 DEF IInv, MutexHeldInside
  <2> QED
    BY <1>9, <2>1 DEF OneScanShown, FirstShown
<1>10. CASE EventTakesScan
  <2>1. PICK raw \in Scans : ScanGivesNothing(raw) \/ ScanGives(raw)
    BY <1>10 DEF EventTakesScan
  <2>2. UNCHANGED <<visible, web, shown, events>> /\ event.at = "scan"
    BY <1>10 DEF EventTakesScan
  <2>3. SUFFICES ASSUME fails' = 0 PROVE OneScanShown'
    BY DEF OneScanShown
  <2>4. fails = 0 /\ ~Fails
    BY <1>1, <2>1, <2>3, FailsGrows DEF ScanGivesNothing, ScanGives
  <2>5. CASE ScanGivesNothing(raw)
    <3>1. found' = 0 /\ event'.at = "idle"
      BY <2>4, <2>5 DEF ScanGivesNothing, Idle
    <3>2. OneScanVisible'
      BY <3>1 DEF OneScanVisible
    <3> QED
      BY <1>9, <2>2, <2>4, <3>2 DEF OneScanShown
  <2>6. CASE ScanGives(raw)
    <3>1. event'.at = "fill"
      BY <2>4, <2>6 DEF ScanGives
    <3>2. found' = Len(event'.records) /\ event'.next = 1
      BY <2>6, <3>1, FillsWhat
    <3>3. OneScanVisible'
      BY <3>1, <3>2 DEF OneScanVisible
    <3> QED
      BY <1>9, <2>2, <2>4, <3>3 DEF OneScanShown
  <2> QED
    BY <2>1, <2>5, <2>6
<1>11. CASE EventFills
  <2>1. event.at = "fill" /\ UNCHANGED <<found, shown, web, events, fails>>
    BY <1>11 DEF EventFills, bounds
  <2>2. SUFFICES ASSUME fails = 0 PROVE OneScanVisible'
    BY <1>9, <2>1 DEF OneScanShown
  <2>3. /\ found = Len(event.records) /\ found \in Nat /\ found <= MaxAps
        /\ \A i \in 1..event.next - 1 : visible[i].scan = events
        /\ event.next \in 1..found + 1
    BY <1>1, <2>1, <2>2 DEF OneScanShown, OneScanVisible, Lengths
  <2>4. CASE event.next > Len(event.records)
    <3>1. visible' = visible /\ event'.at = "idle"
      BY <1>11, <2>4 DEF EventFills, Idle
    <3>2. \A i \in 1..found : visible[i].scan = events
      BY <2>3, <2>4
    <3> QED
      BY <2>1, <3>1, <3>2 DEF OneScanVisible
  <2>5. CASE ~(event.next > Len(event.records))
    <3>1. /\ \E s : visible' = [visible EXCEPT ![event.next] = [ssid |-> s, scan |-> events]]
          /\ event' = [event EXCEPT !.next = @ + 1]
      BY <1>11, <2>5 DEF EventFills
    <3>2. event'.at = "fill" /\ event'.records = event.records /\ event'.next = event.next + 1
      BY <2>1, <3>1, FillGoesOn DEF IInv
    <3>3. DOMAIN visible = 1..MaxAps /\ event.next \in 1..MaxAps
      BY <1>1, <2>3, <2>5 DEF Lengths
    <3>4. visible'[event.next].scan = events /\ \A i \in 1..event.next - 1 : visible'[i] = visible[i]
      <4>1. PICK s : visible' = [visible EXCEPT ![event.next] = [ssid |-> s, scan |-> events]]
        BY <3>1
      <4>2. visible'[event.next] = [ssid |-> s, scan |-> events]
        BY <3>3, <4>1
      <4>3. ASSUME NEW i \in 1..event.next - 1 PROVE visible'[i] = visible[i]
        <5>1. i \in 1..MaxAps /\ i # event.next
          BY <1>1, <3>3
        <5> QED
          BY <3>3, <4>1, <5>1
      <4>4. visible'[event.next].scan = events
        BY <4>2
      <4> QED
        BY <4>3, <4>4
    <3>5. ASSUME NEW i \in 1..event'.next - 1 PROVE visible'[i].scan = events
      <4>1. i \in 1..event.next - 1 \/ i = event.next
        BY <2>3, <3>2
      <4> QED
        BY <2>3, <3>4, <4>1
    <3> QED
      BY <2>1, <2>3, <3>2, <3>5 DEF OneScanVisible
  <2> QED
    BY <2>4, <2>5
<1>12. CASE Thread \/ UNCHANGED vars
  <2>1. UNCHANGED <<visible, found, shown, event, events, fails, web>>
    BY <1>12, ThreadLeaves DEF vars, aps, bounds
  <2> QED
    BY <2>1, SameShown
<1>13. CASE Reboot
  <2>1. found' = 0 /\ web'.at = "idle" /\ event'.at = "idle"
    BY <1>13 DEF Reboot, Idle
  <2> QED
    BY <2>1 DEF OneScanShown, OneScanVisible, FirstShown
<1>14. CASE EventReads
  <2>1. UNCHANGED <<visible, found, shown, fails, web>> /\ event.at # "fill" /\ event'.at # "fill"
    BY <1>14, EventReadsLeaves
  <2> QED
    BY <2>1, SameShown
<1> QED
  BY <1>2, <1>3, <1>4, <1>5, <1>6, <1>7, <1>8, <1>10, <1>11, <1>12, <1>13, <1>14 DEF Next, Web, DriverEvents, EventReads

\* What is shown changes only where the mutex keeps the event task away.
LEMMA ShownStep ==
  ASSUME IInv, Places, Lengths', OneScanShown', ShowsOneScan, [Next]_vars
  PROVE  ShowsOneScan'
<1>1. fails \in Nat
  BY ConstantsFit DEF Places
<1>2. fails' = 0 => fails = 0
  <2>1. ASSUME \/ \E s \in Ssids : WebRemoves(s) \/ \E p \in Passwords : WebAdds(s, p)
               \/ \E s \in Ssids, state \in States \ {"new"} : EventSetsState(s, state)
               \/ WebAddWrites \/ EventTakesScan
        PROVE  fails' = fails \/ Fails \/ \E copy : Reads(copy)
    BY <2>1 DEF WebRemoves, WebAdds, EventSetsState, WebAddWrites, AddFirst, AddAgain, AddNew, EventTakesScan,
       ScanGivesNothing, ScanGives
  <2>2. ASSUME \/ WebConnects \/ WebConnectsWith \/ WebRemoveWrites \/ WebForgets \/ WebClears \/ WebShows \/ WebLocks
               \/ WebShowsNext \/ EventStateWrites \/ EventScanDone \/ EventLocks \/ EventFills
               \/ Reboot \/ UNCHANGED vars
        PROVE  fails' = fails
    BY <2>2 DEF WebConnects, WebConnectsWith, WebRemoveWrites, WebForgets, WebClears, WebShows, WebLocks, WebShowsNext,
       EventStateWrites, EventScanDone, EventLocks, EventFills, Reboot, vars, bounds
  <2>3. ASSUME Thread \/ EventReads PROVE fails' = fails
    BY <2>3, ThreadLeaves, EventReadsLeaves
  <2> QED
    BY <1>1, <2>1, <2>2, <2>3, FailsGrows DEF Next, Web, DriverEvents, EventReads
<1>3. CASE shown' = shown \/ shown' = <<>>
  BY <1>2, <1>3 DEF ShowsOneScan
<1>4. CASE WebShowsNext /\ shown' # shown
  <2>1. web.at = "show" /\ web'.at = "show" /\ event' = event /\ fails' = fails
    BY <1>4 DEF WebShowsNext, bounds
  <2>2. event.at # "fill"
    BY <2>1 DEF IInv, MutexHeldInside
  <2>3. ASSUME fails' = 0 PROVE \A i, j \in DOMAIN shown' : shown'[i].scan = shown'[j].scan
    <3>1. /\ Len(shown') <= found' /\ \A i \in 1..Len(shown') : shown'[i] = visible'[i]
          /\ \A i, j \in 1..found' : visible'[i].scan = visible'[j].scan
      <4>1. OneScanVisible' /\ FirstShown'
        BY <2>3 DEF OneScanShown
      <4>2. web'.at = "show" /\ event'.at # "fill"
        BY <2>1, <2>2
      <4>3. Len(shown') <= found' /\ \A i \in 1..Len(shown') : shown'[i] = visible'[i]
        BY <4>1, <4>2 DEF FirstShown
      <4>4. \A i, j \in 1..found' : visible'[i].scan = visible'[j].scan
        BY <4>1, <4>2 DEF OneScanVisible
      <4> QED
        BY <4>3, <4>4
    <3>2. DOMAIN shown' = 1..Len(shown') /\ Len(shown') \in Nat /\ found' \in Nat
      BY ConstantsFit DEF Lengths
    <3>3. ASSUME NEW i \in DOMAIN shown', NEW j \in DOMAIN shown' PROVE shown'[i].scan = shown'[j].scan
      BY <3>1, <3>2
    <3> QED
      BY <3>3
  <2> QED
    BY <2>3 DEF ShowsOneScan
<1>5. WebShowsNext \/ shown' = shown \/ shown' = <<>>
  <2>1. ASSUME Web, ~WebShowsNext PROVE shown' = shown \/ shown' = <<>>
    BY <2>1 DEF Web, WebRemoves, WebAdds, WebAddWrites, WebConnects, WebConnectsWith, WebRemoveWrites, WebForgets,
       WebClears, WebShows, WebLocks
  <2>2. ASSUME DriverEvents \/ Thread \/ Reboot \/ UNCHANGED vars PROVE shown' = shown \/ shown' = <<>>
    BY <2>2, ThreadLeaves, EventReadsLeaves DEF DriverEvents, EventReads, EventSetsState, EventStateWrites, EventScanDone, EventLocks, EventTakesScan, EventFills,
       Reboot, vars
  <2> QED
    BY <2>1, <2>2 DEF Next
<1> QED
  BY <1>3, <1>4, <1>5

LEMMA OrdersShrink ==
  ASSUME NEW q \in Seq(Pairs), q # <<>>
  PROVE  /\ Tail(q) \in Seq(Pairs) /\ Len(Tail(q)) = Len(q) - 1 /\ Len(q) \in Nat
         /\ \A i \in 1..Len(q) - 1 : Tail(q)[i] = q[i + 1]
  OBVIOUS

LEMMA OrdersGrow ==
  ASSUME NEW q \in Seq(Pairs), NEW pair \in Pairs
  PROVE  /\ Append(q, pair) \in Seq(Pairs)
         /\ \A i \in 1..Len(Append(q, pair)) : Append(q, pair)[i] = pair \/ \E k \in 1..Len(q) : Append(q, pair)[i] = q[k]
<1>1. Len(q) \in Nat /\ Append(q, pair) \in Seq(Pairs) /\ Len(Append(q, pair)) = Len(q) + 1
  OBVIOUS
<1>2. Append(q, pair)[Len(q) + 1] = pair /\ \A i \in 1..Len(q) : Append(q, pair)[i] = q[i]
  OBVIOUS
<1>3. \A i \in 1..Len(q) + 1 : i \in 1..Len(q) \/ i = Len(q) + 1
  BY <1>1
<1> QED
  BY <1>1, <1>2, <1>3

\* The pairs that a change of a copy leaves.
LEMMA GivenChanges ==
  ASSUME NEW copy, Good(copy), Given(copy)
  PROVE  /\ \A i \in DOMAIN copy, e \in Stations :
              Station(e.ssid, e.password) \in given => Given([copy EXCEPT ![i] = e])
         /\ \A e \in Stations : Station(e.ssid, e.password) \in given => Given(Append(copy, e))
         /\ \A i \in DOMAIN copy : Given(SwapOut(copy, i))
<1>1. DOMAIN copy = 1..Len(copy) /\ Len(copy) \in Nat /\ copy \in Seq(Stations)
  BY DEF Good
<1>2. ASSUME NEW i \in DOMAIN copy, NEW e \in Stations, Station(e.ssid, e.password) \in given
      PROVE  Given([copy EXCEPT ![i] = e])
  BY <1>1, <1>2 DEF Given
<1>3. ASSUME NEW e \in Stations, Station(e.ssid, e.password) \in given PROVE Given(Append(copy, e))
  <2>1. DOMAIN Append(copy, e) = 1..Len(copy) + 1 /\ Append(copy, e)[Len(copy) + 1] = e
        /\ \A i \in 1..Len(copy) : Append(copy, e)[i] = copy[i]
    BY <1>1
  <2>2. \A i \in 1..Len(copy) + 1 : i \in 1..Len(copy) \/ i = Len(copy) + 1
    BY <1>1
  <2> QED
    BY <1>1, <1>3, <2>1, <2>2 DEF Given
<1>4. ASSUME NEW i \in DOMAIN copy PROVE Given(SwapOut(copy, i))
  <2> DEFINE new == SwapOut(copy, i)
  <2>1. DOMAIN new = 1..Len(copy) - 1 /\ \A j \in 1..Len(copy) - 1 : new[j] = copy[IF j = i THEN Len(copy) ELSE j]
    BY DEF SwapOut
  <2>2. \A j \in 1..Len(copy) - 1 : (IF j = i THEN Len(copy) ELSE j) \in 1..Len(copy)
    BY <1>1
  <2> HIDE DEF new
  <2>3. \A j \in DOMAIN new : \E k \in DOMAIN copy : new[j] = copy[k]
    BY <1>1, <2>1, <2>2
  <2>4. Given(new)
    BY <2>3 DEF Given
  <2> QED
    BY <2>4 DEF new
<1> QED
  BY <1>2, <1>3, <1>4

\* A step that writes no copy, no order and nothing new to hold.
LEMMA SameGiven ==
  ASSUME OnlyGiven, UNCHANGED <<store, orders, given>>,
         web'.at \in {"add", "remove"} => web' = web,
         event'.at \in {"state", "fill"} => event' = event
  PROVE  OnlyGiven'
  BY DEF OnlyGiven, Given, Good

LEMMA EmptyGiven == Given(<<>>)
  BY DEF Given

LEMMA OnlyGivenStep ==
  ASSUME IInv, OnlyGiven, [Next]_vars
  PROVE  OnlyGiven'
<1>1. orders \in Seq(Pairs) /\ Len(orders) \in Nat /\ given \subseteq Pairs
  BY DEF OnlyGiven
<1>2. ASSUME NEW s \in Ssids, NEW p \in Passwords PROVE Station(s, p) \in Pairs /\ Station(s, Cut[p]) \in Pairs
  BY DEF Station, Pairs
<1>3. ASSUME NEW s \in Ssids, NEW p \in Passwords, WebAdds(s, p) PROVE OnlyGiven'
  <2>1. PICK copy \in {store, <<>>} : web' = [at |-> "add", copy |-> copy, ssid |-> s, password |-> p]
    BY <1>3 DEF WebAdds
  <2>2. given' = given \cup {Station(s, p), Station(s, Cut[p])} /\ UNCHANGED <<store, event, orders>>
    BY <1>3 DEF WebAdds
  <2>3. Given(copy)
    BY EmptyGiven DEF OnlyGiven
  <2>4. web'.at = "add" /\ web'.copy = copy /\ web'.ssid = s /\ web'.password = p
    BY <2>1
  <2>5. given' \subseteq Pairs
    BY <1>1, <1>2, <2>2
  <2> QED
    BY <2>2, <2>3, <2>4, <2>5 DEF OnlyGiven, Given, Good
<1>4. ASSUME NEW s \in Ssids, WebRemoves(s) PROVE OnlyGiven'
  <2>1. PICK copy \in {store, <<>>} :
          web' = IF Holds(copy, s) THEN [at |-> "remove", copy |-> copy, ssid |-> s] ELSE Idle
    BY <1>4 DEF WebRemoves
  <2>2. UNCHANGED <<store, event, orders, given>>
    BY <1>4 DEF WebRemoves
  <2>3. Given(copy)
    BY EmptyGiven DEF OnlyGiven
  <2>4. web'.at # "add" /\ (web'.at = "remove" => web'.copy = copy)
    BY <2>1 DEF Idle
  <2> QED
    BY <2>2, <2>3, <2>4 DEF OnlyGiven, Given, Good
<1>5. CASE WebAddWrites
  <2> DEFINE e == Entry(web.ssid, web.password)  first == Entry(web.ssid, Cut[web.password])
             order == Station(web.ssid, web.password)
  <2>1. /\ web.ssid \in Ssids /\ web.password \in Passwords /\ Good(web.copy) /\ Given(web.copy)
        /\ order \in given /\ Station(web.ssid, Cut[web.password]) \in given
    BY <1>5 DEF WebAddWrites, IInv, WebHolds, OnlyGiven
  <2>2. e \in Stations /\ Station(e.ssid, e.password) = order
    BY <2>1, EntryIsStation DEF Entry, Station
  <2>3. Station(first.ssid, first.password) = Station(web.ssid, Cut[web.password])
    BY DEF Entry, Station
  <2>4. Given(store') /\ (orders' = orders \/ orders' = Append(orders, order))
    <3>1. CASE AddFirst
      <4>1. store' = <<first>> /\ orders' = orders
        BY <3>1 DEF AddFirst
      <4>2. Given(<<first>>)
        BY <2>1, <2>3 DEF Given
      <4> QED
        BY <4>1, <4>2
    <3>2. CASE AddAgain
      <4>1. At(web.copy, web.ssid) \in DOMAIN web.copy
        BY <2>1, <3>2, AtFinds DEF AddAgain
      <4>2. store' = [web.copy EXCEPT ![At(web.copy, web.ssid)] = e] /\ orders' = Append(orders, order)
        BY <3>2 DEF AddAgain
      <4>3. Given([web.copy EXCEPT ![At(web.copy, web.ssid)] = e])
        BY <2>1, <2>2, <4>1, GivenChanges
      <4> QED
        BY <4>2, <4>3
    <3>3. CASE AddNew
      <4>1. (store' = Append(web.copy, e) /\ orders' = Append(orders, order)) \/ UNCHANGED <<store, orders>>
        BY <3>3 DEF AddNew
      <4>2. Given(Append(web.copy, e))
        BY <2>1, <2>2, GivenChanges
      <4> QED
        BY <4>1, <4>2 DEF OnlyGiven
    <3> QED
      BY <1>5, <3>1, <3>2, <3>3 DEF WebAddWrites
  <2>5. orders' \in Seq(Pairs) /\ \A i \in 1..Len(orders') : orders'[i] \in given
    <3>1. CASE orders' = orders
      BY <3>1 DEF OnlyGiven
    <3>2. CASE orders' = Append(orders, order)
      <4>1. order \in Pairs
        BY <1>1, <2>1
      <4> HIDE DEF order
      <4> QED
        BY <1>1, <2>1, <3>2, <4>1, OrdersGrow DEF OnlyGiven
    <3> QED
      BY <2>4, <3>1, <3>2
  <2>6. web'.at \in {"idle", "connect"} /\ UNCHANGED <<event, given>>
    BY <1>5 DEF WebAddWrites, AddFirst, AddAgain, AddNew, Idle
  <2> QED
    BY <2>4, <2>5, <2>6 DEF OnlyGiven, Given, Good
<1>6. CASE WebRemoveWrites
  <2>1. Good(web.copy) /\ Given(web.copy) /\ At(web.copy, web.ssid) \in DOMAIN web.copy
    BY <1>6, AtFinds DEF WebRemoveWrites, IInv, WebHolds, OnlyGiven
  <2>2. Given(store')
    BY <1>6, <2>1, GivenChanges DEF WebRemoveWrites
  <2>3. web'.at \in {"forget", "idle", "panic"} /\ UNCHANGED <<event, orders, given>>
    BY <1>6 DEF WebRemoveWrites, Idle
  <2> QED
    BY <2>2, <2>3 DEF OnlyGiven, Given, Good
<1>7. CASE WebConnects \/ WebConnectsWith \/ WebForgets \/ WebClears \/ WebShows \/ WebLocks \/ WebShowsNext
  <2>1. UNCHANGED <<store, orders, given, event>>
    BY <1>7 DEF WebConnects, WebConnectsWith, WebForgets, WebClears, WebShows, WebLocks, WebShowsNext
  <2>2. web'.at \in {"password", "idle", "clear", "lock", "show"} \/ web' = web
    BY <1>7, NamedIs DEF WebConnects, WebConnectsWith, WebForgets, WebClears, WebShows, WebLocks, WebShowsNext, Idle
  <2> QED
    BY <2>1, <2>2, SameGiven
<1>8. CASE ThreadConnects
  <2>1. orders # <<>> /\ orders' = Tail(orders) /\ UNCHANGED <<store, web, event, given>>
    BY <1>8 DEF ThreadConnects
  <2>2. orders' \in Seq(Pairs) /\ Len(orders') = Len(orders) - 1
        /\ \A i \in 1..Len(orders) - 1 : orders'[i] = orders[i + 1]
    BY <1>1, <2>1, OrdersShrink
  <2>3. ASSUME NEW i \in 1..Len(orders') PROVE orders'[i] \in given
    <3>1. i \in 1..Len(orders) - 1 /\ i + 1 \in 1..Len(orders)
      BY <1>1, <2>2
    <3>2. orders[i + 1] \in given
      BY <3>1 DEF OnlyGiven
    <3> QED
      BY <2>2, <3>1, <3>2
  <2> QED
    BY <2>1, <2>2, <2>3 DEF OnlyGiven, Given, Good
<1>9. ASSUME NEW s \in Ssids, NEW state \in States, EventSetsState(s, state) PROVE OnlyGiven'
  <2>1. PICK copy \in {store, <<>>} :
          event' = IF Holds(copy, s) /\ copy[At(copy, s)].state # state
                   THEN [at |-> "state", copy |-> copy, ssid |-> s, state |-> state]
                   ELSE After(state)
    BY <1>9 DEF EventSetsState
  <2>2. UNCHANGED <<store, web, orders, given>>
    BY <1>9 DEF EventSetsState
  <2>3. Given(copy) /\ Good(copy)
    BY EmptyGiven, CopyIsGood DEF OnlyGiven, IInv
  <2>4. event'.at # "fill" /\ (event'.at = "state" => event'.copy = copy)
    BY <2>1 DEF After, Idle
  <2> QED
    BY <2>2, <2>3, <2>4 DEF OnlyGiven, Given, Good
<1>10. CASE EventStateWrites
  <2> DEFINE copy == event.copy  i == At(copy, event.ssid)  e == [copy[i] EXCEPT !.state = event.state]
  <2>1. Good(copy) /\ Given(copy) /\ i \in DOMAIN copy /\ event.state \in States
    BY <1>10, AtFinds DEF EventStateWrites, IInv, EventHolds, OnlyGiven
  <2>2. copy[i] \in Stations /\ Station(copy[i].ssid, copy[i].password) \in given
    BY <2>1 DEF Good, Given
  <2>3. e \in Stations /\ e.ssid = copy[i].ssid /\ e.password = copy[i].password
    BY <2>1, <2>2 DEF Stations
  <2>4. store' = [copy EXCEPT ![i] = e] /\ event'.at \in {"next", "idle"} /\ UNCHANGED <<web, orders, given>>
    BY <1>10 DEF EventStateWrites, After, Idle
  <2> HIDE DEF copy, i, e
  <2>5. Given(store')
    BY <2>1, <2>2, <2>3, <2>4, GivenChanges
  <2> QED
    BY <2>4, <2>5 DEF OnlyGiven, Given, Good
<1>11. CASE EventScanDone \/ EventLocks
  <2>1. UNCHANGED <<store, orders, given, web>> /\ event'.at \in {"lock", "scan", "idle"}
    BY <1>11 DEF EventScanDone, EventLocks, Idle
  <2> QED
    BY <2>1, SameGiven
<1>12. CASE EventTakesScan
  <2>1. PICK raw \in Scans : ScanGivesNothing(raw) \/ ScanGives(raw)
    BY <1>12 DEF EventTakesScan
  <2>2. UNCHANGED <<store, orders, given, web>> /\ event'.at # "state"
    BY <1>12, <2>1 DEF EventTakesScan, ScanGivesNothing, ScanGives, Idle
  <2>3. event'.at = "fill" => event'.copy \in {store, <<>>}
    <3>1. ASSUME ScanGivesNothing(raw) PROVE event'.at = "idle"
      BY <3>1 DEF ScanGivesNothing, Idle
    <3> QED
      BY <2>1, <3>1, FillsWhat
  <2>4. event'.at = "fill" => Given(event'.copy) /\ Good(event'.copy)
    BY <2>3, EmptyGiven, CopyIsGood DEF OnlyGiven, IInv
  <2> QED
    BY <2>2, <2>4 DEF OnlyGiven, Given, Good
<1>13. CASE EventFills
  <2>1. event.at = "fill" /\ UNCHANGED <<store, orders, given, web>>
    BY <1>13 DEF EventFills
  <2>2. event' = Idle \/ event' = [event EXCEPT !.next = @ + 1]
    BY <1>13 DEF EventFills
  <2>3. event'.at # "state" /\ (event'.at = "fill" => event'.copy = event.copy)
    BY <2>1, <2>2, FillGoesOn DEF Idle, IInv
  <2> QED
    BY <2>1, <2>3 DEF OnlyGiven, Given, Good
<1>14. CASE Reboot
  <2>1. orders' = <<>> /\ UNCHANGED <<store, given>> /\ web'.at = "idle" /\ event'.at = "idle"
    BY <1>14 DEF Reboot, Idle
  <2> QED
    BY <2>1 DEF OnlyGiven, Given, Good
<1>15. CASE UNCHANGED vars
  BY <1>15, SameGiven DEF vars
<1>16. CASE EventReads
  BY <1>16, EventReadsLeaves, SameGiven
<1>17. CASE Thread
  <2>1. UNCHANGED <<web, event, given>> /\ (store' = store \/ store' = <<>>) /\ (orders' = orders \/ ThreadConnects)
    BY <1>17, ThreadLeaves
  <2>2. CASE orders' = orders
    BY <2>1, <2>2, EmptyGiven DEF OnlyGiven, Given, Good
  <2> QED
    BY <1>8, <2>1, <2>2
<1> QED
  BY <1>3, <1>4, <1>5, <1>6, <1>7, <1>9, <1>10, <1>11, <1>12, <1>13, <1>14, <1>15, <1>16, <1>17
     DEF Next, Web, DriverEvents, EventReads

\* A step that touches neither the candidates nor the driver's configuration.
LEMMA SameCandidates ==
  ASSUME CandidatesStand, given \subseteq given', UNCHANGED <<list, count, index, cfg>>, met' = met,
         web'.at \in {"password", "clear"} => web' = web,
         event'.at = "password" => event' = event,
         thread'.at = "password" => thread' = thread
  PROVE  CandidatesStand'
  BY DEF CandidatesStand, Undisturbed, Finds

\* The record of a pair that was given is that pair.
LEMMA GivenIsPair ==
  ASSUME given \subseteq Pairs, NEW pair \in given, NEW s, pair.ssid = s
  PROVE  [pair EXCEPT !.ssid = s] = pair
<1>1. pair \in Pairs
  OBVIOUS
<1> QED
  BY <1>1 DEF Pairs

\* connect_to_station_index takes a name: from here on the index stands for it, for
\* this task and every other.
LEMMA IndexesStand ==
  ASSUME CandidatesStand, NEW i \in Nat \ {0}, NEW others, Indexes(i, others),
         count \in 0..MaxCandidates, MaxCandidates \in Nat
  PROVE  /\ index' \in 1..MaxCandidates /\ met' \in BOOLEAN /\ (~met' => ~met)
         /\ ~met' /\ "password" \in others => index' = index
         /\ Named(i).at = "password" => index' \in 1..count /\ list[index'].ssid = Named(i).ssid
         /\ Named(i).at # "clear"
<1>1. met' \in BOOLEAN /\ (~met' => ~met) /\ (~met' /\ "password" \in others => index' = index)
  BY DEF CandidatesStand, Indexes
<1>2. CASE count = 0
  BY <1>1, <1>2 DEF CandidatesStand, Indexes, Named, Idle
<1>3. CASE count # 0
  <2>1. Looped(i) \in 1..count /\ index' = Looped(i)
    BY <1>3 DEF Looped, Indexes
  <2>2. Named(i) = [at |-> "password", ssid |-> list[Looped(i)].ssid]
    BY <1>3 DEF Named
  <2>3. Looped(i) \in 1..MaxCandidates
    BY <2>1
  <2> HIDE DEF Looped
  <2> QED
    BY <1>1, <2>1, <2>2, <2>3
<1> QED
  BY <1>2, <1>3

\* ... and the password: it is of the pair whose name was taken.
LEMMA ConfiguresGiven ==
  ASSUME CandidatesStand, given \subseteq Pairs, NEW task, task.at = "password", NEW others,
         Configures(task.ssid, others), ~met => Finds(task), count \in Nat
  PROVE  /\ met' \in BOOLEAN /\ (~met' => ~met)
         /\ ~met' => cfg' \in given
<1>1. met' \in BOOLEAN /\ (~met' => ~met) /\ cfg' = [list[index] EXCEPT !.ssid = task.ssid]
  BY DEF CandidatesStand, Configures
<1>2. ASSUME ~met PROVE cfg' \in given
  <2>1. list[index] \in given /\ list[index].ssid = task.ssid
    BY <1>2 DEF CandidatesStand, Undisturbed, Finds
  <2>2. [list[index] EXCEPT !.ssid = task.ssid] = list[index]
    BY <2>1, GivenIsPair
  <2> QED
    BY <1>1, <2>1, <2>2
<1> QED
  BY <1>1, <1>2

LEMMA RewritesAlone ==
  ASSUME CandidatesStand, NEW others, Rewrites(others)
  PROVE  /\ met' \in BOOLEAN /\ (~met' => ~met)
         /\ ~met' => "password" \notin others /\ "clear" \notin others
  BY DEF CandidatesStand, Rewrites, Writing

\* One step of one task: it takes a name, ...
LEMMA TakesName ==
  ASSUME CandidatesStand, NEW i \in Nat \ {0}, count \in 0..MaxCandidates, MaxCandidates \in Nat,
         UNCHANGED <<given, list, count, cfg>>,
         \/ web' = Named(i) /\ Indexes(i, {event.at, thread.at}) /\ UNCHANGED <<event, thread>>
         \/ event' = Named(i) /\ Indexes(i, {web.at, thread.at}) /\ UNCHANGED <<web, thread>>
         \/ thread' = Named(i) /\ Indexes(i, {web.at, event.at}) /\ UNCHANGED <<web, event>>
  PROVE  CandidatesStand'
<1>1. PICK others : Indexes(i, others)
  OBVIOUS
<1>2. index' \in 1..MaxCandidates /\ met' \in BOOLEAN /\ (~met' => ~met)
  BY <1>1, IndexesStand
<1>3. SUFFICES ASSUME ~met' PROVE Undisturbed'
  BY <1>2 DEF CandidatesStand
<1>4. Undisturbed
  BY <1>2, <1>3 DEF CandidatesStand
<1>5. ASSUME NEW task, Finds(task), task.at = "password" => index' = index
      PROVE  task.at = "password" => index' \in 1..count' /\ list'[index'].ssid = task.ssid
  BY <1>5 DEF Finds
<1>6. Named(i).at = "password" => index' \in 1..count' /\ list'[index'].ssid = Named(i).ssid
  BY <1>1, IndexesStand
<1>7. Named(i).at # "clear"
  BY <1>1, IndexesStand
<1>8. CASE web' = Named(i) /\ Indexes(i, {event.at, thread.at}) /\ UNCHANGED <<event, thread>>
  <2>1. event.at = "password" \/ thread.at = "password" => index' = index
    BY <1>3, <1>8, IndexesStand
  <2> QED
    BY <1>4, <1>5, <1>6, <1>7, <1>8, <2>1 DEF Undisturbed, Finds
<1>9. CASE event' = Named(i) /\ Indexes(i, {web.at, thread.at}) /\ UNCHANGED <<web, thread>>
  <2>1. web.at = "password" \/ thread.at = "password" => index' = index
    BY <1>3, <1>9, IndexesStand
  <2> QED
    BY <1>4, <1>5, <1>6, <1>7, <1>9, <2>1 DEF Undisturbed, Finds
<1>10. CASE thread' = Named(i) /\ Indexes(i, {web.at, event.at}) /\ UNCHANGED <<web, event>>
  <2>1. web.at = "password" \/ event.at = "password" => index' = index
    BY <1>3, <1>10, IndexesStand
  <2> QED
    BY <1>4, <1>5, <1>6, <1>7, <1>10, <2>1 DEF Undisturbed, Finds
<1> QED
  BY <1>8, <1>9, <1>10

\* ... or the password of the name it took.
LEMMA TakesPassword ==
  ASSUME CandidatesStand, given \subseteq Pairs, count \in Nat, UNCHANGED <<given, list, count, index>>,
         \/ /\ web.at = "password" /\ web' = Idle /\ UNCHANGED <<event, thread>>
            /\ Configures(web.ssid, {event.at, thread.at})
         \/ /\ event.at = "password" /\ event' = Idle /\ UNCHANGED <<web, thread>>
            /\ Configures(event.ssid, {web.at, thread.at})
         \/ /\ thread.at = "password" /\ thread' = Idle /\ UNCHANGED <<web, event>>
            /\ Configures(thread.ssid, {web.at, event.at})
  PROVE  CandidatesStand'
<1>1. PICK task \in {web, event, thread} : \E others : task.at = "password" /\ Configures(task.ssid, others)
  OBVIOUS
<1>2. ~met => Finds(task)
  BY <1>1 DEF CandidatesStand, Undisturbed
<1>3. met' \in BOOLEAN /\ (~met' => ~met) /\ (~met' => cfg' \in given)
  BY <1>1, <1>2, ConfiguresGiven
<1>4. Idle.at = "idle"
  BY DEF Idle
<1>5. {web'.at, event'.at, thread'.at} \subseteq {"idle", web.at, event.at, thread.at}
  BY <1>4
<1>6. /\ web'.at \in {"password", "clear"} => web' = web
      /\ event'.at = "password" => event' = event
      /\ thread'.at = "password" => thread' = thread
  BY <1>4
<1> QED
  BY <1>3, <1>6 DEF CandidatesStand, Undisturbed, Finds

LEMMA CandidatesStep ==
  ASSUME IInv, Lengths, OnlyGiven, CandidatesStand, [Next]_vars
  PROVE  CandidatesStand'
<1>1. /\ MaxCandidates \in Nat \ {0} /\ DOMAIN list = 1..MaxCandidates /\ count \in 0..MaxCandidates /\ count \in Nat
      /\ index \in 1..MaxCandidates /\ index \in Nat \ {0} /\ index + 1 \in Nat \ {0} /\ given \subseteq Pairs
  BY ConstantsFit DEF Lengths, CandidatesStand, OnlyGiven
<1>2. ASSUME NEW s \in Ssids, WebRemoves(s) \/ \E p \in Passwords : WebAdds(s, p)
      PROVE  CandidatesStand'
  <2>1. given \subseteq given' /\ UNCHANGED <<list, count, index, cfg, met, event, thread>>
    BY <1>2 DEF WebRemoves, WebAdds, candidates
  <2>2. web'.at \in {"add", "remove", "idle"}
    BY <1>2 DEF WebRemoves, WebAdds, Idle
  <2> QED
    BY <2>1, <2>2, SameCandidates
<1>3. CASE WebAddWrites \/ WebRemoveWrites \/ WebShows \/ WebLocks \/ WebShowsNext
  <2>1. UNCHANGED <<given, list, count, index, cfg, met, event, thread>>
    BY <1>3 DEF WebAddWrites, WebRemoveWrites, WebShows, WebLocks, WebShowsNext, candidates
  <2>2. web'.at \in {"connect", "idle", "forget", "lock", "show", "panic"} \/ web' = web
    BY <1>3 DEF WebAddWrites, AddFirst, AddAgain, AddNew, WebRemoveWrites, WebShows, WebLocks, WebShowsNext, Idle
  <2> QED
    BY <2>1, <2>2, SameCandidates
<1>4. CASE WebConnects \/ ThreadConnectsAny \/ EventDisconnected
  <2>1. UNCHANGED <<given, list, count, cfg>>
    BY <1>4 DEF WebConnects, ThreadConnectsAny, EventDisconnected
  <2>2. \/ web' = Named(1) /\ Indexes(1, {event.at, thread.at}) /\ UNCHANGED <<event, thread>>
        \/ event' = Named(1) /\ Indexes(1, {web.at, thread.at}) /\ UNCHANGED <<web, thread>>
        \/ thread' = Named(1) /\ Indexes(1, {web.at, event.at}) /\ UNCHANGED <<web, event>>
    BY <1>4 DEF WebConnects, ThreadConnectsAny, EventDisconnected
  <2>3. 1 \in Nat \ {0} /\ MaxCandidates \in Nat
    BY <1>1
  <2> QED
    BY <1>1, <2>1, <2>2, <2>3, TakesName
<1>5. CASE WebConnectsWith \/ ThreadConnectsWith \/ EventConnectsWith
  <2>1. UNCHANGED <<given, list, count, index>>
    BY <1>5 DEF WebConnectsWith, ThreadConnectsWith, EventConnectsWith
  <2>2. \/ /\ web.at = "password" /\ web' = Idle /\ UNCHANGED <<event, thread>>
           /\ Configures(web.ssid, {event.at, thread.at})
        \/ /\ event.at = "password" /\ event' = Idle /\ UNCHANGED <<web, thread>>
           /\ Configures(event.ssid, {web.at, thread.at})
        \/ /\ thread.at = "password" /\ thread' = Idle /\ UNCHANGED <<web, event>>
           /\ Configures(thread.ssid, {web.at, event.at})
    BY <1>5 DEF WebConnectsWith, ThreadConnectsWith, EventConnectsWith
  <2> QED
    BY <1>1, <2>1, <2>2, TakesPassword
<1>6. CASE EventMovesOn
  <2>1. event.at = "next" /\ UNCHANGED <<given, list, count, web, thread>>
    BY <1>6 DEF EventMovesOn
  <2>2. CASE event' = Named(index + 1) /\ Indexes(index + 1, {web.at, thread.at}) /\ UNCHANGED cfg
    BY <1>1, <2>1, <2>2, TakesName
  <2>3. CASE event' = Idle /\ cfg' = NoStation /\ UNCHANGED <<index, met>>
    BY <2>1, <2>3 DEF CandidatesStand, Undisturbed, Finds, Idle
  <2> QED
    BY <1>6, <2>2, <2>3 DEF EventMovesOn
<1>7. CASE WebForgets
  <2>1. /\ Rewrites({event.at, thread.at}) /\ count' = 0 /\ web'.at = "clear"
        /\ UNCHANGED <<given, list, index, cfg, event, thread>>
    BY <1>7 DEF WebForgets
  <2>2. met' \in BOOLEAN /\ (~met' => ~met /\ event.at # "password" /\ thread.at # "password")
    BY <2>1, RewritesAlone
  <2> QED
    BY <2>1, <2>2 DEF CandidatesStand, Undisturbed, Finds
<1>8. CASE WebClears
  <2>1. /\ Rewrites({event.at, thread.at}) /\ web.at = "clear" /\ web'.at = "idle" /\ cfg' = NoStation
        /\ UNCHANGED <<given, count, index, event, thread>>
    BY <1>8 DEF WebClears, Idle
  <2>2. met' \in BOOLEAN /\ (~met' => ~met /\ event.at # "password" /\ thread.at # "password")
    BY <2>1, RewritesAlone
  <2>3. ~met => count = 0
    BY <2>1 DEF CandidatesStand, Undisturbed
  <2> QED
    BY <2>1, <2>2, <2>3 DEF CandidatesStand, Undisturbed, Finds
<1>9. CASE ThreadConnects
  <2>1. UNCHANGED <<given, list, count, index, met, web, event, thread>> /\ orders # <<>> /\ cfg' = Head(orders)
    BY <1>9 DEF ThreadConnects, candidates
  <2>2. Head(orders) \in given
    <3>1. orders \in Seq(Pairs) /\ \A i \in 1..Len(orders) : orders[i] \in given
      BY DEF OnlyGiven
    <3>2. 1 \in 1..Len(orders) /\ Head(orders) = orders[1]
      BY <2>1, <3>1
    <3> QED
      BY <3>1, <3>2
  <2> QED
    BY <2>1, <2>2 DEF CandidatesStand, Undisturbed, Finds
<1>10. CASE ThreadForgets \/ ThreadClears
  <2>1. UNCHANGED <<given, list, count, index, met, web, event>> /\ thread'.at \in {"idle", "reset"}
    BY <1>10 DEF ThreadForgets, ThreadClears, candidates, Idle
  <2>2. cfg' \in {cfg, NoStation}
    BY <1>10 DEF ThreadForgets, ThreadClears
  <2> QED
    BY <2>1, <2>2 DEF CandidatesStand, Undisturbed, Finds
<1>11. ASSUME \/ \E s \in Ssids, state \in States \ {"new"} : EventSetsState(s, state)
              \/ EventStateWrites \/ EventScanDone \/ EventLocks \/ EventFails
       PROVE  CandidatesStand'
  <2>1. UNCHANGED <<given, list, count, index, cfg, met, web, thread>>
    BY <1>11 DEF EventSetsState, EventStateWrites, EventScanDone, EventLocks, EventFails, candidates
  <2>2. event'.at # "password"
    BY <1>11 DEF EventSetsState, EventStateWrites, EventScanDone, EventLocks, EventFails, After, Idle
  <2> QED
    BY <2>1, <2>2, SameCandidates
<1>12. CASE EventTakesScan
  <2>1. UNCHANGED <<given, list, index, cfg, web, thread>>
    BY <1>12 DEF EventTakesScan
  <2>2. PICK raw \in Scans : ScanGivesNothing(raw) \/ ScanGives(raw)
    BY <1>12 DEF EventTakesScan
  <2>3. event'.at # "password"
    BY <2>2 DEF ScanGives, ScanGivesNothing, Idle
  <2>4. CASE ScanGivesNothing(raw)
    <3>1. UNCHANGED <<count, met>>
      BY <2>4 DEF ScanGivesNothing
    <3> QED
      BY <2>1, <2>3, <3>1, SameCandidates
  <2>5. CASE ScanGives(raw)
    <3>1. Rewrites({web.at, thread.at}) /\ count' = 0
      BY <2>5 DEF ScanGives
    <3>2. met' \in BOOLEAN /\ (~met' => ~met /\ web.at # "password" /\ thread.at # "password")
      BY <3>1, RewritesAlone
    <3> QED
      BY <2>1, <2>3, <3>1, <3>2 DEF CandidatesStand, Undisturbed, Finds
  <2> QED
    BY <2>2, <2>4, <2>5
<1>13. CASE EventFills
  <2>1. /\ event.at = "fill" /\ UNCHANGED <<given, index, cfg, web, thread>>
        /\ Rewrites({web.at, thread.at})
    BY <1>13 DEF EventFills
  <2>2. met' \in BOOLEAN /\ (~met' => ~met /\ web.at \notin {"password", "clear"} /\ thread.at # "password")
    BY <2>1, RewritesAlone
  <2>3. event'.at # "password"
    <3>1. event' = Idle \/ event' = [event EXCEPT !.next = @ + 1]
      BY <1>13 DEF EventFills
    <3> QED
      BY <2>1, <3>1, FillGoesOn DEF Idle, IInv
  <2>4. SUFFICES ASSUME ~met' PROVE \A i \in 1..count' : list'[i] \in given
    BY <2>1, <2>2, <2>3 DEF CandidatesStand, Undisturbed, Finds
  <2>5. \A i \in 1..count : list[i] \in given
    BY <2>2, <2>4 DEF CandidatesStand, Undisturbed
  <2>6. ASSUME NEW s, Chosen(s), Lists(s) PROVE \A i \in 1..count' : list'[i] \in given
    <3> DEFINE k == At(event.copy, s)  pair == Station(s, event.copy[k].password)
    <3>1. count < MaxCandidates /\ Holds(event.copy, s) /\ Good(event.copy) /\ Given(event.copy)
      BY <2>1, <2>6 DEF Chosen, OnlyGiven
    <3>2. k \in DOMAIN event.copy /\ event.copy[k].ssid = s
      BY <3>1, AtFinds
    <3>3. pair \in given
      BY <3>1, <3>2 DEF Given
    <3>4. list' = [list EXCEPT ![count + 1] = pair] /\ count' = count + 1
      BY <2>6 DEF Lists
    <3> HIDE DEF pair
    <3>5. count + 1 \in 1..MaxCandidates
      BY <1>1, <3>1
    <3>6. list'[count + 1] = pair /\ \A i \in 1..count : list'[i] = list[i]
      BY <1>1, <3>4, <3>5
    <3>7. \A i \in 1..count' : i \in 1..count \/ i = count + 1
      BY <1>1, <3>4
    <3> QED
      BY <2>5, <3>3, <3>6, <3>7
  <2>7. (UNCHANGED <<list, count>>) \/ \E s : Chosen(s) /\ Lists(s)
    BY <1>13 DEF EventFills
  <2> QED
    BY <2>5, <2>6, <2>7
<1>14. CASE Reboot
  <2>1. /\ count' = 0 /\ index' = 1 /\ web'.at = "idle" /\ event'.at = "idle" /\ thread'.at = "idle"
        /\ UNCHANGED <<cfg, given, met>>
    BY <1>14 DEF Reboot, Idle
  <2> QED
    BY <1>1, <2>1 DEF CandidatesStand, Undisturbed, Finds
<1>15. CASE UNCHANGED vars
  BY <1>15, SameCandidates DEF vars, candidates
<1> QED
  BY <1>2, <1>3, <1>4, <1>5, <1>6, <1>7, <1>8, <1>9, <1>10, <1>11, <1>12, <1>13, <1>14, <1>15
     DEF Next, Web, DriverEvents, Thread

\* The lists and the candidates, beside the store and the mutex.
ListsInv ==
  /\ Places /\ mutex \in {"free", "web", "event"} /\ Lengths
  /\ OneScanShown /\ ShowsOneScan
  /\ OnlyGiven /\ CandidatesStand

LEMMA MutexMoves == [Next]_vars => mutex' \in {mutex, "free", "web", "event"}
<1>1. ASSUME Web PROVE mutex' \in {mutex, "free", "web"}
  BY <1>1 DEF Web, WebRemoves, WebAdds, WebAddWrites, WebConnects, WebConnectsWith, WebRemoveWrites, WebForgets,
     WebClears, WebShows, WebLocks, WebShowsNext
<1>2. ASSUME DriverEvents \/ Thread \/ Reboot \/ UNCHANGED vars PROVE mutex' \in {mutex, "free", "event"}
  BY <1>2, ThreadLeaves, EventReadsLeaves DEF DriverEvents, EventReads, EventSetsState, EventStateWrites, EventScanDone, EventLocks, EventTakesScan, EventFills,
     ScanGives, ScanGivesNothing, Reboot, vars
<1> QED
  BY <1>1, <1>2 DEF Next

LEMMA ListsInit == Init => ListsInv
<1> SUFFICES ASSUME Init PROVE ListsInv
  OBVIOUS
<1>1. /\ visible = [i \in 1..MaxAps |-> [ssid |-> Empty, scan |-> 0]] /\ found = 0 /\ shown = <<>> /\ orders = <<>>
      /\ list = [i \in 1..MaxCandidates |-> NoStation] /\ count = 0 /\ store = <<>> /\ given = {} /\ met = FALSE
      /\ cfg = NoStation /\ requests = 0 /\ events = 0 /\ fails = 0 /\ web.at = "idle" /\ event.at = "idle"
      /\ thread.at = "idle" /\ index = 1
  BY DEF Init, Ram, Idle
<1>2. Places
  BY <1>1, ConstantsFit DEF Places
<1>3. Lengths
  <2>1. [ssid |-> Empty, scan |-> 0] \in Aps
    BY ConstantsFit DEF Aps
  <2>2. visible \in [1..MaxAps -> Aps] /\ shown \in Seq(Aps)
    BY <1>1, <2>1
  <2>3. found \in 0..MaxAps /\ count \in 0..MaxCandidates /\ DOMAIN list = 1..MaxCandidates
    BY <1>1, ConstantsFit
  <2> QED
    BY <1>1, <2>2, <2>3 DEF Lengths
<1>4. OneScanShown /\ ShowsOneScan
  BY <1>1 DEF OneScanShown, OneScanVisible, FirstShown, ShowsOneScan
<1>5. OnlyGiven /\ CandidatesStand
  <2>1. given \subseteq Pairs /\ orders \in Seq(Pairs) /\ Len(orders) = 0
    BY <1>1
  <2>2. Given(store)
    BY <1>1, EmptyGiven
  <2>3. OnlyGiven
    BY <1>1, <2>1, <2>2 DEF OnlyGiven
  <2>4. cfg \in given \cup {NoStation} /\ met \in BOOLEAN
    BY <1>1
  <2>5. CandidatesStand
    <3>1. \A i \in 1..count : FALSE
      BY <1>1
    <3>2. index \in 1..MaxCandidates
      BY <1>1, ConstantsFit
    <3> QED
      BY <1>1, <2>4, <3>1, <3>2 DEF CandidatesStand, Undisturbed, Finds
  <2> QED
    BY <2>3, <2>4, <2>5
<1>6. mutex = "free"
  BY DEF Init, Ram
<1> QED
  BY <1>2, <1>3, <1>4, <1>5, <1>6 DEF ListsInv

LEMMA ListsStep ==
  ASSUME IInv, ListsInv, [Next]_vars
  PROVE  ListsInv'
<1>1. Places /\ Lengths /\ OneScanShown /\ ShowsOneScan /\ OnlyGiven /\ CandidatesStand
  BY DEF ListsInv
<1>2. Places' /\ Lengths'
  BY <1>1, PlacesStep, LengthsStep DEF IInv
<1>3. OneScanShown' /\ ShowsOneScan'
  BY <1>1, <1>2, OneScanShownStep, ShownStep
<1>4. OnlyGiven' /\ CandidatesStand'
  BY <1>1, OnlyGivenStep, CandidatesStep
<1>5. mutex' \in {"free", "web", "event"}
  BY MutexMoves DEF ListsInv
<1> QED
  BY <1>2, <1>3, <1>4, <1>5 DEF ListsInv
-----------------------------------------------------------------------------
(* Theorems.                                                               *)

THEOREM Invariance == Spec => []IInv
<1> QED
  BY InitInv, NextInv, PTL DEF Spec

\* Whatever the web server and the driver ask for, in whichever order their tasks
\* read and write the blob, whatever fails and whenever power goes: no station is
\* stored twice.
THEOREM NamesStayDistinct == Spec => []NamesOnce
<1>1. IInv => NamesOnce
  BY DEF IInv, Good, Once, NamesOnce
<1> QED
  BY <1>1, Invariance, PTL

\* The mutex of the visible access points is held exactly where the two tasks use
\* them, and free whenever both are done.
THEOREM MutexIsReleased == Spec => []MutexHeldInside
<1>1. IInv => MutexHeldInside
  BY DEF IInv
<1> QED
  BY <1>1, Invariance, PTL

\* The blob changes in no way but those of StationStore: a task puts, drops or marks one
\* station of those it read, however old its copy is by then, or erases all of them;
\* no other step, and no loss of power, changes any.
THEOREM Refinement == Spec => PromiseKept
<1>1. Init => Store!StoreInit
  BY DEF Init, Store!StoreInit, ToSet
<1> QED
  BY <1>1, Invariance, StepKeepsPromise, PTL DEF Spec, PromiseKept

LEMMA ListsCorrect == Spec => []ListsInv
<1>1. IInv /\ ListsInv /\ [Next]_vars => ListsInv'
  BY ListsStep
<1> QED
  BY <1>1, ListsInit, Invariance, PTL DEF Spec

\* The blob, the lists in RAM, the mutex and the three tasks keep their types and bounds:
\* nothing is written behind WILMA_VISIBLE_APS or WILMA_CONNECTION_LIST.
THEOREM TypeCorrect == Spec => []TypeOK
<1>1. IInv /\ ListsInv => TypeOK
  <2> SUFFICES ASSUME IInv, ListsInv PROVE TypeOK
    OBVIOUS
  <2>1. mutex \in {"free", "web", "event"}
    BY DEF ListsInv
  <2> QED
    BY <2>1 DEF TypeOK, IInv, Good, ListsInv, Places, Lengths, CandidatesStand
<1> QED
  BY <1>1, Invariance, ListsCorrect, PTL

\* An answer of the web server shows the access points of one scan, although each of
\* them is sent in a step of its own and the event task replaces them: the mutex covers
\* the answer from its first access point to its last.
THEOREM AnswersShowOneScan == Spec => []ShowsOneScan
<1>1. ListsInv => ShowsOneScan
  BY DEF ListsInv
<1> QED
  BY <1>1, ListsCorrect, PTL

\* The driver and the candidates only ever hold a name with a password that was given
\* for it, whichever task reads or rewrites the unguarded list, until two of the three
\* first meet over it: a reader and a writer, two writers, or two readers of different
\* candidates.
THEOREM CandidatesAreKnown == Spec => []CandidatesKnown
<1>1. ListsInv => CandidatesKnown
  BY DEF ListsInv, CandidatesStand, Undisturbed, CandidatesKnown
<1> QED
  BY <1>1, ListsCorrect, PTL

\* However many access points a scan sees, hidden or more than once under a name: what
\* the web server shows and what candidates are drawn from has each name once per
\* authentication mode, with its best strength, and the strongest first.
THEOREM ScansAreSorted == Spec => []ScanIsSorted
<1>1. IInv => ScanIsSorted
  <2> SUFFICES ASSUME IInv, event.at = "fill" PROVE ScanIsSorted
    BY DEF ScanIsSorted
  <2> DEFINE few == AtMostAps(event.raw)
  <2>1. event.raw \in Scans /\ event.records = FilterSortUnique(few)
    BY DEF IInv, EventHolds
  <2>2. few \in Seq(Records)
    BY <2>1, AtMostFits
  <2> HIDE DEF few
  <2>3. Presents(few, event.records)
    BY <2>1, <2>2, FilterPresents
  <2> QED
    BY <2>3 DEF Presents, ScanIsSorted, few
<1> QED
  BY <1>1, Invariance, PTL
=============================================================================
