---------------------------- MODULE TelnetProofs ----------------------------
(***************************************************************************)
(* Proofs about Telnet.  The library's induction theorems take an operator *)
(* as a parameter, which the provers cannot instantiate; Upwards is the    *)
(* same principle for a set, and everything here that goes over the bytes  *)
(* of a segment, the entries of option_defs or the length of a stream      *)
(* rests on it: first that the recursive functions exist and obey their    *)
(* equations, then what they compute, then what the engine says (OK) and   *)
(* at last what it has understood: after every byte it agrees with a       *)
(* reader of the whole stream (Stands, Agree, Follows).                    *)
(***************************************************************************)
EXTENDS Telnet, SequenceTheorems, WellFoundedInduction, TLAPS

-----------------------------------------------------------------------------
(* Induction, and the recursive functions of the library.                  *)

\* Induction over the natural numbers, for a set instead of a predicate.
LEMMA Upwards ==
  ASSUME NEW T, 0 \in T, \A n \in Nat : n \in T => n + 1 \in T
  PROVE  \A n \in Nat : n \in T
<1> DEFINE Out == Nat \ T
<1> SUFFICES ASSUME Out # {} PROVE FALSE
  OBVIOUS
<1>1. PICK m \in Out : \A y \in Out : <<y, m>> \notin OpToRel(<, Nat)
  BY NatLessThanWellFounded, WFMin
<1>2. m # 0 /\ m - 1 \in Nat
  OBVIOUS
<1>3. m - 1 \in Out
  BY <1>2
<1>4. <<m - 1, m>> \in OpToRel(<, Nat)
  BY <1>2 DEF OpToRel
<1> QED BY <1>1, <1>3, <1>4

LEMMA MaxIs ==
  ASSUME NEW S \in SUBSET Int, NEW m \in S, \A y \in S : m >= y
  PROVE  Max(S) = m
<1>1. \A x \in S : (\A y \in S : x >= y) => x = m
  OBVIOUS
<1> QED BY <1>1 DEF Max

\* FoldLeft(Byte, e, buf) takes the bytes one after the other.
LEMMA FoldBytes ==
  ASSUME NEW e, NEW buf \in Seq(0..255)
  PROVE  \E f : /\ f[0] = e
                /\ \A n \in 1..Len(buf) : f[n] = Byte(f[n - 1], buf[n])
                /\ FoldLeft(Byte, e, buf) = f[Len(buf)]
<1> DEFINE L == Len(buf)
           D == DOMAIN buf
           Step(g, u) == IF u = {} THEN e ELSE Byte(g[u \ {Max(u)}], buf[Max(u)])
           iter == CHOOSE g : g = [u \in SUBSET D |-> Step(g, u)]
           T == {k \in Nat : \E g : g = [u \in SUBSET (1..k) |-> Step(g, u)]}
<1>1. FoldLeft(Byte, e, buf) = iter[D]
  BY DEF FoldLeft, MapThenFoldSet
<1>2. D = 1..L /\ L \in Nat
  BY LenProperties
<1>3. 0 \in T
  <2> DEFINE g0 == [u \in SUBSET (1..0) |-> e]
  <2>1. \A u \in SUBSET (1..0) : u = {}
    OBVIOUS
  <2>2. g0 = [u \in SUBSET (1..0) |-> Step(g0, u)]
    BY <2>1
  <2> QED BY <2>2
<1>4. ASSUME NEW k \in Nat, k \in T PROVE k + 1 \in T
  <2>1. PICK g : g = [u \in SUBSET (1..k) |-> Step(g, u)]
    BY <1>4
  <2> DEFINE h == [u \in SUBSET (1..k + 1) |-> IF k + 1 \in u THEN Byte(g[u \ {k + 1}], buf[k + 1]) ELSE g[u]]
  <2>2. ASSUME NEW u \in SUBSET (1..k + 1) PROVE h[u] = Step(h, u)
    <3>1. CASE k + 1 \in u
      <4>1. Max(u) = k + 1
        BY <3>1, MaxIs
      <4>2. u \ {k + 1} \in SUBSET (1..k) /\ k + 1 \notin u \ {k + 1} /\ u \ {k + 1} \in SUBSET (1..k + 1)
        OBVIOUS
      <4>3. h[u \ {k + 1}] = g[u \ {k + 1}]
        BY <4>2
      <4> QED BY <3>1, <4>1, <4>3
    <3>2. CASE k + 1 \notin u
      <4>1. u \in SUBSET (1..k)
        BY <3>2
      <4>2. g[u] = Step(g, u)
        BY <2>1, <4>1
      <4>3. u \ {Max(u)} \in SUBSET (1..k + 1) /\ k + 1 \notin u \ {Max(u)}
        BY <3>2
      <4>4. h[u \ {Max(u)}] = g[u \ {Max(u)}]
        BY <4>3
      <4> QED BY <3>2, <4>2, <4>4
    <3> QED BY <3>1, <3>2
  <2>3. h = [u \in SUBSET (1..k + 1) |-> Step(h, u)]
    BY <2>2
  <2> HIDE DEF h, Step
  <2>4. \E x : x = [u \in SUBSET (1..k + 1) |-> Step(x, u)]
    BY <2>3
  <2> QED BY <2>4
<1>5. L \in T
  <2> HIDE DEF T
  <2> QED BY <1>2, <1>3, <1>4, Upwards
<1>6. iter = [u \in SUBSET D |-> Step(iter, u)]
  BY <1>2, <1>5
<1> DEFINE f == [n \in 0..L |-> iter[1..n]]
<1> HIDE DEF iter
<1>7. f[0] = e
  BY <1>2, <1>6
<1>8. ASSUME NEW n \in 1..L PROVE f[n] = Byte(f[n - 1], buf[n])
  <2>1. n \in 1..n /\ 1..n \in SUBSET (1..L) /\ n \in Int /\ n - 1 \in 0..L
    BY <1>2
  <2>2. Max(1..n) = n
    <3>1. 1..n \in SUBSET Int /\ \A y \in 1..n : n >= y
      BY <2>1
    <3> QED BY <2>1, <3>1, MaxIs
  <2>4. (1..n) \ {n} = 1..n - 1
    BY <2>1
  <2>3. iter[1..n] = Step(iter, 1..n)
    <3> HIDE DEF Step
    <3> QED BY <1>2, <1>6, <2>1
  <2> QED BY <1>2, <2>1, <2>2, <2>3, <2>4
<1>9. FoldLeft(Byte, e, buf) = f[L]
  BY <1>1, <1>2
<1> QED BY <1>7, <1>8, <1>9

LEMMA BelowNext == \A n, k \in Nat : n < k + 1 => n < k \/ n = k
  OBVIOUS

\* A function on D is defined by recursion when the value at s, S[<<s, f>>], depends on
\* the values of f at smaller arguments only, as m measures them.
UsesSmaller(D, V, m, S) ==
  \A s \in D : \A g, h \in [D -> V] :
    (\A t \in D : m[t] < m[s] => g[t] = h[t]) => S[<<s, g>>] = S[<<s, h>>]
Defined(D, V, S) == \E f \in [D -> V] : \A s \in D : f[s] = S[<<s, f>>]

LEMMA Recursion ==
  ASSUME NEW D, NEW V, V # {}, NEW m \in [D -> Nat], NEW S \in [D \X [D -> V] -> V],
         UsesSmaller(D, V, m, S)
  PROVE  Defined(D, V, S)
<1> DEFINE Good(k, g) == \A s \in D : m[s] < k => g[s] = S[<<s, g>>]
           Alike(k, g, h) == \A s \in D : m[s] < k => g[s] = h[s]
           T == {k \in Nat : /\ \E g \in [D -> V] : Good(k, g)
                             /\ \A g, h \in [D -> V] : Good(k, g) /\ Good(k, h) => Alike(k, g, h)}
<1>1. \A s \in D : m[s] \in Nat
  OBVIOUS
<1>2. ASSUME NEW s \in D, NEW g \in [D -> V], NEW h \in [D -> V], Alike(m[s], g, h)
      PROVE  S[<<s, g>>] = S[<<s, h>>]
  BY <1>2 DEF UsesSmaller
<1>3. 0 \in T
  <2>1. PICK v \in V : TRUE
    OBVIOUS
  <2>2. [s \in D |-> v] \in [D -> V] /\ Good(0, [s \in D |-> v])
    BY <1>1
  <2>3. \A g, h \in [D -> V] : Alike(0, g, h)
    BY <1>1
  <2> HIDE DEF Good, Alike
  <2> QED BY <2>2, <2>3
<1>4. ASSUME NEW k \in Nat, k \in T PROVE k + 1 \in T
  <2>1. PICK g \in [D -> V] : Good(k, g)
    BY <1>4
  <2> DEFINE h == [s \in D |-> IF m[s] = k THEN S[<<s, g>>] ELSE g[s]]
  <2>2. h \in [D -> V]
    OBVIOUS
  <2>3. ASSUME NEW s \in D, m[s] < k + 1 PROVE h[s] = S[<<s, h>>]
    <3>1. Alike(m[s], g, h)
      BY <1>1, <2>3
    <3>2. S[<<s, g>>] = S[<<s, h>>]
      <4> HIDE DEF Alike, h
      <4> QED BY <1>2, <2>2, <3>1
    <3>3. h[s] = S[<<s, g>>]
      BY <1>1, <2>1, <2>3
    <3> QED BY <3>2, <3>3
  <2>4. ASSUME NEW x \in [D -> V], NEW y \in [D -> V], Good(k + 1, x), Good(k + 1, y)
        PROVE  Alike(k + 1, x, y)
    <3>1. Good(k, x) /\ Good(k, y)
      BY <1>1, <2>4
    <3>2. Alike(k, x, y)
      <4> HIDE DEF Good, Alike
      <4> QED BY <1>4, <3>1
    <3>3. ASSUME NEW s \in D, m[s] < k + 1 PROVE x[s] = y[s]
      <4>1. CASE m[s] < k
        BY <3>2, <4>1
      <4>2. CASE m[s] = k
        <5>1. S[<<s, x>>] = S[<<s, y>>]
          <6> HIDE DEF Alike
          <6> QED BY <1>2, <3>2, <4>2
        <5>2. x[s] = S[<<s, x>>] /\ y[s] = S[<<s, y>>]
          BY <2>4, <3>3
        <5> QED BY <5>1, <5>2
      <4>3. m[s] < k \/ m[s] = k
        BY <1>1, <3>3, BelowNext, Zenon
      <4> QED BY <4>1, <4>2, <4>3
    <3> QED BY <3>3
  <2>5. Good(k + 1, h)
    BY <2>3
  <2> HIDE DEF Good, Alike, h
  <2> QED BY <2>2, <2>4, <2>5
<1>5. \A k \in Nat : k \in T
  <2> HIDE DEF T
  <2> QED BY <1>3, <1>4, Upwards
<1> DEFINE g(s) == CHOOSE g \in [D -> V] : Good(m[s] + 1, g)
           f == [s \in D |-> g(s)[s]]
<1>6. ASSUME NEW s \in D PROVE g(s) \in [D -> V] /\ Good(m[s] + 1, g(s))
  <2>1. m[s] + 1 \in T
    <3>1. m[s] + 1 \in Nat
      BY <1>1
    <3> HIDE DEF T
    <3> QED BY <1>5, <3>1
  <2> HIDE DEF Good
  <2>2. \E x \in [D -> V] : Good(m[s] + 1, x)
    BY <2>1
  <2> QED BY <2>2
<1> HIDE DEF g
<1>7. f \in [D -> V]
  BY <1>6
<1>8. ASSUME NEW s \in D PROVE f[s] = S[<<s, f>>]
  <2>1. ASSUME NEW t \in D, m[t] < m[s] PROVE f[t] = g(s)[t]
    <3>0. m[t] + 1 \in Nat /\ m[s] \in Nat /\ \A u \in D : m[u] < m[t] + 1 => m[u] < m[s] + 1
      BY <1>1, <2>1
    <3>1. Good(m[t] + 1, g(s))
      <4>1. Good(m[s] + 1, g(s))
        BY <1>6
      <4> QED BY <3>0, <4>1
    <3>2. Good(m[t] + 1, g(t)) /\ g(s) \in [D -> V] /\ g(t) \in [D -> V]
      BY <1>6
    <3>5. m[t] + 1 \in T
      <4> HIDE DEF T
      <4> QED BY <1>5, <3>0
    <3>3. Alike(m[t] + 1, g(t), g(s))
      <4> HIDE DEF Good, Alike
      <4> QED BY <3>1, <3>2, <3>5
    <3>4. g(t)[t] = g(s)[t]
      BY <1>1, <3>3
    <3> QED BY <3>4
  <2>2. Alike(m[s], f, g(s))
    BY <2>1
  <2>3. S[<<s, f>>] = S[<<s, g(s)>>]
    <3> HIDE DEF Alike, f
    <3> QED BY <1>2, <1>6, <1>7, <2>2
  <2>4. g(s)[s] = S[<<s, g(s)>>]
    <3>1. Good(m[s] + 1, g(s))
      BY <1>6
    <3>2. m[s] < m[s] + 1
      BY <1>1
    <3> QED BY <3>1, <3>2
  <2> QED BY <2>3, <2>4
<1> QED BY <1>7, <1>8 DEF Defined

-----------------------------------------------------------------------------
(* The option table.                                                       *)

Offered(e, i, option, command) ==
  IF option_defs[i].option = option THEN telnet_option_process_incoming(e, i, command) ELSE e

Offers(e, option) ==
  FoldLeftDomain(LAMBDA x, i : Offered(x, i, option, e.command), e, option_defs)

LEMMA OptionDefs ==
  /\ DOMAIN option_defs = 1..7 /\ Len(option_defs) = 7
  /\ option_defs[1] = OptionDef(1, "requested", TRUE, FALSE)
  /\ option_defs[2] = OptionDef(3, "requested", TRUE, FALSE)
  /\ option_defs[3] = OptionDef(3, "inactive", FALSE, FALSE)
  /\ option_defs[4] = OptionDef(0, "inactive", TRUE, FALSE)
  /\ option_defs[5] = OptionDef(0, "requested", FALSE, FALSE)
  /\ option_defs[6] = OptionDef(44, "requested", TRUE, TRUE)
  /\ option_defs[7] = OptionDef(44, "inactive", FALSE, TRUE)
  BY DEF option_defs, T_ECHO, T_SGA, T_BINARY, T_COM_PORT_OPTION

LEMMA OptionDefTypes ==
  ASSUME NEW i \in 1..7
  PROVE  LET d == option_defs[i]
         IN  /\ d.option \in 0..255 /\ (d.option = 44 <=> i \in {6, 7})
             /\ d.initial \in {"requested", "inactive"}
             /\ d.port \in BOOLEAN /\ (d.port <=> i \in {6, 7})
             /\ {d.send_yes, d.send_no, d.ack_yes, d.ack_no} \subseteq 251..254
             /\ d.ack_yes # d.ack_no
<1> DEFINE Fine == LET d == option_defs[i]
                   IN  /\ d.option \in 0..255 /\ (d.option = 44 <=> i \in {6, 7})
                       /\ d.initial \in {"requested", "inactive"}
                       /\ d.port \in BOOLEAN /\ (d.port <=> i \in {6, 7})
                       /\ {d.send_yes, d.send_no, d.ack_yes, d.ack_no} \subseteq 251..254
                       /\ d.ack_yes # d.ack_no
<1> SUFFICES Fine
  OBVIOUS
<1>1. CASE i = 1
  <2>1. option_defs[i] = OptionDef(1, "requested", TRUE, FALSE)
    BY <1>1, OptionDefs
  <2> QED BY <1>1, <2>1 DEF OptionDef, T_WILL, T_WONT, T_DO, T_DONT
<1>2. CASE i = 2
  <2>1. option_defs[i] = OptionDef(3, "requested", TRUE, FALSE)
    BY <1>2, OptionDefs
  <2> QED BY <1>2, <2>1 DEF OptionDef, T_WILL, T_WONT, T_DO, T_DONT
<1>3. CASE i = 3
  <2>1. option_defs[i] = OptionDef(3, "inactive", FALSE, FALSE)
    BY <1>3, OptionDefs
  <2> QED BY <1>3, <2>1 DEF OptionDef, T_WILL, T_WONT, T_DO, T_DONT
<1>4. CASE i = 4
  <2>1. option_defs[i] = OptionDef(0, "inactive", TRUE, FALSE)
    BY <1>4, OptionDefs
  <2> QED BY <1>4, <2>1 DEF OptionDef, T_WILL, T_WONT, T_DO, T_DONT
<1>5. CASE i = 5
  <2>1. option_defs[i] = OptionDef(0, "requested", FALSE, FALSE)
    BY <1>5, OptionDefs
  <2> QED BY <1>5, <2>1 DEF OptionDef, T_WILL, T_WONT, T_DO, T_DONT
<1>6. CASE i = 6
  <2>1. option_defs[i] = OptionDef(44, "requested", TRUE, TRUE)
    BY <1>6, OptionDefs
  <2> QED BY <1>6, <2>1 DEF OptionDef, T_WILL, T_WONT, T_DO, T_DONT
<1>7. CASE i = 7
  <2>1. option_defs[i] = OptionDef(44, "inactive", FALSE, TRUE)
    BY <1>7, OptionDefs
  <2> QED BY <1>7, <2>1 DEF OptionDef, T_WILL, T_WONT, T_DO, T_DONT
<1> HIDE DEF Fine
<1>8. i = 1 \/ i = 2 \/ i = 3 \/ i = 4 \/ i = 5 \/ i = 6 \/ i = 7
  OBVIOUS
<1> QED BY <1>1, <1>2, <1>3, <1>4, <1>5, <1>6, <1>7, <1>8

\* Likewise for what telnet_negotiate_option does with the entries of option_defs.
LEMMA FoldOptions ==
  ASSUME NEW e, NEW option
  PROVE  \E f : /\ f[0] = e
                /\ \A n \in 1..7 : f[n] = Offered(f[n - 1], n, option, e.command)
                /\ Offers(e, option) = f[7]
<1> DEFINE buf == [i \in DOMAIN option_defs |-> i]
           L == 7
           D == DOMAIN buf
           Step(g, u) == IF u = {} THEN e ELSE Offered(g[u \ {Max(u)}], buf[Max(u)], option, e.command)
           iter == CHOOSE g : g = [u \in SUBSET D |-> Step(g, u)]
           T == {k \in Nat : \E g : g = [u \in SUBSET (1..k) |-> Step(g, u)]}
<1>1. Offers(e, option) = iter[D]
  BY DEF Offers, FoldLeftDomain, FoldLeft, MapThenFoldSet
<1>2. D = 1..L /\ L \in Nat /\ \A i \in 1..L : buf[i] = i
  BY OptionDefs
<1>0. L = 7
  OBVIOUS
<1> HIDE DEF buf, L
<1>3. 0 \in T
  <2> DEFINE g0 == [u \in SUBSET (1..0) |-> e]
  <2>1. \A u \in SUBSET (1..0) : u = {}
    OBVIOUS
  <2>2. g0 = [u \in SUBSET (1..0) |-> Step(g0, u)]
    BY <2>1
  <2> QED BY <2>2
<1>4. ASSUME NEW k \in Nat, k \in T PROVE k + 1 \in T
  <2>1. PICK g : g = [u \in SUBSET (1..k) |-> Step(g, u)]
    BY <1>4
  <2> DEFINE h == [u \in SUBSET (1..k + 1) |-> IF k + 1 \in u THEN Offered(g[u \ {k + 1}], buf[k + 1], option, e.command) ELSE g[u]]
  <2>2. ASSUME NEW u \in SUBSET (1..k + 1) PROVE h[u] = Step(h, u)
    <3>1. CASE k + 1 \in u
      <4>1. Max(u) = k + 1
        BY <3>1, MaxIs
      <4>2. u \ {k + 1} \in SUBSET (1..k) /\ k + 1 \notin u \ {k + 1} /\ u \ {k + 1} \in SUBSET (1..k + 1)
        OBVIOUS
      <4>3. h[u \ {k + 1}] = g[u \ {k + 1}]
        BY <4>2
      <4> QED BY <3>1, <4>1, <4>3
    <3>2. CASE k + 1 \notin u
      <4>1. u \in SUBSET (1..k)
        BY <3>2
      <4>2. g[u] = Step(g, u)
        BY <2>1, <4>1
      <4>3. u \ {Max(u)} \in SUBSET (1..k + 1) /\ k + 1 \notin u \ {Max(u)}
        BY <3>2
      <4>4. h[u \ {Max(u)}] = g[u \ {Max(u)}]
        BY <4>3
      <4> QED BY <3>2, <4>2, <4>4
    <3> QED BY <3>1, <3>2
  <2>3. h = [u \in SUBSET (1..k + 1) |-> Step(h, u)]
    BY <2>2
  <2> HIDE DEF h, Step
  <2>4. \E x : x = [u \in SUBSET (1..k + 1) |-> Step(x, u)]
    BY <2>3
  <2> QED BY <2>4
<1>5. L \in T
  <2> HIDE DEF T
  <2> QED BY <1>2, <1>3, <1>4, Upwards
<1>6. iter = [u \in SUBSET D |-> Step(iter, u)]
  BY <1>2, <1>5
<1> DEFINE f == [n \in 0..L |-> iter[1..n]]
<1> HIDE DEF iter
<1>7. f[0] = e
  BY <1>2, <1>6
<1>8. ASSUME NEW n \in 1..L PROVE f[n] = Offered(f[n - 1], n, option, e.command)
  <2>1. n \in 1..n /\ 1..n \in SUBSET (1..L) /\ n \in Int /\ n - 1 \in 0..L
    BY <1>2
  <2>2. Max(1..n) = n
    <3>1. 1..n \in SUBSET Int /\ \A y \in 1..n : n >= y
      BY <2>1
    <3> QED BY <2>1, <3>1, MaxIs
  <2>4. (1..n) \ {n} = 1..n - 1
    BY <2>1
  <2>3. iter[1..n] = Step(iter, 1..n)
    <3> HIDE DEF Step
    <3> QED BY <1>2, <1>6, <2>1
  <2>6. buf[n] = n
    BY <1>2
  <2>5. iter[1..n] = Offered(iter[1..n - 1], n, option, e.command)
    BY <2>1, <2>2, <2>3, <2>4, <2>6
  <2> QED BY <1>2, <2>1, <2>5
<1>9. Offers(e, option) = f[L]
  BY <1>1, <1>2
<1>10. \E g : /\ g[0] = e
               /\ \A n \in 1..L : g[n] = Offered(g[n - 1], n, option, e.command)
               /\ Offers(e, option) = g[L]
  BY <1>7, <1>8, <1>9
<1> QED BY <1>0, <1>10

\* FlattenSeq(seqs) appends the sequences one after the other.
LEMMA Flattened ==
  ASSUME NEW S, NEW seqs \in Seq(Seq(S))
  PROVE  \E f : /\ f[0] = <<>>
                /\ \A i \in 1..Len(seqs) : f[i] = f[i - 1] \o seqs[i]
                /\ \A i \in 0..Len(seqs) : f[i] \in Seq(S)
                /\ FlattenSeq(seqs) = f[Len(seqs)]
<1> DEFINE L == Len(seqs)
           Step(g, i) == IF i = 1 THEN seqs[i] ELSE g[i - 1] \o seqs[i]
           flatten == CHOOSE g : g = [i \in 1..L |-> Step(g, i)]
           T == {k \in Nat : \E g : g = [i \in 1..k |-> Step(g, i)]}
           f == [i \in 0..L |-> IF i = 0 THEN <<>> ELSE flatten[i]]
<1>1. L \in Nat /\ DOMAIN seqs = 1..L /\ \A i \in 1..L : seqs[i] \in Seq(S)
  BY LenProperties, ElementOfSeq
<1>2. 0 \in T
  <2>1. [i \in 1..0 |-> 0] = [i \in 1..0 |-> Step([j \in 1..0 |-> 0], i)]
    OBVIOUS
  <2> QED BY <2>1
<1>3. ASSUME NEW k \in Nat, k \in T PROVE k + 1 \in T
  <2>1. PICK g : g = [i \in 1..k |-> Step(g, i)]
    BY <1>3
  <2> DEFINE h == [i \in 1..k + 1 |-> IF i = k + 1 THEN Step(g, i) ELSE g[i]]
  <2>2. ASSUME NEW i \in 1..k + 1 PROVE h[i] = Step(h, i)
    <3>1. CASE i = 1
      BY <2>1, <3>1
    <3>2. CASE i # 1
      <4>1. i - 1 \in 1..k /\ i - 1 \in 1..k + 1 /\ i - 1 # k + 1
        BY <3>2
      <4>2. h[i - 1] = g[i - 1]
        BY <4>1
      <4>3. g[i - 1] \o seqs[i] = h[i]
        <5>1. CASE i = k + 1
          BY <3>2, <5>1
        <5>2. CASE i # k + 1
          <6>1. i \in 1..k
            BY <5>2
          <6>2. g[i] = Step(g, i)
            <7> HIDE DEF Step
            <7> QED BY <2>1, <6>1
          <6> QED BY <3>2, <5>2, <6>2
        <5> QED BY <5>1, <5>2
      <4> QED BY <3>2, <4>2, <4>3
    <3> QED BY <3>1, <3>2
  <2>3. h = [i \in 1..k + 1 |-> Step(h, i)]
    BY <2>2
  <2> HIDE DEF h, Step
  <2>4. \E x : x = [i \in 1..k + 1 |-> Step(x, i)]
    BY <2>3
  <2> QED BY <2>4
<1>4. L \in T
  <2> HIDE DEF T
  <2> QED BY <1>1, <1>2, <1>3, Upwards
<1>5. flatten = [i \in 1..L |-> Step(flatten, i)]
  BY <1>4
<1>6. FlattenSeq(seqs) = f[L]
  <2>1. CASE L = 0
    <3>1. seqs = <<>>
      BY <2>1, EmptySeq
    <3> QED BY <2>1, <3>1 DEF FlattenSeq
  <2>2. CASE L # 0
    <3>1. FlattenSeq(seqs) = flatten[L]
      BY <2>2 DEF FlattenSeq
    <3> HIDE DEF flatten
    <3> QED BY <1>1, <2>2, <3>1
  <2> QED BY <2>1, <2>2
<1> HIDE DEF flatten
<1>7. f[0] = <<>>
  BY <1>1
<1>8. ASSUME NEW i \in 1..L PROVE f[i] = f[i - 1] \o seqs[i]
  <2>0. i \in 0..L /\ i - 1 \in 0..L /\ i # 0
    BY <1>1
  <2>1. f[i] = Step(flatten, i)
    <3>1. f[i] = flatten[i]
      BY <2>0
    <3> HIDE DEF Step
    <3> QED BY <1>5, <3>1
  <2>2. CASE i = 1
    <3>1. seqs[1] \in Seq(S) /\ f[1 - 1] = <<>>
      BY <1>1, <1>7, <2>2
    <3>2. f[1] = seqs[1]
      BY <2>1, <2>2
    <3> QED BY <2>2, <3>1, <3>2, ConcatEmptySeq
  <2>3. CASE i # 1
    <3>1. f[i - 1] = flatten[i - 1]
      BY <2>0, <2>3
    <3> QED BY <2>1, <2>3, <3>1
  <2> QED BY <2>2, <2>3
<1>9. \A i \in 0..L : f[i] \in Seq(S)
  <2> DEFINE U == {k \in Nat : k <= L => f[k] \in Seq(S)}
  <2> HIDE DEF f
  <2>1. 0 \in U
    BY <1>7, EmptySeq
  <2>2. ASSUME NEW k \in Nat, k \in U PROVE k + 1 \in U
    <3>1. SUFFICES ASSUME k + 1 <= L PROVE f[k + 1] \in Seq(S)
      OBVIOUS
    <3>2. k + 1 \in 1..L /\ k <= L /\ (k + 1) - 1 = k
      BY <1>1, <3>1
    <3>3. f[k] \in Seq(S) /\ seqs[k + 1] \in Seq(S)
      BY <1>1, <2>2, <3>2
    <3>4. f[k + 1] = f[k] \o seqs[k + 1]
      BY <1>8, <3>2
    <3> QED BY <3>3, <3>4, ConcatProperties
  <2>3. \A k \in Nat : k \in U
    <3> HIDE DEF U
    <3> QED BY <2>1, <2>2, Upwards
  <2> QED BY <1>1, <2>3
<1> HIDE DEF f
<1> QED BY <1>6, <1>7, <1>8, <1>9

LEMMA FlattenType ==
  ASSUME NEW S, NEW seqs \in Seq(Seq(S))
  PROVE  FlattenSeq(seqs) \in Seq(S)
<1>1. Len(seqs) \in 0..Len(seqs)
  BY LenProperties
<1> QED BY <1>1, Flattened

-----------------------------------------------------------------------------
(* The types of the engine.                                                *)

Bytes == 0..255
Said == [t : {"data"}, b : Bytes] \cup [t : {"neg"}, verb : Bytes, opt : Bytes] \cup [t : {"sub"}, p : Seq(Bytes)]
Logged == [t : {"data"}, b : Bytes] \cup [t : {"connected"}] \cup [t : {"baudrate"}, rate : Seq(Bytes)]
            \cup [t : {"control", "purge"}, v : Bytes]
Engine ==
  [mode : {"normal", "got_iac", "negotiate"}, command : {0} \cup 251..254, collecting : BOOLEAN,
   suboption : [1..SubSize -> Bytes], size : 0..SubSize,
   options : [1..7 -> {"requested", "active", "inactive"}], rfc2217 : BOOLEAN,
   buffer : Seq(Bytes), log : Seq(Logged), said : Seq(Said), wire : Seq(Bytes)]

\* Between two steps nothing waits in the buffer.
TypeInv ==
  /\ tn \in Engine /\ tn.buffer = <<>>
  /\ pipe \in Seq(Bytes) /\ seen \in Seq(Bytes)
  /\ cut \in BOOLEAN /\ online \in BOOLEAN /\ sends \in 0..MaxSends

LEMMA TypeInvIsTypeOK == TypeInv => TypeOK
  BY OptionDefs DEF TypeInv, TypeOK, Engine, Bytes, T_WILL, T_DONT

LEMMA EscapeSteps ==
  ASSUME NEW data \in Seq(Bytes)
  PROVE  \E f : /\ f[0] = <<>>
                /\ \A i \in 1..Len(data) :
                     f[i] = f[i - 1] \o (IF data[i] = T_IAC THEN <<T_IAC, T_IAC>> ELSE <<data[i]>>)
                /\ \A i \in 0..Len(data) : f[i] \in Seq(Bytes)
                /\ Escape(data) = f[Len(data)]
<1> DEFINE E(b) == IF b = T_IAC THEN <<T_IAC, T_IAC>> ELSE <<b>>
           seqs == [i \in DOMAIN data |-> E(data[i])]
<1>1. Len(data) \in Nat /\ DOMAIN data = 1..Len(data) /\ \A i \in 1..Len(data) : data[i] \in Bytes
  BY LenProperties, ElementOfSeq
<1>2. \A b \in Bytes : E(b) \in Seq(Bytes)
  <2>1. 255 \in Bytes
    BY DEF Bytes
  <2>2. ASSUME NEW b \in Bytes PROVE <<b>> \in Seq(Bytes) /\ <<255, 255>> \in Seq(Bytes)
    BY <2>1
  <2> QED BY <2>2 DEF T_IAC
<1> HIDE DEF E
<1>3. seqs \in Seq(Seq(Bytes)) /\ Len(seqs) = Len(data) /\ \A i \in 1..Len(data) : seqs[i] = E(data[i])
  BY <1>1, <1>2
<1>4. Escape(data) = FlattenSeq(seqs)
  BY DEF Escape, E
<1> HIDE DEF seqs
<1>5. PICK f : /\ f[0] = <<>>
               /\ \A i \in 1..Len(seqs) : f[i] = f[i - 1] \o seqs[i]
               /\ \A i \in 0..Len(seqs) : f[i] \in Seq(Bytes)
               /\ FlattenSeq(seqs) = f[Len(seqs)]
  BY <1>3, Flattened
<1>6. \A i \in 1..Len(data) : f[i] = f[i - 1] \o E(data[i])
  BY <1>3, <1>5
<1>7. f[0] = <<>> /\ (\A i \in 0..Len(data) : f[i] \in Seq(Bytes)) /\ Escape(data) = f[Len(data)]
  BY <1>3, <1>4, <1>5
<1> QED BY <1>6, <1>7 DEF E

LEMMA EscapeType ==
  ASSUME NEW data \in Seq(Bytes)
  PROVE  Escape(data) \in Seq(Bytes)
<1>1. Len(data) \in 0..Len(data)
  BY LenProperties
<1> QED BY <1>1, EscapeSteps

Told(e, w, m) == [e EXCEPT !.wire = w, !.said = m]

LEMMA WireChanged ==
  ASSUME NEW e \in Engine, NEW w \in Seq(Bytes), NEW m \in Seq(Said)
  PROVE  LET f == Told(e, w, m)
         IN  /\ f \in Engine /\ f.buffer = e.buffer /\ f.options = e.options /\ f.command = e.command
             /\ f.said = m /\ f.wire = w
  BY DEF Engine, Told

LEMMA LogChanged ==
  ASSUME NEW e \in Engine, NEW l \in Seq(Logged)
  PROVE  LET f == [e EXCEPT !.log = l]
         IN  /\ f \in Engine /\ f.buffer = e.buffer /\ f.options = e.options /\ f.command = e.command
             /\ f.said = e.said /\ f.wire = e.wire
  BY DEF Engine

LEMMA SendType ==
  ASSUME NEW e \in Engine, NEW bytes \in Seq(Bytes), NEW meaning \in Seq(Said)
  PROVE  /\ Send(e, bytes, meaning) \in Engine
         /\ Send(e, bytes, meaning).buffer = e.buffer
         /\ Send(e, bytes, meaning).options = e.options
         /\ Send(e, bytes, meaning).command = e.command
         /\ Send(e, bytes, meaning).said = e.said \o meaning
         /\ Send(e, bytes, meaning).wire = e.wire \o bytes
<1> DEFINE w == e.wire \o bytes
           m == e.said \o meaning
<1>1. w \in Seq(Bytes)
  BY ConcatProperties DEF Engine
<1>2. m \in Seq(Said)
  BY ConcatProperties DEF Engine
<1>3. Send(e, bytes, meaning) = Told(e, w, m)
  BY DEF Send, Engine, Told
<1>4. w = e.wire \o bytes /\ m = e.said \o meaning
  OBVIOUS
<1> HIDE DEF w, m
<1> DEFINE f == Told(e, w, m)
<1>5. f \in Engine /\ f.buffer = e.buffer
  BY <1>1, <1>2, WireChanged
<1>6. f.options = e.options /\ f.command = e.command
  BY <1>1, <1>2, WireChanged
<1>7. f.said = m /\ f.wire = w
  BY <1>1, <1>2, WireChanged
<1> QED BY <1>3, <1>4, <1>5, <1>6, <1>7

LEMMA CallType ==
  ASSUME NEW e \in Engine, NEW token \in Logged
  PROVE  /\ Call(e, token) \in Engine
         /\ Call(e, token).buffer = e.buffer
         /\ Call(e, token).options = e.options
         /\ Call(e, token).command = e.command
         /\ Call(e, token).said = e.said
         /\ Call(e, token).wire = e.wire
<1> DEFINE l == Append(e.log, token)
           f == [e EXCEPT !.log = l]
<1>1. l \in Seq(Logged)
  BY AppendProperties DEF Engine
<1>2. Call(e, token) = f
  BY DEF Call, Engine
<1> HIDE DEF l
<1>3. f \in Engine /\ f.buffer = e.buffer /\ f.options = e.options
  BY <1>1, LogChanged
<1>4. f.command = e.command /\ f.said = e.said /\ f.wire = e.wire
  BY <1>1, LogChanged
<1> HIDE DEF f
<1> QED BY <1>2, <1>3, <1>4

LEMMA SendOptionType ==
  ASSUME NEW e \in Engine, NEW action \in Bytes, NEW option \in Bytes
  PROVE  LET f == telnet_send_option(e, action, option)
         IN  /\ f \in Engine /\ f.buffer = e.buffer /\ f.options = e.options /\ f.command = e.command
             /\ f.said = e.said \o <<Neg(action, option)>>
             /\ f.wire = e.wire \o <<T_IAC, action, option>>
<1>1. <<T_IAC, action, option>> \in Seq(Bytes)
  <2>1. 255 \in Bytes
    BY DEF Bytes
  <2> QED BY <2>1 DEF T_IAC
<1>2. <<Neg(action, option)>> \in Seq(Said)
  <2>1. Neg(action, option) \in Said
    BY DEF Neg, Said
  <2> QED BY <2>1
<1> QED BY <1>1, <1>2, SendType DEF telnet_send_option

LEMMA ClientOkType ==
  ASSUME NEW e \in Engine
  PROVE  LET f == on_client_ok(e)
         IN  /\ f \in Engine /\ f.buffer = e.buffer /\ f.options = e.options /\ f.command = e.command
             /\ f.said = e.said /\ f.wire = e.wire
<1> DEFINE g == [e EXCEPT !.rfc2217 = TRUE]
<1>1. g \in Engine /\ g.buffer = e.buffer /\ g.options = e.options /\ g.command = e.command
      /\ g.said = e.said /\ g.wire = e.wire
  BY DEF Engine
<1>2. [t |-> "connected"] \in Logged
  BY DEF Logged
<1> HIDE DEF g
<1>3. CASE e.rfc2217
  BY <1>3 DEF on_client_ok
<1>4. CASE ~e.rfc2217
  <2>1. on_client_ok(e) = Call(g, [t |-> "connected"])
    BY <1>4 DEF on_client_ok, g
  <2> QED BY <1>1, <1>2, <2>1, CallType
<1> QED BY <1>3, <1>4

-----------------------------------------------------------------------------
(* The recursive functions that read a stream obey their equations.        *)

LEMMA RestType ==
  ASSUME NEW s \in Seq(Bytes), NEW n \in 0..Len(s)
  PROVE  /\ Rest(s, n) \in Seq(Bytes) /\ Len(Rest(s, n)) = Len(s) - n
         /\ \A i \in 1..Len(s) - n : Rest(s, n)[i] = s[n + i]
<1>1. Len(s) \in Nat /\ \A i \in n + 1..Len(s) : s[i] \in Bytes
  BY LenProperties, ElementOfSeq
<1>2. /\ SubSeq(s, n + 1, Len(s)) \in Seq(Bytes)
      /\ Len(SubSeq(s, n + 1, Len(s))) = IF n + 1 <= Len(s) THEN Len(s) - (n + 1) + 1 ELSE 0
      /\ \A i \in 1..Len(s) - (n + 1) + 1 : SubSeq(s, n + 1, Len(s))[i] = s[(n + 1) + i - 1]
  BY <1>1, SubSeqProperties
<1> DEFINE r == SubSeq(s, n + 1, Len(s))
<1> HIDE DEF r
<1>3. r \in Seq(Bytes) /\ Len(r) = Len(s) - n
  BY <1>1, <1>2 DEF r
<1>4. \A i \in 1..Len(s) - n : r[i] = s[n + i]
  BY <1>1, <1>2 DEF r
<1> QED BY <1>3, <1>4 DEF Rest, r

LEMMA NotEnded ==
  ASSUME NEW s \in Seq(Bytes), ~EndsAt(s)
  PROVE  /\ Len(s) \in Nat /\ 1 \in 1..Len(s) /\ s[1] \in Bytes
         /\ s[1] = 255 => 2 \in 1..Len(s) /\ s[2] \in Bytes
         /\ \A n \in 1..Len(s) : Len(Rest(s, n)) < Len(s)
<1>1. Len(s) \in Nat /\ Len(s) # 0
  BY EmptySeq, LenProperties DEF EndsAt
<1>2. 1 \in 1..Len(s) /\ s[1] \in Bytes
  BY <1>1, ElementOfSeq
<1>3. ASSUME s[1] = 255 PROVE 2 \in 1..Len(s) /\ s[2] \in Bytes
  <2>1. Len(s) # 1
    <3>1. SUFFICES ASSUME Len(s) = 1 PROVE s = <<255>>
      BY DEF EndsAt, T_IAC
    <3>2. <<255>> \in Seq(Bytes) /\ Len(<<255>>) = 1 /\ <<255>>[1] = 255
      BY DEF Bytes
    <3>3. \A i \in 1..Len(s) : s[i] = <<255>>[i]
      BY <1>3, <3>1, <3>2
    <3> QED BY <3>1, <3>2, <3>3, SeqEqual
  <2>2. 2 \in 1..Len(s)
    <3> DEFINE L == Len(s)
    <3>1. L \in Nat /\ L # 0 /\ L # 1
      BY <1>1, <2>1
    <3> HIDE DEF L
    <3>2. 2 \in 1..L
      BY <3>1
    <3> QED BY <3>2 DEF L
  <2> QED BY <2>2, ElementOfSeq
<1>4. \A n \in 1..Len(s) : Len(Rest(s, n)) < Len(s)
  BY <1>1, RestType
<1> QED BY <1>1, <1>2, <1>3, <1>4

Endings == [p : Seq(Bytes), is : {"open", "sub", "odd"}, rest : Seq(Bytes)]
InsideStep(g, s) ==
  IF EndsAt(s) THEN [p |-> <<>>, is |-> "open", rest |-> <<>>]
  ELSE IF s[1] = T_IAC /\ s[2] # T_IAC
       THEN [p |-> <<>>, is |-> IF s[2] = T_SE THEN "sub" ELSE "odd", rest |-> Rest(s, 2)]
  ELSE LET more == g[Rest(s, IF s[1] = T_IAC THEN 2 ELSE 1)]
       IN  [more EXCEPT !.p = <<s[1]>> \o @]

LEMMA InsideGoesOn ==
  ASSUME NEW s \in Seq(Bytes), ~EndsAt(s)
  PROVE  LET n == IF s[1] = T_IAC THEN 2 ELSE 1
         IN  Rest(s, n) \in Seq(Bytes) /\ Len(Rest(s, n)) < Len(s)
  BY NotEnded, RestType DEF T_IAC

LEMMA InsideStepType ==
  ASSUME NEW s \in Seq(Bytes), NEW g,
         ~EndsAt(s) => g[Rest(s, IF s[1] = T_IAC THEN 2 ELSE 1)] \in Endings
  PROVE  InsideStep(g, s) \in Endings
<1>1. CASE EndsAt(s)
  BY <1>1, EmptySeq DEF InsideStep, Endings
<1>2. CASE ~EndsAt(s) /\ s[1] = T_IAC /\ s[2] # T_IAC
  <2>1. 2 \in 0..Len(s)
    BY <1>2, NotEnded DEF T_IAC
  <2>2. Rest(s, 2) \in Seq(Bytes)
    BY <2>1, RestType
  <2> QED BY <1>2, <2>2, EmptySeq DEF InsideStep, Endings
<1>3. CASE ~EndsAt(s) /\ ~(s[1] = T_IAC /\ s[2] # T_IAC)
  <2> DEFINE more == g[Rest(s, IF s[1] = T_IAC THEN 2 ELSE 1)]
  <2>1. more \in Endings
    BY <1>3, InsideGoesOn
  <2>2. InsideStep(g, s) = [more EXCEPT !.p = <<s[1]>> \o more.p]
    BY <1>3, <2>1 DEF InsideStep, Endings
  <2> HIDE DEF more
  <2>3. <<s[1]>> \o more.p \in Seq(Bytes)
    <3>1. <<s[1]>> \in Seq(Bytes) /\ more.p \in Seq(Bytes)
      BY <1>3, <2>1, NotEnded DEF Endings
    <3> QED BY <3>1, ConcatProperties
  <2> QED BY <2>1, <2>2, <2>3 DEF Endings
<1> QED BY <1>1, <1>2, <1>3

LEMMA InsideDef ==
  Inside \in [Seq(Bytes) -> Endings] /\ \A s \in Seq(Bytes) : Inside[s] = InsideStep(Inside, s)
<1> DEFINE D == Seq(Bytes)
           m == [s \in D |-> Len(s)]
           S == [x \in D \X [D -> Endings] |-> InsideStep(x[2], x[1])]
<1>1. m \in [D -> Nat]
  BY LenProperties
<1>2. S \in [D \X [D -> Endings] -> Endings]
  <2>1. \A s \in D : \A g \in [D -> Endings] : InsideStep(g, s) \in Endings
    BY InsideGoesOn, InsideStepType
  <2> QED BY <2>1
<1>3. \A s \in D : \A g, h \in [D -> Endings] :
        (\A t \in D : m[t] < m[s] => g[t] = h[t]) => InsideStep(g, s) = InsideStep(h, s)
  <2> SUFFICES ASSUME NEW s \in D, NEW g \in [D -> Endings], NEW h \in [D -> Endings],
                      \A t \in D : m[t] < m[s] => g[t] = h[t]
               PROVE  InsideStep(g, s) = InsideStep(h, s)
    OBVIOUS
  <2>1. ASSUME ~EndsAt(s) PROVE g[Rest(s, IF s[1] = T_IAC THEN 2 ELSE 1)] = h[Rest(s, IF s[1] = T_IAC THEN 2 ELSE 1)]
    BY <2>1, InsideGoesOn
  <2> QED BY <2>1 DEF InsideStep
<1>4. UsesSmaller(D, Endings, m, S)
  BY <1>3 DEF UsesSmaller
<1>5. Endings # {}
  <2>1. [p |-> <<>>, is |-> "open", rest |-> <<>>] \in Endings
    BY EmptySeq DEF Endings
  <2> QED BY <2>1
<1>6. Defined(D, Endings, S)
  <2> HIDE DEF D, m, S
  <2> QED BY <1>1, <1>2, <1>4, <1>5, Recursion
<1>7. PICK f \in [D -> Endings] : \A s \in D : f[s] = InsideStep(f, s)
  BY <1>6 DEF Defined
<1>8. f = [s \in D |-> InsideStep(f, s)]
  <2> HIDE DEF D
  <2> QED BY <1>7
<1>9. Inside = CHOOSE g : g = [s \in D |-> InsideStep(g, s)]
  BY DEF Inside, InsideStep, Bytes
<1>10. Inside = [s \in D |-> InsideStep(Inside, s)]
  <2> HIDE DEF D
  <2> QED BY <1>8, <1>9
<1>11. \A s \in D : Inside[s] = InsideStep(Inside, s)
  BY <1>10
<1> DEFINE U == {k \in Nat : \A s \in D : m[s] < k => Inside[s] \in Endings}
<1>12. 0 \in U
  BY <1>1
<1>13. ASSUME NEW k \in Nat, k \in U PROVE k + 1 \in U
  <2>1. ASSUME NEW s \in D, m[s] < k + 1 PROVE Inside[s] \in Endings
    <3>1. ASSUME ~EndsAt(s) PROVE Inside[Rest(s, IF s[1] = T_IAC THEN 2 ELSE 1)] \in Endings
      <4> DEFINE r == Rest(s, IF s[1] = T_IAC THEN 2 ELSE 1)
      <4>1. r \in D /\ m[r] < m[s] /\ m[r] \in Nat /\ m[s] \in Nat
        BY <1>1, <3>1, InsideGoesOn
      <4>2. m[r] < k
        BY <2>1, <4>1
      <4> QED BY <1>13, <4>1, <4>2
    <3> QED BY <1>11, <3>1, InsideStepType
  <2> QED BY <2>1
<1>14. ASSUME NEW s \in D PROVE Inside[s] \in Endings
  <2>1. m[s] + 1 \in Nat /\ m[s] < m[s] + 1
    BY <1>1
  <2>2. m[s] + 1 \in U
    <3> HIDE DEF U
    <3> QED BY <1>12, <1>13, <2>1, Upwards
  <2> QED BY <2>1, <2>2
<1>15. Inside \in [D -> Endings]
  <2> HIDE DEF D
  <2> QED BY <1>10, <1>14
<1> QED BY <1>11, <1>15

\* What follows a suboption is no longer than the stream it was read from.
LEMMA InsideShorter ==
  \A s \in Seq(Bytes) : Inside[s].rest \in Seq(Bytes) /\ Len(Inside[s].rest) <= Len(s)
<1> DEFINE U == {k \in Nat : \A s \in Seq(Bytes) : Len(s) < k => Len(Inside[s].rest) <= Len(s)}
<1>1. \A s \in Seq(Bytes) : Len(s) \in Nat
  BY LenProperties
<1>2. \A s \in Seq(Bytes) : Inside[s] \in Endings
  BY InsideDef
<1>3. 0 \in U
  BY <1>1
<1>4. ASSUME NEW k \in Nat, k \in U PROVE k + 1 \in U
  <2>1. ASSUME NEW s \in Seq(Bytes), Len(s) < k + 1 PROVE Len(Inside[s].rest) <= Len(s)
    <3>0. Inside[s] = InsideStep(Inside, s)
      BY InsideDef
    <3>1. CASE EndsAt(s)
      <4>1. Inside[s].rest = <<>>
        BY <3>0, <3>1 DEF InsideStep
      <4> QED BY <1>1, <4>1, EmptySeq
    <3>2. CASE ~EndsAt(s) /\ s[1] = T_IAC /\ s[2] # T_IAC
      <4>1. Inside[s].rest = Rest(s, 2)
        BY <3>0, <3>2 DEF InsideStep
      <4>2. 2 \in 1..Len(s)
        BY <3>2, NotEnded DEF T_IAC
      <4>3. Len(Rest(s, 2)) < Len(s) /\ Rest(s, 2) \in Seq(Bytes)
        BY <3>2, <4>2, NotEnded, RestType
      <4> QED BY <1>1, <4>1, <4>3
    <3>3. CASE ~EndsAt(s) /\ ~(s[1] = T_IAC /\ s[2] # T_IAC)
      <4> DEFINE r == Rest(s, IF s[1] = T_IAC THEN 2 ELSE 1)
                 more == Inside[r]
      <4>1. r \in Seq(Bytes) /\ Len(r) < Len(s)
        BY <3>3, InsideGoesOn
      <4>2. Inside[s] = [more EXCEPT !.p = <<s[1]>> \o more.p]
        BY <1>2, <3>0, <3>3, <4>1 DEF InsideStep, Endings
      <4> HIDE DEF r
      <4>3. more \in Endings
        BY <1>2, <4>1
      <4> HIDE DEF more
      <4>4. Inside[s].rest = more.rest
        BY <4>2, <4>3 DEF Endings
      <4>5. Len(r) \in Nat /\ Len(s) \in Nat
        BY <1>1, <4>1
      <4>6. Len(r) < k
        BY <2>1, <4>1, <4>5
      <4>7. Len(more.rest) <= Len(r)
        BY <1>4, <4>1, <4>6 DEF more
      <4>8. Len(more.rest) \in Nat
        BY <1>1, <4>3 DEF Endings
      <4> QED BY <4>1, <4>4, <4>5, <4>7, <4>8
    <3> QED BY <3>1, <3>2, <3>3
  <2> QED BY <2>1
<1>5. ASSUME NEW s \in Seq(Bytes) PROVE Len(Inside[s].rest) <= Len(s)
  <2>1. Len(s) + 1 \in Nat /\ Len(s) < Len(s) + 1
    BY <1>1
  <2>2. Len(s) + 1 \in U
    <3> HIDE DEF U
    <3> QED BY <1>3, <1>4, <2>1, Upwards
  <2> QED BY <2>1, <2>2
<1> QED BY <1>2, <1>5 DEF Endings

Tokens == Said \cup [t : {"open"}, p : Seq(Bytes)] \cup [t : {"odd", "stray", "command"}]
ReadStep(g, s) ==
  IF EndsAt(s) THEN <<>>
  ELSE IF s[1] # T_IAC THEN <<DataToken(s[1])>> \o g[Rest(s, 1)]
  ELSE CASE s[2] = T_IAC -> <<DataToken(T_IAC)>> \o g[Rest(s, 2)]
         [] s[2] \in T_WILL..T_DONT ->
              IF Len(s) = 2 THEN <<>> ELSE <<Neg(s[2], s[3])>> \o g[Rest(s, 3)]
         [] s[2] = T_SB ->
              LET sub == Inside[Rest(s, 2)]
              IN  IF sub.is = "sub" THEN <<Sub(sub.p)>> \o g[sub.rest]
                  ELSE IF sub.is = "open" THEN <<Open(sub.p)>> ELSE <<Odd>>
         [] s[2] = T_SE -> <<Stray>> \o g[Rest(s, 2)]
         [] OTHER -> <<Command>> \o g[Rest(s, 2)]

\* Whatever Read makes of s are some tokens, and perhaps what it makes of a shorter stream.
ReadAlone(s, tokens) == \A g : ReadStep(g, s) = tokens
ReadOn(s, tokens, t) == \A g : ReadStep(g, s) = tokens \o g[t]

LEMMA ReadShape ==
  ASSUME NEW s \in Seq(Bytes)
  PROVE  \/ \E tokens \in Seq(Tokens) : ReadAlone(s, tokens)
         \/ \E tokens \in Seq(Tokens), t \in Seq(Bytes) : Len(t) < Len(s) /\ ReadOn(s, tokens, t)
<1> DEFINE OnGoing == \E tokens \in Seq(Tokens), t \in Seq(Bytes) : Len(t) < Len(s) /\ ReadOn(s, tokens, t)
<1>1. \A x \in Tokens : <<x>> \in Seq(Tokens)
  OBVIOUS
<1>2. \A b \in Bytes : DataToken(b) \in Tokens
  BY DEF Tokens, Said, DataToken
<1>3. CASE EndsAt(s)
  <2>1. ReadAlone(s, <<>>)
    BY <1>3 DEF ReadAlone, ReadStep
  <2> QED BY <2>1, EmptySeq
<1>4. ASSUME ~EndsAt(s), NEW n \in 1..Len(s), NEW x \in Tokens, \A g : ReadStep(g, s) = <<x>> \o g[Rest(s, n)]
      PROVE  OnGoing
  <2>1. Rest(s, n) \in Seq(Bytes) /\ Len(Rest(s, n)) < Len(s)
    BY <1>4, NotEnded, RestType
  <2>2. ReadOn(s, <<x>>, Rest(s, n))
    BY <1>4 DEF ReadOn
  <2> QED BY <1>1, <2>1, <2>2
<1>5. CASE ~EndsAt(s) /\ s[1] # T_IAC
  <2>1. 1 \in 1..Len(s) /\ DataToken(s[1]) \in Tokens
    BY <1>2, <1>5, NotEnded
  <2>2. \A g : ReadStep(g, s) = <<DataToken(s[1])>> \o g[Rest(s, 1)]
    BY <1>5 DEF ReadStep
  <2> QED BY <1>4, <1>5, <2>1, <2>2
<1>6. CASE ~EndsAt(s) /\ s[1] = T_IAC
  <2>1. 2 \in 1..Len(s) /\ s[2] \in Bytes /\ Len(s) \in Nat
    BY <1>6, NotEnded DEF T_IAC
  <2>2. CASE s[2] = T_IAC
    <3>1. DataToken(T_IAC) \in Tokens
      BY <1>2, <2>1, <2>2
    <3>0. s[2] \notin T_WILL..T_DONT /\ s[2] # T_SB /\ s[2] # T_SE
      BY <2>2 DEF T_WILL, T_DONT, T_IAC, T_SB, T_SE
    <3>2. \A g : ReadStep(g, s) = <<DataToken(T_IAC)>> \o g[Rest(s, 2)]
      BY <1>6, <2>2, <3>0 DEF ReadStep
    <3> QED BY <1>4, <1>6, <2>1, <3>1, <3>2
  <2>3. CASE s[2] \in T_WILL..T_DONT
    <3>0. s[2] # T_IAC /\ s[2] # T_SB /\ s[2] # T_SE
      BY <2>3 DEF T_WILL, T_DONT, T_IAC, T_SB, T_SE
    <3>1. CASE Len(s) = 2
      <4>1. ReadAlone(s, <<>>)
        BY <1>6, <2>3, <3>0, <3>1 DEF ReadAlone, ReadStep
      <4> QED BY <4>1, EmptySeq
    <3>2. CASE Len(s) # 2
      <4>1. 3 \in 1..Len(s)
        <5> DEFINE n == Len(s)
        <5>1. n \in Nat /\ 2 \in 1..n /\ n # 2
          BY <2>1, <3>2
        <5> HIDE DEF n
        <5>2. 3 \in 1..n
          BY <5>1
        <5> QED BY <5>2 DEF n
      <4>2. s[3] \in Bytes
        BY <4>1, ElementOfSeq
      <4>3. Neg(s[2], s[3]) \in Tokens
        BY <2>1, <4>2 DEF Tokens, Said, Neg
      <4>4. \A g : ReadStep(g, s) = <<Neg(s[2], s[3])>> \o g[Rest(s, 3)]
        BY <1>6, <2>3, <3>0, <3>2 DEF ReadStep
      <4> QED BY <1>4, <1>6, <4>1, <4>3, <4>4
    <3> QED BY <3>1, <3>2
  <2>4. CASE s[2] = T_SB
    <3>0. s[2] # T_IAC /\ s[2] \notin T_WILL..T_DONT /\ s[2] # T_SE
      BY <2>4 DEF T_WILL, T_DONT, T_IAC, T_SB, T_SE
    <3> DEFINE sub == Inside[Rest(s, 2)]
    <3>1. Rest(s, 2) \in Seq(Bytes) /\ Len(Rest(s, 2)) < Len(s)
      BY <1>6, <2>1, NotEnded, RestType
    <3>2. sub \in Endings
      BY <3>1, InsideDef
    <3>3. sub.rest \in Seq(Bytes) /\ Len(sub.rest) <= Len(Rest(s, 2))
      BY <3>1, InsideShorter
    <3>4. Len(sub.rest) \in Nat /\ Len(Rest(s, 2)) \in Nat
      BY <3>1, <3>3, LenProperties
    <3>5. Len(sub.rest) < Len(s)
      BY <2>1, <3>1, <3>3, <3>4
    <3>6. CASE sub.is = "sub"
      <4>1. Sub(sub.p) \in Tokens
        BY <3>2 DEF Tokens, Said, Sub, Endings
      <4>2. ReadOn(s, <<Sub(sub.p)>>, sub.rest)
        BY <1>6, <2>4, <3>0, <3>6 DEF ReadOn, ReadStep
      <4> QED BY <1>1, <3>3, <3>5, <4>1, <4>2
    <3>7. CASE sub.is # "sub"
      <4> DEFINE x == IF sub.is = "open" THEN Open(sub.p) ELSE Odd
      <4>1. x \in Tokens
        BY <3>2 DEF Tokens, Open, Odd, Endings
      <4>2. ReadAlone(s, <<x>>)
        BY <1>6, <2>4, <3>0, <3>7 DEF ReadAlone, ReadStep
      <4> HIDE DEF x
      <4> QED BY <1>1, <4>1, <4>2
    <3> QED BY <3>6, <3>7
  <2>5. CASE s[2] = T_SE
    <3>0. s[2] # T_IAC /\ s[2] \notin T_WILL..T_DONT /\ s[2] # T_SB
      BY <2>5 DEF T_WILL, T_DONT, T_IAC, T_SB, T_SE
    <3>1. Stray \in Tokens
      BY DEF Tokens, Stray
    <3>2. \A g : ReadStep(g, s) = <<Stray>> \o g[Rest(s, 2)]
      BY <1>6, <2>5, <3>0 DEF ReadStep
    <3> QED BY <1>4, <1>6, <2>1, <3>1, <3>2
  <2>6. CASE s[2] # T_IAC /\ s[2] \notin T_WILL..T_DONT /\ s[2] # T_SB /\ s[2] # T_SE
    <3>1. Command \in Tokens
      BY DEF Tokens, Command
    <3>2. \A g : ReadStep(g, s) = <<Command>> \o g[Rest(s, 2)]
      BY <1>6, <2>6 DEF ReadStep
    <3> QED BY <1>4, <1>6, <2>1, <3>1, <3>2
  <2> QED BY <2>2, <2>3, <2>4, <2>5, <2>6
<1> QED BY <1>3, <1>5, <1>6

LEMMA ReadDef ==
  Read \in [Seq(Bytes) -> Seq(Tokens)] /\ \A s \in Seq(Bytes) : Read[s] = ReadStep(Read, s)
<1> DEFINE D == Seq(Bytes)
           V == Seq(Tokens)
           m == [s \in D |-> Len(s)]
           S == [x \in D \X [D -> V] |-> ReadStep(x[2], x[1])]
<1>1. m \in [D -> Nat] /\ \A s \in D : m[s] = Len(s) /\ m[s] \in Nat
  BY LenProperties
<1>2. ASSUME NEW s \in D, NEW g, \A t \in D : m[t] < m[s] => g[t] \in V
      PROVE  ReadStep(g, s) \in V
  <2>1. CASE \E tokens \in V : ReadAlone(s, tokens)
    BY <2>1 DEF ReadAlone
  <2>2. CASE \E tokens \in V, t \in D : Len(t) < Len(s) /\ ReadOn(s, tokens, t)
    <3>1. PICK tokens \in V, t \in D : Len(t) < Len(s) /\ ReadOn(s, tokens, t)
      BY <2>2
    <3>2. g[t] \in V
      BY <1>2, <3>1
    <3>3. tokens \o g[t] \in V
      BY <3>1, <3>2, ConcatProperties
    <3> QED BY <3>1, <3>3 DEF ReadOn
  <2> QED BY <2>1, <2>2, ReadShape
<1>3. S \in [D \X [D -> V] -> V]
  <2>1. \A s \in D : \A g \in [D -> V] : ReadStep(g, s) \in V
    BY <1>2
  <2> HIDE DEF D, V
  <2> QED BY <2>1
<1>4. ASSUME NEW s \in D, NEW g \in [D -> V], NEW h \in [D -> V], \A t \in D : m[t] < m[s] => g[t] = h[t]
      PROVE  ReadStep(g, s) = ReadStep(h, s)
  <2>1. CASE \E tokens \in V : ReadAlone(s, tokens)
    BY <2>1 DEF ReadAlone
  <2>2. CASE \E tokens \in V, t \in D : Len(t) < Len(s) /\ ReadOn(s, tokens, t)
    <3>1. PICK tokens \in V, t \in D : Len(t) < Len(s) /\ ReadOn(s, tokens, t)
      BY <2>2
    <3>2. g[t] = h[t]
      BY <1>4, <3>1
    <3> QED BY <3>1, <3>2 DEF ReadOn
  <2> QED BY <2>1, <2>2, ReadShape
<1>5. UsesSmaller(D, V, m, S)
  <2>1. \A s \in D : \A g \in [D -> V] : S[<<s, g>>] = ReadStep(g, s)
    <3> HIDE DEF D, V
    <3> QED OBVIOUS
  <2> HIDE DEF D, V, m, S
  <2> QED BY <1>4, <2>1 DEF UsesSmaller
<1>6. V # {}
  BY EmptySeq
<1>7. Defined(D, V, S)
  <2> HIDE DEF D, V, m, S
  <2> QED BY <1>1, <1>3, <1>5, <1>6, Recursion
<1>8. PICK f \in [D -> V] : \A s \in D : f[s] = ReadStep(f, s)
  <2> HIDE DEF D, V
  <2> QED BY <1>7 DEF Defined
<1>9. f = [s \in D |-> ReadStep(f, s)]
  <2> HIDE DEF D, V
  <2> QED BY <1>8
<1>10. Read = CHOOSE g : g = [s \in D |-> ReadStep(g, s)]
  BY DEF Read, ReadStep, Bytes
<1>11. Read = [s \in D |-> ReadStep(Read, s)]
  <2> HIDE DEF D
  <2> QED BY <1>9, <1>10
<1>12. \A s \in D : Read[s] = ReadStep(Read, s)
  <2> HIDE DEF D
  <2> QED BY <1>11
<1> DEFINE U == {k \in Nat : \A s \in D : m[s] < k => Read[s] \in V}
<1>13. 0 \in U
  BY <1>1
<1>14. ASSUME NEW k \in Nat, k \in U PROVE k + 1 \in U
  <2> HIDE DEF D, V, m
  <2>1. ASSUME NEW s \in D, m[s] < k + 1 PROVE Read[s] \in V
    <3>1. ASSUME NEW t \in D, m[t] < m[s] PROVE Read[t] \in V
      <4>1. m[t] \in Nat /\ m[s] \in Nat
        BY <1>1
      <4>2. m[t] < k
        BY <2>1, <3>1, <4>1
      <4> QED BY <1>14, <4>2
    <3> QED BY <1>2, <1>12, <3>1
  <2> QED BY <2>1
<1>15. ASSUME NEW s \in D PROVE Read[s] \in V
  <2>1. m[s] + 1 \in Nat /\ m[s] < m[s] + 1
    BY <1>1
  <2>2. m[s] + 1 \in U
    <3> HIDE DEF U
    <3> QED BY <1>13, <1>14, <2>1, Upwards
  <2> QED BY <2>1, <2>2
<1>16. Read \in [D -> V]
  <2> HIDE DEF D, V
  <2> QED BY <1>11, <1>15
<1> QED BY <1>12, <1>16

-----------------------------------------------------------------------------
(* What a stream says, piece by piece.                                     *)

\* Whatever follows w in a stream, w reads as the tokens t there.
Decodes(w, t) ==
  /\ w \in Seq(Bytes) /\ t \in Seq(Tokens)
  /\ \A r \in Seq(Bytes) : Read[w \o r] = t \o Read[r]

\* Inside a suboption, w gives the bytes p.
Gives(w, p) ==
  /\ w \in Seq(Bytes) /\ p \in Seq(Bytes)
  /\ \A r \in Seq(Bytes) : Inside[w \o r] = [Inside[r] EXCEPT !.p = p \o Inside[r].p]

LEMMA AfterPrefix ==
  ASSUME NEW w \in Seq(Bytes), NEW r \in Seq(Bytes), NEW n \in Nat, Len(w) = n
  PROVE  /\ w \o r \in Seq(Bytes) /\ Len(w \o r) \in Nat /\ Len(w \o r) >= n
         /\ \A i \in 1..n : (w \o r)[i] = w[i]
         /\ Rest(w \o r, n) = r
<1> DEFINE s == w \o r
           m == Len(r)
<1>1. m \in Nat
  BY LenProperties
<1>2. s \in Seq(Bytes) /\ Len(s) = n + m
  BY ConcatProperties
<1>3. \A i \in 1..n + m : s[i] = IF i <= n THEN w[i] ELSE r[i - n]
  BY ConcatProperties
<1>4. n \in 0..Len(s)
  BY <1>1, <1>2
<1>5. /\ Rest(s, n) \in Seq(Bytes) /\ Len(Rest(s, n)) = Len(s) - n
      /\ \A i \in 1..Len(s) - n : Rest(s, n)[i] = s[n + i]
  <2> HIDE DEF s, m
  <2> QED BY <1>2, <1>4, RestType
<1> HIDE DEF s
<1>6. Len(Rest(s, n)) = m /\ \A i \in 1..m : Rest(s, n)[i] = r[i]
  <2> HIDE DEF m
  <2> QED BY <1>1, <1>2, <1>3, <1>5
<1>7. Rest(s, n) = r
  BY <1>5, <1>6, SeqEqual
<1>8. Len(s) \in Nat /\ Len(s) >= n /\ \A i \in 1..n : s[i] = w[i]
  <2> HIDE DEF m
  <2> QED BY <1>1, <1>2, <1>3
<1> QED BY <1>2, <1>7, <1>8 DEF s

LEMMA OneByte ==
  ASSUME NEW a \in Bytes, NEW r \in Seq(Bytes)
  PROVE  LET s == <<a>> \o r
         IN  s \in Seq(Bytes) /\ s[1] = a /\ Rest(s, 1) = r /\ (a # 255 => ~EndsAt(s))
<1>1. <<a>> \in Seq(Bytes) /\ Len(<<a>>) = 1 /\ <<a>>[1] = a
  OBVIOUS
<1> DEFINE s == <<a>> \o r
<1>2. s \in Seq(Bytes) /\ Len(s) >= 1 /\ s[1] = a /\ Rest(s, 1) = r
  <2> DEFINE w == <<a>>
  <2>1. w \in Seq(Bytes) /\ Len(w) = 1 /\ w[1] = a /\ s = w \o r
    BY <1>1
  <2> DEFINE n == 1
  <2> HIDE DEF w, s
  <2>2. n \in Nat /\ Len(w) = n
    BY <2>1
  <2> HIDE DEF n
  <2>3. s \in Seq(Bytes) /\ Len(s) \in Nat /\ Len(s) >= n /\ (\A i \in 1..n : s[i] = w[i]) /\ Rest(s, n) = r
    BY <2>1, <2>2, AfterPrefix
  <2> QED BY <2>1, <2>3 DEF n
<1> HIDE DEF s
<1>3. s # <<>>
  BY <1>2, EmptySeq
<1>4. a # 255 => s # <<255>>
  BY <1>2
<1> QED BY <1>2, <1>3, <1>4 DEF s, EndsAt, T_IAC

LEMMA TwoBytes ==
  ASSUME NEW a \in Bytes, NEW b \in Bytes, NEW r \in Seq(Bytes)
  PROVE  LET s == <<a, b>> \o r
         IN  /\ <<a, b>> \in Seq(Bytes) /\ s \in Seq(Bytes)
             /\ s[1] = a /\ s[2] = b /\ Rest(s, 2) = r /\ ~EndsAt(s)
<1>1. <<a, b>> \in Seq(Bytes) /\ Len(<<a, b>>) = 2 /\ <<a, b>>[1] = a /\ <<a, b>>[2] = b
  OBVIOUS
<1> DEFINE s == <<a, b>> \o r
<1>2. s \in Seq(Bytes) /\ Len(s) >= 2 /\ s[1] = a /\ s[2] = b /\ Rest(s, 2) = r
  <2> DEFINE w == <<a, b>>
  <2>1. w \in Seq(Bytes) /\ Len(w) = 2 /\ w[1] = a /\ w[2] = b /\ s = w \o r
    BY <1>1
  <2> DEFINE n == 2
  <2> HIDE DEF w, s
  <2>2. n \in Nat /\ Len(w) = n
    BY <2>1
  <2> HIDE DEF n
  <2>3. s \in Seq(Bytes) /\ Len(s) \in Nat /\ Len(s) >= n /\ (\A i \in 1..n : s[i] = w[i]) /\ Rest(s, n) = r
    BY <2>1, <2>2, AfterPrefix
  <2> QED BY <2>1, <2>3 DEF n
<1> HIDE DEF s
<1>3. s # <<>> /\ s # <<255>>
  BY <1>2, EmptySeq
<1> QED BY <1>1, <1>2, <1>3 DEF s, EndsAt, T_IAC

LEMMA ThreeBytes ==
  ASSUME NEW a \in Bytes, NEW b \in Bytes, NEW c \in Bytes, NEW r \in Seq(Bytes)
  PROVE  LET s == <<a, b, c>> \o r
         IN  /\ <<a, b, c>> \in Seq(Bytes) /\ s \in Seq(Bytes) /\ Len(s) # 2
             /\ s[1] = a /\ s[2] = b /\ s[3] = c /\ Rest(s, 3) = r /\ ~EndsAt(s)
<1>1. <<a, b, c>> \in Seq(Bytes) /\ Len(<<a, b, c>>) = 3
      /\ <<a, b, c>>[1] = a /\ <<a, b, c>>[2] = b /\ <<a, b, c>>[3] = c
  OBVIOUS
<1> DEFINE s == <<a, b, c>> \o r
<1>2. s \in Seq(Bytes) /\ Len(s) \in Nat /\ Len(s) >= 3 /\ s[1] = a /\ s[2] = b /\ s[3] = c /\ Rest(s, 3) = r
  <2> DEFINE w == <<a, b, c>>
  <2>1. w \in Seq(Bytes) /\ Len(w) = 3 /\ w[1] = a /\ w[2] = b /\ w[3] = c /\ s = w \o r
    BY <1>1
  <2> DEFINE n == 3
  <2> HIDE DEF w, s
  <2>2. n \in Nat /\ Len(w) = n
    BY <2>1
  <2> HIDE DEF n
  <2>3. s \in Seq(Bytes) /\ Len(s) \in Nat /\ Len(s) >= n /\ (\A i \in 1..n : s[i] = w[i]) /\ Rest(s, n) = r
    BY <2>1, <2>2, AfterPrefix
  <2> QED BY <2>1, <2>3 DEF n
<1> HIDE DEF s
<1>3. s # <<>> /\ s # <<255>> /\ Len(s) # 2
  BY <1>2, EmptySeq
<1> QED BY <1>1, <1>2, <1>3 DEF s, EndsAt, T_IAC

LEMMA DecodesEmpty == Decodes(<<>>, <<>>) /\ Gives(<<>>, <<>>)
<1>1. <<>> \in Seq(Bytes) /\ <<>> \in Seq(Tokens)
  BY EmptySeq
<1>2. ASSUME NEW r \in Seq(Bytes)
      PROVE  Read[<<>> \o r] = <<>> \o Read[r] /\ Inside[<<>> \o r] = [Inside[r] EXCEPT !.p = <<>> \o Inside[r].p]
  <2>1. <<>> \o r = r
    BY ConcatEmptySeq
  <2>2. Read[r] \in Seq(Tokens) /\ Inside[r] \in Endings
    BY ReadDef, InsideDef
  <2>3. <<>> \o Read[r] = Read[r]
    BY <2>2, ConcatEmptySeq
  <2>4. <<>> \o Inside[r].p = Inside[r].p
    BY <2>2, ConcatEmptySeq DEF Endings
  <2>5. [Inside[r] EXCEPT !.p = Inside[r].p] = Inside[r]
    BY <2>2 DEF Endings
  <2> QED BY <2>1, <2>3, <2>4, <2>5
<1> QED BY <1>1, <1>2 DEF Decodes, Gives

LEMMA Regroup == \A a, b, c \in Seq(Bytes) : (a \o b) \o c = a \o (b \o c)
<1> DEFINE S == Bytes
<1> HIDE DEF S
<1>1. \A a, b, c \in Seq(S) : (a \o b) \o c = a \o (b \o c)
  BY ConcatAssociative
<1> QED BY <1>1 DEF S

LEMMA Joined == \A a, b \in Seq(Bytes) : a \o b \in Seq(Bytes)
<1> DEFINE S == Bytes
<1> HIDE DEF S
<1>1. \A a, b \in Seq(S) : a \o b \in Seq(S)
  BY ConcatProperties
<1> QED BY <1>1 DEF S

LEMMA DecodesConcat ==
  ASSUME NEW w, NEW t, NEW v, NEW u, Decodes(w, t), Decodes(v, u)
  PROVE  Decodes(w \o v, t \o u)
<1>1. w \in Seq(Bytes) /\ v \in Seq(Bytes) /\ t \in Seq(Tokens) /\ u \in Seq(Tokens)
  BY DEF Decodes
<1>2. w \o v \in Seq(Bytes) /\ t \o u \in Seq(Tokens)
  BY <1>1, ConcatProperties
<1>3. ASSUME NEW r \in Seq(Bytes) PROVE Read[(w \o v) \o r] = (t \o u) \o Read[r]
  <2>1. (w \o v) \o r = w \o (v \o r) /\ v \o r \in Seq(Bytes)
    <3>1. w \in Seq(Bytes)
      BY <1>1
    <3>2. v \in Seq(Bytes)
      BY <1>1
    <3>3. (w \o v) \o r = w \o (v \o r)
      BY <3>1, <3>2, Regroup, Zenon
    <3>4. v \o r \in Seq(Bytes)
      BY <3>2, Joined, Zenon
    <3> QED BY <3>3, <3>4
  <2>2. Read[w \o (v \o r)] = t \o Read[v \o r]
    BY <2>1 DEF Decodes
  <2>3. Read[v \o r] = u \o Read[r]
    BY DEF Decodes
  <2>4. Read[r] \in Seq(Tokens)
    BY ReadDef
  <2>5. (t \o u) \o Read[r] = t \o (u \o Read[r])
    <3> DEFINE z == Read[r]
    <3>1. z \in Seq(Tokens)
      BY <2>4
    <3> HIDE DEF z
    <3>2. (t \o u) \o z = t \o (u \o z)
      <4> DEFINE S == Tokens
      <4>1. t \in Seq(S) /\ u \in Seq(S) /\ z \in Seq(S)
        BY <1>1, <3>1
      <4> HIDE DEF S
      <4> QED BY <4>1, ConcatAssociative
    <3> QED BY <3>2 DEF z
  <2> QED BY <2>1, <2>2, <2>3, <2>5
<1> QED BY <1>2, <1>3 DEF Decodes

LEMMA GivesConcat ==
  ASSUME NEW w, NEW p, NEW v, NEW q, Gives(w, p), Gives(v, q)
  PROVE  Gives(w \o v, p \o q)
<1>1. w \in Seq(Bytes) /\ v \in Seq(Bytes) /\ p \in Seq(Bytes) /\ q \in Seq(Bytes)
  BY DEF Gives
<1>2. w \o v \in Seq(Bytes) /\ p \o q \in Seq(Bytes)
  BY <1>1, ConcatProperties
<1>3. ASSUME NEW r \in Seq(Bytes)
      PROVE  Inside[(w \o v) \o r] = [Inside[r] EXCEPT !.p = (p \o q) \o Inside[r].p]
  <2>1. (w \o v) \o r = w \o (v \o r) /\ v \o r \in Seq(Bytes)
    <3>1. w \in Seq(Bytes)
      BY <1>1
    <3>2. v \in Seq(Bytes)
      BY <1>1
    <3>3. (w \o v) \o r = w \o (v \o r)
      BY <3>1, <3>2, Regroup, Zenon
    <3>4. v \o r \in Seq(Bytes)
      BY <3>2, Joined, Zenon
    <3> QED BY <3>3, <3>4
  <2> DEFINE x == Inside[v \o r]
             y == Inside[r]
  <2>2. Inside[w \o (v \o r)] = [x EXCEPT !.p = p \o x.p]
    BY <2>1 DEF Gives
  <2>3. x = [y EXCEPT !.p = q \o y.p]
    BY DEF Gives
  <2>4. y \in Endings
    BY InsideDef
  <2> HIDE DEF x, y
  <2>5. y.p \in Seq(Bytes)
    BY <2>4 DEF Endings
  <2>6. (p \o q) \o y.p = p \o (q \o y.p)
    <3> DEFINE z == y.p
    <3>1. z \in Seq(Bytes)
      BY <2>5
    <3> HIDE DEF z
    <3>2. (p \o q) \o z = p \o (q \o z)
      BY <1>1, <3>1, ConcatAssociative
    <3> QED BY <3>2 DEF z
  <2>7. x.p = q \o y.p
    BY <2>3, <2>4 DEF Endings
  <2>8. [x EXCEPT !.p = p \o x.p] = [y EXCEPT !.p = p \o (q \o y.p)]
    BY <2>3, <2>4, <2>7 DEF Endings
  <2>9. Inside[(w \o v) \o r] = [y EXCEPT !.p = (p \o q) \o y.p]
    BY <2>1, <2>2, <2>6, <2>8
  <2> QED BY <2>9 DEF y
<1> QED BY <1>2, <1>3 DEF Gives

\* A byte of data is itself, or doubled.
EscapedByte(b) == IF b = T_IAC THEN <<T_IAC, T_IAC>> ELSE <<b>>

LEMMA DecodesByte ==
  ASSUME NEW b \in Bytes
  PROVE  Decodes(EscapedByte(b), <<DataToken(b)>>) /\ Gives(EscapedByte(b), <<b>>)
<1>1. <<DataToken(b)>> \in Seq(Tokens) /\ <<b>> \in Seq(Bytes)
  <2>1. DataToken(b) \in Tokens
    BY DEF Tokens, Said, DataToken
  <2> QED BY <2>1
<1>2. EscapedByte(b) \in Seq(Bytes)
  <2>1. CASE b = T_IAC
    BY <2>1, TwoBytes, EmptySeq DEF EscapedByte
  <2>2. CASE b # T_IAC
    BY <1>1, <2>2 DEF EscapedByte
  <2> QED BY <2>1, <2>2
<1>3. ASSUME NEW r \in Seq(Bytes)
      PROVE  /\ Read[EscapedByte(b) \o r] = <<DataToken(b)>> \o Read[r]
             /\ Inside[EscapedByte(b) \o r] = [Inside[r] EXCEPT !.p = <<b>> \o Inside[r].p]
  <2> DEFINE s == EscapedByte(b) \o r
  <2>0. /\ s \in Seq(Bytes) /\ ~EndsAt(s) /\ s[1] = b
        /\ b # T_IAC => Rest(s, 1) = r
        /\ b = T_IAC => s[2] = T_IAC /\ Rest(s, 2) = r
    <3>1. CASE b = T_IAC
      BY <3>1, TwoBytes DEF EscapedByte
    <3>2. CASE b # T_IAC
      BY <3>2, OneByte DEF EscapedByte, T_IAC
    <3> QED BY <3>1, <3>2
  <2> HIDE DEF s
  <2>1. Read[s] = ReadStep(Read, s) /\ Inside[s] = InsideStep(Inside, s) /\ Inside[r] \in Endings
    BY <2>0, ReadDef, InsideDef
  <2>2. ReadStep(Read, s) = <<DataToken(b)>> \o Read[r]
    <3>1. CASE b = T_IAC
      <4>0. s[2] \notin T_WILL..T_DONT /\ s[2] # T_SB /\ s[2] # T_SE
        BY <2>0, <3>1 DEF T_WILL, T_DONT, T_IAC, T_SB, T_SE
      <4> QED BY <2>0, <3>1, <4>0 DEF ReadStep
    <3>2. CASE b # T_IAC
      BY <2>0, <3>2 DEF ReadStep
    <3> QED BY <3>1, <3>2
  <2>3. InsideStep(Inside, s) = [Inside[r] EXCEPT !.p = <<b>> \o Inside[r].p]
    <3>1. ~(s[1] = T_IAC /\ s[2] # T_IAC)
      BY <2>0 DEF T_IAC, T_SE
    <3>2. Rest(s, IF s[1] = T_IAC THEN 2 ELSE 1) = r
      BY <2>0
    <3> QED BY <2>0, <2>1, <3>1, <3>2 DEF InsideStep, Endings
  <2> QED BY <2>1, <2>2, <2>3 DEF s
<1> QED BY <1>1, <1>2, <1>3 DEF Decodes, Gives

AsData(data) == [i \in DOMAIN data |-> DataToken(data[i])]

LEMMA AsDataType ==
  ASSUME NEW data \in Seq(Bytes)
  PROVE  AsData(data) \in Seq(Said) /\ AsData(data) \in Seq(Tokens) /\ AsData(data) \in Seq(Logged)
<1>1. Len(data) \in Nat /\ DOMAIN data = 1..Len(data) /\ \A i \in 1..Len(data) : data[i] \in Bytes
  BY LenProperties, ElementOfSeq
<1>2. \A i \in 1..Len(data) : DataToken(data[i]) \in Said /\ DataToken(data[i]) \in Tokens /\ DataToken(data[i]) \in Logged
  BY <1>1 DEF DataToken, Said, Tokens, Logged
<1> QED BY <1>1, <1>2 DEF AsData

LEMMA PrefixGrows ==
  ASSUME NEW S, NEW s \in Seq(S), NEW k \in Nat, k + 1 <= Len(s)
  PROVE  SubSeq(s, 1, k + 1) = SubSeq(s, 1, k) \o <<s[k + 1]>>
<1> DEFINE n == Len(s)
           m == k + 1
<1>1. n \in Nat /\ k + 1 <= n
  BY LenProperties
<1>2. 1 \in 1..n /\ m \in 1..n /\ m - 1 = k
  <2> HIDE DEF n
  <2> QED BY <1>1
<1> HIDE DEF m
<1>3. SubSeq(s, 1, m) = SubSeq(s, 1, m - 1) \o <<s[m]>>
  BY <1>2, SubSeqRecursiveSecond
<1> QED BY <1>2, <1>3 DEF m

LEMMA DecodesEscape ==
  ASSUME NEW data \in Seq(Bytes)
  PROVE  Decodes(Escape(data), AsData(data)) /\ Gives(Escape(data), data)
<1>1. PICK f : /\ f[0] = <<>>
               /\ \A i \in 1..Len(data) : f[i] = f[i - 1] \o EscapedByte(data[i])
               /\ Escape(data) = f[Len(data)]
  BY EscapeSteps DEF EscapedByte
<1> DEFINE L == Len(data)
           all == AsData(data)
           T == {k \in Nat : k <= L => Decodes(f[k], SubSeq(all, 1, k)) /\ Gives(f[k], SubSeq(data, 1, k))}
<1>2. L \in Nat /\ all \in Seq(Tokens) /\ Len(all) = L /\ \A i \in 1..L : all[i] = DataToken(data[i]) /\ data[i] \in Bytes
  BY AsDataType, LenProperties, ElementOfSeq DEF AsData
<1> HIDE DEF all
<1>3. 0 \in T
  <2>1. SubSeq(all, 1, 0) = <<>> /\ SubSeq(data, 1, 0) = <<>>
    BY SubSeqEmpty
  <2> QED BY <1>1, <2>1, DecodesEmpty
<1>4. ASSUME NEW k \in Nat, k \in T PROVE k + 1 \in T
  <2>1. SUFFICES ASSUME k + 1 <= L PROVE Decodes(f[k + 1], SubSeq(all, 1, k + 1)) /\ Gives(f[k + 1], SubSeq(data, 1, k + 1))
    OBVIOUS
  <2>2. k + 1 \in 1..L /\ k <= L /\ (k + 1) - 1 = k
    BY <1>2, <2>1
  <2>3. f[k + 1] = f[k] \o EscapedByte(data[k + 1])
    BY <1>1, <2>2
  <2>4. /\ SubSeq(all, 1, k + 1) = SubSeq(all, 1, k) \o <<DataToken(data[k + 1])>>
        /\ SubSeq(data, 1, k + 1) = SubSeq(data, 1, k) \o <<data[k + 1]>>
    <3>1. SubSeq(data, 1, k + 1) = SubSeq(data, 1, k) \o <<data[k + 1]>>
      BY <2>1, PrefixGrows
    <3>2. SubSeq(all, 1, k + 1) = SubSeq(all, 1, k) \o <<all[k + 1]>>
      BY <1>2, <2>1, PrefixGrows
    <3> QED BY <1>2, <2>2, <3>1, <3>2
  <2>5. Decodes(EscapedByte(data[k + 1]), <<DataToken(data[k + 1])>>) /\ Gives(EscapedByte(data[k + 1]), <<data[k + 1]>>)
    BY <1>2, <2>2, DecodesByte
  <2>6. Decodes(f[k], SubSeq(all, 1, k)) /\ Gives(f[k], SubSeq(data, 1, k))
    BY <1>4, <2>2
  <2> QED BY <2>3, <2>4, <2>5, <2>6, DecodesConcat, GivesConcat
<1>5. L \in T
  <2> HIDE DEF T
  <2> QED BY <1>2, <1>3, <1>4, Upwards
<1>6. SubSeq(all, 1, L) = all /\ SubSeq(data, 1, L) = data
  BY <1>2, SubSeqFull
<1>7. Decodes(f[L], SubSeq(all, 1, L)) /\ Gives(f[L], SubSeq(data, 1, L))
  <2>1. L \in Nat /\ L <= L
    BY <1>2
  <2> QED BY <1>5, <2>1
<1> QED BY <1>1, <1>6, <1>7 DEF all

LEMMA DecodesNeg ==
  ASSUME NEW verb \in 251..254, NEW option \in Bytes
  PROVE  Decodes(<<T_IAC, verb, option>>, <<Neg(verb, option)>>)
<1>1. T_IAC \in Bytes /\ verb \in Bytes /\ T_IAC = 255
  BY DEF T_IAC, Bytes
<1>2. <<Neg(verb, option)>> \in Seq(Tokens)
  <2>1. Neg(verb, option) \in Tokens
    BY <1>1 DEF Tokens, Said, Neg
  <2> QED BY <2>1
<1>3. ASSUME NEW r \in Seq(Bytes)
      PROVE  Read[<<T_IAC, verb, option>> \o r] = <<Neg(verb, option)>> \o Read[r]
  <2> DEFINE s == <<T_IAC, verb, option>> \o r
  <2>1. /\ s \in Seq(Bytes) /\ Len(s) # 2
        /\ s[1] = T_IAC /\ s[2] = verb /\ s[3] = option /\ Rest(s, 3) = r /\ ~EndsAt(s)
    BY <1>1, ThreeBytes
  <2> HIDE DEF s
  <2>2. s[2] # T_IAC /\ s[2] # T_SB /\ s[2] # T_SE /\ s[2] \in T_WILL..T_DONT
    BY <2>1 DEF T_WILL, T_DONT, T_IAC, T_SB, T_SE
  <2>3. ReadStep(Read, s) = <<Neg(verb, option)>> \o Read[r]
    BY <2>1, <2>2 DEF ReadStep
  <2> QED BY <2>1, <2>3, ReadDef DEF s
<1>4. <<T_IAC, verb, option>> \in Seq(Bytes)
  BY <1>1, ThreeBytes, EmptySeq
<1> QED BY <1>2, <1>3, <1>4 DEF Decodes

LEMMA SuboptionEnds ==
  ASSUME NEW r \in Seq(Bytes)
  PROVE  /\ <<T_IAC, T_SE>> \in Seq(Bytes) /\ <<T_IAC, T_SE>> \o r \in Seq(Bytes)
         /\ Inside[<<T_IAC, T_SE>> \o r] = [p |-> <<>>, is |-> "sub", rest |-> r]
<1> DEFINE s == <<T_IAC, T_SE>> \o r
<1>1. T_IAC \in Bytes /\ T_SE \in Bytes
  BY DEF T_IAC, T_SE, Bytes
<1>2. /\ <<T_IAC, T_SE>> \in Seq(Bytes) /\ s \in Seq(Bytes)
      /\ s[1] = T_IAC /\ s[2] = T_SE /\ Rest(s, 2) = r /\ ~EndsAt(s)
  BY <1>1, TwoBytes
<1> HIDE DEF s
<1>3. InsideStep(Inside, s) = [p |-> <<>>, is |-> "sub", rest |-> r]
  BY <1>2 DEF InsideStep, T_IAC, T_SE
<1> QED BY <1>2, <1>3, InsideDef DEF s

LEMMA DecodesSub ==
  ASSUME NEW command \in 0..254, NEW data \in Seq(Bytes)
  PROVE  LET head == <<T_COM_PORT_OPTION, command>>
         IN  Decodes(<<T_IAC, T_SB, T_COM_PORT_OPTION, command>> \o Escape(data) \o <<T_IAC, T_SE>>,
                     <<Sub(head \o data)>>)
<1> DEFINE head == <<T_COM_PORT_OPTION, command>>
           start == <<T_IAC, T_SB, T_COM_PORT_OPTION, command>>
           sb == <<T_IAC, T_SB>>
           se == <<T_IAC, T_SE>>
           payload == head \o data
           body == head \o Escape(data)
           w == start \o Escape(data) \o se
<1>1. T_COM_PORT_OPTION \in Bytes /\ command \in Bytes /\ T_COM_PORT_OPTION # T_IAC /\ command # T_IAC
      /\ T_IAC \in Bytes /\ T_SB \in Bytes
  BY DEF Bytes, T_COM_PORT_OPTION, T_IAC, T_SB
<1>2. start = sb \o head /\ head = <<T_COM_PORT_OPTION>> \o <<command>>
  OBVIOUS
<1>3. sb \in Seq(Bytes) /\ head \in Seq(Bytes) /\ se \in Seq(Bytes) /\ Escape(data) \in Seq(Bytes)
  BY <1>1, TwoBytes, SuboptionEnds, EscapeType, EmptySeq
<1>4. Gives(body, payload)
  <2>1. Gives(<<T_COM_PORT_OPTION>>, <<T_COM_PORT_OPTION>>) /\ Gives(<<command>>, <<command>>)
    BY <1>1, DecodesByte DEF EscapedByte
  <2>2. Gives(head, head)
    BY <1>2, <2>1, GivesConcat
  <2> QED BY <2>2, DecodesEscape, GivesConcat
<1> HIDE DEF head, start, sb, se
<1>5. body \in Seq(Bytes) /\ payload \in Seq(Bytes)
  BY <1>4 DEF Gives
<1>6. w = sb \o (body \o se)
  <2> DEFINE d == Escape(data)
  <2>1. d \in Seq(Bytes)
    BY <1>3
  <2> HIDE DEF d
  <2>2. sb \in Seq(Bytes)
    BY <1>3
  <2>3. head \in Seq(Bytes)
    BY <1>3
  <2>4. se \in Seq(Bytes)
    BY <1>3
  <2>5. head \o d \in Seq(Bytes)
    BY <2>1, <2>3, Joined, Zenon
  <2>6. (sb \o head) \o d = sb \o (head \o d)
    BY <2>1, <2>2, <2>3, Regroup, Zenon
  <2>7. (sb \o (head \o d)) \o se = sb \o ((head \o d) \o se)
    BY <2>2, <2>4, <2>5, Regroup, Zenon
  <2> QED BY <1>2, <2>6, <2>7 DEF d
<1> HIDE DEF body, payload
<1>7. body \o se \in Seq(Bytes) /\ w \in Seq(Bytes)
  <2>1. body \o se \in Seq(Bytes)
    BY <1>3, <1>5, ConcatProperties
  <2> HIDE DEF w
  <2> QED BY <1>3, <1>6, <2>1, ConcatProperties
<1>8. <<Sub(payload)>> \in Seq(Tokens)
  <2>1. Sub(payload) \in Tokens
    BY <1>5 DEF Tokens, Said, Sub
  <2> QED BY <2>1
<1> HIDE DEF w
<1>9. ASSUME NEW r \in Seq(Bytes) PROVE Read[w \o r] = <<Sub(payload)>> \o Read[r]
  <2> DEFINE x == body \o (se \o r)
             s == sb \o x
  <2>1. se \o r \in Seq(Bytes) /\ Inside[se \o r] = [p |-> <<>>, is |-> "sub", rest |-> r]
    BY SuboptionEnds DEF se
  <2>2. (body \o se) \o r = x /\ x \in Seq(Bytes)
    <3>1. se \in Seq(Bytes)
      BY <1>3
    <3>2. body \in Seq(Bytes)
      BY <1>5
    <3>3. se \o r \in Seq(Bytes)
      BY <2>1
    <3>4. (body \o se) \o r = x
      BY <3>1, <3>2, Regroup, Zenon
    <3>5. x \in Seq(Bytes)
      BY <3>2, <3>3, Joined, Zenon
    <3> QED BY <3>4, <3>5
  <2>3. (sb \o (body \o se)) \o r = sb \o ((body \o se) \o r)
    <3>1. sb \in Seq(Bytes)
      BY <1>3
    <3>2. body \o se \in Seq(Bytes)
      BY <1>7
    <3> QED BY <3>1, <3>2, Regroup, Zenon
  <2>4. w \o r = s
    BY <1>6, <2>2, <2>3
  <2>5. Inside[x] = [p |-> payload, is |-> "sub", rest |-> r]
    <3> DEFINE y == Inside[se \o r]
    <3>1. Inside[x] = [y EXCEPT !.p = payload \o y.p]
      BY <1>4, <2>1 DEF Gives
    <3>2. y = [p |-> <<>>, is |-> "sub", rest |-> r]
      BY <2>1
    <3>3. payload \o <<>> = payload
      BY <1>5, ConcatEmptySeq
    <3> HIDE DEF y, x
    <3>4. payload \o y.p = payload
      BY <3>2, <3>3
    <3>5. Inside[x] = [y EXCEPT !.p = payload]
      BY <3>1, <3>4
    <3> QED BY <3>2, <3>5
  <2> HIDE DEF x
  <2>6. s \in Seq(Bytes) /\ s[1] = T_IAC /\ s[2] = T_SB /\ Rest(s, 2) = x /\ ~EndsAt(s)
    BY <1>1, <2>2, TwoBytes DEF sb
  <2> HIDE DEF s
  <2>7. s[2] # T_IAC /\ s[2] \notin T_WILL..T_DONT /\ s[2] # T_SE
    BY <2>6 DEF T_WILL, T_DONT, T_IAC, T_SB, T_SE
  <2>8. ReadStep(Read, s) = <<Sub(payload)>> \o Read[r]
    <3> DEFINE sub == Inside[Rest(s, 2)]
    <3>1. sub = [p |-> payload, is |-> "sub", rest |-> r]
      BY <2>5, <2>6
    <3>2. sub.is = "sub" => ReadStep(Read, s) = <<Sub(sub.p)>> \o Read[sub.rest]
      BY <2>6, <2>7 DEF ReadStep
    <3> HIDE DEF sub
    <3>3. sub.is = "sub" /\ sub.p = payload /\ sub.rest = r
      BY <3>1
    <3> QED BY <3>2, <3>3
  <2> QED BY <2>4, <2>6, <2>8, ReadDef
<1>10. Decodes(w, <<Sub(payload)>>)
  BY <1>7, <1>8, <1>9 DEF Decodes
<1> QED BY <1>10 DEF w, payload, head, start, se

-----------------------------------------------------------------------------
(* The answers about the COM port option.                                  *)

Verbs(i) == {option_defs[i].send_yes, option_defs[i].send_no}
IsAnswer(i, x) == x.t = "neg" /\ x.opt = 44 /\ x.verb \in Verbs(i)
AnswersIn(i, said) == {k \in DOMAIN said : IsAnswer(i, said[k])}
Alternate(i, said) ==
  LET answers == AnswersIn(i, said)
  IN  \A j, k \in answers : j < k /\ (\A m \in answers : m <= j \/ k <= m) => said[j].verb # said[k].verb
LastSays(i, said, state) ==
  LET answers == AnswersIn(i, said)
  IN  \A k \in answers :
        (\A m \in answers : m <= k) => (said[k].verb = option_defs[i].send_yes) = (state = "active")

\* AnswersSettle, and what it takes to keep it: the answer to the engine's own
\* request is the first one.
Settled(i, said, state) ==
  /\ Alternate(i, said) /\ LastSays(i, said, state)
  /\ state = "requested" => AnswersIn(i, said) = {}

LEMMA SettledIsAnswersSettle ==
  ASSUME \A i \in {6, 7} : Settled(i, tn.said, tn.options[i])
  PROVE  AnswersSettle
<1>1. \A i \in {6, 7} : option_defs[i].option = 44
  BY OptionDefTypes
<1> QED BY <1>1 DEF AnswersSettle, Settled, Alternate, LastSays, AnswersIn, IsAnswer, Verbs

LEMMA VerbsOf ==
  /\ option_defs[6].option = 44 /\ option_defs[6].send_yes = 251 /\ option_defs[6].send_no = 252
  /\ option_defs[7].option = 44 /\ option_defs[7].send_yes = 253 /\ option_defs[7].send_no = 254
  /\ Verbs(6) = {251, 252} /\ Verbs(7) = {253, 254}
  BY OptionDefs DEF OptionDef, Verbs, T_WILL, T_WONT, T_DO, T_DONT

\* What is said later leaves the answers before it where they were.
LEMMA AnswersKept ==
  ASSUME NEW i, NEW said \in Seq(Said), NEW meaning \in Seq(Said)
  PROVE  LET both == said \o meaning
         IN  /\ both \in Seq(Said) /\ DOMAIN both = 1..Len(said) + Len(meaning)
             /\ \A k \in 1..Len(said) : both[k] = said[k]
             /\ \A k \in Len(said) + 1..Len(said) + Len(meaning) : both[k] = meaning[k - Len(said)]
             /\ AnswersIn(i, said) = AnswersIn(i, both) \cap 1..Len(said)
<1> DEFINE both == said \o meaning
           L == Len(said)
           M == Len(meaning)
<1>1. L \in Nat /\ M \in Nat /\ DOMAIN said = 1..L
  BY LenProperties
<1>2. both \in Seq(Said) /\ Len(both) = L + M
  BY ConcatProperties
<1>3. \A k \in 1..L + M : both[k] = IF k <= L THEN said[k] ELSE meaning[k - L]
  BY ConcatProperties
<1> HIDE DEF both
<1>4. DOMAIN both = 1..L + M
  BY <1>2, LenProperties
<1> HIDE DEF L, M
<1>5. \A k \in 1..L : k \in 1..L + M /\ both[k] = said[k]
  BY <1>1, <1>3
<1>6. \A k \in L + 1..L + M : both[k] = meaning[k - L]
  BY <1>1, <1>3
<1>7. AnswersIn(i, said) = AnswersIn(i, both) \cap 1..L
  BY <1>1, <1>4, <1>5 DEF AnswersIn
<1> QED BY <1>2, <1>4, <1>5, <1>6, <1>7 DEF both, L, M

\* Anything else may be said at any time.
LEMMA SettledSilent ==
  ASSUME NEW i, NEW state, NEW said \in Seq(Said), NEW meaning \in Seq(Said),
         \A k \in 1..Len(meaning) : ~IsAnswer(i, meaning[k]), Settled(i, said, state)
  PROVE  Settled(i, said \o meaning, state)
<1> DEFINE both == said \o meaning
           L == Len(said)
           M == Len(meaning)
<1>0. L \in Nat /\ M \in Nat /\ DOMAIN said = 1..L
  BY LenProperties
<1>1. /\ DOMAIN both = 1..L + M
      /\ \A k \in 1..L : both[k] = said[k]
      /\ \A k \in L + 1..L + M : both[k] = meaning[k - L]
      /\ AnswersIn(i, said) = AnswersIn(i, both) \cap 1..L
  BY AnswersKept
<1> HIDE DEF both
<1>2. AnswersIn(i, both) = AnswersIn(i, said)
  <2>1. ASSUME NEW k \in AnswersIn(i, both) PROVE k \in 1..L
    <3>1. k \in 1..L + M /\ IsAnswer(i, both[k])
      BY <1>1 DEF AnswersIn
    <3>2. SUFFICES ASSUME k \notin 1..L PROVE FALSE
      OBVIOUS
    <3>3. k \in L + 1..L + M /\ k - L \in 1..M
      <4> HIDE DEF L, M
      <4> QED BY <1>0, <3>1, <3>2
    <3>4. both[k] = meaning[k - L]
      BY <1>1, <3>3
    <3> QED BY <3>1, <3>3, <3>4
  <2> QED BY <1>1, <2>1
<1>3. \A k \in AnswersIn(i, said) : both[k] = said[k]
  BY <1>0, <1>1 DEF AnswersIn
<1>4. Alternate(i, both)
  BY <1>2, <1>3 DEF Settled, Alternate
<1>5. LastSays(i, both, state)
  BY <1>2, <1>3 DEF Settled, LastSays
<1>6. Settled(i, both, state)
  BY <1>2, <1>4, <1>5 DEF Settled
<1> QED BY <1>6 DEF both

\* An answer that says what the option has become and was not before.
LEMMA SettledAnswer ==
  ASSUME NEW i \in {6, 7}, NEW said \in Seq(Said), NEW verb \in Verbs(i), NEW before, NEW after,
         Settled(i, said, before),
         (verb = option_defs[i].send_yes) = (after = "active"),
         (before = "active") = (verb # option_defs[i].send_yes),
         after # "requested"
  PROVE  Settled(i, said \o <<Neg(verb, 44)>>, after)
<1> DEFINE x == Neg(verb, 44)
           one == <<x>>
           both == said \o one
           L == Len(said)
           old == AnswersIn(i, said)
<1>0. verb \in 251..254 /\ \A v, w \in Verbs(i) : (v = option_defs[i].send_yes) # (w = option_defs[i].send_yes) => v # w
  BY VerbsOf
<1>1. one \in Seq(Said) /\ Len(one) = 1 /\ one[1] = x
  <2>1. x \in Said
    BY <1>0 DEF Said, Neg, Bytes
  <2> HIDE DEF x
  <2> QED BY <2>1
<1>2. L \in Nat /\ DOMAIN said = 1..L
  BY LenProperties
<1> HIDE DEF one, x
<1>3. /\ DOMAIN both = 1..L + Len(one)
      /\ \A k \in 1..L : both[k] = said[k]
      /\ \A k \in L + 1..L + Len(one) : both[k] = one[k - L]
      /\ AnswersIn(i, said) = AnswersIn(i, both) \cap 1..L
  <2>1. one \in Seq(Said)
    BY <1>1
  <2> QED BY <2>1, AnswersKept
<1> HIDE DEF both, L
<1>4. DOMAIN both = 1..L + 1 /\ both[L + 1] = x
  <2>1. L + 1 \in L + 1..L + 1 /\ (L + 1) - L = 1
    BY <1>2
  <2> QED BY <1>1, <1>3, <2>1
<1>5. IsAnswer(i, x) /\ x.verb = verb
  BY DEF IsAnswer, x, Neg
<1>6. AnswersIn(i, both) = old \cup {L + 1} /\ (\A k \in old : k \in Nat /\ k < L + 1 /\ both[k] = said[k])
  <2>1. \A k \in 1..L + 1 : k \in 1..L \/ k = L + 1
    BY <1>2
  <2>2. \A k \in old : k \in 1..L
    BY <1>2 DEF AnswersIn
  <2>3. L + 1 \in AnswersIn(i, both)
    BY <1>2, <1>4, <1>5 DEF AnswersIn
  <2>4. \A k \in AnswersIn(i, both) : k \in 1..L + 1
    BY <1>4 DEF AnswersIn
  <2>5. \A k \in 1..L : k \in Nat /\ k < L + 1
    BY <1>2
  <2> HIDE DEF old
  <2>6. old = AnswersIn(i, both) \cap 1..L
    BY <1>3 DEF old
  <2> QED BY <1>3, <2>1, <2>2, <2>3, <2>4, <2>5, <2>6
<1>7. \A k \in old : (\A m \in old : m <= k) => said[k].verb # verb
  <2>1. \A k \in old : said[k].verb \in Verbs(i)
    BY DEF AnswersIn, IsAnswer
  <2>2. \A k \in old : (\A m \in old : m <= k) => (said[k].verb = option_defs[i].send_yes) = (before = "active")
    BY DEF Settled, LastSays
  <2> HIDE DEF old
  <2> QED BY <1>0, <2>1, <2>2
<1>8. Alternate(i, both)
  <2>0. \A j, k \in old : j < k /\ (\A m \in old : m <= j \/ k <= m) => said[j].verb # said[k].verb
    BY DEF Settled, Alternate
  <2> HIDE DEF old
  <2> DEFINE all == old \cup {L + 1}
  <2>1. ASSUME NEW j \in all, NEW k \in all, j < k, \A m \in all : m <= j \/ k <= m
        PROVE  both[j].verb # both[k].verb
    <3>1. CASE k \in old
      <4>1. j \in old
        BY <1>2, <1>6, <2>1, <3>1
      <4> QED BY <1>6, <2>0, <2>1, <3>1, <4>1
    <3>2. CASE k = L + 1
      <4>1. j \in old
        BY <1>2, <2>1, <3>2
      <4>2. \A m \in old : m <= j
        BY <1>2, <1>6, <2>1, <3>2
      <4>3. said[j].verb # verb /\ both[j] = said[j] /\ both[k].verb = verb
        BY <1>4, <1>5, <1>6, <1>7, <3>2, <4>1, <4>2
      <4> QED BY <4>3
    <3> QED BY <3>1, <3>2
  <2> QED BY <1>6, <2>1 DEF Alternate
<1>9. LastSays(i, both, after)
  <2> HIDE DEF old
  <2>1. ASSUME NEW k \in old \cup {L + 1}, \A m \in old \cup {L + 1} : m <= k PROVE k = L + 1
    <3>1. L + 1 <= k /\ L + 1 \in Nat
      BY <1>2, <2>1
    <3>2. CASE k \in old
      <4>1. k \in Nat /\ k < L + 1
        BY <1>6, <3>2
      <4> QED BY <3>1, <4>1
    <3> QED BY <2>1, <3>2
  <2>2. both[L + 1].verb = verb
    BY <1>4, <1>5
  <2> QED BY <1>6, <2>1, <2>2 DEF LastSays
<1>10. Settled(i, both, after)
  BY <1>8, <1>9 DEF Settled
<1> QED BY <1>10 DEF both, one, x

-----------------------------------------------------------------------------
(* What every part of the engine keeps.                                    *)

OK(e) ==
  /\ e \in Engine /\ Decodes(e.wire, e.said)
  /\ \A i \in {6, 7} : Settled(i, e.said, e.options[i])
Keeps(e, f) == OK(f) /\ f.buffer = e.buffer /\ f.command = e.command

LEMMA SendKeeps ==
  ASSUME NEW e, OK(e), NEW bytes, NEW meaning \in Seq(Said), Decodes(bytes, meaning),
         \A k \in 1..Len(meaning) : meaning[k].t # "neg" \/ meaning[k].opt # 44
  PROVE  Keeps(e, Send(e, bytes, meaning))
<1> DEFINE f == Send(e, bytes, meaning)
<1>1. e \in Engine /\ bytes \in Seq(Bytes) /\ Decodes(e.wire, e.said)
  BY DEF OK, Decodes
<1>2. f \in Engine /\ f.buffer = e.buffer
  BY <1>1, SendType
<1>3. f.options = e.options /\ f.command = e.command
  BY <1>1, SendType
<1>4. f.said = e.said \o meaning /\ f.wire = e.wire \o bytes
  BY <1>1, SendType
<1> HIDE DEF f
<1>5. Decodes(f.wire, f.said)
  BY <1>1, <1>4, DecodesConcat
<1>6. ASSUME NEW i \in {6, 7} PROVE Settled(i, f.said, f.options[i])
  <2>1. e.said \in Seq(Said) /\ Settled(i, e.said, e.options[i])
    BY <1>1 DEF OK, Engine
  <2>2. \A k \in 1..Len(meaning) : ~IsAnswer(i, meaning[k])
    BY DEF IsAnswer
  <2>3. Settled(i, e.said \o meaning, e.options[i])
    BY <2>1, <2>2, SettledSilent
  <2> QED BY <1>3, <1>4, <2>3
<1> QED BY <1>2, <1>3, <1>5, <1>6 DEF Keeps, OK, f

LEMMA CallKeeps ==
  ASSUME NEW e, OK(e), NEW token \in Logged
  PROVE  Keeps(e, Call(e, token))
<1> DEFINE f == Call(e, token)
<1>1. e \in Engine
  BY DEF OK
<1>2. f \in Engine /\ f.buffer = e.buffer
  BY <1>1, CallType
<1>3. f.options = e.options /\ f.command = e.command
  BY <1>1, CallType
<1>4. f.said = e.said /\ f.wire = e.wire
  BY <1>1, CallType
<1> HIDE DEF f
<1> QED BY <1>2, <1>3, <1>4 DEF Keeps, OK, f

LEMMA ClientOkKeeps ==
  ASSUME NEW e, OK(e)
  PROVE  Keeps(e, on_client_ok(e))
<1> DEFINE f == on_client_ok(e)
<1>1. e \in Engine
  BY DEF OK
<1>2. f \in Engine /\ f.buffer = e.buffer
  BY <1>1, ClientOkType
<1>3. f.options = e.options /\ f.command = e.command
  BY <1>1, ClientOkType
<1>4. f.said = e.said /\ f.wire = e.wire
  BY <1>1, ClientOkType
<1> HIDE DEF f
<1> QED BY <1>2, <1>3, <1>4 DEF Keeps, OK, f

OptionState(e, i, state) == [e EXCEPT !.options[i] = state]

LEMMA OptionStateType ==
  ASSUME NEW e \in Engine, NEW i \in 1..7, NEW state \in {"requested", "active", "inactive"}
  PROVE  LET f == OptionState(e, i, state)
         IN  /\ f \in Engine /\ f.buffer = e.buffer /\ f.command = e.command
             /\ f.said = e.said /\ f.wire = e.wire
             /\ f.options[i] = state /\ \A j \in 1..7 : j # i => f.options[j] = e.options[j]
<1> DEFINE o == [e.options EXCEPT ![i] = state]
<1>1. o \in [1..7 -> {"requested", "active", "inactive"}] /\ o[i] = state /\ \A j \in 1..7 : j # i => o[j] = e.options[j]
  BY DEF Engine
<1>2. OptionState(e, i, state) = [e EXCEPT !.options = o]
  BY DEF OptionState, Engine
<1> HIDE DEF o
<1> DEFINE f == [e EXCEPT !.options = o]
<1>3. f \in Engine
  BY <1>1 DEF Engine
<1>4. f.buffer = e.buffer /\ f.command = e.command /\ f.said = e.said /\ f.wire = e.wire /\ f.options = o
  BY DEF Engine
<1> HIDE DEF f
<1> QED BY <1>1, <1>2, <1>3, <1>4 DEF f

\* The arms of telnet_option_process_incoming.
LEMMA IncomingArms ==
  ASSUME NEW e \in Engine, NEW i \in 1..7, NEW command
  PROVE  LET d == option_defs[i]
             r == telnet_option_process_incoming(e, i, command)
             on == OptionState(e, i, "active")
             off == OptionState(e, i, "inactive")
         IN  \/ r = e
             \/ e.options[i] = "requested" /\ r = IF d.port THEN on_client_ok(on) ELSE on
             \/ /\ e.options[i] = "inactive"
                /\ r = IF d.port THEN on_client_ok(telnet_send_option(on, d.send_yes, d.option)) ELSE on
             \/ e.options[i] = "requested" /\ r = off
             \/ e.options[i] = "active" /\ r = IF d.port THEN telnet_send_option(off, d.send_no, d.option) ELSE off
<1> DEFINE d == option_defs[i]
           o == e.options[i]
<1>1. d.ack_yes # d.ack_no /\ d.port \in BOOLEAN
  BY OptionDefTypes
<1>2. CASE command = d.ack_yes /\ o = "requested"
  <2>1. ~(command = d.ack_yes /\ o = "inactive") /\ ~(command = d.ack_no /\ o = "requested") /\ ~(command = d.ack_no /\ o = "active")
    BY <1>1, <1>2
  <2> QED BY <1>1, <1>2, <2>1 DEF telnet_option_process_incoming, OptionState
<1>3. CASE command = d.ack_yes /\ o = "inactive"
  <2>1. ~(command = d.ack_yes /\ o = "requested") /\ ~(command = d.ack_no /\ o = "requested") /\ ~(command = d.ack_no /\ o = "active")
    BY <1>1, <1>3
  <2> QED BY <1>1, <1>3, <2>1 DEF telnet_option_process_incoming, OptionState
<1>4. CASE command = d.ack_no /\ o = "requested"
  <2>1. ~(command = d.ack_yes /\ o = "requested") /\ ~(command = d.ack_yes /\ o = "inactive") /\ ~(command = d.ack_no /\ o = "active")
    BY <1>1, <1>4
  <2> QED BY <1>1, <1>4, <2>1 DEF telnet_option_process_incoming, OptionState
<1>5. CASE command = d.ack_no /\ o = "active"
  <2>1. ~(command = d.ack_yes /\ o = "requested") /\ ~(command = d.ack_yes /\ o = "inactive") /\ ~(command = d.ack_no /\ o = "requested")
    BY <1>1, <1>5
  <2> QED BY <1>1, <1>5, <2>1 DEF telnet_option_process_incoming, OptionState
<1>6. CASE /\ ~(command = d.ack_yes /\ o = "requested") /\ ~(command = d.ack_yes /\ o = "inactive")
           /\ ~(command = d.ack_no /\ o = "requested") /\ ~(command = d.ack_no /\ o = "active")
  BY <1>6 DEF telnet_option_process_incoming
<1> QED BY <1>2, <1>3, <1>4, <1>5, <1>6

\* A state of an option that is not told to the client.
LEMMA QuietState ==
  ASSUME NEW e, OK(e), NEW i \in 1..7, NEW state \in {"active", "inactive"},
         i \in {6, 7} => e.options[i] = "requested"
  PROVE  Keeps(e, OptionState(e, i, state))
<1> DEFINE f == OptionState(e, i, state)
<1>1. e \in Engine
  BY DEF OK
<1>2. f \in Engine /\ f.buffer = e.buffer /\ f.command = e.command
  BY <1>1, OptionStateType
<1>3. f.said = e.said /\ f.wire = e.wire
  BY <1>1, OptionStateType
<1>4. f.options[i] = state /\ \A j \in 1..7 : j # i => f.options[j] = e.options[j]
  BY <1>1, OptionStateType
<1> HIDE DEF f
<1>5. ASSUME NEW j \in {6, 7} PROVE Settled(j, f.said, f.options[j])
  <2>1. Settled(j, e.said, e.options[j])
    BY DEF OK
  <2>2. CASE j = i
    <3>1. AnswersIn(j, e.said) = {}
      BY <2>1, <2>2 DEF Settled
    <3> QED BY <1>3, <3>1 DEF Settled, Alternate, LastSays
  <2>3. CASE j # i
    BY <1>3, <1>4, <2>1, <2>3
  <2> QED BY <2>2, <2>3
<1> QED BY <1>2, <1>3, <1>5 DEF Keeps, OK, f

\* A state of the COM port option that is told.
LEMMA ToldState ==
  ASSUME NEW e, OK(e), NEW i \in {6, 7}, NEW state \in {"active", "inactive"}, NEW verb \in Verbs(i),
         (verb = option_defs[i].send_yes) = (state = "active"),
         (e.options[i] = "active") = (verb # option_defs[i].send_yes)
  PROVE  Keeps(e, telnet_send_option(OptionState(e, i, state), verb, 44))
<1> DEFINE g == OptionState(e, i, state)
           f == telnet_send_option(g, verb, 44)
<1>0. verb \in 251..254 /\ verb \in Bytes /\ 44 \in Bytes /\ i \in 1..7
  BY VerbsOf DEF Bytes
<1>1. e \in Engine /\ e.said \in Seq(Said) /\ Decodes(e.wire, e.said)
  BY DEF OK, Engine
<1>2. g \in Engine /\ g.buffer = e.buffer /\ g.command = e.command
  BY <1>0, <1>1, OptionStateType
<1>3. g.said = e.said /\ g.wire = e.wire
  BY <1>0, <1>1, OptionStateType
<1>4. g.options[i] = state /\ \A j \in 1..7 : j # i => g.options[j] = e.options[j]
  BY <1>0, <1>1, OptionStateType
<1> HIDE DEF g
<1>5. f \in Engine /\ f.buffer = g.buffer /\ f.options = g.options /\ f.command = g.command
  BY <1>0, <1>2, SendOptionType
<1>6. f.said = g.said \o <<Neg(verb, 44)>> /\ f.wire = g.wire \o <<T_IAC, verb, 44>>
  BY <1>0, <1>2, SendOptionType
<1> HIDE DEF f
<1>7. Decodes(f.wire, f.said)
  <2>1. Decodes(<<T_IAC, verb, 44>>, <<Neg(verb, 44)>>)
    BY <1>0, DecodesNeg
  <2>2. Decodes(e.wire, e.said)
    BY <1>1
  <2>3. Decodes(e.wire \o <<T_IAC, verb, 44>>, e.said \o <<Neg(verb, 44)>>)
    BY <2>1, <2>2, DecodesConcat, Zenon
  <2>4. f.wire = e.wire \o <<T_IAC, verb, 44>> /\ f.said = e.said \o <<Neg(verb, 44)>>
    BY <1>3, <1>6
  <2> QED BY <2>3, <2>4
<1>8. ASSUME NEW j \in {6, 7} PROVE Settled(j, f.said, f.options[j])
  <2>1. Settled(j, e.said, e.options[j])
    BY DEF OK
  <2>2. CASE j = i
    <3>1. Settled(i, e.said \o <<Neg(verb, 44)>>, state)
      BY <1>1, <2>1, <2>2, SettledAnswer
    <3> QED BY <1>3, <1>4, <1>5, <1>6, <2>2, <3>1
  <2>3. CASE j # i
    <3> DEFINE x == Neg(verb, 44)
               one == <<x>>
    <3>1. x \in Said /\ x.verb = verb
      BY <1>0 DEF Said, Neg
    <3>2. ~IsAnswer(j, x)
      BY <2>3, <3>1, VerbsOf DEF IsAnswer
    <3> HIDE DEF x
    <3>3. one \in Seq(Said) /\ \A k \in 1..Len(one) : ~IsAnswer(j, one[k])
      BY <3>1, <3>2
    <3> HIDE DEF one
    <3>4. Settled(j, e.said \o one, e.options[j])
      BY <1>1, <2>1, <3>3, SettledSilent
    <3>5. f.options[j] = e.options[j]
      BY <1>4, <1>5, <2>3
    <3> QED BY <1>3, <1>6, <3>4, <3>5 DEF one, x
  <2> QED BY <2>2, <2>3
<1> QED BY <1>2, <1>5, <1>7, <1>8 DEF Keeps, OK, f, g

LEMMA IncomingKeeps ==
  ASSUME NEW e, OK(e), NEW i \in 1..7, NEW command
  PROVE  Keeps(e, telnet_option_process_incoming(e, i, command))
<1> DEFINE d == option_defs[i]
           r == telnet_option_process_incoming(e, i, command)
           on == OptionState(e, i, "active")
           off == OptionState(e, i, "inactive")
           o == e.options[i]
<1>0. e \in Engine
  BY DEF OK
<1>1. d.port \in BOOLEAN /\ (d.port <=> i \in {6, 7}) /\ (i \in {6, 7} => d.option = 44)
  BY OptionDefTypes
<1>2. i \in {6, 7} => /\ d.send_yes \in Verbs(i) /\ d.send_no \in Verbs(i) /\ d.send_yes # d.send_no
  BY VerbsOf
<1> HIDE DEF on, off
<1>3. CASE r = e
  BY <1>3 DEF Keeps
<1>4. CASE o = "requested" /\ r = IF d.port THEN on_client_ok(on) ELSE on
  <2>1. Keeps(e, on)
    BY <1>4, QuietState DEF on
  <2>2. Keeps(on, on_client_ok(on))
    BY <2>1, ClientOkKeeps DEF Keeps
  <2> QED BY <1>4, <2>1, <2>2 DEF Keeps
<1>5. CASE o = "inactive" /\ r = IF d.port THEN on_client_ok(telnet_send_option(on, d.send_yes, d.option)) ELSE on
  <2>1. CASE i \in {6, 7}
    <3> DEFINE f == telnet_send_option(on, d.send_yes, 44)
    <3>1. Keeps(e, f)
      <4> DEFINE verb == d.send_yes
      <4>1. verb \in Verbs(i) /\ verb = option_defs[i].send_yes
        BY <1>2, <2>1
      <4> HIDE DEF verb
      <4>2. (verb = option_defs[i].send_yes) = ("active" = "active") /\ (e.options[i] = "active") = (verb # option_defs[i].send_yes)
        BY <1>5, <4>1
      <4>3. Keeps(e, telnet_send_option(OptionState(e, i, "active"), verb, 44))
        BY <2>1, <4>1, <4>2, ToldState
      <4> QED BY <4>3 DEF verb, on
    <3> HIDE DEF f
    <3>2. Keeps(f, on_client_ok(f))
      BY <3>1, ClientOkKeeps DEF Keeps
    <3>3. r = on_client_ok(f)
      BY <1>1, <1>5, <2>1 DEF f
    <3> QED BY <3>1, <3>2, <3>3 DEF Keeps
  <2>2. CASE i \notin {6, 7}
    <3>1. Keeps(e, on)
      BY <2>2, QuietState DEF on
    <3> QED BY <1>1, <1>5, <2>2, <3>1
  <2> QED BY <2>1, <2>2
<1>6. CASE o = "requested" /\ r = off
  BY <1>6, QuietState DEF off
<1>7. CASE o = "active" /\ r = IF d.port THEN telnet_send_option(off, d.send_no, d.option) ELSE off
  <2>1. CASE i \in {6, 7}
    <3> DEFINE verb == d.send_no
    <3>1. verb \in Verbs(i) /\ verb # option_defs[i].send_yes
      BY <1>2, <2>1
    <3>2. r = telnet_send_option(off, verb, 44)
      BY <1>1, <1>7, <2>1
    <3> HIDE DEF verb
    <3>3. (verb = option_defs[i].send_yes) = ("inactive" = "active") /\ (e.options[i] = "active") = (verb # option_defs[i].send_yes)
      BY <1>7, <3>1
    <3>4. Keeps(e, telnet_send_option(OptionState(e, i, "inactive"), verb, 44))
      BY <2>1, <3>1, <3>3, ToldState
    <3> QED BY <3>2, <3>4 DEF off
  <2>2. CASE i \notin {6, 7}
    <3>1. Keeps(e, off)
      BY <2>2, QuietState DEF off
    <3> QED BY <1>1, <1>7, <2>2, <3>1
  <2> QED BY <2>1, <2>2
<1> QED BY <1>0, <1>3, <1>4, <1>5, <1>6, <1>7, IncomingArms DEF on, off

LEMMA OffersKeeps ==
  ASSUME NEW e, OK(e), NEW option
  PROVE  Keeps(e, Offers(e, option))
<1>1. PICK f : /\ f[0] = e
               /\ \A n \in 1..7 : f[n] = Offered(f[n - 1], n, option, e.command)
               /\ Offers(e, option) = f[7]
  BY FoldOptions
<1> DEFINE T == {n \in Nat : n <= 7 => Keeps(e, f[n])}
<1>2. 0 \in T
  BY <1>1 DEF Keeps
<1>3. ASSUME NEW n \in Nat, n \in T PROVE n + 1 \in T
  <2>1. SUFFICES ASSUME n + 1 <= 7 PROVE Keeps(e, f[n + 1])
    OBVIOUS
  <2>2. n + 1 \in 1..7 /\ n <= 7 /\ (n + 1) - 1 = n
    BY <2>1
  <2>3. f[n + 1] = Offered(f[n], n + 1, option, e.command) /\ Keeps(e, f[n])
    BY <1>1, <1>3, <2>2
  <2> DEFINE g == f[n]
             m == n + 1
  <2>4. Keeps(e, g) /\ m \in 1..7
    BY <2>2, <2>3
  <2> HIDE DEF g, m
  <2>5. Keeps(e, Offered(g, m, option, e.command))
    <3>1. Keeps(g, telnet_option_process_incoming(g, m, e.command))
      BY <2>4, IncomingKeeps DEF Keeps
    <3> QED BY <2>4, <3>1 DEF Keeps, Offered
  <2> QED BY <2>3, <2>5 DEF g, m
<1>4. 7 \in T
  <2> HIDE DEF T
  <2> QED BY <1>2, <1>3, Upwards
<1> QED BY <1>1, <1>4

Known(option) == SelectInSeq(option_defs, LAMBDA d : d.option = option) # 0

LEMMA ComPortKnown == Known(44)
<1> DEFINE I == {i \in 1..Len(option_defs) : option_defs[i].option = 44}
<1>1. (I # {} /\ Min(I) # 0) => Known(44)
  BY DEF Known, SelectInSeq
<1>2. I = {6, 7}
  BY OptionDefs, OptionDefTypes
<1>3. Min({6, 7}) = 6
  BY DEF Min
<1> HIDE DEF I
<1>4. I # {} /\ Min(I) = 6
  BY <1>2, <1>3
<1> QED BY <1>1, <1>4

LEMMA NegotiateKeeps ==
  ASSUME NEW e, OK(e), NEW option \in Bytes
  PROVE  Keeps(e, telnet_negotiate_option(e, option))
<1> DEFINE r == telnet_negotiate_option(e, option)
<1>1. r = CASE Known(option) -> Offers(e, option)
            [] ~Known(option) /\ e.command = T_WILL -> telnet_send_option(e, T_DONT, option)
            [] ~Known(option) /\ e.command = T_DO -> telnet_send_option(e, T_WONT, option)
            [] OTHER -> e
  BY DEF telnet_negotiate_option, Known, Offers, Offered
<1> HIDE DEF r
<1>2. Known(option) \in BOOLEAN /\ T_WILL # T_DO
  BY DEF Known, T_WILL, T_DO
<1>3. ASSUME NEW verb \in 251..254, ~Known(option) PROVE Keeps(e, telnet_send_option(e, verb, option))
  <2> DEFINE x == Neg(verb, option)
             one == <<x>>
  <2>1. x \in Said /\ x.opt = option
    BY DEF Said, Neg, Bytes
  <2>2. option # 44
    BY <1>3, ComPortKnown
  <2> HIDE DEF x
  <2>3. one \in Seq(Said) /\ \A k \in 1..Len(one) : one[k].t # "neg" \/ one[k].opt # 44
    BY <2>1, <2>2
  <2>4. Decodes(<<T_IAC, verb, option>>, one)
    BY DecodesNeg DEF x
  <2> HIDE DEF one
  <2>5. Keeps(e, Send(e, <<T_IAC, verb, option>>, one))
    BY <2>3, <2>4, SendKeeps
  <2> QED BY <2>5 DEF telnet_send_option, one, x
<1>4. CASE Known(option)
  <2>1. r = Offers(e, option)
    BY <1>1, <1>4
  <2> QED BY <2>1, OffersKeeps DEF r
<1>5. CASE ~Known(option) /\ e.command = T_WILL
  <2>1. r = telnet_send_option(e, T_DONT, option)
    BY <1>1, <1>2, <1>5
  <2>2. T_DONT \in 251..254
    BY DEF T_DONT
  <2> QED BY <1>3, <1>5, <2>1, <2>2 DEF r
<1>6. CASE ~Known(option) /\ e.command = T_DO
  <2>1. r = telnet_send_option(e, T_WONT, option)
    BY <1>1, <1>2, <1>6
  <2>2. T_WONT \in 251..254
    BY DEF T_WONT
  <2> QED BY <1>3, <1>6, <2>1, <2>2 DEF r
<1>7. CASE ~Known(option) /\ e.command # T_WILL /\ e.command # T_DO
  <2>1. r = e
    BY <1>1, <1>7
  <2> QED BY <2>1 DEF r, Keeps
<1> QED BY <1>4, <1>5, <1>6, <1>7

LEMMA ReplyKeeps ==
  ASSUME NEW e, OK(e), NEW command \in 0..254, NEW data \in Seq(Bytes)
  PROVE  Keeps(e, rfc2217_send_subnegotiation(e, command, data))
<1> DEFINE payload == <<T_COM_PORT_OPTION, command>> \o data
           x == Sub(payload)
           one == <<x>>
           bytes == <<T_IAC, T_SB, T_COM_PORT_OPTION, command>> \o Escape(data) \o <<T_IAC, T_SE>>
<1>1. Decodes(bytes, one)
  BY DecodesSub
<1>2. payload \in Seq(Bytes)
  <2>1. T_COM_PORT_OPTION \in Bytes /\ command \in Bytes
    BY DEF T_COM_PORT_OPTION, Bytes
  <2>2. <<T_COM_PORT_OPTION, command>> \in Seq(Bytes)
    BY <2>1, TwoBytes, EmptySeq
  <2> QED BY <2>2, Joined
<1>3. rfc2217_send_subnegotiation(e, command, data) = Send(e, bytes, one)
  BY DEF rfc2217_send_subnegotiation
<1> HIDE DEF payload, bytes
<1>4. x \in Said /\ x.t = "sub"
  BY <1>2 DEF Said, Sub
<1> HIDE DEF x
<1>5. one \in Seq(Said) /\ \A k \in 1..Len(one) : one[k].t # "neg" \/ one[k].opt # 44
  BY <1>4
<1> HIDE DEF one
<1> QED BY <1>1, <1>3, <1>5, SendKeeps

LEMMA SubnegotiationKeeps ==
  ASSUME NEW e, OK(e)
  PROVE  Keeps(e, process_subnegotiation(e))
<1> DEFINE s == e.suboption
           r == process_subnegotiation(e)
           Reply(f, data) == rfc2217_send_subnegotiation(f, Server(s[2]), data)
           baud == SubSeq(s, 3, 6)
           one == <<s[3]>>
<1>1. s \in [1..SubSize -> Bytes] /\ SubSize \in Nat /\ SubSize >= 6
  BY TelnetAssumption DEF OK, Engine
<1>2. \A i \in 1..6 : s[i] \in Bytes
  BY <1>1
<1>3. baud \in Seq(Bytes) /\ one \in Seq(Bytes)
  <2>1. \A i \in 3..6 : s[i] \in Bytes
    BY <1>2
  <2> HIDE DEF s
  <2>2. baud \in Seq(Bytes)
    BY <2>1, SubSeqProperties
  <2>3. one \in Seq(Bytes)
    BY <1>2
  <2> QED BY <2>2, <2>3
<1>4. s[3] \in Bytes
  BY <1>2
<1> HIDE DEF s, baud, one
<1>5. ASSUME NEW f, Keeps(e, f), s[2] \in 1..12, NEW data \in Seq(Bytes) PROVE Keeps(e, Reply(f, data))
  <2>1. Server(s[2]) \in 0..254
    <3>1. \A n \in 1..12 : Server(n) \in 0..254
      BY DEF Server
    <3> QED BY <1>5, <3>1
  <2>2. Keeps(f, Reply(f, data))
    BY <1>5, <2>1, ReplyKeeps DEF Keeps
  <2> HIDE DEF Reply
  <2> QED BY <1>5, <2>2 DEF Keeps
<1>6. ASSUME NEW f, Keeps(e, f), NEW token \in Logged PROVE Keeps(e, Call(f, token))
  <2>1. Keeps(f, Call(f, token))
    BY <1>6, CallKeeps DEF Keeps
  <2> QED BY <1>6, <2>1 DEF Keeps
<1>7. Keeps(e, e)
  BY DEF Keeps
<1> DEFINE com == s[1] = T_COM_PORT_OPTION
           command == s[2]
<1>8. r = CASE ~com -> e
            [] com /\ command = T_SET_BAUDRATE -> Reply(Call(e, [t |-> "baudrate", rate |-> baud]), baud)
            [] com /\ command = T_SET_CONTROL -> Reply(Call(e, [t |-> "control", v |-> s[3]]), one)
            [] com /\ command = T_PURGE_DATA -> Reply(Call(Reply(e, one), [t |-> "purge", v |-> s[3]]), one)
            [] com /\ command \in Echoed -> Reply(e, one)
            [] OTHER -> e
  BY DEF process_subnegotiation, s, baud, one
<1> HIDE DEF r, Reply
<1>9. com \in BOOLEAN
  OBVIOUS
<1> HIDE DEF com
<1> USE DEF T_SET_BAUDRATE, T_SET_CONTROL, T_PURGE_DATA, Echoed
<1>10. CASE ~com
  <2>1. r = e
    BY <1>8, <1>10
  <2> QED BY <1>7, <2>1 DEF r
<1>11. CASE com /\ command = 1
  <2>0. ~(command = 5) /\ ~(command = 12) /\ ~(command \in {2, 3, 4, 6, 7}) /\ command \in 1..12
    BY <1>11
  <2>1. r = Reply(Call(e, [t |-> "baudrate", rate |-> baud]), baud)
    BY <1>8, <1>11, <2>0
  <2>2. [t |-> "baudrate", rate |-> baud] \in Logged
    BY <1>3 DEF Logged
  <2>3. Keeps(e, Call(e, [t |-> "baudrate", rate |-> baud]))
    BY <1>6, <1>7, <2>2
  <2> QED BY <1>3, <1>5, <2>0, <2>1, <2>3 DEF r
<1>12. CASE com /\ command = 5
  <2>0. ~(command = 1) /\ ~(command = 12) /\ ~(command \in {2, 3, 4, 6, 7}) /\ command \in 1..12
    BY <1>12
  <2>1. r = Reply(Call(e, [t |-> "control", v |-> s[3]]), one)
    BY <1>8, <1>12, <2>0
  <2>2. [t |-> "control", v |-> s[3]] \in Logged
    BY <1>4 DEF Logged
  <2>3. Keeps(e, Call(e, [t |-> "control", v |-> s[3]]))
    BY <1>6, <1>7, <2>2
  <2> QED BY <1>3, <1>5, <2>0, <2>1, <2>3 DEF r
<1>13. CASE com /\ command = 12
  <2>0. ~(command = 1) /\ ~(command = 5) /\ ~(command \in {2, 3, 4, 6, 7}) /\ command \in 1..12
    BY <1>13
  <2>1. r = Reply(Call(Reply(e, one), [t |-> "purge", v |-> s[3]]), one)
    BY <1>8, <1>13, <2>0
  <2>2. [t |-> "purge", v |-> s[3]] \in Logged
    BY <1>4 DEF Logged
  <2>3. Keeps(e, Reply(e, one))
    BY <1>3, <1>5, <1>7, <2>0
  <2>4. Keeps(e, Call(Reply(e, one), [t |-> "purge", v |-> s[3]]))
    BY <1>6, <2>2, <2>3
  <2> QED BY <1>3, <1>5, <2>0, <2>1, <2>4 DEF r
<1>14. CASE com /\ command \in {2, 3, 4, 6, 7}
  <2>0. ~(command = 1) /\ ~(command = 5) /\ ~(command = 12) /\ command \in 1..12
    BY <1>14
  <2>1. r = Reply(e, one)
    BY <1>8, <1>14, <2>0
  <2> QED BY <1>3, <1>5, <1>7, <2>0, <2>1 DEF r
<1>15. CASE com /\ command \notin {1, 5, 12, 2, 3, 4, 6, 7}
  <2>1. r = e
    BY <1>8, <1>15
  <2> QED BY <1>7, <2>1 DEF r
<1> QED BY <1>9, <1>10, <1>11, <1>12, <1>13, <1>14, <1>15

\* A step that says nothing and leaves the options alone.
LEMMA QuietKeeps ==
  ASSUME NEW e, OK(e), NEW f \in Engine, f.wire = e.wire, f.said = e.said, f.options = e.options
  PROVE  OK(f)
  BY DEF OK

LEMMA DeliverKeeps ==
  ASSUME NEW e, OK(e), NEW data \in Seq(Bytes)
  PROVE  Keeps(e, Deliver(e, data))
<1> DEFINE l == e.log \o AsData(data)
           f == [e EXCEPT !.log = l]
<1>1. e \in Engine /\ e.log \in Seq(Logged)
  BY DEF OK, Engine
<1>2. l \in Seq(Logged)
  <2>1. AsData(data) \in Seq(Logged)
    BY AsDataType
  <2> QED BY <1>1, <2>1, ConcatProperties
<1>3. Deliver(e, data) = f
  BY <1>1 DEF Deliver, AsData, Engine
<1> HIDE DEF l
<1>4. f \in Engine /\ f.buffer = e.buffer
  BY <1>1, <1>2, LogChanged
<1>5. f.options = e.options /\ f.command = e.command
  BY <1>1, <1>2, LogChanged
<1>6. f.said = e.said /\ f.wire = e.wire
  BY <1>1, <1>2, LogChanged
<1> HIDE DEF f
<1> QED BY <1>3, <1>4, <1>5, <1>6, QuietKeeps DEF Keeps

LEMMA FlushKeeps ==
  ASSUME NEW e, OK(e)
  PROVE  OK(Flush(e)) /\ Flush(e).buffer = <<>>
<1> DEFINE g == Deliver(e, e.buffer)
           f == [g EXCEPT !.buffer = <<>>]
<1>1. e.buffer \in Seq(Bytes)
  BY DEF OK, Engine
<1>2. OK(g)
  BY <1>1, DeliverKeeps DEF Keeps
<1>3. Flush(e) = f
  BY DEF Flush
<1> HIDE DEF g
<1>4. g \in Engine /\ <<>> \in Seq(Bytes)
  BY <1>2, EmptySeq DEF OK
<1>5. f \in Engine /\ f.buffer = <<>>
  BY <1>4 DEF Engine
<1>6. f.wire = g.wire /\ f.said = g.said /\ f.options = g.options
  BY <1>4 DEF Engine
<1> HIDE DEF f
<1> QED BY <1>2, <1>3, <1>5, <1>6, QuietKeeps

LEMMA CollectKeeps ==
  ASSUME NEW e, OK(e), NEW c \in Bytes
  PROVE  OK(Collect(e, c))
<1>1. e \in Engine
  BY DEF OK
<1>2. SubSize \in Nat /\ e.size \in 0..SubSize /\ e.suboption \in [1..SubSize -> Bytes]
  BY <1>1, TelnetAssumption DEF Engine
<1>3. CASE e.size < SubSize
  <2> DEFINE n == e.size + 1
             o == [e.suboption EXCEPT ![n] = c]
             f == [e EXCEPT !.suboption = o, !.size = n]
  <2>1. n \in 0..SubSize
    BY <1>2, <1>3
  <2>2. o \in [1..SubSize -> Bytes]
    BY <1>2
  <2>3. Collect(e, c) = f
    BY <1>1, <1>3 DEF Collect, Engine
  <2> HIDE DEF o, n
  <2>4. f \in Engine
    BY <1>1, <2>1, <2>2 DEF Engine
  <2>5. f.wire = e.wire /\ f.said = e.said /\ f.options = e.options
    BY <1>1 DEF Engine
  <2> HIDE DEF f
  <2> QED BY <2>3, <2>4, <2>5, QuietKeeps
<1>4. CASE ~(e.size < SubSize)
  <2> DEFINE f == [e EXCEPT !.collecting = FALSE, !.size = 0]
  <2>1. Collect(e, c) = f
    BY <1>4 DEF Collect
  <2>2. f \in Engine
    <3>1. 0 \in 0..SubSize
      BY <1>2
    <3> QED BY <1>1, <3>1 DEF Engine
  <2>3. f.wire = e.wire /\ f.said = e.said /\ f.options = e.options
    BY <1>1 DEF Engine
  <2> HIDE DEF f
  <2> QED BY <2>1, <2>2, <2>3, QuietKeeps
<1> QED BY <1>3, <1>4

LEMMA BufferKeeps ==
  ASSUME NEW e, OK(e), NEW c \in Bytes
  PROVE  OK(Buffer(e, c))
<1> DEFINE b == Append(e.buffer, c)
           f == [e EXCEPT !.buffer = b]
<1>1. e \in Engine /\ e.buffer \in Seq(Bytes)
  BY DEF OK, Engine
<1>2. b \in Seq(Bytes)
  BY <1>1, AppendProperties
<1>3. Buffer(e, c) = IF Len(f.buffer) >= DataSize THEN Flush(f) ELSE f
  BY <1>1 DEF Buffer, Engine
<1> HIDE DEF b
<1>4. f \in Engine
  BY <1>1, <1>2 DEF Engine
<1>5. f.wire = e.wire /\ f.said = e.said /\ f.options = e.options
  BY <1>1 DEF Engine
<1> HIDE DEF f
<1>6. OK(f)
  BY <1>4, <1>5, QuietKeeps
<1> QED BY <1>3, <1>6, FlushKeeps

LEMMA StoreKeeps ==
  ASSUME NEW e, OK(e), NEW c \in Bytes
  PROVE  OK(Store(e, c))
  BY CollectKeeps, BufferKeeps DEF Store

\* The mode and what else is kept of the byte before.
LEMMA ModeKeeps ==
  ASSUME NEW e, OK(e), NEW mode \in {"normal", "got_iac", "negotiate"}
  PROVE  OK([e EXCEPT !.mode = mode])
<1> DEFINE f == [e EXCEPT !.mode = mode]
<1>1. e \in Engine
  BY DEF OK
<1>2. f \in Engine
  BY <1>1 DEF Engine
<1>3. f.wire = e.wire /\ f.said = e.said /\ f.options = e.options
  BY <1>1 DEF Engine
<1> HIDE DEF f
<1>4. OK(f)
  BY <1>2, <1>3, QuietKeeps
<1> QED BY <1>4 DEF f

LEMMA EmptiedKeeps ==
  ASSUME NEW e, OK(e), NEW collecting \in BOOLEAN
  PROVE  OK([e EXCEPT !.size = 0, !.collecting = collecting])
<1> DEFINE f == [e EXCEPT !.size = 0, !.collecting = collecting]
<1>1. e \in Engine
  BY DEF OK
<1>2. 0 \in 0..SubSize
  BY TelnetAssumption
<1>3. f \in Engine
  BY <1>1, <1>2 DEF Engine
<1>4. f.wire = e.wire /\ f.said = e.said /\ f.options = e.options
  BY <1>1 DEF Engine
<1> HIDE DEF f
<1>5. OK(f)
  BY <1>3, <1>4, QuietKeeps
<1> QED BY <1>5 DEF f

LEMMA CommandKeeps ==
  ASSUME NEW e, OK(e), NEW c \in 251..254
  PROVE  OK([e EXCEPT !.command = c, !.mode = "negotiate"])
<1> DEFINE f == [e EXCEPT !.command = c, !.mode = "negotiate"]
<1>1. e \in Engine
  BY DEF OK
<1>2. f \in Engine
  BY <1>1 DEF Engine
<1>3. f.wire = e.wire /\ f.said = e.said /\ f.options = e.options
  BY <1>1 DEF Engine
<1> HIDE DEF f
<1>4. OK(f)
  BY <1>2, <1>3, QuietKeeps
<1> QED BY <1>4 DEF f

LEMMA GotIacKeeps ==
  ASSUME NEW e, OK(e), NEW c \in Bytes
  PROVE  OK(InGotIac(e, c))
<1> DEFINE Normal(f) == [f EXCEPT !.mode = "normal"]
           r == InGotIac(e, c)
<1>1. ASSUME NEW f, OK(f) PROVE OK(Normal(f))
  BY <1>1, ModeKeeps
<1>2. r = CASE c = 255 -> Normal(Store(e, c))
            [] c = 250 -> Normal([e EXCEPT !.size = 0, !.collecting = TRUE])
            [] c = 240 -> Normal([process_subnegotiation(e) EXCEPT !.size = 0, !.collecting = FALSE])
            [] c \in 251..254 -> [e EXCEPT !.command = c, !.mode = "negotiate"]
            [] OTHER -> Normal(e)
  BY DEF InGotIac, T_IAC, T_SB, T_SE, T_WILL, T_DONT
<1> HIDE DEF r, Normal
<1>3. CASE c = 255
  <2>1. c # 250 /\ c # 240 /\ c \notin 251..254
    BY <1>3
  <2>2. r = Normal(Store(e, c))
    BY <1>2, <1>3, <2>1
  <2> QED BY <1>1, <2>2, StoreKeeps DEF r
<1>4. CASE c = 250
  <2>1. c # 255 /\ c # 240 /\ c \notin 251..254
    BY <1>4
  <2>2. r = Normal([e EXCEPT !.size = 0, !.collecting = TRUE])
    BY <1>2, <1>4, <2>1
  <2> QED BY <1>1, <2>2, EmptiedKeeps DEF r
<1>5. CASE c = 240
  <2> DEFINE g == process_subnegotiation(e)
  <2>1. c # 255 /\ c # 250 /\ c \notin 251..254
    BY <1>5
  <2>2. r = Normal([g EXCEPT !.size = 0, !.collecting = FALSE])
    BY <1>2, <1>5, <2>1
  <2>3. OK(g)
    BY SubnegotiationKeeps DEF Keeps
  <2> HIDE DEF g
  <2>4. OK([g EXCEPT !.size = 0, !.collecting = FALSE])
    BY <2>3, EmptiedKeeps
  <2> QED BY <1>1, <2>2, <2>4 DEF r
<1>6. CASE c \in 251..254
  <2>1. c # 255 /\ c # 250 /\ c # 240
    BY <1>6
  <2>2. r = [e EXCEPT !.command = c, !.mode = "negotiate"]
    BY <1>2, <1>6, <2>1
  <2>3. OK([e EXCEPT !.command = c, !.mode = "negotiate"])
    BY <1>6, CommandKeeps
  <2>4. OK(r)
    BY <2>2, <2>3
  <2> QED BY <2>4 DEF r
<1>7. CASE c \notin {255, 250, 240} \cup 251..254
  <2>1. r = Normal(e)
    BY <1>2, <1>7
  <2> QED BY <1>1, <2>1 DEF r
<1> QED BY <1>3, <1>4, <1>5, <1>6, <1>7

LEMMA ByteKeeps ==
  ASSUME NEW e, OK(e), NEW c \in Bytes
  PROVE  OK(Byte(e, c))
<1>1. e.mode \in {"normal", "got_iac", "negotiate"}
  BY DEF OK, Engine
<1>2. CASE e.mode = "normal"
  <2>1. Byte(e, c) = InNormal(e, c)
    BY <1>2 DEF Byte
  <2>2. CASE c = T_IAC
    BY <2>1, <2>2, ModeKeeps DEF InNormal
  <2>3. CASE c # T_IAC
    BY <2>1, <2>3, StoreKeeps DEF InNormal
  <2> QED BY <2>2, <2>3
<1>3. CASE e.mode = "got_iac"
  <2>1. Byte(e, c) = InGotIac(e, c)
    BY <1>3 DEF Byte
  <2> QED BY <2>1, GotIacKeeps
<1>4. CASE e.mode = "negotiate"
  <2> DEFINE g == telnet_negotiate_option(e, c)
  <2>1. Byte(e, c) = [g EXCEPT !.mode = "normal"]
    BY <1>4 DEF Byte, InNegotiate
  <2>2. OK(g)
    BY NegotiateKeeps DEF Keeps
  <2> HIDE DEF g
  <2> QED BY <2>1, <2>2, ModeKeeps
<1> QED BY <1>1, <1>2, <1>3, <1>4

\* A whole segment.
LEMMA ReceiveKeeps ==
  ASSUME NEW e, OK(e), e.buffer = <<>>, NEW buf \in Seq(Bytes)
  PROVE  LET r == process_received_over_tcp(e, buf) IN OK(r) /\ r.buffer = <<>>
<1>1. CASE FastPath(e, buf)
  BY <1>1, DeliverKeeps DEF Keeps, process_received_over_tcp
<1>2. CASE ~FastPath(e, buf)
  <2>0. buf \in Seq(0..255)
    BY DEF Bytes
  <2>1. PICK f : /\ f[0] = e
                 /\ \A n \in 1..Len(buf) : f[n] = Byte(f[n - 1], buf[n])
                 /\ FoldLeft(Byte, e, buf) = f[Len(buf)]
    BY <2>0, FoldBytes
  <2> DEFINE L == Len(buf)
             T == {n \in Nat : n <= L => OK(f[n])}
  <2>2. L \in Nat /\ \A n \in 1..L : buf[n] \in Bytes
    BY LenProperties, ElementOfSeq
  <2>3. 0 \in T
    BY <2>1
  <2>4. ASSUME NEW n \in Nat, n \in T PROVE n + 1 \in T
    <3>1. SUFFICES ASSUME n + 1 <= L PROVE OK(f[n + 1])
      OBVIOUS
    <3>2. n + 1 \in 1..L /\ n <= L /\ (n + 1) - 1 = n
      BY <2>2, <3>1
    <3>3. f[n + 1] = Byte(f[n], buf[n + 1]) /\ OK(f[n]) /\ buf[n + 1] \in Bytes
      BY <2>1, <2>2, <2>4, <3>2
    <3> QED BY <3>3, ByteKeeps
  <2>5. L \in T
    <3> HIDE DEF T
    <3> QED BY <2>2, <2>3, <2>4, Upwards
  <2>6. OK(f[L])
    <3>1. L <= L
      BY <2>2
    <3> QED BY <2>5, <3>1
  <2>7. process_received_over_tcp(e, buf) = Flush(f[L])
    BY <1>2, <2>1 DEF process_received_over_tcp
  <2> HIDE DEF L
  <2> QED BY <2>6, <2>7, FlushKeeps
<1> QED BY <1>1, <1>2

LEMMA SendDataKeeps ==
  ASSUME NEW e, OK(e), NEW data \in Seq(Bytes)
  PROVE  Keeps(e, Send(e, Escape(data), AsData(data)))
<1>1. Decodes(Escape(data), AsData(data))
  BY DecodesEscape
<1>2. AsData(data) \in Seq(Said)
  BY AsDataType
<1>3. \A k \in 1..Len(AsData(data)) : AsData(data)[k].t # "neg"
  <2>1. Len(AsData(data)) = Len(data) /\ DOMAIN data = 1..Len(data)
    BY LenProperties DEF AsData
  <2>2. \A k \in DOMAIN data : AsData(data)[k].t = "data"
    BY DEF AsData, DataToken
  <2> QED BY <2>1, <2>2
<1> QED BY <1>1, <1>2, <1>3, SendKeeps

-----------------------------------------------------------------------------
(* The specification.                                                      *)

IInv == TypeInv /\ OK(tn)

LEMMA NothingSaid ==
  ASSUME NEW i, NEW state
  PROVE  Settled(i, <<>>, state)
<1>1. AnswersIn(i, <<>>) = {}
  BY DEF AnswersIn
<1> QED BY <1>1 DEF Settled, Alternate, LastSays

LEMMA FreshOK ==
  ASSUME NEW suboption \in [1..SubSize -> Bytes]
  PROVE  OK(Fresh(suboption)) /\ Fresh(suboption).buffer = <<>>
<1> DEFINE f == Fresh(suboption)
           o == [i \in DOMAIN option_defs |-> option_defs[i].initial]
<1>1. o \in [1..7 -> {"requested", "active", "inactive"}]
  BY OptionDefs, OptionDefTypes
<1>2. 0 \in 0..SubSize
  BY TelnetAssumption
<1>3. <<>> \in Seq(Bytes) /\ <<>> \in Seq(Said) /\ <<>> \in Seq(Logged)
  BY EmptySeq
<1>4. f = [mode |-> "normal", command |-> 0, collecting |-> FALSE, suboption |-> suboption, size |-> 0,
           options |-> o, rfc2217 |-> FALSE, buffer |-> <<>>, log |-> <<>>, said |-> <<>>, wire |-> <<>>]
  BY DEF Fresh
<1> HIDE DEF o, f
<1>5. f \in Engine
  BY <1>1, <1>2, <1>3, <1>4 DEF Engine
<1>6. f.said = <<>> /\ f.wire = <<>> /\ f.buffer = <<>>
  BY <1>4
<1> QED BY <1>5, <1>6, DecodesEmpty, NothingSaid DEF OK, f

LEMMA InitIInv == Init => IInv
<1> SUFFICES ASSUME Init PROVE IInv
  OBVIOUS
<1>1. [i \in 1..SubSize |-> 0] \in [1..SubSize -> Bytes]
  BY DEF Bytes
<1>2. OK(tn) /\ tn.buffer = <<>>
  BY <1>1, FreshOK DEF Init
<1>3. <<>> \in Seq(Bytes) /\ 0 \in 0..MaxSends
  BY EmptySeq, TelnetAssumption
<1> QED BY <1>2, <1>3 DEF Init, IInv, TypeInv, OK

LEMMA NextIInv == IInv /\ [Next]_vars => IInv'
<1> SUFFICES ASSUME IInv, [Next]_vars PROVE IInv'
  OBVIOUS
<1> USE DEF IInv, TypeInv
<1>0. OK(tn) => tn \in Engine
  BY DEF OK
<1>1. CASE Connect
  <2>1. OK(tn') /\ tn'.buffer = <<>>
    <3>1. tn.suboption \in [1..SubSize -> Bytes]
      BY DEF Engine
    <3> QED BY <1>1, <3>1, FreshOK DEF Connect
  <2>2. pipe' \in Seq(Bytes)
    <3>1. PICK n \in 1..MaxItems : \E said \in [1..n -> Items], tail \in Tails : pipe' = FlattenSeq(said) \o tail
      BY <1>1 DEF Connect
    <3>2. PICK said \in [1..n -> Items], tail \in Tails : pipe' = FlattenSeq(said) \o tail
      BY <3>1
    <3>3. Items \subseteq Seq(Bytes) /\ tail \in Seq(Bytes)
      BY TelnetAssumption DEF Bytes
    <3>4. n \in Nat
      BY TelnetAssumption
    <3>5. said \in Seq(Seq(Bytes))
      <4> DEFINE S == Seq(Bytes)
      <4>1. said \in [1..n -> S]
        BY <3>3
      <4> HIDE DEF S
      <4>2. said \in Seq(S)
        BY <3>4, <4>1, SeqDef
      <4> QED BY <4>2 DEF S
    <3>6. FlattenSeq(said) \in Seq(Bytes)
      BY <3>5, FlattenType
    <3> QED BY <3>2, <3>3, <3>6, Joined
  <2>3. tn' \in Engine
    BY <2>1 DEF OK
  <2> QED BY <1>1, <2>1, <2>2, <2>3 DEF Connect, OK
<1>2. CASE Receive
  <2>1. PICK n \in 1 .. (IF Len(pipe) < RxSize THEN Len(pipe) ELSE RxSize) :
          LET buf == SubSeq(pipe, 1, n)
          IN  /\ tn' = process_received_over_tcp(tn, buf)
              /\ cut' = (cut \/ (tn.collecting /\ FastPath(tn, buf)))
              /\ seen' = seen \o buf
              /\ pipe' = SubSeq(pipe, n + 1, Len(pipe))
    BY <1>2 DEF Receive
  <2> DEFINE buf == SubSeq(pipe, 1, n)
             L == Len(pipe)
  <2>2. L \in Nat /\ RxSize \in Nat /\ \A i \in 1..L : pipe[i] \in Bytes
    BY LenProperties, ElementOfSeq, TelnetAssumption
  <2>3. n \in 1..L
    <3> HIDE DEF L
    <3>1. n \in 1 .. (IF L < RxSize THEN L ELSE RxSize)
      BY <2>1 DEF L
    <3> QED BY <2>2, <3>1
  <2>4. buf \in Seq(Bytes)
    <3>1. 1 \in Int /\ n \in Int /\ \A i \in 1..n : pipe[i] \in Bytes
      BY <2>2, <2>3
    <3> QED BY <3>1, SubSeqProperties
  <2>5. pipe' \in Seq(Bytes)
    <3>1. n + 1 \in Int /\ L \in Int /\ \A i \in n + 1..L : pipe[i] \in Bytes
      BY <2>2, <2>3
    <3>2. SubSeq(pipe, n + 1, L) \in Seq(Bytes)
      BY <3>1, SubSeqProperties
    <3> QED BY <2>1, <3>2
  <2>6. seen' \in Seq(Bytes)
    BY <2>1, <2>4, Joined
  <2>7. OK(tn') /\ tn'.buffer = <<>>
    BY <2>1, <2>4, ReceiveKeeps
  <2>8. cut' \in BOOLEAN
    BY <2>1 DEF Engine
  <2> HIDE DEF buf, L
  <2> QED BY <1>2, <2>5, <2>6, <2>7, <2>8 DEF Receive, OK
<1>3. CASE SendData
  <2>1. PICK data \in DeviceData : tn' = Send(tn, Escape(data), AsData(data))
    BY <1>3 DEF SendData, AsData
  <2>2. data \in Seq(Bytes)
    BY TelnetAssumption DEF Bytes
  <2>3. Keeps(tn, tn')
    BY <2>1, <2>2, SendDataKeeps
  <2>4. sends' \in 0..MaxSends
    BY <1>3, TelnetAssumption DEF SendData
  <2> QED BY <1>3, <2>3, <2>4 DEF SendData, Keeps, OK
<1>4. CASE Close
  <2> DEFINE f == [tn EXCEPT !.log = <<>>, !.said = <<>>, !.wire = <<>>]
  <2>1. <<>> \in Seq(Bytes) /\ <<>> \in Seq(Said) /\ <<>> \in Seq(Logged) /\ 0 \in 0..MaxSends
    BY EmptySeq, TelnetAssumption
  <2>2. f \in Engine
    BY <2>1 DEF Engine
  <2>3. f.said = <<>> /\ f.wire = <<>> /\ f.buffer = tn.buffer
    BY DEF Engine
  <2>4. tn' = f
    BY <1>4 DEF Close
  <2> HIDE DEF f
  <2>5. OK(tn')
    BY <2>2, <2>3, <2>4, DecodesEmpty, NothingSaid DEF OK
  <2> QED BY <1>4, <2>1, <2>2, <2>3, <2>4, <2>5 DEF Close
<1>5. CASE UNCHANGED vars
  BY <1>5 DEF vars, OK
<1> QED BY <1>1, <1>2, <1>3, <1>4, <1>5 DEF Next

LEMMA SpecIInv == Spec => []IInv
  BY InitIInv, NextIInv, PTL DEF Spec

\* Whatever the clients say and however TCP cuts it, the state stays in its type:
\* suboption_size never passes the end of suboption, the buffer for the serial port
\* is empty between segments, and only bytes are sent.
THEOREM EngineTypeCorrect == Spec => []TypeOK
<1>1. IInv => TypeOK
  BY TypeInvIsTypeOK DEF IInv
<1> QED BY <1>1, SpecIInv, PTL

\* For every client: the engine and its client do not answer each other for ever
\* about the COM port option, and its last word on it is the option's state.
THEOREM AnswersAlwaysSettle == Spec => []AnswersSettle
<1>1. IInv => AnswersSettle
  BY SettledIsAnswersSettle DEF IInv, OK
<1> QED BY <1>1, SpecIInv, PTL

\* For every client and every device: what the engine sends, the device's data, the
\* negotiations and the answers to port commands in whatever order they come, reads
\* by the rules of telnet as what it meant to say.
THEOREM WireAlwaysDecodes == Spec => []WireDecodes
<1>1. IInv => WireDecodes
  <2> SUFFICES ASSUME IInv PROVE WireDecodes
    OBVIOUS
  <2>1. tn.wire \in Seq(Bytes) /\ tn.said \in Seq(Tokens) /\ <<>> \in Seq(Bytes)
    BY EmptySeq DEF IInv, OK, Decodes
  <2>2. Read[tn.wire \o <<>>] = tn.said \o Read[<<>>]
    BY <2>1 DEF IInv, OK, Decodes
  <2>3. Read[<<>>] = <<>>
    BY <2>1, ReadDef DEF ReadStep, EndsAt
  <2>4. tn.wire \o <<>> = tn.wire
    BY <2>1, ConcatEmptySeq
  <2>5. tn.said \o <<>> = tn.said
    BY <2>1, ConcatEmptySeq
  <2> QED BY <2>2, <2>3, <2>4, <2>5 DEF WireDecodes, Parse
<1> QED BY <1>1, SpecIInv, PTL

-----------------------------------------------------------------------------
(* Sequences spread out: each entry is replaced by what m makes of it.     *)

Maps(m, A, B) == m \in [A -> Seq(B)]
Spread(m, s) == FlattenSeq([i \in DOMAIN s |-> m[s[i]]])

\* f is what has been spread out of s, entry by entry.
Spreads(f, B, m, s) ==
  /\ f[0] = <<>>
  /\ \A i \in 1..Len(s) : f[i] = f[i - 1] \o m[s[i]]
  /\ \A i \in 0..Len(s) : f[i] \in Seq(B)
  /\ Spread(m, s) = f[Len(s)]

LEMMA SpreadSteps ==
  ASSUME NEW A, NEW B, NEW m, Maps(m, A, B), NEW s \in Seq(A)
  PROVE  \E f : Spreads(f, B, m, s)
<1> DEFINE seqs == [i \in DOMAIN s |-> m[s[i]]]
<1>1. Len(s) \in Nat /\ DOMAIN s = 1..Len(s) /\ \A i \in 1..Len(s) : s[i] \in A
  BY LenProperties, ElementOfSeq
<1>2. \A x \in A : m[x] \in Seq(B)
  BY DEF Maps
<1>3. seqs \in Seq(Seq(B)) /\ Len(seqs) = Len(s) /\ \A i \in 1..Len(s) : seqs[i] = m[s[i]]
  BY <1>1, <1>2
<1>4. Spread(m, s) = FlattenSeq(seqs)
  BY DEF Spread
<1> HIDE DEF seqs
<1>5. PICK f : /\ f[0] = <<>>
               /\ \A i \in 1..Len(seqs) : f[i] = f[i - 1] \o seqs[i]
               /\ \A i \in 0..Len(seqs) : f[i] \in Seq(B)
               /\ FlattenSeq(seqs) = f[Len(seqs)]
  BY <1>3, Flattened
<1>6. \A i \in 1..Len(s) : f[i] = f[i - 1] \o m[s[i]]
  BY <1>3, <1>5
<1>7. f[0] = <<>> /\ (\A i \in 0..Len(s) : f[i] \in Seq(B)) /\ Spread(m, s) = f[Len(s)]
  BY <1>3, <1>4, <1>5
<1> QED BY <1>6, <1>7 DEF Spreads

LEMMA SpreadType ==
  ASSUME NEW A, NEW B, NEW m, Maps(m, A, B), NEW s \in Seq(A)
  PROVE  Spread(m, s) \in Seq(B)
<1>1. Len(s) \in 0..Len(s)
  BY LenProperties
<1>2. PICK f : Spreads(f, B, m, s)
  BY SpreadSteps, Zenon
<1> QED BY <1>1, <1>2 DEF Spreads

LEMMA SpreadEmpty == \A m : Spread(m, <<>>) = <<>>
  BY DEF Spread, FlattenSeq

LEMMA Appended ==
  ASSUME NEW A, NEW s \in Seq(A), NEW x \in A
  PROVE  /\ s \o <<x>> \in Seq(A) /\ Len(s) \in Nat /\ Len(s \o <<x>>) = Len(s) + 1
         /\ (s \o <<x>>)[Len(s) + 1] = x /\ \A i \in 1..Len(s) : (s \o <<x>>)[i] = s[i]
<1> DEFINE n == Len(s)
           u == s \o <<x>>
<1>1. <<x>> \in Seq(A) /\ Len(<<x>>) = 1 /\ <<x>>[1] = x
  OBVIOUS
<1>2. n \in Nat
  BY LenProperties
<1>3. u \in Seq(A) /\ Len(u) = n + 1 /\ \A i \in 1..n + 1 : u[i] = IF i <= n THEN s[i] ELSE <<x>>[i - n]
  BY <1>1, ConcatProperties
<1> HIDE DEF n, u
<1>4. u[n + 1] = x
  <2>1. n + 1 \in 1..n + 1 /\ ~(n + 1 <= n) /\ (n + 1) - n = 1
    BY <1>2
  <2> QED BY <1>1, <1>3, <2>1
<1>5. \A i \in 1..n : u[i] = s[i]
  BY <1>2, <1>3
<1> QED BY <1>2, <1>3, <1>4, <1>5 DEF n, u

Extends(m, A) == \A s \in Seq(A), x \in A : Spread(m, s \o <<x>>) = Spread(m, s) \o m[x]
Distributes(m, A) == \A s, u \in Seq(A) : Spread(m, s \o u) = Spread(m, s) \o Spread(m, u)

LEMMA SpreadAppend ==
  ASSUME NEW A, NEW B, NEW m, Maps(m, A, B)
  PROVE  Extends(m, A)
<1> SUFFICES ASSUME NEW s \in Seq(A), NEW x \in A
             PROVE  Spread(m, s \o <<x>>) = Spread(m, s) \o m[x]
  BY DEF Extends
<1> DEFINE n == Len(s)
           u == s \o <<x>>
<1>1. u \in Seq(A) /\ n \in Nat /\ Len(u) = n + 1 /\ u[n + 1] = x /\ \A i \in 1..n : u[i] = s[i]
  BY Appended
<1> HIDE DEF u
<1>2. PICK f : /\ f[0] = <<>>
               /\ \A i \in 1..Len(s) : f[i] = f[i - 1] \o m[s[i]]
               /\ Spread(m, s) = f[Len(s)]
  <2>1. \E f : Spreads(f, B, m, s)
    BY SpreadSteps, Zenon
  <2> QED BY <2>1 DEF Spreads
<1>3. PICK g : /\ g[0] = <<>>
               /\ \A i \in 1..Len(u) : g[i] = g[i - 1] \o m[u[i]]
               /\ Spread(m, u) = g[Len(u)]
  <2>1. u \in Seq(A)
    BY <1>1
  <2>2. \E g : Spreads(g, B, m, u)
    BY <2>1, SpreadSteps, Zenon
  <2> QED BY <2>2 DEF Spreads
<1> DEFINE T == {k \in Nat : k <= n => f[k] = g[k]}
<1>4. 0 \in T
  BY <1>2, <1>3
<1>5. ASSUME NEW k \in Nat, k \in T PROVE k + 1 \in T
  <2>1. SUFFICES ASSUME k + 1 <= n PROVE f[k + 1] = g[k + 1]
    OBVIOUS
  <2> HIDE DEF n
  <2>2. k + 1 \in 1..n /\ k + 1 \in 1..n + 1 /\ k <= n /\ (k + 1) - 1 = k
    BY <1>1, <2>1
  <2>3. f[k + 1] = f[k] \o m[s[k + 1]]
    BY <1>2, <2>2 DEF n
  <2>4. g[k + 1] = g[k] \o m[u[k + 1]]
    BY <1>1, <1>3, <2>2
  <2>5. f[k] = g[k] /\ u[k + 1] = s[k + 1]
    BY <1>1, <1>5, <2>2
  <2> QED BY <2>3, <2>4, <2>5
<1>6. n \in T
  <2> HIDE DEF T, n
  <2> QED BY <1>1, <1>4, <1>5, Upwards
<1> HIDE DEF n
<1>7. f[n] = g[n]
  BY <1>1, <1>6
<1>8. n + 1 \in 1..n + 1 /\ (n + 1) - 1 = n
  BY <1>1
<1>9. g[n + 1] = g[n] \o m[x]
  BY <1>1, <1>3, <1>8
<1> QED BY <1>1, <1>2, <1>3, <1>7, <1>9 DEF n, u

LEMMA SpreadConcat ==
  ASSUME NEW A, NEW B, NEW m, Maps(m, A, B)
  PROVE  Distributes(m, A)
<1> SUFFICES ASSUME NEW s \in Seq(A), NEW u \in Seq(A)
             PROVE  Spread(m, s \o u) = Spread(m, s) \o Spread(m, u)
  BY DEF Distributes
<1> DEFINE n == Len(u)
           Part(k) == SubSeq(u, 1, k)
           T == {k \in Nat : k <= n => Part(k) \in Seq(A) /\ Spread(m, s \o Part(k)) = Spread(m, s) \o Spread(m, Part(k))}
<1>1. n \in Nat /\ \A i \in 1..n : u[i] \in A
  BY LenProperties, ElementOfSeq
<1>2. 0 \in T
  <2>1. Part(0) = <<>>
    BY SubSeqEmpty
  <2>2. s \o <<>> = s /\ Spread(m, s) \in Seq(B)
    BY ConcatEmptySeq, SpreadType
  <2>3. Spread(m, s) \o <<>> = Spread(m, s)
    BY <2>2, ConcatEmptySeq
  <2> HIDE DEF Part
  <2> QED BY <2>1, <2>2, <2>3, SpreadEmpty, EmptySeq
<1>3. ASSUME NEW k \in Nat, k \in T PROVE k + 1 \in T
  <2>1. SUFFICES ASSUME k + 1 <= n
                 PROVE  Part(k + 1) \in Seq(A) /\ Spread(m, s \o Part(k + 1)) = Spread(m, s) \o Spread(m, Part(k + 1))
    OBVIOUS
  <2>2. k + 1 \in 1..n /\ k <= n
    <3> HIDE DEF n
    <3> QED BY <1>1, <2>1
  <2> DEFINE x == u[k + 1]
             w == Part(k)
  <2>3. Part(k + 1) = w \o <<x>>
    BY <2>1, PrefixGrows
  <2>4. x \in A /\ w \in Seq(A) /\ Spread(m, s \o w) = Spread(m, s) \o Spread(m, w)
    BY <1>1, <1>3, <2>2
  <2> HIDE DEF x, w, Part
  <2>5. <<x>> \in Seq(A) /\ s \o w \in Seq(A) /\ w \o <<x>> \in Seq(A)
    BY <2>4, ConcatProperties
  <2>6. s \o (w \o <<x>>) = (s \o w) \o <<x>>
    BY <2>4, <2>5, ConcatAssociative
  <2>0. Extends(m, A)
    BY SpreadAppend, Zenon
  <2>7. Spread(m, (s \o w) \o <<x>>) = Spread(m, s \o w) \o m[x]
    BY <2>0, <2>4, <2>5 DEF Extends
  <2>8. Spread(m, w \o <<x>>) = Spread(m, w) \o m[x]
    BY <2>0, <2>4 DEF Extends
  <2>9. (Spread(m, s) \o Spread(m, w)) \o m[x] = Spread(m, s) \o (Spread(m, w) \o m[x])
    <3> DEFINE a == Spread(m, s)
               b == Spread(m, w)
               c == m[x]
    <3>0. w \in Seq(A) /\ x \in A
      BY <2>4
    <3>1. a \in Seq(B)
      BY SpreadType, Zenon
    <3>2. b \in Seq(B)
      BY <3>0, SpreadType, Zenon
    <3>3. c \in Seq(B)
      BY <3>0 DEF Maps
    <3> HIDE DEF a, b, c
    <3>4. (a \o b) \o c = a \o (b \o c)
      BY <3>1, <3>2, <3>3, ConcatAssociative
    <3> QED BY <3>4 DEF a, b, c
  <2> QED BY <2>3, <2>4, <2>5, <2>6, <2>7, <2>8, <2>9
<1>4. n \in T
  <2> HIDE DEF T, n
  <2> QED BY <1>1, <1>2, <1>3, Upwards
<1>5. Part(n) = u
  BY SubSeqFull
<1>6. n <= n
  BY <1>1
<1> HIDE DEF Part, n
<1> QED BY <1>4, <1>5, <1>6

\* Nothing is left of a sequence whose entries leave nothing, and all of one whose
\* entries leave themselves.
LEMMA SpreadNothing ==
  ASSUME NEW A, NEW B, NEW m, Maps(m, A, B), NEW s \in Seq(A), \A i \in 1..Len(s) : m[s[i]] = <<>>
  PROVE  Spread(m, s) = <<>>
<1> DEFINE n == Len(s)
<1>1. n \in Nat
  BY LenProperties
<1>2. PICK f : /\ f[0] = <<>>
               /\ \A i \in 1..n : f[i] = f[i - 1] \o m[s[i]]
               /\ Spread(m, s) = f[n]
  <2>1. \E f : Spreads(f, B, m, s)
    BY SpreadSteps, Zenon
  <2> QED BY <2>1 DEF Spreads
<1>3. \A i \in 1..n : m[s[i]] = <<>>
  OBVIOUS
<1>4. f[n] = <<>>
  <2> DEFINE T == {k \in Nat : k <= n => f[k] = <<>>}
  <2> HIDE DEF n
  <2>1. 0 \in T
    BY <1>2
  <2>2. ASSUME NEW k \in Nat, k \in T PROVE k + 1 \in T
    <3>1. SUFFICES ASSUME k + 1 <= n PROVE f[k + 1] = <<>>
      OBVIOUS
    <3>2. k + 1 \in 1..n /\ k <= n /\ (k + 1) - 1 = k
      BY <1>1, <3>1
    <3>3. f[k + 1] = f[k] \o <<>> /\ f[k] = <<>>
      BY <1>2, <1>3, <2>2, <3>2
    <3> QED BY <3>3
  <2>3. n \in T
    <3> HIDE DEF T
    <3> QED BY <1>1, <2>1, <2>2, Upwards
  <2> QED BY <1>1, <2>3
<1> QED BY <1>2, <1>4

LEMMA SpreadItself ==
  ASSUME NEW A, NEW B, NEW m, Maps(m, A, B), NEW s \in Seq(A), \A i \in 1..Len(s) : m[s[i]] = <<s[i]>>
  PROVE  Spread(m, s) = s
<1> DEFINE n == Len(s)
<1>1. n \in Nat
  BY LenProperties
<1>2. PICK f : /\ f[0] = <<>>
               /\ \A i \in 1..n : f[i] = f[i - 1] \o m[s[i]]
               /\ Spread(m, s) = f[n]
  <2>1. \E f : Spreads(f, B, m, s)
    BY SpreadSteps, Zenon
  <2> QED BY <2>1 DEF Spreads
<1>3. \A i \in 1..n : m[s[i]] = <<s[i]>>
  OBVIOUS
<1>4. f[n] = s
  <2> DEFINE T == {k \in Nat : k <= n => f[k] = SubSeq(s, 1, k)}
  <2>1. 0 \in T
    <3>1. SubSeq(s, 1, 0) = <<>>
      BY SubSeqEmpty
    <3> QED BY <1>2, <3>1
  <2>2. ASSUME NEW k \in Nat, k \in T PROVE k + 1 \in T
    <3>1. SUFFICES ASSUME k + 1 <= n PROVE f[k + 1] = SubSeq(s, 1, k + 1)
      OBVIOUS
    <3>2. SubSeq(s, 1, k + 1) = SubSeq(s, 1, k) \o <<s[k + 1]>>
      BY <3>1, PrefixGrows
    <3> HIDE DEF n
    <3>3. k + 1 \in 1..n /\ k <= n /\ (k + 1) - 1 = k
      BY <1>1, <3>1
    <3>4. f[k + 1] = f[k] \o <<s[k + 1]>> /\ f[k] = SubSeq(s, 1, k)
      BY <1>2, <1>3, <2>2, <3>3
    <3> QED BY <3>2, <3>4
  <2>3. n \in T
    <3> HIDE DEF T, n
    <3> QED BY <1>1, <2>1, <2>2, Upwards
  <2>4. SubSeq(s, 1, n) = s
    BY SubSeqFull
  <2> HIDE DEF n
  <2> QED BY <1>1, <2>3, <2>4
<1> QED BY <1>2, <1>4

LEMMA SpreadQuiet ==
  ASSUME NEW A, NEW B, NEW m, Maps(m, A, B), NEW s \in Seq(A), NEW u \in Seq(A),
         \A i \in 1..Len(u) : m[u[i]] = <<>>
  PROVE  Spread(m, s \o u) = Spread(m, s)
<1>1. Spread(m, u) = <<>>
  BY SpreadNothing, Zenon
<1>2. Distributes(m, A)
  BY SpreadConcat, Zenon
<1>3. Spread(m, s \o u) = Spread(m, s) \o Spread(m, u)
  BY <1>2 DEF Distributes
<1>4. Spread(m, s) \in Seq(B)
  BY SpreadType, Zenon
<1>5. Spread(m, s) \o <<>> = Spread(m, s)
  BY <1>4, ConcatEmptySeq
<1> QED BY <1>1, <1>3, <1>5

-----------------------------------------------------------------------------
(* The tokens of some kinds, and what port commands ask for.               *)

Kept(A, kinds) == [x \in A |-> IF x.t \in kinds THEN <<x>> ELSE <<>>]

LEMMA OfIs ==
  ASSUME NEW A, NEW kinds, NEW s \in Seq(A)
  PROVE  Maps(Kept(A, kinds), A, A) /\ Of(kinds, s) = Spread(Kept(A, kinds), s)
<1>1. \A x \in A : <<x>> \in Seq(A) /\ <<>> \in Seq(A)
  BY EmptySeq
<1>2. Maps(Kept(A, kinds), A, A)
  BY <1>1 DEF Kept, Maps
<1>3. DOMAIN s = 1..Len(s) /\ \A i \in 1..Len(s) : s[i] \in A
  BY LenProperties, ElementOfSeq
<1>4. \A i \in DOMAIN s : Kept(A, kinds)[s[i]] = IF s[i].t \in kinds THEN <<s[i]>> ELSE <<>>
  BY <1>3 DEF Kept
<1>5. [i \in DOMAIN s |-> Kept(A, kinds)[s[i]]] = [i \in DOMAIN s |-> IF s[i].t \in kinds THEN <<s[i]>> ELSE <<>>]
  BY <1>4
<1> QED BY <1>2, <1>5 DEF Of, Spread

LEMMA OfEmpty == \A kinds : Of(kinds, <<>>) = <<>>
  BY DEF Of, FlattenSeq

OfBoth(kinds, A) == \A s, u \in Seq(A) : Of(kinds, s \o u) = Of(kinds, s) \o Of(kinds, u)

LEMMA OfConcat ==
  \A A, kinds : OfBoth(kinds, A)
<1> SUFFICES ASSUME NEW A, NEW kinds, NEW s \in Seq(A), NEW u \in Seq(A)
             PROVE  Of(kinds, s \o u) = Of(kinds, s) \o Of(kinds, u)
  BY DEF OfBoth
<1> DEFINE m == Kept(A, kinds)
<1>1. Maps(m, A, A) /\ Of(kinds, s) = Spread(m, s) /\ Of(kinds, u) = Spread(m, u)
  BY OfIs
<1>2. s \o u \in Seq(A)
  BY ConcatProperties
<1>3. Of(kinds, s \o u) = Spread(m, s \o u)
  BY <1>2, OfIs
<1> HIDE DEF m
<1>4. Spread(m, s \o u) = Spread(m, s) \o Spread(m, u)
  <2>1. Maps(m, A, A)
    BY <1>1
  <2>2. Distributes(m, A)
    BY <2>1, SpreadConcat, Zenon
  <2> QED BY <2>2 DEF Distributes
<1> QED BY <1>1, <1>3, <1>4

LEMMA OfType ==
  ASSUME NEW A, NEW kinds, NEW s \in Seq(A)
  PROVE  Of(kinds, s) \in Seq(A)
<1> DEFINE m == Kept(A, kinds)
<1>1. Maps(m, A, A) /\ Of(kinds, s) = Spread(m, s)
  BY OfIs
<1> HIDE DEF m
<1> QED BY <1>1, SpreadType

\* No token of s is of these kinds; all of them are.
LEMMA OfNone ==
  ASSUME NEW A, NEW kinds, NEW s \in Seq(A), \A i \in 1..Len(s) : s[i].t \notin kinds
  PROVE  Of(kinds, s) = <<>>
<1> DEFINE m == Kept(A, kinds)
<1>1. Maps(m, A, A) /\ Of(kinds, s) = Spread(m, s)
  BY OfIs
<1>2. \A i \in 1..Len(s) : m[s[i]] = <<>>
  BY ElementOfSeq DEF Kept
<1> HIDE DEF m
<1>3. Maps(m, A, A)
  BY <1>1
<1>4. Spread(m, s) = <<>>
  BY <1>2, <1>3, SpreadNothing, Zenon
<1> QED BY <1>1, <1>4

LEMMA OfAll ==
  ASSUME NEW A, NEW kinds, NEW s \in Seq(A), \A i \in 1..Len(s) : s[i].t \in kinds
  PROVE  Of(kinds, s) = s
<1> DEFINE m == Kept(A, kinds)
<1>1. Maps(m, A, A) /\ Of(kinds, s) = Spread(m, s)
  BY OfIs
<1>2. \A i \in 1..Len(s) : m[s[i]] = <<s[i]>>
  BY ElementOfSeq DEF Kept
<1> HIDE DEF m
<1>3. Maps(m, A, A)
  BY <1>1
<1>4. Spread(m, s) = s
  BY <1>2, <1>3, SpreadItself, Zenon
<1> QED BY <1>1, <1>4

\* A token more.
LEMMA OfAppend ==
  ASSUME NEW A, NEW kinds, NEW s \in Seq(A), NEW x \in A
  PROVE  Of(kinds, s \o <<x>>) = IF x.t \in kinds THEN Of(kinds, s) \o <<x>> ELSE Of(kinds, s)
<1> DEFINE one == <<x>>
<1>1. one \in Seq(A) /\ \A i \in 1..Len(one) : one[i] = x
  OBVIOUS
<1> HIDE DEF one
<1>2. Of(kinds, s \o one) = Of(kinds, s) \o Of(kinds, one) /\ Of(kinds, s) \in Seq(A)
  <2>1. one \in Seq(A)
    BY <1>1
  <2>2. Of(kinds, s \o one) = Of(kinds, s) \o Of(kinds, one)
    <3>1. OfBoth(kinds, A)
      BY OfConcat, Zenon
    <3> QED BY <2>1, <3>1 DEF OfBoth
  <2>3. Of(kinds, s) \in Seq(A)
    BY OfType, Zenon
  <2> QED BY <2>2, <2>3
<1>3. CASE x.t \in kinds
  <2>1. Of(kinds, one) = one
    BY <1>1, <1>3, OfAll
  <2> QED BY <1>2, <1>3, <2>1 DEF one
<1>4. CASE x.t \notin kinds
  <2>1. Of(kinds, one) = <<>>
    BY <1>1, <1>4, OfNone
  <2>2. Of(kinds, s) \o <<>> = Of(kinds, s)
    BY <1>2, ConcatEmptySeq
  <2> QED BY <1>2, <1>4, <2>1, <2>2 DEF one
<1> QED BY <1>3, <1>4

LEMMA OfData ==
  ASSUME NEW kinds, NEW data \in Seq(Bytes)
  PROVE  Of(kinds, AsData(data)) = IF "data" \in kinds THEN AsData(data) ELSE <<>>
<1>1. AsData(data) \in Seq(Said) /\ \A i \in 1..Len(AsData(data)) : AsData(data)[i].t = "data"
  <2>1. Len(AsData(data)) = Len(data) /\ DOMAIN data = 1..Len(data)
    BY LenProperties DEF AsData
  <2>2. \A k \in DOMAIN data : AsData(data)[k].t = "data"
    BY DEF AsData, DataToken
  <2> QED BY <2>1, <2>2, AsDataType
<1> DEFINE d == AsData(data)
<1> HIDE DEF d
<1>2. CASE "data" \in kinds
  BY <1>1, <1>2, OfAll
<1>3. CASE "data" \notin kinds
  BY <1>1, <1>3, OfNone
<1> QED BY <1>2, <1>3

LEMMA Twice == \A y : <<y>> \o <<y>> = <<y, y>>
<1> SUFFICES ASSUME NEW y PROVE <<y>> \o <<y>> = <<y, y>>
  OBVIOUS
<1> DEFINE one == <<y>>
           two == <<y, y>>
<1>1. one \in Seq({y}) /\ Len(one) = 1 /\ one[1] = y
  OBVIOUS
<1>2. two \in Seq({y}) /\ Len(two) = 2 /\ two[1] = y /\ two[2] = y
  OBVIOUS
<1> HIDE DEF one, two
<1>3. one \o one \in Seq({y}) /\ Len(one \o one) = 2 /\ \A i \in 1..2 : (one \o one)[i] = y
  <2> DEFINE S == {y}
  <2> HIDE DEF S
  <2>1. one \in Seq(S)
    BY <1>1 DEF S
  <2>2. /\ one \o one \in Seq(S) /\ Len(one \o one) = 1 + 1
        /\ \A i \in 1..1 + 1 : (one \o one)[i] = IF i <= 1 THEN one[i] ELSE one[i - 1]
    <3>1. /\ one \o one \in Seq(S) /\ Len(one \o one) = Len(one) + Len(one)
          /\ \A i \in 1..Len(one) + Len(one) : (one \o one)[i] = IF i <= Len(one) THEN one[i] ELSE one[i - Len(one)]
      BY <2>1, ConcatProperties, Zenon
    <3> QED BY <1>1, <3>1
  <2>3. \A i \in 1..1 + 1 : (one \o one)[i] = y
    BY <1>1, <2>2
  <2> QED BY <2>2, <2>3 DEF S
<1>4. \A i \in 1..2 : two[i] = y
  BY <1>2
<1>5. one \o one = two
  BY <1>2, <1>3, <1>4, SeqEqual
<1> QED BY <1>5 DEF one, two

WantedOf == [x \in Tokens |-> IF x.t = "sub" THEN Wanted(x.p) ELSE <<>>]
AnswersOf == [x \in Tokens |-> IF x.t = "sub" THEN Answers(x.p) ELSE <<>>]
Wants == {WantedOf[x][1] : x \in Tokens}
Gets == {AnswersOf[x][1] : x \in Tokens}

LEMMA EachIs ==
  /\ Maps(WantedOf, Tokens, Wants) /\ Maps(AnswersOf, Tokens, Gets)
  /\ \A s \in Seq(Tokens) : Each(Wanted, s) = Spread(WantedOf, s) /\ Each(Answers, s) = Spread(AnswersOf, s)
<1>1. ASSUME NEW x \in Tokens PROVE WantedOf[x] \in Seq(Wants)
  <2>1. WantedOf[x] = <<>> \/ \E y : WantedOf[x] = <<y>>
    BY DEF WantedOf, Wanted
  <2>2. ASSUME NEW y, WantedOf[x] = <<y>> PROVE WantedOf[x] \in Seq(Wants)
    <3>1. y = WantedOf[x][1]
      BY <2>2
    <3>2. y \in Wants
      BY <3>1 DEF Wants
    <3> QED BY <2>2, <3>2
  <2> QED BY <2>1, <2>2, EmptySeq
<1>2. ASSUME NEW x \in Tokens PROVE AnswersOf[x] \in Seq(Gets)
  <2> DEFINE y == Sub(<<T_COM_PORT_OPTION, Server(x.p[2])>> \o SubSeq(x.p, 3, Len(x.p)))
             once == <<y>>
  <2>1. AnswersOf[x] \in {<<>>, once, once \o once}
    <3>1. AnswersOf[x] = IF x.t = "sub" THEN Answers(x.p) ELSE <<>>
      BY DEF AnswersOf
    <3>2. Answers(x.p) = IF x.p[1] # T_COM_PORT_OPTION THEN <<>>
                         ELSE CASE x.p[2] = T_PURGE_DATA -> once \o once
                           [] x.p[2] \in {T_SET_BAUDRATE, T_SET_CONTROL} \cup Echoed -> once
                           [] OTHER -> <<>>
      BY DEF Answers
    <3> HIDE DEF once
    <3> QED BY <3>1, <3>2
  <2> HIDE DEF y
  <2>2. ASSUME AnswersOf[x] = once \/ AnswersOf[x] = once \o once PROVE AnswersOf[x] \in Seq(Gets)
    <3>0. once \o once = <<y, y>>
      BY Twice
    <3>1. y = AnswersOf[x][1]
      BY <2>2, <3>0
    <3>2. AnswersOf[x][1] \in Gets
      BY DEF Gets
    <3>3. y \in Gets
      BY <3>1, <3>2
    <3>4. <<y>> \in Seq(Gets) /\ <<y, y>> \in Seq(Gets)
      <4> DEFINE S == Gets
      <4> HIDE DEF S
      <4>1. y \in S
        BY <3>3 DEF S
      <4>2. <<y>> \in Seq(S) /\ <<y, y>> \in Seq(S)
        BY <4>1
      <4> QED BY <4>2 DEF S
    <3> QED BY <2>2, <3>0, <3>4
  <2> HIDE DEF once
  <2> QED BY <2>1, <2>2, EmptySeq
<1>3. Maps(WantedOf, Tokens, Wants) /\ Maps(AnswersOf, Tokens, Gets)
  <2>1. WantedOf = [x \in Tokens |-> WantedOf[x]] /\ AnswersOf = [x \in Tokens |-> AnswersOf[x]]
    BY DEF WantedOf, AnswersOf
  <2> QED BY <1>1, <1>2, <2>1 DEF Maps
<1>4. ASSUME NEW s \in Seq(Tokens) PROVE Each(Wanted, s) = Spread(WantedOf, s) /\ Each(Answers, s) = Spread(AnswersOf, s)
  <2>1. DOMAIN s = 1..Len(s) /\ \A i \in 1..Len(s) : s[i] \in Tokens
    BY LenProperties, ElementOfSeq
  <2>2. \A i \in DOMAIN s : WantedOf[s[i]] = IF s[i].t = "sub" THEN Wanted(s[i].p) ELSE <<>>
    BY <2>1 DEF WantedOf
  <2>3. \A i \in DOMAIN s : AnswersOf[s[i]] = IF s[i].t = "sub" THEN Answers(s[i].p) ELSE <<>>
    BY <2>1 DEF AnswersOf
  <2>4. [i \in DOMAIN s |-> WantedOf[s[i]]] = [i \in DOMAIN s |-> IF s[i].t = "sub" THEN Wanted(s[i].p) ELSE <<>>]
    BY <2>2
  <2>5. [i \in DOMAIN s |-> AnswersOf[s[i]]] = [i \in DOMAIN s |-> IF s[i].t = "sub" THEN Answers(s[i].p) ELSE <<>>]
    BY <2>3
  <2> QED BY <2>4, <2>5 DEF Each, Spread
<1> QED BY <1>3, <1>4

LEMMA EachAppend ==
  ASSUME NEW s \in Seq(Tokens), NEW x \in Tokens
  PROVE  /\ Each(Wanted, s \o <<x>>) = Each(Wanted, s) \o WantedOf[x]
         /\ Each(Answers, s \o <<x>>) = Each(Answers, s) \o AnswersOf[x]
<1>1. s \o <<x>> \in Seq(Tokens)
  BY Appended
<1>2. Extends(WantedOf, Tokens) /\ Extends(AnswersOf, Tokens)
  BY EachIs, SpreadAppend, Zenon
<1>3. /\ Spread(WantedOf, s \o <<x>>) = Spread(WantedOf, s) \o WantedOf[x]
      /\ Spread(AnswersOf, s \o <<x>>) = Spread(AnswersOf, s) \o AnswersOf[x]
  BY <1>2 DEF Extends
<1> QED BY <1>1, <1>2, <1>3, EachIs

\* Tokens that are no port commands ask for nothing.
LEMMA EachQuiet ==
  ASSUME NEW s \in Seq(Tokens), NEW u \in Seq(Tokens), \A i \in 1..Len(u) : u[i].t # "sub"
  PROVE  Each(Wanted, s \o u) = Each(Wanted, s) /\ Each(Answers, s \o u) = Each(Answers, s)
<1>1. s \o u \in Seq(Tokens)
  <2> DEFINE S == Tokens
  <2> HIDE DEF S
  <2>1. \A a, b \in Seq(S) : a \o b \in Seq(S)
    BY ConcatProperties
  <2> QED BY <2>1 DEF S
<1>2. \A i \in 1..Len(u) : WantedOf[u[i]] = <<>>
  BY ElementOfSeq DEF WantedOf
<1>3. \A i \in 1..Len(u) : AnswersOf[u[i]] = <<>>
  BY ElementOfSeq DEF AnswersOf
<1>4. Spread(WantedOf, s \o u) = Spread(WantedOf, s)
  <2>1. Maps(WantedOf, Tokens, Wants)
    BY EachIs
  <2> QED BY <1>2, <2>1, SpreadQuiet, Zenon
<1>5. Spread(AnswersOf, s \o u) = Spread(AnswersOf, s)
  <2>1. Maps(AnswersOf, Tokens, Gets)
    BY EachIs
  <2> QED BY <1>3, <2>1, SpreadQuiet, Zenon
<1> QED BY <1>1, <1>4, <1>5, EachIs
-----------------------------------------------------------------------------
(* Short sequences of bytes, and how longer ones are put together.         *)

LEMMA Codes == {T_IAC, T_SB, T_SE} \subseteq Bytes /\ 251..254 \subseteq Bytes
  BY DEF T_IAC, T_SB, T_SE, Bytes

LEMMA Tuple1 == \A a \in Bytes : <<a>> \in Seq(Bytes)
  OBVIOUS

LEMMA Tuple2 == \A a, b \in Bytes : <<a, b>> \in Seq(Bytes) /\ <<a>> \o <<b>> = <<a, b>>
<1> SUFFICES ASSUME NEW a \in Bytes, NEW b \in Bytes
             PROVE  <<a, b>> \in Seq(Bytes) /\ <<a>> \o <<b>> = <<a, b>>
  OBVIOUS
<1> DEFINE x == <<a>>
           y == <<b>>
           z == <<a, b>>
<1>1. x \in Seq(Bytes) /\ Len(x) = 1 /\ x[1] = a
  OBVIOUS
<1>2. y \in Seq(Bytes) /\ Len(y) = 1 /\ y[1] = b
  OBVIOUS
<1>3. z \in Seq(Bytes) /\ Len(z) = 2 /\ z[1] = a /\ z[2] = b
  OBVIOUS
<1> HIDE DEF x, y, z
<1>4. /\ x \o y \in Seq(Bytes) /\ Len(x \o y) = 2
      /\ \A i \in 1..2 : (x \o y)[i] = IF i <= 1 THEN x[i] ELSE y[i - 1]
  BY <1>1, <1>2, ConcatProperties
<1>5. \A i \in 1..2 : (x \o y)[i] = z[i]
  BY <1>1, <1>2, <1>3, <1>4
<1>6. x \o y = z
  BY <1>3, <1>4, <1>5, SeqEqual
<1> QED BY <1>3, <1>6 DEF x, y, z

LEMMA Tuple3 == \A a, b, c \in Bytes : <<a, b, c>> \in Seq(Bytes) /\ <<a, b>> \o <<c>> = <<a, b, c>>
<1> SUFFICES ASSUME NEW a \in Bytes, NEW b \in Bytes, NEW c \in Bytes
             PROVE  <<a, b, c>> \in Seq(Bytes) /\ <<a, b>> \o <<c>> = <<a, b, c>>
  OBVIOUS
<1> DEFINE x == <<a, b>>
           y == <<c>>
           z == <<a, b, c>>
<1>1. x \in Seq(Bytes) /\ Len(x) = 2 /\ x[1] = a /\ x[2] = b
  OBVIOUS
<1>2. y \in Seq(Bytes) /\ Len(y) = 1 /\ y[1] = c
  OBVIOUS
<1>3. z \in Seq(Bytes) /\ Len(z) = 3 /\ z[1] = a /\ z[2] = b /\ z[3] = c
  OBVIOUS
<1> HIDE DEF x, y, z
<1>4. /\ x \o y \in Seq(Bytes) /\ Len(x \o y) = 2 + 1
      /\ \A i \in 1..2 + 1 : (x \o y)[i] = IF i <= 2 THEN x[i] ELSE y[i - 2]
  <2>1. /\ x \o y \in Seq(Bytes) /\ Len(x \o y) = Len(x) + Len(y)
        /\ \A i \in 1..Len(x) + Len(y) : (x \o y)[i] = IF i <= Len(x) THEN x[i] ELSE y[i - Len(x)]
    BY <1>1, <1>2, ConcatProperties
  <2> QED BY <1>1, <1>2, <2>1
<1>5. \A i \in 1..3 : (x \o y)[i] = z[i]
  BY <1>1, <1>2, <1>3, <1>4
<1>6. x \o y = z
  BY <1>3, <1>4, <1>5, SeqEqual
<1> QED BY <1>3, <1>6 DEF x, y, z

\* What is appended to a sequence of parts is appended to its last part.
Grown2(a, b, c, u) == (a \o (b \o c)) \o u = a \o (b \o (c \o u))
Grown3(a, b, c, d, u) == (a \o (b \o (c \o d))) \o u = a \o (b \o (c \o (d \o u)))
Grown4(a, b, c, d, e, u) == (a \o (b \o (c \o (d \o e)))) \o u = a \o (b \o (c \o (d \o (e \o u))))

LEMMA Grows2 ==
  ASSUME NEW a \in Seq(Bytes), NEW b \in Seq(Bytes), NEW c \in Seq(Bytes), NEW u \in Seq(Bytes)
  PROVE  Grown2(a, b, c, u)
<1> DEFINE x == b \o c
<1>1. x \in Seq(Bytes)
  BY Joined, Zenon
<1>2. x \o u = b \o (c \o u)
  BY Regroup, ZenonT(60)
<1> HIDE DEF x
<1>3. (a \o x) \o u = a \o (x \o u)
  BY <1>1, Regroup, ZenonT(60)
<1> QED BY <1>2, <1>3 DEF x, Grown2

LEMMA Grows3 ==
  ASSUME NEW a \in Seq(Bytes), NEW b \in Seq(Bytes), NEW c \in Seq(Bytes), NEW d \in Seq(Bytes), NEW u \in Seq(Bytes)
  PROVE  Grown3(a, b, c, d, u)
<1> DEFINE x == c \o d
<1>1. x \in Seq(Bytes)
  BY Joined, Zenon
<1>2. x \o u = c \o (d \o u)
  BY Regroup, ZenonT(60)
<1> HIDE DEF x
<1>3. Grown2(a, b, x, u)
  BY <1>1, Grows2, ZenonT(60)
<1> QED BY <1>2, <1>3 DEF x, Grown2, Grown3

LEMMA Grows4 ==
  ASSUME NEW a \in Seq(Bytes), NEW b \in Seq(Bytes), NEW c \in Seq(Bytes), NEW d \in Seq(Bytes), NEW e \in Seq(Bytes),
         NEW u \in Seq(Bytes)
  PROVE  Grown4(a, b, c, d, e, u)
<1> DEFINE x == d \o e
<1>1. x \in Seq(Bytes)
  BY Joined, Zenon
<1>2. x \o u = d \o (e \o u)
  BY Regroup, ZenonT(60)
<1> HIDE DEF x
<1>3. Grown3(a, b, c, x, u)
  BY <1>1, Grows3, ZenonT(60)
<1> QED BY <1>2, <1>3 DEF x, Grown3, Grown4

-----------------------------------------------------------------------------
(* Where in its reading the stream s leaves its reader.                    *)

LEMMA PlainReads ==
  ASSUME NEW buf \in Seq(Bytes), \A i \in 1..Len(buf) : buf[i] # 255
  PROVE  Decodes(buf, AsData(buf)) /\ Gives(buf, buf)
<1> DEFINE m == [b \in Bytes |-> EscapedByte(b)]
<1>1. Maps(m, Bytes, Bytes)
  <2>1. \A b \in Bytes : EscapedByte(b) \in Seq(Bytes)
    BY DecodesByte DEF Decodes
  <2> QED BY <2>1 DEF Maps
<1>2. \A i \in 1..Len(buf) : buf[i] \in Bytes /\ m[buf[i]] = <<buf[i]>>
  <2>1. \A b \in Bytes : b # 255 => m[b] = <<b>>
    BY DEF EscapedByte, T_IAC
  <2> QED BY <2>1, ElementOfSeq
<1>3. Escape(buf) = Spread(m, buf)
  <2>1. DOMAIN buf = 1..Len(buf)
    BY LenProperties
  <2>2. \A i \in DOMAIN buf : m[buf[i]] = IF buf[i] = T_IAC THEN <<T_IAC, T_IAC>> ELSE <<buf[i]>>
    BY <1>2, <2>1 DEF EscapedByte
  <2> HIDE DEF m
  <2>3. [i \in DOMAIN buf |-> m[buf[i]]] = [i \in DOMAIN buf |-> IF buf[i] = T_IAC THEN <<T_IAC, T_IAC>> ELSE <<buf[i]>>]
    BY <2>2
  <2> QED BY <2>3 DEF Escape, Spread
<1> HIDE DEF m
<1>4. Spread(m, buf) = buf
  <2>1. \A i \in 1..Len(buf) : m[buf[i]] = <<buf[i]>>
    BY <1>2
  <2> QED BY <1>1, <2>1, SpreadItself, ZenonT(60)
<1>5. Escape(buf) = buf
  BY <1>3, <1>4
<1> QED BY <1>5, DecodesEscape

LEMMA PairReads ==
  ASSUME NEW c \in Bytes
  PROVE  /\ c = 240 => Decodes(<<T_IAC, c>>, <<Stray>>)
         /\ c \notin {240, 250, 251, 252, 253, 254, 255} => Decodes(<<T_IAC, c>>, <<Command>>)
<1>1. T_IAC \in Bytes /\ <<T_IAC, c>> \in Seq(Bytes)
  BY DEF T_IAC, Bytes
<1>2. <<Stray>> \in Seq(Tokens) /\ <<Command>> \in Seq(Tokens)
  <2>1. Stray \in Tokens /\ Command \in Tokens
    BY DEF Tokens, Stray, Command
  <2> QED BY <2>1
<1>3. ASSUME NEW r \in Seq(Bytes)
      PROVE  /\ c = 240 => Read[<<T_IAC, c>> \o r] = <<Stray>> \o Read[r]
             /\ c \notin {240, 250, 251, 252, 253, 254, 255} => Read[<<T_IAC, c>> \o r] = <<Command>> \o Read[r]
  <2> DEFINE s == <<T_IAC, c>> \o r
  <2>1. s \in Seq(Bytes) /\ s[1] = T_IAC /\ s[2] = c /\ Rest(s, 2) = r /\ ~EndsAt(s)
    BY <1>1, TwoBytes
  <2> HIDE DEF s
  <2>2. ASSUME c = 240 PROVE ReadStep(Read, s) = <<Stray>> \o Read[r]
    <3>1. s[2] # T_IAC /\ s[2] \notin T_WILL..T_DONT /\ s[2] # T_SB /\ s[2] = T_SE
      BY <2>1, <2>2 DEF T_WILL, T_DONT, T_IAC, T_SB, T_SE
    <3> QED BY <2>1, <3>1, ZenonT(60) DEF ReadStep
  <2>3. ASSUME c \notin {240, 250, 251, 252, 253, 254, 255} PROVE ReadStep(Read, s) = <<Command>> \o Read[r]
    <3>1. s[2] # T_IAC /\ s[2] \notin T_WILL..T_DONT /\ s[2] # T_SB /\ s[2] # T_SE
      BY <2>1, <2>3 DEF T_WILL, T_DONT, T_IAC, T_SB, T_SE, Bytes
    <3> QED BY <2>1, <3>1, ZenonT(60) DEF ReadStep
  <2>4. Read[s] = ReadStep(Read, s)
    BY <2>1, ReadDef
  <2> QED BY <2>2, <2>3, <2>4 DEF s
<1> QED BY <1>1, <1>2, <1>3 DEF Decodes

InsideIs(tail, is, rest) == Inside[tail] = [p |-> <<>>, is |-> is, rest |-> rest]

\* What is read of a suboption that has given p and goes on with tail.
LEMMA SuboptionReads ==
  ASSUME NEW q, NEW p, Gives(q, p), NEW tail \in Seq(Bytes), NEW is, NEW rest,
         InsideIs(tail, is, rest)
  PROVE  Read[<<T_IAC, T_SB>> \o (q \o tail)] =
           IF is = "sub" THEN <<Sub(p)>> \o Read[rest] ELSE IF is = "open" THEN <<Open(p)>> ELSE <<Odd>>
<1> DEFINE x == q \o tail
           s == <<T_IAC, T_SB>> \o x
<1>1. q \in Seq(Bytes) /\ p \in Seq(Bytes)
  BY DEF Gives
<1>2. x \in Seq(Bytes)
  BY <1>1, Joined
<1>3. Inside[x] = [p |-> p, is |-> is, rest |-> rest]
  <2> DEFINE y == Inside[tail]
  <2>1. Inside[x] = [y EXCEPT !.p = p \o y.p]
    BY DEF Gives
  <2>2. y = [p |-> <<>>, is |-> is, rest |-> rest]
    BY DEF InsideIs
  <2>3. p \o <<>> = p
    BY <1>1, ConcatEmptySeq
  <2> HIDE DEF y, x
  <2>4. p \o y.p = p
    BY <2>2, <2>3
  <2>5. Inside[x] = [y EXCEPT !.p = p]
    BY <2>1, <2>4
  <2> QED BY <2>2, <2>5
<1> HIDE DEF x
<1>4. s \in Seq(Bytes) /\ s[1] = T_IAC /\ s[2] = T_SB /\ Rest(s, 2) = x /\ ~EndsAt(s)
  <2>1. T_IAC \in Bytes /\ T_SB \in Bytes
    BY DEF T_IAC, T_SB, Bytes
  <2> QED BY <1>2, <2>1, TwoBytes
<1> HIDE DEF s
<1>5. s[2] # T_IAC /\ s[2] \notin T_WILL..T_DONT /\ s[2] # T_SE
  BY <1>4 DEF T_WILL, T_DONT, T_IAC, T_SB, T_SE
<1> DEFINE sub == Inside[Rest(s, 2)]
<1>6. ReadStep(Read, s) = IF sub.is = "sub" THEN <<Sub(sub.p)>> \o Read[sub.rest]
                          ELSE IF sub.is = "open" THEN <<Open(sub.p)>> ELSE <<Odd>>
  BY <1>4, <1>5 DEF ReadStep
<1>7. sub.is = is /\ sub.p = p /\ sub.rest = rest
  BY <1>3, <1>4
<1> HIDE DEF sub
<1>8. Read[s] = ReadStep(Read, s)
  BY <1>4, ReadDef
<1> QED BY <1>6, <1>7, <1>8 DEF s, x

Closes(q, p, tail, rest) == Read[<<T_IAC, T_SB>> \o (q \o tail)] = <<Sub(p)>> \o Read[rest]

LEMMA SuboptionCloses ==
  ASSUME NEW q, NEW p, Gives(q, p), NEW tail \in Seq(Bytes), NEW rest, InsideIs(tail, "sub", rest)
  PROVE  Closes(q, p, tail, rest)
<1> DEFINE is == "sub"
<1>1. is = "sub" /\ InsideIs(tail, is, rest)
  OBVIOUS
<1> HIDE DEF is
<1>2. InsideIs(tail, is, rest)
  BY <1>1
<1>3. Read[<<T_IAC, T_SB>> \o (q \o tail)] =
        IF is = "sub" THEN <<Sub(p)>> \o Read[rest] ELSE IF is = "open" THEN <<Open(p)>> ELSE <<Odd>>
  BY <1>2, SuboptionReads, Zenon
<1> QED BY <1>1, <1>3 DEF Closes

LEMMA SuboptionOpen ==
  ASSUME NEW q, NEW p, Gives(q, p), NEW tail \in Seq(Bytes), NEW rest, InsideIs(tail, "open", rest)
  PROVE  Read[<<T_IAC, T_SB>> \o (q \o tail)] = <<Open(p)>>
<1> DEFINE is == "open"
<1>1. is # "sub" /\ is = "open" /\ InsideIs(tail, is, rest)
  OBVIOUS
<1> HIDE DEF is
<1>2. InsideIs(tail, is, rest)
  BY <1>1
<1>3. Read[<<T_IAC, T_SB>> \o (q \o tail)] =
        IF is = "sub" THEN <<Sub(p)>> \o Read[rest] ELSE IF is = "open" THEN <<Open(p)>> ELSE <<Odd>>
  BY <1>2, SuboptionReads, Zenon
<1> QED BY <1>1, <1>3

LEMMA SuboptionOdd ==
  ASSUME NEW q, NEW p, Gives(q, p), NEW tail \in Seq(Bytes), NEW rest, InsideIs(tail, "odd", rest)
  PROVE  Read[<<T_IAC, T_SB>> \o (q \o tail)] = <<Odd>>
<1> DEFINE is == "odd"
<1>1. is # "sub" /\ is # "open" /\ InsideIs(tail, is, rest)
  OBVIOUS
<1> HIDE DEF is
<1>2. InsideIs(tail, is, rest)
  BY <1>1
<1>3. Read[<<T_IAC, T_SB>> \o (q \o tail)] =
        IF is = "sub" THEN <<Sub(p)>> \o Read[rest] ELSE IF is = "open" THEN <<Open(p)>> ELSE <<Odd>>
  BY <1>2, SuboptionReads, Zenon
<1> QED BY <1>1, <1>3

LEMMA DecodesSuboption ==
  ASSUME NEW q, NEW p, Gives(q, p)
  PROVE  Decodes(<<T_IAC, T_SB>> \o (q \o <<T_IAC, T_SE>>), <<Sub(p)>>)
<1> DEFINE sb == <<T_IAC, T_SB>>
           se == <<T_IAC, T_SE>>
           w == sb \o (q \o se)
<1>1. q \in Seq(Bytes)
  BY DEF Gives
<1>2. p \in Seq(Bytes)
  BY DEF Gives
<1>3. sb \in Seq(Bytes)
  BY DEF T_IAC, T_SB, Bytes
<1>4. se \in Seq(Bytes)
  BY Codes, Tuple2
<1>5. ASSUME NEW r \in Seq(Bytes) PROVE Read[w \o r] = <<Sub(p)>> \o Read[r]
  <2>1. se \o r \in Seq(Bytes) /\ InsideIs(se \o r, "sub", r)
    BY SuboptionEnds DEF InsideIs
  <2>2. Read[sb \o (q \o (se \o r))] = <<Sub(p)>> \o Read[r]
    <3> DEFINE tail == se \o r
    <3>1. tail \in Seq(Bytes)
      BY <2>1
    <3>2. InsideIs(tail, "sub", r)
      BY <2>1
    <3> HIDE DEF tail
    <3>3. Closes(q, p, tail, r)
      BY <3>1, <3>2, SuboptionCloses, Zenon
    <3> QED BY <3>3 DEF tail, Closes
  <2> HIDE DEF sb, se
  <2>3. q \o se \in Seq(Bytes)
    BY <1>1, <1>4, Joined, Zenon
  <2>4. (sb \o (q \o se)) \o r = sb \o ((q \o se) \o r)
    BY <1>3, <2>3, Regroup, Zenon
  <2>5. (q \o se) \o r = q \o (se \o r)
    BY <1>1, <1>4, Regroup, Zenon
  <2> QED BY <2>2, <2>4, <2>5
<1>6. w \in Seq(Bytes)
  <2> HIDE DEF sb, se
  <2>1. q \o se \in Seq(Bytes)
    BY <1>1, <1>4, Joined, Zenon
  <2> QED BY <1>3, <2>1, Joined, Zenon
<1>7. <<Sub(p)>> \in Seq(Tokens)
  <2>1. Sub(p) \in Tokens
    BY <1>2 DEF Tokens, Said, Sub
  <2> QED BY <2>1
<1> HIDE DEF w
<1>8. Decodes(w, <<Sub(p)>>)
  BY <1>5, <1>6, <1>7 DEF Decodes
<1> QED BY <1>8 DEF w

\* The reader has read the tokens toks and then the beginning of something: an IAC, a
\* negotiation of the verb v, or a suboption that has given p.
Stands(s, toks, at, v, p) ==
  \E done \in Seq(Bytes), q \in Seq(Bytes) :
    /\ Decodes(done, toks) /\ Gives(q, p)
    /\ \/ at = "text" /\ s = done
       \/ at = "iac" /\ s = done \o <<T_IAC>>
       \/ at = "verb" /\ v \in 251..254 /\ s = done \o <<T_IAC, v>>
       \/ at = "sub" /\ s = done \o (<<T_IAC, T_SB>> \o q)
       \/ at = "subiac" /\ s = done \o (<<T_IAC, T_SB>> \o (q \o <<T_IAC>>))

Trail(at, p) == IF at \in {"sub", "subiac"} THEN <<Open(p)>> ELSE <<>>

OddParts(s, done, toks, q, p, x, rest) ==
  /\ Decodes(done, toks) /\ Gives(q, p) /\ x \in Bytes \ {240, 255} /\ rest \in Seq(Bytes)
  /\ s = done \o (<<T_IAC, T_SB>> \o (q \o (<<T_IAC, x>> \o rest)))

\* Or it has met a command in a suboption, and reads no further.
HasOdd(s) ==
  \E done, q, p, rest \in Seq(Bytes), toks \in Seq(Tokens), x \in Bytes \ {240, 255} :
    OddParts(s, done, toks, q, p, x, rest)

LEMMA OddFound ==
  ASSUME NEW s, NEW done, NEW toks, NEW q, NEW p, NEW x, NEW rest, OddParts(s, done, toks, q, p, x, rest)
  PROVE  HasOdd(s)
<1>1. done \in Seq(Bytes) /\ toks \in Seq(Tokens) /\ q \in Seq(Bytes) /\ p \in Seq(Bytes)
  BY DEF OddParts, Decodes, Gives
<1>2. rest \in Seq(Bytes) /\ x \in Bytes \ {240, 255}
  BY DEF OddParts
<1> QED BY <1>1, <1>2 DEF HasOdd

LEMMA StandsAt ==
  ASSUME NEW done, NEW toks, Decodes(done, toks), NEW q, NEW p, Gives(q, p)
  PROVE  /\ Stands(done, toks, "text", 0, <<>>)
         /\ Stands(done \o <<T_IAC>>, toks, "iac", 0, <<>>)
         /\ \A v \in 251..254 : Stands(done \o <<T_IAC, v>>, toks, "verb", v, <<>>)
         /\ Stands(done \o (<<T_IAC, T_SB>> \o q), toks, "sub", 0, p)
         /\ Stands(done \o (<<T_IAC, T_SB>> \o (q \o <<T_IAC>>)), toks, "subiac", 0, p)
<1>1. done \in Seq(Bytes) /\ q \in Seq(Bytes) /\ <<>> \in Seq(Bytes) /\ Gives(<<>>, <<>>)
  BY DecodesEmpty, EmptySeq DEF Decodes, Gives
<1>2. Stands(done, toks, "text", 0, <<>>)
  BY <1>1 DEF Stands
<1>3. Stands(done \o <<T_IAC>>, toks, "iac", 0, <<>>)
  BY <1>1 DEF Stands
<1>4. ASSUME NEW v \in 251..254 PROVE Stands(done \o <<T_IAC, v>>, toks, "verb", v, <<>>)
  BY <1>1 DEF Stands
<1>5. Stands(done \o (<<T_IAC, T_SB>> \o q), toks, "sub", 0, p)
  BY <1>1 DEF Stands
<1>6. Stands(done \o (<<T_IAC, T_SB>> \o (q \o <<T_IAC>>)), toks, "subiac", 0, p)
  BY <1>1 DEF Stands
<1> QED BY <1>2, <1>3, <1>4, <1>5, <1>6

LEMMA StandsType ==
  ASSUME NEW s, NEW toks, NEW at, NEW v, NEW p, Stands(s, toks, at, v, p)
  PROVE  toks \in Seq(Tokens) /\ p \in Seq(Bytes) /\ at \in {"text", "iac", "verb", "sub", "subiac"}
  BY DEF Stands, Decodes, Gives

LEMMA BeginsReads ==
  /\ Read[<<>>] = <<>> /\ Read[<<T_IAC>>] = <<>>
  /\ \A v \in 251..254 : Read[<<T_IAC, v>>] = <<>>
  /\ InsideIs(<<>>, "open", <<>>) /\ InsideIs(<<T_IAC>>, "open", <<>>)
<1>1. <<>> \in Seq(Bytes) /\ <<T_IAC>> \in Seq(Bytes)
  BY EmptySeq DEF T_IAC, Bytes
<1>2. EndsAt(<<>>) /\ EndsAt(<<T_IAC>>)
  BY DEF EndsAt
<1>3. Read[<<>>] = <<>> /\ Read[<<T_IAC>>] = <<>>
  BY <1>1, <1>2, ReadDef DEF ReadStep
<1>4. InsideIs(<<>>, "open", <<>>) /\ InsideIs(<<T_IAC>>, "open", <<>>)
  BY <1>1, <1>2, InsideDef DEF InsideStep, InsideIs
<1>5. ASSUME NEW v \in 251..254 PROVE Read[<<T_IAC, v>>] = <<>>
  <2> DEFINE s == <<T_IAC, v>>
  <2>1. s \in Seq(Bytes) /\ Len(s) = 2 /\ s[1] = T_IAC /\ s[2] = v /\ ~EndsAt(s)
    BY DEF T_IAC, Bytes, EndsAt
  <2> HIDE DEF s
  <2>2. s[2] # T_IAC /\ s[2] # T_SB /\ s[2] # T_SE /\ s[2] \in T_WILL..T_DONT
    BY <2>1 DEF T_WILL, T_DONT, T_IAC, T_SB, T_SE
  <2>3. ReadStep(Read, s) = <<>>
    BY <2>1, <2>2 DEF ReadStep
  <2>4. Read[s] = ReadStep(Read, s)
    BY <2>1, ReadDef
  <2> QED BY <2>3, <2>4 DEF s
<1> QED BY <1>3, <1>4, <1>5

LEMMA ParseStands ==
  ASSUME NEW s, NEW toks, NEW at, NEW v, NEW p, Stands(s, toks, at, v, p)
  PROVE  Parse(s) = toks \o Trail(at, p)
<1>1. PICK done \in Seq(Bytes), q \in Seq(Bytes) :
        /\ Decodes(done, toks) /\ Gives(q, p)
        /\ \/ at = "text" /\ s = done
           \/ at = "iac" /\ s = done \o <<T_IAC>>
           \/ at = "verb" /\ v \in 251..254 /\ s = done \o <<T_IAC, v>>
           \/ at = "sub" /\ s = done \o (<<T_IAC, T_SB>> \o q)
           \/ at = "subiac" /\ s = done \o (<<T_IAC, T_SB>> \o (q \o <<T_IAC>>))
  BY DEF Stands
<1>2. ASSUME NEW r \in Seq(Bytes) PROVE Read[done \o r] = toks \o Read[r]
  BY <1>1 DEF Decodes
<1>3. T_IAC \in Bytes /\ T_SB \in Bytes
  BY DEF T_IAC, T_SB, Bytes
<1>4. CASE at = "text"
  <2>1. done \o <<>> = done /\ <<>> \in Seq(Bytes)
    BY ConcatEmptySeq, EmptySeq
  <2>2. Read[done \o <<>>] = toks \o <<>>
    BY <1>2, <2>1, BeginsReads
  <2> QED BY <1>1, <1>4, <2>1, <2>2 DEF Parse, Trail
<1>5. CASE at = "iac"
  <2>1. <<T_IAC>> \in Seq(Bytes)
    BY <1>3
  <2>2. Read[done \o <<T_IAC>>] = toks \o <<>>
    BY <1>2, <2>1, BeginsReads
  <2> QED BY <1>1, <1>5, <2>2 DEF Parse, Trail
<1>6. CASE at = "verb"
  <2>1. v \in 251..254 /\ v \in Bytes
    BY <1>1, <1>6 DEF Bytes
  <2>2. <<T_IAC, v>> \in Seq(Bytes)
    BY <1>3, <2>1
  <2>3. Read[done \o <<T_IAC, v>>] = toks \o <<>>
    BY <1>2, <2>1, <2>2, BeginsReads
  <2> QED BY <1>1, <1>6, <2>3 DEF Parse, Trail
<1>7. ASSUME NEW tail \in Seq(Bytes), InsideIs(tail, "open", <<>>)
      PROVE  Read[done \o (<<T_IAC, T_SB>> \o (q \o tail))] = toks \o <<Open(p)>>
  <2> DEFINE sb == <<T_IAC, T_SB>>
  <2>1. sb \in Seq(Bytes)
    BY <1>3
  <2>2. Read[sb \o (q \o tail)] = <<Open(p)>>
    <3>1. Gives(q, p)
      BY <1>1
    <3>2. InsideIs(tail, "open", <<>>)
      BY <1>7
    <3> QED BY <3>1, <3>2, SuboptionOpen, Zenon
  <2> HIDE DEF sb
  <2>3. q \o tail \in Seq(Bytes)
    BY Joined, Zenon
  <2>4. sb \o (q \o tail) \in Seq(Bytes)
    BY <2>1, <2>3, Joined, Zenon
  <2>5. Read[done \o (sb \o (q \o tail))] = toks \o <<Open(p)>>
    BY <1>2, <2>2, <2>4
  <2> QED BY <2>5 DEF sb
<1>8. CASE at = "sub"
  <2>1. <<>> \in Seq(Bytes) /\ q \o <<>> = q
    BY EmptySeq, ConcatEmptySeq
  <2>2. Read[done \o (<<T_IAC, T_SB>> \o (q \o <<>>))] = toks \o <<Open(p)>>
    BY <1>7, <2>1, BeginsReads
  <2> QED BY <1>1, <1>8, <2>1, <2>2 DEF Parse, Trail
<1>9. CASE at = "subiac"
  <2>1. <<T_IAC>> \in Seq(Bytes)
    BY <1>3
  <2>2. Read[done \o (<<T_IAC, T_SB>> \o (q \o <<T_IAC>>))] = toks \o <<Open(p)>>
    BY <1>7, <2>1, BeginsReads
  <2> QED BY <1>1, <1>9, <2>2 DEF Parse, Trail
<1> QED BY <1>4, <1>5, <1>6, <1>8, <1>9, StandsType

LEMMA OddParses ==
  ASSUME NEW s, HasOdd(s)
  PROVE  Of({"odd"}, Parse(s)) # <<>>
<1>0. PICK done, q, p, rest \in Seq(Bytes), toks \in Seq(Tokens), x \in Bytes \ {240, 255} :
        OddParts(s, done, toks, q, p, x, rest)
  BY DEF HasOdd
<1>1. /\ Decodes(done, toks) /\ Gives(q, p)
      /\ s = done \o (<<T_IAC, T_SB>> \o (q \o (<<T_IAC, x>> \o rest)))
  BY <1>0 DEF OddParts
<1> DEFINE tail == <<T_IAC, x>> \o rest
           sb == <<T_IAC, T_SB>>
<1>2. /\ tail \in Seq(Bytes) /\ sb \in Seq(Bytes)
      /\ tail[1] = T_IAC /\ tail[2] = x /\ Rest(tail, 2) = rest /\ ~EndsAt(tail)
  <2>1. T_IAC \in Bytes /\ T_SB \in Bytes
    BY DEF T_IAC, T_SB, Bytes
  <2> QED BY <1>1, <2>1, TwoBytes
<1> HIDE DEF tail
<1>3. InsideIs(tail, "odd", rest)
  <2>1. InsideStep(Inside, tail) = [p |-> <<>>, is |-> "odd", rest |-> rest]
    BY <1>1, <1>2 DEF InsideStep, T_IAC, T_SE
  <2> QED BY <1>2, <2>1, InsideDef DEF InsideIs
<1>4. Read[<<T_IAC, T_SB>> \o (q \o tail)] = <<Odd>>
  <2>1. Gives(q, p)
    BY <1>1
  <2>2. tail \in Seq(Bytes)
    BY <1>2
  <2> QED BY <1>3, <2>1, <2>2, SuboptionOdd, Zenon
<1>5. q \o tail \in Seq(Bytes)
  BY <1>1, <1>2, Joined, Zenon
<1>6. sb \o (q \o tail) \in Seq(Bytes)
  <2> HIDE DEF sb
  <2> QED BY <1>2, <1>5, Joined, Zenon
<1>7. Parse(s) = toks \o <<Odd>> /\ toks \in Seq(Tokens)
  <2>1. Read[done \o (sb \o (q \o tail))] = toks \o <<Odd>>
    BY <1>1, <1>4, <1>6 DEF Decodes
  <2>2. s = done \o (sb \o (q \o tail))
    BY <1>1 DEF tail
  <2> QED BY <1>1, <2>1, <2>2 DEF Parse, Decodes
<1>8. Odd \in Tokens /\ Odd.t = "odd"
  BY DEF Odd, Tokens
<1> DEFINE o == Odd
           kinds == {"odd"}
<1>9. o \in Tokens /\ o.t \in kinds
  BY <1>8
<1> HIDE DEF o, kinds
<1>10. Of(kinds, toks \o <<o>>) = Of(kinds, toks) \o <<o>> /\ Of(kinds, toks) \in Seq(Tokens)
  BY <1>7, <1>9, OfAppend, OfType
<1>11. Len(Of(kinds, toks) \o <<o>>) = Len(Of(kinds, toks)) + 1 /\ Len(Of(kinds, toks)) \in Nat
  BY <1>9, <1>10, Appended
<1>12. Of(kinds, toks) \o <<o>> # <<>>
  BY <1>11
<1> QED BY <1>7, <1>10, <1>12 DEF o, kinds

LEMMA OddStays ==
  ASSUME NEW s, HasOdd(s), NEW u \in Seq(Bytes)
  PROVE  HasOdd(s \o u)
<1>0. PICK done, q, p, rest \in Seq(Bytes), toks \in Seq(Tokens), x \in Bytes \ {240, 255} :
        OddParts(s, done, toks, q, p, x, rest)
  BY DEF HasOdd
<1>1. /\ Decodes(done, toks) /\ Gives(q, p)
      /\ s = done \o (<<T_IAC, T_SB>> \o (q \o (<<T_IAC, x>> \o rest)))
  BY <1>0 DEF OddParts
<1> DEFINE sb == <<T_IAC, T_SB>>
           ix == <<T_IAC, x>>
<1>2. sb \in Seq(Bytes)
  BY DEF T_IAC, T_SB, Bytes
<1>3. ix \in Seq(Bytes)
  BY <1>1, Codes, Tuple2
<1>4. s = done \o (sb \o (q \o (ix \o rest)))
  BY <1>1
<1>5. rest \o u \in Seq(Bytes)
  BY <1>1, Joined, Zenon
<1> HIDE DEF sb, ix
<1>6. (done \o (sb \o (q \o (ix \o rest)))) \o u = done \o (sb \o (q \o (ix \o (rest \o u))))
  <2>1. Grown4(done, sb, q, ix, rest, u)
    BY <1>2, <1>3, Grows4, Zenon
  <2> QED BY <2>1 DEF Grown4
<1>7. s \o u = done \o (sb \o (q \o (ix \o (rest \o u))))
  BY <1>4, <1>6
<1>8. OddParts(s \o u, done, toks, q, p, x, rest \o u)
  BY <1>1, <1>5, <1>7 DEF sb, ix, OddParts
<1> QED BY <1>8, OddFound, Zenon

-----------------------------------------------------------------------------
(* The reader takes a byte more, or several.                               *)

LEMMA TextStep ==
  ASSUME NEW s, NEW toks, NEW v, NEW p, Stands(s, toks, "text", v, p), NEW c \in Bytes
  PROVE  /\ c # 255 => Stands(s \o <<c>>, toks \o <<DataToken(c)>>, "text", 0, <<>>)
         /\ c = 255 => Stands(s \o <<c>>, toks, "iac", 0, <<>>)
<1>1. Decodes(s, toks)
  BY DEF Stands
<1>2. Gives(<<>>, <<>>)
  BY DecodesEmpty
<1>3. ASSUME c # 255 PROVE Stands(s \o <<c>>, toks \o <<DataToken(c)>>, "text", 0, <<>>)
  <2>1. Decodes(<<c>>, <<DataToken(c)>>)
    BY <1>3, DecodesByte DEF EscapedByte, T_IAC
  <2>2. Decodes(s \o <<c>>, toks \o <<DataToken(c)>>)
    BY <1>1, <2>1, DecodesConcat, Zenon
  <2> QED BY <1>2, <2>2, StandsAt, Zenon
<1>4. ASSUME c = 255 PROVE Stands(s \o <<c>>, toks, "iac", 0, <<>>)
  <2>1. c = T_IAC
    BY <1>4 DEF T_IAC
  <2>2. Stands(s \o <<T_IAC>>, toks, "iac", 0, <<>>)
    BY <1>1, <1>2, StandsAt, Zenon
  <2> QED BY <2>1, <2>2
<1> QED BY <1>3, <1>4

LEMMA TextRun ==
  ASSUME NEW s, NEW toks, NEW v, NEW p, Stands(s, toks, "text", v, p),
         NEW buf \in Seq(Bytes), \A i \in 1..Len(buf) : buf[i] # 255
  PROVE  Stands(s \o buf, toks \o AsData(buf), "text", 0, <<>>)
<1>1. Decodes(s, toks)
  BY DEF Stands
<1>2. Decodes(buf, AsData(buf))
  BY PlainReads
<1>3. Decodes(s \o buf, toks \o AsData(buf))
  BY <1>1, <1>2, DecodesConcat, Zenon
<1> QED BY <1>3, DecodesEmpty, StandsAt, Zenon

LEMMA IacStep ==
  ASSUME NEW s, NEW toks, NEW v, NEW p, Stands(s, toks, "iac", v, p), NEW c \in Bytes
  PROVE  /\ c = 255 => Stands(s \o <<c>>, toks \o <<DataToken(255)>>, "text", 0, <<>>)
         /\ c = 250 => Stands(s \o <<c>>, toks, "sub", 0, <<>>)
         /\ c = 240 => Stands(s \o <<c>>, toks \o <<Stray>>, "text", 0, <<>>)
         /\ c \in 251..254 => Stands(s \o <<c>>, toks, "verb", c, <<>>)
         /\ c \notin {240, 250, 251, 252, 253, 254, 255} =>
              Stands(s \o <<c>>, toks \o <<Command>>, "text", 0, <<>>)
<1>1. PICK done \in Seq(Bytes) : Decodes(done, toks) /\ s = done \o <<T_IAC>>
  BY DEF Stands
<1>2. Gives(<<>>, <<>>)
  BY DecodesEmpty
<1>3. s \o <<c>> = done \o <<T_IAC, c>>
  <2> DEFINE i == <<T_IAC>>
             o == <<c>>
  <2>1. i \in Seq(Bytes) /\ o \in Seq(Bytes) /\ i \o o = <<T_IAC, c>>
    BY Codes, Tuple1, Tuple2
  <2> HIDE DEF i, o
  <2>2. (done \o i) \o o = done \o (i \o o)
    BY <1>1, <2>1, Regroup, Zenon
  <2> QED BY <1>1, <2>1, <2>2 DEF i, o
<1>4. ASSUME NEW t, Decodes(<<T_IAC, c>>, t) PROVE Stands(s \o <<c>>, toks \o t, "text", 0, <<>>)
  <2>1. Decodes(done \o <<T_IAC, c>>, toks \o t)
    BY <1>1, <1>4, DecodesConcat, Zenon
  <2>2. Stands(done \o <<T_IAC, c>>, toks \o t, "text", 0, <<>>)
    BY <1>2, <2>1, StandsAt, Zenon
  <2> QED BY <1>3, <2>2
<1>5. ASSUME c = 255 PROVE Stands(s \o <<c>>, toks \o <<DataToken(255)>>, "text", 0, <<>>)
  <2>1. Decodes(<<T_IAC, c>>, <<DataToken(255)>>)
    <3>1. c = T_IAC /\ EscapedByte(c) = <<T_IAC, c>> /\ DataToken(c) = DataToken(255)
      BY <1>5 DEF EscapedByte, T_IAC
    <3> QED BY <3>1, DecodesByte
  <2> QED BY <1>4, <2>1
<1>6. ASSUME c = 250 PROVE Stands(s \o <<c>>, toks, "sub", 0, <<>>)
  <2>1. c = T_SB
    BY <1>6 DEF T_SB
  <2>2. Stands(done \o (<<T_IAC, T_SB>> \o <<>>), toks, "sub", 0, <<>>)
    BY <1>1, <1>2, StandsAt, Zenon
  <2>3. <<T_IAC, T_SB>> \o <<>> = <<T_IAC, T_SB>>
    OBVIOUS
  <2> QED BY <1>3, <2>1, <2>2, <2>3
<1>7. ASSUME c \in 251..254 PROVE Stands(s \o <<c>>, toks, "verb", c, <<>>)
  <2>1. Stands(done \o <<T_IAC, c>>, toks, "verb", c, <<>>)
    BY <1>1, <1>2, <1>7, StandsAt, Zenon
  <2> QED BY <1>3, <2>1
<1> QED BY <1>4, <1>5, <1>6, <1>7, PairReads

LEMMA VerbStep ==
  ASSUME NEW s, NEW toks, NEW v, NEW p, Stands(s, toks, "verb", v, p), NEW c \in Bytes
  PROVE  Stands(s \o <<c>>, toks \o <<Neg(v, c)>>, "text", 0, <<>>) /\ v \in 251..254
<1>1. PICK done \in Seq(Bytes) : Decodes(done, toks) /\ v \in 251..254 /\ s = done \o <<T_IAC, v>>
  BY DEF Stands
<1>2. s \o <<c>> = done \o <<T_IAC, v, c>>
  <2> DEFINE i == <<T_IAC, v>>
             o == <<c>>
  <2>1. i \in Seq(Bytes) /\ o \in Seq(Bytes) /\ i \o o = <<T_IAC, v, c>>
    BY <1>1, Codes, Tuple1, Tuple2, Tuple3
  <2> HIDE DEF i, o
  <2>2. (done \o i) \o o = done \o (i \o o)
    BY <1>1, <2>1, Regroup, Zenon
  <2> QED BY <1>1, <2>1, <2>2 DEF i, o
<1>3. Decodes(<<T_IAC, v, c>>, <<Neg(v, c)>>)
  BY <1>1, DecodesNeg
<1>4. Decodes(done \o <<T_IAC, v, c>>, toks \o <<Neg(v, c)>>)
  BY <1>1, <1>3, DecodesConcat, Zenon
<1>5. Stands(done \o <<T_IAC, v, c>>, toks \o <<Neg(v, c)>>, "text", 0, <<>>)
  BY <1>4, DecodesEmpty, StandsAt, Zenon
<1> QED BY <1>1, <1>2, <1>5

LEMMA SubGrows ==
  ASSUME NEW s, NEW toks, NEW v, NEW p, Stands(s, toks, "sub", v, p),
         NEW w \in Seq(Bytes), NEW g, Gives(w, g)
  PROVE  Stands(s \o w, toks, "sub", 0, p \o g)
<1>1. PICK done \in Seq(Bytes), q \in Seq(Bytes) :
        Decodes(done, toks) /\ Gives(q, p) /\ s = done \o (<<T_IAC, T_SB>> \o q)
  BY DEF Stands
<1> DEFINE sb == <<T_IAC, T_SB>>
<1>2. sb \in Seq(Bytes)
  BY DEF T_IAC, T_SB, Bytes
<1>3. s = done \o (sb \o q)
  BY <1>1
<1> HIDE DEF sb
<1>4. sb \o q \in Seq(Bytes)
  BY <1>2, Joined, Zenon
<1>5. s \o w = done \o ((sb \o q) \o w)
  BY <1>3, <1>4, Regroup, Zenon
<1>6. (sb \o q) \o w = sb \o (q \o w)
  BY <1>2, Regroup, Zenon
<1>7. Gives(q \o w, p \o g)
  BY <1>1, GivesConcat, Zenon
<1>8. Stands(done \o (<<T_IAC, T_SB>> \o (q \o w)), toks, "sub", 0, p \o g)
  BY <1>1, <1>7, StandsAt, Zenon
<1> QED BY <1>5, <1>6, <1>8 DEF sb

LEMMA SubStep ==
  ASSUME NEW s, NEW toks, NEW v, NEW p, Stands(s, toks, "sub", v, p), NEW c \in Bytes
  PROVE  /\ c # 255 => Stands(s \o <<c>>, toks, "sub", 0, p \o <<c>>)
         /\ c = 255 => Stands(s \o <<c>>, toks, "subiac", 0, p)
<1>1. ASSUME c # 255 PROVE Stands(s \o <<c>>, toks, "sub", 0, p \o <<c>>)
  <2>1. Gives(<<c>>, <<c>>) /\ <<c>> \in Seq(Bytes)
    <3>1. EscapedByte(c) = <<c>>
      BY <1>1 DEF EscapedByte, T_IAC
    <3> QED BY <3>1, DecodesByte, Tuple1
  <2> QED BY <2>1, SubGrows, Zenon
<1>2. ASSUME c = 255 PROVE Stands(s \o <<c>>, toks, "subiac", 0, p)
  <2>1. PICK done \in Seq(Bytes), q \in Seq(Bytes) :
          Decodes(done, toks) /\ Gives(q, p) /\ s = done \o (<<T_IAC, T_SB>> \o q)
    BY DEF Stands
  <2> DEFINE sb == <<T_IAC, T_SB>>
             i == <<T_IAC>>
  <2>2. sb \in Seq(Bytes) /\ i \in Seq(Bytes) /\ <<c>> = i
    BY <1>2 DEF T_IAC, T_SB, Bytes
  <2>3. s = done \o (sb \o q)
    BY <2>1
  <2>4. Stands(done \o (sb \o (q \o i)), toks, "subiac", 0, p)
    BY <2>1, StandsAt, Zenon
  <2> HIDE DEF sb, i
  <2>5. sb \o q \in Seq(Bytes)
    BY <2>2, Joined, Zenon
  <2>6. s \o i = done \o ((sb \o q) \o i)
    BY <2>2, <2>3, <2>5, Regroup, Zenon
  <2>7. (sb \o q) \o i = sb \o (q \o i)
    BY <2>2, Regroup, Zenon
  <2> QED BY <2>2, <2>4, <2>6, <2>7
<1> QED BY <1>1, <1>2

LEMMA SubRun ==
  ASSUME NEW s, NEW toks, NEW v, NEW p, Stands(s, toks, "sub", v, p),
         NEW buf \in Seq(Bytes), \A i \in 1..Len(buf) : buf[i] # 255
  PROVE  Stands(s \o buf, toks, "sub", 0, p \o buf)
<1>1. Gives(buf, buf)
  BY PlainReads
<1> QED BY <1>1, SubGrows, Zenon

LEMMA SubiacStep ==
  ASSUME NEW s, NEW toks, NEW v, NEW p, Stands(s, toks, "subiac", v, p), NEW c \in Bytes
  PROVE  /\ c = 255 => Stands(s \o <<c>>, toks, "sub", 0, p \o <<255>>)
         /\ c = 240 => Stands(s \o <<c>>, toks \o <<Sub(p)>>, "text", 0, <<>>)
         /\ c \notin {240, 255} => HasOdd(s \o <<c>>)
<1>1. PICK done \in Seq(Bytes), q \in Seq(Bytes) :
        Decodes(done, toks) /\ Gives(q, p) /\ s = done \o (<<T_IAC, T_SB>> \o (q \o <<T_IAC>>))
  BY DEF Stands
<1> DEFINE sb == <<T_IAC, T_SB>>
           i == <<T_IAC>>
           o == <<c>>
           io == <<T_IAC, c>>
<1>2. sb \in Seq(Bytes) /\ i \in Seq(Bytes) /\ o \in Seq(Bytes) /\ io \in Seq(Bytes) /\ i \o o = io
  BY Codes, Tuple1, Tuple2
<1>3. s \o o = done \o (sb \o (q \o io))
  <2>1. s = done \o (sb \o (q \o i))
    BY <1>1
  <2> HIDE DEF sb, i, o, io
  <2>2. sb \in Seq(Bytes)
    BY <1>2
  <2>3. i \in Seq(Bytes)
    BY <1>2
  <2>4. o \in Seq(Bytes)
    BY <1>2
  <2>5. Grown3(done, sb, q, i, o)
    BY <2>2, <2>3, <2>4, Grows3, Zenon
  <2> QED BY <1>2, <2>1, <2>5 DEF Grown3
<1>4. ASSUME c = 255 PROVE Stands(s \o <<c>>, toks, "sub", 0, p \o <<255>>)
  <2>1. Gives(io, <<255>>)
    <3>1. EscapedByte(c) = io /\ <<c>> = <<255>>
      BY <1>4 DEF EscapedByte, T_IAC
    <3> QED BY <3>1, DecodesByte
  <2>2. Gives(q \o io, p \o <<255>>)
    BY <1>1, <2>1, GivesConcat, Zenon
  <2>3. Stands(done \o (sb \o (q \o io)), toks, "sub", 0, p \o <<255>>)
    BY <1>1, <2>2, StandsAt, Zenon
  <2> QED BY <1>3, <2>3
<1>5. ASSUME c = 240 PROVE Stands(s \o <<c>>, toks \o <<Sub(p)>>, "text", 0, <<>>)
  <2>1. io = <<T_IAC, T_SE>>
    BY <1>5 DEF T_SE
  <2>2. Decodes(sb \o (q \o <<T_IAC, T_SE>>), <<Sub(p)>>)
    BY <1>1, DecodesSuboption
  <2>3. Decodes(done \o (sb \o (q \o <<T_IAC, T_SE>>)), toks \o <<Sub(p)>>)
    <3> DEFINE w == sb \o (q \o <<T_IAC, T_SE>>)
    <3>1. Decodes(w, <<Sub(p)>>) /\ Decodes(done, toks)
      BY <1>1, <2>2
    <3> HIDE DEF w
    <3>2. Decodes(done \o w, toks \o <<Sub(p)>>)
      BY <3>1, DecodesConcat, Zenon
    <3> QED BY <3>2 DEF w
  <2>4. Stands(done \o (sb \o (q \o <<T_IAC, T_SE>>)), toks \o <<Sub(p)>>, "text", 0, <<>>)
    BY <2>3, DecodesEmpty, StandsAt, Zenon
  <2> QED BY <1>3, <2>1, <2>4
<1>6. ASSUME c \notin {240, 255} PROVE HasOdd(s \o <<c>>)
  <2>1. io = io \o <<>> /\ <<>> \in Seq(Bytes)
    BY <1>2, ConcatEmptySeq, EmptySeq
  <2>2. s \o <<c>> = done \o (<<T_IAC, T_SB>> \o (q \o (<<T_IAC, c>> \o <<>>)))
    BY <1>3, <2>1
  <2>3. c \in Bytes \ {240, 255}
    BY <1>6
  <2>4. OddParts(s \o <<c>>, done, toks, q, p, c, <<>>)
    BY <1>1, <2>1, <2>2, <2>3 DEF OddParts
  <2> QED BY <2>4, OddFound, Zenon
<1> QED BY <1>4, <1>5, <1>6
-----------------------------------------------------------------------------
(* What the parts of the engine do besides keeping it in order.            *)

Heard(log) == Of({"data"}, log)
Calls(log) == Of({"baudrate", "control", "purge"}, log)
Greets(log) == Of({"connected"}, log)
Replies(said) == Of({"sub"}, said)

\* f differs from e in the options, in rfc2217 and in its output only.
Frame(e, f) ==
  /\ f \in Engine /\ f.mode = e.mode /\ f.command = e.command /\ f.collecting = e.collecting
  /\ f.suboption = e.suboption /\ f.size = e.size /\ f.buffer = e.buffer
\* And no data and no port command came out.
Quiet(e, f) ==
  Frame(e, f) /\ Heard(f.log) = Heard(e.log) /\ Calls(f.log) = Calls(e.log) /\ Replies(f.said) = Replies(e.said)

LEMMA QuietTwice ==
  ASSUME NEW e, NEW f, NEW g, Quiet(e, f), Quiet(f, g)
  PROVE  Quiet(e, g)
  BY DEF Quiet, Frame

LEMMA SendFrame ==
  ASSUME NEW e \in Engine, NEW bytes \in Seq(Bytes), NEW meaning \in Seq(Said)
  PROVE  LET f == Send(e, bytes, meaning)
         IN  /\ Frame(e, f) /\ f.options = e.options /\ f.rfc2217 = e.rfc2217 /\ f.log = e.log
             /\ f.said = e.said \o meaning
<1> DEFINE w == e.wire \o bytes
           m == e.said \o meaning
           f == Told(e, w, m)
<1>1. Send(e, bytes, meaning) = f
  BY DEF Send, Engine, Told
<1>2. f \in Engine /\ f.said = m
  <2>1. w \in Seq(Bytes) /\ m \in Seq(Said)
    BY ConcatProperties DEF Engine
  <2> HIDE DEF w, m
  <2> QED BY <2>1, WireChanged
<1> HIDE DEF w
<1>3. f.mode = e.mode /\ f.command = e.command /\ f.collecting = e.collecting
  BY DEF Engine, Told
<1>4. f.suboption = e.suboption /\ f.size = e.size /\ f.buffer = e.buffer
  BY DEF Engine, Told
<1>5. f.options = e.options /\ f.rfc2217 = e.rfc2217 /\ f.log = e.log
  BY DEF Engine, Told
<1> HIDE DEF f
<1> QED BY <1>1, <1>2, <1>3, <1>4, <1>5 DEF Frame

LEMMA CallFrame ==
  ASSUME NEW e \in Engine, NEW token \in Logged
  PROVE  LET f == Call(e, token)
         IN  /\ Frame(e, f) /\ f.options = e.options /\ f.rfc2217 = e.rfc2217 /\ f.said = e.said
             /\ f.log = e.log \o <<token>>
<1> DEFINE l == e.log \o <<token>>
           f == [e EXCEPT !.log = l]
<1>1. Append(e.log, token) = l /\ l \in Seq(Logged)
  <2>1. e.log \in Seq(Logged)
    BY DEF Engine
  <2> QED BY <2>1, AppendIsConcat, Appended
<1>2. Call(e, token) = f
  BY <1>1 DEF Call, Engine
<1> HIDE DEF l
<1>3. f \in Engine
  BY <1>1, LogChanged
<1>4. f.mode = e.mode /\ f.command = e.command /\ f.collecting = e.collecting /\ f.log = l
  BY DEF Engine
<1>5. f.suboption = e.suboption /\ f.size = e.size /\ f.buffer = e.buffer
  BY DEF Engine
<1>6. f.options = e.options /\ f.rfc2217 = e.rfc2217 /\ f.said = e.said
  BY DEF Engine
<1> HIDE DEF f
<1> QED BY <1>2, <1>3, <1>4, <1>5, <1>6 DEF Frame, l

LEMMA LogGrows ==
  ASSUME NEW log \in Seq(Logged), NEW x \in Logged
  PROVE  /\ Heard(log \o <<x>>) = IF x.t = "data" THEN Heard(log) \o <<x>> ELSE Heard(log)
         /\ Calls(log \o <<x>>) = IF x.t \in {"baudrate", "control", "purge"} THEN Calls(log) \o <<x>> ELSE Calls(log)
         /\ Greets(log \o <<x>>) = IF x.t = "connected" THEN Greets(log) \o <<x>> ELSE Greets(log)
<1>1. ASSUME NEW kinds PROVE Of(kinds, log \o <<x>>) = IF x.t \in kinds THEN Of(kinds, log) \o <<x>> ELSE Of(kinds, log)
  BY OfAppend
<1>2. \A kinds : Of(kinds, log \o <<x>>) = IF x.t \in kinds THEN Of(kinds, log) \o <<x>> ELSE Of(kinds, log)
  BY <1>1
<1>3. x.t \in {"data"} <=> x.t = "data"
  OBVIOUS
<1>4. x.t \in {"connected"} <=> x.t = "connected"
  OBVIOUS
<1>5. Heard(log \o <<x>>) = IF x.t \in {"data"} THEN Heard(log) \o <<x>> ELSE Heard(log)
  BY <1>2, Zenon DEF Heard
<1>6. Calls(log \o <<x>>) = IF x.t \in {"baudrate", "control", "purge"} THEN Calls(log) \o <<x>> ELSE Calls(log)
  BY <1>2, Zenon DEF Calls
<1>7. Greets(log \o <<x>>) = IF x.t \in {"connected"} THEN Greets(log) \o <<x>> ELSE Greets(log)
  BY <1>2, Zenon DEF Greets
<1> QED BY <1>3, <1>4, <1>5, <1>6, <1>7

LEMMA SendOptionQuiet ==
  ASSUME NEW e \in Engine, NEW action \in Bytes, NEW option \in Bytes
  PROVE  LET f == telnet_send_option(e, action, option)
         IN  Quiet(e, f) /\ f.options = e.options /\ f.rfc2217 = e.rfc2217 /\ f.log = e.log
<1> DEFINE bytes == <<T_IAC, action, option>>
           x == Neg(action, option)
           m == <<x>>
           f == Send(e, bytes, m)
<1>1. bytes \in Seq(Bytes)
  BY Codes, Tuple3
<1>2. x \in Said /\ x.t = "neg"
  BY DEF Neg, Said
<1>3. telnet_send_option(e, action, option) = f
  BY DEF telnet_send_option
<1> HIDE DEF bytes, x
<1>4. m \in Seq(Said)
  BY <1>2
<1>5. /\ Frame(e, f) /\ f.options = e.options /\ f.rfc2217 = e.rfc2217 /\ f.log = e.log
      /\ f.said = e.said \o m
  <2> HIDE DEF m
  <2> QED BY <1>1, <1>4, SendFrame
<1>6. Of({"sub"}, e.said \o m) = Of({"sub"}, e.said)
  <2> DEFINE kinds == {"sub"}
             old == e.said
  <2>1. old \in Seq(Said) /\ x.t \notin kinds
    BY <1>2 DEF Engine
  <2> HIDE DEF kinds, old
  <2>2. Of(kinds, old \o <<x>>) = IF x.t \in kinds THEN Of(kinds, old) \o <<x>> ELSE Of(kinds, old)
    BY <1>2, <2>1, OfAppend
  <2> QED BY <2>1, <2>2 DEF kinds, old
<1> HIDE DEF f, m
<1>7. Replies(f.said) = Replies(e.said)
  BY <1>5, <1>6 DEF Replies
<1> QED BY <1>3, <1>5, <1>7 DEF Quiet

\* on_client_connected has been called if rfc2217 is set, once, and not otherwise.
Greeted(e) == Greets(e.log) = IF e.rfc2217 THEN <<[t |-> "connected"]>> ELSE <<>>
\* And it is set if the COM port option is active on either side.
Announced(e) == Greeted(e) /\ \A i \in {6, 7} : e.options[i] = "active" => e.rfc2217

LEMMA ClientOkQuiet ==
  ASSUME NEW e \in Engine, Greeted(e)
  PROVE  LET f == on_client_ok(e)
         IN  Quiet(e, f) /\ f.options = e.options /\ f.rfc2217 /\ Greeted(f)
<1> DEFINE x == [t |-> "connected"]
           g == [e EXCEPT !.rfc2217 = TRUE]
           f == Call(g, x)
<1>1. x \in Logged /\ x.t = "connected"
  BY DEF Logged
<1>2. CASE e.rfc2217
  <2>1. on_client_ok(e) = e
    BY <1>2 DEF on_client_ok
  <2>2. Quiet(e, e)
    BY DEF Quiet, Frame
  <2> QED BY <1>2, <2>1, <2>2
<1>3. CASE ~e.rfc2217
  <2>1. g \in Engine /\ g.log = e.log /\ g.said = e.said /\ g.options = e.options /\ g.rfc2217 = TRUE
    BY DEF Engine
  <2>2. g.mode = e.mode /\ g.command = e.command /\ g.collecting = e.collecting
    BY DEF Engine
  <2>3. g.suboption = e.suboption /\ g.size = e.size /\ g.buffer = e.buffer
    BY DEF Engine
  <2>4. on_client_ok(e) = f
    BY <1>3 DEF on_client_ok
  <2> HIDE DEF g
  <2>5. /\ Frame(g, f) /\ f.options = g.options /\ f.rfc2217 = g.rfc2217 /\ f.said = g.said
        /\ f.log = g.log \o <<x>>
    <3> HIDE DEF x
    <3> QED BY <1>1, <2>1, CallFrame
  <2> HIDE DEF f
  <2>6. Frame(e, f)
    BY <2>2, <2>3, <2>5 DEF Frame
  <2> DEFINE l == e.log
  <2>7. l \in Seq(Logged)
    BY DEF Engine
  <2>8. Greets(l) = <<>>
    BY <1>3 DEF Greeted
  <2>9. Heard(l \o <<x>>) = Heard(l) /\ Calls(l \o <<x>>) = Calls(l) /\ Greets(l \o <<x>>) = Greets(l) \o <<x>>
    <3> HIDE DEF l, x
    <3>1. x.t # "data" /\ x.t \notin {"baudrate", "control", "purge"} /\ x.t = "connected"
      BY <1>1
    <3> QED BY <1>1, <2>7, <3>1, LogGrows
  <2>10. f.log = l \o <<x>>
    BY <2>1, <2>5
  <2>11. <<>> \o <<x>> = <<x>>
    OBVIOUS
  <2>12. Greets(f.log) = <<x>>
    BY <2>8, <2>9, <2>10, <2>11
  <2>13. Quiet(e, f)
    BY <2>1, <2>5, <2>6, <2>9, <2>10 DEF Quiet
  <2> QED BY <2>1, <2>4, <2>5, <2>12, <2>13 DEF Greeted
<1>4. e.rfc2217 \in BOOLEAN
  BY DEF Engine
<1> QED BY <1>2, <1>3, <1>4

LEMMA OptionStateQuiet ==
  ASSUME NEW e \in Engine, NEW i \in 1..7, NEW state \in {"requested", "active", "inactive"}
  PROVE  LET f == OptionState(e, i, state)
         IN  /\ Quiet(e, f) /\ f.rfc2217 = e.rfc2217 /\ f.log = e.log
             /\ f.options[i] = state /\ \A j \in 1..7 : j # i => f.options[j] = e.options[j]
<1> DEFINE o == [e.options EXCEPT ![i] = state]
           f == [e EXCEPT !.options = o]
<1>1. OptionState(e, i, state) = f
  BY DEF OptionState, Engine
<1>2. f.mode = e.mode /\ f.command = e.command /\ f.collecting = e.collecting
  BY DEF Engine
<1>3. f.suboption = e.suboption /\ f.size = e.size /\ f.buffer = e.buffer
  BY DEF Engine
<1>4. f.rfc2217 = e.rfc2217 /\ f.log = e.log /\ f.said = e.said
  BY DEF Engine
<1> HIDE DEF o, f
<1>5. f \in Engine
  BY <1>1, OptionStateType
<1>6. f.options[i] = state /\ \A j \in 1..7 : j # i => f.options[j] = e.options[j]
  BY <1>1, OptionStateType
<1> QED BY <1>1, <1>2, <1>3, <1>4, <1>5, <1>6 DEF Quiet, Frame

\* The outcome of a negotiation in which the client agreed to the COM port option, or
\* did not.
Negotiated(e, r, agreed) == Quiet(e, r) /\ Announced(r) /\ (r.rfc2217 <=> e.rfc2217 \/ agreed)

LEMMA NegotiatedTwice ==
  ASSUME NEW e, NEW f, NEW g, NEW a, NEW b, NEW c, Negotiated(e, f, a), Negotiated(f, g, b), c <=> a \/ b
  PROVE  Negotiated(e, g, c)
<1>1. Quiet(e, g)
  BY QuietTwice DEF Negotiated
<1> QED BY <1>1 DEF Negotiated

\* Steps that leave the log and rfc2217 alone and activate nothing of the COM port option.
LEMMA NegotiatedSilently ==
  ASSUME NEW e, Announced(e), NEW f, Quiet(e, f), f.rfc2217 = e.rfc2217, f.log = e.log,
         \A j \in {6, 7} : f.options[j] = "active" => e.options[j] = "active"
  PROVE  Negotiated(e, f, FALSE)
  BY DEF Negotiated, Announced, Greeted

LEMMA NegotiatedSame ==
  ASSUME NEW e \in Engine, Announced(e), NEW agreed, agreed => e.rfc2217
  PROVE  Negotiated(e, e, agreed)
  BY DEF Negotiated, Quiet, Frame

LEMMA OtherIncoming ==
  ASSUME NEW e \in Engine, Announced(e), NEW i \in 1..5, NEW command
  PROVE  Negotiated(e, telnet_option_process_incoming(e, i, command), FALSE)
<1> DEFINE r == telnet_option_process_incoming(e, i, command)
           on == OptionState(e, i, "active")
           off == OptionState(e, i, "inactive")
<1>1. i \in 1..7 /\ i \notin {6, 7}
  OBVIOUS
<1>2. ~option_defs[i].port
  BY <1>1, OptionDefTypes
<1>3. r = e \/ r = on \/ r = off
  BY <1>1, <1>2, IncomingArms
<1>4. ASSUME NEW state \in {"active", "inactive"} PROVE Negotiated(e, OptionState(e, i, state), FALSE)
  <2> DEFINE f == OptionState(e, i, state)
  <2>1. Quiet(e, f) /\ f.rfc2217 = e.rfc2217 /\ f.log = e.log /\ \A j \in 1..7 : j # i => f.options[j] = e.options[j]
    BY <1>1, OptionStateQuiet
  <2> HIDE DEF f
  <2>2. \A j \in {6, 7} : f.options[j] = e.options[j]
    BY <2>1
  <2>3. Negotiated(e, f, FALSE)
    BY <2>1, <2>2, NegotiatedSilently
  <2> QED BY <2>3 DEF f
<1>5. Negotiated(e, e, FALSE)
  BY NegotiatedSame
<1> HIDE DEF r
<1>6. Negotiated(e, r, FALSE)
  BY <1>3, <1>4, <1>5
<1> QED BY <1>6 DEF r

\* The arms of telnet_option_process_incoming for the COM port option.
LEMMA PortArms ==
  ASSUME NEW e \in Engine, NEW i \in {6, 7}, NEW command
  PROVE  LET d == option_defs[i]
             r == telnet_option_process_incoming(e, i, command)
             on == OptionState(e, i, "active")
             off == OptionState(e, i, "inactive")
         IN  /\ command = d.ack_yes =>
                  \/ e.options[i] = "requested" /\ r = on_client_ok(on)
                  \/ e.options[i] = "inactive" /\ r = on_client_ok(telnet_send_option(on, d.send_yes, d.option))
                  \/ e.options[i] = "active" /\ r = e
             /\ command # d.ack_yes => r = e \/ r = off \/ r = telnet_send_option(off, d.send_no, d.option)
<1> DEFINE d == option_defs[i]
           o == e.options[i]
<1>1. d.ack_yes # d.ack_no /\ d.port
  BY OptionDefTypes
<1>0. o \in {"requested", "active", "inactive"}
  BY DEF Engine
<1>2. CASE command = d.ack_yes /\ o = "requested"
  <2>1. ~(command = d.ack_yes /\ o = "inactive") /\ ~(command = d.ack_no /\ o = "requested") /\ ~(command = d.ack_no /\ o = "active")
    BY <1>1, <1>2
  <2> QED BY <1>1, <1>2, <2>1 DEF telnet_option_process_incoming, OptionState
<1>3. CASE command = d.ack_yes /\ o = "inactive"
  <2>1. ~(command = d.ack_yes /\ o = "requested") /\ ~(command = d.ack_no /\ o = "requested") /\ ~(command = d.ack_no /\ o = "active")
    BY <1>1, <1>3
  <2> QED BY <1>1, <1>3, <2>1 DEF telnet_option_process_incoming, OptionState
<1>4. CASE command = d.ack_no /\ o = "requested"
  <2>1. ~(command = d.ack_yes /\ o = "requested") /\ ~(command = d.ack_yes /\ o = "inactive") /\ ~(command = d.ack_no /\ o = "active")
    BY <1>1, <1>4
  <2> QED BY <1>1, <1>4, <2>1 DEF telnet_option_process_incoming, OptionState
<1>5. CASE command = d.ack_no /\ o = "active"
  <2>1. ~(command = d.ack_yes /\ o = "requested") /\ ~(command = d.ack_yes /\ o = "inactive") /\ ~(command = d.ack_no /\ o = "requested")
    BY <1>1, <1>5
  <2> QED BY <1>1, <1>5, <2>1 DEF telnet_option_process_incoming, OptionState
<1>6. CASE /\ ~(command = d.ack_yes /\ o = "requested") /\ ~(command = d.ack_yes /\ o = "inactive")
           /\ ~(command = d.ack_no /\ o = "requested") /\ ~(command = d.ack_no /\ o = "active")
  <2>1. telnet_option_process_incoming(e, i, command) = e
    BY <1>6 DEF telnet_option_process_incoming
  <2>2. command = d.ack_yes => o = "active"
    BY <1>0, <1>6
  <2> QED BY <2>1, <2>2
<1> QED BY <1>2, <1>3, <1>4, <1>5, <1>6

LEMMA PortIncoming ==
  ASSUME NEW e \in Engine, Announced(e), NEW i \in {6, 7}, NEW command
  PROVE  Negotiated(e, telnet_option_process_incoming(e, i, command), command = option_defs[i].ack_yes)
<1> DEFINE d == option_defs[i]
           r == telnet_option_process_incoming(e, i, command)
           on == OptionState(e, i, "active")
           off == OptionState(e, i, "inactive")
           yes == command = d.ack_yes
<1>1. {d.send_yes, d.send_no} \subseteq Bytes /\ d.option \in Bytes
  BY OptionDefTypes DEF Bytes
<1>2. /\ Quiet(e, on) /\ on.rfc2217 = e.rfc2217 /\ on.log = e.log
      /\ Quiet(e, off) /\ off.rfc2217 = e.rfc2217 /\ off.log = e.log
      /\ \A j \in {6, 7} : off.options[j] = "active" => e.options[j] = "active"
  BY OptionStateQuiet
<1>3. /\ yes => \/ e.options[i] = "requested" /\ r = on_client_ok(on)
                \/ e.options[i] = "inactive" /\ r = on_client_ok(telnet_send_option(on, d.send_yes, d.option))
                \/ e.options[i] = "active" /\ r = e
      /\ ~yes => r = e \/ r = off \/ r = telnet_send_option(off, d.send_no, d.option)
  BY PortArms
<1>4. yes \in BOOLEAN
  OBVIOUS
<1> HIDE DEF r, on, off, yes
<1>5. Greeted(e) /\ Greeted(on)
  BY <1>2 DEF Announced, Greeted
<1>6. on \in Engine /\ off \in Engine
  BY <1>2 DEF Quiet, Frame
<1>7. ASSUME NEW f \in Engine, Quiet(e, f), Greeted(f) PROVE Negotiated(e, on_client_ok(f), TRUE)
  <2> DEFINE g == on_client_ok(f)
  <2>1. Quiet(f, g) /\ g.rfc2217 /\ Greeted(g)
    BY <1>7, ClientOkQuiet
  <2> HIDE DEF g
  <2>2. Quiet(e, g)
    BY <1>7, <2>1, QuietTwice
  <2>3. Negotiated(e, g, TRUE)
    BY <2>1, <2>2 DEF Negotiated, Announced
  <2> QED BY <2>3 DEF g
<1>8. CASE yes
  <2>1. CASE r = on_client_ok(on)
    <3>1. Negotiated(e, r, TRUE)
      BY <1>2, <1>5, <1>6, <1>7, <2>1
    <3> QED BY <1>8, <3>1 DEF Negotiated, r, yes
  <2>2. CASE r = on_client_ok(telnet_send_option(on, d.send_yes, d.option))
    <3> DEFINE f == telnet_send_option(on, d.send_yes, d.option)
    <3>1. Quiet(on, f) /\ f.rfc2217 = on.rfc2217 /\ f.log = on.log
      BY <1>1, <1>6, SendOptionQuiet
    <3> HIDE DEF f
    <3>2. Quiet(e, f) /\ f \in Engine
      BY <1>2, <3>1, QuietTwice DEF Quiet, Frame
    <3>3. Greeted(f)
      BY <1>5, <3>1 DEF Greeted
    <3>4. r = on_client_ok(f)
      BY <2>2 DEF f
    <3>5. Negotiated(e, r, TRUE)
      BY <1>7, <3>2, <3>3, <3>4
    <3> QED BY <1>8, <3>5 DEF Negotiated, r, yes
  <2>3. CASE e.options[i] = "active" /\ r = e
    <3>1. e.rfc2217
      BY <2>3 DEF Announced
    <3>2. Negotiated(e, e, yes)
      BY <3>1, NegotiatedSame
    <3> QED BY <2>3, <3>2 DEF r, yes
  <2> QED BY <1>3, <1>8, <2>1, <2>2, <2>3
<1>9. CASE ~yes
  <2>1. Negotiated(e, e, FALSE)
    BY NegotiatedSame
  <2>2. Negotiated(e, off, FALSE)
    BY <1>2, NegotiatedSilently
  <2>3. Negotiated(e, telnet_send_option(off, d.send_no, d.option), FALSE)
    <3> DEFINE f == telnet_send_option(off, d.send_no, d.option)
    <3>1. Quiet(off, f) /\ f.options = off.options /\ f.rfc2217 = off.rfc2217 /\ f.log = off.log
      BY <1>1, <1>6, SendOptionQuiet
    <3> HIDE DEF f
    <3>2. Quiet(e, f)
      BY <1>2, <3>1, QuietTwice
    <3>3. Negotiated(e, f, FALSE)
      BY <1>2, <3>1, <3>2, NegotiatedSilently
    <3> QED BY <3>3 DEF f
  <2>4. Negotiated(e, r, FALSE)
    BY <1>3, <1>9, <2>1, <2>2, <2>3
  <2> QED BY <1>9, <2>4 DEF Negotiated, r, yes
<1> QED BY <1>4, <1>8, <1>9

\* telnet_negotiate_option announces a client that says it will or asks to use the COM
\* port option.
AcceptsPort(command, option) == option = 44 /\ command \in {253, 251}

LEMMA OffersNegotiate ==
  ASSUME NEW e \in Engine, Announced(e), NEW option \in Bytes
  PROVE  Negotiated(e, Offers(e, option), AcceptsPort(e.command, option))
<1> DEFINE c == e.command
           Up(n) == option = 44 /\ ((n >= 6 /\ c = 253) \/ (n >= 7 /\ c = 251))
<1>1. PICK f : /\ f[0] = e
               /\ \A n \in 1..7 : f[n] = Offered(f[n - 1], n, option, c)
               /\ Offers(e, option) = f[7]
  BY FoldOptions
<1>2. option_defs[6].ack_yes = 253 /\ option_defs[7].ack_yes = 251
  BY OptionDefs DEF OptionDef, T_DO, T_WILL
<1> HIDE DEF c
<1> DEFINE T == {n \in Nat : n <= 7 => Negotiated(e, f[n], Up(n))}
<1>3. 0 \in T
  <2>1. ~Up(0)
    OBVIOUS
  <2> DEFINE up == Up(0)
  <2>2. ~up
    BY <2>1
  <2> HIDE DEF up
  <2>3. Negotiated(e, e, up)
    BY <2>2, NegotiatedSame
  <2>4. Negotiated(e, e, Up(0))
    BY <2>3 DEF up
  <2> QED BY <1>1, <2>4
<1>4. ASSUME NEW n \in Nat, n \in T PROVE n + 1 \in T
  <2>1. SUFFICES ASSUME n + 1 <= 7 PROVE Negotiated(e, f[n + 1], Up(n + 1))
    OBVIOUS
  <2> DEFINE g == f[n]
             m == n + 1
             r == telnet_option_process_incoming(g, m, c)
  <2>2. m \in 1..7 /\ n <= 7 /\ m - 1 = n
    BY <2>1
  <2>3. f[m] = Offered(g, m, option, c) /\ Negotiated(e, g, Up(n))
    BY <1>1, <1>4, <2>2
  <2>4. g \in Engine /\ Announced(g)
    BY <2>3 DEF Negotiated, Quiet, Frame
  <2>5. m \in {6, 7} <=> option_defs[m].option = 44
    BY <2>2, OptionDefTypes
  <2>6. f[m] = IF option_defs[m].option = option THEN r ELSE g
    BY <2>3 DEF Offered
  <2> HIDE DEF g, r
  <2>7. CASE option_defs[m].option # option
    <3>1. Up(m) <=> Up(n)
      BY <2>2, <2>5, <2>7
    <3>2. f[m] = g
      BY <2>6, <2>7
    <3> QED BY <2>3, <3>1, <3>2 DEF Negotiated
  <2>8. CASE option_defs[m].option = option /\ m \in {6, 7}
    <3>1. Negotiated(g, r, c = option_defs[m].ack_yes)
      <4> HIDE DEF m
      <4> QED BY <2>4, <2>8, PortIncoming DEF r
    <3>2. option = 44
      BY <2>5, <2>8
    <3>3. Up(m) <=> Up(n) \/ c = option_defs[m].ack_yes
      <4>1. CASE m = 6
        BY <1>2, <3>2, <4>1
      <4>2. CASE m = 7
        BY <1>2, <3>2, <4>2
      <4> QED BY <2>8, <4>1, <4>2
    <3>4. Negotiated(e, r, Up(m))
      <4> DEFINE a == Up(n)
                 b == c = option_defs[m].ack_yes
                 d == Up(m)
      <4>1. Negotiated(e, g, a)
        BY <2>3
      <4>2. Negotiated(g, r, b)
        BY <3>1
      <4>3. d <=> a \/ b
        BY <3>3
      <4> HIDE DEF a, b, d
      <4>4. Negotiated(e, r, d)
        BY <4>1, <4>2, <4>3, NegotiatedTwice, Zenon
      <4> QED BY <4>4 DEF d
    <3> QED BY <2>6, <2>8, <3>4
  <2>9. CASE option_defs[m].option = option /\ m \notin {6, 7}
    <3>1. Negotiated(g, r, FALSE)
      <4>1. m \in 1..5
        BY <2>2, <2>9
      <4> HIDE DEF m
      <4> QED BY <2>4, <4>1, OtherIncoming DEF r
    <3>2. option # 44
      BY <2>5, <2>9
    <3>3. Up(m) <=> Up(n) \/ FALSE
      BY <3>2
    <3>4. Negotiated(e, r, Up(m))
      <4> DEFINE a == Up(n)
                 b == FALSE
                 d == Up(m)
      <4>1. Negotiated(e, g, a)
        BY <2>3
      <4>2. Negotiated(g, r, b)
        BY <3>1
      <4>3. d <=> a \/ b
        BY <3>3
      <4> HIDE DEF a, b, d
      <4>4. Negotiated(e, r, d)
        BY <4>1, <4>2, <4>3, NegotiatedTwice, Zenon
      <4> QED BY <4>4 DEF d
    <3> QED BY <2>6, <2>9, <3>4
  <2> QED BY <2>7, <2>8, <2>9
<1>5. 7 \in T
  <2> HIDE DEF T
  <2> QED BY <1>3, <1>4, Upwards
<1>6. Negotiated(e, f[7], Up(7))
  BY <1>5
<1>7. Up(7) <=> AcceptsPort(c, option)
  BY DEF AcceptsPort
<1> QED BY <1>1, <1>6, <1>7 DEF Negotiated, c

LEMMA NegotiateNegotiates ==
  ASSUME NEW e \in Engine, Announced(e), NEW option \in Bytes
  PROVE  Negotiated(e, telnet_negotiate_option(e, option), AcceptsPort(e.command, option))
<1> DEFINE r == telnet_negotiate_option(e, option)
           yes == AcceptsPort(e.command, option)
<1>1. r = CASE Known(option) -> Offers(e, option)
            [] ~Known(option) /\ e.command = T_WILL -> telnet_send_option(e, T_DONT, option)
            [] ~Known(option) /\ e.command = T_DO -> telnet_send_option(e, T_WONT, option)
            [] OTHER -> e
  BY DEF telnet_negotiate_option, Known, Offers, Offered
<1> HIDE DEF r
<1>2. Known(option) \in BOOLEAN /\ T_WILL # T_DO
  BY DEF Known, T_WILL, T_DO
<1>3. ~Known(option) => ~yes
  BY ComPortKnown DEF AcceptsPort
<1> HIDE DEF yes
<1>4. CASE Known(option)
  <2>1. r = Offers(e, option)
    BY <1>1, <1>4
  <2>2. Negotiated(e, Offers(e, option), AcceptsPort(e.command, option))
    BY OffersNegotiate
  <2> QED BY <2>1, <2>2 DEF r
<1>5. ASSUME NEW verb \in 251..254 PROVE Negotiated(e, telnet_send_option(e, verb, option), FALSE)
  <2> DEFINE f == telnet_send_option(e, verb, option)
  <2>1. verb \in Bytes
    BY Codes
  <2>2. Quiet(e, f) /\ f.options = e.options /\ f.rfc2217 = e.rfc2217 /\ f.log = e.log
    BY <2>1, SendOptionQuiet
  <2> HIDE DEF f
  <2>3. Negotiated(e, f, FALSE)
    BY <2>2, NegotiatedSilently
  <2> QED BY <2>3 DEF f
<1>6. CASE ~Known(option)
  <2>1. r = telnet_send_option(e, T_DONT, option) \/ r = telnet_send_option(e, T_WONT, option) \/ r = e
    BY <1>1, <1>2, <1>6
  <2>2. T_DONT \in 251..254 /\ T_WONT \in 251..254
    BY DEF T_DONT, T_WONT
  <2>3. Negotiated(e, e, FALSE)
    BY NegotiatedSame
  <2>4. Negotiated(e, r, FALSE)
    BY <1>5, <2>1, <2>2, <2>3
  <2> QED BY <1>3, <1>6, <2>4 DEF Negotiated, r, yes
<1> QED BY <1>2, <1>4, <1>6

\* process_subnegotiation uses so much of suboption.
Used(s) == SubSeq(s, 1, IF s[2] = T_SET_BAUDRATE THEN 6 ELSE 3)

LEMMA PartOf ==
  ASSUME NEW s, NEW m \in Nat, NEW n \in Nat, \A i \in m..n : s[i] \in Bytes, m <= n
  PROVE  /\ SubSeq(s, m, n) \in Seq(Bytes) /\ Len(SubSeq(s, m, n)) = n - m + 1
         /\ \A i \in 1..n - m + 1 : SubSeq(s, m, n)[i] = s[m + i - 1]
  BY SubSeqProperties

LEMMA UsedIs ==
  ASSUME NEW s \in [1..SubSize -> Bytes]
  PROVE  LET q == Used(s)
         IN  /\ q \in Seq(Bytes) /\ Len(q) = IF s[2] = 1 THEN 6 ELSE 3
             /\ q[1] = s[1] /\ q[2] = s[2] /\ q[3] = s[3]
             /\ s[2] = 1 => SubSeq(q, 3, 6) = SubSeq(s, 3, 6)
             /\ s[2] # 1 => SubSeq(q, 3, 3) = <<s[3]>>
<1> DEFINE q == Used(s)
           n == IF s[2] = 1 THEN 6 ELSE 3
<1>1. \A i \in 1..6 : s[i] \in Bytes
  BY TelnetAssumption
<1>2. q = SubSeq(s, 1, n)
  BY DEF Used, T_SET_BAUDRATE
<1>3. n \in {3, 6} /\ (s[2] = 1 => n = 6) /\ (s[2] # 1 => n = 3)
  OBVIOUS
<1> HIDE DEF n, q
<1>4. q \in Seq(Bytes) /\ Len(q) = n /\ \A i \in 1..n : q[i] = s[i]
  <2>1. \A i \in 1..n : s[i] \in Bytes
    BY <1>1, <1>3
  <2>2. q \in Seq(Bytes) /\ Len(q) = n - 1 + 1 /\ \A i \in 1..n - 1 + 1 : q[i] = s[1 + i - 1]
    BY <1>2, <1>3, <2>1, PartOf
  <2> QED BY <1>3, <2>2
<1>5. ASSUME s[2] = 1 PROVE SubSeq(q, 3, 6) = SubSeq(s, 3, 6)
  <2> DEFINE a == SubSeq(q, 3, 6)
             b == SubSeq(s, 3, 6)
  <2>1. \A i \in 3..6 : s[i] \in Bytes /\ q[i] = s[i]
    BY <1>1, <1>3, <1>4, <1>5
  <2>2. a \in Seq(Bytes) /\ Len(a) = 6 - 3 + 1 /\ \A i \in 1..6 - 3 + 1 : a[i] = q[3 + i - 1]
    BY <2>1, PartOf
  <2>3. b \in Seq(Bytes) /\ Len(b) = 6 - 3 + 1 /\ \A i \in 1..6 - 3 + 1 : b[i] = s[3 + i - 1]
    BY <2>1, PartOf
  <2> HIDE DEF a, b
  <2>4. \A i \in 1..6 - 3 + 1 : a[i] = b[i]
    BY <2>1, <2>2, <2>3
  <2>5. a = b
    BY <2>2, <2>3, <2>4, SeqEqual
  <2> QED BY <2>5 DEF a, b
<1>6. ASSUME s[2] # 1 PROVE SubSeq(q, 3, 3) = <<s[3]>>
  <2> DEFINE a == SubSeq(q, 3, 3)
             b == <<s[3]>>
  <2>1. s[3] \in Bytes /\ q[3] = s[3]
    BY <1>1, <1>3, <1>4
  <2>2. a \in Seq(Bytes) /\ Len(a) = 3 - 3 + 1 /\ \A i \in 1..3 - 3 + 1 : a[i] = q[3 + i - 1]
    <3>1. \A i \in 3..3 : q[i] \in Bytes
      BY <2>1
    <3> QED BY <3>1, PartOf
  <2>3. b \in Seq(Bytes) /\ Len(b) = 1 /\ b[1] = s[3]
    BY <2>1
  <2> HIDE DEF a, b
  <2>4. \A i \in 1..1 : a[i] = b[i]
    BY <2>1, <2>2, <2>3
  <2>5. a = b
    BY <2>2, <2>3, <2>4, SeqEqual
  <2> QED BY <2>5 DEF a, b
<1>7. q[1] = s[1] /\ q[2] = s[2] /\ q[3] = s[3]
  BY <1>3, <1>4
<1>8. Len(q) = IF s[2] = 1 THEN 6 ELSE 3
  BY <1>4 DEF n
<1> QED BY <1>4, <1>5, <1>6, <1>7, <1>8 DEF q

\* A suboption of the length RFC 2217 gives it is all that is used, whatever lies behind it.
LEMMA UsedAll ==
  ASSUME NEW s \in [1..SubSize -> Bytes], NEW p \in Seq(Bytes), Len(p) = IF p[2] = T_SET_BAUDRATE THEN 6 ELSE 3,
         \A i \in 1..Len(p) : s[i] = p[i]
  PROVE  Used(s) = p
<1> DEFINE n == Len(p)
           q == Used(s)
<1>1. n = (IF p[2] = 1 THEN 6 ELSE 3) /\ n \in {3, 6}
  BY DEF T_SET_BAUDRATE
<1>2. \A i \in 1..n : s[i] = p[i] /\ p[i] \in Bytes
  BY ElementOfSeq
<1> HIDE DEF n
<1>3. s[2] = p[2]
  BY <1>1, <1>2
<1>4. q = SubSeq(s, 1, n)
  BY <1>1, <1>3 DEF Used, T_SET_BAUDRATE
<1>5. q \in Seq(Bytes) /\ Len(q) = n - 1 + 1 /\ \A i \in 1..n - 1 + 1 : q[i] = s[1 + i - 1]
  <2> HIDE DEF q
  <2> QED BY <1>1, <1>2, <1>4, PartOf
<1> HIDE DEF q
<1>6. Len(q) = n /\ \A i \in 1..n : q[i] = p[i]
  BY <1>1, <1>2, <1>5
<1>7. q = p
  BY <1>5, <1>6, SeqEqual DEF n
<1> QED BY <1>7 DEF q

\* f has made these calls since e and sent these replies.
Outcome(e, f, calls, replies) ==
  /\ Frame(e, f) /\ f.options = e.options /\ f.rfc2217 = e.rfc2217
  /\ calls \in Seq(Logged) /\ f.log = e.log \o calls
  /\ replies \in Seq(Said) /\ f.said = e.said \o replies

LEMMA OutcomeNone ==
  ASSUME NEW e \in Engine
  PROVE  Outcome(e, e, <<>>, <<>>)
<1>1. e.log \o <<>> = e.log /\ e.said \o <<>> = e.said
  BY ConcatEmptySeq DEF Engine
<1> QED BY <1>1, EmptySeq DEF Outcome, Frame

LEMMA RegroupLog == \A a, b, c \in Seq(Logged) : (a \o b) \o c = a \o (b \o c)
<1> DEFINE S == Logged
<1> HIDE DEF S
<1>1. \A a, b, c \in Seq(S) : (a \o b) \o c = a \o (b \o c)
  BY ConcatAssociative
<1> QED BY <1>1 DEF S

LEMMA RegroupSaid == \A a, b, c \in Seq(Said) : (a \o b) \o c = a \o (b \o c)
<1> DEFINE S == Said
<1> HIDE DEF S
<1>1. \A a, b, c \in Seq(S) : (a \o b) \o c = a \o (b \o c)
  BY ConcatAssociative
<1> QED BY <1>1 DEF S

LEMMA OutcomeCall ==
  ASSUME NEW e \in Engine, NEW f, NEW calls, NEW replies, Outcome(e, f, calls, replies), NEW x \in Logged
  PROVE  Outcome(e, Call(f, x), calls \o <<x>>, replies)
<1> DEFINE g == Call(f, x)
           one == <<x>>
           l == e.log
<1>1. f \in Engine
  BY DEF Outcome, Frame
<1>2. Frame(f, g) /\ g.options = f.options /\ g.rfc2217 = f.rfc2217 /\ g.said = f.said /\ g.log = f.log \o one
  BY <1>1, CallFrame
<1>3. Frame(e, g) /\ g.options = e.options /\ g.rfc2217 = e.rfc2217
  <2> HIDE DEF g
  <2> QED BY <1>2 DEF Outcome, Frame
<1>4. one \in Seq(Logged)
  OBVIOUS
<1>5. calls \in Seq(Logged) /\ l \in Seq(Logged) /\ calls \o one \in Seq(Logged)
  BY Appended DEF Outcome, Engine
<1> HIDE DEF g, one
<1>6. (l \o calls) \o one = l \o (calls \o one)
  <2>1. calls \in Seq(Logged)
    BY <1>5
  <2>2. l \in Seq(Logged)
    BY <1>5
  <2> HIDE DEF l
  <2> QED BY <1>4, <2>1, <2>2, RegroupLog, Zenon
<1>7. g.log = e.log \o (calls \o one)
  BY <1>2, <1>6 DEF Outcome
<1>8. Outcome(e, g, calls \o one, replies)
  BY <1>2, <1>3, <1>5, <1>7 DEF Outcome
<1> QED BY <1>8 DEF g, one

LEMMA OutcomeReply ==
  ASSUME NEW e \in Engine, NEW f, NEW calls, NEW replies, Outcome(e, f, calls, replies),
         NEW command \in 0..254, NEW data \in Seq(Bytes)
  PROVE  Outcome(e, rfc2217_send_subnegotiation(f, command, data), calls,
                 replies \o <<Sub(<<T_COM_PORT_OPTION, command>> \o data)>>)
<1> DEFINE payload == <<T_COM_PORT_OPTION, command>> \o data
           x == Sub(payload)
           one == <<x>>
           bytes == <<T_IAC, T_SB, T_COM_PORT_OPTION, command>> \o Escape(data) \o <<T_IAC, T_SE>>
           g == Send(f, bytes, one)
           old == e.said
<1>1. payload \in Seq(Bytes)
  <2>1. T_COM_PORT_OPTION \in Bytes /\ command \in Bytes
    BY DEF T_COM_PORT_OPTION, Bytes
  <2>2. <<T_COM_PORT_OPTION, command>> \in Seq(Bytes)
    BY <2>1, Tuple2
  <2> QED BY <2>2, Joined
<1>2. bytes \in Seq(Bytes)
  <2>1. Decodes(bytes, one)
    BY DecodesSub
  <2> QED BY <2>1 DEF Decodes
<1>3. rfc2217_send_subnegotiation(f, command, data) = g
  BY DEF rfc2217_send_subnegotiation
<1> HIDE DEF payload, bytes
<1>4. x \in Said
  BY <1>1 DEF Said, Sub
<1> HIDE DEF x
<1>5. one \in Seq(Said)
  BY <1>4
<1>6. f \in Engine /\ old \in Seq(Said) /\ replies \in Seq(Said) /\ replies \o one \in Seq(Said)
  BY <1>4, Appended DEF Outcome, Frame, Engine
<1> HIDE DEF one
<1>7. Frame(f, g) /\ g.options = f.options /\ g.rfc2217 = f.rfc2217 /\ g.log = f.log /\ g.said = f.said \o one
  BY <1>2, <1>5, <1>6, SendFrame
<1> HIDE DEF g
<1>8. Frame(e, g) /\ g.options = e.options /\ g.rfc2217 = e.rfc2217
  BY <1>7 DEF Outcome, Frame
<1>9. (old \o replies) \o one = old \o (replies \o one)
  <2>1. replies \in Seq(Said)
    BY <1>6
  <2>2. old \in Seq(Said)
    BY <1>6
  <2> HIDE DEF old
  <2> QED BY <1>5, <2>1, <2>2, RegroupSaid, Zenon
<1>10. g.said = e.said \o (replies \o one)
  BY <1>7, <1>9 DEF Outcome
<1>11. Outcome(e, g, calls, replies \o one)
  BY <1>6, <1>7, <1>8, <1>10 DEF Outcome
<1> QED BY <1>3, <1>11 DEF one, x, payload

\* Every port command makes the call and sends the replies it asks for, whatever its length.
LEMMA SubnegotiationDoes ==
  ASSUME NEW e \in Engine
  PROVE  LET q == Used(e.suboption) IN Outcome(e, process_subnegotiation(e), Wanted(q), Answers(q))
<1> DEFINE s == e.suboption
           q == Used(s)
           r == process_subnegotiation(e)
           command == s[2]
           com == s[1] = T_COM_PORT_OPTION
           Reply(f, data) == rfc2217_send_subnegotiation(f, Server(command), data)
           baud == SubSeq(s, 3, 6)
           one == <<s[3]>>
           Y(data) == Sub(<<T_COM_PORT_OPTION, Server(command)>> \o data)
<1>1. s \in [1..SubSize -> Bytes] /\ SubSize \in Nat /\ SubSize >= 6
  BY TelnetAssumption DEF Engine
<1>2. \A i \in 1..6 : s[i] \in Bytes
  BY <1>1
<1>3. baud \in Seq(Bytes) /\ one \in Seq(Bytes) /\ s[3] \in Bytes
  <2>1. \A i \in 3..6 : s[i] \in Bytes
    BY <1>2
  <2> HIDE DEF s
  <2> QED BY <1>2, <2>1, PartOf
<1>4. /\ q \in Seq(Bytes) /\ Len(q) = IF command = 1 THEN 6 ELSE 3
      /\ q[1] = s[1] /\ q[2] = command /\ q[3] = s[3]
      /\ command = 1 => SubSeq(q, 3, 6) = baud
      /\ command # 1 => SubSeq(q, 3, 3) = one
  BY <1>1, UsedIs
<1>5. Wanted(q) = IF ~com THEN <<>>
               ELSE CASE command = T_SET_BAUDRATE -> <<[t |-> "baudrate", rate |-> SubSeq(q, 3, 6)]>>
                    [] command = T_SET_CONTROL -> <<[t |-> "control", v |-> s[3]]>>
                    [] command = T_PURGE_DATA -> <<[t |-> "purge", v |-> s[3]]>>
                    [] OTHER -> <<>>
  <2> HIDE DEF q
  <2> QED BY <1>4 DEF Wanted
<1>6. Answers(q) = IF ~com THEN <<>>
                ELSE CASE command = T_PURGE_DATA -> <<Y(SubSeq(q, 3, Len(q)))>> \o <<Y(SubSeq(q, 3, Len(q)))>>
                     [] command \in {T_SET_BAUDRATE, T_SET_CONTROL} \cup Echoed -> <<Y(SubSeq(q, 3, Len(q)))>>
                     [] OTHER -> <<>>
  <2> HIDE DEF q
  <2> QED BY <1>4 DEF Answers
<1>7. r = CASE ~com -> e
            [] com /\ command = T_SET_BAUDRATE -> Reply(Call(e, [t |-> "baudrate", rate |-> baud]), baud)
            [] com /\ command = T_SET_CONTROL -> Reply(Call(e, [t |-> "control", v |-> s[3]]), one)
            [] com /\ command = T_PURGE_DATA -> Reply(Call(Reply(e, one), [t |-> "purge", v |-> s[3]]), one)
            [] com /\ command \in Echoed -> Reply(e, one)
            [] OTHER -> e
  BY DEF process_subnegotiation
<1> HIDE DEF r, Reply, Y, q
<1>8. com \in BOOLEAN
  OBVIOUS
<1> HIDE DEF com, command, s, baud, one
<1>9. ASSUME NEW f, NEW calls, NEW replies, Outcome(e, f, calls, replies), command \in 1..12, NEW data \in Seq(Bytes)
      PROVE  Outcome(e, Reply(f, data), calls, replies \o <<Y(data)>>)
  <2>1. Server(command) \in 0..254
    <3>1. \A n \in 1..12 : Server(n) \in 0..254
      BY DEF Server
    <3> QED BY <1>9, <3>1
  <2> QED BY <1>9, <2>1, OutcomeReply DEF Reply, Y
<1>10. Outcome(e, e, <<>>, <<>>)
  BY OutcomeNone
<1> USE DEF T_SET_BAUDRATE, T_SET_CONTROL, T_PURGE_DATA, Echoed
<1>11. \A x : <<>> \o <<x>> = <<x>>
  OBVIOUS
<1>12. CASE ~com \/ (com /\ command \notin {1, 5, 12, 2, 3, 4, 6, 7})
  <2>1. r = e /\ Wanted(q) = <<>> /\ Answers(q) = <<>>
    <3>1. CASE ~com
      BY <1>5, <1>6, <1>7, <3>1
    <3>2. CASE com /\ command \notin {1, 5, 12, 2, 3, 4, 6, 7}
      <4>1. /\ ~(~com) /\ ~(command = 1) /\ ~(command = 5) /\ ~(command = 12)
            /\ ~(command \in {1, 5} \cup {2, 3, 4, 6, 7}) /\ ~(command \in {2, 3, 4, 6, 7})
        BY <3>2
      <4>2. Wanted(q) = <<>>
        BY <1>5, <4>1
      <4>3. Answers(q) = <<>>
        BY <1>6, <4>1
      <4>4. r = e
        BY <1>7, <4>1
      <4> QED BY <4>2, <4>3, <4>4
    <3> QED BY <1>12, <3>1, <3>2
  <2> QED BY <1>10, <2>1 DEF r, q, s
<1>13. CASE com /\ command = 1
  <2> DEFINE x == [t |-> "baudrate", rate |-> baud]
  <2>0. ~(command = 5) /\ ~(command = 12) /\ ~(command \in {2, 3, 4, 6, 7}) /\ command \in 1..12
    BY <1>13
  <2>1. r = Reply(Call(e, x), baud)
    BY <1>7, <1>13, <2>0
  <2>2. Wanted(q) = <<x>>
    BY <1>4, <1>5, <1>13, <2>0
  <2>3. Answers(q) = <<Y(baud)>>
    <3>1. Answers(q) = <<Y(SubSeq(q, 3, Len(q)))>>
      BY <1>6, <1>13, <2>0
    <3> QED BY <1>4, <1>13, <3>1
  <2>4. x \in Logged
    BY <1>3 DEF Logged
  <2> HIDE DEF x
  <2>5. Outcome(e, Call(e, x), <<x>>, <<>>)
    <3>1. Outcome(e, Call(e, x), <<>> \o <<x>>, <<>>)
      BY <1>10, <2>4, OutcomeCall, Zenon
    <3> QED BY <1>11, <3>1
  <2>6. Outcome(e, r, <<x>>, <<>> \o <<Y(baud)>>)
    BY <1>3, <1>9, <2>0, <2>1, <2>5
  <2> QED BY <1>11, <2>2, <2>3, <2>6 DEF r, q, s
<1>14. CASE com /\ command = 5
  <2> DEFINE x == [t |-> "control", v |-> s[3]]
  <2>0. ~(command = 1) /\ ~(command = 12) /\ ~(command \in {2, 3, 4, 6, 7}) /\ command \in 1..12
    BY <1>14
  <2>1. r = Reply(Call(e, x), one)
    BY <1>7, <1>14, <2>0
  <2>2. Wanted(q) = <<x>>
    BY <1>5, <1>14, <2>0
  <2>3. Answers(q) = <<Y(one)>>
    <3>1. Answers(q) = <<Y(SubSeq(q, 3, Len(q)))>>
      BY <1>6, <1>14, <2>0
    <3> QED BY <1>4, <1>14, <2>0, <3>1
  <2>4. x \in Logged
    BY <1>3 DEF Logged
  <2> HIDE DEF x
  <2>5. Outcome(e, Call(e, x), <<x>>, <<>>)
    <3>1. Outcome(e, Call(e, x), <<>> \o <<x>>, <<>>)
      BY <1>10, <2>4, OutcomeCall, Zenon
    <3> QED BY <1>11, <3>1
  <2>6. Outcome(e, r, <<x>>, <<>> \o <<Y(one)>>)
    BY <1>3, <1>9, <2>0, <2>1, <2>5
  <2> QED BY <1>11, <2>2, <2>3, <2>6 DEF r, q, s
<1>15. CASE com /\ command = 12
  <2> DEFINE x == [t |-> "purge", v |-> s[3]]
  <2>0. ~(command = 1) /\ ~(command = 5) /\ ~(command \in {2, 3, 4, 6, 7}) /\ command \in 1..12
    BY <1>15
  <2>1. r = Reply(Call(Reply(e, one), x), one)
    BY <1>7, <1>15, <2>0
  <2>2. Wanted(q) = <<x>>
    BY <1>5, <1>15, <2>0
  <2>3. Answers(q) = <<Y(one)>> \o <<Y(one)>>
    <3>1. Answers(q) = <<Y(SubSeq(q, 3, Len(q)))>> \o <<Y(SubSeq(q, 3, Len(q)))>>
      BY <1>6, <1>15, <2>0
    <3> QED BY <1>4, <1>15, <2>0, <3>1
  <2>4. x \in Logged
    BY <1>3 DEF Logged
  <2> HIDE DEF x
  <2>5. Outcome(e, Reply(e, one), <<>>, <<Y(one)>>)
    <3>1. Outcome(e, Reply(e, one), <<>>, <<>> \o <<Y(one)>>)
      BY <1>3, <1>9, <1>10, <2>0
    <3> QED BY <1>11, <3>1
  <2>6. Outcome(e, Call(Reply(e, one), x), <<x>>, <<Y(one)>>)
    <3>1. Outcome(e, Call(Reply(e, one), x), <<>> \o <<x>>, <<Y(one)>>)
      BY <2>4, <2>5, OutcomeCall, Zenon
    <3> QED BY <1>11, <3>1
  <2>7. Outcome(e, r, <<x>>, <<Y(one)>> \o <<Y(one)>>)
    BY <1>3, <1>9, <2>0, <2>1, <2>6
  <2> QED BY <2>2, <2>3, <2>7 DEF r, q, s
<1>16. CASE com /\ command \in {2, 3, 4, 6, 7}
  <2>0. ~(command = 1) /\ ~(command = 5) /\ ~(command = 12) /\ command \in 1..12
    BY <1>16
  <2>1. r = Reply(e, one)
    BY <1>7, <1>16, <2>0
  <2>2. Wanted(q) = <<>>
    BY <1>5, <1>16, <2>0
  <2>3. Answers(q) = <<Y(one)>>
    <3>1. Answers(q) = <<Y(SubSeq(q, 3, Len(q)))>>
      BY <1>6, <1>16, <2>0
    <3> QED BY <1>4, <1>16, <2>0, <3>1
  <2>4. Outcome(e, r, <<>>, <<>> \o <<Y(one)>>)
    BY <1>3, <1>9, <1>10, <2>0, <2>1
  <2> QED BY <1>11, <2>2, <2>3, <2>4 DEF r, q, s
<1> QED BY <1>8, <1>12, <1>13, <1>14, <1>15, <1>16

\* Neither is data or an announcement.
LEMMA OutcomeKinds ==
  ASSUME NEW p
  PROVE  /\ \A i \in 1..Len(Wanted(p)) : Wanted(p)[i].t \in {"baudrate", "control", "purge"}
         /\ \A i \in 1..Len(Answers(p)) : Answers(p)[i].t = "sub"
<1>1. Wanted(p) = <<>> \/ \E x : x.t \in {"baudrate", "control", "purge"} /\ Wanted(p) = <<x>>
  BY DEF Wanted
<1>2. Answers(p) = <<>> \/ \E y : y.t = "sub" /\ (Answers(p) = <<y>> \/ Answers(p) = <<y, y>>)
  <2> DEFINE y == Sub(<<T_COM_PORT_OPTION, Server(p[2])>> \o SubSeq(p, 3, Len(p)))
  <2>1. Answers(p) = IF p[1] # T_COM_PORT_OPTION THEN <<>>
                     ELSE CASE p[2] = T_PURGE_DATA -> <<y>> \o <<y>>
                       [] p[2] \in {T_SET_BAUDRATE, T_SET_CONTROL} \cup Echoed -> <<y>>
                       [] OTHER -> <<>>
    BY DEF Answers
  <2>2. y.t = "sub"
    BY DEF Sub
  <2>3. <<y>> \o <<y>> = <<y, y>>
    BY Twice
  <2> HIDE DEF y
  <2> QED BY <2>1, <2>2, <2>3
<1>3. \A i \in 1..Len(Wanted(p)) : Wanted(p)[i].t \in {"baudrate", "control", "purge"}
  BY <1>1
<1>4. \A i \in 1..Len(Answers(p)) : Answers(p)[i].t = "sub"
  BY <1>2
<1> QED BY <1>3, <1>4

LEMMA SubnegotiationTells ==
  ASSUME NEW e \in Engine
  PROVE  LET q == Used(e.suboption)
             r == process_subnegotiation(e)
         IN  /\ Frame(e, r) /\ r.options = e.options /\ r.rfc2217 = e.rfc2217
             /\ Heard(r.log) = Heard(e.log) /\ Greets(r.log) = Greets(e.log)
             /\ Calls(r.log) = Calls(e.log) \o Wanted(q) /\ Replies(r.said) = Replies(e.said) \o Answers(q)
<1> DEFINE q == Used(e.suboption)
           r == process_subnegotiation(e)
           w == Wanted(q)
           a == Answers(q)
           l == e.log
           m == e.said
<1>1. Outcome(e, r, w, a)
  BY SubnegotiationDoes
<1>2. /\ \A i \in 1..Len(w) : w[i].t \in {"baudrate", "control", "purge"}
      /\ \A i \in 1..Len(a) : a[i].t = "sub"
  BY OutcomeKinds
<1>3. l \in Seq(Logged) /\ m \in Seq(Said)
  BY DEF Engine
<1> HIDE DEF r, w, a
<1>4. Frame(e, r) /\ r.options = e.options /\ r.rfc2217 = e.rfc2217 /\ r.log = l \o w /\ r.said = m \o a
  BY <1>1 DEF Outcome
<1>5. w \in Seq(Logged) /\ a \in Seq(Said)
  BY <1>1 DEF Outcome
<1> HIDE DEF l, m
<1>6. ASSUME NEW kinds PROVE Of(kinds, l \o w) = Of(kinds, l) \o Of(kinds, w) /\ Of(kinds, l) \in Seq(Logged)
  <2>1. OfBoth(kinds, Logged)
    BY OfConcat, Zenon
  <2>2. Of(kinds, l \o w) = Of(kinds, l) \o Of(kinds, w)
    BY <1>3, <1>5, <2>1 DEF OfBoth
  <2> QED BY <1>3, <2>2, OfType
<1>7. Heard(l \o w) = Heard(l)
  <2> DEFINE kinds == {"data"}
             old == Of(kinds, l)
  <2>1. \A i \in 1..Len(w) : w[i].t \notin kinds
    BY <1>2
  <2> HIDE DEF kinds
  <2>2. Of(kinds, w) = <<>>
    BY <1>5, <2>1, OfNone
  <2>3. Of(kinds, l \o w) = old \o Of(kinds, w) /\ old \in Seq(Logged)
    BY <1>6
  <2> HIDE DEF old
  <2>4. Of(kinds, l \o w) = old
    BY <2>2, <2>3, ConcatEmptySeq
  <2> QED BY <2>4 DEF kinds, old, Heard
<1>8. Greets(l \o w) = Greets(l)
  <2> DEFINE kinds == {"connected"}
             old == Of(kinds, l)
  <2>1. \A i \in 1..Len(w) : w[i].t \notin kinds
    BY <1>2
  <2> HIDE DEF kinds
  <2>2. Of(kinds, w) = <<>>
    BY <1>5, <2>1, OfNone
  <2>3. Of(kinds, l \o w) = old \o Of(kinds, w) /\ old \in Seq(Logged)
    BY <1>6
  <2> HIDE DEF old
  <2>4. Of(kinds, l \o w) = old
    BY <2>2, <2>3, ConcatEmptySeq
  <2> QED BY <2>4 DEF kinds, old, Greets
<1>9. Calls(l \o w) = Calls(l) \o w
  <2> DEFINE kinds == {"baudrate", "control", "purge"}
  <2>1. \A i \in 1..Len(w) : w[i].t \in kinds
    BY <1>2
  <2> HIDE DEF kinds
  <2>2. Of(kinds, w) = w
    BY <1>5, <2>1, OfAll
  <2>3. Of(kinds, l \o w) = Of(kinds, l) \o w
    BY <1>6, <2>2
  <2> QED BY <2>3 DEF kinds, Calls
<1>10. Replies(m \o a) = Replies(m) \o a
  <2> DEFINE kinds == {"sub"}
  <2>1. \A i \in 1..Len(a) : a[i].t \in kinds
    BY <1>2
  <2> HIDE DEF kinds
  <2>2. Of(kinds, a) = a
    BY <1>5, <2>1, OfAll
  <2>3. OfBoth(kinds, Said)
    BY OfConcat, Zenon
  <2>4. Of(kinds, m \o a) = Of(kinds, m) \o a
    BY <1>3, <1>5, <2>2, <2>3 DEF OfBoth
  <2> QED BY <2>4 DEF kinds, Replies
<1> QED BY <1>4, <1>7, <1>8, <1>9, <1>10 DEF r, w, a, l, m

-----------------------------------------------------------------------------
(* What a byte that is not telnet's does.                                  *)

\* The data that the serial port has got, and what waits for it.
Got(e) == Heard(e.log) \o AsData(e.buffer)
\* f has agreed to nothing, called nothing and said nothing since e, data apart.
Still(e, f) ==
  /\ f.options = e.options /\ f.rfc2217 = e.rfc2217 /\ f.said = e.said
  /\ Calls(f.log) = Calls(e.log) /\ Greets(f.log) = Greets(e.log)
\* And is in the same place of the stream.
Unmoved(e, f) ==
  f.mode = e.mode /\ f.collecting = e.collecting /\ f.suboption = e.suboption /\ f.size = e.size

LEMMA AsDataAppend ==
  ASSUME NEW data \in Seq(Bytes), NEW c \in Bytes
  PROVE  AsData(data \o <<c>>) = AsData(data) \o <<DataToken(c)>>
<1> DEFINE n == Len(data)
           both == data \o <<c>>
           some == AsData(data)
           all == AsData(both)
           x == DataToken(c)
<1>1. both \in Seq(Bytes) /\ n \in Nat /\ Len(both) = n + 1 /\ both[n + 1] = c
      /\ \A i \in 1..n : both[i] = data[i]
  BY Appended
<1>2. some \in Seq(Said) /\ all \in Seq(Said) /\ x \in Said
  BY <1>1, AsDataType DEF x, DataToken, Said
<1>3. Len(some) = n /\ \A i \in 1..n : some[i] = DataToken(data[i])
  BY LenProperties DEF AsData
<1>4. Len(all) = n + 1 /\ \A i \in 1..n + 1 : all[i] = DataToken(both[i])
  <2>1. Len(all) = Len(both) /\ \A i \in 1..Len(both) : all[i] = DataToken(both[i])
    <3>1. both \in Seq(Bytes)
      BY <1>1
    <3> HIDE DEF both
    <3> QED BY <3>1, LenProperties DEF AsData
  <2> QED BY <1>1, <2>1
<1> HIDE DEF n, some, all, x, both
<1>5. /\ some \o <<x>> \in Seq(Said) /\ Len(some \o <<x>>) = n + 1
      /\ (some \o <<x>>)[n + 1] = x /\ \A i \in 1..n : (some \o <<x>>)[i] = some[i]
  <2>1. /\ some \o <<x>> \in Seq(Said) /\ Len(some \o <<x>>) = Len(some) + 1
        /\ (some \o <<x>>)[Len(some) + 1] = x /\ \A i \in 1..Len(some) : (some \o <<x>>)[i] = some[i]
    BY <1>2, Appended
  <2> QED BY <1>3, <2>1
<1>6. \A i \in 1..n + 1 : all[i] = (some \o <<x>>)[i]
  <2> SUFFICES ASSUME NEW i \in 1..n + 1 PROVE all[i] = (some \o <<x>>)[i]
    OBVIOUS
  <2>1. CASE i = n + 1
    BY <1>1, <1>4, <1>5, <2>1 DEF x
  <2>2. CASE i # n + 1
    <3>1. i \in 1..n
      BY <1>1, <2>2
    <3> QED BY <1>1, <1>3, <1>4, <1>5, <3>1
  <2> QED BY <2>1, <2>2
<1>7. all = some \o <<x>>
  BY <1>2, <1>4, <1>5, <1>6, SeqEqual
<1> QED BY <1>7 DEF all, some, x, both

LEMMA DeliverDoes ==
  ASSUME NEW e \in Engine, NEW data \in Seq(Bytes)
  PROVE  LET f == Deliver(e, data)
         IN  /\ f \in Engine /\ Still(e, f) /\ Unmoved(e, f) /\ f.buffer = e.buffer
             /\ Heard(f.log) = Heard(e.log) \o AsData(data)
<1> DEFINE d == AsData(data)
           l == e.log
           m == l \o d
           f == [e EXCEPT !.log = m]
<1>1. l \in Seq(Logged) /\ d \in Seq(Logged)
  BY AsDataType DEF Engine
<1>2. Deliver(e, data) = f
  BY <1>1 DEF Deliver, AsData, Engine
<1>3. /\ Of({"data"}, d) = d /\ Of({"baudrate", "control", "purge"}, d) = <<>>
      /\ Of({"connected"}, d) = <<>>
  BY OfData
<1>4. m \in Seq(Logged)
  BY <1>1, ConcatProperties
<1>5. ASSUME NEW kinds PROVE Of(kinds, m) = Of(kinds, l) \o Of(kinds, d) /\ Of(kinds, l) \in Seq(Logged)
  <2>1. OfBoth(kinds, Logged)
    BY OfConcat, Zenon
  <2>2. Of(kinds, l) \in Seq(Logged)
    BY <1>1, OfType
  <2> HIDE DEF l, d
  <2> QED BY <1>1, <2>1, <2>2 DEF OfBoth
<1>6. \A s \in Seq(Logged) : s \o <<>> = s
  BY ConcatEmptySeq
<1> HIDE DEF d, l
<1>7. Heard(m) = Heard(l) \o d
  BY <1>3, <1>5 DEF Heard
<1>8. Calls(m) = Calls(l)
  BY <1>3, <1>5, <1>6 DEF Calls
<1>9. Greets(m) = Greets(l)
  BY <1>3, <1>5, <1>6 DEF Greets
<1> HIDE DEF m
<1>10. f \in Engine /\ f.log = m
  BY <1>4 DEF Engine
<1>11. f.options = e.options /\ f.rfc2217 = e.rfc2217 /\ f.said = e.said /\ f.buffer = e.buffer
  BY DEF Engine
<1>12. Unmoved(e, f)
  BY DEF Engine, Unmoved
<1> HIDE DEF f
<1>13. Still(e, f)
  BY <1>8, <1>9, <1>10, <1>11 DEF Still, l
<1>14. Heard(f.log) = Heard(e.log) \o AsData(data)
  BY <1>7, <1>10 DEF l, d
<1> QED BY <1>2, <1>10, <1>11, <1>12, <1>13, <1>14

LEMMA FlushDoes ==
  ASSUME NEW e \in Engine
  PROVE  LET f == Flush(e)
         IN  f \in Engine /\ Still(e, f) /\ Unmoved(e, f) /\ f.buffer = <<>> /\ Got(f) = Got(e)
<1> DEFINE g == Deliver(e, e.buffer)
           f == [g EXCEPT !.buffer = <<>>]
<1>1. e.buffer \in Seq(Bytes)
  BY DEF Engine
<1>2. g \in Engine /\ Still(e, g) /\ Unmoved(e, g) /\ Heard(g.log) = Got(e)
  BY <1>1, DeliverDoes DEF Got
<1>3. Flush(e) = f
  BY DEF Flush
<1> HIDE DEF g
<1>4. f \in Engine /\ f.buffer = <<>> /\ f.log = g.log
  <2>1. g \in Engine /\ <<>> \in Seq(Bytes)
    BY <1>2, EmptySeq
  <2>2. f \in Engine
    BY <2>1 DEF Engine
  <2>3. f.buffer = <<>> /\ f.log = g.log
    BY <2>1 DEF Engine
  <2> QED BY <2>2, <2>3
<1>5. f.options = g.options /\ f.rfc2217 = g.rfc2217 /\ f.said = g.said
  BY <1>2 DEF Engine
<1>6. Unmoved(g, f)
  BY <1>2 DEF Engine, Unmoved
<1> HIDE DEF f
<1>7. Still(e, f)
  BY <1>2, <1>4, <1>5 DEF Still
<1>8. Unmoved(e, f)
  BY <1>2, <1>6 DEF Unmoved
<1>9. Got(f) = Got(e)
  <2>1. AsData(<<>>) = <<>>
    BY DEF AsData
  <2>2. Heard(g.log) \in Seq(Logged)
    <3>1. g.log \in Seq(Logged)
      BY <1>2 DEF Engine
    <3> QED BY <3>1, OfType DEF Heard
  <2>3. Got(f) = Heard(g.log) \o <<>>
    BY <1>4, <2>1 DEF Got
  <2> QED BY <1>2, <2>2, <2>3, ConcatEmptySeq
<1> QED BY <1>3, <1>4, <1>7, <1>8, <1>9

LEMMA BufferDoes ==
  ASSUME NEW e \in Engine, NEW c \in Bytes
  PROVE  LET f == Buffer(e, c)
         IN  f \in Engine /\ Still(e, f) /\ Unmoved(e, f) /\ Got(f) = Got(e) \o <<DataToken(c)>>
<1> DEFINE b == e.buffer \o <<c>>
           g == [e EXCEPT !.buffer = b]
<1>1. e.buffer \in Seq(Bytes) /\ e.log \in Seq(Logged)
  BY DEF Engine
<1>2. b \in Seq(Bytes) /\ Append(e.buffer, c) = b
  BY <1>1, Appended, AppendIsConcat
<1>3. Buffer(e, c) = IF Len(g.buffer) >= DataSize THEN Flush(g) ELSE g
  BY <1>2 DEF Buffer
<1> HIDE DEF b
<1>4. g \in Engine /\ g.buffer = b /\ g.log = e.log
  <2>1. b \in Seq(Bytes)
    BY <1>2
  <2>2. g \in Engine
    BY <2>1 DEF Engine
  <2>3. g.buffer = b /\ g.log = e.log
    BY DEF Engine
  <2> QED BY <2>2, <2>3
<1>5. Still(e, g)
  BY DEF Engine, Still
<1>6. Unmoved(e, g)
  BY DEF Engine, Unmoved
<1> HIDE DEF g
<1>7. Got(g) = Got(e) \o <<DataToken(c)>>
  <2> DEFINE h == Heard(e.log)
             d == AsData(e.buffer)
             x == <<DataToken(c)>>
  <2>1. h \in Seq(Logged)
    BY <1>1, OfType DEF Heard
  <2>2. d \in Seq(Logged)
    BY <1>1, AsDataType
  <2>3. x \in Seq(Logged)
    <3>1. DataToken(c) \in Logged
      BY DEF DataToken, Logged
    <3> QED BY <3>1
  <2>4. AsData(b) = d \o x
    BY <1>1, AsDataAppend DEF b
  <2> HIDE DEF h, d, x
  <2>5. (h \o d) \o x = h \o (d \o x)
    BY <2>1, <2>2, <2>3, RegroupLog, Zenon
  <2> QED BY <1>4, <2>4, <2>5 DEF Got, h, d, x
<1>8. CASE Len(g.buffer) >= DataSize
  <2> DEFINE f == Flush(g)
  <2>1. f \in Engine /\ Still(g, f) /\ Unmoved(g, f) /\ Got(f) = Got(g)
    BY <1>4, FlushDoes
  <2>2. Buffer(e, c) = f
    BY <1>3, <1>8
  <2> HIDE DEF f
  <2>3. Still(e, f)
    BY <1>5, <2>1 DEF Still
  <2>4. Unmoved(e, f)
    BY <1>6, <2>1 DEF Unmoved
  <2> QED BY <1>7, <2>1, <2>2, <2>3, <2>4
<1>9. CASE ~(Len(g.buffer) >= DataSize)
  BY <1>3, <1>4, <1>5, <1>6, <1>7, <1>9
<1> QED BY <1>8, <1>9

LEMMA CollectDoes ==
  ASSUME NEW e \in Engine, NEW c \in Bytes
  PROVE  LET f == Collect(e, c)
         IN  /\ f \in Engine /\ Still(e, f) /\ f.mode = e.mode /\ Got(f) = Got(e)
             /\ e.size < SubSize => /\ f.collecting = e.collecting /\ f.size = e.size + 1
                                    /\ f.suboption[e.size + 1] = c
                                    /\ \A i \in 1..e.size : f.suboption[i] = e.suboption[i]
<1>1. SubSize \in Nat /\ e.size \in 0..SubSize /\ e.suboption \in [1..SubSize -> Bytes]
  BY TelnetAssumption DEF Engine
<1>2. CASE e.size < SubSize
  <2> DEFINE n == e.size + 1
             o == [e.suboption EXCEPT ![n] = c]
             f == [e EXCEPT !.suboption = o, !.size = n]
  <2>1. n \in 1..SubSize /\ \A i \in 1..e.size : i # n /\ i \in 1..SubSize
    BY <1>1, <1>2
  <2>8. o \in [1..SubSize -> Bytes] /\ n \in 0..SubSize
    BY <1>1, <2>1
  <2>2. o[n] = c /\ \A i \in 1..e.size : o[i] = e.suboption[i]
    BY <1>1, <2>1
  <2>3. Collect(e, c) = f
    BY <1>2 DEF Collect, Engine
  <2> HIDE DEF n, o
  <2>4. Still(e, f)
    BY DEF Engine, Still
  <2>9. f \in Engine
    BY <2>8 DEF Engine
  <2>5. f.log = e.log /\ f.buffer = e.buffer /\ f.mode = e.mode /\ f.collecting = e.collecting
    BY DEF Engine
  <2>6. f.suboption = o /\ f.size = n
    BY DEF Engine
  <2> HIDE DEF f
  <2>7. Got(f) = Got(e)
    BY <2>5 DEF Got
  <2> QED BY <2>2, <2>3, <2>4, <2>5, <2>6, <2>7, <2>9 DEF n
<1>3. CASE ~(e.size < SubSize)
  <2> DEFINE f == [e EXCEPT !.collecting = FALSE, !.size = 0]
  <2>1. Collect(e, c) = f
    BY <1>3 DEF Collect
  <2>2. Still(e, f)
    BY DEF Engine, Still
  <2>3. f.log = e.log /\ f.buffer = e.buffer /\ f.mode = e.mode
    BY DEF Engine
  <2>5. f \in Engine
    <3>1. 0 \in 0..SubSize
      BY <1>1
    <3> QED BY <3>1 DEF Engine
  <2> HIDE DEF f
  <2>4. Got(f) = Got(e)
    BY <2>3 DEF Got
  <2> QED BY <1>3, <2>1, <2>2, <2>3, <2>4, <2>5
<1> QED BY <1>2, <1>3

-----------------------------------------------------------------------------
(* The engine follows the reader, byte by byte.                            *)

\* The engine's mode is the reader's place.
Sync(e, at, v) ==
  /\ at \in {"text", "sub"} => e.mode = "normal"
  /\ at \in {"iac", "subiac"} => e.mode = "got_iac"
  /\ at = "verb" => e.mode = "negotiate" /\ e.command = v
Inner == {"sub", "subiac"}
\* The engine collects the suboption that the reader is in.
Tracks(e, at, p) ==
  /\ e.collecting <=> at \in Inner
  /\ at \in Inner => e.size = Len(p) /\ \A i \in 1..Len(p) : e.suboption[i] = p[i]

Carries(x) == x.t \in {"sub", "open"}
AllFit(toks) == \A i \in 1..Len(toks) : Carries(toks[i]) => Len(toks[i].p) <= SubSize
Short(toks, at, p) == AllFit(toks) /\ (at \in Inner => Len(p) <= SubSize)
Sized(x) == x.t = "sub" => Len(x.p) = IF x.p[2] = T_SET_BAUDRATE THEN 6 ELSE 3
WantsPort(x) == x.t = "neg" /\ x.opt = T_COM_PORT_OPTION /\ x.verb \in {T_DO, T_WILL}
Asked(toks) == \E i \in 1..Len(toks) : WantsPort(toks[i])

\* Every port command made its call and got its replies.
Served(e, toks) ==
  Calls(e.log) = Each(Wanted, toks) /\ Replies(e.said) = Each(Answers, toks)
\* As long as every suboption was collected, the data and the port commands are those
\* the reader has read.
Faithful(e, toks, at, p, lost) ==
  ~lost /\ Short(toks, at, p) =>
    /\ Tracks(e, at, p)
    /\ Got(e) = Of({"data"}, toks)
    /\ WellFormed(toks) => Served(e, toks)
AnnouncedFor(e, toks) == Announced(e) /\ (e.rfc2217 <=> Asked(toks))
Agree(e, toks, at, v, p, lost) ==
  OK(e) /\ Sync(e, at, v) /\ AnnouncedFor(e, toks) /\ Faithful(e, toks, at, p, lost)
AgreeAt(s, e, lost, toks, at, v, p) == Stands(s, toks, at, v, p) /\ Agree(e, toks, at, v, p, lost)
Follows(s, e, lost) ==
  OK(e) /\ (HasOdd(s) \/ \E toks, at, v, p : AgreeAt(s, e, lost, toks, at, v, p))

\* What a token more adds.
LEMMA TokenAdds ==
  ASSUME NEW toks \in Seq(Tokens), NEW x \in Tokens
  PROVE  LET more == toks \o <<x>>
         IN  /\ AllFit(more) <=> AllFit(toks) /\ (Carries(x) => Len(x.p) <= SubSize)
             /\ Asked(more) <=> Asked(toks) \/ WantsPort(x)
             /\ WellFormed(more) => WellFormed(toks) /\ Sized(x) /\ x.t # "stray"
             /\ Of({"data"}, more) = IF x.t = "data" THEN Of({"data"}, toks) \o <<x>> ELSE Of({"data"}, toks)
<1> DEFINE more == toks \o <<x>>
           n == Len(toks)
<1>1. /\ more \in Seq(Tokens) /\ n \in Nat /\ Len(more) = n + 1
      /\ more[n + 1] = x /\ \A i \in 1..n : more[i] = toks[i]
  BY Appended
<1>2. DOMAIN more = 1..n + 1 /\ DOMAIN toks = 1..n
  BY <1>1, LenProperties
<1>3. \A kinds : Of(kinds, more) = IF x.t \in kinds THEN Of(kinds, toks) \o <<x>> ELSE Of(kinds, toks)
  BY OfAppend
<1>4. Of({"stray"}, toks) \in Seq(Tokens)
  BY OfType
<1> DEFINE o == Of({"stray"}, toks)
<1>5. Len(toks) = n
  OBVIOUS
<1> HIDE DEF more, n
<1>6. 1..n + 1 = 1..n \cup {n + 1} /\ n + 1 \notin 1..n
  BY <1>1
<1>7. AllFit(more) <=> AllFit(toks) /\ (Carries(x) => Len(x.p) <= SubSize)
  BY <1>1, <1>5, <1>6 DEF AllFit
<1>8. Asked(more) <=> Asked(toks) \/ WantsPort(x)
  BY <1>1, <1>5, <1>6 DEF Asked
<1>9. ASSUME WellFormed(more) PROVE WellFormed(toks) /\ Sized(x) /\ x.t # "stray"
  <2>1. /\ Of({"stray"}, more) = <<>>
        /\ \A i \in 1..n + 1 : Sized(more[i])
    BY <1>2, <1>9 DEF WellFormed, Sized
  <2>2. x.t # "stray"
    <3> SUFFICES ASSUME x.t = "stray" PROVE FALSE
      OBVIOUS
    <3>1. o \o <<x>> = <<>>
      BY <1>3, <2>1
    <3>2. o \in Seq(Tokens)
      BY <1>4
    <3> HIDE DEF o
    <3>3. Len(o \o <<x>>) = Len(o) + 1 /\ Len(o) \in Nat
      BY <3>2, Appended
    <3> QED BY <3>1, <3>3
  <2>3. o = <<>>
    BY <1>3, <2>1, <2>2
  <2>4. \A i \in 1..n : Sized(toks[i])
    BY <1>1, <1>6, <2>1
  <2>5. WellFormed(toks)
    BY <1>2, <2>3, <2>4 DEF WellFormed, Sized
  <2>6. Sized(x)
    BY <1>1, <1>6, <2>1
  <2> QED BY <2>2, <2>5, <2>6
<1>10. Of({"data"}, more) = IF x.t = "data" THEN Of({"data"}, toks) \o <<x>> ELSE Of({"data"}, toks)
  BY <1>3
<1> QED BY <1>7, <1>8, <1>9, <1>10 DEF more

\* A step that says nothing new of the COM port option.
LEMMA AnnouncedSame ==
  ASSUME NEW e, NEW f, NEW toks, AnnouncedFor(e, toks),
         f.options = e.options, f.rfc2217 = e.rfc2217, Greets(f.log) = Greets(e.log)
  PROVE  AnnouncedFor(f, toks)
  BY DEF AnnouncedFor, Announced, Greeted
LEMMA AnnouncedToken ==
  ASSUME NEW e, NEW toks \in Seq(Tokens), NEW x \in Tokens, ~WantsPort(x), AnnouncedFor(e, toks)
  PROVE  AnnouncedFor(e, toks \o <<x>>)
  BY TokenAdds DEF AnnouncedFor

\* A step that takes the reader on, with no token.
LEMMA FaithfulOn ==
  ASSUME NEW e, NEW f, NEW toks, NEW at, NEW p, NEW at2, NEW p2, NEW lost, Faithful(e, toks, at, p, lost),
         Short(toks, at2, p2) => Short(toks, at, p),
         Short(toks, at2, p2) /\ Tracks(e, at, p) => Tracks(f, at2, p2),
         Got(f) = Got(e) \/ ~Tracks(e, at, p) \/ ~Short(toks, at2, p2),
         Calls(f.log) = Calls(e.log), f.said = e.said
  PROVE  Faithful(f, toks, at2, p2, lost)
  BY DEF Faithful, Served

\* A step that completes a token.
LEMMA FaithfulToken ==
  ASSUME NEW e, NEW f, NEW toks \in Seq(Tokens), NEW x \in Tokens, NEW at, NEW p, NEW lost,
         Faithful(e, toks, at, p, lost),
         AllFit(toks \o <<x>>) => Short(toks, at, p),
         AllFit(toks \o <<x>>) /\ Tracks(e, at, p) =>
           /\ ~f.collecting
           /\ Got(f) = IF x.t = "data" THEN Got(e) \o <<x>> ELSE Got(e)
           /\ WellFormed(toks \o <<x>>) =>
                /\ Calls(f.log) = Calls(e.log) \o WantedOf[x]
                /\ Replies(f.said) = Replies(e.said) \o AnswersOf[x]
  PROVE  Faithful(f, toks \o <<x>>, "text", <<>>, lost)
<1> DEFINE more == toks \o <<x>>
           data == Of({"data"}, toks)
<1>1. WellFormed(more) => WellFormed(toks)
  BY TokenAdds
<1>2. Of({"data"}, more) = IF x.t = "data" THEN data \o <<x>> ELSE data
  BY TokenAdds
<1>3. /\ Each(Wanted, more) = Each(Wanted, toks) \o WantedOf[x]
      /\ Each(Answers, more) = Each(Answers, toks) \o AnswersOf[x]
  BY EachAppend
<1>4. Each(Wanted, toks) \o WantedOf[x] = Each(Wanted, more)
  BY <1>3
<1> HIDE DEF more, data
<1>5. SUFFICES ASSUME ~lost, Short(more, "text", <<>>)
               PROVE  /\ Tracks(f, "text", <<>>) /\ Got(f) = Of({"data"}, more)
                      /\ WellFormed(more) => Served(f, more)
  BY DEF Faithful, more
<1>6. AllFit(more)
  BY <1>5 DEF Short
<1>7. Tracks(e, at, p) /\ Got(e) = data /\ (WellFormed(toks) => Served(e, toks))
  <2>1. Short(toks, at, p)
    BY <1>6 DEF more
  <2> QED BY <1>5, <2>1 DEF Faithful, data
<1>8. /\ ~f.collecting
      /\ Got(f) = IF x.t = "data" THEN Got(e) \o <<x>> ELSE Got(e)
      /\ WellFormed(more) =>
           /\ Calls(f.log) = Calls(e.log) \o WantedOf[x]
           /\ Replies(f.said) = Replies(e.said) \o AnswersOf[x]
  BY <1>6, <1>7 DEF more
<1>9. Tracks(f, "text", <<>>)
  BY <1>8 DEF Tracks, Inner
<1>10. Got(f) = Of({"data"}, more)
  BY <1>2, <1>7, <1>8
<1>11. ASSUME WellFormed(more) PROVE Served(f, more)
  <2>1. Served(e, toks)
    BY <1>1, <1>7, <1>11
  <2>2. Calls(f.log) = Calls(e.log) \o WantedOf[x] /\ Replies(f.said) = Replies(e.said) \o AnswersOf[x]
    BY <1>8, <1>11
  <2> QED BY <1>3, <2>1, <2>2 DEF Served
<1> QED BY <1>9, <1>10, <1>11

\* f has taken the byte c as no command of telnet's.
Stores(e, c, f) ==
  /\ Still(e, f) /\ f.mode = "normal"
  /\ ~e.collecting => ~f.collecting /\ Got(f) = Got(e) \o <<DataToken(c)>>
  /\ e.collecting => Got(f) = Got(e)
  /\ e.collecting /\ e.size < SubSize =>
       /\ f.collecting /\ f.size = e.size + 1 /\ f.suboption[e.size + 1] = c
       /\ \A i \in 1..e.size : f.suboption[i] = e.suboption[i]
\* f has moved to another mode only.
Switched(e, f) ==
  /\ Still(e, f) /\ Got(f) = Got(e) /\ f.collecting = e.collecting
  /\ f.suboption = e.suboption /\ f.size = e.size

LEMMA StoreStores ==
  ASSUME NEW e \in Engine, NEW c \in Bytes
  PROVE  /\ e.mode = "normal" => Stores(e, c, Store(e, c))
         /\ Stores(e, c, [Store(e, c) EXCEPT !.mode = "normal"])
<1> DEFINE f == Store(e, c)
           g == [f EXCEPT !.mode = "normal"]
           At(h) == /\ Still(e, h)
                    /\ ~e.collecting => ~h.collecting /\ Got(h) = Got(e) \o <<DataToken(c)>>
                    /\ e.collecting => Got(h) = Got(e)
                    /\ e.collecting /\ e.size < SubSize =>
                         /\ h.collecting /\ h.size = e.size + 1 /\ h.suboption[e.size + 1] = c
                         /\ \A i \in 1..e.size : h.suboption[i] = e.suboption[i]
<1>1. At(f) /\ f.mode = e.mode
  <2>1. CASE e.collecting
    <3>1. f = Collect(e, c)
      BY <2>1 DEF Store
    <3> HIDE DEF f
    <3> QED BY <2>1, <3>1, CollectDoes
  <2>2. CASE ~e.collecting
    <3>1. f = Buffer(e, c)
      BY <2>2 DEF Store
    <3> HIDE DEF f
    <3> QED BY <2>2, <3>1, BufferDoes DEF Unmoved
  <2> QED BY <2>1, <2>2
<1>2. f \in Engine
  <2>1. CASE e.collecting
    <3>1. f = Collect(e, c)
      BY <2>1 DEF Store
    <3> QED BY <3>1, CollectDoes
  <2>2. CASE ~e.collecting
    <3>1. f = Buffer(e, c)
      BY <2>2 DEF Store
    <3> QED BY <3>1, BufferDoes
  <2> QED BY <2>1, <2>2
<1> HIDE DEF f
<1>3. g.mode = "normal" /\ g.collecting = f.collecting /\ g.size = f.size /\ g.suboption = f.suboption
  BY <1>2 DEF Engine
<1>4. g.log = f.log /\ g.buffer = f.buffer
  BY <1>2 DEF Engine
<1>5. g.options = f.options /\ g.rfc2217 = f.rfc2217 /\ g.said = f.said
  BY <1>2 DEF Engine
<1> HIDE DEF g
<1>6. Got(g) = Got(f)
  BY <1>4 DEF Got
<1>7. Still(e, g)
  BY <1>1, <1>4, <1>5 DEF Still
<1>8. At(g)
  BY <1>1, <1>3, <1>6, <1>7
<1>9. e.mode = "normal" => Stores(e, c, f)
  BY <1>1 DEF Stores
<1>10. Stores(e, c, g)
  BY <1>3, <1>8 DEF Stores
<1> QED BY <1>9, <1>10 DEF f, g

LEMMA ModeSwitches ==
  ASSUME NEW e \in Engine, NEW m
  PROVE  LET f == [e EXCEPT !.mode = m]
         IN  Switched(e, f) /\ f.mode = m /\ f.command = e.command
<1> DEFINE f == [e EXCEPT !.mode = m]
<1>1. f.mode = m /\ f.command = e.command /\ f.collecting = e.collecting
  BY DEF Engine
<1>2. f.suboption = e.suboption /\ f.size = e.size /\ f.log = e.log /\ f.buffer = e.buffer
  BY DEF Engine
<1>3. f.options = e.options /\ f.rfc2217 = e.rfc2217 /\ f.said = e.said
  BY DEF Engine
<1> HIDE DEF f
<1>4. Still(e, f)
  BY <1>2, <1>3 DEF Still
<1>5. Got(f) = Got(e)
  BY <1>2 DEF Got
<1>6. Switched(e, f)
  BY <1>1, <1>2, <1>4, <1>5 DEF Switched
<1> QED BY <1>1, <1>6 DEF f

LEMMA StillAnnounced ==
  ASSUME NEW e, NEW f, Still(e, f), NEW toks, AnnouncedFor(e, toks)
  PROVE  AnnouncedFor(f, toks)
  BY AnnouncedSame DEF Still

\* A byte of data in the text, as it is or doubled.
LEMMA DataAgrees ==
  ASSUME NEW e, NEW toks \in Seq(Tokens), NEW at \in {"text", "iac"}, NEW v, NEW p, NEW lost,
         Agree(e, toks, at, v, p, lost), NEW c \in Bytes, NEW f, OK(f), Stores(e, c, f)
  PROVE  Agree(f, toks \o <<DataToken(c)>>, "text", 0, <<>>, lost)
<1> DEFINE x == DataToken(c)
<1>1. x \in Tokens /\ x.t = "data" /\ ~Carries(x) /\ ~WantsPort(x)
  BY DEF DataToken, Tokens, Said, Carries, WantsPort
<1>2. Still(e, f) /\ Faithful(e, toks, at, p, lost) /\ AnnouncedFor(e, toks)
  BY DEF Agree, Stores
<1>3. WantedOf[x] = <<>> /\ AnswersOf[x] = <<>>
  BY <1>1 DEF WantedOf, AnswersOf
<1>4. f.said = e.said /\ Calls(f.log) = Calls(e.log)
  BY <1>2 DEF Still
<1>5. Replies(e.said) \in Seq(Said) /\ Calls(e.log) \in Seq(Logged)
  <2>1. e.said \in Seq(Said) /\ e.log \in Seq(Logged)
    BY DEF Agree, OK, Engine
  <2> QED BY <2>1, OfType DEF Replies, Calls
<1>6. Tracks(e, at, p) => ~e.collecting
  BY DEF Tracks, Inner
<1>7. ~e.collecting => ~f.collecting /\ Got(f) = Got(e) \o <<x>>
  BY DEF Stores
<1> HIDE DEF x
<1>8. AllFit(toks \o <<x>>) => Short(toks, at, p)
  BY <1>1, TokenAdds DEF Short, Inner
<1>9. Calls(f.log) = Calls(e.log) \o WantedOf[x] /\ Replies(f.said) = Replies(e.said) \o AnswersOf[x]
  BY <1>3, <1>4, <1>5, ConcatEmptySeq
<1>10. Faithful(f, toks \o <<x>>, "text", <<>>, lost)
  BY <1>1, <1>2, <1>6, <1>7, <1>8, <1>9, FaithfulToken
<1>11. AnnouncedFor(f, toks \o <<x>>)
  BY <1>1, <1>2, AnnouncedToken, StillAnnounced
<1>12. Sync(f, "text", 0)
  BY DEF Sync, Stores
<1> QED BY <1>10, <1>11, <1>12 DEF Agree, x

\* A byte of a suboption, as it is or doubled.
LEMMA InnerAgrees ==
  ASSUME NEW e, NEW toks \in Seq(Tokens), NEW at \in Inner, NEW v, NEW p \in Seq(Bytes), NEW lost,
         Agree(e, toks, at, v, p, lost), NEW c \in Bytes, NEW f, OK(f), Stores(e, c, f)
  PROVE  Agree(f, toks, "sub", 0, p \o <<c>>, lost)
<1> DEFINE n == Len(p)
           q == p \o <<c>>
<1>1. q \in Seq(Bytes) /\ n \in Nat /\ Len(q) = n + 1 /\ q[n + 1] = c /\ \A i \in 1..n : q[i] = p[i]
  BY Appended
<1>2. Still(e, f) /\ Faithful(e, toks, at, p, lost) /\ AnnouncedFor(e, toks)
  BY DEF Agree, Stores
<1>3. f.said = e.said /\ Calls(f.log) = Calls(e.log)
  BY <1>2 DEF Still
<1>4. SubSize \in Nat /\ Len(p) = n
  BY TelnetAssumption
<1> HIDE DEF n, q
<1>5. Short(toks, "sub", q) => Short(toks, at, p) /\ n < SubSize
  BY <1>1, <1>4 DEF Short, Inner
<1>6. Tracks(e, at, p) => /\ e.collecting /\ e.size = n
                          /\ \A i \in 1..n : e.suboption[i] = p[i]
  BY <1>4 DEF Tracks
<1>7. Tracks(e, at, p) => Got(f) = Got(e)
  BY <1>6 DEF Stores
<1>8. ASSUME Short(toks, "sub", q), Tracks(e, at, p) PROVE Tracks(f, "sub", q)
  <2>1. /\ f.collecting /\ f.size = n + 1 /\ f.suboption[n + 1] = c
        /\ \A i \in 1..n : f.suboption[i] = e.suboption[i]
    BY <1>5, <1>6, <1>8 DEF Stores
  <2>2. \A i \in 1..n + 1 : f.suboption[i] = q[i]
    <3>1. \A i \in 1..n + 1 : i = n + 1 \/ i \in 1..n
      BY <1>1
    <3> QED BY <1>1, <1>6, <1>8, <2>1, <3>1
  <2> QED BY <1>1, <2>1, <2>2 DEF Tracks, Inner
<1>9. Faithful(f, toks, "sub", q, lost)
  BY <1>2, <1>3, <1>5, <1>7, <1>8, FaithfulOn
<1>10. AnnouncedFor(f, toks)
  BY <1>2, StillAnnounced
<1>11. Sync(f, "sub", 0)
  BY DEF Sync, Stores
<1> QED BY <1>9, <1>10, <1>11 DEF Agree, q

\* IAC, or the verb of a negotiation.
LEMMA SwitchAgrees ==
  ASSUME NEW e, NEW toks, NEW at, NEW v, NEW p, NEW lost, Agree(e, toks, at, v, p, lost),
         NEW f, OK(f), Switched(e, f), NEW at2, NEW v2, NEW p2, Sync(f, at2, v2),
         at \in Inner <=> at2 \in Inner, at \in Inner => p2 = p
  PROVE  Agree(f, toks, at2, v2, p2, lost)
<1>1. Still(e, f) /\ Got(f) = Got(e) /\ Faithful(e, toks, at, p, lost) /\ AnnouncedFor(e, toks)
  BY DEF Agree, Switched
<1>2. f.said = e.said /\ Calls(f.log) = Calls(e.log)
  BY <1>1 DEF Still
<1>3. Short(toks, at2, p2) => Short(toks, at, p)
  BY DEF Short
<1>4. Tracks(e, at, p) => Tracks(f, at2, p2)
  BY DEF Tracks, Switched
<1>5. Faithful(f, toks, at2, p2, lost)
  BY <1>1, <1>2, <1>3, <1>4, FaithfulOn
<1>6. AnnouncedFor(f, toks)
  BY <1>1, StillAnnounced
<1> QED BY <1>5, <1>6 DEF Agree

\* The subnegotiation begins, with nothing collected.
LEMMA StartAgrees ==
  ASSUME NEW e, NEW toks, NEW v, NEW p, NEW lost, Agree(e, toks, "iac", v, p, lost),
         NEW f, OK(f), Still(e, f), Got(f) = Got(e), f.mode = "normal", f.collecting, f.size = 0
  PROVE  Agree(f, toks, "sub", 0, <<>>, lost)
<1>1. Faithful(e, toks, "iac", p, lost) /\ AnnouncedFor(e, toks)
  BY DEF Agree
<1>2. f.said = e.said /\ Calls(f.log) = Calls(e.log)
  BY DEF Still
<1>3. Short(toks, "sub", <<>>) => Short(toks, "iac", p)
  BY DEF Short, Inner
<1>4. Tracks(f, "sub", <<>>)
  BY DEF Tracks, Inner
<1>5. Faithful(f, toks, "sub", <<>>, lost)
  BY <1>1, <1>2, <1>3, <1>4, FaithfulOn
<1>6. AnnouncedFor(f, toks)
  BY <1>1, StillAnnounced
<1>7. Sync(f, "sub", 0)
  BY DEF Sync
<1> QED BY <1>5, <1>6, <1>7 DEF Agree

\* A command that does nothing.
LEMMA CommandAgrees ==
  ASSUME NEW e, NEW toks \in Seq(Tokens), NEW v, NEW p, NEW lost, Agree(e, toks, "iac", v, p, lost),
         NEW f, OK(f), Switched(e, f), f.mode = "normal"
  PROVE  Agree(f, toks \o <<Command>>, "text", 0, <<>>, lost)
<1> DEFINE x == Command
<1>1. x \in Tokens /\ x.t = "command" /\ ~Carries(x) /\ ~WantsPort(x)
  BY DEF Command, Tokens, Said, Carries, WantsPort
<1>2. Still(e, f) /\ Got(f) = Got(e) /\ f.collecting = e.collecting
  BY DEF Switched
<1>3. Faithful(e, toks, "iac", p, lost) /\ AnnouncedFor(e, toks)
  BY DEF Agree
<1>4. WantedOf[x] = <<>> /\ AnswersOf[x] = <<>>
  BY <1>1 DEF WantedOf, AnswersOf
<1>5. Replies(e.said) \in Seq(Said) /\ Calls(e.log) \in Seq(Logged)
  <2>1. e.said \in Seq(Said) /\ e.log \in Seq(Logged)
    BY DEF Agree, OK, Engine
  <2> QED BY <2>1, OfType DEF Replies, Calls
<1>6. Tracks(e, "iac", p) => ~f.collecting
  BY <1>2 DEF Tracks, Inner
<1> HIDE DEF x
<1>7. Calls(f.log) = Calls(e.log) \o WantedOf[x] /\ Replies(f.said) = Replies(e.said) \o AnswersOf[x]
  BY <1>2, <1>4, <1>5, ConcatEmptySeq DEF Still
<1>8. AllFit(toks \o <<x>>) => Short(toks, "iac", p)
  BY <1>1, TokenAdds DEF Short, Inner
<1>9. Faithful(f, toks \o <<x>>, "text", <<>>, lost)
  BY <1>1, <1>2, <1>3, <1>6, <1>7, <1>8, FaithfulToken
<1>10. AnnouncedFor(f, toks \o <<x>>)
  BY <1>1, <1>2, <1>3, AnnouncedToken, StillAnnounced
<1>11. Sync(f, "text", 0)
  BY DEF Sync
<1> QED BY <1>9, <1>10, <1>11 DEF Agree, x

\* The end of a subnegotiation: f has processed what was collected.
Processed(e, f) ==
  LET g == process_subnegotiation(e)
  IN  /\ f.log = g.log /\ f.said = g.said /\ f.buffer = g.buffer
      /\ f.options = g.options /\ f.rfc2217 = g.rfc2217
      /\ f.mode = "normal" /\ ~f.collecting
LEMMA ProcessedTells ==
  ASSUME NEW e \in Engine, NEW f, Processed(e, f)
  PROVE  LET q == Used(e.suboption)
         IN  /\ f.options = e.options /\ f.rfc2217 = e.rfc2217 /\ Greets(f.log) = Greets(e.log)
             /\ Got(f) = Got(e)
             /\ Calls(f.log) = Calls(e.log) \o Wanted(q) /\ Replies(f.said) = Replies(e.said) \o Answers(q)
<1> DEFINE q == Used(e.suboption)
           g == process_subnegotiation(e)
<1>1. /\ Frame(e, g) /\ g.options = e.options /\ g.rfc2217 = e.rfc2217
      /\ Heard(g.log) = Heard(e.log) /\ Greets(g.log) = Greets(e.log)
      /\ Calls(g.log) = Calls(e.log) \o Wanted(q) /\ Replies(g.said) = Replies(e.said) \o Answers(q)
  BY SubnegotiationTells
<1>2. /\ f.log = g.log /\ f.said = g.said /\ f.buffer = g.buffer
      /\ f.options = g.options /\ f.rfc2217 = g.rfc2217
  BY DEF Processed
<1> HIDE DEF g, q
<1>3. Got(f) = Got(e)
  BY <1>1, <1>2 DEF Got, Frame
<1> QED BY <1>1, <1>2, <1>3 DEF q

\* IAC SE outside a suboption: what it does to the port is left open.
LEMMA StrayAgrees ==
  ASSUME NEW e, NEW toks \in Seq(Tokens), NEW v, NEW p, NEW lost, Agree(e, toks, "iac", v, p, lost),
         NEW f, OK(f), Processed(e, f)
  PROVE  Agree(f, toks \o <<Stray>>, "text", 0, <<>>, lost)
<1> DEFINE x == Stray
<1>1. x \in Tokens /\ x.t = "stray" /\ ~Carries(x) /\ ~WantsPort(x)
  BY DEF Stray, Tokens, Said, Carries, WantsPort
<1>2. Faithful(e, toks, "iac", p, lost) /\ AnnouncedFor(e, toks) /\ e \in Engine
  BY DEF Agree, OK
<1>3. /\ f.options = e.options /\ f.rfc2217 = e.rfc2217 /\ Greets(f.log) = Greets(e.log)
      /\ Got(f) = Got(e)
  BY <1>2, ProcessedTells
<1>4. ~f.collecting /\ f.mode = "normal"
  BY DEF Processed
<1> HIDE DEF x
<1>5. ~WellFormed(toks \o <<x>>)
  BY <1>1, TokenAdds
<1>6. AllFit(toks \o <<x>>) => Short(toks, "iac", p)
  BY <1>1, TokenAdds DEF Short, Inner
<1>7. Faithful(f, toks \o <<x>>, "text", <<>>, lost)
  BY <1>1, <1>2, <1>3, <1>4, <1>5, <1>6, FaithfulToken
<1>8. AnnouncedFor(f, toks \o <<x>>)
  BY <1>1, <1>2, <1>3, AnnouncedToken, AnnouncedSame
<1>9. Sync(f, "text", 0)
  BY <1>4 DEF Sync
<1> QED BY <1>7, <1>8, <1>9 DEF Agree, x

\* A port command of the right length is all of what was collected.
LEMMA SubAgrees ==
  ASSUME NEW e, NEW toks \in Seq(Tokens), NEW v, NEW p \in Seq(Bytes), NEW lost, Agree(e, toks, "subiac", v, p, lost),
         NEW f, OK(f), Processed(e, f)
  PROVE  Agree(f, toks \o <<Sub(p)>>, "text", 0, <<>>, lost)
<1> DEFINE x == Sub(p)
           q == Used(e.suboption)
<1>1. x \in Tokens /\ x.t = "sub" /\ x.p = p /\ Carries(x) /\ ~WantsPort(x)
  BY DEF Sub, Tokens, Said, Carries, WantsPort
<1>2. Faithful(e, toks, "subiac", p, lost) /\ AnnouncedFor(e, toks) /\ e \in Engine
  BY DEF Agree, OK
<1>3. /\ f.options = e.options /\ f.rfc2217 = e.rfc2217 /\ Greets(f.log) = Greets(e.log)
      /\ Got(f) = Got(e)
      /\ Calls(f.log) = Calls(e.log) \o Wanted(q) /\ Replies(f.said) = Replies(e.said) \o Answers(q)
  BY <1>2, ProcessedTells
<1>4. ~f.collecting /\ f.mode = "normal"
  BY DEF Processed
<1>5. WantedOf[x] = Wanted(p) /\ AnswersOf[x] = Answers(p)
  BY <1>1 DEF WantedOf, AnswersOf
<1> HIDE DEF x
<1>6. ASSUME WellFormed(toks \o <<x>>), Tracks(e, "subiac", p) PROVE q = p
  <2>1. Sized(x)
    BY <1>1, <1>6, TokenAdds
  <2>2. Len(p) = IF p[2] = T_SET_BAUDRATE THEN 6 ELSE 3
    BY <1>1, <2>1 DEF Sized
  <2>3. \A i \in 1..Len(p) : e.suboption[i] = p[i]
    BY <1>6 DEF Tracks, Inner
  <2>4. e.suboption \in [1..SubSize -> Bytes]
    BY <1>2 DEF Engine
  <2> QED BY <2>2, <2>3, <2>4, UsedAll
<1> HIDE DEF q
<1>7. AllFit(toks \o <<x>>) => Short(toks, "subiac", p)
  BY <1>1, TokenAdds DEF Short, Inner
<1>8. ASSUME WellFormed(toks \o <<x>>), Tracks(e, "subiac", p)
      PROVE  /\ Calls(f.log) = Calls(e.log) \o WantedOf[x]
             /\ Replies(f.said) = Replies(e.said) \o AnswersOf[x]
  BY <1>3, <1>5, <1>6, <1>8
<1>9. Faithful(f, toks \o <<x>>, "text", <<>>, lost)
  BY <1>1, <1>2, <1>3, <1>4, <1>7, <1>8, FaithfulToken
<1>10. AnnouncedFor(f, toks \o <<x>>)
  BY <1>1, <1>2, <1>3, AnnouncedToken, AnnouncedSame
<1>11. Sync(f, "text", 0)
  BY <1>4 DEF Sync
<1> QED BY <1>9, <1>10, <1>11 DEF Agree, x

\* The end of a negotiation.
LEMMA NegAgrees ==
  ASSUME NEW e, NEW toks \in Seq(Tokens), NEW v \in 251..254, NEW p, NEW lost, Agree(e, toks, "verb", v, p, lost),
         NEW c \in Bytes, NEW f, OK(f), f = [telnet_negotiate_option(e, c) EXCEPT !.mode = "normal"]
  PROVE  Agree(f, toks \o <<Neg(v, c)>>, "text", 0, <<>>, lost)
<1> DEFINE x == Neg(v, c)
           g == telnet_negotiate_option(e, c)
<1>1. x \in Tokens /\ x.t = "neg" /\ x.opt = c /\ x.verb = v /\ ~Carries(x)
  BY DEF Neg, Tokens, Said, Carries, Bytes
<1>2. /\ Faithful(e, toks, "verb", p, lost) /\ AnnouncedFor(e, toks) /\ Announced(e) /\ e \in Engine
      /\ e.command = v
  BY DEF Agree, OK, AnnouncedFor, Sync
<1>3. Negotiated(e, g, AcceptsPort(v, c))
  BY <1>2, NegotiateNegotiates
<1>4. WantsPort(x) <=> AcceptsPort(v, c)
  BY <1>1 DEF WantsPort, AcceptsPort, T_COM_PORT_OPTION, T_DO, T_WILL
<1>5. f = [g EXCEPT !.mode = "normal"]
  OBVIOUS
<1>6. WantedOf[x] = <<>> /\ AnswersOf[x] = <<>>
  BY <1>1 DEF WantedOf, AnswersOf
<1>7. Replies(e.said) \in Seq(Said) /\ Calls(e.log) \in Seq(Logged)
  <2>1. e.said \in Seq(Said) /\ e.log \in Seq(Logged)
    BY <1>2 DEF Engine
  <2> QED BY <2>1, OfType DEF Replies, Calls
<1> HIDE DEF x, g
<1>8. /\ Quiet(e, g) /\ Announced(g) /\ (g.rfc2217 <=> e.rfc2217 \/ WantsPort(x)) /\ g \in Engine
  BY <1>3, <1>4 DEF Negotiated, Quiet, Frame
<1>9. Switched(g, f) /\ f.mode = "normal"
  <2> DEFINE h == [g EXCEPT !.mode = "normal"]
  <2>1. Switched(g, h) /\ h.mode = "normal"
    BY <1>8, ModeSwitches
  <2>2. f = h
    BY <1>5
  <2> HIDE DEF h
  <2> QED BY <2>1, <2>2
<1>10. f.collecting = e.collecting
  BY <1>8, <1>9 DEF Switched, Quiet, Frame
<1>11. Got(f) = Got(e)
  <2>1. Got(g) = Got(e)
    BY <1>8 DEF Got, Quiet, Frame
  <2> QED BY <1>9, <2>1 DEF Switched
<1>12. Calls(f.log) = Calls(e.log) /\ Replies(f.said) = Replies(e.said)
  BY <1>8, <1>9 DEF Switched, Still, Quiet
<1>13. Calls(f.log) = Calls(e.log) \o WantedOf[x] /\ Replies(f.said) = Replies(e.said) \o AnswersOf[x]
  BY <1>6, <1>7, <1>12, ConcatEmptySeq
<1>14. AllFit(toks \o <<x>>) => Short(toks, "verb", p)
  BY <1>1, TokenAdds DEF Short, Inner
<1>15. Tracks(e, "verb", p) => ~f.collecting
  BY <1>10 DEF Tracks, Inner
<1>16. Faithful(f, toks \o <<x>>, "text", <<>>, lost)
  BY <1>1, <1>2, <1>11, <1>13, <1>14, <1>15, FaithfulToken
<1>17. AnnouncedFor(f, toks \o <<x>>)
  <2>1. Asked(toks \o <<x>>) <=> Asked(toks) \/ WantsPort(x)
    BY <1>1, TokenAdds
  <2>2. AnnouncedFor(g, toks \o <<x>>)
    BY <1>2, <1>8, <2>1 DEF AnnouncedFor
  <2> QED BY <1>9, <2>2, StillAnnounced DEF Switched
<1>18. Sync(f, "text", 0)
  BY <1>9 DEF Sync
<1> QED BY <1>16, <1>17, <1>18 DEF Agree, x

LEMMA FollowsFrom ==
  ASSUME NEW s, NEW e, NEW lost, NEW toks, NEW at, NEW v, NEW p, AgreeAt(s, e, lost, toks, at, v, p)
  PROVE  Follows(s, e, lost)
  BY DEF Follows, AgreeAt, Agree

LEMMA TextByte ==
  ASSUME NEW s, NEW e, NEW lost, NEW toks, NEW v, NEW p, AgreeAt(s, e, lost, toks, "text", v, p),
         NEW c \in Bytes
  PROVE  Follows(s \o <<c>>, Byte(e, c), lost)
<1> DEFINE f == Byte(e, c)
           u == s \o <<c>>
<1>1. Stands(s, toks, "text", v, p) /\ Agree(e, toks, "text", v, p, lost)
  BY DEF AgreeAt
<1>2. OK(e) /\ e \in Engine /\ e.mode = "normal" /\ toks \in Seq(Tokens)
  BY <1>1, StandsType DEF Agree, OK, Sync
<1>3. OK(f)
  BY <1>2, ByteKeeps
<1>4. f = InNormal(e, c)
  BY <1>2 DEF Byte
<1>5. CASE c # 255
  <2>1. f = Store(e, c)
    BY <1>4, <1>5 DEF InNormal, T_IAC
  <2> HIDE DEF f
  <2>2. Stores(e, c, f)
    BY <1>2, <2>1, StoreStores
  <2> DEFINE x == toks \o <<DataToken(c)>>
  <2>3. Agree(f, x, "text", 0, <<>>, lost)
    BY <1>1, <1>2, <1>3, <2>2, DataAgrees
  <2>4. Stands(u, x, "text", 0, <<>>)
    BY <1>1, <1>5, TextStep
  <2> HIDE DEF x, u
  <2>5. AgreeAt(u, f, lost, x, "text", 0, <<>>)
    BY <2>3, <2>4 DEF AgreeAt
  <2>6. Follows(u, f, lost)
    BY <2>5, FollowsFrom, Zenon
  <2> QED BY <2>6 DEF f, u
<1>6. CASE c = 255
  <2>1. f = [e EXCEPT !.mode = "got_iac"]
    BY <1>4, <1>6 DEF InNormal, T_IAC
  <2> HIDE DEF f
  <2>2. Switched(e, f) /\ f.mode = "got_iac"
    BY <1>2, <2>1, ModeSwitches
  <2>3. Agree(f, toks, "iac", 0, <<>>, lost)
    <3>1. Sync(f, "iac", 0)
      BY <2>2 DEF Sync
    <3> QED BY <1>1, <1>3, <2>2, <3>1, SwitchAgrees DEF Inner
  <2>4. Stands(u, toks, "iac", 0, <<>>)
    BY <1>1, <1>6, TextStep
  <2> HIDE DEF u
  <2>5. AgreeAt(u, f, lost, toks, "iac", 0, <<>>)
    BY <2>3, <2>4 DEF AgreeAt
  <2>6. Follows(u, f, lost)
    BY <2>5, FollowsFrom, Zenon
  <2> QED BY <2>6 DEF f, u
<1> QED BY <1>5, <1>6

LEMMA SubByte ==
  ASSUME NEW s, NEW e, NEW lost, NEW toks, NEW v, NEW p, AgreeAt(s, e, lost, toks, "sub", v, p),
         NEW c \in Bytes
  PROVE  Follows(s \o <<c>>, Byte(e, c), lost)
<1> DEFINE f == Byte(e, c)
           u == s \o <<c>>
<1>1. Stands(s, toks, "sub", v, p) /\ Agree(e, toks, "sub", v, p, lost)
  BY DEF AgreeAt
<1>2. OK(e) /\ e \in Engine /\ e.mode = "normal" /\ toks \in Seq(Tokens) /\ p \in Seq(Bytes)
  BY <1>1, StandsType DEF Agree, OK, Sync
<1>3. OK(f)
  BY <1>2, ByteKeeps
<1>4. f = InNormal(e, c)
  BY <1>2 DEF Byte
<1>5. CASE c # 255
  <2>1. f = Store(e, c)
    BY <1>4, <1>5 DEF InNormal, T_IAC
  <2> HIDE DEF f
  <2>2. Stores(e, c, f)
    BY <1>2, <2>1, StoreStores
  <2> DEFINE q == p \o <<c>>
  <2>3. Agree(f, toks, "sub", 0, q, lost)
    BY <1>1, <1>2, <1>3, <2>2, InnerAgrees DEF Inner
  <2>4. Stands(u, toks, "sub", 0, q)
    BY <1>1, <1>5, SubStep
  <2> HIDE DEF q, u
  <2>5. AgreeAt(u, f, lost, toks, "sub", 0, q)
    BY <2>3, <2>4 DEF AgreeAt
  <2>6. Follows(u, f, lost)
    BY <2>5, FollowsFrom, Zenon
  <2> QED BY <2>6 DEF f, u
<1>6. CASE c = 255
  <2>1. f = [e EXCEPT !.mode = "got_iac"]
    BY <1>4, <1>6 DEF InNormal, T_IAC
  <2> HIDE DEF f
  <2>2. Switched(e, f) /\ f.mode = "got_iac"
    BY <1>2, <2>1, ModeSwitches
  <2>3. Agree(f, toks, "subiac", 0, p, lost)
    <3>1. Sync(f, "subiac", 0)
      BY <2>2 DEF Sync
    <3> QED BY <1>1, <1>3, <2>2, <3>1, SwitchAgrees DEF Inner
  <2>4. Stands(u, toks, "subiac", 0, p)
    BY <1>1, <1>6, SubStep
  <2> HIDE DEF u
  <2>5. AgreeAt(u, f, lost, toks, "subiac", 0, p)
    BY <2>3, <2>4 DEF AgreeAt
  <2>6. Follows(u, f, lost)
    BY <2>5, FollowsFrom, Zenon
  <2> QED BY <2>6 DEF f, u
<1> QED BY <1>5, <1>6

LEMMA VerbByte ==
  ASSUME NEW s, NEW e, NEW lost, NEW toks, NEW v, NEW p, AgreeAt(s, e, lost, toks, "verb", v, p),
         NEW c \in Bytes
  PROVE  Follows(s \o <<c>>, Byte(e, c), lost)
<1> DEFINE f == Byte(e, c)
           u == s \o <<c>>
           x == toks \o <<Neg(v, c)>>
<1>1. Stands(s, toks, "verb", v, p) /\ Agree(e, toks, "verb", v, p, lost)
  BY DEF AgreeAt
<1>2. OK(e) /\ e.mode = "negotiate" /\ toks \in Seq(Tokens)
  BY <1>1, StandsType DEF Agree, Sync
<1>3. OK(f)
  BY <1>2, ByteKeeps
<1>4. f = [telnet_negotiate_option(e, c) EXCEPT !.mode = "normal"]
  BY <1>2 DEF Byte, InNegotiate
<1> HIDE DEF f
<1>5. Stands(u, x, "text", 0, <<>>) /\ v \in 251..254
  BY <1>1, VerbStep
<1>6. Agree(f, x, "text", 0, <<>>, lost)
  BY <1>1, <1>2, <1>3, <1>4, <1>5, NegAgrees
<1> HIDE DEF u, x
<1>7. AgreeAt(u, f, lost, x, "text", 0, <<>>)
  BY <1>5, <1>6 DEF AgreeAt
<1>8. Follows(u, f, lost)
  BY <1>7, FollowsFrom, Zenon
<1> QED BY <1>8 DEF f, u

\* The arms of the state T_GOT_IAC.
LEMMA GotIacArms ==
  ASSUME NEW e \in Engine, NEW c \in Bytes
  PROVE  LET f == InGotIac(e, c)
         IN  /\ c = 255 => Stores(e, c, f)
             /\ c = 250 => /\ Still(e, f) /\ Got(f) = Got(e) /\ f.mode = "normal"
                           /\ f.collecting /\ f.size = 0
             /\ c = 240 => Processed(e, f)
             /\ c \in 251..254 => Switched(e, f) /\ f.mode = "negotiate" /\ f.command = c
             /\ c \notin {240, 250, 251, 252, 253, 254, 255} => Switched(e, f) /\ f.mode = "normal"
<1> DEFINE f == InGotIac(e, c)
<1>1. CASE c = 255
  <2> DEFINE g == [Store(e, c) EXCEPT !.mode = "normal"]
  <2>1. f = g
    BY <1>1 DEF InGotIac, T_IAC, T_SB, T_SE, T_WILL, T_DONT
  <2>2. Stores(e, c, g)
    BY StoreStores
  <2> HIDE DEF g, f
  <2>3. Stores(e, c, f)
    BY <2>1, <2>2
  <2> QED BY <1>1, <2>3 DEF f
<1>2. CASE c = 250
  <2> DEFINE d == [e EXCEPT !.size = 0, !.collecting = TRUE]
             g == [d EXCEPT !.mode = "normal"]
  <2>1. f = g
    BY <1>2 DEF InGotIac, T_IAC, T_SB, T_SE, T_WILL, T_DONT
  <2>2. d \in Engine
    <3>1. 0 \in 0..SubSize
      BY TelnetAssumption
    <3> QED BY <3>1 DEF Engine
  <2>3. d.options = e.options /\ d.rfc2217 = e.rfc2217 /\ d.said = e.said
    BY DEF Engine
  <2>4. d.log = e.log /\ d.buffer = e.buffer /\ d.collecting /\ d.size = 0
    BY DEF Engine
  <2> HIDE DEF d
  <2>5. Switched(d, g) /\ g.mode = "normal"
    BY <2>2, ModeSwitches
  <2> HIDE DEF g
  <2>6. Still(e, g)
    BY <2>3, <2>4, <2>5 DEF Switched, Still
  <2>7. Got(g) = Got(e)
    BY <2>4, <2>5 DEF Switched, Got
  <2>8. g.collecting /\ g.size = 0
    BY <2>4, <2>5 DEF Switched
  <2> HIDE DEF f
  <2> QED BY <1>2, <2>1, <2>5, <2>6, <2>7, <2>8 DEF f
<1>3. CASE c = 240
  <2> DEFINE d == process_subnegotiation(e)
             g == [d EXCEPT !.size = 0, !.collecting = FALSE]
             h == [g EXCEPT !.mode = "normal"]
  <2>1. f = h
    BY <1>3 DEF InGotIac, T_IAC, T_SB, T_SE, T_WILL, T_DONT
  <2>2. d \in Engine
    BY SubnegotiationTells DEF Frame
  <2> HIDE DEF d
  <2>3. g \in Engine
    <3>1. 0 \in 0..SubSize
      BY TelnetAssumption
    <3> QED BY <2>2, <3>1 DEF Engine
  <2>4. g.log = d.log /\ g.said = d.said /\ g.buffer = d.buffer /\ ~g.collecting
    BY <2>2 DEF Engine
  <2>5. g.options = d.options /\ g.rfc2217 = d.rfc2217
    BY <2>2 DEF Engine
  <2> HIDE DEF g
  <2>6. h.log = g.log /\ h.said = g.said /\ h.buffer = g.buffer /\ ~h.collecting
    BY <2>3, <2>4 DEF Engine
  <2>7. h.options = g.options /\ h.rfc2217 = g.rfc2217 /\ h.mode = "normal"
    BY <2>3 DEF Engine
  <2> HIDE DEF h, f
  <2>8. Processed(e, f)
    BY <2>1, <2>4, <2>5, <2>6, <2>7 DEF Processed, d
  <2> QED BY <1>3, <2>8 DEF f
<1>4. CASE c \in 251..254
  <2> DEFINE d == [e EXCEPT !.command = c, !.mode = "negotiate"]
  <2>1. f = d
    BY <1>4 DEF InGotIac, T_IAC, T_SB, T_SE, T_WILL, T_DONT
  <2>2. d.options = e.options /\ d.rfc2217 = e.rfc2217 /\ d.said = e.said
    BY DEF Engine
  <2>3. d.log = e.log /\ d.buffer = e.buffer /\ d.collecting = e.collecting
    BY DEF Engine
  <2>4. d.size = e.size /\ d.suboption = e.suboption /\ d.mode = "negotiate" /\ d.command = c
    BY DEF Engine
  <2> HIDE DEF d
  <2>5. Still(e, d)
    BY <2>2, <2>3 DEF Still
  <2>6. Got(d) = Got(e)
    BY <2>3 DEF Got
  <2>7. Switched(e, d)
    BY <2>3, <2>4, <2>5, <2>6 DEF Switched
  <2> HIDE DEF f
  <2> QED BY <1>4, <2>1, <2>4, <2>7 DEF f
<1>5. CASE c \notin {240, 250, 251, 252, 253, 254, 255}
  <2> DEFINE d == [e EXCEPT !.mode = "normal"]
  <2>1. f = d
    <3>1. c # T_IAC /\ c # T_SB /\ c # T_SE /\ c \notin T_WILL..T_DONT
      BY <1>5 DEF T_IAC, T_SB, T_SE, T_WILL, T_DONT
    <3> QED BY <3>1 DEF InGotIac
  <2>2. Switched(e, d) /\ d.mode = "normal"
    BY ModeSwitches
  <2> HIDE DEF d, f
  <2> QED BY <1>5, <2>1, <2>2 DEF f
<1> QED BY <1>1, <1>2, <1>3, <1>4, <1>5

LEMMA IacByte ==
  ASSUME NEW s, NEW e, NEW lost, NEW toks, NEW v, NEW p, AgreeAt(s, e, lost, toks, "iac", v, p),
         NEW c \in Bytes
  PROVE  Follows(s \o <<c>>, Byte(e, c), lost)
<1> DEFINE f == Byte(e, c)
           u == s \o <<c>>
<1>1. Stands(s, toks, "iac", v, p) /\ Agree(e, toks, "iac", v, p, lost)
  BY DEF AgreeAt
<1>2. OK(e) /\ e \in Engine /\ e.mode = "got_iac" /\ toks \in Seq(Tokens)
  BY <1>1, StandsType DEF Agree, OK, Sync
<1>3. OK(f)
  BY <1>2, ByteKeeps
<1>4. f = InGotIac(e, c)
  BY <1>2 DEF Byte
<1> HIDE DEF f, u
<1>5. SUFFICES Follows(u, f, lost)
  BY DEF f, u
<1>6. CASE c = 255
  <2> DEFINE x == toks \o <<DataToken(255)>>
  <2>1. Stores(e, c, f)
    BY <1>2, <1>4, <1>6, GotIacArms
  <2>2. Agree(f, toks \o <<DataToken(c)>>, "text", 0, <<>>, lost)
    BY <1>1, <1>2, <1>3, <2>1, DataAgrees
  <2>3. Stands(u, x, "text", 0, <<>>)
    BY <1>1, <1>6, IacStep DEF u
  <2>4. Agree(f, x, "text", 0, <<>>, lost)
    BY <1>6, <2>2
  <2> HIDE DEF x
  <2>5. AgreeAt(u, f, lost, x, "text", 0, <<>>)
    BY <2>3, <2>4 DEF AgreeAt
  <2> QED BY <2>5, FollowsFrom, Zenon
<1>7. CASE c = 250
  <2>1. Still(e, f) /\ Got(f) = Got(e) /\ f.mode = "normal" /\ f.collecting /\ f.size = 0
    BY <1>2, <1>4, <1>7, GotIacArms
  <2>2. Agree(f, toks, "sub", 0, <<>>, lost)
    BY <1>1, <1>3, <2>1, StartAgrees
  <2>3. Stands(u, toks, "sub", 0, <<>>)
    BY <1>1, <1>7, IacStep DEF u
  <2>5. AgreeAt(u, f, lost, toks, "sub", 0, <<>>)
    BY <2>2, <2>3 DEF AgreeAt
  <2> QED BY <2>5, FollowsFrom, Zenon
<1>8. CASE c = 240
  <2> DEFINE x == toks \o <<Stray>>
  <2>1. Processed(e, f)
    BY <1>2, <1>4, <1>8, GotIacArms
  <2>2. Agree(f, x, "text", 0, <<>>, lost)
    BY <1>1, <1>2, <1>3, <2>1, StrayAgrees
  <2>3. Stands(u, x, "text", 0, <<>>)
    BY <1>1, <1>8, IacStep DEF u
  <2> HIDE DEF x
  <2>5. AgreeAt(u, f, lost, x, "text", 0, <<>>)
    BY <2>2, <2>3 DEF AgreeAt
  <2> QED BY <2>5, FollowsFrom, Zenon
<1>9. CASE c \in 251..254
  <2>1. Switched(e, f) /\ f.mode = "negotiate" /\ f.command = c
    BY <1>2, <1>4, <1>9, GotIacArms
  <2>2. Sync(f, "verb", c)
    BY <2>1 DEF Sync
  <2>3. Agree(f, toks, "verb", c, <<>>, lost)
    BY <1>1, <1>3, <2>1, <2>2, SwitchAgrees DEF Inner
  <2>4. Stands(u, toks, "verb", c, <<>>)
    BY <1>1, <1>9, IacStep DEF u
  <2>5. AgreeAt(u, f, lost, toks, "verb", c, <<>>)
    BY <2>3, <2>4 DEF AgreeAt
  <2> QED BY <2>5, FollowsFrom, Zenon
<1>10. CASE c \notin {240, 250, 251, 252, 253, 254, 255}
  <2> DEFINE x == toks \o <<Command>>
  <2>1. Switched(e, f) /\ f.mode = "normal"
    BY <1>2, <1>4, <1>10, GotIacArms
  <2>2. Agree(f, x, "text", 0, <<>>, lost)
    BY <1>1, <1>2, <1>3, <2>1, CommandAgrees
  <2>3. Stands(u, x, "text", 0, <<>>)
    BY <1>1, <1>10, IacStep DEF u
  <2> HIDE DEF x
  <2>5. AgreeAt(u, f, lost, x, "text", 0, <<>>)
    BY <2>2, <2>3 DEF AgreeAt
  <2> QED BY <2>5, FollowsFrom, Zenon
<1> QED BY <1>6, <1>7, <1>8, <1>9, <1>10

LEMMA SubiacByte ==
  ASSUME NEW s, NEW e, NEW lost, NEW toks, NEW v, NEW p, AgreeAt(s, e, lost, toks, "subiac", v, p),
         NEW c \in Bytes
  PROVE  Follows(s \o <<c>>, Byte(e, c), lost)
<1> DEFINE f == Byte(e, c)
           u == s \o <<c>>
<1>1. Stands(s, toks, "subiac", v, p) /\ Agree(e, toks, "subiac", v, p, lost)
  BY DEF AgreeAt
<1>2. OK(e) /\ e \in Engine /\ e.mode = "got_iac" /\ toks \in Seq(Tokens) /\ p \in Seq(Bytes)
  BY <1>1, StandsType DEF Agree, OK, Sync
<1>3. OK(f)
  BY <1>2, ByteKeeps
<1>4. f = InGotIac(e, c)
  BY <1>2 DEF Byte
<1> HIDE DEF f, u
<1>5. SUFFICES Follows(u, f, lost)
  BY DEF f, u
<1>6. CASE c = 255
  <2> DEFINE q == p \o <<255>>
  <2>1. Stores(e, c, f)
    BY <1>2, <1>4, <1>6, GotIacArms
  <2>2. Agree(f, toks, "sub", 0, p \o <<c>>, lost)
    BY <1>1, <1>2, <1>3, <2>1, InnerAgrees DEF Inner
  <2>3. Stands(u, toks, "sub", 0, q)
    BY <1>1, <1>6, SubiacStep DEF u
  <2>4. Agree(f, toks, "sub", 0, q, lost)
    BY <1>6, <2>2
  <2> HIDE DEF q
  <2>5. AgreeAt(u, f, lost, toks, "sub", 0, q)
    BY <2>3, <2>4 DEF AgreeAt
  <2> QED BY <2>5, FollowsFrom, Zenon
<1>7. CASE c = 240
  <2> DEFINE x == toks \o <<Sub(p)>>
  <2>1. Processed(e, f)
    BY <1>2, <1>4, <1>7, GotIacArms
  <2>2. Agree(f, x, "text", 0, <<>>, lost)
    BY <1>1, <1>2, <1>3, <2>1, SubAgrees
  <2>3. Stands(u, x, "text", 0, <<>>)
    BY <1>1, <1>7, SubiacStep DEF u
  <2> HIDE DEF x
  <2>5. AgreeAt(u, f, lost, x, "text", 0, <<>>)
    BY <2>2, <2>3 DEF AgreeAt
  <2> QED BY <2>5, FollowsFrom, Zenon
<1>8. CASE c \notin {240, 255}
  <2>1. HasOdd(u)
    BY <1>1, <1>8, SubiacStep DEF u
  <2> QED BY <1>3, <2>1 DEF Follows
<1> QED BY <1>6, <1>7, <1>8

\* Each byte, wherever the reader is.
LEMMA ByteFollows ==
  ASSUME NEW s \in Seq(Bytes), NEW e, NEW lost, Follows(s, e, lost), NEW c \in Bytes
  PROVE  Follows(s \o <<c>>, Byte(e, c), lost)
<1>1. CASE HasOdd(s)
  <2>1. HasOdd(s \o <<c>>)
    BY <1>1, Tuple1, OddStays
  <2>2. OK(Byte(e, c))
    BY ByteKeeps DEF Follows
  <2> QED BY <2>1, <2>2 DEF Follows
<1>2. CASE \E toks, at, v, p : AgreeAt(s, e, lost, toks, at, v, p)
  <2>1. PICK toks, at, v, p : AgreeAt(s, e, lost, toks, at, v, p)
    BY <1>2
  <2>2. at \in {"text", "iac", "verb", "sub", "subiac"}
    BY <2>1, StandsType DEF AgreeAt
  <2>3. CASE at = "text"
    BY <2>1, <2>3, TextByte
  <2>4. CASE at = "iac"
    BY <2>1, <2>4, IacByte
  <2>5. CASE at = "verb"
    BY <2>1, <2>5, VerbByte
  <2>6. CASE at = "sub"
    BY <2>1, <2>6, SubByte
  <2>7. CASE at = "subiac"
    BY <2>1, <2>7, SubiacByte
  <2> QED BY <2>2, <2>3, <2>4, <2>5, <2>6, <2>7
<1> QED BY <1>1, <1>2 DEF Follows

LEMMA FlushFollows ==
  ASSUME NEW s, NEW e, NEW lost, Follows(s, e, lost)
  PROVE  Follows(s, Flush(e), lost) /\ Flush(e).buffer = <<>>
<1> DEFINE f == Flush(e)
<1>1. OK(e) /\ e \in Engine
  BY DEF Follows, OK
<1>2. OK(f) /\ f.buffer = <<>>
  BY <1>1, FlushKeeps
<1>3. Still(e, f) /\ Unmoved(e, f) /\ Got(f) = Got(e)
  BY <1>1, FlushDoes
<1>4. f.command = e.command
  <2> DEFINE g == Deliver(e, e.buffer)
  <2>1. e.buffer \in Seq(Bytes)
    BY <1>1 DEF Engine
  <2>2. g \in Engine /\ g.command = e.command
    BY <1>1, <2>1, DeliverKeeps DEF Keeps, OK
  <2>3. f = [g EXCEPT !.buffer = <<>>]
    BY DEF Flush
  <2> HIDE DEF f, g
  <2> QED BY <2>2, <2>3 DEF Engine
<1> HIDE DEF f
<1>5. Switched(e, f) /\ f.mode = e.mode
  BY <1>3 DEF Switched, Unmoved
<1>6. ASSUME NEW toks, NEW at, NEW v, NEW p, AgreeAt(s, e, lost, toks, at, v, p)
      PROVE  Follows(s, f, lost)
  <2>1. Sync(f, at, v) /\ Agree(e, toks, at, v, p, lost)
    BY <1>4, <1>5, <1>6 DEF AgreeAt, Agree, Sync
  <2>2. Agree(f, toks, at, v, p, lost)
    BY <1>2, <1>5, <2>1, SwitchAgrees
  <2>3. AgreeAt(s, f, lost, toks, at, v, p)
    BY <1>6, <2>2 DEF AgreeAt
  <2> QED BY <2>3, FollowsFrom, Zenon
<1>7. Follows(s, f, lost)
  <2>1. CASE HasOdd(s)
    BY <1>2, <2>1 DEF Follows
  <2>2. CASE \E toks, at, v, p : AgreeAt(s, e, lost, toks, at, v, p)
    BY <1>6, <2>2
  <2> QED BY <2>1, <2>2 DEF Follows
<1> QED BY <1>2, <1>7 DEF f

\* A segment taken byte by byte.
LEMMA FoldFollows ==
  ASSUME NEW s \in Seq(Bytes), NEW e, NEW lost, Follows(s, e, lost), NEW buf \in Seq(Bytes)
  PROVE  Follows(s \o buf, FoldLeft(Byte, e, buf), lost)
<1>1. PICK f : /\ f[0] = e
               /\ \A n \in 1..Len(buf) : f[n] = Byte(f[n - 1], buf[n])
               /\ FoldLeft(Byte, e, buf) = f[Len(buf)]
  BY FoldBytes DEF Bytes
<1> DEFINE Part(n) == s \o SubSeq(buf, 1, n)
           T == {n \in Nat : n <= Len(buf) => Follows(Part(n), f[n], lost)}
<1>2. Len(buf) \in Nat /\ \A i \in 1..Len(buf) : buf[i] \in Bytes
  BY LenProperties, ElementOfSeq
<1>3. 0 \in T
  <2>1. SubSeq(buf, 1, 0) = <<>> /\ s \o <<>> = s
    BY ConcatEmptySeq
  <2> QED BY <1>1, <2>1
<1>4. ASSUME NEW n \in Nat, n \in T PROVE n + 1 \in T
  <2> SUFFICES ASSUME n + 1 <= Len(buf) PROVE Follows(Part(n + 1), f[n + 1], lost)
    OBVIOUS
  <2> DEFINE c == buf[n + 1]
             b == SubSeq(buf, 1, n)
             o == <<c>>
  <2>1. n + 1 \in 1..Len(buf) /\ (n + 1) - 1 = n /\ n <= Len(buf)
    BY <1>2
  <2>2. c \in Bytes /\ f[n + 1] = Byte(f[n], c)
    BY <1>1, <1>2, <2>1
  <2>3. b \in Seq(Bytes)
    BY <1>2, <2>1, SubSeqProperties
  <2>4. SubSeq(buf, 1, n + 1) = b \o o
    BY PrefixGrows
  <2>5. Follows(s \o b, f[n], lost)
    BY <1>4, <2>1
  <2>6. o \in Seq(Bytes)
    BY <2>2
  <2> HIDE DEF b, o
  <2>7. (s \o b) \o o = s \o (b \o o)
    BY <2>3, <2>6, Regroup, Zenon
  <2>9. s \o b \in Seq(Bytes)
    BY <2>3, Joined, Zenon
  <2>8. Follows((s \o b) \o <<c>>, Byte(f[n], c), lost)
    <3>1. s \o b \in Seq(Bytes)
      BY <2>9
    <3> HIDE DEF c
    <3> QED BY <2>2, <2>5, <3>1, ByteFollows, Zenon
  <2> QED BY <2>2, <2>4, <2>7, <2>8 DEF o
<1> HIDE DEF T
<1>5. \A n \in Nat : n \in T
  BY <1>3, <1>4, Upwards
<1>6. Follows(Part(Len(buf)), f[Len(buf)], lost)
  BY <1>2, <1>5 DEF T
<1>7. SubSeq(buf, 1, Len(buf)) = buf
  OBVIOUS
<1> QED BY <1>1, <1>6, <1>7

\* A run of data adds itself.
LEMMA DataAdds ==
  ASSUME NEW toks \in Seq(Tokens), NEW buf \in Seq(Bytes)
  PROVE  LET more == toks \o AsData(buf)
         IN  /\ AllFit(more) => AllFit(toks)
             /\ Asked(more) <=> Asked(toks)
             /\ WellFormed(more) => WellFormed(toks)
             /\ Of({"data"}, more) = Of({"data"}, toks) \o AsData(buf)
             /\ Each(Wanted, more) = Each(Wanted, toks) /\ Each(Answers, more) = Each(Answers, toks)
<1> DEFINE d == AsData(buf)
           more == toks \o d
           n == Len(toks)
           m == Len(d)
           o == Of({"stray"}, toks)
<1>1. d \in Seq(Tokens) /\ \A i \in 1..m : d[i].t = "data"
  <2>1. d \in Seq(Tokens)
    BY AsDataType
  <2>2. Len(d) = Len(buf) /\ \A i \in 1..Len(buf) : d[i].t = "data"
    BY LenProperties DEF AsData, DataToken
  <2> HIDE DEF d
  <2> QED BY <2>1, <2>2
<1>2. /\ more \in Seq(Tokens) /\ n \in Nat /\ m \in Nat /\ Len(more) = n + m
      /\ \A i \in 1..n + m : more[i] = IF i <= n THEN toks[i] ELSE d[i - n]
  <2> HIDE DEF d
  <2> QED BY <1>1, ConcatProperties
<1>3. /\ Of({"data"}, d) = d /\ Of({"stray"}, d) = <<>>
  BY OfData
<1>4. \A kinds : Of(kinds, more) = Of(kinds, toks) \o Of(kinds, d)
  <2> SUFFICES ASSUME NEW kinds PROVE Of(kinds, more) = Of(kinds, toks) \o Of(kinds, d)
    OBVIOUS
  <2>1. OfBoth(kinds, Tokens)
    BY OfConcat, Zenon
  <2> HIDE DEF d
  <2> QED BY <1>1, <2>1 DEF OfBoth
<1>5. o \in Seq(Tokens)
  BY OfType
<1>6. Each(Wanted, more) = Each(Wanted, toks) /\ Each(Answers, more) = Each(Answers, toks)
  <2>1. \A i \in 1..Len(d) : d[i].t # "sub"
    BY <1>1
  <2> HIDE DEF d
  <2> QED BY <1>1, <2>1, EachQuiet
<1>7. Len(toks) = n /\ DOMAIN toks = 1..n /\ DOMAIN more = 1..n + m
  BY <1>2, LenProperties
<1> HIDE DEF d, more, n, m, o
<1>8. \A i \in 1..n : i \in 1..n + m /\ more[i] = toks[i]
  BY <1>2
<1>9. \A i \in 1..n + m : i \in 1..n \/ more[i].t = "data"
  <2> SUFFICES ASSUME NEW i \in 1..n + m, i \notin 1..n PROVE more[i].t = "data"
    OBVIOUS
  <2>1. i - n \in 1..m /\ ~(i <= n)
    BY <1>2
  <2> QED BY <1>1, <1>2, <2>1
<1>10. AllFit(more) => AllFit(toks)
  BY <1>2, <1>7, <1>8 DEF AllFit
<1>11. Asked(more) <=> Asked(toks)
  BY <1>2, <1>7, <1>8, <1>9 DEF Asked, WantsPort
<1>12. ASSUME WellFormed(more) PROVE WellFormed(toks)
  <2>1. Of({"stray"}, more) = <<>> /\ \A i \in 1..n + m : Sized(more[i])
    BY <1>7, <1>12 DEF WellFormed, Sized
  <2>2. o = <<>>
    BY <1>3, <1>4, <1>5, <2>1, ConcatEmptySeq DEF o
  <2>3. \A i \in 1..n : Sized(toks[i])
    BY <1>8, <2>1
  <2> QED BY <1>7, <2>2, <2>3 DEF WellFormed, Sized, o
<1>13. Of({"data"}, more) = Of({"data"}, toks) \o d
  BY <1>3, <1>4
<1> QED BY <1>6, <1>10, <1>11, <1>12, <1>13 DEF more, d

\* The fast path of a segment in the text.
LEMMA FastText ==
  ASSUME NEW s, NEW e, NEW lost, NEW toks, NEW v, NEW p, AgreeAt(s, e, lost, toks, "text", v, p),
         e.buffer = <<>>, NEW buf \in Seq(Bytes), \A i \in 1..Len(buf) : buf[i] # 255,
         NEW lost2, lost2 <=> lost \/ e.collecting, OK(Deliver(e, buf))
  PROVE  Follows(s \o buf, Deliver(e, buf), lost2)
<1> DEFINE f == Deliver(e, buf)
           u == s \o buf
           d == AsData(buf)
           x == toks \o d
<1>1. Stands(s, toks, "text", v, p) /\ Agree(e, toks, "text", v, p, lost)
  BY DEF AgreeAt
<1>2. OK(e) /\ e \in Engine /\ e.mode = "normal" /\ toks \in Seq(Tokens)
  BY <1>1, StandsType DEF Agree, OK, Sync
<1>3. /\ Still(e, f) /\ Unmoved(e, f) /\ f.buffer = e.buffer
      /\ Heard(f.log) = Heard(e.log) \o d
  BY <1>2, DeliverDoes
<1>4. Stands(u, x, "text", 0, <<>>)
  BY <1>1, TextRun
<1>5. /\ AllFit(x) => AllFit(toks)
      /\ Asked(x) <=> Asked(toks)
      /\ WellFormed(x) => WellFormed(toks)
      /\ Of({"data"}, x) = Of({"data"}, toks) \o d
      /\ Each(Wanted, x) = Each(Wanted, toks) /\ Each(Answers, x) = Each(Answers, toks)
  BY <1>2, DataAdds
<1>6. Got(e) = Heard(e.log) /\ Got(f) = Heard(f.log)
  <2>1. AsData(<<>>) = <<>>
    BY DEF AsData
  <2>2. e.log \in Seq(Logged) /\ f.log \in Seq(Logged)
    BY <1>2, DeliverDoes DEF Engine
  <2>3. Heard(e.log) \in Seq(Logged) /\ Heard(f.log) \in Seq(Logged)
    <3> HIDE DEF f
    <3> QED BY <2>2, OfType DEF Heard
  <2>4. Heard(e.log) \o <<>> = Heard(e.log) /\ Heard(f.log) \o <<>> = Heard(f.log)
    <3> HIDE DEF f
    <3> QED BY <2>3, ConcatEmptySeq
  <2>5. f.buffer = <<>>
    BY <1>3
  <2> HIDE DEF f
  <2>6. Got(e) = Heard(e.log) \o <<>>
    BY <2>1 DEF Got
  <2>7. Got(f) = Heard(f.log) \o <<>>
    BY <2>1, <2>5 DEF Got
  <2> QED BY <2>4, <2>6, <2>7
<1> HIDE DEF f, u, x, d
<1>7. Faithful(e, toks, "text", p, lost) /\ AnnouncedFor(e, toks)
  BY <1>1 DEF Agree
<1>8. Faithful(f, x, "text", <<>>, lost2)
  <2> SUFFICES ASSUME ~lost2, Short(x, "text", <<>>)
               PROVE  /\ Tracks(f, "text", <<>>) /\ Got(f) = Of({"data"}, x)
                      /\ WellFormed(x) => Served(f, x)
    BY DEF Faithful
  <2>1. ~lost /\ ~e.collecting /\ Short(toks, "text", p)
    BY <1>5 DEF Short, Inner
  <2>2. Tracks(f, "text", <<>>)
    BY <1>3, <2>1 DEF Tracks, Inner, Unmoved
  <2>3. Got(e) = Of({"data"}, toks) /\ (WellFormed(toks) => Served(e, toks))
    BY <1>7, <2>1 DEF Faithful
  <2>4. Got(f) = Of({"data"}, x)
    BY <1>3, <1>5, <1>6, <2>3
  <2>5. WellFormed(x) => Served(f, x)
    BY <1>3, <1>5, <2>3 DEF Served, Still
  <2> QED BY <2>2, <2>4, <2>5
<1>9. AnnouncedFor(f, x)
  <2>1. AnnouncedFor(e, x)
    BY <1>5, <1>7 DEF AnnouncedFor
  <2> QED BY <1>3, <2>1, StillAnnounced
<1>10. Sync(f, "text", 0)
  BY <1>2, <1>3 DEF Sync, Unmoved
<1>11. OK(f)
  BY DEF f
<1>12. AgreeAt(u, f, lost2, x, "text", 0, <<>>)
  BY <1>4, <1>8, <1>9, <1>10, <1>11 DEF AgreeAt, Agree
<1>13. Follows(u, f, lost2)
  BY <1>12, FollowsFrom, Zenon
<1> QED BY <1>13 DEF f, u

\* And in a suboption, where the data goes astray: cut says so.
LEMMA FastSub ==
  ASSUME NEW s, NEW e, NEW lost, NEW toks, NEW v, NEW p, AgreeAt(s, e, lost, toks, "sub", v, p),
         NEW buf \in Seq(Bytes), \A i \in 1..Len(buf) : buf[i] # 255,
         NEW lost2, lost2 <=> lost \/ e.collecting, OK(Deliver(e, buf))
  PROVE  Follows(s \o buf, Deliver(e, buf), lost2)
<1> DEFINE f == Deliver(e, buf)
           u == s \o buf
           q == p \o buf
<1>1. Stands(s, toks, "sub", v, p) /\ Agree(e, toks, "sub", v, p, lost)
  BY DEF AgreeAt
<1>2. OK(e) /\ e \in Engine /\ e.mode = "normal" /\ p \in Seq(Bytes)
  BY <1>1, StandsType DEF Agree, OK, Sync
<1>3. Still(e, f) /\ Unmoved(e, f)
  BY <1>2, DeliverDoes
<1>4. Stands(u, toks, "sub", 0, q)
  BY <1>1, SubRun
<1>5. Len(p) \in Nat /\ Len(q) \in Nat /\ Len(p) <= Len(q) /\ SubSize \in Nat
  <2>1. Len(q) = Len(p) + Len(buf) /\ Len(p) \in Nat /\ Len(buf) \in Nat
    BY <1>2, ConcatProperties
  <2> HIDE DEF q
  <2> QED BY <2>1, TelnetAssumption
<1> HIDE DEF f, u, q
<1>6. Faithful(e, toks, "sub", p, lost) /\ AnnouncedFor(e, toks)
  BY <1>1 DEF Agree
<1>7. Faithful(f, toks, "sub", q, lost2)
  <2> SUFFICES ASSUME ~lost2, Short(toks, "sub", q) PROVE FALSE
    BY DEF Faithful
  <2>1. ~lost /\ ~e.collecting /\ Short(toks, "sub", p)
    BY <1>5 DEF Short, Inner
  <2>2. Tracks(e, "sub", p)
    BY <1>6, <2>1 DEF Faithful
  <2> QED BY <2>1, <2>2 DEF Tracks, Inner
<1>8. AnnouncedFor(f, toks)
  BY <1>3, <1>6, StillAnnounced
<1>9. Sync(f, "sub", 0)
  BY <1>2, <1>3 DEF Sync, Unmoved
<1>10. OK(f)
  BY DEF f
<1>11. AgreeAt(u, f, lost2, toks, "sub", 0, q)
  BY <1>4, <1>7, <1>8, <1>9, <1>10 DEF AgreeAt, Agree
<1>12. Follows(u, f, lost2)
  BY <1>11, FollowsFrom, Zenon
<1> QED BY <1>12 DEF f, u

\* A whole segment, by either path.
LEMMA ReceiveFollows ==
  ASSUME NEW s \in Seq(Bytes), NEW e, NEW lost, Follows(s, e, lost), e.buffer = <<>>, NEW buf \in Seq(Bytes),
         NEW lost2, lost2 <=> lost \/ (e.collecting /\ FastPath(e, buf))
  PROVE  Follows(s \o buf, process_received_over_tcp(e, buf), lost2)
<1>1. CASE FastPath(e, buf)
  <2> DEFINE f == Deliver(e, buf)
  <2>1. process_received_over_tcp(e, buf) = f
    BY <1>1 DEF process_received_over_tcp
  <2>2. e.mode = "normal" /\ \A i \in 1..Len(buf) : buf[i] # 255
    BY <1>1 DEF FastPath, Contains, T_IAC
  <2>3. OK(f)
    BY DeliverKeeps DEF Follows, Keeps
  <2>4. lost2 <=> lost \/ e.collecting
    BY <1>1
  <2>5. CASE HasOdd(s)
    <3>1. HasOdd(s \o buf)
      BY <2>5, OddStays
    <3> HIDE DEF f
    <3> QED BY <2>1, <2>3, <3>1 DEF Follows
  <2>6. CASE \E toks, at, v, p : AgreeAt(s, e, lost, toks, at, v, p)
    <3>1. PICK toks, at, v, p : AgreeAt(s, e, lost, toks, at, v, p)
      BY <2>6
    <3>2. at \in {"text", "iac", "verb", "sub", "subiac"} /\ Sync(e, at, v)
      BY <3>1, StandsType DEF AgreeAt, Agree
    <3>3. at = "text" \/ at = "sub"
      BY <2>2, <3>2 DEF Sync
    <3>4. CASE at = "text"
      BY <2>1, <2>2, <2>3, <2>4, <3>1, <3>4, FastText
    <3>5. CASE at = "sub"
      BY <2>1, <2>2, <2>3, <2>4, <3>1, <3>5, FastSub
    <3> QED BY <3>3, <3>4, <3>5
  <2> QED BY <2>5, <2>6 DEF Follows
<1>2. CASE ~FastPath(e, buf)
  <2> DEFINE g == FoldLeft(Byte, e, buf)
  <2>1. process_received_over_tcp(e, buf) = Flush(g)
    BY <1>2 DEF process_received_over_tcp
  <2>2. Follows(s \o buf, g, lost)
    BY FoldFollows
  <2> HIDE DEF g
  <2>3. Follows(s \o buf, Flush(g), lost)
    BY <2>2, FlushFollows
  <2>4. lost2 <=> lost
    BY <1>2
  <2>5. Follows(s \o buf, Flush(g), lost2)
    BY <2>3, <2>4 DEF Follows, AgreeAt, Agree, Faithful
  <2> QED BY <2>1, <2>5
<1> QED BY <1>1, <1>2

LEMMA SendDataFollows ==
  ASSUME NEW s, NEW e, NEW lost, Follows(s, e, lost), NEW data \in Seq(Bytes)
  PROVE  Follows(s, Send(e, Escape(data), AsData(data)), lost)
<1> DEFINE w == Escape(data)
           d == AsData(data)
           f == Send(e, w, d)
<1>1. OK(e) /\ e \in Engine
  BY DEF Follows, OK
<1>2. OK(f)
  BY <1>1, SendDataKeeps DEF Keeps
<1>3. w \in Seq(Bytes) /\ d \in Seq(Said)
  BY EscapeType, AsDataType
<1>4. Of({"sub"}, d) = <<>>
  BY OfData
<1> HIDE DEF w, d
<1>5. Frame(e, f) /\ f.options = e.options /\ f.rfc2217 = e.rfc2217 /\ f.log = e.log /\ f.said = e.said \o d
  BY <1>1, <1>3, SendFrame
<1> HIDE DEF f
<1>6. Replies(f.said) = Replies(e.said)
  <2>1. e.said \in Seq(Said)
    BY <1>1 DEF Engine
  <2>2. OfBoth({"sub"}, Said)
    BY OfConcat, Zenon
  <2>3. Of({"sub"}, e.said \o d) = Of({"sub"}, e.said) \o Of({"sub"}, d) /\ Of({"sub"}, e.said) \in Seq(Said)
    BY <1>3, <2>1, <2>2, OfType DEF OfBoth
  <2> QED BY <1>4, <1>5, <2>3, ConcatEmptySeq DEF Replies
<1>7. Got(f) = Got(e)
  BY <1>5 DEF Got, Frame
<1>8. ASSUME NEW toks, NEW at, NEW v, NEW p, AgreeAt(s, e, lost, toks, at, v, p)
      PROVE  Follows(s, f, lost)
  <2>1. Agree(e, toks, at, v, p, lost)
    BY <1>8 DEF AgreeAt
  <2>2. Sync(f, at, v)
    BY <1>5, <2>1 DEF Agree, Sync, Frame
  <2>3. AnnouncedFor(f, toks)
    BY <1>5, <2>1, AnnouncedSame DEF Agree
  <2>4. Tracks(e, at, p) => Tracks(f, at, p)
    BY <1>5 DEF Tracks, Frame
  <2>5. Served(e, toks) => Served(f, toks)
    BY <1>5, <1>6 DEF Served
  <2>6. Faithful(f, toks, at, p, lost)
    BY <1>7, <2>1, <2>4, <2>5 DEF Agree, Faithful
  <2>7. AgreeAt(s, f, lost, toks, at, v, p)
    BY <1>2, <1>8, <2>2, <2>3, <2>6 DEF AgreeAt, Agree
  <2> QED BY <2>7, FollowsFrom, Zenon
<1>9. Follows(s, f, lost)
  <2>1. CASE HasOdd(s)
    BY <1>2, <2>1 DEF Follows
  <2>2. CASE \E toks, at, v, p : AgreeAt(s, e, lost, toks, at, v, p)
    BY <1>8, <2>2
  <2> QED BY <2>1, <2>2 DEF Follows
<1> QED BY <1>9 DEF f, w, d

\* A client has connected and has said nothing yet.
LEMMA FreshFollows ==
  ASSUME NEW suboption \in [1..SubSize -> Bytes], NEW lost
  PROVE  Follows(<<>>, Fresh(suboption), lost)
<1> DEFINE e == Fresh(suboption)
           none == <<>>
<1>1. OK(e) /\ e.buffer = <<>>
  BY FreshOK
<1>2. e.mode = "normal" /\ ~e.collecting /\ e.log = <<>> /\ e.said = <<>> /\ ~e.rfc2217
  BY DEF Fresh
<1>3. e.options[6] # "active" /\ e.options[7] # "active"
  <2>1. e.options = [i \in DOMAIN option_defs |-> option_defs[i].initial]
    BY DEF Fresh
  <2> HIDE DEF e
  <2>4. DOMAIN option_defs = 1..7
    BY OptionDefs
  <2>2. e.options[6] = option_defs[6].initial /\ e.options[7] = option_defs[7].initial
    BY <2>1, <2>4
  <2>3. option_defs[6].initial = "requested" /\ option_defs[7].initial = "inactive"
    BY OptionDefs DEF OptionDef
  <2> QED BY <2>2, <2>3
<1>4. \A kinds : Of(kinds, <<>>) = <<>>
  BY OfEmpty
<1>5. Each(Wanted, <<>>) = <<>> /\ Each(Answers, <<>>) = <<>>
  <2>1. <<>> \in Seq(Tokens)
    OBVIOUS
  <2> QED BY <2>1, EachIs, SpreadEmpty
<1> HIDE DEF e
<1>6. Got(e) = <<>>
  <2>1. AsData(<<>>) = <<>>
    BY DEF AsData
  <2> QED BY <1>1, <1>2, <1>4, <2>1 DEF Got, Heard
<1>7. Served(e, <<>>)
  BY <1>2, <1>4, <1>5 DEF Served, Calls, Replies
<1>8. Faithful(e, <<>>, "text", <<>>, lost)
  <2>1. Tracks(e, "text", <<>>)
    BY <1>2 DEF Tracks, Inner
  <2>2. Got(e) = Of({"data"}, <<>>)
    BY <1>4, <1>6
  <2> QED BY <1>7, <2>1, <2>2 DEF Faithful
<1>9. AnnouncedFor(e, <<>>)
  <2>1. ~Asked(<<>>)
    BY DEF Asked
  <2>2. Announced(e)
    BY <1>2, <1>3, <1>4 DEF Announced, Greeted, Greets
  <2> QED BY <1>2, <2>1, <2>2 DEF AnnouncedFor
<1>10. Sync(e, "text", 0)
  BY <1>2 DEF Sync
<1>11. Stands(<<>>, <<>>, "text", 0, <<>>)
  BY DecodesEmpty, StandsAt
<1>12. AgreeAt(<<>>, e, lost, <<>>, "text", 0, <<>>)
  BY <1>1, <1>8, <1>9, <1>10, <1>11 DEF AgreeAt, Agree
<1>13. Follows(<<>>, e, lost)
  BY <1>12, FollowsFrom
<1> QED BY <1>13 DEF e

\* The invariant: the engine follows the reader while a client is connected.
Recorded ==
  IF online THEN Follows(seen, tn, cut) ELSE seen = <<>> /\ tn.log = <<>> /\ tn.said = <<>>

LEMMA InitRecorded == Init => Recorded
  BY DEF Init, Recorded, Fresh

LEMMA NextRecorded == IInv /\ Recorded /\ [Next]_vars => Recorded'
<1> SUFFICES ASSUME IInv, Recorded, [Next]_vars PROVE Recorded'
  OBVIOUS
<1>1. /\ tn \in Engine /\ tn.buffer = <<>> /\ seen \in Seq(Bytes) /\ pipe \in Seq(Bytes)
      /\ cut \in BOOLEAN /\ online \in BOOLEAN
  BY DEF IInv, TypeInv
<1>2. CASE Connect
  <2>1. ~online /\ online' /\ seen' = seen /\ cut' = cut /\ tn' = Fresh(tn.suboption)
    BY <1>2 DEF Connect
  <2>2. tn.suboption \in [1..SubSize -> Bytes]
    BY <1>1 DEF Engine
  <2>3. seen' = <<>>
    BY <2>1 DEF Recorded
  <2>4. Follows(<<>>, Fresh(tn.suboption), cut')
    BY <2>2, FreshFollows
  <2> QED BY <2>1, <2>3, <2>4 DEF Recorded
<1>3. CASE Receive
  <2>1. PICK n \in 1..(IF Len(pipe) < RxSize THEN Len(pipe) ELSE RxSize) :
               LET buf == SubSeq(pipe, 1, n)
               IN  /\ tn' = process_received_over_tcp(tn, buf)
                   /\ cut' = (cut \/ (tn.collecting /\ FastPath(tn, buf)))
                   /\ seen' = seen \o buf
    BY <1>3 DEF Receive
  <2> DEFINE buf == SubSeq(pipe, 1, n)
  <2>2. online /\ online' = online
    BY <1>3 DEF Receive
  <2>3. buf \in Seq(Bytes)
    <3>1. Len(pipe) \in Nat /\ RxSize \in Nat
      BY <1>1, TelnetAssumption, LenProperties
    <3>2. n \in Nat /\ n <= Len(pipe)
      BY <3>1
    <3>3. \A i \in 1..n : pipe[i] \in Bytes
      BY <1>1, <3>1, <3>2, ElementOfSeq
    <3> QED BY <1>1, <3>2, <3>3, SubSeqProperties
  <2>4. /\ tn' = process_received_over_tcp(tn, buf) /\ seen' = seen \o buf
        /\ cut' <=> cut \/ (tn.collecting /\ FastPath(tn, buf))
    BY <2>1
  <2> HIDE DEF buf
  <2>5. Follows(seen, tn, cut)
    BY <2>2 DEF Recorded
  <2>6. Follows(seen \o buf, process_received_over_tcp(tn, buf), cut')
    BY <1>1, <2>3, <2>4, <2>5, ReceiveFollows
  <2>7. Follows(seen', tn', cut')
    BY <2>4, <2>6
  <2> QED BY <2>2, <2>7 DEF Recorded
<1>4. CASE SendData
  <2>1. PICK data \in DeviceData :
               tn' = Send(tn, Escape(data), [i \in DOMAIN data |-> DataToken(data[i])])
    BY <1>4 DEF SendData
  <2>2. online /\ online' = online /\ seen' = seen /\ cut' = cut
    BY <1>4 DEF SendData
  <2>3. data \in Seq(Bytes)
    BY TelnetAssumption DEF Bytes
  <2>4. tn' = Send(tn, Escape(data), AsData(data))
    BY <2>1 DEF AsData
  <2>5. Follows(seen, Send(tn, Escape(data), AsData(data)), cut)
    BY <2>2, <2>3, SendDataFollows DEF Recorded
  <2>6. Follows(seen', tn', cut')
    BY <2>2, <2>4, <2>5
  <2> QED BY <2>2, <2>6 DEF Recorded
<1>5. CASE Close
  <2>1. ~online' /\ seen' = <<>> /\ tn' = [tn EXCEPT !.log = <<>>, !.said = <<>>, !.wire = <<>>]
    BY <1>5 DEF Close
  <2>2. tn'.log = <<>> /\ tn'.said = <<>>
    BY <1>1, <2>1 DEF Engine
  <2> QED BY <2>1, <2>2 DEF Recorded
<1>6. CASE UNCHANGED vars
  BY <1>6 DEF vars, Recorded
<1> QED BY <1>2, <1>3, <1>4, <1>5, <1>6 DEF Next

LEMMA SpecRecorded == Spec => [](IInv /\ Recorded)
<1>1. Init => IInv /\ Recorded
  BY InitIInv, InitRecorded
<1>2. IInv /\ Recorded /\ [Next]_vars => (IInv /\ Recorded)'
  BY NextIInv, NextRecorded
<1> QED BY <1>1, <1>2, PTL DEF Spec

-----------------------------------------------------------------------------
(* What a client is promised.                                              *)

\* What the reader has read of the bytes seen, and that the engine agrees with it.
LEMMA ReadSoFar ==
  ASSUME Follows(seen, tn, cut), Doubled
  PROVE  \E toks, at, v, p : AgreeAt(seen, tn, cut, toks, at, v, p)
  BY OddParses DEF Follows, Doubled

\* The suboption that the stream ends in is neither data nor a port command.
LEMMA TrailAdds ==
  ASSUME NEW toks \in Seq(Tokens), NEW at, NEW p \in Seq(Bytes)
  PROVE  LET all == toks \o Trail(at, p)
         IN  /\ all \in Seq(Tokens)
             /\ AllFit(all) <=> Short(toks, at, p)
             /\ Asked(all) <=> Asked(toks)
             /\ WellFormed(all) => WellFormed(toks)
             /\ Of({"data"}, all) = Of({"data"}, toks)
             /\ Each(Wanted, all) = Each(Wanted, toks) /\ Each(Answers, all) = Each(Answers, toks)
<1>1. CASE at \in {"sub", "subiac"}
  <2> DEFINE x == Open(p)
  <2>1. x \in Tokens /\ x.t = "open" /\ x.p = p /\ Carries(x) /\ ~WantsPort(x)
    BY DEF Open, Tokens, Carries, WantsPort
  <2>2. Trail(at, p) = <<x>>
    BY <1>1 DEF Trail
  <2> HIDE DEF x
  <2>3. WantedOf[x] = <<>> /\ AnswersOf[x] = <<>>
    BY <2>1 DEF WantedOf, AnswersOf
  <2> DEFINE u == <<x>>
  <2>4. u \in Seq(Tokens) /\ \A i \in 1..Len(u) : u[i].t # "sub"
    BY <2>1
  <2>5. toks \o <<x>> \in Seq(Tokens)
    BY <2>1, Appended
  <2> HIDE DEF u
  <2>6. Each(Wanted, toks \o u) = Each(Wanted, toks) /\ Each(Answers, toks \o u) = Each(Answers, toks)
    BY <2>4, EachQuiet
  <2>7. /\ AllFit(toks \o <<x>>) <=> Short(toks, at, p)
        /\ Asked(toks \o <<x>>) <=> Asked(toks)
        /\ WellFormed(toks \o <<x>>) => WellFormed(toks)
        /\ Of({"data"}, toks \o <<x>>) = Of({"data"}, toks)
    BY <1>1, <2>1, TokenAdds DEF Short, Inner
  <2> QED BY <2>2, <2>5, <2>6, <2>7 DEF u
<1>2. CASE ~(at \in {"sub", "subiac"})
  <2>1. Trail(at, p) = <<>>
    BY <1>2 DEF Trail
  <2>2. toks \o Trail(at, p) = toks
    BY <2>1, ConcatEmptySeq
  <2>3. AllFit(toks) <=> Short(toks, at, p)
    BY <1>2 DEF Short, Inner
  <2> QED BY <2>2, <2>3
<1> QED BY <1>1, <1>2

LEMMA FitsAre ==
  ASSUME Parse(seen) \in Seq(Tokens)
  PROVE  Fits <=> AllFit(Parse(seen))
<1> DEFINE said == Parse(seen)
<1>1. DOMAIN said = 1..Len(said)
  BY LenProperties
<1> HIDE DEF said
<1>2. Payloads(said) = {said[i].p : i \in {j \in 1..Len(said) : Carries(said[j])}}
  BY <1>1 DEF Payloads, Carries
<1>3. (\A p \in Payloads(said) : Len(p) <= SubSize) <=> AllFit(said)
  BY <1>2 DEF AllFit
<1> QED BY <1>3 DEF Fits, said

\* What the invariant says of a client's whole stream.
LEMMA Promised ==
  ASSUME Follows(seen, tn, cut), tn.buffer = <<>>, Doubled
  PROVE  LET said == Parse(seen)
         IN  /\ Announced(tn) /\ (tn.rfc2217 <=> Asked(said))
             /\ ~cut /\ Fits => Heard(tn.log) = Of({"data"}, said)
             /\ ~cut /\ Fits /\ WellFormed(said) => Served(tn, said)
<1> DEFINE said == Parse(seen)
<1>1. PICK toks, at, v, p : AgreeAt(seen, tn, cut, toks, at, v, p)
  BY ReadSoFar
<1>2. Stands(seen, toks, at, v, p) /\ Agree(tn, toks, at, v, p, cut)
  BY <1>1 DEF AgreeAt
<1>3. toks \in Seq(Tokens) /\ p \in Seq(Bytes) /\ said = toks \o Trail(at, p)
  BY <1>2, StandsType, ParseStands
<1> HIDE DEF said
<1>4. /\ said \in Seq(Tokens)
      /\ AllFit(said) <=> Short(toks, at, p)
      /\ Asked(said) <=> Asked(toks)
      /\ WellFormed(said) => WellFormed(toks)
      /\ Of({"data"}, said) = Of({"data"}, toks)
      /\ Each(Wanted, said) = Each(Wanted, toks) /\ Each(Answers, said) = Each(Answers, toks)
  BY <1>3, TrailAdds
<1>5. Fits => Short(toks, at, p)
  BY <1>4, FitsAre DEF said
<1>6. AnnouncedFor(tn, toks) /\ Faithful(tn, toks, at, p, cut) /\ tn \in Engine
  BY <1>2 DEF Agree, OK
<1>7. Announced(tn) /\ (tn.rfc2217 <=> Asked(said))
  BY <1>4, <1>6 DEF AnnouncedFor
<1>8. Got(tn) = Heard(tn.log)
  <2>1. AsData(<<>>) = <<>>
    BY DEF AsData
  <2>2. Heard(tn.log) \in Seq(Logged)
    <3>1. tn.log \in Seq(Logged)
      BY <1>6 DEF Engine
    <3> QED BY <3>1, OfType DEF Heard
  <2> QED BY <2>1, <2>2, ConcatEmptySeq DEF Got
<1>9. ~cut /\ Fits => Heard(tn.log) = Of({"data"}, said)
  BY <1>4, <1>5, <1>6, <1>8 DEF Faithful
<1>10. ~cut /\ Fits /\ WellFormed(said) => Served(tn, said)
  BY <1>4, <1>5, <1>6 DEF Faithful, Served
<1> QED BY <1>7, <1>9, <1>10 DEF said

\* Between two clients nothing is seen.
LEMMA NothingSeen ==
  ASSUME ~online, Recorded
  PROVE  /\ Parse(seen) = <<>> /\ \A kinds : Of(kinds, tn.log) = <<>> /\ Of(kinds, tn.said) = <<>>
         /\ Each(Wanted, <<>>) = <<>> /\ Each(Answers, <<>>) = <<>>
<1>1. seen = <<>> /\ tn.log = <<>> /\ tn.said = <<>>
  BY DEF Recorded
<1>2. Parse(seen) = <<>>
  BY <1>1, BeginsReads DEF Parse
<1>3. Each(Wanted, <<>>) = <<>> /\ Each(Answers, <<>>) = <<>>
  <2>1. <<>> \in Seq(Tokens)
    OBVIOUS
  <2> QED BY <2>1, EachIs, SpreadEmpty
<1> QED BY <1>1, <1>2, <1>3, OfEmpty

\* However TCP cuts the stream and whatever negotiations and port commands lie between
\* the data, the serial port gets exactly the stream's data, in order and once, of
\* every client whose suboptions fit and are not cut by the fast path (line 389).
THEOREM DataAlwaysUnchanged == Spec => []DataUnchanged
<1>1. IInv /\ Recorded => DataUnchanged
  <2> SUFFICES ASSUME IInv, Recorded, Doubled, ~cut, Fits
               PROVE  Of({"data"}, tn.log) = Of({"data"}, Parse(seen))
    BY DEF DataUnchanged
  <2>1. CASE online
    <3>1. Follows(seen, tn, cut) /\ tn.buffer = <<>>
      BY <2>1 DEF Recorded, IInv, TypeInv
    <3> QED BY <3>1, Promised DEF Heard
  <2>2. CASE ~online
    BY <2>2, NothingSeen, OfEmpty
  <2> QED BY <2>1, <2>2
<1> QED BY <1>1, SpecRecorded, PTL

\* Each port command of such a stream, and nothing else, reaches its callback and is
\* answered, once, in order and with its own bytes, whatever earlier commands and
\* earlier clients have left in suboption.
THEOREM CommandsAlwaysFaithful == Spec => []CommandsFaithful
<1>1. IInv /\ Recorded => CommandsFaithful
  <2> DEFINE said == Parse(seen)
  <2> SUFFICES ASSUME IInv, Recorded, Doubled, ~cut, Fits, WellFormed(said)
               PROVE  /\ Calls(tn.log) = Each(Wanted, said)
                      /\ Replies(tn.said) = Each(Answers, said)
    BY DEF CommandsFaithful, Calls, Replies
  <2>1. CASE online
    <3>1. Follows(seen, tn, cut) /\ tn.buffer = <<>>
      BY <2>1 DEF Recorded, IInv, TypeInv
    <3> QED BY <3>1, Promised DEF Served
  <2>2. CASE ~online
    BY <2>2, NothingSeen DEF Calls, Replies
  <2> QED BY <2>1, <2>2
<1> QED BY <1>1, SpecRecorded, PTL

\* on_client_connected is called once for a client that negotiates the COM port option
\* and never for another, whoever was connected before.
THEOREM ClientAlwaysAnnounced == Spec => []ClientAnnounced
<1>1. IInv /\ Recorded => ClientAnnounced
  <2> DEFINE said == Parse(seen)
             greets == Of({"connected"}, tn.log)
  <2> SUFFICES ASSUME IInv, Recorded, Doubled PROVE ClientAnnounced
    BY DEF ClientAnnounced
  <2>3. SUFFICES Len(greets) = IF Asked(said) THEN 1 ELSE 0
    <3>1. said \in Seq(Tokens)
      BY ReadDef DEF Parse, IInv, TypeInv
    <3> HIDE DEF said
    <3>2. DOMAIN said = 1..Len(said)
      BY <3>1, LenProperties
    <3> QED BY <3>2 DEF ClientAnnounced, Asked, WantsPort, said
  <2>1. CASE online
    <3>1. Follows(seen, tn, cut) /\ tn.buffer = <<>>
      BY <2>1 DEF Recorded, IInv, TypeInv
    <3>2. Announced(tn) /\ (tn.rfc2217 <=> Asked(said))
      BY <3>1, Promised
    <3>3. greets = IF Asked(said) THEN <<[t |-> "connected"]>> ELSE <<>>
      BY <3>2 DEF Announced, Greeted, Greets
    <3> HIDE DEF greets, said
    <3> QED BY <3>3
  <2>2. CASE ~online
    <3>1. said = <<>> /\ greets = <<>>
      BY <2>2, NothingSeen
    <3> HIDE DEF greets, said
    <3> QED BY <3>1 DEF Asked
  <2> QED BY <2>1, <2>2
<1> QED BY <1>1, SpecRecorded, PTL
=============================================================================
