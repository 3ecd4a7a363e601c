------------------------- MODULE Subsequences_proofs -------------------------
(***************************************************************************)
(* Lemmas about sequences that the proofs of the communication paths and   *)
(* of the rule engine rest on.  Those about recursive functions need an    *)
(* induction principle; the one here takes a set, not a predicate.         *)
(***************************************************************************)
EXTENDS Subsequences, SequencesExt, SequenceTheorems, WellFoundedInduction, TLAPS

(* A set that holds 0 and with every number its successor holds them all:    *)
(* otherwise there would be a least number outside.                          *)
LEMMA Induction ==
    ASSUME NEW S, 0 \in S, \A n \in Nat : n \in S => n + 1 \in S
    PROVE  \A n \in Nat : n \in S
<1> DEFINE Outside == {n \in Nat : n \notin S}
           R == OpToRel(<, Nat)
<1> SUFFICES ASSUME Outside # {}
             PROVE  FALSE
  OBVIOUS
<1>1. PICK m \in Outside : \A y \in Outside : <<y, m>> \notin R
  <2>1. IsWellFoundedOn(R, Nat)
    BY NatLessThanWellFounded
  <2>2. Outside \subseteq Nat
    OBVIOUS
  <2> HIDE DEF Outside, R
  <2> QED
    BY <2>1, <2>2, WFMin
<1>2. m - 1 \in Nat /\ m - 1 < m
  OBVIOUS
<1>3. m - 1 \notin Outside
  BY <1>1, <1>2 DEF OpToRel
<1> QED
  BY <1>2, <1>3

(* The same up to a bound.                                                   *)
LEMMA InductionTo ==
    ASSUME NEW N \in Nat, NEW S, 0 \in S, \A n \in 1..N : n - 1 \in S => n \in S
    PROVE  \A n \in 0..N : n \in S
<1> DEFINE T == {n \in Nat : n <= N => n \in S}
<1>1. 0 \in T
  OBVIOUS
<1>2. \A n \in Nat : n \in T => n + 1 \in T
  OBVIOUS
<1> HIDE DEF T
<1>3. \A n \in Nat : n \in T
  BY <1>1, <1>2, Induction
<1> QED
  BY <1>3 DEF T

\* The functions that a recursive definition on 0..N defines.
Solutions(V, N, base, step) ==
    {f \in [0..N -> V] : f[0] = base /\ \A n \in 1..N : f[n] = step[<<n, f[n - 1]>>]}

(* There is one.                                                             *)
LEMMA Recursion ==
    ASSUME NEW V, NEW base \in V, NEW step \in [Nat \X V -> V], NEW N \in Nat
    PROVE  Solutions(V, N, base, step) # {}
<1> DEFINE Solves(f, k) ==
               f[0] = base /\ \A n \in 1..k : f[n] = step[<<n, f[n - 1]>>]
           S == {k \in Nat : \E f \in [0..k -> V] : Solves(f, k)}
<1>1. 0 \in S
  <2>1. Solves([n \in 0..0 |-> base], 0) /\ [n \in 0..0 |-> base] \in [0..0 -> V]
    OBVIOUS
  <2> QED
    BY <2>1
<1>2. ASSUME NEW k \in Nat, k \in S
      PROVE  k + 1 \in S
  <2>1. PICK f \in [0..k -> V] : Solves(f, k)
    BY <1>2
  <2> DEFINE g == [n \in 0..(k + 1) |-> IF n = k + 1 THEN step[<<k + 1, f[k]>>] ELSE f[n]]
  <2>2. step[<<k + 1, f[k]>>] \in V
    OBVIOUS
  <2>3. g \in [0..(k + 1) -> V]
    BY <2>2
  <2>4. g[0] = base
    BY <2>1
  <2>5. ASSUME NEW n \in 1..(k + 1)
        PROVE  g[n] = step[<<n, g[n - 1]>>]
    <3>1. n - 1 \in 0..k /\ g[n - 1] = f[n - 1]
      OBVIOUS
    <3>2. CASE n = k + 1
      <4>1. g[n] = step[<<k + 1, f[k]>>] /\ g[n - 1] = f[k]
        BY <3>1, <3>2
      <4> HIDE DEF g
      <4> QED
        BY <3>2, <4>1
    <3>3. CASE n # k + 1
      <4>1. n \in 1..k /\ g[n] = f[n]
        BY <3>3
      <4> QED
        BY <2>1, <3>1, <4>1
    <3> QED
      BY <3>2, <3>3
  <2> HIDE DEF g
  <2> QED
    BY <2>3, <2>4, <2>5
<1> HIDE DEF S
<1>3. N \in S
  BY <1>1, <1>2, Induction
<1> QED
  BY <1>3 DEF S, Solutions

-----------------------------------------------------------------------------
(* Only(s, C).                                                               *)

\* The function behind it.
Keeps(kept, s, C) ==
    /\ kept[0] = <<>>
    /\ \A n \in 1..Len(s) :
          kept[n] = IF s[n] \in C THEN Append(kept[n - 1], s[n]) ELSE kept[n - 1]

LEMMA OnlyKeeps ==
    ASSUME NEW V, NEW s \in Seq(V), NEW C
    PROVE  \E kept \in [0..Len(s) -> Seq(V)] :
               Keeps(kept, s, C) /\ Only(s, C) = kept[Len(s)]
<1> DEFINE N == Len(s)
           step == [x \in Nat \X Seq(V) |->
                       IF x[1] \in 1..N /\ s[x[1]] \in C THEN Append(x[2], s[x[1]]) ELSE x[2]]
           IsKept(f) == f = [n \in 0..N |-> IF n = 0 THEN <<>>
                                ELSE IF s[n] \in C THEN Append(f[n - 1], s[n]) ELSE f[n - 1]]
           kept == CHOOSE f : IsKept(f)
<1>1. N \in Nat /\ <<>> \in Seq(V)
  OBVIOUS
<1>2. step \in [Nat \X Seq(V) -> Seq(V)]
  <2> SUFFICES ASSUME NEW x \in Nat \X Seq(V)
               PROVE  step[x] \in Seq(V)
    BY Zenon
  <2> QED
    OBVIOUS
<1>3. PICK g \in [0..N -> Seq(V)] :
          g[0] = <<>> /\ \A n \in 1..N : g[n] = step[<<n, g[n - 1]>>]
  <2>1. Solutions(Seq(V), N, <<>>, step) # {}
    <3> HIDE DEF step, N, IsKept, kept
    <3> QED
      BY <1>1, <1>2, Recursion
  <2> QED
    BY <2>1 DEF Solutions
<1>4. ASSUME NEW n \in 1..N
      PROVE  g[n] = IF s[n] \in C THEN Append(g[n - 1], s[n]) ELSE g[n - 1]
  <2>1. n \in Nat /\ g[n - 1] \in Seq(V)
    OBVIOUS
  <2> QED
    BY <1>3, <2>1
<1>5. IsKept(g)
  <2>1. \A n \in 0..N : g[n] = IF n = 0 THEN <<>>
                               ELSE IF s[n] \in C THEN Append(g[n - 1], s[n]) ELSE g[n - 1]
    <3> SUFFICES ASSUME NEW n \in 0..N
                 PROVE  g[n] = IF n = 0 THEN <<>>
                               ELSE IF s[n] \in C THEN Append(g[n - 1], s[n]) ELSE g[n - 1]
      OBVIOUS
    <3>1. n = 0 \/ n \in 1..N
      OBVIOUS
    <3> HIDE DEF N
    <3> QED
      BY <1>3, <1>4, <3>1
  <2> HIDE DEF N
  <2> QED
    BY <2>1, Zenon
<1>6. IsKept(kept)
  BY <1>5, Zenon
<1>7. Only(s, C) = kept[N]
  BY Zenon DEF Only
<1> HIDE DEF kept, step
<1>8. kept[0] = <<>>
  BY <1>6
<1>9. ASSUME NEW n \in 1..N
      PROVE  kept[n] = IF s[n] \in C THEN Append(kept[n - 1], s[n]) ELSE kept[n - 1]
  <2>1. n \in 0..N /\ n # 0
    OBVIOUS
  <2> HIDE DEF N
  <2> QED
    BY <1>6, <2>1, Zenon
<1>10. \A n \in 0..N : kept[n] \in Seq(V)
  <2> DEFINE S == {n \in 0..N : kept[n] \in Seq(V)}
  <2>1. 0 \in S
    BY <1>8
  <2>2. ASSUME NEW n \in 1..N, n - 1 \in S
        PROVE  n \in S
    <3>1. kept[n - 1] \in Seq(V) /\ s[n] \in V /\ n \in 0..N
      BY <2>2
    <3>2. kept[n] \in Seq(V)
      <4>1. Append(kept[n - 1], s[n]) \in Seq(V)
        BY <3>1
      <4> QED
        BY <1>9, <3>1, <4>1, Zenon
    <3> QED
      BY <3>1, <3>2
  <2> HIDE DEF S
  <2>3. \A n \in 0..N : n \in S
    BY <1>1, <2>1, <2>2, InductionTo
  <2> QED
    BY <2>3 DEF S
<1>11. kept \in [0..N -> Seq(V)]
  BY <1>6, <1>10
<1> QED
  BY <1>7, <1>8, <1>9, <1>11 DEF Keeps

LEMMA OnlyOfEmpty ==
    ASSUME NEW C
    PROVE  Only(<<>>, C) = <<>>
<1>1. <<>> \in Seq({}) /\ Len(<<>>) = 0
  OBVIOUS
<1>2. PICK kept \in [0..Len(<<>>) -> Seq({})] :
          Keeps(kept, <<>>, C) /\ Only(<<>>, C) = kept[Len(<<>>)]
  BY <1>1, OnlyKeeps
<1> QED
  BY <1>1, <1>2 DEF Keeps

LEMMA OnlyIsSeq ==
    ASSUME NEW V, NEW s \in Seq(V), NEW C
    PROVE  Only(s, C) \in Seq(V)
  BY OnlyKeeps

LEMMA OnlyOfAppend ==
    ASSUME NEW V, NEW s \in Seq(V), NEW x \in V, NEW C
    PROVE  Only(Append(s, x), C) = IF x \in C THEN Append(Only(s, C), x) ELSE Only(s, C)
<1> DEFINE t == Append(s, x)
<1>1. t \in Seq(V) /\ Len(t) = Len(s) + 1 /\ t[Len(t)] = x
      /\ \A n \in 1..Len(s) : t[n] = s[n]
  OBVIOUS
<1>2. PICK f \in [0..Len(s) -> Seq(V)] : Keeps(f, s, C) /\ Only(s, C) = f[Len(s)]
  BY OnlyKeeps
<1>3. PICK g \in [0..Len(t) -> Seq(V)] : Keeps(g, t, C) /\ Only(t, C) = g[Len(t)]
  BY <1>1, OnlyKeeps
<1> HIDE DEF t
<1>4. \A n \in 0..Len(s) : g[n] = f[n]
  <2> DEFINE S == {n \in 0..Len(s) : g[n] = f[n]}
  <2>1. 0 \in S
    BY <1>2, <1>3 DEF Keeps
  <2>2. ASSUME NEW n \in 1..Len(s), n - 1 \in S
        PROVE  n \in S
    <3>1. n \in 1..Len(t) /\ t[n] = s[n] /\ g[n - 1] = f[n - 1]
      BY <1>1, <2>2
    <3> QED
      BY <1>2, <1>3, <3>1 DEF Keeps
  <2> HIDE DEF S
  <2>3. Len(s) \in Nat
    OBVIOUS
  <2>4. \A n \in 0..Len(s) : n \in S
    BY <2>1, <2>2, <2>3, InductionTo
  <2> QED
    BY <2>4 DEF S
<1>5. Len(t) \in 1..Len(t) /\ Len(t) - 1 = Len(s) /\ Len(s) \in 0..Len(s)
  BY <1>1
<1>6. Only(t, C) = IF x \in C THEN Append(g[Len(s)], x) ELSE g[Len(s)]
  BY <1>1, <1>3, <1>5 DEF Keeps
<1> QED
  BY <1>2, <1>4, <1>5, <1>6 DEF t

\* A name for the equation: cited as a formula, the provers do not find it.
Joins(p, q, x) == Append(p \o q, x) = p \o Append(q, x)

Regroups(p, q, r) == (p \o q) \o r = p \o (q \o r)

LEMMA ConcatRegroups ==
    ASSUME NEW V, NEW p \in Seq(V), NEW q \in Seq(V), NEW r \in Seq(V)
    PROVE  Regroups(p, q, r)
  BY DEF Regroups

LEMMA AppendToConcat ==
    ASSUME NEW V, NEW p \in Seq(V), NEW q \in Seq(V), NEW x \in V
    PROVE  Joins(p, q, x)
  BY DEF Joins

\* Induction on the second sequence.
LEMMA OnlyOfConcat ==
    ASSUME NEW V, NEW s \in Seq(V), NEW t \in Seq(V), NEW C
    PROVE  Only(s \o t, C) = Only(s, C) \o Only(t, C)
<1> DEFINE S == {n \in Nat : \A u \in Seq(V) :
                    Len(u) = n => Only(s \o u, C) = Only(s, C) \o Only(u, C)}
<1>1. 0 \in S
  <2> SUFFICES ASSUME NEW u \in Seq(V), Len(u) = 0
               PROVE  Only(s \o u, C) = Only(s, C) \o Only(u, C)
    OBVIOUS
  <2>1. u = <<>> /\ s \o u = s
    OBVIOUS
  <2> QED
    BY <2>1, OnlyOfEmpty, OnlyIsSeq
<1>2. ASSUME NEW n \in Nat, n \in S
      PROVE  n + 1 \in S
  <2> SUFFICES ASSUME NEW u \in Seq(V), Len(u) = n + 1
               PROVE  Only(s \o u, C) = Only(s, C) \o Only(u, C)
    OBVIOUS
  <2>1. PICK v \in Seq(V), x \in V : u = Append(v, x)
    BY SequenceEmptyOrAppend, SMTT(30)
  <2>2. Len(v) = n /\ s \o v \in Seq(V) /\ s \o u = Append(s \o v, x)
    BY <2>1
  <2>3. Only(s \o v, C) = Only(s, C) \o Only(v, C)
    BY <1>2, <2>2
  <2>4. Only(s \o u, C) = IF x \in C THEN Append(Only(s \o v, C), x) ELSE Only(s \o v, C)
    <3> DEFINE w == s \o v
    <3>1. w \in Seq(V) /\ s \o u = Append(w, x)
      BY <2>2
    <3> HIDE DEF w
    <3>2. Only(Append(w, x), C) = IF x \in C THEN Append(Only(w, C), x) ELSE Only(w, C)
      BY <3>1, OnlyOfAppend
    <3> QED
      BY <3>1, <3>2 DEF w
  <2>5. Only(u, C) = IF x \in C THEN Append(Only(v, C), x) ELSE Only(v, C)
    BY <2>1, OnlyOfAppend
  <2>6. Only(s, C) \in Seq(V) /\ Only(v, C) \in Seq(V)
    BY OnlyIsSeq
  <2>7. Append(Only(s, C) \o Only(v, C), x) = Only(s, C) \o Append(Only(v, C), x)
    <3>1. Joins(Only(s, C), Only(v, C), x)
      BY <2>6, AppendToConcat
    <3> QED
      BY <3>1 DEF Joins
  <2> QED
    BY <2>3, <2>4, <2>5, <2>7, Zenon
<1> HIDE DEF S
<1>3. Len(t) \in S
  BY <1>1, <1>2, Induction
<1> QED
  BY <1>3 DEF S

\* Induction on the sequence.
LEMMA OnlyOfOnly ==
    ASSUME NEW V, NEW s \in Seq(V), NEW C, NEW D, C \subseteq D
    PROVE  Only(Only(s, D), C) = Only(s, C)
<1> DEFINE S == {n \in Nat : \A u \in Seq(V) : Len(u) = n => Only(Only(u, D), C) = Only(u, C)}
<1>1. 0 \in S
  <2> SUFFICES ASSUME NEW u \in Seq(V), Len(u) = 0
               PROVE  Only(Only(u, D), C) = Only(u, C)
    OBVIOUS
  <2>1. u = <<>>
    OBVIOUS
  <2> QED
    BY <2>1, OnlyOfEmpty
<1>2. ASSUME NEW n \in Nat, n \in S
      PROVE  n + 1 \in S
  <2> SUFFICES ASSUME NEW u \in Seq(V), Len(u) = n + 1
               PROVE  Only(Only(u, D), C) = Only(u, C)
    OBVIOUS
  <2>1. PICK v \in Seq(V), x \in V : u = Append(v, x)
    <3>1. u # <<>>
      OBVIOUS
    <3> QED
      BY <3>1, SequenceEmptyOrAppend, Zenon
  <2>2. Len(v) = n
    BY <2>1
  <2>3. Only(Only(v, D), C) = Only(v, C)
    BY <1>2, <2>2
  <2>4. Only(u, C) = IF x \in C THEN Append(Only(v, C), x) ELSE Only(v, C)
    BY <2>1, OnlyOfAppend
  <2>5. Only(u, D) = IF x \in D THEN Append(Only(v, D), x) ELSE Only(v, D)
    BY <2>1, OnlyOfAppend
  <2>6. Only(Append(Only(v, D), x), C) =
           IF x \in C THEN Append(Only(Only(v, D), C), x) ELSE Only(Only(v, D), C)
    BY OnlyIsSeq, OnlyOfAppend
  <2> QED
    BY <2>3, <2>4, <2>5, <2>6, Zenon
<1> HIDE DEF S
<1>3. Len(s) \in S
  BY <1>1, <1>2, Induction
<1> QED
  BY <1>3 DEF S

-----------------------------------------------------------------------------
(* LeftOf(q, s).                                                             *)

\* at shows where in s the elements of q are.
Places(at, q, s) ==
    /\ at \in [DOMAIN q -> DOMAIN s]
    /\ \A i \in DOMAIN q : q[i] = s[at[i]]
    /\ \A i, j \in DOMAIN q : i < j => at[i] < at[j]

LEMMA LeftOfPlaces ==
    ASSUME NEW V, NEW q \in Seq(V), NEW s \in Seq(V)
    PROVE  LeftOf(q, s) <=> \E at : Places(at, q, s)
<1>1. Places([i \in DOMAIN q |-> i], q, q)
  BY DEF Places
<1>2. ASSUME LeftOf(q, s)
      PROVE  \E at : Places(at, q, s)
  BY <1>1, <1>2 DEF LeftOf, Places
<1>3. ASSUME NEW at, Places(at, q, s)
      PROVE  LeftOf(q, s)
  BY <1>3 DEF LeftOf, Places
<1> QED
  BY <1>2, <1>3

LEMMA LeftOfSelf == \A s : LeftOf(s, s)
  BY DEF LeftOf

LEMMA LeftOfTransitive ==
    ASSUME NEW V, NEW p \in Seq(V), NEW q \in Seq(V), NEW s \in Seq(V),
           LeftOf(p, q), LeftOf(q, s)
    PROVE  LeftOf(p, s)
<1>1. PICK f : Places(f, p, q)
  BY LeftOfPlaces
<1>2. PICK g : Places(g, q, s)
  BY LeftOfPlaces
<1>3. Places([i \in DOMAIN p |-> g[f[i]]], p, s)
  BY <1>1, <1>2 DEF Places
<1> QED
  BY <1>3, LeftOfPlaces

LEMMA LeftOfConcat ==
    ASSUME NEW V, NEW q \in Seq(V), NEW s \in Seq(V), NEW r \in Seq(V), NEW t \in Seq(V),
           LeftOf(q, s), LeftOf(r, t)
    PROVE  LeftOf(q \o r, s \o t)
<1>1. PICK f : Places(f, q, s)
  BY LeftOfPlaces
<1>2. PICK g : Places(g, r, t)
  BY LeftOfPlaces
<1> DEFINE m == Len(q)
           k == Len(s)
           at == [i \in DOMAIN (q \o r) |-> IF i <= m THEN f[i] ELSE k + g[i - m]]
<1>3. /\ m \in Nat /\ k \in Nat /\ Len(r) \in Nat /\ Len(t) \in Nat
      /\ DOMAIN q = 1..m /\ DOMAIN s = 1..k
      /\ DOMAIN r = 1..Len(r) /\ DOMAIN t = 1..Len(t)
      /\ DOMAIN (q \o r) = 1..(m + Len(r)) /\ DOMAIN (s \o t) = 1..(k + Len(t))
  OBVIOUS
<1>4. ASSUME NEW i \in DOMAIN (q \o r)
      PROVE  IF i <= m THEN i \in DOMAIN q /\ at[i] = f[i] /\ at[i] \in 1..k
             ELSE i - m \in DOMAIN r /\ at[i] = k + g[i - m] /\ at[i] \in (k + 1)..(k + Len(t))
  <2>1. i \in 1..(m + Len(r))
    BY <1>3
  <2>2. CASE i <= m
    BY <1>1, <1>3, <2>1, <2>2 DEF Places
  <2>3. CASE ~(i <= m)
    <3>1. i - m \in DOMAIN r
      BY <1>3, <2>1, <2>3
    <3>2. g[i - m] \in 1..Len(t)
      BY <1>2, <1>3, <3>1 DEF Places
    <3> QED
      BY <1>3, <2>3, <3>1, <3>2
  <2> QED
    BY <2>2, <2>3
<1>5. ASSUME NEW i \in DOMAIN (q \o r)
      PROVE  (q \o r)[i] = (s \o t)[at[i]]
  <2>1. CASE i <= m
    <3>1. (q \o r)[i] = q[i] /\ q[i] = s[f[i]]
      BY <1>1, <1>4, <2>1 DEF Places
    <3>2. (s \o t)[at[i]] = s[at[i]] /\ at[i] = f[i]
      BY <1>3, <1>4, <2>1
    <3> QED
      BY <3>1, <3>2
  <2>2. CASE ~(i <= m)
    <3>1. (q \o r)[i] = r[i - m] /\ r[i - m] = t[g[i - m]]
      BY <1>2, <1>4, <2>2 DEF Places
    <3>2. g[i - m] \in 1..Len(t)
      BY <1>2, <1>3, <1>4, <2>2 DEF Places
    <3>3. (s \o t)[k + g[i - m]] = t[g[i - m]]
      BY <1>3, <3>2, SMTT(30)
    <3> QED
      BY <1>4, <2>2, <3>1, <3>3
  <2> QED
    BY <2>1, <2>2
<1>6. ASSUME NEW i \in DOMAIN (q \o r), NEW j \in DOMAIN (q \o r), i < j
      PROVE  at[i] < at[j]
  <2>0. i \in Int /\ j \in Int
    BY <1>3
  <2>1. CASE j <= m
    <3>1. i <= m
      BY <1>3, <1>6, <2>0, <2>1
    <3>2. i \in DOMAIN q /\ j \in DOMAIN q /\ at[i] = f[i] /\ at[j] = f[j]
      BY <1>4, <2>1, <3>1
    <3> QED
      BY <1>1, <1>6, <3>2 DEF Places
  <2>2. CASE i <= m /\ ~(j <= m)
    <3>1. at[i] \in 1..k /\ at[j] \in (k + 1)..(k + Len(t))
      BY <1>4, <2>2
    <3> QED
      BY <1>3, <3>1, SMTT(30)
  <2>3. CASE ~(i <= m) /\ ~(j <= m)
    <3>1. /\ i - m \in DOMAIN r /\ j - m \in DOMAIN r
          /\ at[i] = k + g[i - m] /\ at[j] = k + g[j - m]
      BY <1>4, <2>3
    <3>2. i - m < j - m
      BY <1>3, <1>6, <2>0
    <3>3. g[i - m] < g[j - m]
      BY <1>2, <3>1, <3>2 DEF Places
    <3>4. g[i - m] \in 1..Len(t) /\ g[j - m] \in 1..Len(t)
      BY <1>2, <1>3, <3>1 DEF Places
    <3> QED
      BY <1>3, <3>1, <3>3, <3>4, SMTT(30)
  <2> QED
    BY <2>1, <2>2, <2>3
<1>7. at \in [DOMAIN (q \o r) -> DOMAIN (s \o t)]
  <2>1. ASSUME NEW i \in DOMAIN (q \o r)
        PROVE  at[i] \in DOMAIN (s \o t)
    BY <1>3, <1>4
  <2> QED
    BY <2>1
<1> HIDE DEF at, m, k
<1>8. Places(at, q \o r, s \o t)
  BY <1>5, <1>6, <1>7 DEF Places
<1>9. q \o r \in Seq(V) /\ s \o t \in Seq(V)
  OBVIOUS
<1> QED
  BY <1>8, <1>9, LeftOfPlaces

LEMMA LeftOfSubSeq ==
    ASSUME NEW V, NEW s \in Seq(V), NEW m \in 1..(Len(s) + 1), NEW n \in (m - 1)..Len(s)
    PROVE  LeftOf(SubSeq(s, m, n), s)
<1> DEFINE q == SubSeq(s, m, n)
<1>1. q \in Seq(V) /\ Len(q) = n - m + 1 /\ \A i \in 1..Len(q) : q[i] = s[m + i - 1]
  OBVIOUS
<1> DEFINE at == [i \in DOMAIN q |-> m + i - 1]
<1>2. DOMAIN q = 1..(n - m + 1) /\ DOMAIN s = 1..Len(s)
  BY <1>1
<1> HIDE DEF q
<1>3. Places(at, q, s)
  BY <1>1, <1>2 DEF Places
<1>4. LeftOf(q, s)
  BY <1>1, <1>3, LeftOfPlaces
<1> QED
  BY <1>4 DEF q

LEMMA LeftOfEmpty ==
    ASSUME NEW V, NEW s \in Seq(V)
    PROVE  LeftOf(<<>>, s)
<1>1. SubSeq(s, 1, 0) = <<>> /\ 1 \in 1..(Len(s) + 1) /\ 0 \in (1 - 1)..Len(s)
  OBVIOUS
<1>2. LeftOf(SubSeq(s, 1, 0), s)
  BY <1>1, LeftOfSubSeq
<1> QED
  BY <1>1, <1>2, Zenon
\* What Only keeps is left of the sequence, and is in the set.
LEMMA OnlyIsLeft ==
    ASSUME NEW V, NEW s \in Seq(V), NEW C
    PROVE  LeftOf(Only(s, C), s) /\ \A i \in DOMAIN Only(s, C) : Only(s, C)[i] \in C
<1> DEFINE P(u) == LeftOf(Only(u, C), u) /\ \A i \in DOMAIN Only(u, C) : Only(u, C)[i] \in C
           S == {n \in Nat : \A u \in Seq(V) : Len(u) = n => P(u)}
<1>1. 0 \in S
  <2> SUFFICES ASSUME NEW u \in Seq(V), Len(u) = 0
               PROVE  P(u)
    OBVIOUS
  <2>1. u = <<>>
    OBVIOUS
  <2> QED
    BY <2>1, OnlyOfEmpty, LeftOfSelf
<1>2. ASSUME NEW n \in Nat, n \in S
      PROVE  n + 1 \in S
  <2> SUFFICES ASSUME NEW u \in Seq(V), Len(u) = n + 1
               PROVE  P(u)
    OBVIOUS
  <2>1. PICK v \in Seq(V), x \in V : u = Append(v, x)
    <3>1. u # <<>>
      OBVIOUS
    <3> QED
      BY <3>1, SequenceEmptyOrAppend, Zenon
  <2>2. P(v)
    BY <1>2, <2>1
  <2>3. Only(u, C) = IF x \in C THEN Append(Only(v, C), x) ELSE Only(v, C)
    BY <2>1, OnlyOfAppend
  <2>4. Only(v, C) \in Seq(V)
    BY OnlyIsSeq
  <2> HIDE DEF P
  <2>5. CASE x \in C
    <3> DEFINE q == Only(v, C)
    <3>1. LeftOf(q \o <<x>>, v \o <<x>>)
      <4>1. LeftOf(q, v) /\ LeftOf(<<x>>, <<x>>) /\ q \in Seq(V) /\ <<x>> \in Seq(V)
        BY <2>2, <2>4, LeftOfSelf DEF P
      <4> HIDE DEF q
      <4> QED
        BY <4>1, LeftOfConcat
    <3>2. /\ q \in Seq(V) /\ \A i \in DOMAIN q : q[i] \in C
          /\ Only(u, C) = Append(q, x)
      BY <2>2, <2>3, <2>4, <2>5 DEF P
    <3> HIDE DEF q
    <3>3. Append(q, x) = q \o <<x>> /\ Append(v, x) = v \o <<x>>
      BY <3>2
    <3>4. \A i \in DOMAIN Append(q, x) : Append(q, x)[i] \in C
      BY <2>5, <3>2
    <3> QED
      BY <2>1, <3>1, <3>2, <3>3, <3>4 DEF P
  <2>6. CASE x \notin C
    <3>1. Only(u, C) = Only(v, C)
      BY <2>3, <2>6
    <3>2. LeftOf(Only(v, C) \o <<>>, v \o <<x>>)
      <4>1. <<x>> \in Seq(V) /\ <<>> \in Seq(V)
        OBVIOUS
      <4>2. LeftOf(Only(v, C), v) /\ LeftOf(<<>>, <<x>>)
        BY <2>2, <4>1, LeftOfEmpty DEF P
      <4> QED
        BY <2>4, <4>1, <4>2, LeftOfConcat
    <3>3. Only(v, C) \o <<>> = Only(v, C) /\ Append(v, x) = v \o <<x>>
      BY <2>4
    <3> QED
      BY <2>1, <2>2, <3>1, <3>2, <3>3 DEF P
  <2> QED
    BY <2>5, <2>6
<1> HIDE DEF S, P
<1>3. Len(s) \in S
  BY <1>1, <1>2, Induction
<1> QED
  BY <1>3 DEF S, P

LEMMA LeftOfTail ==
    ASSUME NEW V, NEW s \in Seq(V), s # <<>>
    PROVE  LeftOf(Tail(s), s)
<1>1. SubSeq(s, 2, Len(s)) = Tail(s)
  OBVIOUS
<1>2. 2 \in 1..(Len(s) + 1) /\ Len(s) \in (2 - 1)..Len(s)
  OBVIOUS
<1>3. LeftOf(SubSeq(s, 2, Len(s)), s)
  BY <1>2, LeftOfSubSeq
<1> QED
  BY <1>1, <1>3, Zenon

-----------------------------------------------------------------------------
(* The steps of a channel.                                                   *)

\* Sent grows from s to t, and r is left on the way, where q was.
Sends(s, t, q, r) == IsStrictPrefix(s, t) /\ LeftOf(r, q \o SubSeq(t, Len(s) + 1, Len(t)))

\* e arrives, and r is left on the way, where q was.
Delivers(q, r, e) == \E i \in DOMAIN q : e = q[i] /\ LeftOf(r, SubSeq(q, i + 1, Len(q)))

LEMMA SendsOne ==
    ASSUME NEW V, NEW s \in Seq(V), NEW q \in Seq(V), NEW e \in V, NEW r,
           LeftOf(r, q \o <<e>>)
    PROVE  Sends(s, Append(s, e), q, r)
<1> DEFINE t == Append(s, e)
<1>1. t \in Seq(V) /\ Len(t) = Len(s) + 1 /\ t[Len(t)] = e /\ SubSeq(t, 1, Len(s)) = s
  OBVIOUS
<1>2. SubSeq(s, 1, Len(s)) = s
  OBVIOUS
<1>3. IsStrictPrefix(s, t)
  <2> HIDE DEF t
  <2> QED
    BY <1>1, <1>2 DEF IsStrictPrefix, IsPrefix
<1>4. SubSeq(t, Len(s) + 1, Len(t)) = <<e>>
  <2> DEFINE u == SubSeq(t, Len(s) + 1, Len(t))
  <2>1. u \in Seq(V) /\ Len(u) = 1 /\ u[1] = e
    <3> HIDE DEF t
    <3> QED
      BY <1>1
  <2> HIDE DEF u
  <2> u = <<e>>
    BY <2>1
  <2> QED
    BY DEF u
<1> QED
  BY <1>3, <1>4 DEF Sends

LEMMA DeliversFirst ==
    ASSUME NEW V, NEW p \in Seq(V), NEW r \in Seq(V), p # <<>>
    PROVE  Delivers(p \o r, r, p[1])
<1> DEFINE q == p \o r
           rest == SubSeq(q, 2, Len(q))
<1>1. 1 \in DOMAIN q /\ q[1] = p[1] 
  OBVIOUS
<1>2. rest = Tail(p) \o r
  OBVIOUS
<1>3. Tail(p) \in Seq(V) /\ r \in Seq(V) /\ <<>> \o r = r
  OBVIOUS
<1>4. LeftOf(<<>>, Tail(p)) /\ LeftOf(r, r)
  BY <1>3, LeftOfEmpty, LeftOfSelf
<1>5. LeftOf(<<>> \o r, Tail(p) \o r)
  <2>1. <<>> \in Seq(V)
    OBVIOUS
  <2> QED
    BY <2>1, <1>3, <1>4, LeftOfConcat
<1>6. LeftOf(r, rest)
  BY <1>2, <1>3, <1>5, Zenon
<1> QED
  BY <1>1, <1>6 DEF Delivers

Count(n) == [i \in 1..n |-> i]

LEMMA CountGrows ==
    ASSUME NEW n \in Nat
    PROVE  Count(n) \in Seq(Nat) /\ Count(n + 1) = Append(Count(n), n + 1)
  BY DEF Count

LEMMA SendsNext ==
    ASSUME NEW n \in Nat, NEW q \in Seq(Nat), NEW r, LeftOf(r, q \o <<n + 1>>)
    PROVE  Sends(Count(n), Count(n + 1), q, r)
<1>1. n + 1 \in Nat
  OBVIOUS
<1>2. Count(n) \in Seq(Nat) /\ Count(n + 1) = Append(Count(n), n + 1)
  BY CountGrows, Zenon
<1>3. Sends(Count(n), Append(Count(n), n + 1), q, r)
  BY <1>1, <1>2, SendsOne
<1> QED
  BY <1>2, <1>3, Zenon

\* The message in front arrives, or is lost.
LEMMA HeadLeaves ==
    ASSUME NEW V, NEW e \in V, NEW q \in Seq(V)
    PROVE  LeftOf(q, <<e>> \o q) /\ Delivers(<<e>> \o q, q, e)
<1>1. /\ <<e>> \in Seq(V) /\ <<e>> # <<>> /\ <<e>>[1] = e
      /\ Tail(<<e>> \o q) = q /\ <<e>> \o q \in Seq(V) /\ <<e>> \o q # <<>>
  OBVIOUS
<1>2. Delivers(<<e>> \o q, q, <<e>>[1])
  BY <1>1, DeliversFirst
<1>3. LeftOf(Tail(<<e>> \o q), <<e>> \o q)
  BY <1>1, LeftOfTail
<1> QED
  BY <1>1, <1>2, <1>3, Zenon

\* Several messages are sent at once.
LEMMA SendsSeveral ==
    ASSUME NEW V, NEW s \in Seq(V), NEW q \in Seq(V), NEW new \in Seq(V), new # <<>>, NEW r,
           LeftOf(r, q \o new)
    PROVE  Sends(s, s \o new, q, r)
<1> DEFINE t == s \o new
<1>1. t \in Seq(V) /\ Len(t) = Len(s) + Len(new) /\ Len(new) >= 1 /\ SubSeq(t, 1, Len(s)) = s
  OBVIOUS
<1>2. IsStrictPrefix(s, t)
  <2> HIDE DEF t
  <2>1. Len(s) <= Len(t) /\ s # t
    BY <1>1
  <2> QED
    BY <1>1, <2>1 DEF IsStrictPrefix, IsPrefix
<1>3. SubSeq(t, Len(s) + 1, Len(t)) = new
  <2> DEFINE u == SubSeq(t, Len(s) + 1, Len(t))
  <2>1. u \in Seq(V) /\ Len(u) = Len(new) /\ \A i \in 1..Len(new) : u[i] = new[i]
    OBVIOUS
  <2> HIDE DEF u
  <2>2. u = new
    BY <2>1
  <2> QED
    BY <2>2 DEF u
<1> QED
  BY <1>2, <1>3 DEF Sends

\* Four stretches of a way, each of which may lose something.
LEMMA LeftOfFour ==
    ASSUME NEW V, NEW a \in Seq(V), NEW b \in Seq(V), NEW c \in Seq(V), NEW d \in Seq(V),
           NEW p \in Seq(V), NEW q \in Seq(V), NEW r \in Seq(V), NEW s \in Seq(V),
           LeftOf(p, a), LeftOf(q, b), LeftOf(r, c), LeftOf(s, d)
    PROVE  LeftOf(p \o q \o r \o s, a \o b \o c \o d)
<1>1. \A u, v \in Seq(V) : u \o v \in Seq(V)
  OBVIOUS
<1>2. \A u, v, w, x \in Seq(V) : LeftOf(u, w) /\ LeftOf(v, x) => LeftOf(u \o v, w \o x)
  BY LeftOfConcat
<1>3. LeftOf(p \o q, a \o b) /\ p \o q \in Seq(V) /\ a \o b \in Seq(V)
  BY <1>1, <1>2, Zenon
<1>4. LeftOf(p \o q \o r, a \o b \o c) /\ p \o q \o r \in Seq(V) /\ a \o b \o c \in Seq(V)
  BY <1>1, <1>2, <1>3, Zenon
<1> QED
  BY <1>2, <1>4, Zenon

-----------------------------------------------------------------------------
(* Of the elements in C, what f says of them.                                *)

Each(s, f) == [i \in DOMAIN s |-> f[s[i]]]
Labels(s, C, f) == Each(Only(s, C), f)

LEMMA EachIsSeq ==
    ASSUME NEW V, NEW W, NEW f \in [V -> W], NEW s \in Seq(V)
    PROVE  Each(s, f) \in Seq(W) /\ Len(Each(s, f)) = Len(s)
  BY DEF Each

LEMMA EachOfConcat ==
    ASSUME NEW V, NEW W, NEW f \in [V -> W], NEW s \in Seq(V), NEW t \in Seq(V)
    PROVE  Each(s \o t, f) = Each(s, f) \o Each(t, f)
<1> DEFINE e == Each(s, f)
           g == Each(t, f)
           h == Each(s \o t, f)
<1>1. s \o t \in Seq(V) /\ Len(s \o t) = Len(s) + Len(t)
  OBVIOUS
<1>2. /\ e \in Seq(W) /\ Len(e) = Len(s) /\ g \in Seq(W) /\ Len(g) = Len(t)
      /\ h \in Seq(W) /\ Len(h) = Len(s) + Len(t)
  <2>1. \A u \in Seq(V) : Each(u, f) \in Seq(W) /\ Len(Each(u, f)) = Len(u)
    BY EachIsSeq, ZenonT(60)
  <2> QED
    BY <1>1, <2>1, Zenon
<1>3. /\ \A i \in 1..Len(s) : e[i] = f[s[i]]
      /\ \A i \in 1..Len(t) : g[i] = f[t[i]]
      /\ \A i \in 1..Len(s) + Len(t) : h[i] = f[(s \o t)[i]]
  BY <1>1 DEF Each
<1>4. \A i \in 1..Len(s) + Len(t) : (s \o t)[i] = IF i <= Len(s) THEN s[i] ELSE t[i - Len(s)]
  OBVIOUS
<1> HIDE DEF e, g, h
<1>5. \A i \in 1..Len(s) + Len(t) : h[i] = IF i <= Len(s) THEN e[i] ELSE g[i - Len(s)]
  BY <1>3, <1>4
<1>6. /\ e \o g \in Seq(W) /\ Len(e \o g) = Len(s) + Len(t)
      /\ \A i \in 1..Len(s) + Len(t) : (e \o g)[i] = h[i]
  <2>1. \A u, w \in Seq(W) : u \o w \in Seq(W) /\ Len(u \o w) = Len(u) + Len(w)
    OBVIOUS
  <2>2. e \o g \in Seq(W) /\ Len(e \o g) = Len(s) + Len(t)
    BY <1>2, <2>1, Zenon
  <2>3. \A i \in 1..Len(s) + Len(t) :
           (e \o g)[i] = IF i <= Len(e) THEN e[i] ELSE g[i - Len(e)]
    BY <1>2
  <2> QED
    BY <1>2, <1>5, <2>2, <2>3
<1>7. h = e \o g
  <2> DEFINE j == e \o g
  <2> HIDE DEF j
  <2>1. j \in Seq(W) /\ Len(j) = Len(h) /\ \A i \in 1..Len(h) : j[i] = h[i]
    BY <1>2, <1>6, Zenon DEF j
  <2>2. h = j
    BY <1>2, <2>1
  <2> QED
    BY <2>2 DEF j
<1> QED
  BY <1>7 DEF e, g, h

LEMMA LabelsIsSeq ==
    ASSUME NEW V, NEW W, NEW f \in [V -> W], NEW s \in Seq(V), NEW C
    PROVE  Labels(s, C, f) \in Seq(W)
  BY OnlyIsSeq, EachIsSeq DEF Labels

\* Again a name for the equation.
LabelsJoin(s, t, C, f) == Labels(s \o t, C, f) = Labels(s, C, f) \o Labels(t, C, f)

LEMMA LabelsOfConcat ==
    ASSUME NEW V, NEW W, NEW f \in [V -> W], NEW s \in Seq(V), NEW t \in Seq(V), NEW C
    PROVE  LabelsJoin(s, t, C, f)
<1>1. Only(s, C) \in Seq(V) /\ Only(t, C) \in Seq(V)
  BY OnlyIsSeq
<1>2. Only(s \o t, C) = Only(s, C) \o Only(t, C)
  BY OnlyOfConcat
<1> QED
  BY <1>1, <1>2, EachOfConcat, ZenonT(60) DEF Labels, LabelsJoin

LEMMA LabelsOfEmpty ==
    ASSUME NEW C, NEW f
    PROVE  Labels(<<>>, C, f) = <<>>
<1>1. Only(<<>>, C) = <<>>
  BY OnlyOfEmpty
<1>2. DOMAIN <<>> = {}
  OBVIOUS
<1> QED
  BY <1>1, <1>2 DEF Labels, Each

LEMMA LabelsOfOne ==
    ASSUME NEW V, NEW W, NEW f \in [V -> W], NEW x \in V, NEW C
    PROVE  Labels(<<x>>, C, f) = IF x \in C THEN <<f[x]>> ELSE <<>>
<1>1. <<>> \in Seq(V) /\ Append(<<>>, x) = <<x>>
  OBVIOUS
<1>2. Only(Append(<<>>, x), C) = IF x \in C THEN Append(Only(<<>>, C), x) ELSE Only(<<>>, C)
  BY <1>1, OnlyOfAppend
<1>3. Only(<<x>>, C) = IF x \in C THEN <<x>> ELSE <<>>
  BY <1>1, <1>2, OnlyOfEmpty
<1>4. Each(<<x>>, f) = <<f[x]>> /\ Each(<<>>, f) = <<>>
  BY DEF Each
<1> QED
  BY <1>3, <1>4 DEF Labels

\* A sequence is what comes up to a place and what comes after it.
Splits(s, m) == s = SubSeq(s, 1, m) \o SubSeq(s, m + 1, Len(s))

LEMMA SeqSplits ==
    ASSUME NEW V, NEW s \in Seq(V), NEW m \in Nat, m <= Len(s)
    PROVE  Splits(s, m)
<1> DEFINE k == Len(s)
           a == SubSeq(s, 1, m)
           z == SubSeq(s, m + 1, k)
           y == a \o z
<1>1. k \in Nat /\ m <= k
  OBVIOUS
<1>2. a \in Seq(V) /\ Len(a) = m /\ \A i \in 1..m : a[i] = s[i]
  OBVIOUS
<1>3. z \in Seq(V) /\ Len(z) = k - m /\ \A i \in 1..(k - m) : z[i] = s[i + m]
  OBVIOUS
<1> HIDE DEF a, z, k
<1>4. /\ y \in Seq(V) /\ Len(y) = k
      /\ \A i \in 1..k : y[i] = IF i <= m THEN a[i] ELSE z[i - m]
  BY <1>1, <1>2, <1>3
<1> HIDE DEF y
<1>5. \A i \in 1..k : y[i] = s[i]
  <2> SUFFICES ASSUME NEW i \in 1..k
               PROVE  y[i] = s[i]
    OBVIOUS
  <2>1. CASE i <= m
    BY <1>1, <1>2, <1>4, <2>1
  <2>2. CASE ~(i <= m)
    <3>1. i - m \in 1..(k - m) /\ (i - m) + m = i
      BY <1>1, <2>2
    <3> QED
      BY <1>3, <1>4, <2>2, <3>1
  <2> QED
    BY <2>1, <2>2
<1>6. s = y
  <2>1. Len(s) = k
    BY DEF k
  <2> QED
    BY <1>4, <1>5, <2>1
<1> QED
  BY <1>6 DEF Splits, a, z, y, k
=============================================================================
