---------------------------- MODULE FixablesProofs ----------------------------
(* However many commands run, on any configuration files: what a rewrite    *)
(* leaves of a file, and what a command that reports no error has seen.     *)
EXTENDS Fixables, SequenceTheorems, WellFoundedInduction, TLAPS

USE DEF Goto, hostVars, targetVars

-----------------------------------------------------------------------------
(* Sequences that are put together. *)

\* A set of numbers with 0 and every successor is that of all numbers.
LEMMA AllNumbers ==
  ASSUME NEW S \in SUBSET Nat, 0 \in S, \A n \in S : n + 1 \in S PROVE Nat = S
<1> SUFFICES ASSUME Nat \ S # {} PROVE FALSE
  OBVIOUS
<1>1. PICK t \in Nat \ S : \A y \in Nat \ S : ~ (<<y, t>> \in OpToRel(<, Nat))
  BY NatLessThanWellFounded, WFMin, Zenon
<1>2. \A y \in Nat \ S : ~ (y < t)
  BY <1>1 DEF OpToRel
<1>3. t - 1 \in Nat /\ t - 1 < t /\ t = t - 1 + 1
  OBVIOUS
<1>4. t - 1 \in S
  BY <1>2, <1>3
<1> QED
  BY <1>3, <1>4

\* f[i] is the first i of ss put together.
Joins(f, ss) ==
  f = [i \in 1 .. Len(ss) |-> IF i = 1 THEN ss[i] ELSE f[i - 1] \o ss[i]]

LEMMA JoinsAt ==
  ASSUME NEW f, NEW ss, Joins(f, ss), NEW i \in 1 .. Len(ss)
  PROVE  f[i] = IF i = 1 THEN ss[i] ELSE f[i - 1] \o ss[i]
<1> DEFINE h == [j \in 1 .. Len(ss) |-> IF j = 1 THEN ss[j] ELSE f[j - 1] \o ss[j]]
<1>1. h[i] = IF i = 1 THEN ss[i] ELSE f[i - 1] \o ss[i]
  OBVIOUS
<1>2. f = h
  BY DEF Joins
<1> HIDE DEF h
<1> QED
  BY <1>1, <1>2

LEMMA JoinsExist ==
  ASSUME NEW S, NEW ss \in Seq(S) PROVE \E f : Joins(f, ss)
<1> DEFINE J(f, n) == f = [i \in 1 .. n |-> IF i = 1 THEN ss[i] ELSE f[i - 1] \o ss[i]]
           T == {n \in Nat : \E f : J(f, n)}
<1>1. 0 \in T
  <2>1. J(<< >>, 0)
    OBVIOUS
  <2> QED
    BY <2>1
<1>2. ASSUME NEW n \in T PROVE n + 1 \in T
  <2>1. PICK f : J(f, n)
    OBVIOUS
  <2> DEFINE g == [i \in 1 .. n + 1 |-> IF i = n + 1 THEN IF i = 1 THEN ss[i] ELSE f[n] \o ss[i]
                                        ELSE f[i]]
             h == [i \in 1 .. n + 1 |-> IF i = 1 THEN ss[i] ELSE g[i - 1] \o ss[i]]
  <2>2. ASSUME NEW i \in 1 .. n + 1 PROVE g[i] = h[i]
    <3>1. CASE i = n + 1
      BY <3>1
    <3>2. CASE i # n + 1
      <4>1. i \in 1 .. n /\ (i # 1 => i - 1 \in 1 .. n)
        BY <3>2
      <4>2. g[i] = f[i] /\ (i # 1 => g[i - 1] = f[i - 1])
        BY <3>2, <4>1
      <4>3. f[i] = IF i = 1 THEN ss[i] ELSE f[i - 1] \o ss[i]
        BY <2>1, <4>1
      <4> QED
        BY <4>2, <4>3
    <3> QED
      BY <3>1, <3>2
  <2>3. g = h
    BY <2>2
  <2>4. J(g, n + 1)
    BY <2>3
  <2> HIDE DEF g, h, J
  <2> QED
    BY <2>4
<1>3. Nat = T
  <2> HIDE DEF T
  <2>1. T \in SUBSET Nat
    BY DEF T
  <2> QED
    BY <1>1, <1>2, <2>1, AllNumbers
<1>4. \E f : J(f, Len(ss))
  <2> HIDE DEF J
  <2>1. Len(ss) \in T
    <3> HIDE DEF T
    <3> QED
      BY <1>3
  <2> QED
    BY <2>1
<1> QED
  BY <1>4 DEF Joins

LEMMA JoinsAgree ==
  ASSUME NEW f, NEW ss, Joins(f, ss), NEW g, NEW tt, Joins(g, tt),
         Len(ss) \in Nat, Len(tt) \in Nat,
         NEW m \in Nat, m <= Len(ss), m <= Len(tt), \A i \in 1 .. m : ss[i] = tt[i]
  PROVE  \A i \in 1 .. m : f[i] = g[i]
<1> DEFINE T == {n \in Nat : n <= m => \A i \in 1 .. n : f[i] = g[i]}
<1>1. 0 \in T
  OBVIOUS
<1>2. ASSUME NEW n \in T PROVE n + 1 \in T
  <2> SUFFICES ASSUME n + 1 <= m PROVE f[n + 1] = g[n + 1]
    <3>1. \A i \in 1 .. n + 1 : i \in 1 .. n \/ i = n + 1
      OBVIOUS
    <3> QED
      BY <3>1
  <2>0. n + 1 \in 1 .. Len(ss) /\ n + 1 \in 1 .. Len(tt)
    OBVIOUS
  <2>1. /\ f[n + 1] = IF n + 1 = 1 THEN ss[n + 1] ELSE f[n + 1 - 1] \o ss[n + 1]
        /\ g[n + 1] = IF n + 1 = 1 THEN tt[n + 1] ELSE g[n + 1 - 1] \o tt[n + 1]
    BY <2>0, JoinsAt
  <2>2. n + 1 # 1 => f[n] = g[n]
    OBVIOUS
  <2>3. n + 1 - 1 = n /\ ss[n + 1] = tt[n + 1]
    OBVIOUS
  <2> QED
    BY <2>1, <2>2, <2>3
<1>3. Nat = T
  <2> HIDE DEF T
  <2>1. T \in SUBSET Nat
    BY DEF T
  <2> QED
    BY <1>1, <1>2, <2>1, AllNumbers
<1>4. m \in T
  BY <1>3
<1> QED
  BY <1>4

LEMMA FlattenJoins ==
  ASSUME NEW S, NEW ss \in Seq(S), ss # << >>
  PROVE  \E f : Joins(f, ss) /\ FlattenSeq(ss) = f[Len(ss)]
<1> DEFINE f == CHOOSE f : Joins(f, ss)
<1>1. Joins(f, ss)
  BY JoinsExist
<1>2. FlattenSeq(ss) = f[Len(ss)]
  BY DEF FlattenSeq, Joins
<1> QED
  BY <1>1, <1>2

LEMMA FlattenEmpty == FlattenSeq(<< >>) = << >>
BY DEF FlattenSeq

LEMMA FlattenAppend ==
  ASSUME NEW S, NEW ss \in Seq(Seq(S)), NEW x \in Seq(S)
  PROVE  FlattenSeq(Append(ss, x)) = FlattenSeq(ss) \o x
<1> DEFINE tt == Append(ss, x)  n == Len(ss)
<1>1. /\ tt \in Seq(Seq(S)) /\ Len(tt) = n + 1 /\ tt # << >> /\ n \in Nat
      /\ tt[n + 1] = x /\ \A i \in 1 .. n : tt[i] = ss[i]
  <2>1. n \in Nat
    OBVIOUS
  <2>2. /\ tt \in Seq(Seq(S)) /\ Len(tt) = n + 1
        /\ tt[n + 1] = x /\ \A i \in 1 .. n : tt[i] = ss[i]
    BY AppendProperties
  <2> HIDE DEF n, tt
  <2>3. tt # << >>
    BY <2>1, <2>2
  <2> QED
    BY <2>1, <2>2, <2>3
<1>2. PICK f : Joins(f, tt) /\ FlattenSeq(tt) = f[n + 1]
  <2> HIDE DEF tt, n
  <2> QED
    BY <1>1, FlattenJoins
<1>3. f[n + 1] = IF n + 1 = 1 THEN x ELSE f[n] \o x
  <2> HIDE DEF tt, n
  <2>1. f[n + 1] = IF n + 1 = 1 THEN tt[n + 1] ELSE f[n + 1 - 1] \o tt[n + 1]
    <3>1. n + 1 \in 1 .. Len(tt)
      BY <1>1
    <3> QED
      BY <1>1, <1>2, <3>1, JoinsAt
  <2>2. n + 1 - 1 = n
    BY <1>1
  <2> QED
    BY <1>1, <2>1, <2>2
<1>4. CASE ss = << >>
  <2>1. n + 1 = 1 /\ << >> \o x = x
    BY <1>4
  <2> HIDE DEF tt, n
  <2> QED
    BY <1>2, <1>3, <1>4, <2>1, FlattenEmpty DEF tt
<1>5. CASE ss # << >>
  <2>1. PICK g : Joins(g, ss) /\ FlattenSeq(ss) = g[n]
    BY <1>5, FlattenJoins
  <2>2. n # 0
    BY <1>5
  <2> HIDE DEF tt, n
  <2>3. n <= Len(ss) /\ n <= Len(tt) /\ n \in 1 .. n
    BY <1>1, <2>2 DEF n
  <2>4. \A i \in 1 .. n : f[i] = g[i]
    <3>1. Joins(g, ss) /\ Joins(f, tt) /\ ss \in Seq(Seq(S))
      BY <1>2, <2>1
    <3>2. \A i \in 1 .. n : tt[i] = ss[i]
      BY <1>1
    <3>3. Len(ss) \in Nat /\ Len(tt) \in Nat /\ n \in Nat
      BY <1>1
    <3> QED
      BY <2>3, <3>1, <3>2, <3>3, JoinsAgree, SMTT(30)
  <2>5. f[n + 1] = f[n] \o x
    BY <1>1, <1>3, <2>2
  <2> QED
    BY <1>2, <2>1, <2>3, <2>4, <2>5 DEF tt
<1> QED
  BY <1>4, <1>5

\* A set of sequences with the empty one and all longer ones is that of all.
LEMMA AllSequences ==
  ASSUME NEW S, NEW T \in SUBSET Seq(S), << >> \in T,
         \A c \in T : \A x \in S : Append(c, x) \in T
  PROVE  Seq(S) = T
<1> DEFINE N == {n \in Nat : \A c \in Seq(S) : Len(c) = n => c \in T}
<1>1. 0 \in N
  OBVIOUS
<1>2. ASSUME NEW n \in N PROVE n + 1 \in N
  <2> SUFFICES ASSUME NEW c \in Seq(S), Len(c) = n + 1 PROVE c \in T
    OBVIOUS
  <2>1. n \in Nat /\ c # << >>
    OBVIOUS
  <2>2. PICK b \in Seq(S), x \in S : c = Append(b, x)
    <3> HIDE DEF N
    <3> QED
      BY <2>1, SequenceEmptyOrAppend
  <2>3. Len(b) = n
    <3>1. Len(c) = Len(b) + 1 /\ Len(b) \in Nat
      BY <2>2
    <3> HIDE DEF N
    <3> QED
      BY <2>1, <3>1
  <2>4. b \in T
    BY <2>3
  <2> HIDE DEF N
  <2> QED
    BY <2>2, <2>4
<1>3. Nat = N
  <2> HIDE DEF N
  <2>1. N \in SUBSET Nat
    BY DEF N
  <2> QED
    BY <1>1, <1>2, <2>1, AllNumbers
<1>4. ASSUME NEW c \in Seq(S) PROVE c \in T
  <2>1. Len(c) \in Nat
    OBVIOUS
  <2>2. Len(c) \in N
    <3> HIDE DEF N
    <3> QED
      BY <1>3, <2>1
  <2> QED
    BY <2>2
<1> QED
  BY <1>4

\* What G makes of the elements of c, put together.
Joined(c, G) == FlattenSeq([i \in DOMAIN c |-> G[c[i]]])

LEMMA JoinedEmpty == ASSUME NEW G PROVE Joined(<< >>, G) = << >>
<1>1. [i \in DOMAIN << >> |-> G[<< >>[i]]] = << >>
  OBVIOUS
<1> QED
  BY <1>1, FlattenEmpty DEF Joined

LEMMA JoinedAppend ==
  ASSUME NEW A, NEW B, NEW G \in [A -> Seq(B)], NEW c \in Seq(A), NEW x \in A
  PROVE  Joined(Append(c, x), G) = Joined(c, G) \o G[x]
<1> DEFINE m == [i \in DOMAIN c |-> G[c[i]]]
           d == Append(c, x)
           k == [i \in DOMAIN d |-> G[d[i]]]
<1>1. m \in Seq(Seq(B)) /\ Len(m) = Len(c) /\ \A i \in 1 .. Len(c) : m[i] = G[c[i]]
  <2>1. Len(c) \in Nat /\ DOMAIN c = 1 .. Len(c) /\ \A i \in 1 .. Len(c) : c[i] \in A
    BY ElementOfSeq, LenProperties
  <2>2. m = [i \in 1 .. Len(c) |-> G[c[i]]] /\ \A i \in 1 .. Len(c) : G[c[i]] \in Seq(B)
    BY <2>1, Zenon
  <2>3. m \in [1 .. Len(c) -> Seq(B)] /\ \A i \in 1 .. Len(c) : m[i] = G[c[i]]
    BY <2>2, Zenon
  <2> HIDE DEF m
  <2>4. \A S : \A n \in Nat : \A s \in [1 .. n -> S] : s \in Seq(S) /\ Len(s) = n
    OBVIOUS
  <2> QED
    BY <2>1, <2>3, <2>4, Zenon
<1>2. G[x] \in Seq(B)
  OBVIOUS
<1>3. /\ d \in Seq(A) /\ Len(d) = Len(c) + 1 /\ d[Len(c) + 1] = x
      /\ \A i \in 1 .. Len(c) : d[i] = c[i]
  BY AppendProperties
<1>4. Len(c) \in Nat
  OBVIOUS
<1> HIDE DEF d
<1>5. k \in Seq(Seq(B)) /\ Len(k) = Len(c) + 1 /\ \A i \in 1 .. Len(c) + 1 : k[i] = G[d[i]]
  BY <1>3, <1>4
<1> HIDE DEF m, k
<1>6. /\ Append(m, G[x]) \in Seq(Seq(B)) /\ Len(Append(m, G[x])) = Len(c) + 1
      /\ Append(m, G[x])[Len(c) + 1] = G[x]
      /\ \A i \in 1 .. Len(c) : Append(m, G[x])[i] = m[i]
  <2>1. ASSUME NEW S, NEW a \in Seq(S), NEW y \in S
        PROVE  /\ Append(a, y) \in Seq(S) /\ Len(Append(a, y)) = Len(a) + 1
               /\ Append(a, y)[Len(a) + 1] = y
               /\ \A i \in 1 .. Len(a) : Append(a, y)[i] = a[i]
    BY AppendProperties
  <2> QED
    BY <1>1, <1>2, <2>1
<1>7. ASSUME NEW i \in 1 .. Len(c) + 1 PROVE k[i] = Append(m, G[x])[i]
  <2>1. i \in 1 .. Len(c) \/ i = Len(c) + 1
    BY <1>4
  <2> QED
    BY <1>1, <1>3, <1>5, <1>6, <2>1
<1>8. k = Append(m, G[x])
  BY <1>4, <1>5, <1>6, <1>7
<1>9. FlattenSeq(k) = FlattenSeq(m) \o G[x]
  BY <1>1, <1>2, <1>8, FlattenAppend
<1> QED
  BY <1>9 DEF Joined, m, d, k

LEMMA JoinedType ==
  ASSUME NEW A, NEW B, NEW G \in [A -> Seq(B)] PROVE \A c \in Seq(A) : Joined(c, G) \in Seq(B)
<1> DEFINE T == {c \in Seq(A) : Joined(c, G) \in Seq(B)}
<1>1. << >> \in T
  BY JoinedEmpty, EmptySeq
<1>2. ASSUME NEW c \in T, NEW x \in A PROVE Append(c, x) \in T
  <2>1. c \in Seq(A) /\ Append(c, x) \in Seq(A) /\ Joined(c, G) \in Seq(B)
    OBVIOUS
  <2> HIDE DEF T
  <2>2. Joined(Append(c, x), G) = Joined(c, G) \o G[x]
    BY <2>1, JoinedAppend
  <2>3. G[x] \in Seq(B)
    OBVIOUS
  <2>4. Joined(c, G) \o G[x] \in Seq(B)
    BY <2>1, <2>3, ConcatProperties
  <2> QED
    BY <2>1, <2>2, <2>4 DEF T
<1>3. Seq(A) = T
  <2>1. T \in SUBSET Seq(A)
    OBVIOUS
  <2> HIDE DEF T
  <2> QED
    BY <1>1, <1>2, <2>1, AllSequences
<1> QED
  BY <1>3

LEMMA BothParts ==
  ASSUME NEW S, NEW a \in Seq(S), NEW b \in Seq(S)
  PROVE  ToSet(a \o b) = ToSet(a) \cup ToSet(b)
<1>1. ASSUME NEW s PROVE ToSet(s) = Range(s)
  BY Zenon DEF ToSet, Range
<1> QED
  BY <1>1, RangeConcatenation

LEMMA AppendedElements ==
  ASSUME NEW S, NEW a \in Seq(S), NEW x \in S
  PROVE  ToSet(Append(a, x)) = ToSet(a) \cup {x}
<1>1. Append(a, x) = a \o <<x>> /\ <<x>> \in Seq(S)
  BY AppendIsConcat
<1>2. ToSet(<<x>>) = {x}
  BY DEF ToSet
<1> DEFINE b == <<x>>
<1>3. b \in Seq(S)
  BY <1>1
<1> HIDE DEF b
<1>4. ToSet(a \o b) = ToSet(a) \cup ToSet(b)
  BY <1>3, BothParts
<1> QED
  BY <1>1, <1>2, <1>4, Zenon DEF b

\* Where the elements of the whole come from.
LEMMA JoinedElements ==
  ASSUME NEW A, NEW B, NEW G \in [A -> Seq(B)]
  PROVE  \A c \in Seq(A) :
           ToSet(Joined(c, G)) = UNION {ToSet(G[x]) : x \in ToSet(c)}
<1> DEFINE T == {c \in Seq(A) : ToSet(Joined(c, G)) = UNION {ToSet(G[x]) : x \in ToSet(c)}}
<1>1. << >> \in T
  <2>1. ToSet(<< >>) = {}
    BY DEF ToSet
  <2> QED
    BY <2>1, JoinedEmpty, EmptySeq
<1>2. ASSUME NEW c \in T, NEW x \in A PROVE Append(c, x) \in T
  <2>1. /\ c \in Seq(A) /\ Append(c, x) \in Seq(A)
        /\ ToSet(Joined(c, G)) = UNION {ToSet(G[y]) : y \in ToSet(c)}
    OBVIOUS
  <2> HIDE DEF T
  <2>2. Joined(Append(c, x), G) = Joined(c, G) \o G[x]
    BY <2>1, JoinedAppend
  <2>3. G[x] \in Seq(B) /\ Joined(c, G) \in Seq(B)
    BY <2>1, JoinedType
  <2>4. ToSet(Joined(c, G) \o G[x]) = ToSet(Joined(c, G)) \cup ToSet(G[x])
    BY <2>3, BothParts
  <2>5. ToSet(Append(c, x)) = ToSet(c) \cup {x}
    BY <2>1, AppendedElements
  <2> QED
    BY <2>1, <2>2, <2>4, <2>5 DEF T
<1>3. Seq(A) = T
  <2>1. T \in SUBSET Seq(A)
    OBVIOUS
  <2> HIDE DEF T
  <2> QED
    BY <1>1, <1>2, <2>1, AllSequences
<1> QED
  BY <1>3
-----------------------------------------------------------------------------
(* Lines that are taken out. *)

Kept(D) == [l \in Line |-> IF l.names \cap D = {} THEN <<l>> ELSE << >>]

LEMMA KeptType == ASSUME NEW D PROVE Kept(D) \in [Line -> Seq(Line)]
<1>1. ASSUME NEW l \in Line PROVE <<l>> \in Seq(Line) /\ << >> \in Seq(Line)
  <2> HIDE DEF Line
  <2> QED
    OBVIOUS
<1> QED
  BY <1>1, Zenon DEF Kept

LEMMA WithoutIsJoined ==
  ASSUME NEW c \in Seq(Line), NEW D PROVE Without(c, D) = Joined(c, Kept(D))
<1>1. \A i \in DOMAIN c : c[i] \in Line
  BY ElementOfSeq, LenProperties
<1>2. \A i \in DOMAIN c : Kept(D)[c[i]] = IF c[i].names \cap D = {} THEN <<c[i]>> ELSE << >>
  BY <1>1, Zenon DEF Kept
<1>3. [i \in DOMAIN c |-> Kept(D)[c[i]]]
        = [i \in DOMAIN c |-> IF c[i].names \cap D = {} THEN <<c[i]>> ELSE << >>]
  BY <1>2, Zenon
<1> QED
  BY <1>3 DEF Without, Joined

LEMMA WithoutType == ASSUME NEW c \in Seq(Line), NEW D PROVE Without(c, D) \in Seq(Line)
BY KeptType, JoinedType, WithoutIsJoined

LEMMA WithoutEmpty == ASSUME NEW D PROVE Without(<< >>, D) = << >>
BY EmptySeq, JoinedEmpty, WithoutIsJoined

LEMMA WithoutAppend ==
  ASSUME NEW c \in Seq(Line), NEW l \in Line, NEW D
  PROVE  Without(Append(c, l), D)
           = IF l.names \cap D = {} THEN Append(Without(c, D), l) ELSE Without(c, D)
<1>1. Append(c, l) \in Seq(Line)
  BY AppendProperties
<1>2. Without(Append(c, l), D) = Without(c, D) \o Kept(D)[l]
  <2>1. Joined(Append(c, l), Kept(D)) = Joined(c, Kept(D)) \o Kept(D)[l]
    BY KeptType, JoinedAppend
  <2> QED
    BY <1>1, <2>1, WithoutIsJoined, Zenon
<1>3. Without(c, D) \in Seq(Line)
  BY WithoutType
<1>4. Without(c, D) \o << >> = Without(c, D)
  BY <1>3, ConcatEmptySeq
<1>5. Without(c, D) \o <<l>> = Append(Without(c, D), l)
  BY <1>3, AppendIsConcat
<1>6. Kept(D)[l] = IF l.names \cap D = {} THEN <<l>> ELSE << >>
  BY Zenon DEF Kept
<1> QED
  BY <1>2, <1>4, <1>5, <1>6, Zenon

\* Nothing to take out.
LEMMA WithoutNone == \A c \in Seq(Line) : Without(c, {}) = c
<1> DEFINE T == {c \in Seq(Line) : Without(c, {}) = c}
<1>1. << >> \in T
  BY EmptySeq, WithoutEmpty
<1>2. ASSUME NEW c \in T, NEW l \in Line PROVE Append(c, l) \in T
  <2>1. c \in Seq(Line) /\ Append(c, l) \in Seq(Line) /\ Without(c, {}) = c
    BY AppendProperties
  <2>2. Without(Append(c, l), {}) = Append(Without(c, {}), l)
    BY <2>1, WithoutAppend
  <2> QED
    BY <2>1, <2>2
<1>3. Seq(Line) = T
  <2>1. T \in SUBSET Seq(Line)
    OBVIOUS
  <2> HIDE DEF T
  <2> QED
    BY <1>1, <1>2, <2>1, AllSequences
<1> QED
  BY <1>3

\* One device after the other.
LEMMA WithoutTwice ==
  ASSUME NEW D, NEW E
  PROVE  \A c \in Seq(Line) : Without(Without(c, D), E) = Without(c, D \cup E)
<1> DEFINE T == {c \in Seq(Line) : Without(Without(c, D), E) = Without(c, D \cup E)}
<1>1. << >> \in T
  BY EmptySeq, WithoutEmpty
<1>2. ASSUME NEW c \in T, NEW l \in Line PROVE Append(c, l) \in T
  <2>1. /\ c \in Seq(Line) /\ Append(c, l) \in Seq(Line)
        /\ Without(Without(c, D), E) = Without(c, D \cup E)
    BY AppendProperties
  <2> HIDE DEF T
  <2>2. Without(c, D) \in Seq(Line)
    BY <2>1, WithoutType
  <2>3. Without(Append(c, l), D)
          = IF l.names \cap D = {} THEN Append(Without(c, D), l) ELSE Without(c, D)
    BY <2>1, WithoutAppend
  <2>4. Without(Append(Without(c, D), l), E)
          = IF l.names \cap E = {} THEN Append(Without(Without(c, D), E), l)
                                   ELSE Without(Without(c, D), E)
    BY <2>2, WithoutAppend
  <2>5. Without(Append(c, l), D \cup E)
          = IF l.names \cap (D \cup E) = {} THEN Append(Without(c, D \cup E), l)
                                            ELSE Without(c, D \cup E)
    BY <2>1, WithoutAppend
  <2>6. l.names \cap (D \cup E) = {} <=> l.names \cap D = {} /\ l.names \cap E = {}
    OBVIOUS
  <2>7. Without(Without(Append(c, l), D), E) = Without(Append(c, l), D \cup E)
    BY <2>1, <2>3, <2>4, <2>5, <2>6, Zenon
  <2> QED
    BY <2>1, <2>7 DEF T
<1>3. Seq(Line) = T
  <2>1. T \in SUBSET Seq(Line)
    OBVIOUS
  <2> HIDE DEF T
  <2> QED
    BY <1>1, <1>2, <2>1, AllSequences
<1> QED
  BY <1>3

LEMMA WithoutElements ==
  ASSUME NEW c \in Seq(Line), NEW D
  PROVE  ToSet(Without(c, D)) = {l \in ToSet(c) : l.names \cap D = {}}
<1>1. ToSet(Without(c, D)) = UNION {ToSet(Kept(D)[l]) : l \in ToSet(c)}
  BY KeptType, JoinedElements, WithoutIsJoined
<1>2. ASSUME NEW l PROVE ToSet(<<l>>) = {l} /\ ToSet(<< >>) = {}
  BY DEF ToSet
<1>3. \A l \in ToSet(c) : l \in Line
  BY ElementOfSeq, LenProperties DEF ToSet
<1>4. \A l \in ToSet(c) : ToSet(Kept(D)[l]) = IF l.names \cap D = {} THEN {l} ELSE {}
  BY <1>2, <1>3, Zenon DEF Kept
<1>5. UNION {ToSet(Kept(D)[l]) : l \in ToSet(c)} = {l \in ToSet(c) : l.names \cap D = {}}
  <2>1. ASSUME NEW y, NEW l \in ToSet(c) PROVE y \in ToSet(Kept(D)[l]) <=> y = l /\ l.names \cap D = {}
    BY <1>4, Zenon
  <2> DEFINE U == {l \in ToSet(c) : l.names \cap D = {}}
             V == UNION {ToSet(Kept(D)[l]) : l \in ToSet(c)}
  <2>2. \A y : y \in V <=> \E l \in ToSet(c) : y \in ToSet(Kept(D)[l])
    BY Zenon
  <2>3. \A y : y \in U <=> \E l \in ToSet(c) : y = l /\ l.names \cap D = {}
    BY Zenon
  <2>4. \A y : y \in U <=> y \in V
    <3> HIDE DEF U, V
    <3>1. ASSUME NEW y \in U PROVE y \in V
      BY <2>1, <2>2, <2>3, Zenon
    <3>2. ASSUME NEW y \in V PROVE y \in U
      <4>1. PICK l \in ToSet(c) : y \in ToSet(Kept(D)[l])
        BY <2>2, <3>2
      <4>2. y = l /\ l.names \cap D = {}
        BY <2>1, <4>1
      <4> QED
        BY <2>3, <4>2
    <3> QED
      BY <3>1, <3>2, Zenon
  <2>5. U = V
    <3> HIDE DEF U, V
    <3> QED
      BY <2>4
  <2> QED
    BY <2>5
<1> QED
  BY <1>1, <1>5

\* What a rewrite for one broken mount makes of the lines.
LEMMA RewrittenIsWithout ==
  ASSUME NEW c \in Seq(Line), NEW d PROVE Rewritten(c, <<d>>) = Without(c, {d})
<1>1. ASSUME NEW x PROVE FlattenSeq(<<x>>) = x
  BY DEF FlattenSeq
<1>2. ASSUME NEW l PROVE Copies(l, <<d>>) = IF l.names \cap {d} = {} THEN <<l>> ELSE << >>
  <2>1. [i \in DOMAIN <<d>> |-> IF <<d>>[i] \in l.names THEN << >> ELSE <<l>>]
          = <<IF d \in l.names THEN << >> ELSE <<l>> >>
    OBVIOUS
  <2>2. Copies(l, <<d>>) = IF d \in l.names THEN << >> ELSE <<l>>
    BY <1>1, <2>1 DEF Copies
  <2>3. d \in l.names <=> l.names \cap {d} # {}
    OBVIOUS
  <2> QED
    BY <2>2, <2>3, Zenon
<1> QED
  BY <1>2, Zenon DEF Rewritten, Without

-----------------------------------------------------------------------------
(* The broken mounts. *)

LEMMA BrokenElements ==
  ASSUME NEW c \in Seq(Line)
  PROVE  /\ BrokenMounts(c) \in Seq(Devices)
         /\ ToSet(BrokenMounts(c))
              = {l.source : l \in {k \in ToSet(c) : k.kind = "mount" /\ k.source \notin present}}
<1> DEFINE G == [l \in Line |-> IF l.kind = "mount" /\ l.source \notin present
                               THEN <<l.source>> ELSE << >>]
<1>1. \A l \in ToSet(c) : l \in Line
  BY ElementOfSeq, LenProperties DEF ToSet
<1>2. G \in [Line -> Seq(Devices)]
  <2>1. \A l \in Line : l.kind = "mount" => l.source \in Devices
    BY DEF Line
  <2>2. ASSUME NEW S, NEW x \in S PROVE <<x>> \in Seq(S) /\ << >> \in Seq(S)
    OBVIOUS
  <2>3. \A l \in Line : (IF l.kind = "mount" /\ l.source \notin present
                         THEN <<l.source>> ELSE << >>) \in Seq(Devices)
    <3> HIDE DEF Line
    <3> QED
      BY <2>1, <2>2
  <2> HIDE DEF Line
  <2> QED
    BY <2>3
<1>3. BrokenMounts(c) = Joined(c, G)
  <2>1. \A i \in DOMAIN c : c[i] \in Line
    BY ElementOfSeq, LenProperties
  <2>2. \A i \in DOMAIN c : G[c[i]] = IF c[i].kind = "mount" /\ c[i].source \notin present
                                     THEN <<c[i].source>> ELSE << >>
    BY <2>1, Zenon
  <2>3. [i \in DOMAIN c |-> G[c[i]]]
          = [i \in DOMAIN c |-> IF c[i].kind = "mount" /\ c[i].source \notin present
                               THEN <<c[i].source>> ELSE << >>]
    BY <2>2, Zenon
  <2> QED
    BY <2>3 DEF BrokenMounts, Joined
<1>4. ASSUME NEW x PROVE ToSet(<<x>>) = {x} /\ ToSet(<< >>) = {}
  BY DEF ToSet
<1>5. \A l \in ToSet(c) :
        ToSet(G[l]) = IF l.kind = "mount" /\ l.source \notin present THEN {l.source} ELSE {}
  BY <1>1, <1>4, Zenon
<1> HIDE DEF G
<1>6. UNION {ToSet(G[l]) : l \in ToSet(c)}
        = {l.source : l \in {k \in ToSet(c) : k.kind = "mount" /\ k.source \notin present}}
  BY <1>5
<1>7. Joined(c, G) \in Seq(Devices)
  BY <1>2, JoinedType
<1>8. ToSet(Joined(c, G)) = UNION {ToSet(G[l]) : l \in ToSet(c)}
  BY <1>2, JoinedElements
<1> QED
  BY <1>3, <1>6, <1>7, <1>8, Zenon
-----------------------------------------------------------------------------
(* The types. *)

\* A rewrite writes lines, however many mounts are broken.
LEMMA RewrittenType ==
  ASSUME NEW c \in Seq(Line), NEW b \in Seq(Devices) PROVE Rewritten(c, b) \in Seq(Line)
<1>1. ASSUME NEW l \in Line PROVE Copies(l, b) \in Seq(Line)
  <2> DEFINE G == [d \in Devices |-> IF d \in l.names THEN << >> ELSE <<l>>]
  <2>1. G \in [Devices -> Seq(Line)]
    <3>1. <<l>> \in Seq(Line) /\ << >> \in Seq(Line)
      <4> HIDE DEF Line
      <4> QED
        OBVIOUS
    <3> QED
      BY <3>1, Zenon
  <2>2. \A i \in DOMAIN b : b[i] \in Devices
    BY ElementOfSeq, LenProperties
  <2>3. [i \in DOMAIN b |-> G[b[i]]] = [i \in DOMAIN b |-> IF b[i] \in l.names THEN << >> ELSE <<l>>]
    BY <2>2, Zenon
  <2>4. Copies(l, b) = Joined(b, G)
    BY <2>3 DEF Copies, Joined
  <2>5. Joined(b, G) \in Seq(Line)
    <3> HIDE DEF G
    <3> QED
      BY <2>1, JoinedType
  <2> QED
    BY <2>4, <2>5
<1> DEFINE H == [l \in Line |-> Copies(l, b)]
<1>2. H \in [Line -> Seq(Line)]
  BY <1>1, Zenon
<1>3. \A i \in DOMAIN c : c[i] \in Line
  BY ElementOfSeq, LenProperties
<1>4. [i \in DOMAIN c |-> H[c[i]]] = [i \in DOMAIN c |-> Copies(c[i], b)]
  BY <1>3, Zenon
<1>5. Rewritten(c, b) = Joined(c, H)
  BY <1>4 DEF Rewritten, Joined
<1> QED
  BY <1>2, <1>5, JoinedType

LEMMA WrittenOverType ==
  ASSUME NEW S, NEW old \in Seq(S), NEW new \in Seq(S) PROVE WrittenOver(old, new) \in Seq(S)
<1>1. Len(new) \in Nat /\ Len(old) \in Nat
  BY LenProperties
<1>2. \A i \in Len(new) + 1 .. Len(old) : old[i] \in S
  BY <1>1, ElementOfSeq
<1>3. SubSeq(old, Len(new) + 1, Len(old)) \in Seq(S)
  BY <1>1, <1>2, SubSeqProperties
<1> QED
  BY <1>3, ConcatProperties DEF WrittenOver

LEMMA WrittenOverEmpty ==
  ASSUME NEW S, NEW new \in Seq(S) PROVE WrittenOver(<< >>, new) = new
<1>1. Len(new) \in Nat /\ Len(<< >>) = 0
  BY LenProperties
<1>2. SubSeq(<< >>, Len(new) + 1, Len(<< >>)) = << >>
  BY <1>1, SubSeqEmpty
<1> QED
  BY <1>2, ConcatEmptySeq DEF WrittenOver

LEMMA TypeInit == Init => TypeOK
<1> SUFFICES ASSUME Init PROVE TypeOK
  OBVIOUS
<1>1. << >> \in Seq(Line) /\ << >> \in Seq(Devices)
  BY EmptySeq
<1> QED
  BY <1>1, ConfigAssumption DEF Init, TypeOK, Locations

LEMMA ExitType ==
  ASSUME TypeOK, NEW p \in Procs, NEW s \in BOOLEAN, Exit(p, s)
  PROVE  /\ pc' \in [Procs -> Locations] /\ fix' \in [Procs -> BOOLEAN]
         /\ loaded' \in [Procs -> [Targets -> Seq(Line)]]
         /\ todo' \in [Procs -> SUBSET Targets]
         /\ cur' \in [Procs -> Targets \cup {NoTarget}]
         /\ broken' \in [Procs -> Seq(Devices)] /\ conf' \in [Procs -> Seq(Line)]
         /\ ok' \in [Procs -> BOOLEAN]
         /\ gone' \in [Procs -> SUBSET Devices]
<1>1. << >> \in Seq(Line) /\ << >> \in Seq(Devices)
  BY EmptySeq
<1> QED
  BY <1>1, ConfigAssumption DEF TypeOK, Exit, Locations

LEMMA TypeStep == ASSUME TypeOK, PlaceInv, [Next]_vars PROVE TypeOK'
<1>1. ASSUME NEW p \in Procs, NEW f \in BOOLEAN, Begin(p, f) PROVE TypeOK'
  BY <1>1 DEF Begin, TypeOK, Locations
<1>2. ASSUME NEW p \in Procs, FindLMTargets(p) PROVE TypeOK'
  <2>1. incidents' \subseteq {"rewrite", "two", "link"}
    BY <1>2 DEF FindLMTargets, TypeOK
  <2> QED
    BY <1>2, <2>1 DEF FindLMTargets, TypeOK, Locations
<1>3. ASSUME NEW p \in Procs, FindFails(p) PROVE TypeOK'
  BY <1>3, ExitType DEF FindFails, TypeOK
<1>4. ASSUME NEW p \in Procs, NEW t \in Targets, CheckMounts(p, t) PROVE TypeOK'
  <2> DEFINE b == BrokenMounts(loaded[p][t])
  <2>1. b \in Seq(Devices)
    BY BrokenElements DEF TypeOK
  <2>2. /\ todo' = [todo EXCEPT ![p] = @ \ {t}]
        /\ UNCHANGED <<fix, loaded, conf, ok, gone, file, link, dropped, present, whole, changes>>
        /\ \/ UNCHANGED <<pc, cur, broken, incidents>>
           \/ /\ pc' = [pc EXCEPT ![p] = "read"]
              /\ cur' = [cur EXCEPT ![p] = t]
              /\ broken' = [broken EXCEPT ![p] = b]
              /\ incidents' \subseteq incidents \cup {"two"}
    BY <1>4 DEF CheckMounts
  <2> HIDE DEF b
  <2>3. pc' \in [Procs -> Locations] /\ todo' \in [Procs -> SUBSET Targets]
    BY <2>2 DEF TypeOK, Locations
  <2>4. cur' \in [Procs -> Targets \cup {NoTarget}]
    <3>1. cur \in [Procs -> Targets \cup {NoTarget}]
      BY DEF TypeOK
    <3> QED
      BY <2>2, <3>1
  <2>5. broken' \in [Procs -> Seq(Devices)]
    <3>1. broken \in [Procs -> Seq(Devices)]
      BY DEF TypeOK
    <3> QED
      BY <2>1, <2>2, <3>1
  <2>6. incidents' \subseteq {"rewrite", "two", "link"}
    BY <2>2 DEF TypeOK
  <2> QED
    BY <2>2, <2>3, <2>4, <2>5, <2>6 DEF TypeOK
<1>5. ASSUME NEW p \in Procs, NEW t \in Targets, CheckFails(p, t) PROVE TypeOK'
  BY <1>5, ExitType DEF CheckFails, TypeOK
<1>6. ASSUME NEW p \in Procs, ReadFile(p) PROVE TypeOK'
  <2>1. cur[p] \in Targets
    BY <1>6 DEF ReadFile, PlaceInv
  <2>2. file[cur[p]] \in Seq(Line)
    BY <2>1 DEF TypeOK
  <2>3. incidents' \subseteq {"rewrite", "two", "link"}
    BY <1>6 DEF ReadFile, TypeOK
  <2> QED
    BY <1>6, <2>2, <2>3 DEF ReadFile, TypeOK, Locations
<1>7. ASSUME NEW p \in Procs, CreateFile(p) PROVE TypeOK'
  <2>1. << >> \in Seq(Line)
    BY EmptySeq
  <2>2. incidents' \subseteq {"rewrite", "two", "link"}
    BY <1>7 DEF CreateFile, TypeOK
  <2> QED
    BY <1>7, <2>1, <2>2 DEF CreateFile, TypeOK, Locations
<1>8. ASSUME NEW p \in Procs, RewriteFails(p) PROVE TypeOK'
  BY <1>8, ExitType DEF RewriteFails, TypeOK
<1>9. ASSUME NEW p \in Procs, WriteFile(p) PROVE TypeOK'
  <2> DEFINE new == WrittenOver(file[cur[p]], Rewritten(conf[p], broken[p]))
             out == dropped[cur[p]] \cup ToSet(broken[p])
  <2>1. cur[p] \in Targets
    BY <1>9 DEF WriteFile, PlaceInv
  <2>2. new \in Seq(Line)
    <3>1. Rewritten(conf[p], broken[p]) \in Seq(Line)
      BY RewrittenType DEF TypeOK
    <3>2. file[cur[p]] \in Seq(Line)
      BY <2>1 DEF TypeOK
    <3> QED
      BY <3>1, <3>2, WrittenOverType
  <2>3. out \in SUBSET Devices
    <3>1. broken[p] \in Seq(Devices)
      BY DEF TypeOK
    <3>2. ToSet(broken[p]) \subseteq Devices
      BY <3>1, ElementOfSeq, LenProperties DEF ToSet
    <3> QED
      BY <2>1, <3>2 DEF TypeOK
  <2>4. << >> \in Seq(Line) /\ << >> \in Seq(Devices)
    BY EmptySeq
  <2>5. /\ file' = [file EXCEPT ![cur[p]] = new] \/ file' = file
        /\ dropped' = [dropped EXCEPT ![cur[p]] = out] \/ dropped' = dropped
        /\ incidents' \subseteq incidents \cup {"rewrite"}
        /\ pc' = [pc EXCEPT ![p] = "device"] /\ cur' = [cur EXCEPT ![p] = NoTarget]
        /\ broken' = [broken EXCEPT ![p] = << >>] /\ conf' = [conf EXCEPT ![p] = << >>]
        /\ UNCHANGED <<fix, loaded, todo, ok, gone, link, present, whole, changes>>
    BY <1>9 DEF WriteFile
  <2> HIDE DEF new, out
  <2>6. file' \in [Targets -> Seq(Line)]
    BY <2>1, <2>2, <2>5 DEF TypeOK
  <2>7. dropped' \in [Targets -> SUBSET Devices]
    BY <2>1, <2>3, <2>5 DEF TypeOK
  <2>8. /\ pc' \in [Procs -> Locations] /\ cur' \in [Procs -> Targets \cup {NoTarget}]
        /\ incidents' \subseteq {"rewrite", "two", "link"}
    BY <2>5 DEF TypeOK, Locations
  <2>9. broken' \in [Procs -> Seq(Devices)] /\ conf' \in [Procs -> Seq(Line)]
    BY <2>4, <2>5 DEF TypeOK
  <2> QED
    BY <2>5, <2>6, <2>7, <2>8, <2>9 DEF TypeOK
<1>10. ASSUME NEW p \in Procs, DevicesDone(p) PROVE TypeOK'
  BY <1>10, ConfigAssumption DEF DevicesDone, TypeOK, Locations
<1>11. ASSUME NEW p \in Procs, NEW t \in Targets, CheckLink(p, t) PROVE TypeOK'
  <2>1. /\ todo' = [todo EXCEPT ![p] = @ \ {t}]
        /\ UNCHANGED <<file, link, whole, present, changes, dropped, incidents>>
        /\ UNCHANGED <<fix, loaded, broken, conf, ok, gone>>
        /\ \/ UNCHANGED <<pc, cur>>
           \/ pc' = [pc EXCEPT ![p] = "remove"] /\ cur' = [cur EXCEPT ![p] = t]
    BY <1>11 DEF CheckLink
  <2>2. pc' \in [Procs -> Locations] /\ todo' \in [Procs -> SUBSET Targets]
    BY <2>1 DEF TypeOK, Locations
  <2>3. cur' \in [Procs -> Targets \cup {NoTarget}]
    <3>1. cur \in [Procs -> Targets \cup {NoTarget}]
      BY DEF TypeOK
    <3> QED
      BY <2>1, <3>1
  <2> QED
    BY <2>1, <2>2, <2>3 DEF TypeOK
<1>12. ASSUME NEW p \in Procs, RemoveLink(p) PROVE TypeOK'
  BY <1>12 DEF RemoveLink, TypeOK, Locations
<1>13. ASSUME NEW p \in Procs, MakeLink(p) PROVE TypeOK'
  <2>1. link' \in [Targets -> {"ok", "wrong", "missing"}]
    <3>1. link \in [Targets -> {"ok", "wrong", "missing"}]
      BY DEF TypeOK
    <3> QED
      BY <1>13, <3>1 DEF MakeLink
  <2>2. incidents' \subseteq {"rewrite", "two", "link"}
    <3>1. incidents \subseteq {"rewrite", "two", "link"}
      BY DEF TypeOK
    <3> QED
      BY <1>13, <3>1 DEF MakeLink
  <2> QED
    BY <1>13, <2>1, <2>2 DEF MakeLink, TypeOK, Locations
<1>14. ASSUME NEW p \in Procs, Finish(p) PROVE TypeOK'
  BY <1>14, ExitType DEF Finish, TypeOK
<1>15. ASSUME NEW p \in Procs, Kill(p) PROVE TypeOK'
  <2>1. incidents' \subseteq {"rewrite", "two", "link"}
    BY <1>15 DEF Kill, TypeOK
  <2> QED
    BY <1>15, <2>1, ExitType DEF Kill, TypeOK
<1>16. ASSUME NEW d \in Devices, DeviceChanges(d) PROVE TypeOK'
  BY <1>16 DEF DeviceChanges, TypeOK
<1>17. ASSUME NEW t \in Targets, TargetChanges(t) PROVE TypeOK'
  BY <1>17 DEF TargetChanges, TypeOK
<1>18. CASE UNCHANGED vars
  BY <1>18 DEF vars, TypeOK
<1> QED
  BY <1>1, <1>2, <1>3, <1>4, <1>5, <1>6, <1>7, <1>8, <1>9, <1>10, <1>11, <1>12, <1>13,
     <1>14, <1>15, <1>16, <1>17, <1>18 DEF Next, Step
-----------------------------------------------------------------------------
(* A step of one process leaves the others where they are. *)

Others(p) ==
  \A q \in Procs \ {p} :
    /\ pc'[q] = pc[q] /\ loaded'[q] = loaded[q] /\ todo'[q] = todo[q] /\ cur'[q] = cur[q]
    /\ broken'[q] = broken[q] /\ conf'[q] = conf[q] /\ ok'[q] = ok[q] /\ gone'[q] = gone[q]

LEMMA ExitOthers ==
  ASSUME TypeOK, NEW p \in Procs, NEW s \in BOOLEAN, Exit(p, s)
  PROVE  /\ Others(p)
         /\ pc'[p] = "idle" /\ ok'[p] = s
         /\ gone'[p] = IF s THEN gone[p] ELSE {}
BY DEF TypeOK, Exit, Others

LEMMA OthersStay ==
  ASSUME TypeOK, NEW p \in Procs,
         Step(p) \/ Kill(p) \/ \E f \in BOOLEAN : Begin(p, f)
  PROVE  /\ Others(p) /\ incidents \subseteq incidents'
         /\ UNCHANGED hostVars
<1>1. ASSUME NEW f \in BOOLEAN, Begin(p, f) PROVE Others(p) /\ incidents \subseteq incidents'
  BY <1>1 DEF Begin, TypeOK, Others
<1>2. ASSUME FindLMTargets(p) PROVE Others(p) /\ incidents \subseteq incidents'
  BY <1>2 DEF FindLMTargets, TypeOK, Others
<1>3. ASSUME FindFails(p) \/ RewriteFails(p) PROVE Others(p) /\ incidents \subseteq incidents'
  BY <1>3, ExitOthers DEF FindFails, RewriteFails
<1>4. ASSUME NEW t \in Targets, CheckMounts(p, t) PROVE Others(p) /\ incidents \subseteq incidents'
  <2> HIDE DEF BrokenMounts
  <2> QED
    BY <1>4 DEF CheckMounts, TypeOK, Others
<1>5. ASSUME NEW t \in Targets, CheckFails(p, t) PROVE Others(p) /\ incidents \subseteq incidents'
  BY <1>5, ExitOthers DEF CheckFails
<1>6. ASSUME ReadFile(p) PROVE Others(p) /\ incidents \subseteq incidents'
  BY <1>6 DEF ReadFile, TypeOK, Others
<1>7. ASSUME CreateFile(p) PROVE Others(p) /\ incidents \subseteq incidents'
  BY <1>7 DEF CreateFile, TypeOK, Others
<1>8. ASSUME WriteFile(p) PROVE Others(p) /\ incidents \subseteq incidents'
  BY <1>8 DEF WriteFile, TypeOK, Others
<1>9. ASSUME DevicesDone(p) PROVE Others(p) /\ incidents \subseteq incidents'
  BY <1>9 DEF DevicesDone, TypeOK, Others
<1>10. ASSUME NEW t \in Targets, CheckLink(p, t) PROVE Others(p) /\ incidents \subseteq incidents'
  BY <1>10 DEF CheckLink, TypeOK, Others
<1>11. ASSUME RemoveLink(p) PROVE Others(p) /\ incidents \subseteq incidents'
  BY <1>11 DEF RemoveLink, TypeOK, Others
<1>12. ASSUME MakeLink(p) PROVE Others(p) /\ incidents \subseteq incidents'
  BY <1>12 DEF MakeLink, TypeOK, Others
<1>13. ASSUME Finish(p) \/ Kill(p) PROVE Others(p) /\ incidents \subseteq incidents'
  BY <1>13, ExitOthers DEF Finish, Kill
<1>14. UNCHANGED hostVars
  BY DEF Step, Begin, FindLMTargets, FindFails, CheckMounts, CheckFails, ReadFile, CreateFile,
         RewriteFails, WriteFile, DevicesDone, CheckLink, RemoveLink, MakeLink, Finish, Kill
<1> QED
  BY <1>1, <1>2, <1>3, <1>4, <1>5, <1>6, <1>7, <1>8, <1>9, <1>10, <1>11, <1>12, <1>13,
     <1>14 DEF Step

LEMMA PlaceInit == Init => PlaceInv
BY DEF Init, PlaceInv

LEMMA PlaceStep == ASSUME TypeOK, PlaceInv, [Next]_vars PROVE PlaceInv'
<1> DEFINE Placed(p) ==
      /\ pc[p] \in {"read", "create", "write", "remove", "symlink"} => cur[p] \in Targets
      /\ ok[p] => pc[p] = "idle"
      /\ gone[p] \cap present = {}
<1>1. ASSUME NEW p \in Procs, Step(p) \/ Kill(p) \/ \E f \in BOOLEAN : Begin(p, f)
      PROVE  PlaceInv'
  <2>1. Others(p) /\ present' = present
    BY <1>1, OthersStay
  <2>2. \A q \in Procs \ {p} : Placed(q)'
    BY <2>1 DEF Others, PlaceInv
  <2>3. Placed(p)
    BY DEF PlaceInv
  <2>4. ASSUME NEW s \in BOOLEAN, Exit(p, s) PROVE Placed(p)'
    BY <2>1, <2>3, <2>4, ExitOthers
  <2>5. ASSUME NEW f \in BOOLEAN, Begin(p, f) PROVE Placed(p)'
    BY <2>1, <2>5 DEF Begin, TypeOK
  <2>6. ASSUME FindLMTargets(p) PROVE Placed(p)'
    BY <2>1, <2>3, <2>6 DEF FindLMTargets, TypeOK
  <2>7. ASSUME NEW t \in Targets, CheckMounts(p, t) PROVE Placed(p)'
    <3> HIDE DEF BrokenMounts
    <3> QED
      BY <2>1, <2>3, <2>7 DEF CheckMounts, TypeOK
  <2>8. ASSUME ReadFile(p) PROVE Placed(p)'
    BY <2>1, <2>3, <2>8 DEF ReadFile, TypeOK
  <2>9. ASSUME CreateFile(p) PROVE Placed(p)'
    BY <2>1, <2>3, <2>9 DEF CreateFile, TypeOK
  <2>10. ASSUME WriteFile(p) PROVE Placed(p)'
    BY <2>1, <2>3, <2>10 DEF WriteFile, TypeOK
  <2>11. ASSUME DevicesDone(p) PROVE Placed(p)'
    BY <2>1, <2>3, <2>11 DEF DevicesDone, TypeOK
  <2>12. ASSUME NEW t \in Targets, CheckLink(p, t) PROVE Placed(p)'
    BY <2>1, <2>3, <2>12 DEF CheckLink, TypeOK
  <2>13. ASSUME RemoveLink(p) \/ MakeLink(p) PROVE Placed(p)'
    BY <2>1, <2>3, <2>13 DEF RemoveLink, MakeLink, TypeOK
  <2>14. Placed(p)'
    <3> HIDE DEF Placed
    <3> QED
      BY <1>1, <2>4, <2>5, <2>6, <2>7, <2>8, <2>9, <2>10, <2>11, <2>12, <2>13
         DEF Step, FindFails, CheckFails, RewriteFails, Finish, Kill
  <2> QED
    BY <2>2, <2>14 DEF PlaceInv
<1>2. ASSUME NEW d \in Devices, DeviceChanges(d) PROVE PlaceInv'
  BY <1>2 DEF DeviceChanges, PlaceInv
<1>3. ASSUME NEW t \in Targets, TargetChanges(t) PROVE PlaceInv'
  BY <1>3 DEF TargetChanges, PlaceInv
<1>4. CASE UNCHANGED vars
  BY <1>4 DEF vars, PlaceInv
<1> QED
  BY <1>1, <1>2, <1>3, <1>4 DEF Next
-----------------------------------------------------------------------------
(* The files. *)

KeptIn(t) ==
  \/ \E p \in Procs : cur[p] = t /\ pc[p] = "write"
  \/ file[t] = Without(Config[t], dropped[t])

FileOf(p) ==
  /\ pc[p] = "write" => file[cur[p]] = << >>
  /\ pc[p] \in {"create", "write"} => conf[p] = Without(Config[cur[p]], dropped[cur[p]])
  /\ pc[p] \in {"read", "create", "write"} => Len(broken[p]) = 1
  /\ pc[p] = "write" => ~Changing(p, cur[p])
  /\ pc[p] \in {"device", "read", "create", "write"} =>
       \A t \in Targets : \E D \in SUBSET dropped[t] : loaded[p][t] = Without(Config[t], D)

FilesRight == (\A t \in Targets : KeptIn(t)) /\ (\A p \in Procs : FileOf(p))

LEMMA FileInvMeans == FileInv <=> (Sound => FilesRight)
BY Zenon DEF FileInv, RestIsKept, Sound, FilesRight, KeptIn, FileOf

\* A step that changes no file and is not between the read and the write of one.
LEMMA FileQuiet ==
  ASSUME NEW p \in Procs, Others(p), file' = file, dropped' = dropped, FilesRight,
         pc[p] # "write", pc'[p] \notin {"create", "write"},
         pc'[p] = "read" => Len(broken'[p]) = 1,
         pc'[p] \in {"device", "read"} =>
           \A t \in Targets : \E D \in SUBSET dropped[t] : loaded'[p][t] = Without(Config[t], D)
  PROVE  FilesRight'
<1>1. ASSUME NEW t \in Targets PROVE KeptIn(t)'
  <2>1. KeptIn(t)
    BY DEF FilesRight
  <2> QED
    BY <2>1 DEF KeptIn, Others
<1>2. ASSUME NEW q \in Procs, q # p PROVE FileOf(q)'
  <2>1. FileOf(q) /\ q \in Procs \ {p}
    BY <1>2 DEF FilesRight
  <2>2. /\ pc'[q] = pc[q] /\ loaded'[q] = loaded[q] /\ cur'[q] = cur[q]
        /\ broken'[q] = broken[q] /\ conf'[q] = conf[q]
    BY <2>1 DEF Others
  <2>3. pc[q] = "write" => ~Changing(q, cur[q])'
    BY <2>1, <2>2 DEF FileOf, Changing, Others
  <2> QED
    BY <2>1, <2>2, <2>3 DEF FileOf
<1>3. FileOf(p)'
  BY DEF FileOf
<1> QED
  BY <1>1, <1>2, <1>3 DEF FilesRight

LEMMA FileInit == Init => FileInv
<1> SUFFICES ASSUME Init PROVE FilesRight
  BY FileInvMeans
<1>1. ASSUME NEW t \in Targets PROVE KeptIn(t)
  <2>1. file[t] = Config[t] /\ dropped[t] = {} /\ Config[t] \in Seq(Line)
    BY ConfigAssumption DEF Init
  <2> QED
    BY <2>1, WithoutNone DEF KeptIn
<1>2. ASSUME NEW p \in Procs PROVE FileOf(p)
  BY DEF Init, FileOf
<1> QED
  BY <1>1, <1>2 DEF FilesRight

LEMMA ExitFiles ==
  ASSUME TypeOK, FilesRight, NEW p \in Procs, NEW s \in BOOLEAN, Exit(p, s),
         file' = file, dropped' = dropped, pc[p] # "write"
  PROVE  FilesRight'
<1>1. Others(p) /\ pc'[p] = "idle"
  BY ExitOthers
<1> QED
  BY <1>1, FileQuiet

LEMMA ReadFiles ==
  ASSUME TypeOK, PlaceInv, FilesRight, NEW p \in Procs, ReadFile(p), Sound'
  PROVE  FilesRight'
<1>1. /\ pc[p] = "read" /\ conf'[p] = file[cur[p]] /\ pc'[p] = "create"
      /\ UNCHANGED <<file, dropped, loaded, cur, broken>>
  BY DEF ReadFile, TypeOK
<1>2. ~Writing(p, cur[p])
  BY DEF ReadFile, Sound
<1>3. Others(p)
  BY OthersStay DEF Step
<1>4. cur[p] \in Targets
  BY <1>1 DEF PlaceInv
<1>5. ASSUME NEW t \in Targets PROVE KeptIn(t)'
  <2>1. KeptIn(t)
    BY DEF FilesRight
  <2> QED
    BY <1>1, <1>3, <2>1 DEF KeptIn, Others
<1>6. ASSUME NEW q \in Procs, q # p PROVE FileOf(q)'
  <2>1. FileOf(q) /\ q \in Procs \ {p}
    BY <1>6 DEF FilesRight
  <2>2. /\ pc'[q] = pc[q] /\ loaded'[q] = loaded[q] /\ cur'[q] = cur[q]
        /\ broken'[q] = broken[q] /\ conf'[q] = conf[q]
    BY <1>3, <2>1 DEF Others
  <2>3. pc[q] = "write" => ~Changing(q, cur[q])'
    <3> SUFFICES ASSUME pc[q] = "write" PROVE ~Changing(q, cur[q])'
      OBVIOUS
    <3>1. cur[q] # cur[p]
      BY <1>2, <2>1 DEF Writing
    <3> QED
      BY <1>1, <1>3, <2>1, <2>2, <3>1 DEF FileOf, Changing, Others
  <2> QED
    BY <1>1, <2>1, <2>2, <2>3 DEF FileOf
<1>7. FileOf(p)'
  <2>1. FileOf(p) /\ KeptIn(cur[p])
    BY <1>4 DEF FilesRight
  <2>2. file[cur[p]] = Without(Config[cur[p]], dropped[cur[p]])
    BY <1>1, <1>2, <2>1 DEF KeptIn, Writing
  <2> QED
    BY <1>1, <2>1, <2>2 DEF FileOf
<1> QED
  BY <1>5, <1>6, <1>7 DEF FilesRight

LEMMA CreateFiles ==
  ASSUME TypeOK, PlaceInv, FilesRight, NEW p \in Procs, CreateFile(p), Sound'
  PROVE  FilesRight'
<1>1. /\ pc[p] = "create" /\ file' = [file EXCEPT ![cur[p]] = << >>] /\ pc'[p] = "write"
      /\ UNCHANGED <<conf, dropped, loaded, cur, broken>>
  BY DEF CreateFile, TypeOK
<1>2. ~Changing(p, cur[p])
  BY DEF CreateFile, Sound
<1>3. Others(p)
  BY OthersStay DEF Step
<1>4. cur[p] \in Targets
  BY <1>1 DEF PlaceInv
<1>5. file'[cur[p]] = << >> /\ \A t \in Targets : t # cur[p] => file'[t] = file[t]
  BY <1>1, <1>4 DEF TypeOK
<1>6. ASSUME NEW t \in Targets PROVE KeptIn(t)'
  <2>1. KeptIn(t)
    BY DEF FilesRight
  <2>2. CASE t = cur[p]
    BY <1>1, <2>2 DEF KeptIn
  <2>3. CASE t # cur[p]
    BY <1>1, <1>3, <1>5, <2>1, <2>3 DEF KeptIn, Others
  <2> QED
    BY <2>2, <2>3
<1>7. ASSUME NEW q \in Procs, q # p PROVE FileOf(q)'
  <2>1. FileOf(q) /\ q \in Procs \ {p}
    BY <1>7 DEF FilesRight
  <2>2. /\ pc'[q] = pc[q] /\ loaded'[q] = loaded[q] /\ cur'[q] = cur[q]
        /\ broken'[q] = broken[q] /\ conf'[q] = conf[q]
    BY <1>3, <2>1 DEF Others
  <2>3. pc[q] = "write" => cur[q] \in Targets /\ cur[q] # cur[p]
    BY <1>2, <2>1 DEF Changing, PlaceInv
  <2>4. pc[q] = "write" => ~Changing(q, cur[q])'
    BY <1>1, <1>3, <2>1, <2>2, <2>3 DEF FileOf, Changing, Others
  <2> QED
    BY <1>1, <1>5, <2>1, <2>2, <2>3, <2>4 DEF FileOf
<1>8. FileOf(p)'
  <2>1. FileOf(p)
    BY DEF FilesRight
  <2>2. ~Changing(p, cur[p])'
    BY <1>1, <1>2, <1>3 DEF Changing, Others
  <2> QED
    BY <1>1, <1>5, <2>1, <2>2 DEF FileOf
<1> QED
  BY <1>6, <1>7, <1>8 DEF FilesRight

\* What a rewrite puts into the file.
LEMMA Rewrite ==
  ASSUME TypeOK, PlaceInv, FilesRight, NEW p \in Procs, pc[p] = "write"
  PROVE  WrittenOver(file[cur[p]], Rewritten(conf[p], broken[p]))
           = Without(Config[cur[p]], dropped[cur[p]] \cup ToSet(broken[p]))
<1>1. cur[p] \in Targets
  BY DEF PlaceInv
<1>2. /\ file[cur[p]] = << >> /\ Len(broken[p]) = 1
      /\ conf[p] = Without(Config[cur[p]], dropped[cur[p]])
  BY DEF FilesRight, FileOf
<1>3. PICK d : broken[p] = <<d>> /\ ToSet(broken[p]) = {d}
  <2>1. broken[p] \in Seq(Devices)
    BY DEF TypeOK
  <2>2. broken[p] = <<broken[p][1]>>
    BY <1>2, <2>1
  <2>3. \A x : ToSet(<<x>>) = {x}
    BY DEF ToSet
  <2> QED
    BY <2>2, <2>3
<1>4. Config[cur[p]] \in Seq(Line) /\ conf[p] \in Seq(Line)
  BY <1>1, ConfigAssumption DEF TypeOK
<1>5. Rewritten(conf[p], <<d>>) = Without(conf[p], {d})
  BY <1>4, RewrittenIsWithout
<1>6. Without(conf[p], {d}) = Without(Config[cur[p]], dropped[cur[p]] \cup {d})
  BY <1>2, <1>4, WithoutTwice
<1>7. WrittenOver(<< >>, Without(conf[p], {d})) = Without(conf[p], {d})
  BY <1>4, WithoutType, WrittenOverEmpty
<1> QED
  BY <1>2, <1>3, <1>5, <1>6, <1>7

LEMMA WriteFiles ==
  ASSUME TypeOK, PlaceInv, FilesRight, NEW p \in Procs, WriteFile(p), Sound'
  PROVE  FilesRight'
<1> DEFINE t0 == cur[p]
           new == WrittenOver(file[t0], Rewritten(conf[p], broken[p]))
           out == dropped[t0] \cup ToSet(broken[p])
<1>1. /\ pc[p] = "write" /\ pc'[p] = "device"
      /\ file' = [file EXCEPT ![t0] = new] /\ dropped' = [dropped EXCEPT ![t0] = out]
      /\ loaded' = loaded
  BY DEF WriteFile, TypeOK, Sound
<1>2. Others(p)
  BY OthersStay DEF Step
<1>3. t0 \in Targets
  BY <1>1 DEF PlaceInv
<1>4. new = Without(Config[t0], out)
  BY <1>1, Rewrite
<1>5. ~Changing(p, t0) /\ FileOf(p)
  BY <1>1 DEF FilesRight, FileOf
<1>6. dropped[t0] \subseteq out
  OBVIOUS
<1> HIDE DEF new, out
<1>7. /\ file'[t0] = new /\ dropped'[t0] = out
      /\ \A t \in Targets : t # t0 => file'[t] = file[t] /\ dropped'[t] = dropped[t]
  BY <1>1, <1>3 DEF TypeOK
<1>8. \A t \in Targets : dropped[t] \subseteq dropped'[t]
  BY <1>6, <1>7
<1>9. ASSUME NEW t \in Targets PROVE KeptIn(t)'
  <2>1. KeptIn(t)
    BY DEF FilesRight
  <2>2. CASE t = t0
    BY <1>4, <1>7, <2>2 DEF KeptIn
  <2>3. CASE t # t0
    BY <1>2, <1>7, <2>1, <2>3 DEF KeptIn, Others
  <2> QED
    BY <2>2, <2>3
<1>10. ASSUME NEW q \in Procs, q # p PROVE FileOf(q)'
  <2>1. FileOf(q) /\ q \in Procs \ {p}
    BY <1>10 DEF FilesRight
  <2>2. /\ pc'[q] = pc[q] /\ loaded'[q] = loaded[q] /\ cur'[q] = cur[q]
        /\ broken'[q] = broken[q] /\ conf'[q] = conf[q]
    BY <1>2, <2>1 DEF Others
  <2>3. pc[q] \in {"create", "write"} => cur[q] \in Targets /\ cur[q] # t0
    BY <1>5, <2>1 DEF Changing, PlaceInv
  <2>4. pc[q] = "write" => ~Changing(q, cur[q])'
    BY <1>1, <1>2, <2>1, <2>2 DEF FileOf, Changing, Others
  <2>5. \A t \in Targets : SUBSET dropped[t] \subseteq SUBSET dropped'[t]
    BY <1>8
  <2> QED
    BY <1>7, <2>1, <2>2, <2>3, <2>4, <2>5 DEF FileOf
<1>11. FileOf(p)'
  <2>1. \A t \in Targets : SUBSET dropped[t] \subseteq SUBSET dropped'[t]
    BY <1>8
  <2> QED
    BY <1>1, <1>5, <2>1 DEF FileOf
<1> QED
  BY <1>9, <1>10, <1>11 DEF FilesRight

LEMMA FileStep == ASSUME TypeOK, PlaceInv, FileInv, [Next]_vars PROVE FileInv'
<1> SUFFICES ASSUME Sound' PROVE FilesRight'
  BY Zenon DEF FileInv, RestIsKept, Sound, FilesRight, KeptIn, FileOf
<1>1. ASSUME NEW p \in Procs, Step(p) \/ Kill(p) \/ \E f \in BOOLEAN : Begin(p, f)
      PROVE  FilesRight'
  <2>1. Others(p) /\ FilesRight
    <3>1. incidents \subseteq incidents' /\ Others(p)
      BY <1>1, OthersStay
    <3> QED
      BY <3>1, FileInvMeans DEF Sound
  <2>2. FileOf(p)
    BY <2>1 DEF FilesRight
  <2>3. ASSUME NEW f \in BOOLEAN, Begin(p, f) PROVE FilesRight'
    <3>1. pc[p] = "idle" /\ pc'[p] = "findDevices" /\ UNCHANGED <<file, dropped>>
      BY <2>3 DEF Begin, TypeOK
    <3> QED
      BY <2>1, <3>1, FileQuiet
  <2>4. ASSUME FindLMTargets(p) PROVE FilesRight'
    <3>1. /\ pc[p] # "write" /\ pc'[p] \in {"device", "tool"} /\ UNCHANGED <<file, dropped>>
          /\ pc'[p] = "device" => loaded'[p] = file
          /\ \A t \in Targets : ~Writing(p, t)
      BY <2>4 DEF FindLMTargets, TypeOK, Sound
    <3>2. \A t \in Targets : file[t] = Without(Config[t], dropped[t])
      BY <2>1, <3>1 DEF FilesRight, KeptIn, Writing
    <3> QED
      BY <2>1, <3>1, <3>2, FileQuiet
  <2>5. ASSUME FindFails(p) PROVE FilesRight'
    BY <2>1, <2>5, ExitFiles DEF FindFails
  <2>6. ASSUME NEW t \in Targets, CheckMounts(p, t) PROVE FilesRight'
    <3> DEFINE b == BrokenMounts(loaded[p][t])
    <3>1. b \in Seq(Devices)
      BY BrokenElements DEF TypeOK
    <3>2. /\ pc[p] = "device" /\ UNCHANGED <<file, dropped, loaded>>
          /\ \/ pc'[p] = "device"
             \/ pc'[p] = "read" /\ broken'[p] = b /\ b # << >> /\ ~(Len(b) > 1)
      <4> HIDE DEF b
      <4>1. /\ pc[p] = "device" /\ UNCHANGED <<file, dropped, loaded>>
            /\ IF b = << >>
               THEN UNCHANGED <<pc, cur, broken, incidents>>
               ELSE /\ pc' = [pc EXCEPT ![p] = "read"]
                    /\ broken' = [broken EXCEPT ![p] = b]
                    /\ incidents' = IF Len(b) > 1 THEN incidents \cup {"two"} ELSE incidents
        BY <2>6 DEF CheckMounts, b
      <4>2. Len(b) > 1 /\ b # << >> => FALSE
        BY <4>1 DEF Sound
      <4> QED
        BY <4>1, <4>2 DEF TypeOK
    <3> HIDE DEF b
    <3>3. pc'[p] = "read" => Len(broken'[p]) = 1
      <4>1. b # << >> => Len(b) \in Nat \ {0}
        BY <3>1, EmptySeq
      <4>2. b # << >> /\ ~(Len(b) > 1) => Len(b) = 1
        <5>1. \A n \in Nat \ {0} : ~(n > 1) => n = 1
          OBVIOUS
        <5> QED
          BY <4>1, <5>1
      <4> QED
        BY <3>2, <4>2
    <3>4. \A s \in Targets : \E D \in SUBSET dropped[s] : loaded'[p][s] = Without(Config[s], D)
      BY <2>2, <3>2 DEF FileOf
    <3>5. pc[p] # "write" /\ pc'[p] \notin {"create", "write"} /\ file' = file /\ dropped' = dropped
      BY <3>2
    <3> QED
      BY <2>1, <3>3, <3>4, <3>5, FileQuiet
  <2>7. ASSUME NEW t \in Targets, CheckFails(p, t) PROVE FilesRight'
    BY <2>1, <2>7, ExitFiles DEF CheckFails
  <2>8. ASSUME ReadFile(p) PROVE FilesRight'
    BY <2>1, <2>8, ReadFiles
  <2>9. ASSUME CreateFile(p) PROVE FilesRight'
    BY <2>1, <2>9, CreateFiles
  <2>10. ASSUME RewriteFails(p) PROVE FilesRight'
    BY <2>1, <2>10, ExitFiles DEF RewriteFails
  <2>11. ASSUME WriteFile(p) PROVE FilesRight'
    BY <2>1, <2>11, WriteFiles
  <2>12. ASSUME DevicesDone(p) PROVE FilesRight'
    <3>1. pc[p] = "device" /\ pc'[p] = "findTools" /\ UNCHANGED <<file, dropped>>
      BY <2>12 DEF DevicesDone, TypeOK
    <3> QED
      BY <2>1, <3>1, FileQuiet
  <2>13. ASSUME NEW t \in Targets, CheckLink(p, t) PROVE FilesRight'
    <3>1. pc[p] = "tool" /\ pc'[p] \in {"tool", "remove"} /\ UNCHANGED <<file, dropped>>
      BY <2>13 DEF CheckLink, TypeOK
    <3> QED
      BY <2>1, <3>1, FileQuiet
  <2>14. ASSUME RemoveLink(p) \/ MakeLink(p) PROVE FilesRight'
    <3>1. pc[p] # "write" /\ pc'[p] \in {"symlink", "tool"} /\ UNCHANGED <<file, dropped>>
      BY <2>14 DEF RemoveLink, MakeLink, TypeOK
    <3> QED
      BY <2>1, <3>1, FileQuiet
  <2>15. ASSUME Finish(p) PROVE FilesRight'
    BY <2>1, <2>15, ExitFiles DEF Finish
  <2>16. ASSUME Kill(p) PROVE FilesRight'
    <3>1. pc[p] # "write"
      BY <2>16 DEF Kill, Sound
    <3> QED
      BY <2>1, <2>16, <3>1, ExitFiles DEF Kill
  <2> QED
    BY <1>1, <2>3, <2>4, <2>5, <2>6, <2>7, <2>8, <2>9, <2>10, <2>11, <2>12, <2>13, <2>14,
       <2>15, <2>16 DEF Step
<1>2. ASSUME UNCHANGED <<file, dropped, pc, loaded, cur, broken, conf, incidents>> PROVE FilesRight'
  <2>1. FilesRight
    BY <1>2, FileInvMeans DEF Sound
  <2> QED
    BY <1>2, <2>1 DEF FilesRight, KeptIn, FileOf, Changing
<1>3. (\E d \in Devices : DeviceChanges(d)) \/ (\E t \in Targets : TargetChanges(t)) \/ UNCHANGED vars
        => UNCHANGED <<file, dropped, pc, loaded, cur, broken, conf, incidents>>
  BY DEF DeviceChanges, TargetChanges, vars
<1> QED
  BY <1>1, <1>2, <1>3 DEF Next
-----------------------------------------------------------------------------
(* The mounts. *)

CleanFor(p, t) ==
  /\ DevicesSeen(p, t) => CleanOf(p, t, dropped[t])
  /\ pc[p] \in {"read", "create", "write"} /\ cur[p] = t =>
       CleanOf(p, t, dropped[t] \cup ToSet(broken[p]))

\* What is clean stays so when more is dropped, and less is known to be gone.
LEMMA CleanGrows ==
  ASSUME NEW p, NEW t, NEW D, NEW E, CleanOf(p, t, D), D \subseteq E, gone'[p] \subseteq gone[p]
  PROVE  CleanOf(p, t, E)'
BY DEF CleanOf

\* The processes that a step leaves where they are.
LEMMA CleanStays ==
  ASSUME NEW q \in Procs, NEW t \in Targets, CleanFor(q, t),
         pc'[q] = pc[q], todo'[q] = todo[q], cur'[q] = cur[q], broken'[q] = broken[q],
         ok'[q] = ok[q], gone'[q] \subseteq gone[q], dropped[t] \subseteq dropped'[t]
  PROVE  CleanFor(q, t)'
<1>1. DevicesSeen(q, t)' <=> DevicesSeen(q, t)
  BY DEF DevicesSeen
<1>2. CleanOf(q, t, dropped[t]) => CleanOf(q, t, dropped[t])'
  BY CleanGrows
<1>3. CleanOf(q, t, dropped[t] \cup ToSet(broken[q]))
        => CleanOf(q, t, dropped[t] \cup ToSet(broken[q]))'
  <2>1. dropped[t] \cup ToSet(broken[q]) \subseteq dropped'[t] \cup ToSet(broken'[q])
    OBVIOUS
  <2> QED
    BY <2>1, CleanGrows
<1> QED
  BY <1>1, <1>2, <1>3 DEF CleanFor

\* What a command finds missing, or has gone before, are all the mounts that
\* were missing since its start.
LEMMA MountsSeen ==
  ASSUME TypeOK, PlaceInv, NEW p \in Procs, NEW t \in Targets,
         NEW D \in SUBSET dropped[t], loaded[p][t] = Without(Config[t], D)
  PROVE  CleanOf(p, t, dropped[t] \cup ToSet(BrokenMounts(loaded[p][t])))
<1> DEFINE b == BrokenMounts(loaded[p][t])
<1> SUFFICES ASSUME NEW i \in DOMAIN Config[t], Config[t][i].kind = "mount",
                    Config[t][i].source \in gone[p], Config[t][i].names \cap D = {}
             PROVE  Config[t][i].names \cap ToSet(b) # {}
  BY DEF CleanOf
<1> DEFINE l == Config[t][i]
<1>1. Config[t] \in Seq(Line) /\ loaded[p][t] \in Seq(Line)
  BY ConfigAssumption DEF TypeOK
<1>2. l \in ToSet(Config[t]) /\ l \in Line
  BY <1>1, ElementOfSeq, LenProperties DEF ToSet
<1>3. l \in ToSet(loaded[p][t])
  BY <1>1, <1>2, WithoutElements
<1>4. l.source \notin present
  BY DEF PlaceInv
<1>5. l.source \in ToSet(b)
  BY <1>1, <1>3, <1>4, BrokenElements
<1>6. l.source \in l.names
  BY <1>2 DEF Line
<1> QED
  BY <1>5, <1>6

LEMMA CleanInit == Init => CleanInv
BY DEF Init, CleanInv, DevicesSeen

LEMMA ExitClean ==
  ASSUME TypeOK, NEW p \in Procs, NEW s \in BOOLEAN, Exit(p, s), NEW t \in Targets,
         dropped' = dropped, s => DevicesSeen(p, t) /\ CleanFor(p, t)
  PROVE  CleanFor(p, t)'
<1>1. pc'[p] = "idle" /\ gone'[p] = IF s THEN gone[p] ELSE {}
  BY ExitOthers
<1>2. CleanOf(p, t, dropped[t])'
  <2>1. CASE s
    BY <1>1, <2>1, CleanGrows DEF CleanFor
  <2>2. CASE ~s
    BY <1>1, <2>2 DEF CleanOf
  <2> QED
    BY <2>1, <2>2
<1> QED
  BY <1>1, <1>2 DEF CleanFor

LEMMA CleanStep ==
  ASSUME TypeOK, PlaceInv, FileInv, CleanInv, [Next]_vars PROVE CleanInv'
<1> SUFFICES ASSUME Sound' PROVE \A p \in Procs : \A t \in Targets : CleanFor(p, t)'
  BY Zenon DEF CleanInv, CleanFor
<1>1. ASSUME NEW p \in Procs, Step(p) \/ Kill(p) \/ \E f \in BOOLEAN : Begin(p, f),
             NEW t \in Targets
      PROVE  \A q \in Procs : CleanFor(q, t)'
  <2>1. /\ Others(p) /\ FilesRight /\ \A q \in Procs : CleanFor(q, t)
    <3>1. incidents \subseteq incidents' /\ Others(p)
      BY <1>1, OthersStay
    <3>2. Sound
      BY <3>1 DEF Sound
    <3> QED
      BY <3>1, <3>2, FileInvMeans DEF CleanInv, CleanFor
  <2>2. CleanFor(p, t) /\ FileOf(p) /\ (ok[p] => pc[p] = "idle")
    BY <2>1 DEF PlaceInv, FilesRight
  <2>3. dropped[t] \subseteq dropped'[t]
    <3>1. ~WriteFile(p) => dropped' = dropped
      BY <1>1 DEF Step, Begin, FindLMTargets, FindFails, CheckMounts, CheckFails, ReadFile,
         CreateFile, RewriteFails, DevicesDone, CheckLink, RemoveLink, MakeLink, Finish, Kill
    <3>2. WriteFile(p) => dropped' = [dropped EXCEPT ![cur[p]] = @ \cup ToSet(broken[p])]
                          \/ dropped' = dropped
      BY DEF WriteFile
    <3> QED
      BY <3>1, <3>2 DEF TypeOK
  <2>4. ASSUME NEW q \in Procs, q # p PROVE CleanFor(q, t)'
    <3>1. q \in Procs \ {p} /\ CleanFor(q, t)
      BY <2>1, <2>4
    <3>2. /\ pc'[q] = pc[q] /\ todo'[q] = todo[q] /\ cur'[q] = cur[q]
          /\ broken'[q] = broken[q] /\ ok'[q] = ok[q] /\ gone'[q] = gone[q]
      BY <2>1, <3>1 DEF Others
    <3> QED
      BY <2>3, <3>1, <3>2, CleanStays
  <2>5. ASSUME NEW f \in BOOLEAN, Begin(p, f) PROVE CleanFor(p, t)'
    BY <2>5 DEF Begin, TypeOK, CleanFor, DevicesSeen
  <2>6. ASSUME FindLMTargets(p) PROVE CleanFor(p, t)'
    <3>1. /\ UNCHANGED <<gone, ok, cur, broken, dropped>> /\ todo'[p] = Targets /\ ~ok[p]
          /\ \/ pc'[p] = "device"
             \/ pc'[p] = "tool" /\ pc[p] = "findTools"
      BY <2>2, <2>6 DEF FindLMTargets, TypeOK
    <3>2. DevicesSeen(p, t)' => DevicesSeen(p, t)
      BY <3>1 DEF DevicesSeen
    <3>3. CleanOf(p, t, dropped[t]) => CleanOf(p, t, dropped[t])'
      BY <3>1, CleanGrows
    <3>4. pc'[p] \notin {"read", "create", "write"}
      BY <3>1
    <3> QED
      BY <2>2, <3>2, <3>3, <3>4 DEF CleanFor
  <2>7. ASSUME FindFails(p) PROVE CleanFor(p, t)'
    BY <2>7, ExitClean DEF FindFails
  <2>8. ASSUME NEW t0 \in Targets, CheckMounts(p, t0) PROVE CleanFor(p, t)'
    <3> DEFINE b == BrokenMounts(loaded[p][t0])
    <3>0. pc[p] = "device"
      BY <2>8 DEF CheckMounts
    <3>1. CleanOf(p, t0, dropped[t0] \cup ToSet(b))
      <4>1. PICK D \in SUBSET dropped[t0] : loaded[p][t0] = Without(Config[t0], D)
        BY <2>2, <3>0 DEF FileOf
      <4> QED
        BY <4>1, MountsSeen
    <3> HIDE DEF b
    <3>2. /\ UNCHANGED <<gone, ok, dropped>> /\ ~ok[p]
          /\ todo'[p] = todo[p] \ {t0}
          /\ \/ b = << >> /\ pc'[p] = "device"
             \/ pc'[p] = "read" /\ cur'[p] = t0 /\ broken'[p] = b
      <4>1. /\ UNCHANGED <<gone, ok, dropped>>
            /\ todo' = [todo EXCEPT ![p] = @ \ {t0}]
            /\ IF b = << >>
               THEN UNCHANGED <<pc, cur, broken, incidents>>
               ELSE /\ pc' = [pc EXCEPT ![p] = "read"]
                    /\ cur' = [cur EXCEPT ![p] = t0]
                    /\ broken' = [broken EXCEPT ![p] = b]
        BY <2>8 DEF CheckMounts, b
      <4> QED
        BY <2>2, <3>0, <4>1 DEF TypeOK
    <3>3. t # t0 /\ DevicesSeen(p, t)' => CleanOf(p, t, dropped[t])
      <4>1. t # t0 /\ DevicesSeen(p, t)' => DevicesSeen(p, t)
        BY <3>0, <3>2 DEF DevicesSeen
      <4> QED
        BY <2>2, <4>1 DEF CleanFor
    <3>4. t = t0 /\ DevicesSeen(p, t)' => CleanOf(p, t, dropped[t])
      <4>1. t = t0 /\ DevicesSeen(p, t)' => b = << >>
        BY <3>2 DEF DevicesSeen
      <4>2. b = << >> => dropped[t0] \cup ToSet(b) = dropped[t0]
        BY DEF ToSet
      <4> QED
        BY <3>1, <4>1, <4>2
    <3>5. DevicesSeen(p, t)' => CleanOf(p, t, dropped[t])'
      BY <3>2, <3>3, <3>4, CleanGrows
    <3>6. pc'[p] \in {"read", "create", "write"} /\ cur'[p] = t
            => CleanOf(p, t, dropped[t] \cup ToSet(broken[p]))'
      <4>1. pc'[p] \in {"read", "create", "write"} /\ cur'[p] = t
              => t = t0 /\ dropped'[t] \cup ToSet(broken'[p]) = dropped[t0] \cup ToSet(b)
        BY <3>2
      <4> QED
        BY <3>1, <3>2, <4>1, CleanGrows
    <3> QED
      BY <3>5, <3>6 DEF CleanFor
  <2>9. ASSUME NEW t0 \in Targets, CheckFails(p, t0) PROVE CleanFor(p, t)'
    BY <2>9, ExitClean DEF CheckFails
  <2>10. ASSUME ReadFile(p) \/ CreateFile(p) PROVE CleanFor(p, t)'
    <3>1. /\ UNCHANGED <<gone, ok, todo, cur, broken, dropped>>
          /\ pc[p] \in {"read", "create"} /\ pc'[p] \in {"create", "write"}
      BY <2>10 DEF ReadFile, CreateFile, TypeOK
    <3>2. DevicesSeen(p, t)' => DevicesSeen(p, t)
      BY <3>1 DEF DevicesSeen
    <3>3. CleanOf(p, t, dropped[t]) => CleanOf(p, t, dropped[t])'
      BY <3>1, CleanGrows
    <3>4. CleanOf(p, t, dropped[t] \cup ToSet(broken[p]))
            => CleanOf(p, t, dropped[t] \cup ToSet(broken[p]))'
      BY <3>1 DEF CleanOf
    <3> QED
      BY <2>2, <3>1, <3>2, <3>3, <3>4 DEF CleanFor
  <2>11. ASSUME RewriteFails(p) PROVE CleanFor(p, t)'
    BY <2>11, ExitClean DEF RewriteFails
  <2>12. ASSUME WriteFile(p) PROVE CleanFor(p, t)'
    <3>1. /\ UNCHANGED <<gone, ok, todo>> /\ ~ok[p]
          /\ pc[p] = "write" /\ pc'[p] = "device" /\ cur[p] \in Targets
          /\ dropped' = [dropped EXCEPT ![cur[p]] = @ \cup ToSet(broken[p])]
      BY <2>2, <2>12 DEF WriteFile, TypeOK, Sound, PlaceInv
    <3>2. CASE t = cur[p]
      <4>1. CleanOf(p, t, dropped[t] \cup ToSet(broken[p]))
        BY <2>2, <3>1, <3>2 DEF CleanFor
      <4>2. dropped'[t] = dropped[t] \cup ToSet(broken[p])
        BY <3>1, <3>2 DEF TypeOK
      <4>3. CleanOf(p, t, dropped[t])'
        BY <3>1, <4>1, <4>2, CleanGrows
      <4> QED
        BY <3>1, <4>3 DEF CleanFor
    <3>3. CASE t # cur[p]
      <4>1. DevicesSeen(p, t)' => DevicesSeen(p, t)
        BY <3>1, <3>3 DEF DevicesSeen
      <4>2. CleanOf(p, t, dropped[t]) => CleanOf(p, t, dropped[t])'
        BY <2>3, <3>1, CleanGrows
      <4> QED
        BY <2>2, <3>1, <4>1, <4>2 DEF CleanFor
    <3> QED
      BY <3>2, <3>3
  <2>13. ASSUME DevicesDone(p) PROVE CleanFor(p, t)'
    <3>1. /\ UNCHANGED <<gone, dropped>>
          /\ pc[p] = "device" /\ pc'[p] = "findTools" /\ t \notin todo[p]
      BY <2>13 DEF DevicesDone, TypeOK
    <3>2. CleanOf(p, t, dropped[t])
      BY <2>2, <3>1 DEF CleanFor, DevicesSeen
    <3>3. CleanOf(p, t, dropped[t])'
      BY <3>1, <3>2, CleanGrows
    <3> QED
      BY <3>1, <3>3 DEF CleanFor
  <2>14. ASSUME (\E t0 \in Targets : CheckLink(p, t0)) \/ RemoveLink(p) \/ MakeLink(p)
         PROVE  CleanFor(p, t)'
    <3>1. /\ UNCHANGED <<gone, dropped>>
          /\ pc[p] \in {"tool", "remove", "symlink"} /\ pc'[p] \in {"tool", "remove", "symlink"}
      BY <2>14 DEF CheckLink, RemoveLink, MakeLink, TypeOK
    <3>2. CleanOf(p, t, dropped[t])
      BY <2>2, <3>1 DEF CleanFor, DevicesSeen
    <3>3. CleanOf(p, t, dropped[t])'
      BY <3>1, <3>2, CleanGrows
    <3> QED
      BY <3>1, <3>3 DEF CleanFor
  <2>15. ASSUME Finish(p) PROVE CleanFor(p, t)'
    <3>1. DevicesSeen(p, t) /\ dropped' = dropped
      BY <2>15 DEF Finish, DevicesSeen
    <3> QED
      BY <2>2, <2>15, <3>1, ExitClean DEF Finish
  <2>16. ASSUME Kill(p) PROVE CleanFor(p, t)'
    BY <2>16, ExitClean DEF Kill
  <2>17. CleanFor(p, t)'
    BY <1>1, <2>5, <2>6, <2>7, <2>8, <2>9, <2>10, <2>11, <2>12, <2>13, <2>14, <2>15, <2>16
       DEF Step
  <2> QED
    BY <2>4, <2>17
<1>2. ASSUME UNCHANGED <<pc, todo, cur, broken, ok, dropped, incidents>>,
             \A p \in Procs : gone'[p] \subseteq gone[p],
             NEW q \in Procs, NEW t \in Targets
      PROVE  CleanFor(q, t)'
  <2>1. CleanFor(q, t)
    BY <1>2 DEF CleanInv, CleanFor, Sound
  <2> QED
    BY <1>2, <2>1, CleanStays
<1>3. (\E d \in Devices : DeviceChanges(d)) \/ (\E t \in Targets : TargetChanges(t)) \/ UNCHANGED vars
        => /\ UNCHANGED <<pc, todo, cur, broken, ok, dropped, incidents>>
           /\ \A p \in Procs : gone'[p] \subseteq gone[p]
  BY DEF DeviceChanges, TargetChanges, vars
<1> QED
  BY <1>1, <1>2, <1>3 DEF Next

-----------------------------------------------------------------------------
(* The links. *)

\* The link of t is there, or is being made.
Made(t) == link[t] = "ok" \/ \E q \in Procs : cur[q] = t /\ pc[q] = "symlink"

LinkOf(p) ==
  /\ pc[p] = "symlink" => link[cur[p]] # "wrong"
  /\ \A t \in Targets : LinkSeen(p, t) => Made(t)

LEMMA LinkInit == Init => LinkInv
BY DEF Init, LinkInv, LinkSeen

\* A step of p that neither removes nor makes a link.
LEMMA LinkQuiet ==
  ASSUME NEW p \in Procs, Others(p), link' = link, \A q \in Procs : LinkOf(q),
         pc[p] # "symlink", pc'[p] # "symlink",
         \A t \in Targets : LinkSeen(p, t)' => LinkSeen(p, t) \/ link[t] = "ok"
  PROVE  \A q \in Procs : LinkOf(q)'
<1>1. \A t \in Targets : Made(t) => Made(t)'
  BY DEF Made, Others
<1>2. ASSUME NEW q \in Procs, q # p PROVE LinkOf(q)'
  <2>1. /\ pc'[q] = pc[q] /\ cur'[q] = cur[q] /\ todo'[q] = todo[q] /\ ok'[q] = ok[q]
    BY <1>2 DEF Others
  <2>2. \A t \in Targets : LinkSeen(q, t)' => LinkSeen(q, t)
    BY <2>1 DEF LinkSeen
  <2> QED
    BY <1>1, <2>1, <2>2 DEF LinkOf
<1>3. \A t \in Targets : link[t] = "ok" => Made(t)
  BY DEF Made
<1>4. LinkOf(p)'
  BY <1>1, <1>3 DEF LinkOf
<1> QED
  BY <1>2, <1>4

LEMMA LinkStep == ASSUME TypeOK, PlaceInv, LinkInv, [Next]_vars PROVE LinkInv'
<1> SUFFICES ASSUME "link" \notin incidents' PROVE \A p \in Procs : LinkOf(p)'
  BY Zenon DEF LinkInv, LinkOf, Made
<1>1. ASSUME NEW p \in Procs, Step(p) \/ Kill(p) \/ \E f \in BOOLEAN : Begin(p, f)
      PROVE  \A q \in Procs : LinkOf(q)'
  <2>1. Others(p) /\ \A q \in Procs : LinkOf(q)
    <3>1. incidents \subseteq incidents' /\ Others(p)
      BY <1>1, OthersStay
    <3>2. "link" \notin incidents
      BY <3>1
    <3> QED
      BY <3>1, <3>2 DEF LinkInv, LinkOf, Made
  <2>2. ok[p] => pc[p] = "idle"
    BY DEF PlaceInv
  <2>3. ASSUME NEW s \in BOOLEAN, Exit(p, s), link' = link, pc[p] # "symlink",
               s => pc[p] = "tool" /\ todo[p] = {}
        PROVE  \A q \in Procs : LinkOf(q)'
    <3>1. pc'[p] = "idle" /\ ok'[p] = s
      BY <2>3, ExitOthers
    <3>2. \A t \in Targets : LinkSeen(p, t)' => LinkSeen(p, t)
      BY <2>3, <3>1 DEF LinkSeen
    <3> QED
      BY <2>1, <2>3, <3>1, <3>2, LinkQuiet
  <2>4. ASSUME NEW f \in BOOLEAN, Begin(p, f) PROVE \A q \in Procs : LinkOf(q)'
    <3>1. pc[p] = "idle" /\ pc'[p] = "findDevices" /\ ~ok'[p] /\ link' = link
      BY <2>4 DEF Begin, TypeOK
    <3>2. \A t \in Targets : ~LinkSeen(p, t)'
      BY <3>1 DEF LinkSeen
    <3> QED
      BY <2>1, <3>1, <3>2, LinkQuiet
  <2>5. ASSUME FindLMTargets(p) PROVE \A q \in Procs : LinkOf(q)'
    <3>1. /\ pc[p] \in {"findDevices", "findTools"} /\ pc'[p] \in {"device", "tool"}
          /\ ok' = ok /\ todo'[p] = Targets /\ link' = link
      BY <2>5 DEF FindLMTargets, TypeOK
    <3>2. \A t \in Targets : ~LinkSeen(p, t)'
      BY <2>2, <3>1 DEF LinkSeen
    <3>3. pc[p] # "symlink" /\ pc'[p] # "symlink"
      BY <3>1
    <3> QED
      BY <2>1, <3>1, <3>2, <3>3, LinkQuiet
  <2>6. ASSUME NEW t0 \in Targets, CheckMounts(p, t0) PROVE \A q \in Procs : LinkOf(q)'
    <3>1. pc[p] = "device" /\ pc'[p] \in {"device", "read"} /\ ok' = ok /\ link' = link
      <4> HIDE DEF BrokenMounts
      <4> QED
        BY <2>6 DEF CheckMounts, TypeOK
    <3>2. \A t \in Targets : ~LinkSeen(p, t)'
      BY <2>2, <3>1 DEF LinkSeen
    <3>3. pc[p] # "symlink" /\ pc'[p] # "symlink"
      BY <3>1
    <3> QED
      BY <2>1, <3>1, <3>2, <3>3, LinkQuiet
  <2>7. ASSUME ReadFile(p) \/ CreateFile(p) \/ WriteFile(p) \/ DevicesDone(p)
        PROVE  \A q \in Procs : LinkOf(q)'
    <3>1. /\ pc[p] \in {"read", "create", "write", "device"}
          /\ pc'[p] \in {"create", "write", "device", "findTools"}
          /\ ok' = ok /\ link' = link
      BY <2>7 DEF ReadFile, CreateFile, WriteFile, DevicesDone, TypeOK
    <3>2. \A t \in Targets : ~LinkSeen(p, t)'
      BY <2>2, <3>1 DEF LinkSeen
    <3>3. pc[p] # "symlink" /\ pc'[p] # "symlink"
      BY <3>1
    <3> QED
      BY <2>1, <3>1, <3>2, <3>3, LinkQuiet
  <2>8. ASSUME NEW t0 \in Targets, CheckLink(p, t0) PROVE \A q \in Procs : LinkOf(q)'
    <3>1. /\ pc[p] = "tool" /\ ok' = ok /\ link' = link /\ todo'[p] = todo[p] \ {t0}
          /\ \/ link[t0] = "ok" /\ pc'[p] = "tool"
             \/ pc'[p] = "remove" /\ cur'[p] = t0
      BY <2>8 DEF CheckLink, TypeOK
    <3>2. \A t \in Targets : LinkSeen(p, t)' => LinkSeen(p, t) \/ link[t] = "ok"
      BY <2>2, <3>1 DEF LinkSeen
    <3>3. pc[p] # "symlink" /\ pc'[p] # "symlink"
      BY <3>1
    <3> QED
      BY <2>1, <3>1, <3>2, <3>3, LinkQuiet
  <2>9. ASSUME RemoveLink(p) PROVE \A q \in Procs : LinkOf(q)'
    <3>1. /\ pc[p] = "remove" /\ pc'[p] = "symlink" /\ UNCHANGED <<ok, todo, cur>>
          /\ cur[p] \in Targets /\ link' = [link EXCEPT ![cur[p]] = "missing"]
      BY <2>9 DEF RemoveLink, TypeOK, PlaceInv
    <3>2. /\ link'[cur[p]] = "missing"
          /\ \A t \in Targets : t # cur[p] => link'[t] = link[t]
      BY <3>1 DEF TypeOK
    <3>3. ASSUME NEW t \in Targets, Made(t) PROVE Made(t)'
      BY <2>1, <3>1, <3>2, <3>3 DEF Made, Others
    <3>4. \A q \in Procs : \A t \in Targets : LinkSeen(q, t)' => LinkSeen(q, t)
      BY <2>1, <3>1 DEF LinkSeen, Others
    <3>5. ASSUME NEW q \in Procs PROVE pc'[q] = "symlink" => link'[cur'[q]] # "wrong"
      <4>1. cur'[q] = cur[q] /\ (q # p => pc'[q] = pc[q])
        BY <2>1, <3>1 DEF Others
      <4>2. pc[q] = "symlink" => cur[q] \in Targets
        BY DEF PlaceInv
      <4> QED
        BY <2>1, <3>1, <3>2, <4>1, <4>2 DEF LinkOf
    <3> QED
      BY <2>1, <3>3, <3>4, <3>5 DEF LinkOf
  <2>10. ASSUME MakeLink(p) PROVE \A q \in Procs : LinkOf(q)'
    <3>1. /\ pc[p] = "symlink" /\ pc'[p] = "tool" /\ UNCHANGED <<ok, todo>> /\ cur[p] \in Targets
          /\ link' = [link EXCEPT ![cur[p]] = IF @ = "missing" THEN "ok" ELSE @]
      BY <2>10 DEF MakeLink, TypeOK, PlaceInv
    <3>2. link[cur[p]] \in {"ok", "missing"}
      BY <2>1, <3>1 DEF LinkOf, TypeOK
    <3>3. /\ link'[cur[p]] = "ok"
          /\ \A t \in Targets : t # cur[p] => link'[t] = link[t]
      BY <3>1, <3>2 DEF TypeOK
    <3>4. ASSUME NEW t \in Targets, Made(t) PROVE Made(t)'
      BY <2>1, <3>3, <3>4 DEF Made, Others
    <3>5. ASSUME NEW q \in Procs, NEW t \in Targets, LinkSeen(q, t)' PROVE Made(t)'
      <4>1. LinkSeen(q, t) \/ t = cur[p]
        BY <2>1, <2>2, <3>1, <3>5 DEF LinkSeen, Others
      <4>2. LinkSeen(q, t) => Made(t)
        BY <2>1 DEF LinkOf
      <4> QED
        BY <3>3, <3>4, <4>1, <4>2 DEF Made
    <3>6. ASSUME NEW q \in Procs PROVE pc'[q] = "symlink" => link'[cur'[q]] # "wrong"
      <4>1. pc'[q] = "symlink" => pc[q] = "symlink" /\ cur'[q] = cur[q] /\ cur[q] \in Targets
        BY <2>1, <3>1 DEF Others, PlaceInv
      <4> QED
        BY <2>1, <3>3, <4>1 DEF LinkOf
    <3> QED
      BY <3>5, <3>6 DEF LinkOf
  <2>11. ASSUME Kill(p) PROVE \A q \in Procs : LinkOf(q)'
    <3>1. Exit(p, FALSE) /\ link' = link /\ pc[p] # "symlink"
      BY <2>11 DEF Kill
    <3> QED
      BY <2>3, <3>1
  <2>12. ASSUME FindFails(p) \/ (\E t \in Targets : CheckFails(p, t)) \/ RewriteFails(p)
         PROVE  \A q \in Procs : LinkOf(q)'
    <3>1. Exit(p, FALSE) /\ link' = link /\ pc[p] # "symlink"
      BY <2>12 DEF FindFails, CheckFails, RewriteFails
    <3> QED
      BY <2>3, <3>1
  <2>13. ASSUME Finish(p) PROVE \A q \in Procs : LinkOf(q)'
    <3>1. Exit(p, TRUE) /\ link' = link /\ pc[p] = "tool" /\ todo[p] = {}
      BY <2>13 DEF Finish
    <3>2. pc[p] # "symlink"
      BY <3>1
    <3> QED
      BY <2>3, <3>1, <3>2
  <2> QED
    BY <1>1, <2>4, <2>5, <2>6, <2>7, <2>8, <2>9, <2>10, <2>11, <2>12, <2>13 DEF Step
<1>2. ASSUME UNCHANGED <<pc, todo, cur, ok, link, incidents>> PROVE \A q \in Procs : LinkOf(q)'
  <2>1. \A q \in Procs : LinkOf(q)
    BY <1>2 DEF LinkInv, LinkOf, Made
  <2> QED
    BY <1>2, <2>1 DEF LinkOf, LinkSeen, Made
<1>3. (\E d \in Devices : DeviceChanges(d)) \/ (\E t \in Targets : TargetChanges(t)) \/ UNCHANGED vars
        => UNCHANGED <<pc, todo, cur, ok, link, incidents>>
  BY DEF DeviceChanges, TargetChanges, vars
<1> QED
  BY <1>1, <1>2, <1>3 DEF Next

-----------------------------------------------------------------------------
(* The theorems. *)

\* The commands and the files between any two steps, of any number of
\* commands on any configuration files (devices.go:38-103, tools.go:60-142).
THEOREM InductiveInvTheorem == Spec => []InductiveInv
<1>1. Init => InductiveInv
  BY TypeInit, PlaceInit, FileInit, CleanInit, LinkInit DEF InductiveInv
<1>2. InductiveInv /\ [Next]_vars => InductiveInv'
  BY TypeStep, PlaceStep, FileStep, CleanStep, LinkStep DEF InductiveInv
<1> QED
  BY <1>1, <1>2, PTL DEF Spec

\* A fix takes the lines of broken devices out of a file, and nothing else
\* (devices.go:55-102), with the exceptions that RestIsKept names.
THEOREM RestIsKeptTheorem == Spec => []RestIsKept
<1>1. InductiveInv => RestIsKept
  BY DEF InductiveInv, FileInv
<1> QED
  BY <1>1, InductiveInvTheorem, PTL

\* A command without an error leaves no mount of a device that was missing
\* all the time (devices.go:38-53, autofix.go, initialized.go).
THEOREM OkMeansCleanTheorem == Spec => []OkMeansClean
<1>1. InductiveInv => OkMeansClean
  <2> SUFFICES ASSUME InductiveInv, Sound, NEW p \in Procs, ok[p], NEW t \in Targets,
                      NEW i \in DOMAIN file[t], file[t][i].kind = "mount",
                      file[t][i].source \in gone[p]
               PROVE  FALSE
    BY DEF OkMeansClean, StillBroken, Sound
  <2> DEFINE l == file[t][i]
  <2>1. FilesRight
    BY FileInvMeans DEF InductiveInv
  <2>2. file[t] # << >>
    OBVIOUS
  <2>3. file[t] = Without(Config[t], dropped[t])
    <3>1. \A q \in Procs : cur[q] = t /\ pc[q] = "write" => file[t] = << >>
      BY <2>1 DEF FilesRight, FileOf
    <3> QED
      BY <2>1, <2>2, <3>1 DEF FilesRight, KeptIn
  <2>4. Config[t] \in Seq(Line) /\ l \in ToSet(file[t])
    BY ConfigAssumption DEF ToSet
  <2>5. l \in ToSet(Config[t]) /\ l.names \cap dropped[t] = {}
    BY <2>3, <2>4, WithoutElements
  <2>6. CleanOf(p, t, dropped[t])
    BY DEF InductiveInv, CleanInv, DevicesSeen
  <2> QED
    BY <2>5, <2>6 DEF CleanOf, ToSet
<1> QED
  BY <1>1, InductiveInvTheorem, PTL

\* A command without an error leaves all links in place (tools.go:60-142),
\* with the exception that LinksAreThere names.
THEOREM LinksAreThereTheorem == Spec => []LinksAreThere
<1>1. InductiveInv => LinksAreThere
  BY DEF InductiveInv, LinkInv, LinkSeen, LinksAreThere
<1> QED
  BY <1>1, InductiveInvTheorem, PTL
=============================================================================
