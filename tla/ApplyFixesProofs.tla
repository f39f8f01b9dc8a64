-------------------------- MODULE ApplyFixesProofs --------------------------
(***************************************************************************)
(* Proofs about ApplyFixes, for any trees, any fixes of them and whatever  *)
(* parses again.                                                           *)
(***************************************************************************)
EXTENDS ApplyFixes, SequenceTheorems, FiniteSetTheorems, WellFoundedInduction, TLAPS

-----------------------------------------------------------------------------
(* Concatenating sequences.                                                *)

LEMMA LeastNumber ==
    ASSUME NEW S \in SUBSET Nat, S # {}
    PROVE  \E x \in S : \A y \in S : x <= y
  <1>1. PICK x \in S : \A y \in S : ~(<<y, x>> \in OpToRel(<, Nat))
    BY WFMin, NatLessThanWellFounded
  <1>2. \A y \in S : ~(y < x)
    BY <1>1 DEF OpToRel
  <1>. QED  BY <1>2

\* The function that FlattenSeq is defined by.
Flattens(f, ss) == f = [i \in 1..Len(ss) |-> IF i = 1 THEN ss[i] ELSE f[i-1] \o ss[i]]

LEMMA FlattensExists ==
    ASSUME NEW S, NEW ss \in Seq(Seq(S))
    PROVE  \E f : Flattens(f, ss)
  <1>. DEFINE n == Len(ss)
              Step(g, i) == IF i = 1 THEN ss[i] ELSE g[i-1] \o ss[i]
              Good(m) == \E g \in [1..n -> Seq(S)] : \A i \in 1..m : g[i] = Step(g, i)
              Bad == {m \in 0..n : ~Good(m)}
  <1>1. n \in Nat /\ \A i \in 1..n : ss[i] \in Seq(S)
    OBVIOUS
  <1>2. SUFFICES ASSUME Bad # {} PROVE FALSE
    <2>1. Good(n)
      <3>. HIDE DEF Good
      <3>. QED  BY <1>1, <1>2
    <2>2. PICK g \in [1..n -> Seq(S)] : \A i \in 1..n : g[i] = Step(g, i)
      BY <2>1
    <2>3. g = [i \in 1..n |-> Step(g, i)]
      BY <2>2
    <2>. QED  BY <2>3 DEF Flattens
  <1>3. PICK m \in Bad : \A l \in Bad : m <= l
    <2>1. Bad \in SUBSET Nat
      BY <1>1
    <2>. HIDE DEF Bad
    <2>. QED  BY <1>2, <2>1, LeastNumber
  <1>4. m # 0
    <2>1. [i \in 1..n |-> <<>>] \in [1..n -> Seq(S)]
      BY EmptySeq
    <2>2. Good(0)
      BY <2>1
    <2>. QED  BY <2>2
  <1>5. m \in 1..n /\ m - 1 \in 0..n /\ m - 1 \notin Bad
    <2>. HIDE DEF Good
    <2>. QED  BY <1>1, <1>3, <1>4
  <1>6. PICK g \in [1..n -> Seq(S)] : \A i \in 1..(m-1) : g[i] = Step(g, i)
    BY <1>5
  <1>. DEFINE e == Step(g, m)
              h == [g EXCEPT ![m] = e]
  <1>7. e \in Seq(S)
    <2>1. CASE m = 1
      BY <1>1, <1>5, <2>1
    <2>2. CASE m # 1
      <3>1. m - 1 \in 1..n
        BY <1>5, <2>2
      <3>2. g[m-1] \in Seq(S) /\ ss[m] \in Seq(S)
        BY <1>1, <1>5, <1>6, <3>1
      <3>. QED  BY <2>2, <3>2, ConcatProperties
    <2>. QED  BY <2>1, <2>2
  <1>8. h \in [1..n -> Seq(S)] /\ h[m] = e /\ \A i \in 1..n : i # m => h[i] = g[i]
    <2>. HIDE DEF e
    <2>. QED  BY <1>5, <1>6, <1>7
  <1>9. ASSUME NEW i \in 1..m PROVE h[i] = Step(h, i)
    <2>1. i \in Nat /\ i \in 1..n /\ (i # 1 => i - 1 \in 1..n /\ i - 1 # m)
      BY <1>5
    <2>2. Step(h, i) = Step(g, i)
      BY <1>8, <2>1
    <2>3. CASE i = m
      BY <1>8, <2>2, <2>3
    <2>4. CASE i # m
      <3>1. i \in 1..(m-1)
        BY <1>5, <2>1, <2>4
      <3>2. g[i] = Step(g, i)
        BY <1>6, <3>1
      <3>. QED  BY <1>8, <2>1, <2>2, <2>4, <3>2
    <2>. QED  BY <2>3, <2>4
  <1>. HIDE DEF h, Step
  <1>10. Good(m)
    BY <1>8, <1>9
  <1>. QED  BY <1>3, <1>10

LEMMA FlattensType ==
    ASSUME NEW S, NEW ss \in Seq(Seq(S)), NEW f, Flattens(f, ss)
    PROVE  f \in [1..Len(ss) -> Seq(S)]
  <1>. DEFINE n == Len(ss)
              Bad == {m \in 1..n : f[m] \notin Seq(S)}
  <1>1. n \in Nat /\ \A i \in 1..n : ss[i] \in Seq(S)
    OBVIOUS
  <1>2. DOMAIN f = 1..n /\ f = [i \in 1..n |-> f[i]]
        /\ \A i \in 1..n : f[i] = IF i = 1 THEN ss[i] ELSE f[i-1] \o ss[i]
    BY DEF Flattens
  <1>3. SUFFICES ASSUME Bad # {} PROVE FALSE
    BY <1>2
  <1>4. PICK m \in Bad : \A l \in Bad : m <= l
    <2>1. Bad \in SUBSET Nat
      BY <1>1
    <2>. HIDE DEF Bad
    <2>. QED  BY <1>3, <2>1, LeastNumber
  <1>5. m # 1 /\ m \in 1..n
    BY <1>1, <1>2
  <1>6. m - 1 \in 1..n /\ m - 1 \notin Bad
    BY <1>4, <1>5
  <1>7. f[m-1] \in Seq(S) /\ ss[m] \in Seq(S) /\ f[m] = f[m-1] \o ss[m]
    BY <1>1, <1>2, <1>5, <1>6
  <1>8. f[m] \in Seq(S)
    BY <1>7, ConcatProperties
  <1>. QED  BY <1>5, <1>8

LEMMA FlattenIs ==
    ASSUME NEW S, NEW ss \in Seq(Seq(S)), NEW f, Flattens(f, ss)
    PROVE  FlattenSeq(ss) = IF ss = <<>> THEN <<>> ELSE f[Len(ss)]
  <1>1. CASE ss = <<>>
    BY <1>1 DEF FlattenSeq
  <1>2. CASE ss # <<>>
    <2>. DEFINE n == Len(ss)
                g == CHOOSE g : Flattens(g, ss)
                Bad == {m \in 1..n : f[m] # g[m]}
    <2>1. n \in Nat /\ n # 0 /\ n \in 1..n
      BY <1>2
    <2>2. Flattens(g, ss)
      OBVIOUS
    <2>3. FlattenSeq(ss) = g[n]
      BY <2>1 DEF FlattenSeq, Flattens
    <2>. HIDE DEF g
    <2>4. Bad = {}
      <3>1. SUFFICES ASSUME Bad # {} PROVE FALSE
        OBVIOUS
      <3>2. PICK m \in Bad : \A l \in Bad : m <= l
        <4>1. Bad \in SUBSET Nat
          BY <2>1
        <4>. HIDE DEF Bad
        <4>. QED  BY <3>1, <4>1, LeastNumber
      <3>3. \A i \in 1..n : /\ f[i] = IF i = 1 THEN ss[i] ELSE f[i-1] \o ss[i]
                            /\ g[i] = IF i = 1 THEN ss[i] ELSE g[i-1] \o ss[i]
        BY <2>2 DEF Flattens
      <3>4. m # 1 /\ m \in 1..n
        BY <3>3
      <3>5. m - 1 \in 1..n /\ m - 1 \notin Bad
        BY <2>1, <3>2, <3>4
      <3>. QED  BY <3>3, <3>4, <3>5
    <2>. QED  BY <1>2, <2>1, <2>3, <2>4
  <1>. QED  BY <1>1, <1>2

LEMMA FlattenType ==
    ASSUME NEW S, NEW ss \in Seq(Seq(S))
    PROVE  FlattenSeq(ss) \in Seq(S)
  <1>1. PICK f : Flattens(f, ss)
    BY FlattensExists
  <1>2. f \in [1..Len(ss) -> Seq(S)]
    BY <1>1, FlattensType
  <1>3. CASE ss = <<>>
    BY <1>1, <1>3, FlattenIs, EmptySeq
  <1>4. CASE ss # <<>>
    <2>1. Len(ss) \in 1..Len(ss)
      BY <1>4
    <2>2. FlattenSeq(ss) = f[Len(ss)]
      BY <1>1, <1>4, FlattenIs
    <2>. QED  BY <1>2, <2>1, <2>2
  <1>. QED  BY <1>3, <1>4

LEMMA FlattenAppend ==
    ASSUME NEW S, NEW ss \in Seq(Seq(S)), NEW s \in Seq(S)
    PROVE  /\ Append(ss, s) \in Seq(Seq(S))
           /\ FlattenSeq(Append(ss, s)) = FlattenSeq(ss) \o s
  <1>. DEFINE T == Seq(S)
              n == Len(ss)
              tt == Append(ss, s)
  <1>1. /\ n \in Nat /\ tt \in Seq(T) /\ tt # <<>> /\ Len(tt) = n + 1
        /\ tt[n+1] = s /\ \A i \in 1..n : tt[i] = ss[i]
    <2>. HIDE DEF T
    <2>1. s \in T /\ ss \in Seq(T)
      BY DEF T
    <2>. QED  BY <2>1, AppendProperties
  <1>. HIDE DEF tt
  <1>2. PICK f : Flattens(f, ss)
    BY FlattensExists
  <1>. DEFINE g == [i \in 1..(n+1) |-> IF i <= n THEN f[i] ELSE FlattenSeq(ss) \o s]
  <1>3. \A i \in 1..n : f[i] = IF i = 1 THEN ss[i] ELSE f[i-1] \o ss[i]
    BY <1>2 DEF Flattens
  <1>4. FlattenSeq(ss) = IF ss = <<>> THEN <<>> ELSE f[n]
    BY <1>2, FlattenIs
  <1>5. (ss = <<>> <=> n = 0) /\ <<>> \o s = s
    BY ConcatEmptySeq, EmptySeq
  <1>6. ASSUME NEW i \in 1..(n+1) PROVE g[i] = IF i = 1 THEN tt[i] ELSE g[i-1] \o tt[i]
    <2>1. CASE i = n + 1
      <3>1. tt[i] = s
        BY <1>1, <2>1
      <3>2. n = 0 => g[i] = s /\ i = 1
        BY <1>1, <1>4, <1>5, <2>1
      <3>3. n # 0 => g[i] = f[n] \o s /\ g[n] = f[n] /\ i - 1 = n /\ i # 1
        BY <1>1, <1>4, <1>5, <2>1
      <3>. HIDE DEF g
      <3>. QED  BY <3>1, <3>2, <3>3
    <2>2. CASE i # n + 1
      <3>1. i \in 1..n /\ tt[i] = ss[i] /\ (i # 1 => i - 1 \in 1..n)
        BY <1>1, <2>2
      <3>. QED  BY <1>1, <1>3, <3>1
    <2>. QED  BY <2>1, <2>2
  <1>7. Flattens(g, tt)
    <2>1. g = [i \in 1..(n+1) |-> g[i]]
      OBVIOUS
    <2>. HIDE DEF g
    <2>. QED  BY <1>1, <1>6, <2>1 DEF Flattens
  <1>8. FlattenSeq(tt) = g[n+1]
    <2>. HIDE DEF g, T
    <2>. QED  BY <1>1, <1>7, FlattenIs DEF T
  <1>9. g[n+1] = FlattenSeq(ss) \o s
    BY <1>1
  <1>. QED  BY <1>1, <1>8, <1>9 DEF tt

\* Induction over sequences, for the members of a set.
LEMMA SeqInduction ==
    ASSUME NEW S, NEW P, <<>> \in P,
           \A s \in Seq(S), e \in S : s \in P => Append(s, e) \in P
    PROVE  Seq(S) \subseteq P
  <1>. DEFINE Bad == {m \in Nat : \E c \in Seq(S) : Len(c) = m /\ c \notin P}
  <1>1. SUFFICES ASSUME Bad # {} PROVE FALSE
    <2>1. \A c \in Seq(S) : Len(c) \in Nat
      OBVIOUS
    <2>. QED  BY <1>1, <2>1
  <1>2. PICK m \in Bad : \A l \in Bad : m <= l
    <2>1. Bad \in SUBSET Nat
      OBVIOUS
    <2>. HIDE DEF Bad
    <2>. QED  BY <1>1, <2>1, LeastNumber
  <1>3. PICK c \in Seq(S) : Len(c) = m /\ c \notin P
    OBVIOUS
  <1>4. PICK s \in Seq(S), e \in S : c = Append(s, e)
    BY <1>3, SequenceEmptyOrAppend
  <1>5. Len(c) = Len(s) + 1 /\ Len(s) \in Nat
    BY <1>4, AppendProperties
  <1>6. Len(s) \notin Bad
    BY <1>2, <1>3, <1>5
  <1>7. s \in P
    BY <1>5, <1>6
  <1>. QED  BY <1>3, <1>4, <1>7

LEMMA FlattenEmpty == FlattenSeq(<<>>) = <<>>
  BY DEF FlattenSeq

LEMMA FlattenConcat ==
    ASSUME NEW S, NEW a \in Seq(Seq(S)), NEW b \in Seq(Seq(S))
    PROVE  a \o b \in Seq(Seq(S)) /\ FlattenSeq(a \o b) = FlattenSeq(a) \o FlattenSeq(b)
  <1>. DEFINE T == Seq(S)
              P == {c \in Seq(T) : FlattenSeq(a \o c) = FlattenSeq(a) \o FlattenSeq(c)}
  <1>1. <<>> \in P
    <2>1. a \o <<>> = a /\ FlattenSeq(a) \o <<>> = FlattenSeq(a)
      BY ConcatEmptySeq, FlattenType
    <2>2. <<>> \in Seq(T)
      BY EmptySeq
    <2>. QED  BY <2>1, <2>2, FlattenEmpty
  <1>2. ASSUME NEW d \in Seq(T), NEW s \in T, d \in P PROVE Append(d, s) \in P
    <2>. DEFINE c == Append(d, s)
                Fa == FlattenSeq(a)
                Fd == FlattenSeq(d)
    <2>1. FlattenSeq(a \o d) = Fa \o Fd
      BY <1>2
    <2>2. a \o c = Append(a \o d, s)
      <3>. HIDE DEF T
      <3>1. a \in Seq(T) /\ <<s>> \in Seq(T) /\ a \o d \in Seq(T)
        BY ConcatProperties DEF T
      <3>2. c = d \o <<s>> /\ Append(a \o d, s) = (a \o d) \o <<s>>
        BY <3>1, AppendIsConcat
      <3>. QED  BY <3>1, <3>2, ConcatAssociative
    <2>3. a \o d \in Seq(T) /\ Fa \in T /\ Fd \in T
      BY FlattenType, ConcatProperties
    <2>. HIDE DEF Fa, Fd
    <2>4. FlattenSeq(Append(a \o d, s)) = FlattenSeq(a \o d) \o s
      BY <2>3, FlattenAppend
    <2>5. FlattenSeq(c) = Fd \o s /\ c \in Seq(T)
      BY FlattenAppend DEF Fd
    <2>6. (Fa \o Fd) \o s = Fa \o (Fd \o s)
      BY <2>3, ConcatAssociative
    <2>. HIDE DEF c, T
    <2>. QED  BY <2>1, <2>2, <2>4, <2>5, <2>6 DEF Fa, c
  <1>. HIDE DEF P
  <1>3. Seq(T) \subseteq P
    <2>. HIDE DEF T
    <2>. QED  BY <1>1, <1>2, SeqInduction
  <1>. QED  BY <1>3, ConcatProperties DEF P

\* What is in the whole is in a part.
LEMMA FlattenRange ==
    ASSUME NEW S, NEW ss \in Seq(Seq(S))
    PROVE  ToSet(FlattenSeq(ss)) = UNION {ToSet(ss[i]) : i \in DOMAIN ss}
  <1>. DEFINE T == Seq(S)
              Parts(c) == UNION {ToSet(c[i]) : i \in DOMAIN c}
              P == {c \in Seq(T) : ToSet(FlattenSeq(c)) = Parts(c)}
  <1>1. <<>> \in P
    <2>1. <<>> \in Seq(T) /\ Parts(<<>>) = {} /\ ToSet(<<>>) = {}
      BY EmptySeq DEF ToSet
    <2>. QED  BY <2>1, FlattenEmpty
  <1>2. ASSUME NEW d \in Seq(T), NEW s \in T, d \in P PROVE Append(d, s) \in P
    <2>. DEFINE c == Append(d, s)
                Fd == FlattenSeq(d)
    <2>1. FlattenSeq(c) = Fd \o s /\ c \in Seq(T) /\ Fd \in T
      BY FlattenAppend, FlattenType
    <2>2. ToSet(Fd \o s) = ToSet(Fd) \cup ToSet(s)
      <3>1. \A q : ToSet(q) = Range(q)
        BY DEF ToSet, Range
      <3>. HIDE DEF Fd
      <3>. QED  BY <2>1, <3>1, RangeConcatenation
    <2>3. ToSet(Fd) = Parts(d)
      BY <1>2
    <2>. HIDE DEF T, Fd
    <2>4. /\ DOMAIN c = DOMAIN d \cup {Len(d) + 1} /\ Len(d) + 1 \notin DOMAIN d
          /\ c[Len(d) + 1] = s /\ \A i \in DOMAIN d : c[i] = d[i]
      OBVIOUS
    <2>. HIDE DEF c
    <2>5. Parts(c) = Parts(d) \cup ToSet(s)
      BY <2>4
    <2>. QED  BY <2>1, <2>2, <2>3, <2>5 DEF c
  <1>. HIDE DEF P
  <1>3. Seq(T) \subseteq P
    <2>. HIDE DEF T
    <2>. QED  BY <1>1, <1>2, SeqInduction
  <1>. QED  BY <1>3 DEF P

\* Applied to each element.
LEMMA MapType ==
    ASSUME NEW S, NEW seq \in Seq(S), NEW R, NEW f, \A i \in DOMAIN seq : f[i] \in R,
           f = [i \in DOMAIN seq |-> f[i]]
    PROVE  f \in Seq(R) /\ Len(f) = Len(seq)
  OBVIOUS

\* Of a longer sequence.
LEMMA AppendMaps ==
    ASSUME NEW S, NEW d \in Seq(S), NEW s \in S, NEW R,
           NEW f \in Seq(R), NEW g \in Seq(R), NEW e \in R,
           Len(f) = Len(d), Len(g) = Len(d) + 1,
           \A i \in DOMAIN d : g[i] = f[i], g[Len(d) + 1] = e
    PROVE  g = Append(f, e)
  <1>1. /\ Append(f, e) \in Seq(R) /\ Len(Append(f, e)) = Len(f) + 1
        /\ \A i \in 1..Len(f) : Append(f, e)[i] = f[i]
        /\ Append(f, e)[Len(f) + 1] = e
    BY AppendProperties
  <1>2. Len(d) \in Nat /\ DOMAIN d = 1..Len(d)
    OBVIOUS
  <1>3. ASSUME NEW i \in 1..Len(g) PROVE g[i] = Append(f, e)[i]
    <2>1. i \in 1..Len(d) \/ i = Len(d) + 1
      BY <1>2
    <2>. QED  BY <1>1, <1>2, <2>1
  <1>. QED  BY <1>1, <1>3, SeqEqual

\* Flattening twice is flattening the parts first.
LEMMA FlattenFlatten ==
    ASSUME NEW S, NEW ss \in Seq(Seq(Seq(S)))
    PROVE  /\ [i \in DOMAIN ss |-> FlattenSeq(ss[i])] \in Seq(Seq(S))
           /\ FlattenSeq(FlattenSeq(ss)) = FlattenSeq([i \in DOMAIN ss |-> FlattenSeq(ss[i])])
  <1>. DEFINE T == Seq(S)
              U == Seq(T)
              Flat(c) == [i \in DOMAIN c |-> FlattenSeq(c[i])]
              P == {c \in Seq(U) : FlattenSeq(FlattenSeq(c)) = FlattenSeq(Flat(c))}
  <1>1. ASSUME NEW c \in Seq(U) PROVE Flat(c) \in Seq(T) /\ Len(Flat(c)) = Len(c)
    <2>1. \A i \in DOMAIN c : c[i] \in U
      <3>. HIDE DEF U
      <3>. QED  OBVIOUS
    <2>2. \A i \in DOMAIN c : Flat(c)[i] \in T
      BY <2>1, FlattenType
    <2>3. Flat(c) = [i \in DOMAIN c |-> Flat(c)[i]]
      OBVIOUS
    <2>. HIDE DEF T, U, Flat
    <2>. QED  BY <2>2, <2>3, MapType
  <1>2. <<>> \in P
    <2>1. Flat(<<>>) = <<>> /\ <<>> \in Seq(U)
      BY EmptySeq
    <2>. HIDE DEF Flat
    <2>. QED  BY <2>1, FlattenEmpty
  <1>3. ASSUME NEW d \in Seq(U), NEW s \in U, d \in P PROVE Append(d, s) \in P
    <2>. DEFINE c == Append(d, s)
                f == FlattenSeq(s)
                Fd == FlattenSeq(d)
    <2>1. FlattenSeq(c) = Fd \o s /\ c \in Seq(U) /\ Fd \in U
      <3>. HIDE DEF T
      <3>. QED  BY FlattenAppend, FlattenType
    <2>2. f \in T /\ FlattenSeq(Fd \o s) = FlattenSeq(Fd) \o f
      BY <2>1, FlattenConcat, FlattenType
    <2>3. /\ Len(c) = Len(d) + 1 /\ c[Len(d) + 1] = s /\ \A i \in DOMAIN d : c[i] = d[i]
          /\ Len(d) + 1 \in DOMAIN c /\ DOMAIN d \subseteq DOMAIN c
      <3>. HIDE DEF U
      <3>. QED  OBVIOUS
    <2>. HIDE DEF c
    <2>4. Flat(c) = Append(Flat(d), f)
      <3>1. /\ Flat(c) \in Seq(T) /\ Flat(d) \in Seq(T)
            /\ Len(Flat(d)) = Len(d) /\ Len(Flat(c)) = Len(d) + 1
        BY <1>1, <2>1, <2>3
      <3>2. (\A i \in DOMAIN d : Flat(c)[i] = Flat(d)[i]) /\ Flat(c)[Len(d) + 1] = f
        BY <2>3
      <3>. HIDE DEF Flat, f, T, U
      <3>. QED  BY <2>2, <3>1, <3>2, AppendMaps
    <2>5. FlattenSeq(Append(Flat(d), f)) = FlattenSeq(Flat(d)) \o f
      <3>1. Flat(d) \in Seq(Seq(S)) /\ f \in Seq(S)
        BY <1>1, <2>2
      <3>. HIDE DEF Flat, T, f
      <3>. QED  BY <3>1, FlattenAppend
    <2>6. FlattenSeq(Fd) = FlattenSeq(Flat(d))
      BY <1>3
    <2>. HIDE DEF Flat, f, Fd, U
    <2>. QED  BY <2>1, <2>2, <2>4, <2>5, <2>6 DEF c
  <1>. HIDE DEF P
  <1>4. Seq(U) \subseteq P
    <2>. HIDE DEF U
    <2>. QED  BY <1>2, <1>3, SeqInduction
  <1>. QED  BY <1>1, <1>4 DEF P

\* A text taken apart into units of one item.
LEMMA NewUnitsFlat ==
    ASSUME NEW S, NEW edit \in Seq(S)
    PROVE  NewUnits(edit) \in Seq(Seq(S)) /\ FlattenSeq(NewUnits(edit)) = edit
  <1>. DEFINE T == Seq(S)
              P == {c \in Seq(S) : FlattenSeq(NewUnits(c)) = c}
  <1>1. ASSUME NEW c \in Seq(S) PROVE NewUnits(c) \in Seq(T) /\ Len(NewUnits(c)) = Len(c)
    <2>1. \A i \in DOMAIN c : NewUnits(c)[i] \in T
      BY DEF NewUnits
    <2>2. NewUnits(c) = [i \in DOMAIN c |-> NewUnits(c)[i]]
      BY DEF NewUnits
    <2>. HIDE DEF T
    <2>. QED  BY <2>1, <2>2, MapType
  <1>2. <<>> \in P
    <2>1. NewUnits(<<>>) = <<>> /\ <<>> \in Seq(S)
      BY EmptySeq DEF NewUnits
    <2>. QED  BY <2>1, FlattenEmpty
  <1>3. ASSUME NEW d \in Seq(S), NEW s \in S, d \in P PROVE Append(d, s) \in P
    <2>. DEFINE c == Append(d, s)
                f == <<s>>
    <2>1. /\ Len(c) = Len(d) + 1 /\ c[Len(d) + 1] = s /\ \A i \in DOMAIN d : c[i] = d[i]
          /\ Len(d) + 1 \in DOMAIN c /\ DOMAIN d \subseteq DOMAIN c /\ c \in Seq(S)
      OBVIOUS
    <2>2. c = d \o f /\ f \in T
      BY AppendIsConcat
    <2>. HIDE DEF c
    <2>3. /\ NewUnits(c) \in Seq(T) /\ NewUnits(d) \in Seq(T)
          /\ Len(NewUnits(d)) = Len(d) /\ Len(NewUnits(c)) = Len(d) + 1
      BY <1>1, <2>1
    <2>4. (\A i \in DOMAIN d : NewUnits(c)[i] = NewUnits(d)[i]) /\ NewUnits(c)[Len(d) + 1] = f
      BY <2>1 DEF NewUnits
    <2>5. NewUnits(c) = Append(NewUnits(d), f)
      <3>. HIDE DEF T, f
      <3>. QED  BY <2>2, <2>3, <2>4, AppendMaps
    <2>6. FlattenSeq(NewUnits(c)) = FlattenSeq(NewUnits(d)) \o f
      <3>1. NewUnits(d) \in Seq(Seq(S)) /\ f \in Seq(S)
        BY <2>2, <2>3
      <3>. HIDE DEF f
      <3>. QED  BY <2>5, <3>1, FlattenAppend
    <2>7. FlattenSeq(NewUnits(d)) = d
      BY <1>3
    <2>. QED  BY <2>1, <2>2, <2>6, <2>7 DEF c
  <1>. HIDE DEF P
  <1>4. Seq(S) \subseteq P
    BY <1>2, <1>3, SeqInduction
  <1>. QED  BY <1>1, <1>4 DEF P

\* A text that is one unit.
LEMMA OneUnitFlat ==
    ASSUME NEW S, NEW edit \in Seq(S)
    PROVE  <<edit>> \in Seq(Seq(S)) /\ FlattenSeq(<<edit>>) = edit
  <1>. DEFINE T == Seq(S)
  <1>1. <<>> \in Seq(T) /\ <<edit>> = Append(<<>>, edit)
    BY EmptySeq
  <1>2. FlattenSeq(Append(<<>>, edit)) = FlattenSeq(<<>>) \o edit
    BY <1>1, FlattenAppend
  <1>3. <<>> \o edit = edit
    OBVIOUS
  <1>. QED  BY <1>1, <1>2, <1>3, FlattenEmpty

\* Units taken apart into what leaves on the left, what stays and what leaves on the right.
LEMMA SplitFlat ==
    ASSUME NEW S, NEW units \in Seq(Seq(S)), NEW lead \in Nat, NEW trail \in Nat,
           lead + trail <= Len(units)
    PROVE  LET before == SubSeq(units, 1, lead)
               middle == SubSeq(units, lead + 1, Len(units) - trail)
               after == SubSeq(units, Len(units) - trail + 1, Len(units))
           IN  /\ before \in Seq(Seq(S)) /\ middle \in Seq(Seq(S)) /\ after \in Seq(Seq(S))
               /\ FlattenSeq(before) \o (FlattenSeq(middle) \o FlattenSeq(after)) = FlattenSeq(units)
  <1>. DEFINE T == Seq(S)
              n == Len(units)
              before == SubSeq(units, 1, lead)
              middle == SubSeq(units, lead + 1, n - trail)
              after == SubSeq(units, n - trail + 1, n)
  <1>1. n \in Nat /\ \A i \in 1..n : units[i] \in T
    OBVIOUS
  <1>. HIDE DEF T
  <1>2. before \in Seq(T) /\ middle \in Seq(T) /\ after \in Seq(T)
    BY <1>1, SubSeqProperties
  <1>3. middle \o after = SubSeq(units, lead + 1, n)
    <2>. DEFINE m == lead + 1
                k == n - trail
    <2>1. units \in Seq(T) /\ m \in 1..n+1 /\ k \in m-1..n /\ n \in k..n
      BY <1>1 DEF T
    <2>. HIDE DEF m, k
    <2>2. SubSeq(units, m, k) \o SubSeq(units, k+1, n) = SubSeq(units, m, n)
      BY <2>1, ConcatAdjacentSubSeq
    <2>. QED  BY <2>2 DEF m, k
  <1>4. before \o SubSeq(units, lead + 1, n) = units
    <2>. DEFINE m == 1
    <2>1. units \in Seq(T) /\ m \in 1..n+1 /\ lead \in m-1..n /\ n \in lead..n
      BY <1>1 DEF T
    <2>. HIDE DEF m
    <2>2. SubSeq(units, m, lead) \o SubSeq(units, lead + 1, n) = SubSeq(units, m, n)
      BY <2>1, ConcatAdjacentSubSeq
    <2>3. SubSeq(units, 1, n) = units
      BY <2>1, SubSeqFull
    <2>. QED  BY <2>2, <2>3 DEF m
  <1>5. SubSeq(units, lead + 1, n) \in Seq(T)
    BY <1>1, SubSeqProperties
  <1>. HIDE DEF before, middle, after
  <1>6. FlattenSeq(middle \o after) = FlattenSeq(middle) \o FlattenSeq(after)
    BY <1>2, FlattenConcat DEF T
  <1>7. FlattenSeq(before \o SubSeq(units, lead + 1, n))
            = FlattenSeq(before) \o FlattenSeq(SubSeq(units, lead + 1, n))
    BY <1>2, <1>5, FlattenConcat DEF T
  <1>. QED  BY <1>2, <1>3, <1>4, <1>6, <1>7 DEF before, middle, after, T

-----------------------------------------------------------------------------
(* Trees.                                                                  *)

\* Each segment is above its children.
HeightOf(height, tr) ==
    /\ height \in [Inner(tr) -> Nat]
    /\ \A n \in Inner(tr) : \A k \in Kids(tr, n) \cap Inner(tr) : height[k] < height[n]

LEMMA HeightExists ==
    ASSUME NEW tr \in Trees
    PROVE  \E height : HeightOf(height, tr)
  <1>1. PICK height \in [Inner(tr) -> 0..Cardinality(Inner(tr))] :
            \A n \in Inner(tr) : \A k \in Kids(tr, n) \cap Inner(tr) : height[k] < height[n]
    BY TreesAssumption
  <1>2. \A n \in Inner(tr) : height[n] \in Nat
    BY <1>1
  <1>. QED  BY <1>1, <1>2 DEF HeightOf

\* Induction from the leaves, for the members of a set.
LEMMA TreeInduction ==
    ASSUME NEW tr \in Trees, NEW P,
           \A n \in Inner(tr) : Kids(tr, n) \cap Inner(tr) \subseteq P => n \in P
    PROVE  Inner(tr) \subseteq P
  <1>1. PICK height : HeightOf(height, tr)
    BY HeightExists
  <1>. DEFINE Bad == {height[n] : n \in Inner(tr) \ P}
  <1>2. SUFFICES ASSUME Bad # {} PROVE FALSE
    OBVIOUS
  <1>3. PICK m \in Bad : \A l \in Bad : m <= l
    <2>1. Bad \in SUBSET Nat
      BY <1>1 DEF HeightOf
    <2>. HIDE DEF Bad
    <2>. QED  BY <1>2, <2>1, LeastNumber
  <1>4. PICK n \in Inner(tr) \ P : m = height[n]
    BY <1>3
  <1>5. Kids(tr, n) \cap Inner(tr) \subseteq P
    <2>1. SUFFICES ASSUME NEW k \in Kids(tr, n) \cap Inner(tr), k \notin P PROVE FALSE
      OBVIOUS
    <2>2. height[k] \in Bad /\ height[k] < m /\ height[k] \in Nat /\ m \in Nat
      BY <1>1, <1>4, <2>1 DEF HeightOf
    <2>. QED  BY <1>3, <2>2
  <1>. QED  BY <1>4, <1>5

\* A step of a recursive definition that looks only at a segment's children.
LooksAtKids(tr, V, D) ==
    /\ D \in [[Inner(tr) -> V] -> [Inner(tr) -> V]]
    /\ \A f, g \in [Inner(tr) -> V] : \A n \in Inner(tr) :
           (\A k \in Kids(tr, n) \cap Inner(tr) : f[k] = g[k]) => D[f][n] = D[g][n]

\* Such a definition has a solution: as many steps of it as the tree is high.
LEMMA TreeRecursion ==
    ASSUME NEW tr \in Trees, NEW V, V # {}, NEW D, LooksAtKids(tr, V, D)
    PROVE  \E f \in [Inner(tr) -> V] : f = D[f]
  <1>. USE DEF LooksAtKids
  <1>. DEFINE F == [Inner(tr) -> V]
              C == Cardinality(Inner(tr))
  <1>1. PICK height \in [Inner(tr) -> 0..C] :
            \A n \in Inner(tr) : \A k \in Kids(tr, n) \cap Inner(tr) : height[k] < height[n]
    BY TreesAssumption
  <1>2. \A n \in Inner(tr) : height[n] \in Nat /\ height[n] <= C
    BY <1>1
  <1>3. C \in Nat
    BY TreesAssumption, FS_CardinalityType
  <1>. HIDE DEF C
  <1>. DEFINE Fits(f, h) == \A n \in Inner(tr) : height[n] < h => f[n] = D[f][n]
              Bad == {h \in Nat : ~ \E f \in F : Fits(f, h)}
  <1>4. Bad = {}
    <2>1. SUFFICES ASSUME Bad # {} PROVE FALSE
      OBVIOUS
    <2>2. PICK h \in Bad : \A l \in Bad : h <= l
      <3>1. Bad \in SUBSET Nat
        OBVIOUS
      <3>. HIDE DEF Bad
      <3>. QED  BY <2>1, <3>1, LeastNumber
    <2>3. h # 0
      <3>. PICK v \in V : TRUE
        OBVIOUS
      <3>1. [n \in Inner(tr) |-> v] \in F
        OBVIOUS
      <3>2. Fits([n \in Inner(tr) |-> v], 0)
        BY <1>2
      <3>. HIDE DEF Fits, F
      <3>. QED  BY <3>1, <3>2
    <2>4. h \in Nat /\ h - 1 \in Nat /\ h - 1 \notin Bad
      <3>1. h \in Nat
        OBVIOUS
      <3>. HIDE DEF Bad
      <3>. QED  BY <2>2, <2>3, <3>1
    <2>5. PICK f \in F : Fits(f, h - 1)
      <3>. HIDE DEF Fits, F
      <3>. QED  BY <2>4
    <2>. DEFINE g == D[f]
    <2>6. g \in F
      OBVIOUS
    <2>7. ASSUME NEW n \in Inner(tr), height[n] < h PROVE g[n] = D[g][n]
      <3>1. ASSUME NEW k \in Kids(tr, n) \cap Inner(tr) PROVE f[k] = g[k]
        <4>1. height[k] < h - 1
          BY <1>1, <1>2, <2>4, <2>7
        <4>. QED  BY <2>5, <4>1
      <3>2. D[f][n] = D[g][n]
        <4>. HIDE DEF g
        <4>. QED  BY <2>6, <3>1
      <3>. QED  BY <3>2
    <2>8. Fits(g, h)
      BY <2>7
    <2>. HIDE DEF Fits, g, F
    <2>. QED  BY <2>2, <2>6, <2>8
  <1>5. C + 1 \in Nat /\ \A n \in Inner(tr) : height[n] < C + 1
    BY <1>2, <1>3
  <1>6. PICK f \in F : Fits(f, C + 1)
    <2>. HIDE DEF Fits, F
    <2>. QED  BY <1>4, <1>5
  <1>7. \A n \in Inner(tr) : f[n] = D[f][n]
    BY <1>5, <1>6
  <1>8. D[f] \in F
    OBVIOUS
  <1>. QED  BY <1>7, <1>8

LEMMA KidsType ==
    ASSUME NEW tr \in Trees, NEW n \in Inner(tr)
    PROVE  /\ tr.kids[n] \in Seq(Inner(tr) \cup Raws) /\ tr.kids[n] # <<>>
           /\ Kids(tr, n) \subseteq Inner(tr) \cup Raws
           /\ Kids(tr, n) = {tr.kids[n][i] : i \in 1..Len(tr.kids[n])}
  <1>. DEFINE kids == tr.kids[n]
              S == Inner(tr) \cup Raws
  <1>1. kids \in Seq(S) /\ kids # <<>>
    BY TreesAssumption
  <1>. HIDE DEF kids, S
  <1>2. /\ \A i \in 1..Len(kids) : kids[i] \in S
        /\ ToSet(kids) = {kids[i] : i \in 1..Len(kids)}
    BY <1>1 DEF ToSet
  <1>. QED  BY <1>1, <1>2 DEF kids, S, Kids

\* What the definition of Below says of it.
BelowOf(tr, below, n) ==
    {n} \cup UNION {IF k \in Inner(tr) THEN below[k] ELSE {k} : k \in Kids(tr, n)}

LEMMA BelowIs ==
    ASSUME NEW tr \in Trees
    PROVE  Below(tr) = [n \in Inner(tr) |-> BelowOf(tr, Below(tr), n)]
  <1>. DEFINE V == SUBSET (Inner(tr) \cup Raws)
              D == [f \in [Inner(tr) -> V] |-> [n \in Inner(tr) |-> BelowOf(tr, f, n)]]
  <1>1. \A n \in Inner(tr) : Kids(tr, n) \subseteq Inner(tr) \cup Raws
    BY KidsType
  <1>2. D \in [[Inner(tr) -> V] -> [Inner(tr) -> V]]
    <2>1. ASSUME NEW f \in [Inner(tr) -> V], NEW n \in Inner(tr) PROVE BelowOf(tr, f, n) \in V
      BY <1>1 DEF BelowOf
    <2>. QED  BY <2>1
  <1>3. ASSUME NEW f \in [Inner(tr) -> V], NEW g \in [Inner(tr) -> V], NEW n \in Inner(tr),
               \A k \in Kids(tr, n) \cap Inner(tr) : f[k] = g[k]
        PROVE  D[f][n] = D[g][n]
    BY <1>3 DEF BelowOf
  <1>4. V # {}
    OBVIOUS
  <1>5. PICK f \in [Inner(tr) -> V] : f = D[f]
    <2>. HIDE DEF D, V
    <2>1. LooksAtKids(tr, V, D)
      BY <1>2, <1>3 DEF LooksAtKids
    <2>. QED  BY <1>4, <2>1, TreeRecursion
  <1>6. f = [n \in Inner(tr) |-> BelowOf(tr, f, n)]
    BY <1>5
  <1>. QED  BY <1>6 DEF Below, BelowOf

LEMMA BelowRule ==
    ASSUME NEW tr \in Trees, NEW n \in Inner(tr)
    PROVE  /\ n \in Below(tr)[n]
           /\ Kids(tr, n) \subseteq Below(tr)[n]
           /\ \A k \in Kids(tr, n) \cap Inner(tr) : Below(tr)[k] \subseteq Below(tr)[n]
           /\ \A m \in Below(tr)[n] :
                  \/ m = n
                  \/ m \in Kids(tr, n)
                  \/ \E k \in Kids(tr, n) \cap Inner(tr) : m \in Below(tr)[k]
  <1>. DEFINE B == Below(tr)
  <1>1. ASSUME NEW k \in Inner(tr) PROVE B[k] = BelowOf(tr, B, k)
    <2>1. B = [m \in Inner(tr) |-> BelowOf(tr, B, m)]
      BY BelowIs
    <2>. HIDE DEF B
    <2>. QED  BY <2>1
  <1>. HIDE DEF B
  <1>2. B[n] = {n} \cup UNION {IF k \in Inner(tr) THEN B[k] ELSE {k} : k \in Kids(tr, n)}
    BY <1>1 DEF BelowOf
  <1>3. \A k \in Kids(tr, n) \cap Inner(tr) : k \in B[k]
    BY <1>1 DEF BelowOf
  <1>. QED  BY <1>2, <1>3 DEF B

LEMMA BelowLower ==
    ASSUME NEW tr \in Trees, NEW height, HeightOf(height, tr), NEW n \in Inner(tr),
           NEW m \in Below(tr)[n] \cap Inner(tr)
    PROVE  m = n \/ height[m] < height[n]
  <1>. DEFINE P == {k \in Inner(tr) : \A l \in Below(tr)[k] \cap Inner(tr) :
                        l = k \/ height[l] < height[k]}
  <1>1. ASSUME NEW k \in Inner(tr), Kids(tr, k) \cap Inner(tr) \subseteq P PROVE k \in P
    <2>1. SUFFICES ASSUME NEW l \in Below(tr)[k] \cap Inner(tr), l # k
                   PROVE  height[l] < height[k]
      OBVIOUS
    <2>2. l \in Kids(tr, k) \/ \E c \in Kids(tr, k) \cap Inner(tr) : l \in Below(tr)[c]
      BY <2>1, BelowRule
    <2>3. \A c \in Kids(tr, k) \cap Inner(tr) :
              height[c] < height[k] /\ height[c] \in Nat /\ height[k] \in Nat /\ height[l] \in Nat
      BY DEF HeightOf
    <2>4. CASE l \in Kids(tr, k)
      BY <2>3, <2>4
    <2>5. ASSUME NEW c \in Kids(tr, k) \cap Inner(tr), l \in Below(tr)[c]
          PROVE  height[l] < height[k]
      <3>1. l = c \/ height[l] < height[c]
        BY <1>1, <2>5
      <3>. QED  BY <2>3, <3>1
    <2>. QED  BY <2>2, <2>4, <2>5
  <1>. HIDE DEF P
  <1>2. Inner(tr) \subseteq P
    BY <1>1, TreeInduction
  <1>. QED  BY <1>2 DEF P

\* What is below a segment below another is below that one.
LEMMA BelowBelow ==
    ASSUME NEW tr \in Trees, NEW n \in Inner(tr), NEW u \in Inner(tr), u \in Below(tr)[n]
    PROVE  Below(tr)[u] \subseteq Below(tr)[n]
  <1>. DEFINE P == {m \in Inner(tr) : u \in Below(tr)[m] => Below(tr)[u] \subseteq Below(tr)[m]}
  <1>1. ASSUME NEW m \in Inner(tr), Kids(tr, m) \cap Inner(tr) \subseteq P PROVE m \in P
    BY <1>1, BelowRule
  <1>. HIDE DEF P
  <1>2. Inner(tr) \subseteq P
    BY <1>1, TreeInduction
  <1>. QED  BY <1>2 DEF P

\* What is below a child is strictly below its parent.
LEMMA BelowKids ==
    ASSUME NEW tr \in Trees, NEW n \in Inner(tr), NEW k \in Kids(tr, n) \cap Inner(tr)
    PROVE  k # n /\ n \notin Below(tr)[k] /\ Below(tr)[k] \subseteq Below(tr)[n] \ {n}
  <1>1. PICK height : HeightOf(height, tr)
    BY HeightExists
  <1>2. height[k] < height[n] /\ height[n] \in Nat /\ height[k] \in Nat
    BY <1>1 DEF HeightOf
  <1>3. n \in Below(tr)[k] => n = k \/ height[n] < height[k]
    BY <1>1, BelowLower
  <1>. QED  BY <1>2, <1>3, BelowRule

\* The root is below itself only.
LEMMA RootOnTop ==
    ASSUME NEW tr \in Trees, NEW n \in Inner(tr), Root \in Below(tr)[n]
    PROVE  n = Root
  <1>1. PICK height : HeightOf(height, tr)
    BY HeightExists
  <1>2. Root \in Inner(tr) /\ n \in Below(tr)[Root]
    BY TreesAssumption
  <1>3. n = Root \/ height[n] < height[Root]
    BY <1>1, <1>2, BelowLower
  <1>4. n = Root \/ height[Root] < height[n]
    BY <1>1, <1>2, BelowLower
  <1>5. height[n] \in Nat /\ height[Root] \in Nat
    BY <1>1, <1>2 DEF HeightOf
  <1>. QED  BY <1>3, <1>4, <1>5

LEMMA OneParent ==
    ASSUME NEW tr \in Trees, NEW n \in Inner(tr), NEW m \in Inner(tr),
           NEW k \in Kids(tr, n), k \in Kids(tr, m)
    PROVE  n = m
  <1>1. (\E i \in DOMAIN tr.kids[n] : k = tr.kids[n][i])
        /\ \E j \in DOMAIN tr.kids[m] : k = tr.kids[m][j]
    BY KidsType DEF Kids, ToSet
  <1>. QED  BY <1>1, TreesAssumption

\* Below a segment one goes down through the parents.
LEMMA ParentBelow ==
    ASSUME NEW tr \in Trees, NEW n \in Inner(tr), NEW k \in Kids(tr, n),
           NEW g \in Inner(tr), k \in Below(tr)[g], k # g
    PROVE  n \in Below(tr)[g]
  <1>. DEFINE P == {h \in Inner(tr) : k \in Below(tr)[h] /\ k # h => n \in Below(tr)[h]}
  <1>1. ASSUME NEW h \in Inner(tr), Kids(tr, h) \cap Inner(tr) \subseteq P PROVE h \in P
    <2>1. SUFFICES ASSUME k \in Below(tr)[h], k # h PROVE n \in Below(tr)[h]
      OBVIOUS
    <2>2. k \in Kids(tr, h) \/ \E c \in Kids(tr, h) \cap Inner(tr) : k \in Below(tr)[c]
      BY <2>1, BelowRule
    <2>3. CASE k \in Kids(tr, h)
      BY <2>3, OneParent, BelowRule
    <2>4. ASSUME NEW c \in Kids(tr, h) \cap Inner(tr), k \in Below(tr)[c], k # c
          PROVE  n \in Below(tr)[h]
      <3>1. n \in Below(tr)[c]
        BY <1>1, <2>4
      <3>. QED  BY <3>1, BelowRule
    <2>. QED  BY <2>2, <2>3, <2>4
  <1>. HIDE DEF P
  <1>2. Inner(tr) \subseteq P
    BY <1>1, TreeInduction
  <1>. QED  BY <1>2 DEF P

-----------------------------------------------------------------------------
(* Gathering the fixes by anchor.                                          *)

Infos(tr) == [fixes : Seq(Fixes(tr)), sources : Seq(SourceFixes)]

\* The fixes proposed have something to put in, unless they delete.
HasEdit(f) == f.type # "delete" => f.edit # <<>>

LEMMA FirstReplaceRule ==
    ASSUME NEW tr, NEW info \in Infos(tr)
    PROVE  \/ /\ FirstReplace(info) = 0
              /\ \A i \in DOMAIN info.fixes : info.fixes[i].type # "replace"
           \/ /\ FirstReplace(info) \in DOMAIN info.fixes
              /\ info.fixes[FirstReplace(info)].type = "replace"
              /\ \A i \in DOMAIN info.fixes :
                     info.fixes[i].type = "replace" => FirstReplace(info) <= i
  <1>. DEFINE fixes == info.fixes
              I == {i \in 1..Len(fixes) : fixes[i].type = "replace"}
  <1>1. fixes \in Seq(Fixes(tr))
    BY DEF Infos
  <1>2. DOMAIN fixes = 1..Len(fixes) /\ Len(fixes) \in Nat
    <2>. HIDE DEF fixes
    <2>. QED  BY <1>1
  <1>3. FirstReplace(info) = IF I # {} THEN Min(I) ELSE 0
    BY DEF FirstReplace, SelectInSeq
  <1>4. I \in SUBSET Nat
    BY <1>2
  <1>5. I # {} => Min(I) \in I /\ \A i \in I : Min(I) <= i
    <2>. HIDE DEF I
    <2>. QED  BY <1>4, LeastNumber DEF Min
  <1>. HIDE DEF fixes
  <1>. QED  BY <1>2, <1>3, <1>5 DEF fixes

\* Of the fixes told of an anchor: the info knows their anchor, a source edit is
\* the first replace or none, and what the source edits say was gathered, both in
\* the info and on the first replace.
Gathers(info, k, told) ==
    LET first == FirstReplace(info)
    IN  /\ \A i \in DOMAIN info.fixes : info.fixes[i].anchor = k /\ HasEdit(info.fixes[i])
        /\ \A i \in DOMAIN info.fixes :
               IsJustSourceEdit(info.fixes[i]) =>
                   i = first /\ ToSet(info.fixes[i].edit[1].sources) \subseteq ToSet(info.sources)
        /\ \A f \in told :
               IsJustSourceEdit(f) =>
                   /\ first # 0
                   /\ ToSet(f.edit[1].sources) \subseteq ToSet(info.sources)
                   /\ ToSet(f.edit[1].sources) \subseteq ToSet(info.fixes[first].edit[1].sources)

\* What condensing a source edit onto a fix does to it.
Condensed(f, sources) == [f EXCEPT !.edit[1].sources = sources]

LEMMA CondensedRule ==
    ASSUME NEW tr, NEW f \in Fixes(tr), f.edit # <<>>, NEW sources \in Seq(SourceFixes)
    PROVE  LET g == Condensed(f, sources)
           IN  /\ g \in Fixes(tr) /\ g.type = f.type /\ g.anchor = f.anchor
               /\ g.edit # <<>> /\ g.edit[1].sources = sources
               /\ IsJustSourceEdit(g) <=> IsJustSourceEdit(f)
  <1>. DEFINE edit == f.edit
              item == edit[1]
              new == [item EXCEPT !.sources = sources]
              edit2 == [edit EXCEPT ![1] = new]
  <1>1. f.type \in EditTypes /\ f.anchor \in Inner(tr) \cup Raws /\ edit \in Seq(Items)
        /\ f = [type |-> f.type, anchor |-> f.anchor, edit |-> edit, alike |-> f.alike]
        /\ f.alike \in BOOLEAN
    BY DEF Fixes
  <1>2. Len(edit) \in Nat /\ 1 \in 1..Len(edit) /\ item \in Items
    <2>. HIDE DEF edit
    <2>1. edit # <<>> => Len(edit) # 0
      BY <1>1
    <2>. QED  BY <1>1, <2>1 DEF edit
  <1>3. new \in Items /\ new.raw = item.raw /\ new.sources = sources
    <2>. HIDE DEF item
    <2>. QED  BY <1>2 DEF Items
  <1>4. edit2 \in Seq(Items) /\ Len(edit2) = Len(edit) /\ edit2[1] = new /\ edit2 # <<>>
    <2>. HIDE DEF edit, new
    <2>1. Len(edit2) = Len(edit) /\ edit2[1] = new /\ edit2 \in Seq(Items)
      BY <1>1, <1>2, <1>3
    <2>. HIDE DEF edit2
    <2>. QED  BY <1>2, <2>1
  <1>5. Condensed(f, sources)
            = [type |-> f.type, anchor |-> f.anchor, edit |-> edit2, alike |-> f.alike]
    <2>1. Condensed(f, sources) = [f EXCEPT !.edit = edit2]
      BY DEF Condensed
    <2>. HIDE DEF edit2, edit
    <2>. QED  BY <1>1, <2>1
  <1>. HIDE DEF edit2, new
  <1>6. IsJustSourceEdit(Condensed(f, sources)) <=> IsJustSourceEdit(f)
    BY <1>3, <1>4, <1>5 DEF IsJustSourceEdit
  <1>. QED  BY <1>1, <1>3, <1>4, <1>5, <1>6 DEF Fixes

LEMMA AddKeeps ==
    ASSUME NEW tr \in Trees, NEW info \in Infos(tr), NEW k, NEW told,
           Gathers(info, k, told),
           NEW f \in Fixes(tr), f.anchor = k, HasEdit(f)
    PROVE  Add(info, f) \in Infos(tr) /\ Gathers(Add(info, f), k, told \cup {f})
  <1>. DEFINE fixes == info.fixes
              first == FirstReplace(info)
              sources == info.sources \o (IF IsJustSourceEdit(f) THEN f.edit[1].sources ELSE <<>>)
              added == Add(info, f)
  <1>1. /\ fixes \in Seq(Fixes(tr)) /\ info.sources \in Seq(SourceFixes)
        /\ info = [fixes |-> fixes, sources |-> info.sources]
    BY DEF Infos
  <1>2. /\ Len(fixes) \in Nat /\ DOMAIN fixes = 1..Len(fixes)
        /\ \A i \in DOMAIN fixes : fixes[i] \in Fixes(tr)
        /\ ToSet(fixes) = {fixes[i] : i \in DOMAIN fixes}
    <2>. HIDE DEF fixes
    <2>. QED  BY <1>1 DEF ToSet
  <1>3. IsJustSourceEdit(f) => f.edit[1].sources \in Seq(SourceFixes)
    <2>1. SUFFICES ASSUME IsJustSourceEdit(f) PROVE f.edit[1].sources \in Seq(SourceFixes)
      OBVIOUS
    <2>2. f.edit \in Seq(Items) /\ Len(f.edit) = 1
      BY <2>1 DEF Fixes, IsJustSourceEdit
    <2>3. f.edit[1] \in Items
      <3>. DEFINE e == f.edit
      <3>. HIDE DEF e
      <3>1. e \in Seq(Items) /\ Len(e) = 1
        BY <2>2 DEF e
      <3>2. e[1] \in Items
        <4>1. 1 \in 1..Len(e)
          BY <3>1
        <4>. QED  BY <3>1, <4>1, ElementOfSeq
      <3>. QED  BY <3>2 DEF e
    <2>. QED  BY <2>3 DEF Items
  <1>4. /\ sources \in Seq(SourceFixes) /\ ToSet(info.sources) \subseteq ToSet(sources)
        /\ IsJustSourceEdit(f) => ToSet(f.edit[1].sources) \subseteq ToSet(sources)
    <2>1. \A q : ToSet(q) = Range(q)
      BY DEF ToSet, Range
    <2>. DEFINE own == IF IsJustSourceEdit(f) THEN f.edit[1].sources ELSE <<>>
    <2>2. own \in Seq(SourceFixes)
      BY <1>3, EmptySeq
    <2>3. IsJustSourceEdit(f) => own = f.edit[1].sources
      OBVIOUS
    <2>. HIDE DEF own
    <2>4. info.sources \o own \in Seq(SourceFixes)
          /\ Range(info.sources \o own) = Range(info.sources) \cup Range(own)
      BY <1>1, <2>2, ConcatProperties, RangeConcatenation
    <2>. QED  BY <2>1, <2>3, <2>4 DEF own
  <1>. HIDE DEF sources
  <1>5. /\ \A i \in DOMAIN fixes : fixes[i].anchor = k /\ HasEdit(fixes[i])
        /\ \A i \in DOMAIN fixes : IsJustSourceEdit(fixes[i]) =>
               i = first /\ ToSet(fixes[i].edit[1].sources) \subseteq ToSet(info.sources)
        /\ \A h \in told : IsJustSourceEdit(h) =>
               /\ first # 0
               /\ ToSet(h.edit[1].sources) \subseteq ToSet(info.sources)
               /\ ToSet(h.edit[1].sources) \subseteq ToSet(fixes[first].edit[1].sources)
    BY DEF Gathers
  <1>6. \/ first = 0 /\ \A i \in DOMAIN fixes : fixes[i].type # "replace"
        \/ /\ first \in DOMAIN fixes /\ fixes[first].type = "replace"
           /\ \A i \in DOMAIN fixes : fixes[i].type = "replace" => first <= i
    BY FirstReplaceRule
  <1>7. IsJustSourceEdit(f) => f.type = "replace"
    BY DEF IsJustSourceEdit
  <1>8. CASE Known(info, f)
    <2>1. added = info
      BY <1>8 DEF Add
    <2>2. PICK i \in DOMAIN fixes : f.type = fixes[i].type /\ f.anchor = fixes[i].anchor
                                       /\ f.edit = fixes[i].edit
      BY <1>2, <1>8 DEF Known, SameFix
    <2>3. IsJustSourceEdit(f) =>
              /\ first # 0
              /\ ToSet(f.edit[1].sources) \subseteq ToSet(info.sources)
              /\ ToSet(f.edit[1].sources) \subseteq ToSet(fixes[first].edit[1].sources)
      <3>. DEFINE g == fixes[i]
      <3>1. f.type = g.type /\ f.anchor = g.anchor /\ f.edit = g.edit
        BY <2>2
      <3>2. IsJustSourceEdit(g) =>
                /\ first # 0
                /\ ToSet(g.edit[1].sources) \subseteq ToSet(info.sources)
                /\ ToSet(g.edit[1].sources) \subseteq ToSet(fixes[first].edit[1].sources)
        BY <1>2, <1>5
      <3>. HIDE DEF g, fixes, first
      <3>3. IsJustSourceEdit(f) <=> IsJustSourceEdit(g)
        BY <3>1 DEF IsJustSourceEdit
      <3>. QED  BY <3>1, <3>2, <3>3
    <2>. HIDE DEF added
    <2>4. Gathers(info, k, told \cup {f})
      BY <1>5, <2>3 DEF Gathers
    <2>. QED  BY <2>1, <2>4 DEF added
  <1>9. CASE ~Known(info, f) /\ IsJustSourceEdit(f) /\ first # 0
    <2>. DEFINE g == Condensed(fixes[first], sources)
                fixes2 == [fixes EXCEPT ![first] = g]
    <2>1. first \in DOMAIN fixes /\ fixes[first] \in Fixes(tr) /\ fixes[first].edit # <<>>
      BY <1>2, <1>5, <1>6, <1>9 DEF HasEdit
    <2>2. added = [fixes |-> fixes2, sources |-> sources]
      <3>. HIDE DEF first
      <3>. QED  BY <1>9 DEF Add, Condensed, sources, first
    <2>3. /\ g \in Fixes(tr) /\ g.type = fixes[first].type /\ g.anchor = fixes[first].anchor
          /\ g.edit # <<>> /\ g.edit[1].sources = sources
          /\ IsJustSourceEdit(g) <=> IsJustSourceEdit(fixes[first])
      <3>. DEFINE h == fixes[first]
      <3>1. h \in Fixes(tr) /\ h.edit # <<>>
        BY <2>1
      <3>. HIDE DEF h
      <3>. QED  BY <1>4, <3>1, CondensedRule DEF h
    <2>. HIDE DEF g, fixes, first
    <2>4. /\ fixes2 \in Seq(Fixes(tr)) /\ DOMAIN fixes2 = DOMAIN fixes /\ fixes2[first] = g
          /\ \A i \in DOMAIN fixes : i # first => fixes2[i] = fixes[i]
      BY <1>1, <2>1, <2>3
    <2>5. added \in Infos(tr) /\ added.fixes = fixes2 /\ added.sources = sources
      <3>. HIDE DEF added, fixes2
      <3>. QED  BY <1>4, <2>2, <2>4 DEF Infos
    <2>. HIDE DEF added, fixes2
    <2>6. FirstReplace(added) = first
      <3>1. \/ /\ FirstReplace(added) = 0
               /\ \A i \in DOMAIN fixes2 : fixes2[i].type # "replace"
            \/ /\ FirstReplace(added) \in DOMAIN fixes2
               /\ fixes2[FirstReplace(added)].type = "replace"
               /\ \A i \in DOMAIN fixes2 : fixes2[i].type = "replace" => FirstReplace(added) <= i
        BY <2>5, FirstReplaceRule
      <3>2. \A i \in DOMAIN fixes : fixes2[i].type = fixes[i].type
        BY <2>3, <2>4
      <3>. DEFINE other == FirstReplace(added)
      <3>. HIDE DEF other
      <3>3. other \in DOMAIN fixes /\ other <= first /\ first <= other
        BY <1>6, <2>1, <2>4, <3>1, <3>2 DEF other
      <3>. QED  BY <1>2, <2>1, <3>3 DEF other
    <2>7. /\ \A i \in DOMAIN fixes2 : fixes2[i].anchor = k /\ HasEdit(fixes2[i])
          /\ \A i \in DOMAIN fixes2 : IsJustSourceEdit(fixes2[i]) =>
                 i = first /\ ToSet(fixes2[i].edit[1].sources) \subseteq ToSet(sources)
      <3>1. ASSUME NEW i \in DOMAIN fixes
            PROVE  /\ fixes2[i].anchor = k /\ HasEdit(fixes2[i])
                   /\ IsJustSourceEdit(fixes2[i]) =>
                        i = first /\ ToSet(fixes2[i].edit[1].sources) \subseteq ToSet(sources)
        <4>1. CASE i = first
          BY <1>5, <2>1, <2>3, <2>4, <4>1 DEF HasEdit
        <4>2. CASE i # first
          BY <1>5, <2>4, <4>2
        <4>. QED  BY <4>1, <4>2
      <3>. QED  BY <2>4, <3>1
    <2>8. ASSUME NEW h \in told \cup {f}, IsJustSourceEdit(h)
          PROVE  /\ first # 0
                 /\ ToSet(h.edit[1].sources) \subseteq ToSet(sources)
                 /\ ToSet(h.edit[1].sources) \subseteq ToSet(fixes2[first].edit[1].sources)
      BY <1>4, <1>5, <1>9, <2>3, <2>4, <2>8
    <2>9. Gathers(added, k, told \cup {f})
      BY <2>5, <2>6, <2>7, <2>8 DEF Gathers
    <2>. QED  BY <2>5, <2>9 DEF added
  <1>10. CASE ~Known(info, f) /\ ~(IsJustSourceEdit(f) /\ first # 0)
    <2>. DEFINE fixes2 == Append(fixes, f)
                last == Len(fixes) + 1
    <2>1. added = [fixes |-> fixes2, sources |-> sources]
      <3>. HIDE DEF first
      <3>. QED  BY <1>10 DEF Add, sources, first
    <2>. HIDE DEF fixes, first
    <2>2. /\ fixes2 \in Seq(Fixes(tr)) /\ DOMAIN fixes2 = DOMAIN fixes \cup {last}
          /\ last \notin DOMAIN fixes /\ fixes2[last] = f
          /\ \A i \in DOMAIN fixes : fixes2[i] = fixes[i] /\ i < last
      <3>1. /\ fixes2 \in Seq(Fixes(tr)) /\ Len(fixes2) = last
            /\ \A i \in 1..Len(fixes) : fixes2[i] = fixes[i]
            /\ fixes2[last] = f
        BY <1>1, AppendProperties
      <3>. HIDE DEF fixes2
      <3>2. DOMAIN fixes2 = 1..last
        BY <3>1
      <3>. QED  BY <1>2, <3>1, <3>2
    <2>3. added \in Infos(tr) /\ added.fixes = fixes2 /\ added.sources = sources
      <3>. HIDE DEF added, fixes2
      <3>. QED  BY <1>4, <2>1, <2>2 DEF Infos
    <2>. HIDE DEF added, fixes2
    <2>. DEFINE other == FirstReplace(added)
    <2>4. \/ /\ other = 0
             /\ \A i \in DOMAIN fixes2 : fixes2[i].type # "replace"
          \/ /\ other \in DOMAIN fixes2
             /\ fixes2[other].type = "replace"
             /\ \A i \in DOMAIN fixes2 : fixes2[i].type = "replace" => other <= i
      BY <2>3, FirstReplaceRule
    <2>. HIDE DEF other
    <2>5. first # 0 => other = first
      <3>1. SUFFICES ASSUME first # 0 PROVE other = first
        OBVIOUS
      <3>2. first \in DOMAIN fixes2 /\ fixes2[first].type = "replace"
        BY <1>6, <2>2, <3>1
      <3>3. other <= first /\ other \in DOMAIN fixes2 /\ fixes2[other].type = "replace"
        BY <2>4, <3>2
      <3>4. last \in Nat /\ first \in Nat /\ other \in Nat
        BY <1>2, <1>6, <2>2, <3>3 DEF last
      <3>5. other \in DOMAIN fixes
        BY <1>2, <1>6, <2>2, <3>1, <3>3, <3>4
      <3>6. first <= other
        BY <1>6, <2>2, <3>1, <3>3, <3>5
      <3>. QED  BY <3>3, <3>4, <3>6
    <2>6. IsJustSourceEdit(f) => first = 0 /\ other = last /\ other # 0
      <3>1. SUFFICES ASSUME IsJustSourceEdit(f), first = 0 PROVE other = last /\ other # 0
        BY <1>10
      <3>2. \A i \in DOMAIN fixes : fixes[i].type # "replace"
        BY <1>2, <1>6, <3>1
      <3>. QED  BY <1>2, <1>7, <2>2, <2>4, <3>1, <3>2 DEF last
    <2>. HIDE DEF last
    <2>7. ASSUME NEW i \in DOMAIN fixes2
          PROVE  /\ fixes2[i].anchor = k /\ HasEdit(fixes2[i])
                 /\ IsJustSourceEdit(fixes2[i]) =>
                      i = other /\ ToSet(fixes2[i].edit[1].sources) \subseteq ToSet(sources)
      <3>1. CASE i = last
        BY <1>4, <2>2, <2>6, <3>1
      <3>2. CASE i # last
        <4>1. i \in DOMAIN fixes /\ fixes2[i] = fixes[i]
          BY <2>2, <3>2
        <4>2. IsJustSourceEdit(fixes[i]) => i = first /\ first # 0
          BY <1>2, <1>5, <4>1
        <4>. QED  BY <1>4, <1>5, <2>5, <4>1, <4>2
      <3>. QED  BY <3>1, <3>2
    <2>8. ASSUME NEW h \in told \cup {f}, IsJustSourceEdit(h)
          PROVE  /\ other # 0
                 /\ ToSet(h.edit[1].sources) \subseteq ToSet(sources)
                 /\ ToSet(h.edit[1].sources) \subseteq ToSet(fixes2[other].edit[1].sources)
      <3>1. CASE h = f
        BY <1>4, <2>2, <2>6, <2>8, <3>1
      <3>2. CASE h \in told
        <4>1. first # 0 /\ first \in DOMAIN fixes /\ fixes2[first] = fixes[first]
          BY <1>5, <1>6, <2>2, <2>8, <3>2
        <4>. QED  BY <1>4, <1>5, <2>5, <2>8, <3>2, <4>1
      <3>. QED  BY <3>1, <3>2
    <2>9. Gathers(added, k, told \cup {f})
      BY <2>3, <2>7, <2>8 DEF Gathers, other
    <2>. QED  BY <2>3, <2>9 DEF added
  <1>. QED  BY <1>8, <1>9, <1>10

-----------------------------------------------------------------------------
(* The inductive invariant.                                                *)

Told(k) == {f \in ToSet(given) : f.anchor = k}

GatherInv ==
    /\ tree \in Trees
    /\ fails \subseteq tree.grammar
    /\ fixEvenUnparsable \in BOOLEAN
    /\ stage \in {"collecting", "conflict", "applied"}
    /\ given \in Seq(Fixes(tree)) /\ Len(given) <= MaxFixes
    /\ infos \in [Anchors(tree) -> Infos(tree)]
    /\ \A k \in Anchors(tree) : Gathers(infos[k], k, Told(k))

ResultInv ==
    /\ stage = "applied" => result = Apply[Root] /\ \A k \in Anchors(tree) : IsValid(infos[k])
    /\ stage # "applied" => result = NotApplied

LEMMA ApplyUnchanged ==
    ASSUME UNCHANGED <<tree, fails, fixEvenUnparsable, infos>>
    PROVE  Apply' = Apply
  BY DEF Apply, GivesUp, IsUnparsable, Reform, RequiresValidate, OwnValidation, Staying, Units,
         UnitsAt, NewBefore, ResultOf, EditsAt, Content, Carried, Brought, Removed, Original

LEMMA GatherInit == Init => GatherInv /\ ResultInv
  <1>. SUFFICES ASSUME Init PROVE GatherInv /\ ResultInv
    OBVIOUS
  <1>1. /\ tree \in Trees /\ fails \subseteq tree.grammar /\ fixEvenUnparsable \in BOOLEAN
        /\ stage = "collecting" /\ given = <<>> /\ result = NotApplied
        /\ infos = [k \in Anchors(tree) |-> NoInfo]
    BY DEF Init
  <1>2. <<>> \in Seq(Fixes(tree)) /\ <<>> \in Seq(SourceFixes) /\ Len(<<>>) = 0
    BY EmptySeq
  <1>3. NoInfo \in Infos(tree)
    BY <1>2 DEF NoInfo, Infos
  <1>4. \A k \in Anchors(tree) : Told(k) = {}
    BY <1>1 DEF Told, ToSet
  <1>5. \A k : Gathers(NoInfo, k, {})
    BY DEF Gathers, NoInfo
  <1>6. 0 <= MaxFixes
    BY RawsAssumption
  <1>. QED  BY <1>1, <1>2, <1>3, <1>4, <1>5, <1>6 DEF GatherInv, ResultInv

LEMMA GatherCollect ==
    ASSUME GatherInv, ResultInv, NEW f \in FixesOf[tree], Collect(f)
    PROVE  GatherInv' /\ ResultInv'
  <1>1. f \in Fixes(tree) /\ HasEdit(f)
    BY FixesAssumption DEF GatherInv, HasEdit
  <1>2. /\ tree' = tree /\ fails' = fails /\ fixEvenUnparsable' = fixEvenUnparsable
        /\ stage' = stage /\ result' = result /\ stage = "collecting" /\ Len(given) < MaxFixes
        /\ given' = Append(given, f) /\ infos' = [infos EXCEPT ![f.anchor] = Add(@, f)]
    BY DEF Collect
  <1>3. /\ given' \in Seq(Fixes(tree)) /\ Len(given') = Len(given) + 1
        /\ ToSet(given') = ToSet(given) \cup {f}
    <2>. DEFINE S == Fixes(tree)
    <2>1. given \in Seq(S) /\ f \in S
      BY <1>1 DEF GatherInv
    <2>. HIDE DEF S
    <2>2. /\ Append(given, f) \in Seq(S) /\ Len(Append(given, f)) = Len(given) + 1
          /\ Range(Append(given, f)) = Range(given) \cup {f}
      <3>1. Append(given, f) = given \o <<f>> /\ <<f>> \in Seq(S)
        BY <2>1, AppendIsConcat
      <3>2. Range(given \o <<f>>) = Range(given) \cup Range(<<f>>)
        BY <2>1, <3>1, RangeConcatenation
      <3>3. Range(<<f>>) = {f}
        BY DEF Range
      <3>. QED  BY <2>1, <3>1, <3>2, <3>3, AppendProperties
    <2>3. \A q : ToSet(q) = Range(q)
      BY DEF ToSet, Range
    <2>. QED  BY <1>2, <2>2, <2>3 DEF S
  <1>4. Len(given') <= MaxFixes
    BY <1>2, <1>3, RawsAssumption DEF GatherInv
  <1>5. \A k : Told(k)' = IF k = f.anchor THEN Told(k) \cup {f} ELSE Told(k)
    BY <1>3 DEF Told
  <1>6. ASSUME NEW k \in Anchors(tree)
        PROVE  infos'[k] \in Infos(tree) /\ Gathers(infos'[k], k, Told(k)')
    <2>1. infos[k] \in Infos(tree) /\ Gathers(infos[k], k, Told(k)) /\ tree \in Trees
      BY DEF GatherInv
    <2>2. CASE k = f.anchor
      <3>1. infos'[k] = Add(infos[k], f)
        BY <1>2, <2>2 DEF GatherInv
      <3>2. Add(infos[k], f) \in Infos(tree) /\ Gathers(Add(infos[k], f), k, Told(k) \cup {f})
        BY <1>1, <2>1, <2>2, AddKeeps
      <3>. QED  BY <1>5, <2>2, <3>1, <3>2
    <2>3. CASE k # f.anchor
      <3>1. infos'[k] = infos[k]
        BY <1>2, <2>3 DEF GatherInv
      <3>. QED  BY <1>5, <2>1, <2>3, <3>1
    <2>. QED  BY <2>2, <2>3
  <1>7. infos' \in [Anchors(tree) -> Infos(tree)]
    BY <1>2, <1>6 DEF GatherInv
  <1>8. GatherInv'
    <2>1. /\ tree' \in Trees /\ fails' \subseteq tree'.grammar /\ fixEvenUnparsable' \in BOOLEAN
          /\ stage' \in {"collecting", "conflict", "applied"}
      BY <1>2 DEF GatherInv
    <2>. QED  BY <1>2, <1>3, <1>4, <1>6, <1>7, <2>1 DEF GatherInv
  <1>9. ResultInv'
    BY <1>2 DEF ResultInv
  <1>. QED  BY <1>8, <1>9

LEMMA GatherNext == GatherInv /\ ResultInv /\ [Next]_vars => GatherInv' /\ ResultInv'
  <1>. SUFFICES ASSUME GatherInv, ResultInv, [Next]_vars PROVE GatherInv' /\ ResultInv'
    OBVIOUS
  <1>1. ASSUME NEW f \in FixesOf[tree], Collect(f) PROVE GatherInv' /\ ResultInv'
    BY <1>1, GatherCollect
  <1>2. ASSUME UNCHANGED <<tree, fails, fixEvenUnparsable, given, infos>>,
               stage' \in {"collecting", "conflict", "applied"}
        PROVE  GatherInv'
    BY <1>2 DEF GatherInv, Told
  <1>3. CASE Refuse
    <2>1. /\ UNCHANGED <<tree, fails, fixEvenUnparsable, given, infos, result>>
          /\ stage = "collecting" /\ stage' = "conflict"
      BY <1>3 DEF Refuse
    <2>. QED  BY <1>2, <2>1 DEF ResultInv
  <1>4. CASE ApplyFixes
    <2>1. /\ UNCHANGED <<tree, fails, fixEvenUnparsable, given, infos>>
          /\ stage' = "applied" /\ result' = Apply[Root]
          /\ \A k \in Anchors(tree) : IsValid(infos[k])
      BY <1>4 DEF ApplyFixes
    <2>2. Apply' = Apply
      BY <2>1, ApplyUnchanged
    <2>. QED  BY <1>2, <2>1, <2>2 DEF ResultInv
  <1>5. CASE UNCHANGED vars
    <2>1. UNCHANGED <<tree, fails, fixEvenUnparsable, given, infos, stage, result>>
      BY <1>5 DEF vars
    <2>2. Apply' = Apply
      BY <2>1, ApplyUnchanged
    <2>3. GatherInv'
      BY <1>2, <2>1 DEF GatherInv
    <2>. QED  BY <2>1, <2>2, <2>3 DEF ResultInv, NotApplied
  <1>. QED  BY <1>1, <1>3, <1>4, <1>5 DEF Next

\* The fixes are gathered by anchor as they should be, and the result is what is
\* made of those gathered, none of them in conflict.
THEOREM Invariance == Spec => [](GatherInv /\ ResultInv)
  BY GatherInit, GatherNext, PTL DEF Spec

LEMMA SourceFixesFromInv == GatherInv => SourceFixesKept
  <1>. SUFFICES ASSUME GatherInv, NEW k \in Anchors(tree), NEW f \in ToSet(given),
                       f.anchor = k, IsJustSourceEdit(f)
                PROVE  \E g \in ToSet(infos[k].fixes) :
                           ToSet(f.edit[1].sources) \subseteq ToSet(g.edit[1].sources)
    BY DEF SourceFixesKept
  <1>. DEFINE first == FirstReplace(infos[k])
  <1>1. infos[k] \in Infos(tree) /\ Gathers(infos[k], k, Told(k)) /\ f \in Told(k)
    BY DEF GatherInv, Told
  <1>2. first # 0 /\ ToSet(f.edit[1].sources) \subseteq ToSet(infos[k].fixes[first].edit[1].sources)
    BY <1>1 DEF Gathers
  <1>3. first \in DOMAIN infos[k].fixes
    BY <1>1, <1>2, FirstReplaceRule
  <1>4. infos[k].fixes[first] \in ToSet(infos[k].fixes)
    BY <1>3 DEF ToSet
  <1>. QED  BY <1>2, <1>4

\* No source edit of a fix is lost when AnchorEditInfo.add condenses several on one
\* anchor: what it says of the template is on a fix that is carried out.
THEOREM SourcesAreKept == Spec => []SourceFixesKept
  BY Invariance, SourceFixesFromInv, PTL

-----------------------------------------------------------------------------
(* The text inside the segments.                                           *)

LEMMA TreeIs ==
    ASSUME GatherInv
    PROVE  /\ tree \in Trees
           /\ Root \in Inner(tree) /\ Inner(tree) \cap Raws = {}
           /\ Inner(tree) \subseteq Anchors(tree)
           /\ \A n \in Inner(tree) : Kids(tree, n) \subseteq Anchors(tree)
           /\ tree.grammar \subseteq Inner(tree) /\ tree.unparsable \subseteq Inner(tree)
  BY TreesAssumption DEF GatherInv, Anchors

\* The edits of a fix, of the type asked for.
LEMMA FixParts ==
    ASSUME GatherInv, NEW k \in Anchors(tree)
    PROVE  LET fixes == infos[k].fixes
           IN  /\ fixes \in Seq(Fixes(tree)) /\ Len(fixes) \in Nat /\ DOMAIN fixes = 1..Len(fixes)
               /\ fixes = <<>> <=> Len(fixes) = 0
               /\ ToSet(fixes) = {fixes[i] : i \in 1..Len(fixes)}
               /\ \A i \in 1..Len(fixes) :
                      /\ fixes[i].type \in EditTypes /\ fixes[i].edit \in Seq(Items)
                      /\ fixes[i].anchor = k /\ HasEdit(fixes[i])
  <1>. DEFINE fixes == infos[k].fixes
  <1>1. fixes \in Seq(Fixes(tree)) /\ Gathers(infos[k], k, Told(k))
    BY DEF GatherInv, Infos
  <1>2. \A i \in DOMAIN fixes : fixes[i].anchor = k /\ HasEdit(fixes[i])
    BY <1>1 DEF Gathers
  <1>. HIDE DEF fixes
  <1>3. /\ Len(fixes) \in Nat /\ DOMAIN fixes = 1..Len(fixes) /\ (fixes = <<>> <=> Len(fixes) = 0)
        /\ ToSet(fixes) = {fixes[i] : i \in 1..Len(fixes)}
        /\ \A i \in 1..Len(fixes) : fixes[i] \in Fixes(tree)
    BY <1>1 DEF ToSet
  <1>4. \A f \in Fixes(tree) : f.type \in EditTypes /\ f.edit \in Seq(Items)
    BY DEF Fixes
  <1>. QED  BY <1>1, <1>2, <1>3, <1>4 DEF fixes

LEMMA BroughtType ==
    ASSUME GatherInv, NEW k \in Anchors(tree), NEW type
    PROVE  Brought(k, type) \in Seq(Items)
  <1>. DEFINE fixes == infos[k].fixes
              T == Seq(Items)
              parts == [i \in DOMAIN fixes |-> IF fixes[i].type = type THEN fixes[i].edit ELSE <<>>]
  <1>1. /\ fixes \in Seq(Fixes(tree))
        /\ \A i \in DOMAIN fixes : fixes[i].edit \in T
    BY FixParts
  <1>2. \A i \in DOMAIN fixes : parts[i] \in T
    BY <1>1, EmptySeq
  <1>3. parts = [i \in DOMAIN fixes |-> parts[i]]
    OBVIOUS
  <1>4. parts \in Seq(T)
    <2>. HIDE DEF parts, fixes, T
    <2>. QED  BY <1>1, <1>2, <1>3, MapType
  <1>5. Brought(k, type) = FlattenSeq(parts)
    BY DEF Brought
  <1>. HIDE DEF parts
  <1>. QED  BY <1>4, <1>5, FlattenType

LEMMA CarriedType ==
    ASSUME GatherInv, NEW as \in SUBSET Anchors(tree), NEW k, NEW own \in Seq(Items)
    PROVE  Carried(as, k, own) \in Seq(Items)
  <1>1. CASE k \notin as
    BY <1>1 DEF Carried
  <1>2. CASE k \in as
    <2>. DEFINE b == Brought(k, "create_before")
                r == Brought(k, "replace")
                s == IF Removed(k) THEN <<>> ELSE own
                a == Brought(k, "create_after")
    <2>1. b \in Seq(Items) /\ r \in Seq(Items) /\ a \in Seq(Items) /\ s \in Seq(Items)
      BY <1>2, BroughtType, EmptySeq
    <2>2. Carried(as, k, own) = b \o r \o s \o a
      BY <1>2 DEF Carried
    <2>. HIDE DEF b, r, s, a
    <2>3. b \o r \o s \o a \in Seq(Items)
      BY <2>1, ConcatProperties
    <2>. QED  BY <2>2, <2>3
  <1>. QED  BY <1>1, <1>2

\* What a child has of its own, given the content of the inner segments.
Own(f, k) == IF k \in Inner(tree) THEN f[k] ELSE <<Item(k)>>

PartsOf(as, f, n) ==
    [i \in DOMAIN tree.kids[n] |-> Carried(as, tree.kids[n][i], Own(f, tree.kids[n][i]))]

LEMMA OwnType ==
    ASSUME GatherInv, NEW f, NEW n \in Inner(tree), NEW k \in Kids(tree, n),
           k \in Inner(tree) => f[k] \in Seq(Items)
    PROVE  Own(f, k) \in Seq(Items)
  <1>1. k \notin Inner(tree) => k \in Raws
    BY KidsType, TreeIs
  <1>2. k \in Raws => Item(k) \in Items
    BY EmptySeq DEF Item, Items
  <1>3. Item(k) \in Items => <<Item(k)>> \in Seq(Items)
    OBVIOUS
  <1>. QED  BY <1>1, <1>2, <1>3 DEF Own

LEMMA PartsType ==
    ASSUME GatherInv, NEW as \in SUBSET Anchors(tree), NEW f, NEW n \in Inner(tree),
           \A k \in Kids(tree, n) \cap Inner(tree) : f[k] \in Seq(Items)
    PROVE  PartsOf(as, f, n) \in Seq(Seq(Items)) /\ FlattenSeq(PartsOf(as, f, n)) \in Seq(Items)
  <1>. DEFINE kids == tree.kids[n]
              T == Seq(Items)
              parts == PartsOf(as, f, n)
  <1>1. kids \in Seq(Inner(tree) \cup Raws) /\ \A i \in DOMAIN kids : kids[i] \in Kids(tree, n)
    BY TreeIs, KidsType DEF Kids, ToSet
  <1>2. ASSUME NEW i \in DOMAIN kids PROVE parts[i] \in T
    <2>1. Own(f, kids[i]) \in T
      BY <1>1, OwnType
    <2>2. parts[i] = Carried(as, kids[i], Own(f, kids[i]))
      BY DEF PartsOf
    <2>. QED  BY <2>1, <2>2, CarriedType
  <1>3. parts = [i \in DOMAIN kids |-> parts[i]]
    BY DEF PartsOf
  <1>4. parts \in Seq(T)
    <2>. HIDE DEF parts, kids, T
    <2>. QED  BY <1>1, <1>2, <1>3, MapType
  <1>. QED  BY <1>4, FlattenType

LEMMA ContentIs ==
    ASSUME GatherInv, NEW as \in SUBSET Anchors(tree)
    PROVE  Content(as) = [n \in Inner(tree) |-> FlattenSeq(PartsOf(as, Content(as), n))]
  <1>. DEFINE V == Seq(Items)
              D == [f \in [Inner(tree) -> V] |->
                      [n \in Inner(tree) |-> FlattenSeq(PartsOf(as, f, n))]]
  <1>1. D \in [[Inner(tree) -> V] -> [Inner(tree) -> V]]
    BY PartsType
  <1>2. ASSUME NEW f \in [Inner(tree) -> V], NEW g \in [Inner(tree) -> V], NEW n \in Inner(tree),
               \A k \in Kids(tree, n) \cap Inner(tree) : f[k] = g[k]
        PROVE  D[f][n] = D[g][n]
    <2>1. \A k \in Kids(tree, n) : Own(f, k) = Own(g, k)
      BY <1>2 DEF Own
    <2>2. \A i \in DOMAIN tree.kids[n] : tree.kids[n][i] \in Kids(tree, n)
      BY DEF Kids, ToSet
    <2>3. PartsOf(as, f, n) = PartsOf(as, g, n)
      BY <2>1, <2>2 DEF PartsOf
    <2>. QED  BY <2>3
  <1>3. V # {}
    BY EmptySeq
  <1>4. PICK f \in [Inner(tree) -> V] : f = D[f]
    <2>. HIDE DEF D, V
    <2>1. LooksAtKids(tree, V, D)
      BY <1>1, <1>2 DEF LooksAtKids
    <2>. QED  BY <1>3, <2>1, TreeIs, TreeRecursion
  <1>5. f = [n \in Inner(tree) |-> FlattenSeq(PartsOf(as, f, n))]
    BY <1>4
  <1>. QED  BY <1>5 DEF Content, PartsOf, Own

LEMMA ContentRule ==
    ASSUME GatherInv, NEW as \in SUBSET Anchors(tree)
    PROVE  \A n \in Inner(tree) :
               /\ Content(as)[n] = FlattenSeq(PartsOf(as, Content(as), n))
               /\ Content(as)[n] \in Seq(Items)
  <1>. DEFINE C == Content(as)
              P == {n \in Inner(tree) : C[n] \in Seq(Items)}
  <1>1. \A n \in Inner(tree) : C[n] = FlattenSeq(PartsOf(as, C, n))
    <2>1. C = [n \in Inner(tree) |-> FlattenSeq(PartsOf(as, C, n))]
      BY ContentIs
    <2>. HIDE DEF C
    <2>. QED  BY <2>1
  <1>. HIDE DEF C
  <1>2. ASSUME NEW n \in Inner(tree), Kids(tree, n) \cap Inner(tree) \subseteq P PROVE n \in P
    BY <1>1, <1>2, PartsType
  <1>. HIDE DEF P
  <1>3. Inner(tree) \subseteq P
    BY <1>2, TreeIs, TreeInduction
  <1>. QED  BY <1>1, <1>3 DEF P, C

-----------------------------------------------------------------------------
(* What apply_fixes makes of a segment.                                    *)

Texts == Seq(Items)
Results == [before : Seq(Texts), text : Texts, after : Seq(Texts), validated : BOOLEAN,
            unchecked : SUBSET Inner(tree)]

LEMMA ResultsIs ==
    ASSUME NEW before \in Seq(Texts), NEW text \in Texts, NEW after \in Seq(Texts),
           NEW validated \in BOOLEAN, NEW unchecked \in SUBSET Inner(tree)
    PROVE  [before |-> before, text |-> text, after |-> after, validated |-> validated,
            unchecked |-> unchecked] \in Results
  BY DEF Results

LEMMA ResultsParts ==
    ASSUME NEW r \in Results
    PROVE  /\ r.before \in Seq(Texts) /\ r.text \in Texts /\ r.after \in Seq(Texts)
           /\ r.validated \in BOOLEAN /\ r.unchecked \subseteq Inner(tree)
  BY DEF Results

LEMMA KeptType ==
    ASSUME NEW text \in Texts
    PROVE  Kept(text) \in Results
  <1>1. <<>> \in Seq(Texts)
    BY EmptySeq
  <1>. QED  BY <1>1, ResultsIs DEF Kept

\* What leaves a segment at its ends are different children of it.
LEMMA LeadAndTrail ==
    ASSUME NEW S, NEW units \in Seq(S)
    PROVE  /\ Leading(units) \in Nat /\ Trailing(units) \in Nat
           /\ Leading(units) + Trailing(units) <= Len(units)
  <1>. DEFINE I == {i \in 1..Len(units) : IsCode(units[i])}
              last == Len(units)
              J == {last - i : i \in I}
  <1>1. last \in Nat /\ (units = <<>> <=> last = 0)
    OBVIOUS
  <1>2. SelectInSeq(units, IsCode) = IF I # {} THEN Min(I) ELSE 0
    BY DEF SelectInSeq
  <1>3. SelectLastInSeq(units, IsCode) = IF I # {} THEN Max(I) ELSE 0
    BY DEF SelectLastInSeq
  <1>4. I \in SUBSET Nat /\ I \subseteq 1..last /\ J \in SUBSET Nat
    BY <1>1
  <1>5. I # {} => Min(I) \in I
    <2>. HIDE DEF I
    <2>. QED  BY <1>4, LeastNumber DEF Min
  <1>6. I # {} => Max(I) \in I /\ \A i \in I : Max(I) >= i
    <2>1. SUFFICES ASSUME I # {} PROVE \E m \in I : \A i \in I : m >= i
      <3>. HIDE DEF I
      <3>. QED  BY <2>1 DEF Max
    <2>2. PICK j \in J : \A l \in J : j <= l
      <3>1. J # {}
        BY <2>1
      <3>. HIDE DEF J
      <3>. QED  BY <1>4, <3>1, LeastNumber
    <2>3. PICK m \in I : j = last - m
      BY <2>2
    <2>4. \A i \in I : last - m <= last - i
      BY <2>2, <2>3
    <2>. QED  BY <1>1, <1>4, <2>4
  <1>7. CASE I = {}
    BY <1>1, <1>2, <1>3, <1>7 DEF Leading, Trailing
  <1>8. CASE I # {}
    <2>. DEFINE a == Min(I)
                b == Max(I)
    <2>1. a \in 1..last /\ b \in 1..last /\ a <= b
      BY <1>4, <1>5, <1>6, <1>8
    <2>2. SelectInSeq(units, IsCode) = a /\ SelectLastInSeq(units, IsCode) = b
      BY <1>2, <1>3, <1>8
    <2>. HIDE DEF a, b
    <2>3. Leading(units) = a - 1 /\ Trailing(units) = last - b
      BY <1>1, <2>1, <2>2 DEF Leading, Trailing
    <2>. QED  BY <1>1, <2>1, <2>3
  <1>. QED  BY <1>7, <1>8

LEMMA EditsType ==
    ASSUME GatherInv, NEW k \in Anchors(tree)
    PROVE  EditsAt(k).before \in Texts /\ EditsAt(k).after \in Texts /\ EditsAt(k).stays \in BOOLEAN
  <1>. DEFINE fixes == infos[k].fixes
  <1>1. /\ Len(fixes) \in Nat /\ (fixes = <<>> <=> Len(fixes) = 0)
        /\ \A i \in 1..Len(fixes) : fixes[i].type \in EditTypes /\ fixes[i].edit \in Texts
    BY FixParts DEF Texts
  <1>2. <<>> \in Texts
    BY EmptySeq DEF Texts
  <1>. HIDE DEF fixes
  <1>3. CASE fixes = <<>>
    <2>1. Len(fixes) # 2
      BY <1>1, <1>3
    <2>2. EditsAt(k) = [before |-> <<>>, stays |-> TRUE, after |-> <<>>]
      BY <1>3, <2>1 DEF EditsAt, fixes
    <2>. QED  BY <1>2, <2>2
  <1>4. CASE Len(fixes) = 2
    <2>1. fixes # <<>> /\ fixes[1].edit \in Texts /\ fixes[2].edit \in Texts
      BY <1>1, <1>4
    <2>2. EditsAt(k) = IF fixes[1].type = "create_after"
                       THEN [before |-> fixes[2].edit, stays |-> TRUE, after |-> fixes[1].edit]
                       ELSE [before |-> fixes[1].edit, stays |-> TRUE, after |-> fixes[2].edit]
      BY <1>4, <2>1 DEF EditsAt, fixes
    <2>. QED  BY <2>1, <2>2
  <1>5. CASE fixes # <<>> /\ Len(fixes) # 2
    <2>1. fixes[1].edit \in Texts /\ fixes[1].type \in EditTypes
      BY <1>1, <1>5
    <2>2. CASE fixes[1].type = "delete"
      BY <1>2, <1>5, <2>2 DEF EditsAt, fixes
    <2>3. CASE fixes[1].type = "replace"
      BY <1>2, <1>5, <2>1, <2>3 DEF EditsAt, fixes
    <2>4. CASE fixes[1].type = "create_before"
      BY <1>2, <1>5, <2>1, <2>4 DEF EditsAt, fixes
    <2>5. CASE fixes[1].type = "create_after"
      BY <1>2, <1>5, <2>1, <2>5 DEF EditsAt, fixes
    <2>. QED  BY <2>1, <2>2, <2>3, <2>4, <2>5 DEF EditTypes
  <1>. QED  BY <1>3, <1>4, <1>5

LEMMA ResultOfType ==
    ASSUME GatherInv, NEW f, NEW n \in Inner(tree), NEW k \in Kids(tree, n),
           k \in Inner(tree) => f[k] \in Results
    PROVE  ResultOf(f, k) \in Results
  <1>1. CASE k \in Inner(tree)
    BY <1>1 DEF ResultOf
  <1>2. CASE k \notin Inner(tree)
    <2>1. <<Item(k)>> \in Texts
      BY <1>2, OwnType DEF Own, Texts
    <2>. QED  BY <1>2, <2>1, KeptType DEF ResultOf
  <1>. QED  BY <1>1, <1>2

\* The text of a result with what was moved out of it.
Full(r) == FlattenSeq(r.before) \o (r.text \o FlattenSeq(r.after))

LEMMA FullType ==
    ASSUME NEW r \in Results
    PROVE  Full(r) \in Texts
  <1>1. FlattenSeq(r.before) \in Texts /\ r.text \in Texts /\ FlattenSeq(r.after) \in Texts
    BY ResultsParts, FlattenType DEF Texts
  <1>. QED  BY <1>1, ConcatProperties DEF Full, Texts

LEMMA UnitsOfRule ==
    ASSUME NEW r \in Results
    PROVE  UnitsOf(r) \in Seq(Texts) /\ FlattenSeq(UnitsOf(r)) = Full(r)
  <1>. DEFINE b == r.before
              s == r.text
              a == r.after
  <1>1. b \in Seq(Texts) /\ s \in Texts /\ a \in Seq(Texts)
    BY ResultsParts
  <1>2. UnitsOf(r) = Append(b, s) \o a
    BY DEF UnitsOf
  <1>. HIDE DEF b, s, a
  <1>3. Append(b, s) \in Seq(Texts) /\ FlattenSeq(Append(b, s)) = FlattenSeq(b) \o s
    BY <1>1, FlattenAppend DEF Texts
  <1>4. /\ Append(b, s) \o a \in Seq(Texts)
        /\ FlattenSeq(Append(b, s) \o a) = FlattenSeq(Append(b, s)) \o FlattenSeq(a)
    BY <1>1, <1>3, FlattenConcat DEF Texts
  <1>5. FlattenSeq(b) \in Texts /\ FlattenSeq(a) \in Texts
    BY <1>1, FlattenType DEF Texts
  <1>6. (FlattenSeq(b) \o s) \o FlattenSeq(a) = FlattenSeq(b) \o (s \o FlattenSeq(a))
    <2>. DEFINE x == FlattenSeq(b)
                z == FlattenSeq(a)
    <2>. HIDE DEF x, z
    <2>1. (x \o s) \o z = x \o (s \o z)
      BY <1>1, <1>5, ConcatAssociative DEF Texts, x, z
    <2>. QED  BY <2>1 DEF x, z
  <1>. QED  BY <1>2, <1>3, <1>4, <1>6 DEF Full, b, s, a

LEMMA UnitsAtRule ==
    ASSUME GatherInv, NEW f, NEW n \in Inner(tree), NEW k \in Kids(tree, n),
           k \in Inner(tree) => f[k] \in Results
    PROVE  /\ UnitsAt(f, k) \in Seq(Texts)
           /\ FlattenSeq(UnitsAt(f, k)) =
                  EditsAt(k).before
                    \o (IF EditsAt(k).stays THEN Full(ResultOf(f, k)) ELSE <<>>)
                    \o EditsAt(k).after
  <1>. DEFINE b == EditsAt(k).before
              a == EditsAt(k).after
              r == ResultOf(f, k)
              s == IF EditsAt(k).stays THEN UnitsOf(r) ELSE <<>>
              t == IF EditsAt(k).stays THEN Full(r) ELSE <<>>
              nb == NewBefore(k)
              na == NewUnits(a)
  <1>1. b \in Texts /\ a \in Texts /\ r \in Results
    BY TreeIs, EditsType, ResultOfType
  <1>2. UnitsAt(f, k) = (nb \o s) \o na
    BY DEF UnitsAt
  <1>0. nb = <<b>> \/ nb = NewUnits(b)
    BY DEF NewBefore
  <1>3. s \in Seq(Texts) /\ FlattenSeq(s) = t /\ t \in Texts
    <2>1. UnitsOf(r) \in Seq(Texts) /\ FlattenSeq(UnitsOf(r)) = Full(r) /\ Full(r) \in Texts
      BY <1>1, UnitsOfRule, FullType
    <2>2. <<>> \in Seq(Texts) /\ <<>> \in Texts
      BY EmptySeq DEF Texts
    <2>. QED  BY <2>1, <2>2, FlattenEmpty
  <1>. HIDE DEF a, b, r, s, t
  <1>4. /\ nb \in Seq(Texts) /\ FlattenSeq(nb) = b
        /\ na \in Seq(Texts) /\ FlattenSeq(na) = a
    <2>1. NewUnits(b) \in Seq(Texts) /\ FlattenSeq(NewUnits(b)) = b
      BY <1>1, NewUnitsFlat DEF Texts
    <2>2. na \in Seq(Texts) /\ FlattenSeq(na) = a
      BY <1>1, NewUnitsFlat DEF Texts
    <2>3. <<b>> \in Seq(Texts) /\ FlattenSeq(<<b>>) = b
      BY <1>1, OneUnitFlat DEF Texts
    <2>. HIDE DEF na, nb
    <2>. QED  BY <1>0, <2>1, <2>2, <2>3
  <1>. HIDE DEF na, nb
  <1>5. nb \o s \in Seq(Texts) /\ FlattenSeq(nb \o s) = b \o t
    BY <1>3, <1>4, FlattenConcat DEF Texts
  <1>6. (nb \o s) \o na \in Seq(Texts) /\ FlattenSeq((nb \o s) \o na) = FlattenSeq(nb \o s) \o a
    BY <1>4, <1>5, FlattenConcat DEF Texts
  <1>. QED  BY <1>2, <1>5, <1>6 DEF a, b, r, s, t

\* The text of each child with its edits.
UnitTexts(f, n) == [i \in DOMAIN tree.kids[n] |-> FlattenSeq(UnitsAt(f, tree.kids[n][i]))]

LEMMA UnitsRule ==
    ASSUME GatherInv, NEW f, NEW n \in Inner(tree),
           \A k \in Kids(tree, n) \cap Inner(tree) : f[k] \in Results
    PROVE  /\ Units(f, n) \in Seq(Texts)
           /\ UnitTexts(f, n) \in Seq(Texts)
           /\ FlattenSeq(Units(f, n)) = FlattenSeq(UnitTexts(f, n))
  <1>. DEFINE kids == tree.kids[n]
              uu == [i \in DOMAIN kids |-> UnitsAt(f, kids[i])]
              U == Seq(Texts)
  <1>1. kids \in Seq(Inner(tree) \cup Raws) /\ \A i \in DOMAIN kids : kids[i] \in Kids(tree, n)
    BY TreeIs, KidsType DEF Kids, ToSet
  <1>2. \A i \in DOMAIN kids : uu[i] \in U
    BY <1>1, UnitsAtRule
  <1>3. uu = [i \in DOMAIN kids |-> uu[i]]
    OBVIOUS
  <1>4. uu \in Seq(U) /\ DOMAIN uu = DOMAIN kids
    <2>1. DOMAIN uu = DOMAIN kids
      OBVIOUS
    <2>. HIDE DEF uu, kids, U
    <2>. QED  BY <1>1, <1>2, <1>3, <2>1, MapType
  <1>5. Units(f, n) = FlattenSeq(uu)
    BY DEF Units
  <1>6. UnitTexts(f, n) = [i \in DOMAIN uu |-> FlattenSeq(uu[i])]
    BY DEF UnitTexts
  <1>. HIDE DEF uu
  <1>7. FlattenSeq(uu) \in Seq(Texts)
    BY <1>4, FlattenType
  <1>8. /\ [i \in DOMAIN uu |-> FlattenSeq(uu[i])] \in Seq(Texts)
        /\ FlattenSeq(FlattenSeq(uu)) = FlattenSeq([i \in DOMAIN uu |-> FlattenSeq(uu[i])])
    BY <1>4, FlattenFlatten DEF Texts
  <1>. QED  BY <1>5, <1>6, <1>7, <1>8

\* The parts of a segment made anew: all that is in its units, at the root in one piece.
LEMMA ReformRule ==
    ASSUME GatherInv, NEW f, NEW n \in Inner(tree),
           \A k \in Kids(tree, n) \cap Inner(tree) : f[k] \in Results
    PROVE  /\ Reform(f, n) \in Results
           /\ Full(Reform(f, n)) = FlattenSeq(Units(f, n))
           /\ FreeEnds(tree, n) => Reform(f, n).before = <<>> /\ Reform(f, n).after = <<>>
  <1>. DEFINE units == Units(f, n)
              lead == IF FreeEnds(tree, n) THEN 0 ELSE Leading(units)
              trail == IF FreeEnds(tree, n) THEN 0 ELSE Trailing(units)
              before == SubSeq(units, 1, lead)
              middle == SubSeq(units, lead + 1, Len(units) - trail)
              after == SubSeq(units, Len(units) - trail + 1, Len(units))
              r == Reform(f, n)
  <1>1. units \in Seq(Texts)
    BY UnitsRule
  <1>2. lead \in Nat /\ trail \in Nat /\ lead + trail <= Len(units)
    <2>. HIDE DEF units
    <2>1. Len(units) \in Nat
      BY <1>1
    <2>. QED  BY <1>1, <2>1, LeadAndTrail
  <1>3. FreeEnds(tree, n) => lead = 0 /\ trail = 0
    OBVIOUS
  <1>4. r.before = before /\ r.text = FlattenSeq(middle) /\ r.after = after
    BY DEF Reform
  <1>5. \A k \in Kids(tree, n) : ResultOf(f, k) \in Results
    BY ResultOfType
  <1>6. r.validated \in BOOLEAN
    BY DEF Reform
  <1>7. r.unchecked \in SUBSET Inner(tree)
    <2>. DEFINE all == (UNION {ResultOf(f, k).unchecked : k \in Staying(n)})
                        \cup (IF OwnValidation(n) THEN {n} ELSE {})
    <2>1. all \subseteq Inner(tree)
      <3>1. \A k \in Staying(n) : ResultOf(f, k).unchecked \subseteq Inner(tree)
        BY <1>5, ResultsParts DEF Staying
      <3>. QED  BY <3>1
    <2>2. r.unchecked = {} \/ r.unchecked = all
      BY DEF Reform
    <2>. QED  BY <2>1, <2>2
  <1>8. r = [before |-> r.before, text |-> r.text, after |-> r.after,
             validated |-> r.validated, unchecked |-> r.unchecked]
    BY DEF Reform
  <1>. HIDE DEF units, lead, trail, r
  <1>9. /\ before \in Seq(Texts) /\ middle \in Seq(Texts) /\ after \in Seq(Texts)
        /\ FlattenSeq(before) \o (FlattenSeq(middle) \o FlattenSeq(after)) = FlattenSeq(units)
    BY <1>1, <1>2, SplitFlat DEF Texts
  <1>10. FlattenSeq(middle) \in Texts
    BY <1>9, FlattenType DEF Texts
  <1>11. FreeEnds(tree, n) => before = <<>> /\ after = <<>>
    <2>1. Len(units) \in Nat
      BY <1>1
    <2>2. SubSeq(units, 1, 0) = <<>> /\ SubSeq(units, Len(units) + 1, Len(units)) = <<>>
      BY <1>1, <2>1, SubSeqEmpty
    <2>. QED  BY <1>3, <2>1, <2>2
  <1>. HIDE DEF before, middle, after
  <1>12. r \in Results
    BY <1>4, <1>6, <1>7, <1>8, <1>9, <1>10, ResultsIs
  <1>13. Full(r) = FlattenSeq(units)
    BY <1>4, <1>9 DEF Full
  <1>. QED  BY <1>4, <1>11, <1>12, <1>13 DEF r, units
ApplyOf(f, n) ==
    IF RequiresValidate(f, n) /\ GivesUp(n) THEN Kept(Original[n]) ELSE Reform(f, n)

LEMMA ApplyIs ==
    ASSUME GatherInv
    PROVE  Apply = [n \in Inner(tree) |-> ApplyOf(Apply, n)]
  <1>. DEFINE V == Results
              D == [f \in [Inner(tree) -> V] |-> [n \in Inner(tree) |-> ApplyOf(f, n)]]
  <1>1. \A n \in Inner(tree) : Kept(Original[n]) \in V
    BY ContentRule, KeptType DEF Original, Texts
  <1>2. D \in [[Inner(tree) -> V] -> [Inner(tree) -> V]]
    <2>1. ASSUME NEW f \in [Inner(tree) -> V], NEW n \in Inner(tree) PROVE ApplyOf(f, n) \in V
      BY <1>1, ReformRule DEF ApplyOf
    <2>. QED  BY <2>1
  <1>3. ASSUME NEW f \in [Inner(tree) -> V], NEW g \in [Inner(tree) -> V], NEW n \in Inner(tree),
               \A k \in Kids(tree, n) \cap Inner(tree) : f[k] = g[k]
        PROVE  D[f][n] = D[g][n]
    <2>1. \A k \in Kids(tree, n) : ResultOf(f, k) = ResultOf(g, k)
      BY <1>3 DEF ResultOf
    <2>2. /\ \A i \in DOMAIN tree.kids[n] : tree.kids[n][i] \in Kids(tree, n)
          /\ Last(tree.kids[n]) \in Kids(tree, n)
      <3>1. Len(tree.kids[n]) \in DOMAIN tree.kids[n]
        <4>. DEFINE kids == tree.kids[n]
        <4>1. kids \in Seq(Inner(tree) \cup Raws) /\ kids # <<>>
          BY TreeIs, KidsType
        <4>. HIDE DEF kids
        <4>2. Len(kids) \in DOMAIN kids
          BY <4>1
        <4>. QED  BY <4>2 DEF kids
      <3>. QED  BY <3>1 DEF Kids, ToSet, Last
    <2>3. \A k \in Kids(tree, n) : UnitsAt(f, k) = UnitsAt(g, k)
      BY <2>1 DEF UnitsAt
    <2>4. Units(f, n) = Units(g, n)
      BY <2>2, <2>3 DEF Units
    <2>5. \A k \in Staying(n) : ResultOf(f, k) = ResultOf(g, k)
      BY <2>1 DEF Staying
    <2>6. RequiresValidate(f, n) <=> RequiresValidate(g, n)
      BY <2>5 DEF RequiresValidate
    <2>7. UNION {ResultOf(f, k).unchecked : k \in Staying(n)}
              = UNION {ResultOf(g, k).unchecked : k \in Staying(n)}
      BY <2>5
    <2>8. Reform(f, n) = Reform(g, n)
      <3>1. ResultOf(f, Last(tree.kids[n])) = ResultOf(g, Last(tree.kids[n]))
        BY <2>1, <2>2
      <3>. QED  BY <2>4, <2>6, <2>7, <3>1 DEF Reform
    <2>9. ApplyOf(f, n) = ApplyOf(g, n)
      BY <2>6, <2>8 DEF ApplyOf
    <2>. QED  BY <2>9
  <1>4. V # {}
    <2>1. <<>> \in Texts
      BY EmptySeq DEF Texts
    <2>. QED  BY <2>1, KeptType
  <1>5. PICK f \in [Inner(tree) -> V] : f = D[f]
    <2>. HIDE DEF D, V
    <2>1. LooksAtKids(tree, V, D)
      BY <1>2, <1>3 DEF LooksAtKids
    <2>. QED  BY <1>4, <2>1, TreeIs, TreeRecursion
  <1>6. f = [n \in Inner(tree) |-> ApplyOf(f, n)]
    BY <1>5
  <1>. QED  BY <1>6 DEF Apply, ApplyOf

LEMMA ApplyRule ==
    ASSUME GatherInv
    PROVE  \A n \in Inner(tree) : Apply[n] = ApplyOf(Apply, n) /\ Apply[n] \in Results
  <1>. DEFINE A == Apply
              P == {n \in Inner(tree) : A[n] \in Results}
  <1>1. \A n \in Inner(tree) : A[n] = ApplyOf(A, n)
    <2>1. A = [n \in Inner(tree) |-> ApplyOf(A, n)]
      BY ApplyIs
    <2>. HIDE DEF A
    <2>. QED  BY <2>1
  <1>. HIDE DEF A
  <1>2. ASSUME NEW n \in Inner(tree), Kids(tree, n) \cap Inner(tree) \subseteq P PROVE n \in P
    <2>1. Kept(Original[n]) \in Results
      BY ContentRule, KeptType DEF Original, Texts
    <2>2. Reform(A, n) \in Results
      BY <1>2, ReformRule
    <2>. QED  BY <1>1, <2>1, <2>2 DEF ApplyOf
  <1>. HIDE DEF P
  <1>3. Inner(tree) \subseteq P
    BY <1>2, TreeIs, TreeInduction
  <1>. QED  BY <1>1, <1>3 DEF P, A

LEMMA TypeFromInv == GatherInv /\ ResultInv => TypeOK
  <1>. SUFFICES ASSUME GatherInv, ResultInv PROVE TypeOK
    OBVIOUS
  <1>1. ASSUME NEW k \in Anchors(tree), NEW f \in ToSet(infos[k].fixes) PROVE f.anchor = k
    <2>. DEFINE fixes == infos[k].fixes
    <2>1. DOMAIN fixes = 1..Len(fixes) /\ \A i \in 1..Len(fixes) : fixes[i].anchor = k
      BY FixParts
    <2>2. \E i \in DOMAIN fixes : f = fixes[i]
      BY DEF ToSet
    <2>. HIDE DEF fixes
    <2>. QED  BY <2>1, <2>2
  <1>2. CASE stage # "applied"
    <2>1. result = Kept(<<>>)
      BY <1>2 DEF ResultInv, NotApplied
    <2>. QED  BY <1>1, <2>1 DEF TypeOK, GatherInv, Kept
  <1>3. CASE stage = "applied"
    <2>1. result = ApplyOf(Apply, Root) /\ result \in Results
      BY <1>3, ApplyRule, TreeIs DEF ResultInv
    <2>2. result.unchecked \subseteq Inner(tree)
      BY <2>1, ResultsParts
    <2>3. FreeEnds(tree, Root)
      BY DEF FreeEnds
    <2>4. Kept(Original[Root]).before = <<>> /\ Kept(Original[Root]).after = <<>>
      BY DEF Kept
    <2>5. Reform(Apply, Root).before = <<>> /\ Reform(Apply, Root).after = <<>>
      BY <2>3, ApplyRule, ReformRule, TreeIs
    <2>. QED  BY <1>1, <1>3, <2>1, <2>2, <2>4, <2>5 DEF TypeOK, GatherInv, ApplyOf
  <1>. QED  BY <1>2, <1>3

\* Every reachable state is well typed; the file segment passes nothing on at its
\* ends, where there is nobody to take it.
THEOREM TypeCorrect == Spec => []TypeOK
  BY Invariance, TypeFromInv, PTL

\* What is not checked in a result is below it; in a valid result of parsable
\* segments each such segment is inside one without a grammar.
CheckedAt(n) ==
    /\ Apply[n].unchecked \subseteq Below(tree)[n]
    /\ Apply[n].validated => \A m \in Apply[n].unchecked : ~HasGrammarAround(m)

LEMMA CheckedStep ==
    ASSUME GatherInv, tree.unparsable = {}, NEW n \in Inner(tree),
           \A k \in Kids(tree, n) \cap Inner(tree) : CheckedAt(k)
    PROVE  CheckedAt(n)
  <1>. DEFINE A == Apply
              all == (UNION {ResultOf(A, k).unchecked : k \in Staying(n)})
                        \cup (IF OwnValidation(n) THEN {n} ELSE {})
              requires == RequiresValidate(A, n)
              r == Reform(A, n)
  <1>1. ~IsUnparsable(tree, n)
    BY DEF IsUnparsable
  <1>2. A[n] = r
    BY <1>1, ApplyRule DEF ApplyOf, GivesUp
  <1>. DEFINE reparsed == requires /\ ~IsUnparsable(tree, n) /\ n \in tree.grammar /\ n \notin fails
  <1>3. r.unchecked = IF reparsed THEN {} ELSE all
    BY DEF Reform
  <1>4. r.validated => \/ ~requires
                       \/ reparsed
                       \/ n \notin tree.grammar
    BY <1>1 DEF Reform
  <1>5. ASSUME NEW k \in Kids(tree, n)
        PROVE  /\ ResultOf(A, k).unchecked \subseteq Below(tree)[n]
               /\ ResultOf(A, k).validated =>
                      \A m \in ResultOf(A, k).unchecked : ~HasGrammarAround(m)
    <2>1. CASE k \in Inner(tree)
      <3>1. CheckedAt(k) /\ ResultOf(A, k) = A[k]
        BY <2>1 DEF ResultOf
      <3>2. Below(tree)[k] \subseteq Below(tree)[n]
        BY <2>1, TreeIs, BelowRule
      <3>. QED  BY <3>1, <3>2 DEF CheckedAt
    <2>2. CASE k \notin Inner(tree)
      BY <2>2 DEF ResultOf, Kept
    <2>. QED  BY <2>1, <2>2
  <1>6. all \subseteq Below(tree)[n]
    <2>1. \A k \in Staying(n) : ResultOf(A, k).unchecked \subseteq Below(tree)[n]
      BY <1>5 DEF Staying
    <2>2. n \in Below(tree)[n]
      BY TreeIs, BelowRule
    <2>. QED  BY <2>1, <2>2
  <1>7. ASSUME r.validated, NEW m \in r.unchecked PROVE ~HasGrammarAround(m)
    <2>1. ~reparsed /\ m \in all
      BY <1>3, <1>7
    <2>2. CASE n \notin tree.grammar
      BY <1>6, <2>1, <2>2 DEF HasGrammarAround
    <2>3. CASE ~requires
      <3>1. ~OwnValidation(n) /\ \A k \in Staying(n) : ResultOf(A, k).validated
        BY <2>3 DEF RequiresValidate
      <3>2. PICK k \in Staying(n) : m \in ResultOf(A, k).unchecked
        BY <2>1, <3>1
      <3>. QED  BY <1>5, <3>1, <3>2 DEF Staying
    <2>. QED  BY <1>4, <1>7, <2>1, <2>2, <2>3
  <1>8. r.unchecked \subseteq Below(tree)[n]
    BY <1>3, <1>6
  <1>. HIDE DEF r
  <1>. QED  BY <1>2, <1>7, <1>8 DEF CheckedAt

LEMMA ValidFromInv == GatherInv /\ ResultInv => ValidMeansReparsed
  <1>. SUFFICES ASSUME GatherInv, ResultInv, stage = "applied", result.validated,
                       tree.unparsable = {}
                PROVE  \A m \in result.unchecked : ~HasGrammarAround(m)
    BY DEF ValidMeansReparsed
  <1>. DEFINE P == {n \in Inner(tree) : CheckedAt(n)}
  <1>1. ASSUME NEW n \in Inner(tree), Kids(tree, n) \cap Inner(tree) \subseteq P PROVE n \in P
    BY <1>1, CheckedStep
  <1>. HIDE DEF P
  <1>2. Inner(tree) \subseteq P
    BY <1>1, TreeIs, TreeInduction
  <1>3. CheckedAt(Root)
    BY <1>2, TreeIs DEF P
  <1>. QED  BY <1>3 DEF CheckedAt, ResultInv

\* A file that apply_fixes calls valid has been parsed again wherever it was
\* changed, by the segment changed or by one around it: an inner failure is
\* followed up, except inside segments that have no grammar to parse with.
THEOREM ValidIsReparsed == Spec => []ValidMeansReparsed
  BY Invariance, ValidFromInv, PTL

-----------------------------------------------------------------------------
(* What the edits at a child come to.                                      *)

LEMMA EditsNone ==
    ASSUME NEW k, infos[k].fixes = <<>>
    PROVE  EditsAt(k) = [before |-> <<>>, stays |-> TRUE, after |-> <<>>]
  <1>1. Len(infos[k].fixes) # 2
    BY EmptySeq
  <1>. QED  BY <1>1 DEF EditsAt

LEMMA EditsOne ==
    ASSUME GatherInv, NEW k \in Anchors(tree), Len(infos[k].fixes) = 1
    PROVE  LET f == infos[k].fixes[1]
           IN  /\ f.type = "delete" => EditsAt(k) = [before |-> <<>>, stays |-> FALSE, after |-> <<>>]
               /\ f.type = "replace" => EditsAt(k) = [before |-> f.edit, stays |-> FALSE, after |-> <<>>]
               /\ f.type = "create_before" => EditsAt(k) = [before |-> f.edit, stays |-> TRUE, after |-> <<>>]
               /\ f.type = "create_after" => EditsAt(k) = [before |-> <<>>, stays |-> TRUE, after |-> f.edit]
  <1>1. infos[k].fixes # <<>>
    OBVIOUS
  <1>. QED  BY <1>1 DEF EditsAt

LEMMA EditsTwo ==
    ASSUME GatherInv, NEW k \in Anchors(tree), Len(infos[k].fixes) = 2
    PROVE  LET f == infos[k].fixes[1]
               g == infos[k].fixes[2]
           IN  /\ f.type = "create_after" => EditsAt(k) = [before |-> g.edit, stays |-> TRUE, after |-> f.edit]
               /\ f.type = "create_before" => EditsAt(k) = [before |-> f.edit, stays |-> TRUE, after |-> g.edit]
  <1>1. infos[k].fixes # <<>>
    <2>. DEFINE fixes == infos[k].fixes
    <2>1. (fixes = <<>> <=> Len(fixes) = 0) /\ Len(fixes) = 2
      BY FixParts
    <2>. HIDE DEF fixes
    <2>. QED  BY <2>1 DEF fixes
  <1>. QED  BY <1>1 DEF EditsAt

LEMMA ValidCases ==
    ASSUME GatherInv, NEW k \in Anchors(tree), IsValid(infos[k])
    PROVE  LET fixes == infos[k].fixes
           IN  \/ fixes = <<>>
               \/ Len(fixes) = 1
               \/ Len(fixes) = 2 /\ fixes[1].type = "create_before" /\ fixes[2].type = "create_after"
               \/ Len(fixes) = 2 /\ fixes[1].type = "create_after" /\ fixes[2].type = "create_before"
  <1>. DEFINE fixes == infos[k].fixes
  <1>1. Len(fixes) \in Nat /\ (fixes = <<>> <=> Len(fixes) = 0)
    BY FixParts
  <1>2. \/ Len(fixes) <= 1
        \/ Len(fixes) = 2 /\ {fixes[1].type, fixes[2].type} = {"create_before", "create_after"}
    BY DEF IsValid
  <1>. DEFINE x == fixes[1].type
              y == fixes[2].type
  <1>3. {x, y} = {"create_before", "create_after"} =>
            \/ x = "create_before" /\ y = "create_after"
            \/ x = "create_after" /\ y = "create_before"
    <2>. HIDE DEF x, y
    <2>. QED  OBVIOUS
  <1>. HIDE DEF fixes, x, y
  <1>4. \/ fixes = <<>>
        \/ Len(fixes) = 1
        \/ Len(fixes) = 2 /\ x = "create_before" /\ y = "create_after"
        \/ Len(fixes) = 2 /\ x = "create_after" /\ y = "create_before"
    <2>1. CASE Len(fixes) = 2
      BY <1>2, <1>3, <2>1 DEF x, y
    <2>2. CASE Len(fixes) # 2
      <3>1. Len(fixes) = 0 \/ Len(fixes) = 1
        <4>1. PICK m \in Nat : m = Len(fixes)
          BY <1>1
        <4>2. m <= 1
          BY <1>2, <2>2, <4>1
        <4>3. m = 0 \/ m = 1
          BY <4>2
        <4>. QED  BY <4>1, <4>3
      <3>2. Len(fixes) = 0 => fixes = <<>>
        BY <1>1
      <3>. QED  BY <3>1, <3>2
    <2>. QED  BY <2>1, <2>2
  <1>. QED  BY <1>4 DEF fixes, x, y

LEMMA FlattenOne ==
    ASSUME NEW S, NEW s \in Seq(S)
    PROVE  <<s>> \in Seq(Seq(S)) /\ FlattenSeq(<<s>>) = s
  <1>1. <<>> \in Seq(Seq(S)) /\ Append(<<>>, s) = <<s>>
    BY EmptySeq
  <1>2. <<s>> \in Seq(Seq(S)) /\ FlattenSeq(<<s>>) = FlattenSeq(<<>>) \o s
    BY <1>1, FlattenAppend
  <1>. QED  BY <1>2, FlattenEmpty, ConcatEmptySeq

LEMMA FlattenTwo ==
    ASSUME NEW S, NEW s \in Seq(S), NEW t \in Seq(S)
    PROVE  FlattenSeq(<<s, t>>) = s \o t
  <1>. DEFINE T == Seq(S)
  <1>1. Append(<<s>>, t) = <<s, t>>
    <2>1. s \in T /\ t \in T
      OBVIOUS
    <2>. HIDE DEF T
    <2>2. <<s>> \in Seq(T) /\ <<s, t>> \in Seq(T) /\ Len(<<s>>) = 1 /\ Len(<<s, t>>) = 2
      BY <2>1
    <2>3. /\ Append(<<s>>, t) \in Seq(T) /\ Len(Append(<<s>>, t)) = 2
          /\ Append(<<s>>, t)[1] = s /\ Append(<<s>>, t)[2] = t
      BY <2>1, <2>2, AppendProperties
    <2>4. \A i \in 1..2 : Append(<<s>>, t)[i] = <<s, t>>[i]
      <3>1. \A i \in 1..2 : i = 1 \/ i = 2
        OBVIOUS
      <3>. QED  BY <2>3, <3>1
    <2>. QED  BY <2>2, <2>3, <2>4, SeqEqual
  <1>2. <<s>> \in Seq(Seq(S)) /\ FlattenSeq(<<s>>) = s
    BY FlattenOne
  <1>. QED  BY <1>1, <1>2, FlattenAppend

\* Carrying the fixes of a child out where it stands is what its edits say.
LEMMA CarriedIsEdits ==
    ASSUME GatherInv, NEW k \in Anchors(tree), IsValid(infos[k]), NEW own \in Texts,
           NEW as, k \in as <=> infos[k].fixes # <<>>
    PROVE  Carried(as, k, own) =
               EditsAt(k).before \o (IF EditsAt(k).stays THEN own ELSE <<>>) \o EditsAt(k).after
  <1>. DEFINE fixes == infos[k].fixes
  <1>1. /\ Len(fixes) \in Nat /\ DOMAIN fixes = 1..Len(fixes) /\ (fixes = <<>> <=> Len(fixes) = 0)
        /\ ToSet(fixes) = {fixes[i] : i \in 1..Len(fixes)}
        /\ \A i \in 1..Len(fixes) : fixes[i].type \in EditTypes /\ fixes[i].edit \in Texts
    BY FixParts DEF Texts
  <1>2. <<>> \in Texts /\ \A t \in Texts : <<>> \o t = t /\ t \o <<>> = t
    BY EmptySeq, ConcatEmptySeq DEF Texts
  <1>3. \A type : Brought(k, type) =
            FlattenSeq([i \in 1..Len(fixes) |-> IF fixes[i].type = type THEN fixes[i].edit ELSE <<>>])
    BY <1>1 DEF Brought
  <1>4. Removed(k) <=> \E i \in 1..Len(fixes) : fixes[i].type \in {"delete", "replace"}
    BY <1>1 DEF Removed
  <1>5. k \in as => Carried(as, k, own) =
            Brought(k, "create_before") \o Brought(k, "replace")
              \o (IF Removed(k) THEN <<>> ELSE own) \o Brought(k, "create_after")
    BY DEF Carried
  <1>6. /\ k \in as <=> fixes # <<>>
        /\ Len(fixes) = 1 \/ Len(fixes) = 2 => fixes # <<>>
    <2>1. k \in as <=> fixes # <<>>
      OBVIOUS
    <2>2. ASSUME Len(fixes) = 1 \/ Len(fixes) = 2 PROVE fixes # <<>>
      <3>1. fixes = <<>> <=> Len(fixes) = 0
        BY FixParts
      <3>2. \A m : m = 1 \/ m = 2 => m # 0
        OBVIOUS
      <3>3. Len(fixes) # 0
        BY <2>2, <3>2
      <3>. QED  BY <3>1, <3>3, Zenon
    <2>. QED  BY <2>1, <2>2
  <1>. HIDE DEF fixes
  <1>7. CASE fixes = <<>>
    <2>1. EditsAt(k) = [before |-> <<>>, stays |-> TRUE, after |-> <<>>]
      BY <1>7, EditsNone DEF fixes
    <2>2. Carried(as, k, own) = own
      BY <1>6, <1>7 DEF Carried
    <2>3. <<>> \o own = own /\ own \o <<>> = own
      BY <1>2
    <2>4. EditsAt(k).before = <<>> /\ EditsAt(k).stays /\ EditsAt(k).after = <<>>
      BY <2>1
    <2>. QED  BY <2>2, <2>3, <2>4
  <1>8. CASE Len(fixes) = 1
    <2>. DEFINE f == fixes[1]
                e == f.edit
    <2>1. f.type \in EditTypes /\ e \in Texts
      BY <1>1, <1>8
    <2>2. Removed(k) <=> f.type \in {"delete", "replace"}
      BY <1>4, <1>8
    <2>3. \A type : Brought(k, type) = IF f.type = type THEN e ELSE <<>>
      <3>. TAKE type
      <3>. DEFINE s == IF f.type = type THEN e ELSE <<>>
      <3>1. s \in Texts
        BY <1>2, <2>1
      <3>2. [i \in 1..Len(fixes) |-> IF fixes[i].type = type THEN fixes[i].edit ELSE <<>>] = <<s>>
        BY <1>8
      <3>. HIDE DEF s
      <3>3. FlattenSeq(<<s>>) = s
        BY <3>1, FlattenOne DEF Texts
      <3>4. Brought(k, type) = s
        BY <1>3, <3>2, <3>3
      <3>. QED  BY <3>4 DEF s
    <2>4. /\ f.type = "delete" => EditsAt(k) = [before |-> <<>>, stays |-> FALSE, after |-> <<>>]
          /\ f.type = "replace" => EditsAt(k) = [before |-> e, stays |-> FALSE, after |-> <<>>]
          /\ f.type = "create_before" => EditsAt(k) = [before |-> e, stays |-> TRUE, after |-> <<>>]
          /\ f.type = "create_after" => EditsAt(k) = [before |-> <<>>, stays |-> TRUE, after |-> e]
      BY <1>8, EditsOne DEF fixes
    <2>5. k \in as
      BY <1>6, <1>8
    <2>. HIDE DEF e
    <2>6. e \o own \in Texts
      BY <2>1, ConcatProperties DEF Texts
    <2>. HIDE DEF f
    <2>7. CASE f.type = "delete"
      <3>1. /\ Brought(k, "create_before") = <<>> /\ Brought(k, "replace") = <<>>
            /\ Brought(k, "create_after") = <<>> /\ Removed(k)
        BY <2>2, <2>3, <2>7
      <3>2. Carried(as, k, own) = <<>> \o <<>> \o <<>> \o <<>>
        BY <1>5, <2>5, <3>1
      <3>. QED  BY <2>4, <2>7, <3>2, <1>2
    <2>8. CASE f.type = "replace"
      <3>1. /\ Brought(k, "create_before") = <<>> /\ Brought(k, "replace") = e
            /\ Brought(k, "create_after") = <<>> /\ Removed(k)
        BY <2>2, <2>3, <2>8
      <3>2. Carried(as, k, own) = <<>> \o e \o <<>> \o <<>>
        BY <1>5, <2>5, <3>1
      <3>3. <<>> \o e = e /\ e \o <<>> = e
        BY <1>2, <2>1
      <3>4. /\ EditsAt(k).before = e /\ EditsAt(k).after = <<>>
            /\ (IF EditsAt(k).stays THEN own ELSE <<>>) = <<>>
        BY <2>4, <2>8
      <3>5. Carried(as, k, own) = e \o <<>> \o <<>>
        BY <3>2, <3>3
      <3>. QED  BY <3>4, <3>5, Zenon
    <2>9. CASE f.type = "create_before"
      <3>1. /\ Brought(k, "create_before") = e /\ Brought(k, "replace") = <<>>
            /\ Brought(k, "create_after") = <<>> /\ ~Removed(k)
        BY <2>2, <2>3, <2>9
      <3>2. Carried(as, k, own) = e \o <<>> \o own \o <<>>
        BY <1>5, <2>5, <3>1
      <3>3. e \o <<>> = e /\ (e \o own) \o <<>> = e \o own
        BY <1>2, <2>1, <2>6
      <3>4. /\ EditsAt(k).before = e /\ EditsAt(k).after = <<>>
            /\ (IF EditsAt(k).stays THEN own ELSE <<>>) = own
        BY <2>4, <2>9
      <3>5. Carried(as, k, own) = e \o own \o <<>>
        BY <3>2, <3>3
      <3>. QED  BY <3>4, <3>5, Zenon
    <2>10. CASE f.type = "create_after"
      <3>1. /\ Brought(k, "create_before") = <<>> /\ Brought(k, "replace") = <<>>
            /\ Brought(k, "create_after") = e /\ ~Removed(k)
        BY <2>2, <2>3, <2>10
      <3>2. Carried(as, k, own) = <<>> \o <<>> \o own \o e
        BY <1>5, <2>5, <3>1
      <3>. QED  BY <1>2, <2>1, <2>4, <2>10, <3>2
    <2>. QED  BY <2>1, <2>7, <2>8, <2>9, <2>10 DEF EditTypes
  <1>9. CASE Len(fixes) = 2
    <2>. DEFINE f == fixes[1]
                g == fixes[2]
                x == f.edit
                y == g.edit
    <2>1. x \in Texts /\ y \in Texts
      BY <1>1, <1>9
    <2>2. \/ f.type = "create_before" /\ g.type = "create_after"
          \/ f.type = "create_after" /\ g.type = "create_before"
      BY <1>1, <1>9, ValidCases DEF fixes
    <2>3. ~Removed(k) /\ k \in as
      <3>1. \A i \in 1..2 : i = 1 \/ i = 2
        OBVIOUS
      <3>2. \A i \in 1..2 : fixes[i].type \notin {"delete", "replace"}
        BY <2>2, <3>1
      <3>. QED  BY <1>4, <1>6, <1>9, <3>2
    <2>4. \A type : Brought(k, type) = (IF f.type = type THEN x ELSE <<>>)
                                         \o (IF g.type = type THEN y ELSE <<>>)
      <3>. TAKE type
      <3>. DEFINE a == IF f.type = type THEN x ELSE <<>>
                  b == IF g.type = type THEN y ELSE <<>>
      <3>1. a \in Texts /\ b \in Texts
        BY <1>2, <2>1
      <3>2. [i \in 1..Len(fixes) |-> IF fixes[i].type = type THEN fixes[i].edit ELSE <<>>] = <<a, b>>
        BY <1>9
      <3>. HIDE DEF a, b
      <3>3. FlattenSeq(<<a, b>>) = a \o b
        BY <3>1, FlattenTwo DEF Texts
      <3>4. Brought(k, type) = a \o b
        BY <1>3, <3>2, <3>3
      <3>. QED  BY <3>4 DEF a, b
    <2>5. /\ f.type = "create_after" => EditsAt(k) = [before |-> y, stays |-> TRUE, after |-> x]
          /\ f.type = "create_before" => EditsAt(k) = [before |-> x, stays |-> TRUE, after |-> y]
      BY <1>9, EditsTwo DEF fixes
    <2>. HIDE DEF x, y
    <2>6. x \o own \in Texts /\ y \o own \in Texts
      BY <2>1, ConcatProperties DEF Texts
    <2>. HIDE DEF f, g
    <2>7. CASE f.type = "create_before"
      <3>1. /\ Brought(k, "create_before") = x \o <<>> /\ Brought(k, "replace") = <<>> \o <<>>
            /\ Brought(k, "create_after") = <<>> \o y
        BY <2>2, <2>4, <2>7
      <3>2. Carried(as, k, own) = (x \o <<>>) \o (<<>> \o <<>>) \o own \o (<<>> \o y)
        BY <1>5, <2>3, <3>1
      <3>. QED  BY <1>2, <2>1, <2>5, <2>7, <3>2
    <2>8. CASE f.type = "create_after"
      <3>1. /\ Brought(k, "create_before") = <<>> \o y /\ Brought(k, "replace") = <<>> \o <<>>
            /\ Brought(k, "create_after") = x \o <<>>
        BY <2>2, <2>4, <2>8
      <3>2. Carried(as, k, own) = (<<>> \o y) \o (<<>> \o <<>>) \o own \o (x \o <<>>)
        BY <1>5, <2>3, <3>1
      <3>. QED  BY <1>2, <2>1, <2>5, <2>8, <3>2
    <2>. QED  BY <2>2, <2>7, <2>8
  <1>. QED  BY <1>7, <1>8, <1>9, ValidCases DEF fixes

-----------------------------------------------------------------------------
(* The text that comes out.                                                *)

LEMMA FullKept ==
    ASSUME NEW text \in Texts
    PROVE  Full(Kept(text)) = text
  <1>1. <<>> \o text = text /\ text \o <<>> = text
    BY ConcatEmptySeq DEF Texts
  <1>2. Full(Kept(text)) = FlattenSeq(<<>>) \o (text \o FlattenSeq(<<>>))
    BY DEF Full, Kept
  <1>. QED  BY <1>1, <1>2, FlattenEmpty

\* The content of a segment depends only on the edits strictly below it.
LEMMA ContentLocal ==
    ASSUME GatherInv, NEW as \in SUBSET Anchors(tree), NEW bs \in SUBSET Anchors(tree),
           NEW n \in Inner(tree), \A m \in Below(tree)[n] \ {n} : m \in as <=> m \in bs
    PROVE  Content(as)[n] = Content(bs)[n]
  <1>. DEFINE Same(m) == \A k \in Below(tree)[m] \ {m} : k \in as <=> k \in bs
              P == {m \in Inner(tree) : Same(m) => Content(as)[m] = Content(bs)[m]}
  <1>1. ASSUME NEW m \in Inner(tree), Kids(tree, m) \cap Inner(tree) \subseteq P PROVE m \in P
    <2>1. SUFFICES ASSUME Same(m) PROVE Content(as)[m] = Content(bs)[m]
      OBVIOUS
    <2>2. ASSUME NEW k \in Kids(tree, m)
          PROVE  Carried(as, k, Own(Content(as), k)) = Carried(bs, k, Own(Content(bs), k))
      <3>1. k \in Below(tree)[m] /\ k # m
        BY TreeIs, BelowRule, BelowKids
      <3>2. k \in as <=> k \in bs
        BY <2>1, <3>1
      <3>3. k \in Inner(tree) => Content(as)[k] = Content(bs)[k]
        <4>1. SUFFICES ASSUME k \in Inner(tree) PROVE Same(k)
          BY <1>1
        <4>2. Below(tree)[k] \subseteq Below(tree)[m] \ {m}
          BY <4>1, TreeIs, BelowKids
        <4>. QED  BY <2>1, <4>2
      <3>4. Own(Content(as), k) = Own(Content(bs), k)
        BY <3>3 DEF Own
      <3>. QED  BY <3>2, <3>4 DEF Carried
    <2>3. \A i \in DOMAIN tree.kids[m] : tree.kids[m][i] \in Kids(tree, m)
      BY DEF Kids, ToSet
    <2>4. PartsOf(as, Content(as), m) = PartsOf(bs, Content(bs), m)
      BY <2>2, <2>3 DEF PartsOf
    <2>. QED  BY <2>4, ContentRule
  <1>. HIDE DEF P
  <1>2. Inner(tree) \subseteq P
    BY <1>1, TreeIs, TreeInduction
  <1>. QED  BY <1>2 DEF P

\* The segments that were put back as they had been.
Gave == {g \in Inner(tree) : RequiresValidate(Apply, g) /\ GivesUp(g)}

\* Not lost with one of those.
Free(k) == \A g \in Gave : k \notin Below(tree)[g] \ {g}
CarriedOut == {k \in Edited : Free(k)}

LEMMA FullStep ==
    ASSUME GatherInv, \A k \in Anchors(tree) : IsValid(infos[k]), NEW n \in Inner(tree), Free(n),
           \A k \in Kids(tree, n) \cap Inner(tree) :
               Free(k) => Full(Apply[k]) = Content(CarriedOut)[k]
    PROVE  Full(Apply[n]) = Content(CarriedOut)[n]
  <1>. DEFINE as == CarriedOut
              C == Content(as)
  <1>1. as \in SUBSET Anchors(tree) /\ {} \in SUBSET Anchors(tree)
    BY DEF CarriedOut, Edited
  <1>2. Apply[n] = ApplyOf(Apply, n)
    BY ApplyRule
  <1>3. CASE n \in Gave
    <2>1. Apply[n] = Kept(Original[n])
      BY <1>2, <1>3 DEF Gave, ApplyOf
    <2>2. Original[n] \in Texts /\ Original[n] = Content({})[n]
      BY <1>1, ContentRule DEF Original, Texts
    <2>3. Full(Apply[n]) = Content({})[n]
      BY <2>1, <2>2, FullKept
    <2>4. \A m \in Below(tree)[n] \ {n} : m \in as <=> m \in {}
      BY <1>3 DEF CarriedOut, Free
    <2>5. Content(as)[n] = Content({})[n]
      BY <1>1, <2>4, ContentLocal
    <2>. QED  BY <2>3, <2>5
  <1>4. CASE n \notin Gave
    <2>1. Apply[n] = Reform(Apply, n)
      BY <1>2, <1>4 DEF Gave, ApplyOf
    <2>2. \A k \in Inner(tree) : Apply[k] \in Results
      BY ApplyRule
    <2>3. Full(Apply[n]) = FlattenSeq(UnitTexts(Apply, n))
      BY <2>1, <2>2, ReformRule, UnitsRule
    <2>4. C[n] = FlattenSeq(PartsOf(as, C, n))
      BY <1>1, ContentRule
    <2>5. ASSUME NEW k \in Kids(tree, n)
          PROVE  FlattenSeq(UnitsAt(Apply, k)) = Carried(as, k, Own(C, k))
      <3>1. k \in Anchors(tree) /\ k # n
        BY TreeIs, BelowKids
      <3>2. Free(k)
        <4>1. SUFFICES ASSUME NEW g \in Gave, k \in Below(tree)[g], k # g PROVE FALSE
          BY DEF Free
        <4>2. n \in Below(tree)[g]
          BY <4>1, TreeIs, ParentBelow DEF Gave
        <4>. QED  BY <1>4, <4>2 DEF Free
      <3>3. k \in as <=> infos[k].fixes # <<>>
        BY <3>1, <3>2 DEF CarriedOut, Edited
      <3>4. Full(ResultOf(Apply, k)) = Own(C, k) /\ Own(C, k) \in Texts
        <4>1. CASE k \in Inner(tree)
          <5>1. Full(Apply[k]) = C[k]
            BY <3>2, <4>1
          <5>2. C[k] \in Texts
            BY <1>1, <4>1, ContentRule DEF Texts
          <5>. QED  BY <4>1, <5>1, <5>2 DEF ResultOf, Own
        <4>2. CASE k \notin Inner(tree)
          <5>1. <<Item(k)>> \in Texts
            BY <4>2, OwnType DEF Own, Texts
          <5>. QED  BY <4>2, <5>1, FullKept DEF ResultOf, Own
        <4>. QED  BY <4>1, <4>2
      <3>5. FlattenSeq(UnitsAt(Apply, k)) =
                EditsAt(k).before
                  \o (IF EditsAt(k).stays THEN Full(ResultOf(Apply, k)) ELSE <<>>)
                  \o EditsAt(k).after
        BY <2>2, UnitsAtRule
      <3>6. Carried(as, k, Own(C, k)) =
                EditsAt(k).before
                  \o (IF EditsAt(k).stays THEN Own(C, k) ELSE <<>>)
                  \o EditsAt(k).after
        <4>. DEFINE own == Own(C, k)
        <4>1. own \in Texts
          BY <3>4
        <4>. HIDE DEF own, as
        <4>2. Carried(as, k, own) =
                EditsAt(k).before
                  \o (IF EditsAt(k).stays THEN own ELSE <<>>)
                  \o EditsAt(k).after
          BY <3>1, <3>3, <4>1, CarriedIsEdits
        <4>. QED  BY <4>2 DEF own, as
      <3>. HIDE DEF C, as
      <3>. QED  BY <3>4, <3>5, <3>6
    <2>6. \A i \in DOMAIN tree.kids[n] : tree.kids[n][i] \in Kids(tree, n)
      BY DEF Kids, ToSet
    <2>7. UnitTexts(Apply, n) = PartsOf(as, C, n)
      <3>. HIDE DEF C, as
      <3>. QED  BY <2>5, <2>6 DEF UnitTexts, PartsOf
    <2>. QED  BY <2>3, <2>4, <2>7
  <1>. QED  BY <1>3, <1>4

\* The root has all its text in one piece.
LEMMA RootFull ==
    ASSUME GatherInv, ResultInv, stage = "applied"
    PROVE  Full(result) = result.text
  <1>1. result.before = <<>> /\ result.after = <<>>
    BY TypeFromInv DEF TypeOK
  <1>2. result.text \in Texts
    BY ApplyRule, ResultsParts, TreeIs DEF ResultInv
  <1>3. <<>> \o result.text = result.text /\ result.text \o <<>> = result.text
    BY <1>2, ConcatEmptySeq DEF Texts
  <1>. QED  BY <1>1, <1>3, FlattenEmpty DEF Full

LEMMA TextFromInv == GatherInv /\ ResultInv => TextIsEdited
  <1>. SUFFICES ASSUME GatherInv, ResultInv, stage = "applied"
                PROVE  /\ \E as \in SUBSET Edited : result.text = Content(as)[Root]
                       /\ tree.unparsable = {} => result.text = Content(Edited)[Root]
    BY DEF TextIsEdited
  <1>1. result = Apply[Root] /\ \A k \in Anchors(tree) : IsValid(infos[k])
    BY DEF ResultInv
  <1>. DEFINE P == {n \in Inner(tree) : Free(n) => Full(Apply[n]) = Content(CarriedOut)[n]}
  <1>2. ASSUME NEW n \in Inner(tree), Kids(tree, n) \cap Inner(tree) \subseteq P PROVE n \in P
    BY <1>1, <1>2, FullStep
  <1>. HIDE DEF P
  <1>3. Inner(tree) \subseteq P
    BY <1>2, TreeIs, TreeInduction
  <1>4. Free(Root)
    BY RootOnTop, TreeIs DEF Free, Gave
  <1>5. Full(result) = Content(CarriedOut)[Root]
    BY <1>1, <1>3, <1>4, TreeIs DEF P
  <1>6. Full(result) = result.text
    BY RootFull
  <1>7. CarriedOut \in SUBSET Edited
    BY DEF CarriedOut
  <1>8. tree.unparsable = {} => CarriedOut = Edited
    BY DEF CarriedOut, Free, Gave, GivesUp, IsUnparsable
  <1>. QED  BY <1>5, <1>6, <1>7, <1>8

\* The text that apply_fixes returns is the text it was given with edits of the fixes
\* carried out where they stand, and all of them where everything parses: nothing is
\* lost, doubled or moved by recursing, by edits before and after a segment in
\* either order, and by handing non-code up to the parent.
THEOREM TextAsEdited == Spec => []TextIsEdited
  BY Invariance, TextFromInv, PTL

-----------------------------------------------------------------------------
(* Unparsable sections.                                                    *)

\* A raw is there, or one that replaces it or what it is in, of the same class.
KeptIn(r, text) ==
    \/ Item(r) \in ToSet(text)
    \/ \E k \in Edited : /\ Holds(k, r)
                         /\ \E f \in ToSet(infos[k].fixes) :
                               ~NeedsValidation(f) /\ ToSet(f.edit) \subseteq ToSet(text)

LEMMA KeptInMore ==
    ASSUME NEW r, NEW s, NEW t, ToSet(s) \subseteq ToSet(t), KeptIn(r, s)
    PROVE  KeptIn(r, t)
  BY DEF KeptIn

LEMMA ConcatSets ==
    ASSUME NEW S, NEW a \in Seq(S), NEW b \in Seq(S), NEW c \in Seq(S)
    PROVE  /\ ToSet(a) \subseteq ToSet(a \o b \o c)
           /\ ToSet(b) \subseteq ToSet(a \o b \o c)
           /\ ToSet(c) \subseteq ToSet(a \o b \o c)
  <1>1. \A q : ToSet(q) = Range(q)
    BY DEF ToSet, Range
  <1>2. a \o b \in Seq(S) /\ Range(a \o b) = Range(a) \cup Range(b)
    BY ConcatProperties, RangeConcatenation
  <1>3. Range((a \o b) \o c) = Range(a \o b) \cup Range(c)
    <2>. DEFINE ab == a \o b
    <2>1. ab \in Seq(S)
      BY <1>2
    <2>. HIDE DEF ab
    <2>2. Range(ab \o c) = Range(ab) \cup Range(c)
      BY <2>1, RangeConcatenation
    <2>. QED  BY <2>2 DEF ab
  <1>. QED  BY <1>1, <1>2, <1>3

\* The way down to a segment below another.
LEMMA WayDown ==
    ASSUME NEW tr \in Trees, NEW n \in Inner(tr), NEW u \in Inner(tr), u \in Below(tr)[n]
    PROVE  u = n \/ \E k \in Kids(tr, n) \cap Inner(tr) : u \in Below(tr)[k]
  BY BelowRule

\* The original text has the raws.
LEMMA OriginalHas ==
    ASSUME GatherInv, NEW u \in Inner(tree), NEW r \in Kids(tree, u) \cap Raws,
           NEW n \in Inner(tree), u \in Below(tree)[n]
    PROVE  Item(r) \in ToSet(Original[n])
  <1>. DEFINE C == Content({})
              P == {m \in Inner(tree) : u \in Below(tree)[m] => Item(r) \in ToSet(C[m])}
  <1>1. ASSUME NEW m \in Inner(tree), Kids(tree, m) \cap Inner(tree) \subseteq P PROVE m \in P
    <2>1. SUFFICES ASSUME u \in Below(tree)[m] PROVE Item(r) \in ToSet(C[m])
      OBVIOUS
    <2>2. /\ C[m] = FlattenSeq(PartsOf({}, C, m))
          /\ PartsOf({}, C, m) \in Seq(Seq(Items))
      BY ContentRule, PartsType
    <2>3. ToSet(C[m]) = UNION {ToSet(PartsOf({}, C, m)[i]) : i \in DOMAIN PartsOf({}, C, m)}
      BY <2>2, FlattenRange
    <2>4. ASSUME NEW k \in Kids(tree, m) PROVE ToSet(Own(C, k)) \subseteq ToSet(C[m])
      <3>1. PICK i \in DOMAIN tree.kids[m] : k = tree.kids[m][i]
        BY DEF Kids, ToSet
      <3>2. i \in DOMAIN PartsOf({}, C, m) /\ PartsOf({}, C, m)[i] = Own(C, k)
        BY <3>1 DEF PartsOf, Carried
      <3>. QED  BY <2>3, <3>2
    <2>5. CASE u = m
      <3>1. r \notin Inner(tree)
        BY TreeIs
      <3>2. Own(C, r) = <<Item(r)>> /\ Item(r) \in ToSet(<<Item(r)>>)
        BY <3>1 DEF Own, ToSet
      <3>. QED  BY <2>4, <2>5, <3>2
    <2>6. ASSUME NEW k \in Kids(tree, m) \cap Inner(tree), u \in Below(tree)[k]
          PROVE  Item(r) \in ToSet(C[m])
      <3>1. Item(r) \in ToSet(C[k]) /\ Own(C, k) = C[k]
        BY <1>1, <2>6 DEF Own
      <3>. QED  BY <2>4, <3>1
    <2>. QED  BY <2>1, <2>5, <2>6, TreeIs, WayDown
  <1>. HIDE DEF P
  <1>2. Inner(tree) \subseteq P
    BY <1>1, TreeIs, TreeInduction
  <1>. QED  BY <1>2 DEF P, Original

LEMMA KeptStep ==
    ASSUME GatherInv, \A k \in Anchors(tree) : IsValid(infos[k]), ~fixEvenUnparsable,
           NEW u \in tree.unparsable, NEW r \in Kids(tree, u) \cap Raws,
           NEW n \in Inner(tree), u \in Below(tree)[n],
           \A k \in Kids(tree, n) \cap Inner(tree) :
               u \in Below(tree)[k] => KeptIn(r, Full(Apply[k]))
    PROVE  KeptIn(r, Full(Apply[n]))
  <1>1. u \in Inner(tree) /\ GivesUp(n)
    BY TreeIs DEF GivesUp, IsUnparsable
  <1>2. Apply[n] = ApplyOf(Apply, n)
    BY ApplyRule
  <1>3. CASE RequiresValidate(Apply, n)
    <2>1. Apply[n] = Kept(Original[n])
      BY <1>1, <1>2, <1>3 DEF ApplyOf
    <2>2. Original[n] \in Texts
      BY ContentRule DEF Original, Texts
    <2>3. Full(Apply[n]) = Original[n]
      BY <2>1, <2>2, FullKept
    <2>. QED  BY <1>1, <2>3, OriginalHas DEF KeptIn
  <1>4. CASE ~RequiresValidate(Apply, n)
    <2>1. Apply[n] = Reform(Apply, n)
      BY <1>2, <1>4 DEF ApplyOf
    <2>2. \A k \in Kids(tree, n) : \A f \in ToSet(infos[k].fixes) : ~NeedsValidation(f)
      BY <1>4 DEF RequiresValidate, OwnValidation
    <2>3. \A k \in Inner(tree) : Apply[k] \in Results
      BY ApplyRule
    <2>4. /\ Full(Apply[n]) = FlattenSeq(UnitTexts(Apply, n))
          /\ UnitTexts(Apply, n) \in Seq(Seq(Items))
      BY <2>1, <2>3, ReformRule, UnitsRule DEF Texts
    <2>5. ToSet(Full(Apply[n]))
              = UNION {ToSet(UnitTexts(Apply, n)[i]) : i \in DOMAIN UnitTexts(Apply, n)}
      BY <2>4, FlattenRange
    <2>6. ASSUME NEW k \in Kids(tree, n)
          PROVE  ToSet(FlattenSeq(UnitsAt(Apply, k))) \subseteq ToSet(Full(Apply[n]))
      <3>1. PICK i \in DOMAIN tree.kids[n] : k = tree.kids[n][i]
        BY DEF Kids, ToSet
      <3>2. /\ i \in DOMAIN UnitTexts(Apply, n)
            /\ UnitTexts(Apply, n)[i] = FlattenSeq(UnitsAt(Apply, k))
        BY <3>1 DEF UnitTexts
      <3>. QED  BY <2>5, <3>2
    <2>7. ASSUME NEW k \in Kids(tree, n)
          PROVE  /\ ToSet(EditsAt(k).before) \subseteq ToSet(Full(Apply[n]))
                 /\ EditsAt(k).stays => ToSet(Full(ResultOf(Apply, k))) \subseteq ToSet(Full(Apply[n]))
      <3>. DEFINE b == EditsAt(k).before
                  s == IF EditsAt(k).stays THEN Full(ResultOf(Apply, k)) ELSE <<>>
                  a == EditsAt(k).after
      <3>1. FlattenSeq(UnitsAt(Apply, k)) = b \o s \o a
        BY <2>3, UnitsAtRule
      <3>2. b \in Seq(Items) /\ s \in Seq(Items) /\ a \in Seq(Items)
        <4>1. b \in Seq(Items) /\ a \in Seq(Items)
          BY EditsType, TreeIs DEF Texts
        <4>2. Full(ResultOf(Apply, k)) \in Seq(Items)
          BY <2>3, ResultOfType, FullType DEF Texts
        <4>. QED  BY <4>1, <4>2, EmptySeq
      <3>3. EditsAt(k).stays => s = Full(ResultOf(Apply, k))
        OBVIOUS
      <3>. HIDE DEF b, s, a
      <3>4. ToSet(b) \subseteq ToSet(b \o s \o a) /\ ToSet(s) \subseteq ToSet(b \o s \o a)
        BY <3>2, ConcatSets
      <3>5. ToSet(b) \subseteq ToSet(Full(Apply[n])) /\ ToSet(s) \subseteq ToSet(Full(Apply[n]))
        BY <2>6, <3>1, <3>4
      <3>. QED  BY <3>3, <3>5 DEF b
    \* A child is not edited, or replaced by one of its class that is there.
    <2>8. ASSUME NEW k \in Kids(tree, n)
          PROVE  \/ infos[k].fixes = <<>>
                 \/ k \in Edited /\ \E f \in ToSet(infos[k].fixes) :
                        ~NeedsValidation(f) /\ ToSet(f.edit) \subseteq ToSet(Full(Apply[n]))
      <3>1. k \in Anchors(tree)
        BY TreeIs
      <3>2. \A i \in 1..Len(infos[k].fixes) : infos[k].fixes[i] \in ToSet(infos[k].fixes)
        <4>. DEFINE fixes == infos[k].fixes
        <4>1. ToSet(fixes) = {fixes[i] : i \in 1..Len(fixes)}
          BY <3>1, FixParts
        <4>. HIDE DEF fixes
        <4>2. \A i \in 1..Len(fixes) : fixes[i] \in ToSet(fixes)
          BY <4>1
        <4>. QED  BY <4>2 DEF fixes
      <3>3. CASE Len(infos[k].fixes) = 1
        <4>. DEFINE f == infos[k].fixes[1]
        <4>1. f \in ToSet(infos[k].fixes) /\ ~NeedsValidation(f)
          BY <2>2, <3>1, <3>2, <3>3
        <4>2. f.type = "replace"
          BY <4>1 DEF NeedsValidation
        <4>3. EditsAt(k) = [before |-> f.edit, stays |-> FALSE, after |-> <<>>]
          BY <3>1, <3>3, <4>2, EditsOne
        <4>4. ToSet(f.edit) \subseteq ToSet(Full(Apply[n]))
          BY <2>7, <3>1, <4>3
        <4>. QED  BY <3>1, <3>3, <4>1, <4>4 DEF Edited
      <3>4. CASE Len(infos[k].fixes) = 2 /\ infos[k].fixes[1].type \in {"create_before", "create_after"}
        <4>1. ~NeedsValidation(infos[k].fixes[1])
          BY <2>2, <3>1, <3>2, <3>4
        <4>. QED  BY <3>4, <4>1 DEF NeedsValidation
      <3>. QED  BY <3>1, <3>3, <3>4, ValidCases
    <2>9. ASSUME NEW k \in Kids(tree, n), infos[k].fixes = <<>>
          PROVE  ToSet(Full(ResultOf(Apply, k))) \subseteq ToSet(Full(Apply[n]))
      BY <2>7, <2>9, EditsNone
    <2>10. CASE u = n
      <3>1. r \in Kids(tree, n) /\ r \notin Inner(tree) /\ r \in Anchors(tree) /\ Holds(r, r)
        BY <2>10, TreeIs DEF Holds
      <3>2. CASE infos[r].fixes = <<>>
        <4>1. <<Item(r)>> \in Texts
          BY <3>1, OwnType DEF Own, Texts
        <4>2. Full(ResultOf(Apply, r)) = <<Item(r)>>
          BY <3>1, <4>1, FullKept DEF ResultOf
        <4>3. Item(r) \in ToSet(<<Item(r)>>)
          BY DEF ToSet
        <4>. QED  BY <2>9, <3>1, <3>2, <4>2, <4>3 DEF KeptIn
      <3>. QED  BY <2>8, <3>1, <3>2 DEF KeptIn
    <2>11. ASSUME NEW k \in Kids(tree, n) \cap Inner(tree), u \in Below(tree)[k]
           PROVE  KeptIn(r, Full(Apply[n]))
      <3>1. Holds(k, r)
        <4>1. r \in Below(tree)[u] /\ Below(tree)[u] \subseteq Below(tree)[k]
          BY <1>1, <2>11, TreeIs, BelowRule, BelowBelow
        <4>. QED  BY <4>1 DEF Holds
      <3>2. CASE infos[k].fixes = <<>>
        <4>1. ToSet(Full(Apply[k])) \subseteq ToSet(Full(Apply[n]))
          BY <2>9, <3>2 DEF ResultOf
        <4>2. KeptIn(r, Full(Apply[k]))
          BY <2>11
        <4>. QED  BY <4>1, <4>2, KeptInMore
      <3>. QED  BY <2>8, <3>1, <3>2 DEF KeptIn
    <2>. QED  BY <1>1, <2>10, <2>11, TreeIs, WayDown
  <1>. QED  BY <1>3, <1>4

LEMMA KeptFromInv == GatherInv /\ ResultInv => UnparsableKept
  <1>. SUFFICES ASSUME GatherInv, ResultInv, stage = "applied", ~fixEvenUnparsable,
                       NEW u \in tree.unparsable, NEW r \in Kids(tree, u) \cap Raws
                PROVE  KeptIn(r, result.text)
    BY DEF UnparsableKept, KeptIn
  <1>1. result = Apply[Root] /\ \A k \in Anchors(tree) : IsValid(infos[k])
    BY DEF ResultInv
  <1>. DEFINE P == {n \in Inner(tree) : u \in Below(tree)[n] => KeptIn(r, Full(Apply[n]))}
  <1>2. ASSUME NEW n \in Inner(tree), Kids(tree, n) \cap Inner(tree) \subseteq P PROVE n \in P
    BY <1>1, <1>2, KeptStep
  <1>. HIDE DEF P
  <1>3. Inner(tree) \subseteq P
    BY <1>2, TreeIs, TreeInduction
  <1>4. u \in Below(tree)[Root]
    BY TreeIs, TreesAssumption
  <1>5. KeptIn(r, Full(result))
    BY <1>1, <1>3, <1>4, TreeIs DEF P
  <1>. QED  BY <1>1, <1>5, RootFull

\* A raw directly in a section that was not parsed is still there after fixing, for
\* an edit that would need parsing is given up by the first segment around it, unless
\* fix_even_unparsable is set. The one way of losing it is that it, or a segment that
\* holds the section, was replaced by one of the same class, which then is there.
THEOREM UnparsableStays == Spec => []UnparsableKept
  BY Invariance, KeptFromInv, PTL
=============================================================================
