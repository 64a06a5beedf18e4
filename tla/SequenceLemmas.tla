--------------------------- MODULE SequenceLemmas ---------------------------
(***************************************************************************)
(* Induction over numbers and sequences, with sets for the predicates, and *)
(* what it yields about the sequence operators of the models.              *)
(***************************************************************************)
EXTENDS Sublists, SequenceTheorems, WellFoundedInduction, TLAPS

\* A set that holds 0 and is closed under successor holds the naturals.
LEMMA NatSetInduction ==
  ASSUME NEW S, 0 \in S, \A n \in Nat : n \in S => n + 1 \in S
  PROVE  Nat \subseteq S
<1> DEFINE T == Nat \ S
<1> SUFFICES ASSUME T # {} PROVE FALSE
  OBVIOUS
<1>1. T \subseteq Nat
  OBVIOUS
<1>2. PICK x \in T : \A y \in T : ~ (<<y, x>> \in OpToRel(<, Nat))
  BY <1>1, NatLessThanWellFounded, WFMin, Zenon
<1>3. \A y \in T : ~ (y < x)
  BY <1>2 DEF OpToRel
<1>4. x \in Nat /\ x # 0 /\ x - 1 \in Nat /\ x - 1 < x
  OBVIOUS
<1>5. x - 1 \in S
  BY <1>3, <1>4
<1> QED
  BY <1>4, <1>5

\* A non-empty set of naturals has a least element.
LEMMA Least ==
  ASSUME NEW T, T \subseteq Nat, T # {}
  PROVE  \E x \in T : \A y \in T : x <= y
<1>1. PICK x \in T : \A y \in T : ~ (<<y, x>> \in OpToRel(<, Nat))
  BY NatLessThanWellFounded, WFMin, Zenon
<1>2. \A y \in T : ~ (y < x)
  BY <1>1 DEF OpToRel
<1> QED
  BY <1>2

\* A set that holds the empty sequence and is closed under Append holds all sequences.
LEMMA SeqSetInduction ==
  ASSUME NEW U, NEW S, <<>> \in S,
         \A s \in Seq(U), e \in U : s \in S => Append(s, e) \in S
  PROVE  Seq(U) \subseteq S
<1> DEFINE N == {n \in Nat : \A s \in Seq(U) : Len(s) = n => s \in S}
<1>1. 0 \in N
  BY EmptySeq
<1>2. ASSUME NEW n \in Nat, n \in N
      PROVE  n + 1 \in N
  <2> SUFFICES ASSUME NEW s \in Seq(U), Len(s) = n + 1
               PROVE  s \in S
    BY <1>2
  <2>1. s # <<>>
    BY EmptySeq
  <2>2. PICK t \in Seq(U), e \in U : s = Append(t, e)
    BY <2>1, SequenceEmptyOrAppend
  <2>3. Len(t) = n
    BY <2>2, AppendProperties, LenProperties
  <2> QED
    BY <1>2, <2>2, <2>3
<1> HIDE DEF N
<1>3. Nat \subseteq N
  BY <1>1, <1>2, NatSetInduction
<1> QED
  BY <1>3, LenProperties DEF N

-----------------------------------------------------------------------------
(* FlattenSeq *)

\* What the recursive function in the definition of FlattenSeq is.
Flattening(f, ss, n) == f = [i \in 1 .. n |-> IF i = 1 THEN ss[i] ELSE f[i - 1] \o ss[i]]

LEMMA FlatteningAt ==
  ASSUME NEW f, NEW ss, NEW n, Flattening(f, ss, n), NEW i \in 1 .. n
  PROVE  f[i] = IF i = 1 THEN ss[i] ELSE f[i - 1] \o ss[i]
<1> DEFINE g == [k \in 1 .. n |-> IF k = 1 THEN ss[k] ELSE f[k - 1] \o ss[k]]
<1>1. g[i] = IF i = 1 THEN ss[i] ELSE f[i - 1] \o ss[i]
  OBVIOUS
<1>2. f = g
  BY Zenon DEF Flattening
<1> HIDE DEF g
<1> QED
  BY <1>1, <1>2, Zenon

\* It exists.
LEMMA FlattenDefined ==
  ASSUME NEW ss
  PROVE  \A n \in Nat : \E f : Flattening(f, ss, n)
<1> DEFINE N == {n \in Nat : \E f : Flattening(f, ss, n)}
<1>1. 0 \in N
  <2> DEFINE f == [i \in 1 .. 0 |-> ss[i]]
  <2>1. Flattening(f, ss, 0)
    BY DEF Flattening
  <2> QED
    BY <2>1
<1>2. ASSUME NEW n \in Nat, n \in N
      PROVE  n + 1 \in N
  <2>1. PICK f : Flattening(f, ss, n)
    BY <1>2
  <2> DEFINE g == [i \in 1 .. n + 1 |->
                     IF i <= n THEN f[i] ELSE IF i = 1 THEN ss[i] ELSE f[i - 1] \o ss[i]]
  <2>2. ASSUME NEW i \in 1 .. n + 1
        PROVE  g[i] = IF i = 1 THEN ss[i] ELSE g[i - 1] \o ss[i]
    <3>1. CASE i <= n
      <4>1. f[i] = IF i = 1 THEN ss[i] ELSE f[i - 1] \o ss[i]
        BY <2>1, <3>1, FlatteningAt
      <4> QED
        BY <3>1, <4>1
    <3>2. CASE i = n + 1
      BY <3>2
    <3> QED
      BY <3>1, <3>2
  <2>3. Flattening(g, ss, n + 1)
    BY <2>2 DEF Flattening
  <2> QED
    BY <2>3
<1> HIDE DEF N
<1>3. Nat \subseteq N
  BY <1>1, <1>2, NatSetInduction
<1> QED
  BY <1>3 DEF N

\* Two of them agree where both are defined.
LEMMA FlattenUnique ==
  ASSUME NEW ss, NEW tt, NEW n \in Nat, NEW m \in Nat, n <= m,
         \A i \in 1 .. n : ss[i] = tt[i],
         NEW f, Flattening(f, ss, n), NEW g, Flattening(g, tt, m)
  PROVE  \A i \in 1 .. n : f[i] = g[i]
<1> DEFINE N == {k \in Nat : k \in 1 .. n => f[k] = g[k]}
<1>1. 0 \in N
  OBVIOUS
<1>2. ASSUME NEW k \in Nat, k \in N
      PROVE  k + 1 \in N
  <2> SUFFICES ASSUME k + 1 \in 1 .. n PROVE f[k + 1] = g[k + 1]
    OBVIOUS
  <2>1. f[k + 1] = IF k + 1 = 1 THEN ss[k + 1] ELSE f[(k + 1) - 1] \o ss[k + 1]
    BY FlatteningAt
  <2>2. g[k + 1] = IF k + 1 = 1 THEN tt[k + 1] ELSE g[(k + 1) - 1] \o tt[k + 1]
    BY FlatteningAt
  <2>3. (k + 1) - 1 = k /\ ss[k + 1] = tt[k + 1]
    OBVIOUS
  <2>4. k # 0 => f[k] = g[k]
    BY <1>2
  <2> QED
    BY <2>1, <2>2, <2>3, <2>4
<1> HIDE DEF N
<1>3. Nat \subseteq N
  BY <1>1, <1>2, NatSetInduction
<1> QED
  BY <1>3 DEF N

LEMMA FlattenEmpty == FlattenSeq(<<>>) = <<>>
BY DEF FlattenSeq

LEMMA FlattenIs ==
  ASSUME NEW ss, Len(ss) \in Nat, Len(ss) # 0
  PROVE  \E f : Flattening(f, ss, Len(ss)) /\ FlattenSeq(ss) = f[Len(ss)]
<1> DEFINE f == CHOOSE h : Flattening(h, ss, Len(ss))
<1>1. Flattening(f, ss, Len(ss))
  BY FlattenDefined
<1>2. FlattenSeq(ss) = f[Len(ss)]
  BY Zenon DEF FlattenSeq, Flattening
<1> QED
  BY <1>1, <1>2, Zenon

\* Flattening a longer sequence appends the new part.
LEMMA FlattenAppend ==
  ASSUME NEW U, NEW ss \in Seq(Seq(U)), NEW s \in Seq(U)
  PROVE  FlattenSeq(Append(ss, s)) = FlattenSeq(ss) \o s
<1> DEFINE tt == Append(ss, s)
           n == Len(ss)
<1>1. /\ n \in Nat /\ Len(tt) = n + 1
      /\ \A i \in 1 .. n : ss[i] = tt[i]
      /\ tt[n + 1] = s
  BY AppendProperties, LenProperties
<1>2. PICK g : Flattening(g, tt, n + 1) /\ FlattenSeq(tt) = g[n + 1]
  <2> HIDE DEF tt, n
  <2>1. Len(tt) \in Nat /\ Len(tt) # 0
    BY <1>1
  <2>2. \E g : Flattening(g, tt, Len(tt)) /\ FlattenSeq(tt) = g[Len(tt)]
    BY <2>1, FlattenIs
  <2> QED
    BY <1>1, <2>2
<1> HIDE DEF tt
<1>3. CASE n = 0
  <2>1. ss = <<>> /\ FlattenSeq(ss) = <<>>
    BY <1>3, EmptySeq, FlattenEmpty
  <2>2. g[n + 1] = s
    BY <1>1, <1>2, <1>3, FlatteningAt
  <2> QED
    BY <1>2, <2>1, <2>2, ConcatEmptySeq DEF tt
<1>4. CASE n # 0
  <2>1. PICK f : Flattening(f, ss, n) /\ FlattenSeq(ss) = f[n]
    BY <1>1, <1>4, FlattenIs
  <2> HIDE DEF n
  <2>2. n + 1 \in Nat /\ n <= n + 1 /\ n \in 1 .. n
    BY <1>1, <1>4
  <2>3. f[n] = g[n]
    BY <1>1, <1>2, <2>1, <2>2, FlattenUnique, SMTT(30)
  <2>4. n + 1 \in 1 .. n + 1 /\ n + 1 # 1 /\ (n + 1) - 1 = n
    BY <1>1, <1>4
  <2> DEFINE m == n + 1
  <2>5. Flattening(g, tt, m) /\ m \in 1 .. m
    BY <1>2, <2>4
  <2> HIDE DEF m
  <2>6. g[m] = IF m = 1 THEN tt[m] ELSE g[m - 1] \o tt[m]
    BY <2>5, FlatteningAt
  <2> QED
    BY <1>1, <1>2, <2>1, <2>3, <2>4, <2>6 DEF tt, m
<1> QED
  BY <1>3, <1>4

LEMMA FlattenType ==
  ASSUME NEW U
  PROVE  \A ss \in Seq(Seq(U)) : FlattenSeq(ss) \in Seq(U)
<1> DEFINE S == {ss \in Seq(Seq(U)) : FlattenSeq(ss) \in Seq(U)}
<1>1. <<>> \in S
  BY FlattenEmpty, EmptySeq
<1>2. ASSUME NEW ss \in Seq(Seq(U)), NEW s \in Seq(U), ss \in S
      PROVE  Append(ss, s) \in S
  BY <1>2, FlattenAppend, AppendProperties, ConcatProperties
<1> HIDE DEF S
<1>3. Seq(Seq(U)) \subseteq S
  BY <1>1, <1>2, SeqSetInduction
<1> QED
  BY <1>3 DEF S

\* Flattening distributes over concatenation.
LEMMA FlattenConcat ==
  ASSUME NEW U, NEW ss \in Seq(Seq(U))
  PROVE  \A tt \in Seq(Seq(U)) : FlattenSeq(ss \o tt) = FlattenSeq(ss) \o FlattenSeq(tt)
<1> DEFINE S == {tt \in Seq(Seq(U)) : FlattenSeq(ss \o tt) = FlattenSeq(ss) \o FlattenSeq(tt)}
<1>1. <<>> \in S
  BY FlattenEmpty, FlattenType, EmptySeq, ConcatEmptySeq
<1>2. ASSUME NEW tt \in Seq(Seq(U)), NEW t \in Seq(U), tt \in S
      PROVE  Append(tt, t) \in S
  <2>1. ss \o Append(tt, t) = Append(ss \o tt, t)
    <3>1. Append(tt, t) = tt \o <<t>> /\ Append(ss \o tt, t) = (ss \o tt) \o <<t>>
      BY AppendIsConcat, ConcatProperties
    <3>2. <<t>> \in Seq(Seq(U))
      OBVIOUS
    <3> QED
      BY <3>1, <3>2, ConcatAssociative
  <2>2. FlattenSeq(ss \o Append(tt, t)) = (FlattenSeq(ss) \o FlattenSeq(tt)) \o t
    <3>1. ss \o tt \in Seq(Seq(U))
      BY ConcatProperties
    <3>2. FlattenSeq(Append(ss \o tt, t)) = FlattenSeq(ss \o tt) \o t
      BY <3>1, FlattenAppend
    <3> QED
      BY <1>2, <2>1, <3>2
  <2>3. FlattenSeq(ss) \in Seq(U) /\ FlattenSeq(tt) \in Seq(U)
    BY FlattenType
  <2>4. FlattenSeq(ss \o Append(tt, t)) = FlattenSeq(ss) \o (FlattenSeq(tt) \o t)
    BY <2>2, <2>3, ConcatAssociative
  <2> QED
    BY <2>4, FlattenAppend, AppendProperties
<1> HIDE DEF S
<1>3. Seq(Seq(U)) \subseteq S
  BY <1>1, <1>2, SeqSetInduction
<1> QED
  BY <1>3 DEF S

-----------------------------------------------------------------------------
(* Keep                                                                    *)

\* The recursive function in the definition of Keep, and what it says.
Keeping(f, s, kept) ==
  f = [i \in 0 .. Len(s) |->
         IF i = 0 THEN <<>> ELSE IF s[i] \in kept THEN Append(f[i - 1], s[i]) ELSE f[i - 1]]

KeepingTo(f, s, kept, n) ==
  /\ f[0] = <<>>
  /\ \A i \in 1 .. n : f[i] = IF s[i] \in kept THEN Append(f[i - 1], s[i]) ELSE f[i - 1]

LEMMA KeepingExists ==
  ASSUME NEW s, NEW kept
  PROVE  \A n \in Nat : \E f : KeepingTo(f, s, kept, n) /\ DOMAIN f = 0 .. n
<1> DEFINE N == {n \in Nat : \E f : KeepingTo(f, s, kept, n) /\ DOMAIN f = 0 .. n}
<1>1. 0 \in N
  <2> DEFINE f == [i \in 0 .. 0 |-> <<>>]
  <2>1. KeepingTo(f, s, kept, 0) /\ DOMAIN f = 0 .. 0
    BY DEF KeepingTo
  <2> QED
    BY <2>1
<1>2. ASSUME NEW n \in Nat, n \in N
      PROVE  n + 1 \in N
  <2>1. PICK f : KeepingTo(f, s, kept, n) /\ DOMAIN f = 0 .. n
    BY <1>2
  <2> DEFINE x == IF s[n + 1] \in kept THEN Append(f[n], s[n + 1]) ELSE f[n]
             g == [i \in 0 .. n + 1 |-> IF i <= n THEN f[i] ELSE x]
  <2>2. g[0] = <<>> /\ \A i \in 0 .. n : g[i] = f[i]
    BY <2>1 DEF KeepingTo
  <2>3. g[n + 1] = x
    OBVIOUS
  <2>4. DOMAIN g = 0 .. n + 1
    OBVIOUS
  <2> HIDE DEF g
  <2>5. ASSUME NEW i \in 1 .. n + 1
        PROVE  g[i] = IF s[i] \in kept THEN Append(g[i - 1], s[i]) ELSE g[i - 1]
    <3>1. CASE i <= n
      <4>1. f[i] = IF s[i] \in kept THEN Append(f[i - 1], s[i]) ELSE f[i - 1]
        BY <2>1, <3>1 DEF KeepingTo
      <4>2. g[i] = f[i] /\ g[i - 1] = f[i - 1]
        BY <2>2, <3>1
      <4> QED
        BY <4>1, <4>2
    <3>2. CASE i = n + 1
      <4>1. g[i - 1] = f[n] /\ i - 1 = n
        BY <2>2, <3>2
      <4> QED
        BY <2>3, <3>2, <4>1
    <3> QED
      BY <3>1, <3>2
  <2>6. KeepingTo(g, s, kept, n + 1)
    BY <2>2, <2>5 DEF KeepingTo
  <2> QED
    BY <2>4, <2>6
<1> HIDE DEF N
<1>3. Nat \subseteq N
  BY <1>1, <1>2, NatSetInduction
<1> QED
  BY <1>3 DEF N

LEMMA KeepIs ==
  ASSUME NEW s, Len(s) \in Nat, NEW kept
  PROVE  \E f : KeepingTo(f, s, kept, Len(s)) /\ Keep(s, kept) = f[Len(s)]
<1> DEFINE b == CHOOSE h : Keeping(h, s, kept)
           n == Len(s)
<1>1. PICK d : KeepingTo(d, s, kept, n) /\ DOMAIN d = 0 .. n
  BY KeepingExists
<1> DEFINE f == [i \in 0 .. n |-> d[i]]
<1>2. Keeping(f, s, kept)
  <2>1. \A i \in 1 .. n : f[i - 1] = d[i - 1] /\ f[i] = d[i]
    OBVIOUS
  <2>2. f[0] = <<>>
    BY <1>1 DEF KeepingTo
  <2>3. ASSUME NEW i \in 0 .. n
        PROVE  f[i] = IF i = 0 THEN <<>>
                      ELSE IF s[i] \in kept THEN Append(f[i - 1], s[i]) ELSE f[i - 1]
    <3>1. CASE i = 0
      BY <2>2, <3>1
    <3>2. CASE i # 0
      <4>0. i \in 1 .. n
        BY <3>2
      <4> HIDE DEF f, n
      <4>1. d[i] = IF s[i] \in kept THEN Append(d[i - 1], s[i]) ELSE d[i - 1]
        BY <1>1, <4>0, Zenon DEF KeepingTo
      <4> QED
        BY <2>1, <3>2, <4>0, <4>1, Zenon
    <3> QED
      BY <3>1, <3>2
  <2>4. f = [i \in 0 .. n |-> f[i]]
    OBVIOUS
  <2> HIDE DEF f
  <2>5. f = [i \in 0 .. n |->
               IF i = 0 THEN <<>>
               ELSE IF s[i] \in kept THEN Append(f[i - 1], s[i]) ELSE f[i - 1]]
    BY <2>3, <2>4
  <2> QED
    BY <2>5 DEF Keeping
<1>3. Keeping(b, s, kept)
  BY <1>2
<1>4. Keep(s, kept) = b[n]
  BY Zenon DEF Keep, Keeping
<1> HIDE DEF b, f
<1>5. ASSUME NEW i \in 0 .. n
      PROVE  b[i] = IF i = 0 THEN <<>>
                    ELSE IF s[i] \in kept THEN Append(b[i - 1], s[i]) ELSE b[i - 1]
  <2> DEFINE g == [k \in 0 .. n |->
                     IF k = 0 THEN <<>>
                     ELSE IF s[k] \in kept THEN Append(b[k - 1], s[k]) ELSE b[k - 1]]
  <2>1. g[i] = IF i = 0 THEN <<>>
               ELSE IF s[i] \in kept THEN Append(b[i - 1], s[i]) ELSE b[i - 1]
    OBVIOUS
  <2>2. b = g
    BY <1>3, Zenon DEF Keeping
  <2> HIDE DEF g
  <2> QED
    BY <2>1, <2>2, Zenon
<1>6. b[0] = <<>>
  <2>1. 0 \in 0 .. n
    OBVIOUS
  <2>2. b[0] = IF 0 = 0 THEN <<>>
               ELSE IF s[0] \in kept THEN Append(b[0 - 1], s[0]) ELSE b[0 - 1]
    BY <1>5, <2>1, Zenon
  <2> QED
    BY <2>2, Zenon
<1>7. ASSUME NEW i \in 1 .. n
      PROVE  b[i] = IF s[i] \in kept THEN Append(b[i - 1], s[i]) ELSE b[i - 1]
  <2>1. i \in 0 .. n /\ i # 0
    OBVIOUS
  <2>2. b[i] = IF i = 0 THEN <<>>
               ELSE IF s[i] \in kept THEN Append(b[i - 1], s[i]) ELSE b[i - 1]
    BY <1>5, <2>1, Zenon
  <2> QED
    BY <2>1, <2>2, Zenon
<1> QED
  BY <1>4, <1>6, <1>7 DEF KeepingTo

LEMMA KeepEmpty == ASSUME NEW kept PROVE Keep(<<>>, kept) = <<>>
<1>1. Len(<<>>) = 0
  OBVIOUS
<1>2. \E f : KeepingTo(f, <<>>, kept, Len(<<>>)) /\ Keep(<<>>, kept) = f[Len(<<>>)]
  BY <1>1, KeepIs
<1> QED
  BY <1>1, <1>2 DEF KeepingTo

LEMMA KeepAppend ==
  ASSUME NEW U, NEW s \in Seq(U), NEW x \in U, NEW kept
  PROVE  Keep(Append(s, x), kept) = IF x \in kept THEN Append(Keep(s, kept), x) ELSE Keep(s, kept)
<1> DEFINE t == Append(s, x)
           n == Len(s)
<1>1. /\ n \in Nat /\ Len(t) = n + 1
      /\ \A i \in 1 .. n : t[i] = s[i]
      /\ t[n + 1] = x
  BY AppendProperties, LenProperties
<1>2. PICK f : KeepingTo(f, s, kept, n) /\ Keep(s, kept) = f[n]
  BY <1>1, KeepIs
<1> HIDE DEF t
<1>3. PICK g : KeepingTo(g, t, kept, n + 1) /\ Keep(t, kept) = g[n + 1]
  <2>1. Len(t) \in Nat
    BY <1>1
  <2>2. \E g : KeepingTo(g, t, kept, Len(t)) /\ Keep(t, kept) = g[Len(t)]
    BY <2>1, KeepIs
  <2> QED
    BY <1>1, <2>2
<1> HIDE DEF n
<1> DEFINE N == {k \in Nat : k \in 0 .. n => g[k] = f[k]}
<1>4. 0 \in N
  BY <1>2, <1>3 DEF KeepingTo
<1>5. ASSUME NEW k \in Nat, k \in N
      PROVE  k + 1 \in N
  <2> SUFFICES ASSUME k + 1 \in 0 .. n PROVE g[k + 1] = f[k + 1]
    OBVIOUS
  <2>1. k + 1 \in 1 .. n /\ k + 1 \in 1 .. n + 1 /\ (k + 1) - 1 = k /\ g[k] = f[k]
    BY <1>1, <1>5
  <2>2. f[k + 1] = IF s[k + 1] \in kept THEN Append(f[(k + 1) - 1], s[k + 1]) ELSE f[(k + 1) - 1]
    BY <1>2, <2>1 DEF KeepingTo
  <2>3. g[k + 1] = IF t[k + 1] \in kept THEN Append(g[(k + 1) - 1], t[k + 1]) ELSE g[(k + 1) - 1]
    BY <1>3, <2>1 DEF KeepingTo
  <2>4. t[k + 1] = s[k + 1]
    BY <1>1, <2>1
  <2> QED
    BY <2>1, <2>2, <2>3, <2>4
<1> HIDE DEF N
<1>6. Nat \subseteq N
  BY <1>4, <1>5, NatSetInduction
<1>7. g[n] = f[n]
  BY <1>1, <1>6 DEF N
<1>8. g[n + 1] = IF t[n + 1] \in kept THEN Append(g[(n + 1) - 1], t[n + 1]) ELSE g[(n + 1) - 1]
  BY <1>1, <1>3 DEF KeepingTo
<1>9. (n + 1) - 1 = n
  BY <1>1
<1> QED
  BY <1>1, <1>2, <1>3, <1>7, <1>8, <1>9 DEF t

LEMMA KeepType ==
  ASSUME NEW U, NEW kept
  PROVE  \A s \in Seq(U) : Keep(s, kept) \in Seq(U)
<1> DEFINE S == {s \in Seq(U) : Keep(s, kept) \in Seq(U)}
<1>1. <<>> \in S
  BY KeepEmpty, EmptySeq
<1>2. ASSUME NEW s \in Seq(U), NEW x \in U, s \in S
      PROVE  Append(s, x) \in S
  <2>1. Append(s, x) \in Seq(U)
    BY AppendProperties
  <2>2. Keep(s, kept) \in Seq(U)
    BY <1>2
  <2>3. Append(Keep(s, kept), x) \in Seq(U)
    BY <2>2, AppendProperties
  <2>4. Keep(Append(s, x), kept) = IF x \in kept THEN Append(Keep(s, kept), x) ELSE Keep(s, kept)
    BY KeepAppend
  <2> QED
    BY <2>1, <2>2, <2>3, <2>4
<1> HIDE DEF S
<1>3. Seq(U) \subseteq S
  BY <1>1, <1>2, SeqSetInduction
<1> QED
  BY <1>3 DEF S

LEMMA KeepConcat ==
  ASSUME NEW U, NEW s \in Seq(U), NEW kept
  PROVE  \A t \in Seq(U) : Keep(s \o t, kept) = Keep(s, kept) \o Keep(t, kept)
<1> DEFINE S == {t \in Seq(U) : Keep(s \o t, kept) = Keep(s, kept) \o Keep(t, kept)}
<1>0. Keep(s, kept) \in Seq(U)
  BY KeepType
<1>1. <<>> \in S
  BY <1>0, KeepEmpty, EmptySeq, ConcatEmptySeq
<1>2. ASSUME NEW t \in Seq(U), NEW x \in U, t \in S
      PROVE  Append(t, x) \in S
  <2>1. s \o Append(t, x) = Append(s \o t, x)
    <3>1. Append(t, x) = t \o <<x>> /\ Append(s \o t, x) = (s \o t) \o <<x>>
      BY AppendIsConcat, ConcatProperties
    <3>2. <<x>> \in Seq(U)
      OBVIOUS
    <3> QED
      BY <3>1, <3>2, ConcatAssociative
  <2>2. s \o t \in Seq(U) /\ Keep(t, kept) \in Seq(U)
    BY ConcatProperties, KeepType
  <2>3. Keep(s \o t, kept) = Keep(s, kept) \o Keep(t, kept)
    BY <1>2
  <2>4. Keep(Append(s \o t, x), kept) =
          IF x \in kept THEN Append(Keep(s \o t, kept), x) ELSE Keep(s \o t, kept)
    BY <2>2, KeepAppend
  <2>5. Keep(Append(t, x), kept) = IF x \in kept THEN Append(Keep(t, kept), x) ELSE Keep(t, kept)
    BY KeepAppend
  <2>6. Append(Keep(s, kept) \o Keep(t, kept), x) = Keep(s, kept) \o Append(Keep(t, kept), x)
    <3>1. /\ Append(Keep(t, kept), x) = Keep(t, kept) \o <<x>>
          /\ Append(Keep(s, kept) \o Keep(t, kept), x) = (Keep(s, kept) \o Keep(t, kept)) \o <<x>>
      BY <1>0, <2>2, AppendIsConcat, ConcatProperties
    <3>2. <<x>> \in Seq(U)
      OBVIOUS
    <3> QED
      BY <1>0, <2>2, <3>1, <3>2, ConcatAssociative, SMTT(30)
  <2>7. Append(t, x) \in Seq(U)
    BY AppendProperties
  <2> QED
    BY <2>1, <2>3, <2>4, <2>5, <2>6, <2>7
<1> HIDE DEF S
<1>3. Seq(U) \subseteq S
  BY <1>1, <1>2, SeqSetInduction
<1> QED
  BY <1>3 DEF S

LEMMA RangeAppend ==
  ASSUME NEW U, NEW s \in Seq(U), NEW x \in U
  PROVE  Range(Append(s, x)) = Range(s) \cup {x}
<1>1. /\ DOMAIN s = 1 .. Len(s) /\ DOMAIN Append(s, x) = 1 .. Len(s) + 1 /\ Len(s) \in Nat
      /\ \A i \in 1 .. Len(s) : Append(s, x)[i] = s[i]
      /\ Append(s, x)[Len(s) + 1] = x
  BY AppendProperties, LenProperties
<1> QED
  BY <1>1 DEF Range

LEMMA RangeEmpty == Range(<<>>) = {}
BY DEF Range

LEMMA RangeConcat ==
  ASSUME NEW U, NEW s \in Seq(U), NEW t \in Seq(U)
  PROVE  Range(s \o t) = Range(s) \cup Range(t)
<1> DEFINE u == s \o t
<1>1. /\ u \in Seq(U) /\ Len(u) = Len(s) + Len(t) /\ Len(s) \in Nat /\ Len(t) \in Nat
      /\ DOMAIN s = 1 .. Len(s) /\ DOMAIN t = 1 .. Len(t) /\ DOMAIN u = 1 .. Len(s) + Len(t)
      /\ \A i \in 1 .. Len(s) + Len(t) : u[i] = IF i <= Len(s) THEN s[i] ELSE t[i - Len(s)]
  BY ConcatProperties, LenProperties
<1> HIDE DEF u
<1>2. \A i \in 1 .. Len(s) : i \in DOMAIN u /\ u[i] = s[i]
  BY <1>1
<1>3. \A i \in 1 .. Len(t) : Len(s) + i \in DOMAIN u /\ u[Len(s) + i] = t[i]
  BY <1>1, SMTT(30)
<1>4. ASSUME NEW i \in DOMAIN u
      PROVE  u[i] \in Range(s) \cup Range(t)
  <2>1. i <= Len(s) => i \in DOMAIN s /\ u[i] = s[i]
    BY <1>1
  <2>2. ~ (i <= Len(s)) => i - Len(s) \in DOMAIN t /\ u[i] = t[i - Len(s)]
    BY <1>1
  <2> QED
    BY <2>1, <2>2 DEF Range
<1>5. Range(s) \cup Range(t) \subseteq Range(u)
  <2>1. ASSUME NEW i \in DOMAIN s
        PROVE  s[i] \in Range(u)
    <3>1. i \in DOMAIN u /\ u[i] = s[i]
      BY <1>1, <1>2
    <3> QED
      BY <3>1, Zenon DEF Range
  <2>2. ASSUME NEW i \in DOMAIN t
        PROVE  t[i] \in Range(u)
    <3>1. Len(s) + i \in DOMAIN u /\ u[Len(s) + i] = t[i]
      BY <1>1, <1>3
    <3> QED
      BY <3>1, Zenon DEF Range
  <2> QED
    BY <2>1, <2>2 DEF Range
<1>6. Range(u) \subseteq Range(s) \cup Range(t)
  BY <1>4 DEF Range
<1> QED
  BY <1>5, <1>6 DEF u

LEMMA KeepRange ==
  ASSUME NEW U, NEW kept
  PROVE  \A s \in Seq(U) : Range(Keep(s, kept)) = Range(s) \cap kept
<1> DEFINE S == {s \in Seq(U) : Range(Keep(s, kept)) = Range(s) \cap kept}
<1>1. <<>> \in S
  BY KeepEmpty, EmptySeq, RangeEmpty
<1>2. ASSUME NEW s \in Seq(U), NEW x \in U, s \in S
      PROVE  Append(s, x) \in S
  <2>1. Keep(s, kept) \in Seq(U) /\ Append(s, x) \in Seq(U)
    BY KeepType, AppendProperties
  <2>2. Range(Append(s, x)) = Range(s) \cup {x}
    BY RangeAppend
  <2>3. Range(Append(Keep(s, kept), x)) = Range(Keep(s, kept)) \cup {x}
    BY <2>1, RangeAppend
  <2>4. Keep(Append(s, x), kept) = IF x \in kept THEN Append(Keep(s, kept), x) ELSE Keep(s, kept)
    BY KeepAppend
  <2> QED
    BY <1>2, <2>1, <2>2, <2>3, <2>4
<1> HIDE DEF S
<1>3. Seq(U) \subseteq S
  BY <1>1, <1>2, SeqSetInduction
<1> QED
  BY <1>3 DEF S

\* Everything is kept, nothing is.
LEMMA KeepAll ==
  ASSUME NEW U, NEW kept
  PROVE  \A s \in Seq(U) : Range(s) \subseteq kept => Keep(s, kept) = s
<1> DEFINE S == {s \in Seq(U) : Range(s) \subseteq kept => Keep(s, kept) = s}
<1>1. <<>> \in S
  BY KeepEmpty, EmptySeq
<1>2. ASSUME NEW s \in Seq(U), NEW x \in U, s \in S
      PROVE  Append(s, x) \in S
  BY <1>2, KeepAppend, AppendProperties, RangeAppend
<1> HIDE DEF S
<1>3. Seq(U) \subseteq S
  BY <1>1, <1>2, SeqSetInduction
<1> QED
  BY <1>3 DEF S

LEMMA KeepNone ==
  ASSUME NEW U, NEW kept
  PROVE  \A s \in Seq(U) : Range(s) \cap kept = {} => Keep(s, kept) = <<>>
<1> DEFINE S == {s \in Seq(U) : Range(s) \cap kept = {} => Keep(s, kept) = <<>>}
<1>1. <<>> \in S
  BY KeepEmpty, EmptySeq
<1>2. ASSUME NEW s \in Seq(U), NEW x \in U, s \in S
      PROVE  Append(s, x) \in S
  BY <1>2, KeepAppend, AppendProperties, RangeAppend
<1> HIDE DEF S
<1>3. Seq(U) \subseteq S
  BY <1>1, <1>2, SeqSetInduction
<1> QED
  BY <1>3 DEF S

-----------------------------------------------------------------------------
(* Prefixes, distinct elements, the greatest number of a set               *)

LEMMA PrefixOfConcat ==
  ASSUME NEW U, NEW s \in Seq(U), NEW t \in Seq(U)
  PROVE  IsPrefix(s, s \o t)
<1> DEFINE u == s \o t
<1>1. /\ u \in Seq(U) /\ Len(u) = Len(s) + Len(t) /\ Len(s) \in Nat /\ Len(t) \in Nat
      /\ \A i \in 1 .. Len(s) + Len(t) : u[i] = IF i <= Len(s) THEN s[i] ELSE t[i - Len(s)]
  BY ConcatProperties, LenProperties
<1> HIDE DEF u
<1>2. \A i \in 1 .. Len(s) : u[i] = s[i] /\ s[i] \in U
  BY <1>1, ElementOfSeq
<1>3. SubSeq(s, 1, Len(s)) = s
  BY SubSeqFull
<1>4. /\ SubSeq(u, 1, Len(s)) \in Seq(U)
      /\ Len(SubSeq(u, 1, Len(s))) = IF 1 <= Len(s) THEN Len(s) - 1 + 1 ELSE 0
      /\ \A i \in 1 .. Len(s) - 1 + 1 : SubSeq(u, 1, Len(s))[i] = u[1 + i - 1]
  <2>1. 1 \in Int /\ Len(s) \in Int /\ \A i \in 1 .. Len(s) : u[i] \in U
    BY <1>1, <1>2
  <2> QED
    BY <2>1, SubSeqProperties
<1>5. SubSeq(u, 1, Len(s)) = s
  <2>1. Len(SubSeq(u, 1, Len(s))) = Len(s)
    BY <1>1, <1>4
  <2>2. \A i \in 1 .. Len(s) : SubSeq(u, 1, Len(s))[i] = s[i]
    BY <1>1, <1>2, <1>4
  <2> QED
    BY <1>4, <2>1, <2>2, SeqEqual
<1>6. Len(s) <= Len(u)
  BY <1>1
<1> QED
  BY <1>3, <1>5, <1>6 DEF IsPrefix, u

LEMMA PrefixRest ==
  ASSUME NEW U, NEW s \in Seq(U), NEW t \in Seq(U), IsPrefix(s, t)
  PROVE  /\ SubSeq(t, Len(s) + 1, Len(t)) \in Seq(U)
         /\ t = s \o SubSeq(t, Len(s) + 1, Len(t))
<1>1. /\ Len(s) \in Nat /\ Len(t) \in Nat /\ Len(s) <= Len(t)
      /\ SubSeq(s, 1, Len(s)) = SubSeq(t, 1, Len(s))
  BY LenProperties DEF IsPrefix
<1>2. SubSeq(t, 1, Len(s)) = s
  BY <1>1, SubSeqFull
<1>3. SubSeq(t, 1, Len(s)) \o SubSeq(t, Len(s) + 1, Len(t)) = SubSeq(t, 1, Len(t))
  <2>1. 1 \in 1 .. Len(t) + 1 /\ Len(s) \in 1 - 1 .. Len(t) /\ Len(t) \in Len(s) .. Len(t)
    BY <1>1
  <2> QED
    BY <2>1, ConcatAdjacentSubSeq
<1>4. SubSeq(t, Len(s) + 1, Len(t)) \in Seq(U)
  <2>1. \A i \in Len(s) + 1 .. Len(t) : t[i] \in U
    BY <1>1, ElementOfSeq
  <2>2. Len(s) + 1 \in Int /\ Len(t) \in Int
    BY <1>1
  <2> QED
    BY <2>1, <2>2, SubSeqProperties
<1> QED
  BY <1>2, <1>3, <1>4, SubSeqFull

LEMMA PrefixSelf == ASSUME NEW U, NEW s \in Seq(U) PROVE IsPrefix(s, s)
BY LenProperties DEF IsPrefix

LEMMA PrefixTransitive ==
  ASSUME NEW U, NEW s \in Seq(U), NEW t \in Seq(U), NEW u \in Seq(U),
         IsPrefix(s, t), IsPrefix(t, u)
  PROVE  IsPrefix(s, u)
<1> DEFINE x == SubSeq(t, Len(s) + 1, Len(t))
           y == SubSeq(u, Len(t) + 1, Len(u))
<1>1. x \in Seq(U) /\ t = s \o x /\ y \in Seq(U) /\ u = t \o y
  BY PrefixRest
<1> HIDE DEF x, y
<1>2. u = s \o (x \o y) /\ x \o y \in Seq(U)
  BY <1>1, ConcatAssociative, ConcatProperties
<1> QED
  BY <1>2, PrefixOfConcat

LEMMA CancelLeft ==
  ASSUME NEW U, NEW s \in Seq(U), NEW t \in Seq(U), NEW v \in Seq(U), s \o t = s \o v
  PROVE  t = v
BY ConcatSimplifications

Distinct(s) == \A i, j \in DOMAIN s : s[i] = s[j] => i = j

LEMMA DistinctConcat ==
  ASSUME NEW U, NEW s \in Seq(U), NEW t \in Seq(U)
  PROVE  Distinct(s \o t) <=> (Distinct(s) /\ Distinct(t) /\ Range(s) \cap Range(t) = {})
<1> DEFINE u == s \o t
<1>1. /\ u \in Seq(U) /\ Len(u) = Len(s) + Len(t) /\ Len(s) \in Nat /\ Len(t) \in Nat
      /\ DOMAIN s = 1 .. Len(s) /\ DOMAIN t = 1 .. Len(t) /\ DOMAIN u = 1 .. Len(s) + Len(t)
      /\ \A i \in 1 .. Len(s) + Len(t) : u[i] = IF i <= Len(s) THEN s[i] ELSE t[i - Len(s)]
  BY ConcatProperties, LenProperties
<1> HIDE DEF u
<1>2. \A i \in DOMAIN s : i \in DOMAIN u /\ u[i] = s[i] /\ i <= Len(s)
  BY <1>1
<1>3. \A i \in DOMAIN t : Len(s) + i \in DOMAIN u /\ u[Len(s) + i] = t[i] /\ ~ (Len(s) + i <= Len(s))
  BY <1>1
<1>4. ASSUME Distinct(u)
      PROVE  Distinct(s) /\ Distinct(t) /\ Range(s) \cap Range(t) = {}
  <2>1. Distinct(s)
    BY <1>2, <1>4 DEF Distinct
  <2>2. Distinct(t)
    <3> SUFFICES ASSUME NEW i \in DOMAIN t, NEW j \in DOMAIN t, t[i] = t[j] PROVE i = j
      BY DEF Distinct
    <3>1. Len(s) + i = Len(s) + j
      BY <1>3, <1>4 DEF Distinct
    <3> QED
      BY <1>1, <3>1
  <2>3. ASSUME NEW i \in DOMAIN s, NEW j \in DOMAIN t, s[i] = t[j] PROVE FALSE
    <3>1. i = Len(s) + j
      BY <1>2, <1>3, <1>4, <2>3 DEF Distinct
    <3> QED
      BY <1>2, <1>3, <3>1
  <2> QED
    BY <2>1, <2>2, <2>3 DEF Range
<1>5. ASSUME Distinct(s), Distinct(t), Range(s) \cap Range(t) = {}
      PROVE  Distinct(u)
  <2> SUFFICES ASSUME NEW i \in DOMAIN u, NEW j \in DOMAIN u, u[i] = u[j] PROVE i = j
    BY DEF Distinct
  <2>0. ASSUME NEW k \in DOMAIN u
        PROVE  /\ k <= Len(s) => k \in DOMAIN s /\ u[k] = s[k]
               /\ ~ (k <= Len(s)) => k - Len(s) \in DOMAIN t /\ u[k] = t[k - Len(s)]
    BY <1>1
  <2>1. CASE i <= Len(s) /\ j <= Len(s)
    BY <1>5, <2>0, <2>1 DEF Distinct
  <2>2. CASE ~ (i <= Len(s)) /\ ~ (j <= Len(s))
    <3>1. i - Len(s) = j - Len(s)
      BY <1>5, <2>0, <2>2 DEF Distinct
    <3> QED
      BY <1>1, <3>1
  <2>3. CASE i <= Len(s) /\ ~ (j <= Len(s))
    BY <1>5, <2>0, <2>3, SMTT(30) DEF Range
  <2>4. CASE ~ (i <= Len(s)) /\ j <= Len(s)
    BY <1>5, <2>0, <2>4, SMTT(30) DEF Range
  <2> QED
    BY <2>1, <2>2, <2>3, <2>4
<1> QED
  BY <1>4, <1>5 DEF u

LEMMA RangeOfThree ==
  ASSUME NEW U, NEW a \in Seq(U), NEW b \in Seq(U), NEW c \in Seq(U)
  PROVE  Range((a \o b) \o c) = Range(a) \cup Range(b) \cup Range(c)
<1> DEFINE m == a \o b
<1>1. m \in Seq(U)
  BY ConcatProperties
<1>2. Range(m) = Range(a) \cup Range(b)
  BY RangeConcat
<1> HIDE DEF m
<1>3. Range(m \o c) = Range(m) \cup Range(c)
  BY <1>1, RangeConcat
<1> QED
  BY <1>2, <1>3 DEF m

\* Distinct elements: what is left when y is taken out of the middle.
LEMMA TakenOut ==
  ASSUME NEW U, NEW l \in Seq(U), NEW y \in Seq(U), NEW c \in Seq(U), Distinct((l \o y) \o c)
  PROVE  LeftOf(l \o c, (l \o y) \o c) /\ Distinct(l \o c)
<1> DEFINE m == l \o y
           kept == Range(l \o c)
<1>1. m \in Seq(U)
  BY ConcatProperties
<1>2. Range(m) = Range(l) \cup Range(y)
  BY RangeConcat
<1>3. kept = Range(l) \cup Range(c)
  BY RangeConcat
<1>4. Distinct(m) <=> (Distinct(l) /\ Distinct(y) /\ Range(l) \cap Range(y) = {})
  BY DistinctConcat
<1>5. Distinct(l \o c) <=> (Distinct(l) /\ Distinct(c) /\ Range(l) \cap Range(c) = {})
  BY DistinctConcat
<1> HIDE DEF kept
<1>6. Keep(m, kept) = Keep(l, kept) \o Keep(y, kept)
  BY KeepConcat
<1> HIDE DEF m
<1>a. Keep(m \o c, kept) = Keep(m, kept) \o Keep(c, kept)
  BY <1>1, KeepConcat, SMTT(30)
<1>7. Distinct(m \o c) <=> (Distinct(m) /\ Distinct(c) /\ Range(m) \cap Range(c) = {})
  BY <1>1, DistinctConcat
<1>8. Distinct(m \o c)
  BY DEF m
<1>9. Range(l) \subseteq kept /\ Range(c) \subseteq kept /\ Range(y) \cap kept = {} /\ Distinct(l \o c)
  BY <1>2, <1>3, <1>4, <1>5, <1>7, <1>8
<1>10. Keep(l, kept) = l
  BY <1>9, KeepAll
<1>11. Keep(c, kept) = c
  BY <1>9, KeepAll
<1>12. Keep(y, kept) = <<>>
  BY <1>9, KeepNone
<1>13. l \o <<>> = l
  BY ConcatEmptySeq
<1>14. Keep(m \o c, kept) = l \o c
  BY <1>6, <1>a, <1>10, <1>11, <1>12, <1>13
<1> QED
  BY <1>9, <1>14 DEF LeftOf, m, kept

\* A sequence that follows m.
Follows(w, m, u) == w = m \o u

LEMMA FollowsThree ==
  ASSUME NEW U, NEW m \in Seq(U), NEW a \in Seq(U), NEW x \in Seq(U), NEW c \in Seq(U)
  PROVE  \E u \in Seq(U) : u = (a \o x) \o c /\ Follows(((m \o a) \o x) \o c, m, u)
<1> DEFINE l == a \o x
           k == m \o a
<1>1. l \in Seq(U)
  BY ConcatProperties
<1>2. m \o l = k \o x
  BY ConcatAssociative, SMTT(30)
<1> HIDE DEF l
<1>3. l \o c \in Seq(U)
  BY <1>1, ConcatProperties
<1>4. m \o (l \o c) = (m \o l) \o c
  BY <1>1, ConcatAssociative, SMTT(30)
<1> HIDE DEF k
<1>5. (k \o x) \o c = m \o (l \o c)
  BY <1>2, <1>4, Zenon
<1>6. Follows((k \o x) \o c, m, l \o c)
  BY <1>5, Zenon DEF Follows
<1>7. \E u \in Seq(U) : u = l \o c /\ Follows((k \o x) \o c, m, u)
  BY <1>3, <1>6, Zenon
<1> QED
  BY <1>7, Zenon DEF l, k

LEMMA FollowsOne ==
  ASSUME NEW U, NEW m \in Seq(U), NEW h \in Seq(U), NEW w \in U
  PROVE  \E u \in Seq(U) : u = Append(h, w) /\ Follows((m \o h) \o << w >>, m, u)
<1> DEFINE s == << w >>
<1>1. s \in Seq(U)
  OBVIOUS
<1>2. Append(h, w) \in Seq(U) /\ Append(h, w) = h \o s
  BY AppendProperties, AppendIsConcat
<1> HIDE DEF s
<1>3. m \o (h \o s) = (m \o h) \o s
  BY <1>1, ConcatAssociative
<1>4. Follows((m \o h) \o s, m, h \o s)
  BY <1>3 DEF Follows
<1> QED
  BY <1>2, <1>4 DEF s

\* The rest of a sequence after a prefix, from the whole.
LEMMA RestOfWhole ==
  ASSUME NEW U, NEW m \in Seq(U), NEW n \in Seq(U), IsPrefix(m, n),
         NEW t \in Seq(U), NEW u \in Seq(U), Follows(n \o t, m, u)
  PROVE  /\ SubSeq(n, Len(m) + 1, Len(n)) \in Seq(U)
         /\ SubSeq(n, Len(m) + 1, Len(n)) \o t = u
<1> DEFINE d == SubSeq(n, Len(m) + 1, Len(n))
<1>1. d \in Seq(U) /\ n = m \o d
  BY PrefixRest
<1> HIDE DEF d
<1>2. (m \o d) \o t = m \o u
  BY <1>1 DEF Follows
<1>3. m \o (d \o t) = (m \o d) \o t
  BY <1>1, ConcatAssociative, SMTT(30)
<1> DEFINE v == d \o t
<1>4. v \in Seq(U)
  BY <1>1, ConcatProperties
<1>5. m \o v = m \o u
  BY <1>2, <1>3
<1> HIDE DEF v
<1>6. v = u
  BY <1>4, <1>5, CancelLeft
<1> QED
  BY <1>1, <1>6 DEF v, d

LEMMA MaxIs ==
  ASSUME NEW n \in Nat, NEW T, T \subseteq 1 .. n, T # {}
  PROVE  Max(T) \in T /\ \A y \in T : y <= Max(T)
<1> DEFINE R == {n - y : y \in T}
<1>1. R \subseteq Nat /\ R # {}
  <2>1. \A y \in T : n - y \in Nat
    OBVIOUS
  <2>2. PICK y \in T : TRUE
    OBVIOUS
  <2>3. n - y \in R
    BY <2>2
  <2> QED
    BY <2>1, <2>3
<1>2. PICK r \in R : \A q \in R : r <= q
  BY <1>1, Least, Zenon
<1>3. PICK x \in T : r = n - x
  OBVIOUS
<1>4. ASSUME NEW y \in T PROVE x >= y
  <2>1. r <= n - y
    BY <1>2
  <2> QED
    BY <1>3, <2>1
<1>5. \E m \in T : \A y \in T : m >= y
  BY <1>4
<1>6. Max(T) \in T /\ \A y \in T : Max(T) >= y
  BY <1>5 DEF Max
<1> QED
  BY <1>6

=============================================================================
