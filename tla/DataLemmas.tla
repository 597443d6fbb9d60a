----------------------------- MODULE DataLemmas -----------------------------
(***************************************************************************)
(* Facts about data that the proofs about the components share: sequences   *)
(* that stand for std::queue, induction, sums over finite sets and folds    *)
(* along sequences as the community modules compute them.                   *)
(***************************************************************************)
EXTENDS Integers, Sequences, Functions, SequenceTheorems, FiniteSets,
        FiniteSetTheorems, WellFoundedInduction, TLAPS

----------------------------------------------------------------------------
(* Queues *)

(* A sequence over S has its elements in S. *)
LEMMA SeqRange ==
  ASSUME NEW S, NEW s \in Seq(S)
  PROVE  Range(s) \subseteq S
  BY DEF Range

(* push adds one entry, at the back: the front stays where it is. *)
LEMMA PushRange ==
  ASSUME NEW S, NEW s \in Seq(S), NEW x \in S
  PROVE  /\ Append(s, x) \in Seq(S) /\ Append(s, x) # <<>>
         /\ Range(Append(s, x)) = Range(s) \cup {x}
         /\ s # <<>> => Head(Append(s, x)) = Head(s)
<1>1. /\ Append(s, x) \in Seq(S) /\ Len(Append(s, x)) = Len(s) + 1
      /\ Append(s, x)[Len(s) + 1] = x
      /\ \A i \in 1 .. Len(s) : Append(s, x)[i] = s[i]
  OBVIOUS
<1>2. DOMAIN s = 1 .. Len(s) /\ DOMAIN Append(s, x) = 1 .. Len(s) + 1
  BY <1>1
<1>3. Range(Append(s, x)) = Range(s) \cup {x}
  BY <1>1, <1>2 DEF Range
<1>4. Append(s, x) # <<>> /\ (s # <<>> => Head(Append(s, x)) = Head(s))
  BY <1>1
<1> QED BY <1>1, <1>3, <1>4

(* pop removes the front entry and nothing else. *)
LEMMA PopRange ==
  ASSUME NEW S, NEW s \in Seq(S), s # <<>>
  PROVE  /\ Tail(s) \in Seq(S) /\ Head(s) \in S
         /\ Range(s) = Range(Tail(s)) \cup {Head(s)}
<1>1. /\ Tail(s) \in Seq(S) /\ Head(s) \in S /\ Head(s) = s[1]
      /\ Len(Tail(s)) = Len(s) - 1 /\ Len(s) \in Nat \ {0}
      /\ \A i \in 1 .. Len(s) - 1 : Tail(s)[i] = s[i + 1]
  BY HeadTailProperties, EmptySeq
<1>2. DOMAIN s = 1 .. Len(s) /\ DOMAIN Tail(s) = 1 .. Len(s) - 1
  BY <1>1
<1>3. ASSUME NEW e \in Range(s) PROVE e \in Range(Tail(s)) \cup {Head(s)}
  <2>1. PICK i \in 1 .. Len(s) : e = s[i]
    BY <1>2 DEF Range
  <2>2. CASE i = 1
    BY <2>1, <2>2, <1>1
  <2>3. CASE i > 1
    <3>1. i - 1 \in DOMAIN Tail(s) /\ Tail(s)[i - 1] = e
      BY <2>1, <2>3, <1>1, <1>2
    <3> QED BY <3>1 DEF Range
  <2> QED BY <2>1, <2>2, <2>3
<1>4. ASSUME NEW e \in Range(Tail(s)) PROVE e \in Range(s)
  <2>1. PICK i \in 1 .. Len(s) - 1 : e = Tail(s)[i]
    BY <1>2 DEF Range
  <2>2. i + 1 \in DOMAIN s /\ s[i + 1] = e
    BY <2>1, <1>1, <1>2
  <2> QED BY <2>2 DEF Range
<1>5. Head(s) \in Range(s)
  BY <1>1, <1>2 DEF Range
<1> QED BY <1>1, <1>3, <1>4, <1>5

(* A queue without duplicates stays so when its front is popped ... *)
LEMMA PopInjective ==
  ASSUME NEW S, NEW s \in Seq(S), s # <<>>, IsInjective(s)
  PROVE  IsInjective(Tail(s)) /\ Head(s) \notin Range(Tail(s))
<1>1. /\ Head(s) = s[1] /\ Len(s) \in Nat \ {0} /\ DOMAIN s = 1 .. Len(s)
      /\ DOMAIN Tail(s) = 1 .. Len(s) - 1
      /\ \A i \in 1 .. Len(s) - 1 : Tail(s)[i] = s[i + 1]
  BY HeadTailProperties, EmptySeq
<1>2. IsInjective(Tail(s))
  BY <1>1 DEF IsInjective
<1>3. ASSUME NEW i \in DOMAIN Tail(s), Tail(s)[i] = Head(s) PROVE FALSE
  BY <1>1, <1>3 DEF IsInjective
<1> QED BY <1>2, <1>3 DEF Range

(* ... or when a new entry is pushed. *)
LEMMA PushInjective ==
  ASSUME NEW S, NEW s \in Seq(S), NEW x \in S, IsInjective(s), x \notin Range(s)
  PROVE  IsInjective(Append(s, x))
<1>1. /\ DOMAIN s = 1 .. Len(s) /\ DOMAIN Append(s, x) = 1 .. Len(s) + 1
      /\ Append(s, x)[Len(s) + 1] = x /\ Len(s) \in Nat
      /\ \A i \in 1 .. Len(s) : Append(s, x)[i] = s[i]
  OBVIOUS
<1>2. \A i \in 1 .. Len(s) : s[i] # x
  BY <1>1 DEF Range
<1> QED BY <1>1, <1>2 DEF IsInjective

(* A front that does not occur again makes no duplicate. *)
LEMMA UnpopInjective ==
  ASSUME NEW S, NEW s \in Seq(S), s # <<>>, IsInjective(Tail(s)), Head(s) \notin Range(Tail(s))
  PROVE  IsInjective(s)
<1>1. /\ Head(s) = s[1] /\ Len(s) \in Nat \ {0} /\ DOMAIN s = 1 .. Len(s)
      /\ DOMAIN Tail(s) = 1 .. Len(s) - 1
      /\ \A i \in 1 .. Len(s) - 1 : Tail(s)[i] = s[i + 1]
  BY HeadTailProperties, EmptySeq
<1>2. \A i \in DOMAIN s : i # 1 => i - 1 \in DOMAIN Tail(s) /\ Tail(s)[i - 1] = s[i]
  BY <1>1
<1>3. \A i \in DOMAIN s : i # 1 => s[i] # s[1]
  BY <1>1, <1>2 DEF Range
<1> SUFFICES ASSUME NEW i \in DOMAIN s, NEW j \in DOMAIN s, s[i] = s[j] PROVE i = j
  BY DEF IsInjective
<1>4. CASE i # 1 /\ j # 1
  <2>1. Tail(s)[i - 1] = Tail(s)[j - 1] /\ i - 1 \in DOMAIN Tail(s) /\ j - 1 \in DOMAIN Tail(s)
    BY <1>2, <1>4
  <2>2. i - 1 = j - 1
    BY <2>1 DEF IsInjective
  <2> QED BY <1>1, <2>2
<1>5. CASE i = 1 \/ j = 1
  BY <1>3, <1>5
<1> QED BY <1>4, <1>5

(* A sequence without duplicates is no longer than its set is large. *)
LEMMA InjectiveLength ==
  ASSUME NEW S, IsFiniteSet(S), NEW s \in Seq(S), IsInjective(s)
  PROVE  Len(s) \in Nat /\ Len(s) <= Cardinality(S)
<1> DEFINE D == 1 .. Len(s)
<1>1. Len(s) \in Nat /\ DOMAIN s = D /\ s \in [D -> S]
  BY LenProperties
<1>2. IsFiniteSet(D) /\ Cardinality(D) = Len(s)
  BY <1>1, FS_Interval
<1>3. s \in Injection(D, S)
  BY <1>1 DEF Injection, IsInjective
<1> HIDE DEF D
<1>4. Cardinality(D) <= Cardinality(S)
  BY <1>3, FS_Injection
<1> QED BY <1>1, <1>2, <1>4

(* Pushing at the back and popping at the front do not interfere. *)
LEMMA PushThenPop ==
  ASSUME NEW S, NEW s \in Seq(S), NEW x \in S, s # <<>>
  PROVE  Tail(Append(s, x)) = Append(Tail(s), x)
<1>1. /\ Tail(s) \in Seq(S) /\ Len(Tail(s)) = Len(s) - 1 /\ Len(s) \in Nat \ {0}
      /\ \A i \in 1 .. Len(s) - 1 : Tail(s)[i] = s[i + 1]
  BY HeadTailProperties, EmptySeq
<1>2. /\ Append(s, x) \in Seq(S) /\ Append(s, x) # <<>> /\ Len(Append(s, x)) = Len(s) + 1
      /\ \A i \in 1 .. Len(s) + 1 : Append(s, x)[i] = IF i = Len(s) + 1 THEN x ELSE s[i]
  OBVIOUS
<1>3. /\ Tail(Append(s, x)) \in Seq(S) /\ Len(Tail(Append(s, x))) = Len(s)
      /\ \A i \in 1 .. Len(s) : Tail(Append(s, x))[i] = Append(s, x)[i + 1]
  BY <1>2, HeadTailProperties
<1>4. ASSUME NEW t \in Seq(S), Len(t) = Len(s) - 1
      PROVE  /\ Append(t, x) \in Seq(S) /\ Len(Append(t, x)) = Len(s)
             /\ \A i \in 1 .. Len(s) : Append(t, x)[i] = IF i = Len(s) THEN x ELSE t[i]
  BY <1>4, <1>1
<1>5. /\ Append(Tail(s), x) \in Seq(S) /\ Len(Append(Tail(s), x)) = Len(s)
      /\ \A i \in 1 .. Len(s) : Append(Tail(s), x)[i] =
            IF i = Len(s) THEN x ELSE Tail(s)[i]
  BY <1>1, <1>4
<1>6. ASSUME NEW i \in 1 .. Len(s) PROVE Tail(Append(s, x))[i] = Append(Tail(s), x)[i]
  <2>1. Tail(Append(s, x))[i] = Append(s, x)[i + 1] /\ i + 1 \in 1 .. Len(s) + 1
    BY <1>1, <1>3
  <2>2. CASE i = Len(s)
    <3>1. Append(s, x)[i + 1] = x
      BY <1>2, <2>1, <2>2
    <3> QED BY <1>5, <2>1, <2>2, <3>1
  <2>3. CASE i # Len(s)
    <3>1. i \in 1 .. Len(s) - 1
      <4>1. Len(s) \in Nat
        BY <1>1
      <4> QED BY <4>1, <2>3
    <3>2. Append(s, x)[i + 1] = s[i + 1]
      BY <1>1, <1>2, <2>1, <3>1
    <3>3. Append(Tail(s), x)[i] = Tail(s)[i]
      BY <1>5, <2>3
    <3> QED BY <1>1, <2>1, <3>1, <3>2, <3>3
  <2> QED BY <2>2, <2>3
<1> QED BY <1>3, <1>5, <1>6, SeqEqual

(* One queue behind another. *)
LEMMA ConcatFacts ==
  ASSUME NEW S, NEW s \in Seq(S), NEW t \in Seq(S)
  PROVE  /\ s \o t \in Seq(S) /\ Len(s \o t) = Len(s) + Len(t)
         /\ \A i \in 1 .. Len(s) : (s \o t)[i] = s[i]
         /\ \A i \in 1 .. Len(t) : (s \o t)[Len(s) + i] = t[i]
         /\ Range(s \o t) = Range(s) \cup Range(t)
<1>1. /\ s \o t \in Seq(S) /\ Len(s \o t) = Len(s) + Len(t)
      /\ Len(s) \in Nat /\ Len(t) \in Nat
      /\ \A i \in 1 .. Len(s) + Len(t) :
            (s \o t)[i] = IF i <= Len(s) THEN s[i] ELSE t[i - Len(s)]
  BY ConcatProperties
<1>2. \A i \in 1 .. Len(s) : i \in 1 .. Len(s) + Len(t) /\ (s \o t)[i] = s[i]
  BY <1>1
<1>3. \A i \in 1 .. Len(t) : /\ Len(s) + i \in 1 .. Len(s) + Len(t)
                             /\ (s \o t)[Len(s) + i] = t[i]
  BY <1>1
<1>4. \A i \in 1 .. Len(s) + Len(t) : i \in 1 .. Len(s) \/ \E j \in 1 .. Len(t) : i = Len(s) + j
  <2> TAKE i \in 1 .. Len(s) + Len(t)
  <2>1. CASE i <= Len(s)
    BY <1>1, <2>1
  <2>2. CASE ~(i <= Len(s))
    <3>1. i - Len(s) \in 1 .. Len(t) /\ i = Len(s) + (i - Len(s))
      BY <1>1, <2>2
    <3> QED BY <3>1
  <2> QED BY <2>1, <2>2
<1>5. DOMAIN s = 1 .. Len(s) /\ DOMAIN t = 1 .. Len(t) /\ DOMAIN (s \o t) = 1 .. Len(s) + Len(t)
  BY <1>1
<1>6. Range(s \o t) = Range(s) \cup Range(t)
  <2> DEFINE u == s \o t
             D == 1 .. Len(s)
             E == 1 .. Len(t)
             F == 1 .. Len(s) + Len(t)
             Shift(i) == Len(s) + i
  <2>1. /\ \A i \in D : i \in F /\ u[i] = s[i]
        /\ \A i \in E : Shift(i) \in F /\ u[Shift(i)] = t[i]
        /\ \A i \in F : i \in D \/ \E j \in E : i = Shift(j)
        /\ DOMAIN s = D /\ DOMAIN t = E /\ DOMAIN u = F
    BY <1>2, <1>3, <1>4, <1>5
  <2> HIDE DEF u, D, E, F, Shift
  <2>2. Range(u) = Range(s) \cup Range(t)
    BY <2>1 DEF Range
  <2> QED BY <2>2 DEF u
<1> QED BY <1>1, <1>2, <1>3, <1>6

(* Pushing, popping and moving an entry from one to the other. *)
LEMMA ConcatPush ==
  ASSUME NEW S, NEW s \in Seq(S), NEW t \in Seq(S), NEW x \in S
  PROVE  s \o Append(t, x) = Append(s \o t, x)
  OBVIOUS

LEMMA ConcatPop ==
  ASSUME NEW S, NEW s \in Seq(S), NEW t \in Seq(S), s # <<>>
  PROVE  /\ s \o t # <<>> /\ Head(s \o t) = Head(s) /\ Tail(s \o t) = Tail(s) \o t
  OBVIOUS

LEMMA ConcatMove ==
  ASSUME NEW S, NEW s \in Seq(S), NEW t \in Seq(S), t # <<>>
  PROVE  Append(s, Head(t)) \o Tail(t) = s \o t
  OBVIOUS

(* The recycler is a stack: taking the newest entry leaves the others. *)
LEMMA TakeNewest ==
  ASSUME NEW S, NEW s \in Seq(S), s # <<>>
  PROVE  LET front == SubSeq(s, 1, Len(s) - 1) IN
         /\ front \in Seq(S) /\ s[Len(s)] \in S
         /\ Range(s) = Range(front) \cup {s[Len(s)]}
         /\ IsInjective(s) => IsInjective(front) /\ s[Len(s)] \notin Range(front)
<1> DEFINE front == SubSeq(s, 1, Len(s) - 1)
<1>1. Len(s) \in Nat \ {0} /\ DOMAIN s = 1 .. Len(s) /\ \A i \in 1 .. Len(s) : s[i] \in S
  BY EmptySeq, ElementOfSeq
<1>2. /\ front \in Seq(S) /\ Len(front) = Len(s) - 1
      /\ \A i \in 1 .. Len(s) - 1 : front[i] = s[i]
  BY <1>1, SubSeqProperties
<1>3. DOMAIN front = 1 .. Len(s) - 1
  BY <1>2
<1> HIDE DEF front
<1>4. Range(s) = Range(front) \cup {s[Len(s)]}
  BY <1>1, <1>2, <1>3 DEF Range
<1>5. ASSUME IsInjective(s) PROVE IsInjective(front) /\ s[Len(s)] \notin Range(front)
  BY <1>1, <1>2, <1>3, <1>5 DEF IsInjective, Range
<1>6. front \in Seq(S) /\ s[Len(s)] \in S
  BY <1>1, <1>2
<1> QED BY <1>4, <1>5, <1>6 DEF front

----------------------------------------------------------------------------
(* Induction, on sets that stand for properties *)

LEMMA NatMin ==
  ASSUME NEW T, T \subseteq Nat, T # {}
  PROVE  \E m \in T : \A k \in T : m <= k
<1> DEFINE R == OpToRel(<, Nat)
<1>1. IsWellFoundedOn(R, Nat)
  BY NatLessThanWellFounded
<1>2. \A x, y \in Nat : <<x, y>> \in R <=> x < y
  BY DEF OpToRel
<1> HIDE DEF R
<1>3. PICK m \in T : \A k \in T : ~(<<k, m>> \in R)
  BY <1>1, WFMin
<1>4. ASSUME NEW k \in T PROVE m <= k
  <2>1. k \in Nat /\ m \in Nat /\ ~(k < m)
    BY <1>2, <1>3
  <2> QED BY <2>1
<1> QED BY <1>4

LEMMA NatInd ==
  ASSUME NEW S, 0 \in S, \A n \in Nat : n \in S => n + 1 \in S
  PROVE  \A n \in Nat : n \in S
<1> SUFFICES ASSUME ~(Nat \subseteq S) PROVE FALSE
  OBVIOUS
<1> DEFINE T == Nat \ S
<1>1. T \subseteq Nat /\ T # {}
  OBVIOUS
<1>2. PICK m \in T : \A k \in T : m <= k
  <2> HIDE DEF T
  <2> QED BY <1>1, NatMin
<1>3. m \in Nat \ {0}
  OBVIOUS
<1>4. m - 1 \in Nat /\ ~(m <= m - 1) /\ (m - 1) + 1 = m
  BY <1>3
<1>5. m - 1 \in S
  BY <1>2, <1>4
<1> QED BY <1>4, <1>5

(* Among finite sets there is one that no other is a proper part of. *)
LEMMA SmallestSet ==
  ASSUME NEW T, T # {}, \A s \in T : IsFiniteSet(s)
  PROVE  \E m \in T : \A s \in T : ~(s \subseteq m /\ s # m)
<1> DEFINE N == {Cardinality(s) : s \in T}
<1>1. N \subseteq Nat /\ N # {}
  BY FS_CardinalityType
<1>2. PICK n \in N : \A k \in N : n <= k
  <2> HIDE DEF N
  <2> QED BY <1>1, NatMin
<1>3. PICK m \in T : n = Cardinality(m)
  OBVIOUS
<1>4. ASSUME NEW s \in T, s \subseteq m, s # m PROVE FALSE
  <2>1. Cardinality(s) <= Cardinality(m) /\ Cardinality(s) # Cardinality(m)
    BY <1>4, FS_Subset
  <2>2. Cardinality(m) <= Cardinality(s)
    BY <1>2, <1>3
  <2>3. Cardinality(s) \in Nat /\ Cardinality(m) \in Nat
    BY FS_CardinalityType
  <2> QED BY <2>1, <2>2, <2>3
<1> QED BY <1>4

----------------------------------------------------------------------------
(* Sums over finite sets *)

Some(s) == CHOOSE x \in s : TRUE

(* How the community modules add up what h gives for the members of S. *)
IsSum(g, h, S) ==
    g = [s \in SUBSET S |-> IF s = {} THEN 0 ELSE h[Some(s)] + g[s \ {Some(s)}]]
Total(h, S) == (CHOOSE g : IsSum(g, h, S))[S]

LEMMA SomeMember == \A s : s # {} => Some(s) \in s
  BY DEF Some

LEMMA SumUnique ==
  ASSUME NEW g, NEW h, NEW S, IsSum(g, h, S), NEW f, NEW k, NEW R, IsSum(f, k, R),
         NEW T, IsFiniteSet(T), T \subseteq S, T \subseteq R, \A x \in T : h[x] = k[x]
  PROVE  g[T] = f[T]
<1> SUFFICES ASSUME g[T] # f[T] PROVE FALSE
  OBVIOUS
<1> DEFINE Bad == {s \in SUBSET T : g[s] # f[s]}
<1>1. Bad # {} /\ \A s \in Bad : IsFiniteSet(s)
  BY FS_Subset
<1>2. PICK m \in Bad : \A s \in Bad : ~(s \subseteq m /\ s # m)
  <2> HIDE DEF Bad
  <2> QED BY <1>1, SmallestSet
<1>3. g[m] # f[m] /\ m \subseteq T
  OBVIOUS
<1>4. /\ g[m] = IF m = {} THEN 0 ELSE h[Some(m)] + g[m \ {Some(m)}]
      /\ f[m] = IF m = {} THEN 0 ELSE k[Some(m)] + f[m \ {Some(m)}]
  BY <1>3 DEF IsSum
<1>5. m # {}
  BY <1>3, <1>4
<1>6. Some(m) \in m /\ h[Some(m)] = k[Some(m)]
  BY <1>3, <1>5, SomeMember
<1>7. g[m \ {Some(m)}] = f[m \ {Some(m)}]
  BY <1>2, <1>6
<1> QED BY <1>3, <1>4, <1>6, <1>7

LEMMA SumExists ==
  ASSUME NEW h, NEW S, IsFiniteSet(S)
  PROVE  \E g : IsSum(g, h, S)
<1> SUFFICES ASSUME ~(\E g : IsSum(g, h, S)) PROVE FALSE
  OBVIOUS
<1> DEFINE Bad == {s \in SUBSET S : ~(\E g : IsSum(g, h, s))}
<1>1. Bad # {} /\ \A s \in Bad : IsFiniteSet(s)
  BY FS_Subset
<1>2. PICK m \in Bad : \A s \in Bad : ~(s \subseteq m /\ s # m)
  <2> HIDE DEF Bad
  <2> QED BY <1>1, SmallestSet
<1>3. m \subseteq S /\ IsFiniteSet(m) /\ ~(\E g : IsSum(g, h, m))
  BY <1>1
<1> DEFINE Of(s) == CHOOSE g : IsSum(g, h, s)
<1>4. ASSUME NEW s, s \subseteq m, s # m PROVE IsSum(Of(s), h, s)
  <2>1. \E g : IsSum(g, h, s)
    BY <1>2, <1>3, <1>4
  <2> QED BY <2>1
<1> HIDE DEF Of, Bad
<1> DEFINE V(s) == IF s = m THEN (IF m = {} THEN 0 ELSE h[Some(m)] + Of(m \ {Some(m)})[m \ {Some(m)}])
                   ELSE Of(s)[s]
           f == [s \in SUBSET m |-> V(s)]
<1>5. ASSUME NEW s \in SUBSET m
      PROVE  f[s] = IF s = {} THEN 0 ELSE h[Some(s)] + f[s \ {Some(s)}]
  <2>1. CASE s = m
    <3>1. CASE m = {}
      BY <2>1, <3>1
    <3>2. CASE m # {}
      <4>1. Some(m) \in m /\ m \ {Some(m)} # m /\ m \ {Some(m)} \subseteq m
        BY <3>2, SomeMember
      <4> QED BY <2>1, <3>2, <4>1
    <3> QED BY <3>1, <3>2
  <2>2. CASE s # m
    <3>1. IsSum(Of(s), h, s)
      BY <1>4, <2>2
    <3>2. Of(s)[s] = IF s = {} THEN 0 ELSE h[Some(s)] + Of(s)[s \ {Some(s)}]
      BY <3>1 DEF IsSum
    <3>3. f[s] = Of(s)[s]
      BY <2>2
    <3>4. CASE s = {}
      BY <3>2, <3>3, <3>4
    <3>5. CASE s # {}
      <4> DEFINE r == s \ {Some(s)}
      <4>1. Some(s) \in s /\ r \subseteq m /\ r # m /\ r \subseteq s
        BY <3>5, SomeMember
      <4>2. IsSum(Of(r), h, r)
        BY <1>4, <4>1
      <4>3. IsFiniteSet(r)
        BY <1>3, <4>1, FS_Subset
      <4> HIDE DEF r
      <4>4. Of(s)[r] = Of(r)[r]
        BY <3>1, <4>1, <4>2, <4>3, SumUnique
      <4>5. f[r] = Of(r)[r]
        BY <4>1
      <4> QED BY <3>2, <3>3, <3>5, <4>4, <4>5 DEF r
    <3> QED BY <3>4, <3>5
  <2> QED BY <2>1, <2>2
<1>6. IsSum(f, h, m)
  <2>1. f = [s \in SUBSET m |-> f[s]]
    OBVIOUS
  <2> HIDE DEF f
  <2> QED BY <1>5, <2>1 DEF IsSum
<1> QED BY <1>3, <1>6

LEMMA TotalIsSum ==
  ASSUME NEW h, NEW S, IsFiniteSet(S), NEW g, IsSum(g, h, S)
  PROVE  g[S] = Total(h, S)
<1>1. IsSum(CHOOSE f : IsSum(f, h, S), h, S)
  OBVIOUS
<1> QED BY <1>1, SumUnique DEF Total

LEMMA TotalSame ==
  ASSUME NEW h, NEW k, NEW S, IsFiniteSet(S), \A x \in S : h[x] = k[x]
  PROVE  Total(h, S) = Total(k, S)
<1>1. PICK g : IsSum(g, h, S)
  BY SumExists
<1>2. PICK f : IsSum(f, k, S)
  BY SumExists
<1>3. g[S] = f[S]
  BY <1>1, <1>2, SumUnique
<1> QED BY <1>1, <1>2, <1>3, TotalIsSum

LEMMA TotalEmpty == ASSUME NEW h PROVE Total(h, {}) = 0
<1>1. IsFiniteSet({})
  BY FS_EmptySet
<1>2. PICK g : IsSum(g, h, {})
  BY <1>1, SumExists
<1>3. g[{}] = 0
  BY <1>2 DEF IsSum
<1> QED BY <1>1, <1>2, <1>3, TotalIsSum

(* The member that is added last, or any other. *)
LEMMA TotalSome ==
  ASSUME NEW h, NEW S, IsFiniteSet(S), S # {}
  PROVE  Total(h, S) = h[Some(S)] + Total(h, S \ {Some(S)})
<1>1. PICK g : IsSum(g, h, S)
  BY SumExists
<1> DEFINE R == S \ {Some(S)}
<1>2. IsFiniteSet(R) /\ R \subseteq S
  BY FS_Subset
<1>3. PICK f : IsSum(f, h, R)
  BY <1>2, SumExists
<1>4. g[S] = h[Some(S)] + g[R]
  BY <1>1, <1>2 DEF IsSum
<1> HIDE DEF R
<1>5. g[R] = f[R]
  BY <1>1, <1>2, <1>3, SumUnique
<1>6. f[R] = Total(h, R) /\ g[S] = Total(h, S)
  BY <1>1, <1>2, <1>3, TotalIsSum
<1> QED BY <1>4, <1>5, <1>6 DEF R

LEMMA TotalInt ==
  ASSUME NEW h, NEW S, IsFiniteSet(S), \A x \in S : h[x] \in Int
  PROVE  Total(h, S) \in Int
<1> SUFFICES ASSUME Total(h, S) \notin Int PROVE FALSE
  OBVIOUS
<1> DEFINE Bad == {s \in SUBSET S : Total(h, s) \notin Int}
<1>1. Bad # {} /\ \A s \in Bad : IsFiniteSet(s)
  BY FS_Subset
<1>2. PICK m \in Bad : \A s \in Bad : ~(s \subseteq m /\ s # m)
  <2> HIDE DEF Bad
  <2> QED BY <1>1, SmallestSet
<1>3. IsFiniteSet(m) /\ m \subseteq S /\ Total(h, m) \notin Int
  BY <1>1
<1>4. m # {}
  BY <1>3, TotalEmpty
<1>5. Some(m) \in m
  BY <1>4, SomeMember
<1>6. Total(h, m \ {Some(m)}) \in Int
  BY <1>2, <1>3, <1>5
<1>7. Total(h, m) = h[Some(m)] + Total(h, m \ {Some(m)})
  BY <1>3, <1>4, TotalSome
<1> QED BY <1>3, <1>5, <1>6, <1>7

LEMMA TotalStep ==
  ASSUME NEW h, NEW S, IsFiniteSet(S), \A x \in S : h[x] \in Int, NEW e \in S
  PROVE  Total(h, S) = h[e] + Total(h, S \ {e})
<1> DEFINE Right(s) == \A x \in s : Total(h, s) = h[x] + Total(h, s \ {x})
           Bad == {s \in SUBSET S : ~Right(s)}
<1> SUFFICES ASSUME ~Right(S) PROVE FALSE
  OBVIOUS
<1>1. Bad # {} /\ \A s \in Bad : IsFiniteSet(s)
  BY FS_Subset
<1>2. PICK m \in Bad : \A s \in Bad : ~(s \subseteq m /\ s # m)
  <2> HIDE DEF Bad
  <2> QED BY <1>1, SmallestSet
<1>3. IsFiniteSet(m) /\ m \subseteq S /\ ~Right(m)
  BY <1>1
<1>4. PICK x \in m : Total(h, m) # h[x] + Total(h, m \ {x})
  BY <1>3
<1>5. ASSUME NEW s, s \subseteq m, s # m PROVE Right(s)
  BY <1>2, <1>3, <1>5
<1> DEFINE c == Some(m)
<1> HIDE DEF Bad, Right
<1>6. c \in m
  BY SomeMember
<1>7. Total(h, m) = h[c] + Total(h, m \ {c})
  BY <1>3, TotalSome
<1> HIDE DEF c
<1>8. x # c
  BY <1>4, <1>7
<1>9. Right(m \ {c}) /\ Right(m \ {x})
  BY <1>4, <1>5, <1>6
<1>10. /\ Total(h, m \ {c}) = h[x] + Total(h, (m \ {c}) \ {x})
       /\ Total(h, m \ {x}) = h[c] + Total(h, (m \ {x}) \ {c})
  <2>1. x \in m \ {c} /\ c \in m \ {x}
    BY <1>6, <1>8
  <2> QED BY <1>9, <2>1 DEF Right
<1>11. (m \ {c}) \ {x} = (m \ {x}) \ {c}
  OBVIOUS
<1> DEFINE r == (m \ {c}) \ {x}
<1>12. r \subseteq S /\ IsFiniteSet(r)
  BY <1>3, FS_Subset
<1>13. Total(h, r) \in Int /\ h[x] \in Int /\ h[c] \in Int
  <2> HIDE DEF r
  <2> QED BY <1>3, <1>6, <1>12, TotalInt
<1>14. Total(h, m) = h[c] + (h[x] + Total(h, r))
  BY <1>7, <1>10
<1>15. Total(h, m \ {x}) = h[c] + Total(h, r)
  BY <1>10, <1>11
<1> HIDE DEF r
<1> DEFINE tr == Total(h, r)
           hx == h[x]
           hc == h[c]
<1>16. tr \in Int /\ hx \in Int /\ hc \in Int
  BY <1>13
<1>17. Total(h, m) = hc + (hx + tr) /\ h[x] + Total(h, m \ {x}) = hx + (hc + tr)
  BY <1>14, <1>15
<1> HIDE DEF tr, hx, hc
<1>18. hc + (hx + tr) = hx + (hc + tr)
  BY <1>16
<1> QED BY <1>4, <1>17, <1>18

(* A member more, or another value for one of them. *)
LEMMA TotalAdd ==
  ASSUME NEW h, NEW S, IsFiniteSet(S), NEW e, e \notin S, \A x \in S \cup {e} : h[x] \in Int
  PROVE  Total(h, S \cup {e}) = h[e] + Total(h, S)
<1> DEFINE R == S \cup {e}
<1>1. IsFiniteSet(R) /\ e \in R /\ \A x \in R : h[x] \in Int
  BY FS_AddElement
<1>2. R \ {e} = S
  OBVIOUS
<1> HIDE DEF R
<1>3. Total(h, R) = h[e] + Total(h, R \ {e})
  BY <1>1, TotalStep
<1> QED BY <1>2, <1>3 DEF R

LEMMA TotalChange ==
  ASSUME NEW h, NEW k, NEW S, IsFiniteSet(S), NEW e \in S,
         \A x \in S : h[x] \in Int /\ k[x] \in Int,
         \A x \in S \ {e} : k[x] = h[x]
  PROVE  Total(k, S) = (Total(h, S) - h[e]) + k[e]
<1> DEFINE R == S \ {e}
           a == Total(h, S)
           b == Total(k, S)
           r == Total(h, R)
           x == h[e]
           y == k[e]
<1>1. IsFiniteSet(R)
  BY FS_RemoveElement
<1>2. a = x + r /\ b = y + Total(k, R)
  BY TotalStep
<1>3. Total(k, R) = r
  BY <1>1, TotalSame
<1>4. r \in Int /\ x \in Int /\ y \in Int
  BY <1>1, TotalInt
<1> HIDE DEF a, b, r, x, y
<1>5. b = (a - x) + y
  BY <1>2, <1>3, <1>4
<1> QED BY <1>5 DEF a, b, x, y

LEMMA TotalZero ==
  ASSUME NEW h, NEW S, IsFiniteSet(S), \A x \in S : h[x] = 0
  PROVE  Total(h, S) = 0
<1> SUFFICES ASSUME Total(h, S) # 0 PROVE FALSE
  OBVIOUS
<1> DEFINE Bad == {s \in SUBSET S : Total(h, s) # 0}
<1>1. Bad # {} /\ \A s \in Bad : IsFiniteSet(s)
  BY FS_Subset
<1>2. PICK m \in Bad : \A s \in Bad : ~(s \subseteq m /\ s # m)
  <2> HIDE DEF Bad
  <2> QED BY <1>1, SmallestSet
<1>3. IsFiniteSet(m) /\ m \subseteq S /\ Total(h, m) # 0
  BY <1>1
<1>4. m # {}
  BY <1>3, TotalEmpty
<1>5. Some(m) \in m
  BY <1>4, SomeMember
<1>6. Total(h, m \ {Some(m)}) = 0
  BY <1>2, <1>3, <1>5
<1>7. Total(h, m) = h[Some(m)] + Total(h, m \ {Some(m)})
  BY <1>3, <1>4, TotalSome
<1> QED BY <1>3, <1>5, <1>6, <1>7

----------------------------------------------------------------------------
(* Folds along a sequence *)

Largest(s) == CHOOSE x \in s : \A y \in s : x >= y

(* Every part of a finite set of positions has a last one. *)
HasLargest(S) == IsFiniteSet(S) /\ \A s \in SUBSET S : s # {} => Largest(s) \in s

(* How the community modules fold along positions S, the last of them at last:
   G gives what a position makes of what the ones before it have made of b. *)
IsFold(g, b, G, S) ==
    g = [s \in SUBSET S |-> IF s = {} THEN b ELSE G[<<Largest(s), g[s \ {Largest(s)}]>>]]

LEMMA LargestMember ==
  ASSUME NEW n \in Nat, NEW s \in SUBSET (1 .. n), s # {}
  PROVE  Largest(s) \in s /\ \A y \in s : Largest(s) >= y
<1> DEFINE T == {k \in Nat : \A x \in s : x <= k}
<1>1. T \subseteq Nat /\ n \in T
  OBVIOUS
<1>2. PICK m \in T : \A k \in T : m <= k
  <2> HIDE DEF T
  <2> QED BY <1>1, NatMin
<1>3. m \in s
  <2> SUFFICES ASSUME m \notin s PROVE FALSE
    OBVIOUS
  <2>1. \A x \in s : x \in Nat \ {0} /\ x <= m /\ x # m
    OBVIOUS
  <2>a. PICK z \in s : TRUE
    OBVIOUS
  <2>2. m \in Nat /\ m # 0 /\ m - 1 \in Nat
    BY <1>1, <2>1, <2>a
  <2>3. \A x \in s : x <= m - 1
    BY <2>1, <2>2
  <2>4. m - 1 \in T /\ ~(m <= m - 1)
    BY <2>2, <2>3
  <2> QED BY <1>2, <2>4
<1>4. \A y \in s : m >= y
  OBVIOUS
<1> HIDE DEF T
<1> QED BY <1>3, <1>4 DEF Largest

LEMMA IntervalHasLargest ==
  ASSUME NEW n \in Nat
  PROVE  HasLargest(1 .. n)
<1>1. IsFiniteSet(1 .. n)
  BY FS_Interval
<1> QED BY <1>1, LargestMember DEF HasLargest

LEMMA LargestOfInterval ==
  ASSUME NEW n \in Nat
  PROVE  Largest(1 .. n + 1) = n + 1
<1>1. Largest(1 .. n + 1) \in 1 .. n + 1 /\ Largest(1 .. n + 1) >= n + 1
  <2>1. n + 1 \in Nat /\ n + 1 \in 1 .. n + 1 /\ 1 .. n + 1 # {}
    OBVIOUS
  <2> QED BY <2>1, LargestMember
<1> QED BY <1>1

LEMMA FoldUnique ==
  ASSUME NEW b, NEW G, NEW g, NEW S, IsFold(g, b, G, S), NEW f, NEW R, IsFold(f, b, G, R),
         NEW T, T \subseteq S, T \subseteq R, HasLargest(T)
  PROVE  g[T] = f[T]
<1> SUFFICES ASSUME g[T] # f[T] PROVE FALSE
  OBVIOUS
<1> DEFINE Bad == {s \in SUBSET T : g[s] # f[s]}
<1>1. Bad # {} /\ \A s \in Bad : IsFiniteSet(s)
  BY FS_Subset DEF HasLargest
<1>2. PICK m \in Bad : \A s \in Bad : ~(s \subseteq m /\ s # m)
  <2> HIDE DEF Bad
  <2> QED BY <1>1, SmallestSet
<1>3. g[m] # f[m] /\ m \subseteq T
  OBVIOUS
<1> DEFINE r == m \ {Largest(m)}
<1>4. /\ g[m] = IF m = {} THEN b ELSE G[<<Largest(m), g[r]>>]
      /\ f[m] = IF m = {} THEN b ELSE G[<<Largest(m), f[r]>>]
  BY <1>3 DEF IsFold
<1>5. m # {}
  BY <1>3, <1>4
<1>6. Largest(m) \in m
  BY <1>3, <1>5 DEF HasLargest
<1>7. g[r] = f[r]
  BY <1>2, <1>6
<1> QED BY <1>3, <1>4, <1>5, <1>7

LEMMA FoldBelow ==
  ASSUME NEW b, NEW G, NEW s, HasLargest(s), NEW r \in SUBSET s,
         NEW g, IsFold(g, b, G, s), NEW f, IsFold(f, b, G, r)
  PROVE  g[r] = f[r]
<1>1. HasLargest(r)
  BY FS_Subset DEF HasLargest
<1>2. r \subseteq s /\ r \subseteq r
  OBVIOUS
<1> QED BY <1>1, <1>2, FoldUnique

LEMMA FoldExists ==
  ASSUME NEW S, HasLargest(S), NEW b, NEW G
  PROVE  \E g : IsFold(g, b, G, S)
<1> SUFFICES ASSUME ~(\E g : IsFold(g, b, G, S)) PROVE FALSE
  OBVIOUS
<1> DEFINE Bad == {s \in SUBSET S : ~(\E g : IsFold(g, b, G, s))}
<1>0. \A s \in SUBSET S : HasLargest(s)
  BY FS_Subset DEF HasLargest
<1>1. Bad # {} /\ \A s \in Bad : IsFiniteSet(s)
  BY <1>0 DEF HasLargest
<1>2. PICK m \in Bad : \A s \in Bad : ~(s \subseteq m /\ s # m)
  <2> HIDE DEF Bad
  <2> QED BY <1>1, SmallestSet
<1>3. m \subseteq S /\ ~(\E g : IsFold(g, b, G, m))
  BY <1>1
<1> DEFINE Of(s) == CHOOSE g : IsFold(g, b, G, s)
<1>4. ASSUME NEW s, s \subseteq m, s # m PROVE IsFold(Of(s), b, G, s)
  <2>1. \E g : IsFold(g, b, G, s)
    BY <1>2, <1>3, <1>4
  <2> QED BY <2>1
<1> HIDE DEF Of, Bad
<1> DEFINE top == m \ {Largest(m)}
           V(s) == IF s = m THEN (IF m = {} THEN b ELSE G[<<Largest(m), Of(top)[top]>>])
                   ELSE Of(s)[s]
           f == [s \in SUBSET m |-> V(s)]
<1>5. ASSUME NEW s \in SUBSET m
      PROVE  f[s] = IF s = {} THEN b ELSE G[<<Largest(s), f[s \ {Largest(s)}]>>]
  <2>1. CASE s = m
    <3>1. CASE m = {}
      BY <2>1, <3>1
    <3>2. CASE m # {}
      <4>1. Largest(m) \in m /\ top # m /\ top \subseteq m
        BY <1>0, <1>3, <3>2 DEF HasLargest
      <4> QED BY <2>1, <3>2, <4>1
    <3> QED BY <3>1, <3>2
  <2>2. CASE s # m
    <3> DEFINE r == s \ {Largest(s)}
    <3>1. IsFold(Of(s), b, G, s)
      BY <1>4, <2>2
    <3>2. Of(s)[s] = IF s = {} THEN b ELSE G[<<Largest(s), Of(s)[r]>>]
      BY <3>1 DEF IsFold
    <3>3. f[s] = Of(s)[s]
      BY <2>2
    <3>4. CASE s = {}
      BY <3>2, <3>3, <3>4
    <3>5. CASE s # {}
      <4>1. r \subseteq m /\ r # m /\ r \subseteq s
        <5>1. Largest(s) \in s
          BY <1>0, <1>3, <3>5 DEF HasLargest
        <5> QED BY <5>1
      <4>2. IsFold(Of(r), b, G, r)
        BY <1>4, <4>1
      <4> HIDE DEF r
      <4>4. Of(s)[r] = Of(r)[r]
        <5>1. HasLargest(s) /\ r \in SUBSET s
          BY <1>0, <1>3, <4>1
        <5> QED BY <3>1, <4>2, <5>1, FoldBelow
      <4>5. f[r] = Of(r)[r]
        BY <4>1
      <4> QED BY <3>2, <3>3, <3>5, <4>4, <4>5 DEF r
    <3> QED BY <3>4, <3>5
  <2> QED BY <2>1, <2>2
<1>6. IsFold(f, b, G, m)
  <2>1. f = [s \in SUBSET m |-> f[s]]
    OBVIOUS
  <2> HIDE DEF f
  <2> QED BY <1>5, <2>1 DEF IsFold
<1> QED BY <1>3, <1>6

(* One more position. *)
LEMMA FoldStep ==
  ASSUME NEW n \in Nat, NEW b, NEW G, NEW g, IsFold(g, b, G, 1 .. n)
  PROVE  /\ g[{}] = b
         /\ \A k \in 1 .. n : g[1 .. k] = G[<<k, g[1 .. k - 1]>>]
<1>1. g[{}] = b
  BY DEF IsFold
<1>2. ASSUME NEW k \in 1 .. n PROVE g[1 .. k] = G[<<k, g[1 .. k - 1]>>]
  <2>1. Largest(1 .. k) = k
    <3>1. k - 1 \in Nat /\ (k - 1) + 1 = k
      OBVIOUS
    <3>2. Largest(1 .. (k - 1) + 1) = (k - 1) + 1
      BY <3>1, LargestOfInterval
    <3> QED BY <3>1, <3>2
  <2>2. (1 .. k) \in SUBSET (1 .. n) /\ 1 .. k # {} /\ (1 .. k) \ {k} = 1 .. k - 1
    OBVIOUS
  <2> DEFINE R == 1 .. k
  <2> HIDE DEF R
  <2>3. R \in SUBSET (1 .. n) /\ R # {} /\ Largest(R) = k /\ R \ {k} = 1 .. k - 1
    BY <2>1, <2>2 DEF R
  <2>4. g[R] = G[<<Largest(R), g[R \ {Largest(R)}]>>]
    BY <2>3 DEF IsFold
  <2>5. g[R] = G[<<k, g[1 .. k - 1]>>]
    BY <2>3, <2>4
  <2> QED BY <2>5 DEF R
<1> QED BY <1>1, <1>2
=============================================================================
