----------------------------- MODULE ListLemmas -----------------------------
(***************************************************************************)
(* What the operators on sequences return: FlattenSeq of the community     *)
(* modules and Keep of module Lists.                                       *)
(*                                                                         *)
(* The library's induction theorems take the predicate to prove as an      *)
(* operator, which no prover at hand can instantiate.  Here induction is   *)
(* about a set, that of all numbers or sequences which have the property,  *)
(* and follows from the well-foundedness of the subsets of a finite set.   *)
(***************************************************************************)
EXTENDS Lists, SequenceTheorems, FiniteSetTheorems, WellFoundedInduction, TLAPS

\* A set that has 0, and k + 1 whenever it has k, has every number.
LEMMA NatSetInduction ==
  ASSUME NEW S, 0 \in S, \A k \in Nat : k \in S => k + 1 \in S
  PROVE  Nat \subseteq S
<1> SUFFICES ASSUME NEW n \in Nat, n \notin S PROVE FALSE
  OBVIOUS
<1> DEFINE R == StrictSubsetOrdering(1..n)
           T == {A \in SUBSET (1..n) : \E k \in 0..n : A = 1..k /\ k \notin S}
<1>1. IsWellFoundedOn(R, SUBSET (1..n))
  <2>1. IsFiniteSet(1..n)
    BY FS_Interval
  <2> QED BY <2>1, FS_StrictSubsetOrderingWellFounded, FS_FiniteSubsetsOfFinite
<1>2. (1..n) \in T
  OBVIOUS
<1>3. PICK A \in T : \A B \in T : <<B, A>> \notin R
  <2> HIDE DEF R
  <2> QED BY <1>1, <1>2, WFMin
<1>4. PICK k \in 0..n : A = 1..k /\ k \notin S
  BY <1>3
<1>5. k # 0 /\ k - 1 \in Nat /\ k - 1 \notin S
  BY <1>4
<1>6. (1..(k - 1)) \in T
  BY <1>5
<1>7. <<1..(k - 1), A>> \in R
  <2>1. k \in A /\ k \notin 1..(k - 1)
    BY <1>4, <1>5
  <2>2. A \in SUBSET (1..n) /\ (1..(k - 1)) \in SUBSET (1..n) /\ (1..(k - 1)) \subseteq A
    BY <1>4, <1>5
  <2> QED BY <2>1, <2>2 DEF StrictSubsetOrdering
<1> QED BY <1>3, <1>6, <1>7

\* A set that has the empty sequence, and with a sequence each that is longer
\* by one element of T, has every sequence over T.
LEMMA SeqSetInduction ==
  ASSUME NEW T, NEW S, <<>> \in S,
         \A s \in Seq(T) : s \in S => \A x \in T : Append(s, x) \in S
  PROVE  Seq(T) \subseteq S
<1> DEFINE N == {n \in Nat : \A s \in Seq(T) : Len(s) = n => s \in S}
<1>1. 0 \in N
  BY EmptySeq
<1>2. ASSUME NEW k \in Nat, k \in N PROVE k + 1 \in N
  <2> SUFFICES ASSUME NEW s \in Seq(T), Len(s) = k + 1 PROVE s \in S
    OBVIOUS
  <2>1. s # <<>>
    BY EmptySeq
  <2>2. PICK t \in Seq(T), x \in T : s = Append(t, x)
    BY <2>1, SequenceEmptyOrAppend
  <2>3. Len(t) = k
    BY <2>2, AppendProperties, LenProperties
  <2> QED BY <1>2, <2>2, <2>3
<1>3. Nat \subseteq N
  <2> HIDE DEF N
  <2> QED BY <1>1, <1>2, NatSetInduction
<1> QED BY <1>3, LenProperties

-----------------------------------------------------------------------------
(* What is in a list.                                                      *)

LEMMA SetOf ==
  ASSUME NEW T, NEW s \in Seq(T)
  PROVE  ToSet(s) = {s[i] : i \in 1..Len(s)}
BY LenProperties DEF ToSet

\* A list is empty exactly if nothing is in it.
LEMMA NothingIn ==
  ASSUME NEW T, NEW s \in Seq(T)
  PROVE  /\ s = <<>> <=> ToSet(s) = {}
         /\ s # <<>> => s[1] \in ToSet(s)
         /\ ToSet(s) \subseteq T
<1>1. Len(s) \in Nat /\ (s # <<>> => Len(s) # 0) /\ \A i \in 1..Len(s) : s[i] \in T
  BY LenProperties, EmptySeq
<1>2. s # <<>> => 1 \in 1..Len(s)
  BY <1>1
<1>3. s = <<>> => Len(s) = 0
  BY EmptySeq
<1>4. ToSet(s) = {s[i] : i \in 1..Len(s)}
  BY SetOf
<1>5. ToSet(s) = {} <=> Len(s) = 0
  BY <1>1, <1>4
<1> QED BY <1>1, <1>2, <1>3, <1>4, <1>5

LEMMA ConcatSet ==
  ASSUME NEW T, NEW s \in Seq(T), NEW t \in Seq(T)
  PROVE  ToSet(s \o t) = ToSet(s) \cup ToSet(t)
<1>1. /\ s \o t \in Seq(T) /\ Len(s \o t) = Len(s) + Len(t)
      /\ \A i \in 1..Len(s) + Len(t) :
           (s \o t)[i] = IF i <= Len(s) THEN s[i] ELSE t[i - Len(s)]
  BY ConcatProperties
<1>2. Len(s) \in Nat /\ Len(t) \in Nat
  BY LenProperties
<1>3. ASSUME NEW i \in 1..Len(s) PROVE (s \o t)[i] = s[i] /\ i \in 1..Len(s \o t)
  BY <1>1, <1>2
<1>4. ASSUME NEW i \in 1..Len(t)
      PROVE  (s \o t)[Len(s) + i] = t[i] /\ Len(s) + i \in 1..Len(s \o t)
  BY <1>1, <1>2
<1>5. ASSUME NEW i \in 1..Len(s \o t)
      PROVE  (s \o t)[i] \in {s[j] : j \in 1..Len(s)} \cup {t[j] : j \in 1..Len(t)}
  <2>1. CASE i <= Len(s)
    BY <2>1, <1>1, <1>2
  <2>2. CASE ~(i <= Len(s))
    <3>1. i - Len(s) \in 1..Len(t) /\ (s \o t)[i] = t[i - Len(s)]
      BY <2>2, <1>1, <1>2
    <3> QED BY <3>1
  <2> QED BY <2>1, <2>2
<1>6. ToSet(s \o t) = {(s \o t)[i] : i \in 1..Len(s \o t)}
  BY <1>1, SetOf
<1>7. ToSet(s) = {s[i] : i \in 1..Len(s)} /\ ToSet(t) = {t[i] : i \in 1..Len(t)}
  BY SetOf
<1> QED BY <1>3, <1>4, <1>5, <1>6, <1>7

LEMMA SeqOfItsSet ==
  ASSUME NEW T, NEW s \in Seq(T), NEW U, ToSet(s) \subseteq U
  PROVE  s \in Seq(U)
<1>1. Len(s) \in Nat /\ s = [i \in 1..Len(s) |-> s[i]]
  BY LenProperties
<1>2. \A i \in 1..Len(s) : s[i] \in U
  BY SetOf
<1> QED BY <1>1, <1>2

-----------------------------------------------------------------------------
(* FlattenSeq.                                                             *)

\* f has the concatenations of the first elements of s, up to n of them.
Sums(f, s, n) == \A i \in 1..n : f[i] = IF i = 1 THEN s[1] ELSE f[i - 1] \o s[i]

LEMMA SumsAt ==
  ASSUME NEW f, NEW s, NEW n \in Nat, Sums(f, s, n), NEW k \in Nat, k + 1 \in 1..n
  PROVE  f[k + 1] = IF k = 0 THEN s[1] ELSE f[k] \o s[k + 1]
<1>1. f[k + 1] = IF k + 1 = 1 THEN s[1] ELSE f[(k + 1) - 1] \o s[k + 1]
  BY DEF Sums
<1>2. (k + 1) - 1 = k /\ (k + 1 = 1 <=> k = 0)
  OBVIOUS
<1> QED BY <1>1, <1>2

LEMMA SumsExist ==
  ASSUME NEW T, NEW s \in Seq(Seq(T))
  PROVE  \A n \in Nat : n <= Len(s) => \E f \in [1..n -> Seq(T)] : Sums(f, s, n)
<1> DEFINE N == {n \in Nat : n <= Len(s) => \E f \in [1..n -> Seq(T)] : Sums(f, s, n)}
<1>1. 0 \in N
  <2>1. [i \in 1..0 |-> <<>>] \in [1..0 -> Seq(T)]
    OBVIOUS
  <2>2. Sums([i \in 1..0 |-> <<>>], s, 0)
    BY DEF Sums
  <2> QED BY <2>1, <2>2
<1>2. ASSUME NEW k \in Nat, k \in N PROVE k + 1 \in N
  <2> SUFFICES ASSUME k + 1 <= Len(s)
               PROVE  \E f \in [1..(k + 1) -> Seq(T)] : Sums(f, s, k + 1)
    OBVIOUS
  <2>1. PICK f \in [1..k -> Seq(T)] : Sums(f, s, k)
    BY <1>2, LenProperties
  <2>2. \A i \in 1..(k + 1) : s[i] \in Seq(T)
    BY LenProperties
  <2> DEFINE last == IF k = 0 THEN s[1] ELSE f[k] \o s[k + 1]
             g == [i \in 1..(k + 1) |-> IF i = k + 1 THEN last ELSE f[i]]
  <2>3. last \in Seq(T)
    <3>1. CASE k = 0
      BY <3>1, <2>2
    <3>2. CASE k # 0
      <4>1. f[k] \in Seq(T) /\ s[k + 1] \in Seq(T)
        BY <3>2, <2>1, <2>2
      <4> QED BY <3>2, <4>1, ConcatProperties
    <3> QED BY <3>1, <3>2
  <2>4. g \in [1..(k + 1) -> Seq(T)]
    BY <2>1, <2>3
  <2>5. Sums(g, s, k + 1)
    <3> SUFFICES ASSUME NEW i \in 1..(k + 1)
                 PROVE  g[i] = IF i = 1 THEN s[1] ELSE g[i - 1] \o s[i]
      BY DEF Sums
    <3>1. CASE i = k + 1
      <4>1. CASE k = 0
        BY <3>1, <4>1
      <4>2. CASE k # 0
        <5>1. g[i] = last /\ last = f[k] \o s[k + 1]
          BY <3>1, <4>2
        <5>2. g[i - 1] = f[k] /\ i # 1
          BY <3>1, <4>2
        <5> HIDE DEF g, last
        <5> QED BY <3>1, <5>1, <5>2
      <4> QED BY <4>1, <4>2
    <3>2. CASE i # k + 1
      <4>1. i \in 1..k /\ g[i] = f[i] /\ (i # 1 => g[i - 1] = f[i - 1])
        BY <3>2
      <4> QED BY <4>1, <2>1 DEF Sums
    <3> QED BY <3>1, <3>2
  <2> QED BY <2>4, <2>5
<1>3. Nat \subseteq N
  <2> HIDE DEF N
  <2> QED BY <1>1, <1>2, NatSetInduction
<1> QED BY <1>3

\* FlattenSeq is the last of the concatenations.
LEMMA FlattenIsSum ==
  ASSUME NEW T, NEW s \in Seq(Seq(T)), s # <<>>
  PROVE  \E f \in [1..Len(s) -> Seq(T)] : Sums(f, s, Len(s)) /\ FlattenSeq(s) = f[Len(s)]
<1> DEFINE Is(f) == f = [i \in 1..Len(s) |-> IF i = 1 THEN s[i] ELSE f[i - 1] \o s[i]]
           flatten == CHOOSE f : Is(f)
<1>1. Len(s) \in Nat \ {0}
  BY EmptySeq
<1>2. PICK f \in [1..Len(s) -> Seq(T)] : Sums(f, s, Len(s))
  BY <1>1, SumsExist, SMTT(30)
<1>3. Is(f)
  BY <1>2 DEF Sums
<1>4. Is(flatten)
  BY <1>3
<1>5. FlattenSeq(s) = flatten[Len(s)]
  BY <1>1 DEF FlattenSeq
<1>6. Sums(flatten, s, Len(s))
  BY <1>1, <1>4, ZenonT(30) DEF Sums
<1>7. flatten \in [1..Len(s) -> Seq(T)]
  <2>1. \A n \in Nat : n \in 1..Len(s) => flatten[n] = f[n]
    <3> DEFINE N == {n \in Nat : n \in 1..Len(s) => flatten[n] = f[n]}
    <3>1. 0 \in N
      OBVIOUS
    <3>2. ASSUME NEW k \in Nat, k \in N PROVE k + 1 \in N
      <4> HIDE DEF flatten
      <4> SUFFICES ASSUME k + 1 \in 1..Len(s) PROVE flatten[k + 1] = f[k + 1]
        OBVIOUS
      <4>1. k # 0 => flatten[k] = f[k]
        BY <3>2, <1>1
      <4>2. flatten[k + 1] = IF k = 0 THEN s[1] ELSE flatten[k] \o s[k + 1]
        BY <1>1, <1>6, SumsAt
      <4>3. f[k + 1] = IF k = 0 THEN s[1] ELSE f[k] \o s[k + 1]
        BY <1>1, <1>2, SumsAt, SMTT(30)
      <4> QED BY <4>1, <4>2, <4>3
    <3>3. Nat \subseteq N
      <4> HIDE DEF N
      <4> QED BY <3>1, <3>2, NatSetInduction
    <3> QED BY <3>3
  <2>2. \A n \in 1..Len(s) : flatten[n] \in Seq(T)
    <3> HIDE DEF flatten
    <3> SUFFICES ASSUME NEW n \in 1..Len(s) PROVE flatten[n] \in Seq(T)
      OBVIOUS
    <3>1. n \in Nat
      BY <1>1
    <3>2. flatten[n] = f[n]
      BY <3>1, <2>1
    <3>3. f[n] \in Seq(T)
      BY <1>2
    <3> QED BY <3>2, <3>3
  <2>3. flatten = [i \in 1..Len(s) |-> flatten[i]]
    BY <1>4, ZenonT(30)
  <2> HIDE DEF flatten
  <2> QED BY <2>2, <2>3
<1> HIDE DEF flatten
<1> QED BY <1>5, <1>6, <1>7

LEMMA FlattenEmpty == FlattenSeq(<<>>) = <<>>
BY DEF FlattenSeq

LEMMA FlattenType ==
  ASSUME NEW T, NEW s \in Seq(Seq(T))
  PROVE  FlattenSeq(s) \in Seq(T)
<1>1. CASE s = <<>>
  <2>1. <<>> \in Seq(T)
    BY EmptySeq
  <2> QED BY <1>1, <2>1, FlattenEmpty
<1>2. CASE s # <<>>
  <2>1. Len(s) \in 1..Len(s)
    BY <1>2, EmptySeq
  <2>2. PICK f \in [1..Len(s) -> Seq(T)] : FlattenSeq(s) = f[Len(s)]
    BY <1>2, FlattenIsSum
  <2> QED BY <2>1, <2>2
<1> QED BY <1>1, <1>2

LEMMA FlattenAppend ==
  ASSUME NEW T, NEW s \in Seq(Seq(T)), NEW x \in Seq(T)
  PROVE  FlattenSeq(Append(s, x)) = FlattenSeq(s) \o x
<1> DEFINE t == Append(s, x)
<1>1. /\ t \in Seq(Seq(T)) /\ t # <<>> /\ Len(t) = Len(s) + 1 /\ t[Len(s) + 1] = x
      /\ \A i \in 1..Len(s) : t[i] = s[i]
      /\ Len(s) \in Nat
  BY AppendProperties, LenProperties
<1> HIDE DEF t
<1>2. PICK g \in [1..Len(t) -> Seq(T)] : Sums(g, t, Len(t)) /\ FlattenSeq(t) = g[Len(t)]
  BY <1>1, FlattenIsSum
<1>3. CASE s = <<>>
  <2>1. FlattenSeq(t) = x
    BY <1>1, <1>2, <1>3, EmptySeq DEF Sums
  <2> QED BY <1>3, <2>1, FlattenEmpty, ConcatEmptySeq DEF t
<1>4. CASE s # <<>>
  <2>1. PICK f \in [1..Len(s) -> Seq(T)] : Sums(f, s, Len(s)) /\ FlattenSeq(s) = f[Len(s)]
    BY <1>4, FlattenIsSum
  <2>2. Len(s) \in Nat \ {0}
    BY <1>4, EmptySeq
  <2> DEFINE N == {n \in Nat : n \in 1..Len(s) => g[n] = f[n]}
  <2>3. 0 \in N
    OBVIOUS
  <2>4. ASSUME NEW k \in Nat, k \in N PROVE k + 1 \in N
    <3> SUFFICES ASSUME k + 1 \in 1..Len(s) PROVE g[k + 1] = f[k + 1]
      OBVIOUS
    <3>1. k # 0 => g[k] = f[k]
      BY <2>4, <2>2
    <3>2. f[k + 1] = IF k = 0 THEN s[1] ELSE f[k] \o s[k + 1]
      BY <2>1, <2>2, SumsAt, ZenonT(30)
    <3>3. k + 1 \in 1..Len(t)
      BY <1>1
    <3>4. g[k + 1] = IF k = 0 THEN t[1] ELSE g[k] \o t[k + 1]
      <4>1. Len(t) \in Nat
        BY <1>1
      <4>2. Sums(g, t, Len(t))
        BY <1>2
      <4> QED BY <4>1, <4>2, <3>3, SumsAt
    <3>5. t[k + 1] = s[k + 1] /\ (k = 0 => t[1] = s[1])
      BY <1>1
    <3> QED BY <3>1, <3>2, <3>4, <3>5
  <2>5. Nat \subseteq N
    <3> HIDE DEF N
    <3> QED BY <2>3, <2>4, NatSetInduction
  <2>6. g[Len(s)] = FlattenSeq(s)
    <3>1. Len(s) \in N /\ Len(s) \in 1..Len(s)
      BY <2>2, <2>5
    <3> QED BY <2>1, <3>1
  <2>7. g[Len(t)] = g[Len(s)] \o x
    <3>1. Len(t) \in 1..Len(t) /\ Len(t) # 1 /\ Len(t) - 1 = Len(s)
      BY <1>1, <2>2
    <3>2. g[Len(t)] = g[Len(t) - 1] \o t[Len(t)]
      BY <1>2, <3>1 DEF Sums
    <3> QED BY <1>1, <3>1, <3>2
  <2> QED BY <1>2, <2>6, <2>7 DEF t
<1> QED BY <1>3, <1>4

LEMMA FlattenOne ==
  ASSUME NEW T, NEW x \in Seq(T)
  PROVE  FlattenSeq(<<x>>) = x
<1>1. <<>> \in Seq(Seq(T)) /\ <<>> \in Seq(T)
  BY EmptySeq
<1>2. Append(<<>>, x) = <<x>>
  OBVIOUS
<1>3. FlattenSeq(Append(<<>>, x)) = FlattenSeq(<<>>) \o x
  BY <1>1, FlattenAppend
<1>4. FlattenSeq(<<>>) \o x = x
  BY FlattenEmpty, ConcatEmptySeq
<1> QED BY <1>2, <1>3, <1>4

LEMMA ConcatAppend ==
  ASSUME NEW T, NEW s \in Seq(T), NEW t \in Seq(T), NEW x \in T
  PROVE  s \o Append(t, x) = Append(s \o t, x)
<1>1. <<x>> \in Seq(T)
  OBVIOUS
<1>2. s \o t \in Seq(T)
  BY ConcatProperties
<1> QED BY <1>1, <1>2, AppendIsConcat, ConcatAssociative

LEMMA FlattenConcat ==
  ASSUME NEW T, NEW s \in Seq(Seq(T)), NEW t \in Seq(Seq(T))
  PROVE  FlattenSeq(s \o t) = FlattenSeq(s) \o FlattenSeq(t)
<1> DEFINE N == {u \in Seq(Seq(T)) : FlattenSeq(s \o u) = FlattenSeq(s) \o FlattenSeq(u)}
<1>1. <<>> \in N
  <2>1. <<>> \in Seq(Seq(T)) /\ s \o <<>> = s
    BY EmptySeq, ConcatEmptySeq
  <2>2. FlattenSeq(s) \o <<>> = FlattenSeq(s)
    BY FlattenType, ConcatEmptySeq
  <2> QED BY <2>1, <2>2, FlattenEmpty
<1>2. ASSUME NEW u \in Seq(Seq(T)), u \in N, NEW x \in Seq(T) PROVE Append(u, x) \in N
  <2>1. Append(u, x) \in Seq(Seq(T)) /\ s \o u \in Seq(Seq(T))
    BY AppendProperties, ConcatProperties
  <2>2. FlattenSeq(s \o Append(u, x)) = FlattenSeq(s \o u) \o x
    <3>1. s \o Append(u, x) = Append(s \o u, x)
      BY ConcatAppend
    <3>2. FlattenSeq(Append(s \o u, x)) = FlattenSeq(s \o u) \o x
      BY <2>1, FlattenAppend
    <3> QED BY <3>1, <3>2
  <2>3. FlattenSeq(s \o u) = FlattenSeq(s) \o FlattenSeq(u)
    BY <1>2
  <2>4. FlattenSeq(s) \in Seq(T) /\ FlattenSeq(u) \in Seq(T)
    BY FlattenType
  <2>5. (FlattenSeq(s) \o FlattenSeq(u)) \o x = FlattenSeq(s) \o (FlattenSeq(u) \o x)
    BY <2>4, ConcatAssociative
  <2>6. FlattenSeq(Append(u, x)) = FlattenSeq(u) \o x
    BY FlattenAppend
  <2> QED BY <2>1, <2>2, <2>3, <2>5, <2>6
<1>3. Seq(Seq(T)) \subseteq N
  <2> HIDE DEF N
  <2> QED BY <1>1, <1>2, SeqSetInduction
<1> QED BY <1>3

-----------------------------------------------------------------------------
(* Keep.                                                                   *)

LEMMA KeepEmpty == \A S : Keep(<<>>, S) = <<>>
<1> SUFFICES ASSUME NEW S PROVE Keep(<<>>, S) = <<>>
  OBVIOUS
<1>1. [i \in DOMAIN <<>> |-> IF i \in S THEN <<(<<>>)[i]>> ELSE <<>>] = <<>>
  OBVIOUS
<1> QED BY <1>1, FlattenEmpty DEF Keep

LEMMA KeepAppend ==
  ASSUME NEW T, NEW s \in Seq(T), NEW x \in T, NEW S
  PROVE  Keep(Append(s, x), S) =
           IF Len(s) + 1 \in S THEN Append(Keep(s, S), x) ELSE Keep(s, S)
<1> DEFINE Parts(u) == [i \in DOMAIN u |-> IF i \in S THEN <<u[i]>> ELSE <<>>]
           part == IF Len(s) + 1 \in S THEN <<x>> ELSE <<>>
<1>1. /\ Append(s, x) \in Seq(T) /\ Len(Append(s, x)) = Len(s) + 1
      /\ Append(s, x)[Len(s) + 1] = x
      /\ \A i \in 1..Len(s) : Append(s, x)[i] = s[i]
  BY AppendProperties
<1>2. /\ DOMAIN s = 1..Len(s) /\ Len(s) \in Nat /\ DOMAIN Append(s, x) = 1..(Len(s) + 1)
      /\ \A i \in 1..Len(s) : s[i] \in T
  BY <1>1, LenProperties
<1>3. /\ Parts(s) \in Seq(Seq(T)) /\ Len(Parts(s)) = Len(s)
      /\ part \in Seq(T)
  BY <1>2
<1>4. Parts(Append(s, x)) = Append(Parts(s), part)
  <2> DEFINE l == Parts(Append(s, x))
             r == Append(Parts(s), part)
  <2>1. /\ r \in Seq(Seq(T)) /\ Len(r) = Len(s) + 1 /\ r[Len(s) + 1] = part
        /\ \A i \in 1..Len(s) : r[i] = Parts(s)[i]
    <3> HIDE DEF part
    <3> DEFINE q == Parts(s)
    <3> HIDE DEF q
    <3> QED BY <1>3, AppendProperties
  <2>2. l \in Seq(Seq(T)) /\ Len(l) = Len(s) + 1
    <3>1. \A i \in 1..(Len(s) + 1) : Append(s, x)[i] \in T
      BY <1>1, ElementOfSeq
    <3> QED BY <3>1, <1>2
  <2>3. \A i \in 1..(Len(s) + 1) : l[i] = r[i]
    <3> SUFFICES ASSUME NEW i \in 1..(Len(s) + 1) PROVE l[i] = r[i]
      OBVIOUS
    <3>1. l[i] = IF i \in S THEN <<Append(s, x)[i]>> ELSE <<>>
      BY <1>2
    <3>2. CASE i = Len(s) + 1
      BY <3>1, <3>2, <2>1, <1>1
    <3>3. CASE i # Len(s) + 1
      <4>1. i \in 1..Len(s) /\ Append(s, x)[i] = s[i] /\ r[i] = Parts(s)[i]
        BY <3>3, <2>1, <1>1, <1>2
      <4>2. Parts(s)[i] = IF i \in S THEN <<s[i]>> ELSE <<>>
        BY <4>1, <1>2
      <4> QED BY <4>1, <4>2, <3>1
    <3> QED BY <3>2, <3>3
  <2> HIDE DEF l, r
  <2>4. l = r
    BY <2>1, <2>2, <2>3, SeqEqual
  <2> QED BY <2>4 DEF l, r
<1>5. Keep(Append(s, x), S) = Keep(s, S) \o part
  <2> HIDE DEF part
  <2>1. Keep(Append(s, x), S) = FlattenSeq(Append(Parts(s), part))
    BY <1>4 DEF Keep
  <2> DEFINE q == Parts(s)
  <2>2. FlattenSeq(Append(q, part)) = FlattenSeq(q) \o part
    <3>1. q \in Seq(Seq(T)) /\ part \in Seq(T)
      BY <1>3
    <3> HIDE DEF q
    <3> QED BY <3>1, FlattenAppend
  <2> QED BY <2>1, <2>2 DEF Keep
<1>6. Keep(s, S) \in Seq(T)
  BY <1>3, FlattenType DEF Keep
<1> QED BY <1>5, <1>6, AppendIsConcat, ConcatEmptySeq

LEMMA KeepType ==
  ASSUME NEW T, NEW s \in Seq(T), NEW S
  PROVE  Keep(s, S) \in Seq(T)
<1>1. [i \in DOMAIN s |-> IF i \in S THEN <<s[i]>> ELSE <<>>] \in Seq(Seq(T))
  <2>1. DOMAIN s = 1..Len(s) /\ Len(s) \in Nat /\ \A i \in 1..Len(s) : s[i] \in T
    BY LenProperties
  <2> QED BY <2>1
<1> QED BY <1>1, FlattenType DEF Keep

\* f lists, in their order, the positions of s that are in S.
Lists(f, s, S) ==
  LET kept == Keep(s, S)
  IN  /\ f \in [1..Len(kept) -> S \cap DOMAIN s]
      /\ \A k \in 1..Len(kept) : kept[k] = s[f[k]]
      /\ \A j, k \in 1..Len(kept) : j < k => f[j] < f[k]
      /\ \A i \in S \cap DOMAIN s : \E k \in 1..Len(kept) : f[k] = i

LEMMA KeepLists ==
  ASSUME NEW T, NEW s \in Seq(T), NEW S
  PROVE  \E f : Lists(f, s, S)
<1> DEFINE N == {u \in Seq(T) : \E f : Lists(f, u, S)}
<1>1. <<>> \in N
  <2>1. <<>> \in Seq(T) /\ Len(Keep(<<>>, S)) = 0 /\ DOMAIN <<>> = {}
    BY EmptySeq, KeepEmpty
  <2>2. Lists([k \in 1..0 |-> 0], <<>>, S)
    BY <2>1 DEF Lists
  <2> QED BY <2>1, <2>2
<1>2. ASSUME NEW u \in Seq(T), u \in N, NEW x \in T PROVE Append(u, x) \in N
  <2> DEFINE v == Append(u, x)
             n == Len(u) + 1
             ku == Keep(u, S)
             kv == Keep(v, S)
  <2>1. /\ v \in Seq(T) /\ v[n] = x /\ \A i \in 1..Len(u) : v[i] = u[i]
        /\ DOMAIN v = 1..n /\ DOMAIN u = 1..Len(u) /\ Len(u) \in Nat
    BY AppendProperties, LenProperties
  <2>2. PICK f : Lists(f, u, S)
    BY <1>2
  <2>3. ku \in Seq(T) /\ Len(ku) \in Nat
    BY KeepType, LenProperties
  <2>4. kv = IF n \in S THEN Append(ku, x) ELSE ku
    BY KeepAppend
  <2>5. CASE n \notin S
    <3>1. Lists(f, v, S)
      <4>1. S \cap DOMAIN v = S \cap DOMAIN u
        BY <2>1, <2>5
      <4>2. \A i \in S \cap DOMAIN u : v[i] = u[i]
        BY <2>1
      <4>3. kv = ku
        BY <2>4, <2>5
      <4> HIDE DEF v, n
      <4> QED BY <4>1, <4>2, <4>3, <2>2 DEF Lists
    <3> QED BY <3>1, <2>1
  <2>6. CASE n \in S
    <3> DEFINE m == Len(ku) + 1
               g == [k \in 1..m |-> IF k = m THEN n ELSE f[k]]
    <3>1. kv = Append(ku, x) /\ Len(kv) = m /\ kv[m] = x /\ \A k \in 1..Len(ku) : kv[k] = ku[k]
      BY <2>3, <2>4, <2>6, AppendProperties
    <3>2. S \cap DOMAIN v = (S \cap DOMAIN u) \cup {n}
      BY <2>1, <2>6
    <3>3. /\ \A k \in 1..Len(ku) : f[k] \in S \cap DOMAIN u /\ ku[k] = u[f[k]]
          /\ \A j, k \in 1..Len(ku) : j < k => f[j] < f[k]
          /\ \A i \in S \cap DOMAIN u : \E k \in 1..Len(ku) : f[k] = i
      BY <2>2 DEF Lists
    <3>4. g[m] = n /\ \A k \in 1..Len(ku) : g[k] = f[k]
      BY <2>3
    <3>5. \A k \in 1..m : k = m \/ k \in 1..Len(ku)
      BY <2>3
    <3>6. \A k \in 1..m : g[k] \in S \cap DOMAIN v /\ kv[k] = v[g[k]]
      <4> SUFFICES ASSUME NEW k \in 1..m PROVE g[k] \in S \cap DOMAIN v /\ kv[k] = v[g[k]]
        OBVIOUS
      <4>1. CASE k = m
        BY <4>1, <3>4, <3>1, <3>2, <2>1
      <4>2. CASE k # m
        <5>1. k \in 1..Len(ku) /\ g[k] = f[k] /\ f[k] \in S \cap DOMAIN u /\ ku[k] = u[f[k]]
          BY <4>2, <3>5, <3>4, <3>3
        <5>2. v[f[k]] = u[f[k]] /\ kv[k] = ku[k]
          BY <5>1, <2>1, <3>1
        <5> HIDE DEF g, v, kv, ku, m
        <5> QED BY <5>1, <5>2, <3>2
      <4> QED BY <4>1, <4>2
    <3>7. \A j, k \in 1..m : j < k => g[j] < g[k]
      <4> SUFFICES ASSUME NEW j \in 1..m, NEW k \in 1..m, j < k PROVE g[j] < g[k]
        OBVIOUS
      <4>1. j \in 1..Len(ku) /\ g[j] = f[j] /\ f[j] \in 1..Len(u)
        BY <2>1, <2>3, <3>3, <3>4
      <4>2. CASE k = m
        BY <4>1, <4>2, <3>4, <2>1
      <4>3. CASE k # m
        <5>1. k \in 1..Len(ku) /\ g[k] = f[k]
          BY <4>3, <3>5, <3>4
        <5> QED BY <5>1, <4>1, <3>3
      <4> QED BY <4>2, <4>3
    <3>8. \A i \in S \cap DOMAIN v : \E k \in 1..m : g[k] = i
      <4> SUFFICES ASSUME NEW i \in S \cap DOMAIN v PROVE \E k \in 1..m : g[k] = i
        OBVIOUS
      <4>1. CASE i = n
        <5>1. m \in 1..m
          BY <2>3
        <5> QED BY <4>1, <5>1, <3>4
      <4>2. CASE i # n
        <5>1. PICK k \in 1..Len(ku) : f[k] = i
          BY <4>2, <3>2, <3>3
        <5>2. k \in 1..m /\ g[k] = i
          BY <5>1, <3>4, <2>3
        <5> QED BY <5>2
      <4> QED BY <4>1, <4>2
    <3>9. Lists(g, v, S)
      <4>1. g \in [1..m -> S \cap DOMAIN v]
        BY <3>6
      <4> HIDE DEF g, v, m
      <4> QED BY <4>1, <3>1, <3>6, <3>7, <3>8 DEF Lists
    <3> QED BY <3>9, <2>1
  <2> QED BY <2>5, <2>6
<1>3. Seq(T) \subseteq N
  <2> HIDE DEF N
  <2> QED BY <1>1, <1>2, SeqSetInduction
<1> QED BY <1>3

LEMMA KeepSet ==
  ASSUME NEW T, NEW s \in Seq(T), NEW S
  PROVE  ToSet(Keep(s, S)) = {s[i] : i \in S \cap DOMAIN s}
<1> DEFINE kept == Keep(s, S)
<1>1. PICK f : Lists(f, s, S)
  BY KeepLists
<1>2. DOMAIN kept = 1..Len(kept)
  BY KeepType, LenProperties
<1>3. ASSUME NEW k \in 1..Len(kept) PROVE kept[k] \in {s[i] : i \in S \cap DOMAIN s}
  BY <1>1 DEF Lists
<1>4. ASSUME NEW i \in S \cap DOMAIN s PROVE \E k \in 1..Len(kept) : s[i] = kept[k]
  BY <1>1 DEF Lists
<1> HIDE DEF kept
<1>5. ToSet(kept) = {s[i] : i \in S \cap DOMAIN s}
  BY <1>2, <1>3, <1>4 DEF ToSet
<1> QED BY <1>5 DEF kept

LEMMA KeepNothing ==
  ASSUME NEW T, NEW s \in Seq(T), NEW S
  PROVE  Keep(s, S) = <<>> <=> S \cap DOMAIN s = {}
<1> DEFINE kept == Keep(s, S)
<1>1. PICK f : Lists(f, s, S)
  BY KeepLists
<1>2. kept \in Seq(T)
  BY KeepType
<1>3. kept = <<>> <=> Len(kept) = 0
  BY <1>2, EmptySeq
<1>4. Len(kept) \in Nat
  BY <1>2, LenProperties
<1>5. Len(kept) # 0 => 1 \in 1..Len(kept) /\ f[1] \in S \cap DOMAIN s
  BY <1>1, <1>4 DEF Lists
<1>6. \A i \in S \cap DOMAIN s : Len(kept) # 0
  BY <1>1, <1>4 DEF Lists
<1> HIDE DEF kept
<1>7. kept = <<>> <=> S \cap DOMAIN s = {}
  BY <1>3, <1>5, <1>6
<1> QED BY <1>7 DEF kept

\* A set of numbers that is not empty has a least element.
LEMMA LeastNumber ==
  ASSUME NEW S, NEW n \in Nat, n \in S
  PROVE  \E m \in Nat : m \in S /\ \A k \in 0..(m - 1) : k \notin S
<1> SUFFICES ASSUME \A m \in Nat : m \in S => \E k \in 0..(m - 1) : k \in S
             PROVE  FALSE
  OBVIOUS
<1> DEFINE N == {m \in Nat : \A k \in 0..m : k \notin S}
<1>1. 0 \in N
  OBVIOUS
<1>2. ASSUME NEW m \in Nat, m \in N PROVE m + 1 \in N
  <2>1. m + 1 \notin S
    BY <1>2
  <2> QED BY <1>2, <2>1
<1>3. Nat \subseteq N
  <2> HIDE DEF N
  <2> QED BY <1>1, <1>2, NatSetInduction
<1>4. n \in N /\ n \in 0..n
  BY <1>3
<1> QED BY <1>4

\* Of a list without its repetitions, no element is lost, ...
LEMMA FirstOnesSet ==
  ASSUME NEW T, NEW s \in Seq(T)
  PROVE  ToSet(Keep(s, FirstOnes(s))) = ToSet(s)
<1>1. DOMAIN s = 1..Len(s) /\ Len(s) \in Nat
  BY LenProperties
<1>2. ASSUME NEW i \in 1..Len(s) PROVE \E m \in FirstOnes(s) : s[m] = s[i]
  <2> DEFINE S == {k \in 1..Len(s) : s[k] = s[i]}
  <2>1. PICK m \in Nat : m \in S /\ \A k \in 0..(m - 1) : k \notin S
    <3>1. i \in Nat /\ i \in S
      BY <1>1
    <3> HIDE DEF S
    <3> QED BY <3>1, LeastNumber
  <2>2. m \in FirstOnes(s)
    <3>1. m \in DOMAIN s
      BY <2>1, <1>1
    <3>2. \A j \in 1..(m - 1) : s[j] # s[m]
      BY <2>1, <1>1
    <3> QED BY <3>1, <3>2 DEF FirstOnes
  <2> QED BY <2>1, <2>2
<1>3. FirstOnes(s) \subseteq DOMAIN s
  BY DEF FirstOnes
<1>4. ToSet(Keep(s, FirstOnes(s))) = {s[m] : m \in FirstOnes(s) \cap DOMAIN s}
  BY KeepSet
<1>5. ToSet(s) = {s[i] : i \in 1..Len(s)}
  BY <1>1 DEF ToSet
<1> QED BY <1>1, <1>2, <1>3, <1>4, <1>5

\* ... and none is there twice.
LEMMA FirstOnesOnce ==
  ASSUME NEW T, NEW s \in Seq(T),
         NEW j \in 1..Len(Keep(s, FirstOnes(s))), NEW k \in 1..Len(Keep(s, FirstOnes(s))),
         Keep(s, FirstOnes(s))[j] = Keep(s, FirstOnes(s))[k]
  PROVE  j = k
<1> DEFINE kept == Keep(s, FirstOnes(s))
<1>1. PICK f : Lists(f, s, FirstOnes(s))
  BY KeepLists
<1>2. Len(kept) \in Nat /\ DOMAIN s = 1..Len(s)
  BY KeepType, LenProperties
<1>3. \A a, b \in 1..Len(kept) : a < b => kept[a] # kept[b]
  <2> SUFFICES ASSUME NEW a \in 1..Len(kept), NEW b \in 1..Len(kept), a < b
               PROVE  kept[a] # kept[b]
    OBVIOUS
  <2>1. /\ f[a] \in DOMAIN s /\ f[b] \in FirstOnes(s) /\ f[b] \in DOMAIN s
        /\ f[a] < f[b] /\ kept[a] = s[f[a]] /\ kept[b] = s[f[b]]
    BY <1>1 DEF Lists
  <2>2. f[a] \in 1..(f[b] - 1)
    BY <2>1, <1>2, LenProperties
  <2> QED BY <2>1, <2>2 DEF FirstOnes
<1> HIDE DEF kept
<1>4. j \in 1..Len(kept) /\ k \in 1..Len(kept) /\ kept[j] = kept[k]
  BY DEF kept
<1> QED BY <1>2, <1>3, <1>4

LEMMA KeepAll ==
  ASSUME NEW T, NEW s \in Seq(T), NEW S, DOMAIN s \subseteq S
  PROVE  Keep(s, S) = s
<1> DEFINE N == {u \in Seq(T) : DOMAIN u \subseteq S => Keep(u, S) = u}
<1>1. <<>> \in N
  BY KeepEmpty, EmptySeq
<1>2. ASSUME NEW u \in Seq(T), u \in N, NEW x \in T PROVE Append(u, x) \in N
  <2> SUFFICES ASSUME DOMAIN Append(u, x) \subseteq S
               PROVE  Keep(Append(u, x), S) = Append(u, x)
    BY AppendProperties
  <2>1. DOMAIN Append(u, x) = 1..(Len(u) + 1) /\ DOMAIN u = 1..Len(u) /\ Len(u) \in Nat
    BY AppendProperties, LenProperties
  <2>2. DOMAIN u \subseteq S /\ Len(u) + 1 \in S
    BY <2>1
  <2> QED BY <1>2, <2>2, KeepAppend
<1>3. Seq(T) \subseteq N
  <2> HIDE DEF N
  <2> QED BY <1>1, <1>2, SeqSetInduction
<1> QED BY <1>3

\* Keep looks at the positions of its list only.
LEMMA KeepSame ==
  ASSUME NEW s, NEW S, NEW R, \A i \in DOMAIN s : i \in S <=> i \in R
  PROVE  Keep(s, S) = Keep(s, R)
<1>1. [i \in DOMAIN s |-> IF i \in S THEN <<s[i]>> ELSE <<>>] =
        [i \in DOMAIN s |-> IF i \in R THEN <<s[i]>> ELSE <<>>]
  OBVIOUS
<1> QED BY <1>1 DEF Keep

LEMMA KeepConcat ==
  ASSUME NEW T, NEW s \in Seq(T), NEW t \in Seq(T), NEW S, NEW Q,
         \A j \in 1..Len(t) : j \in Q <=> Len(s) + j \in S
  PROVE  Keep(s \o t, S) = Keep(s, S) \o Keep(t, Q)
<1> DEFINE R == {j \in Nat : Len(s) + j \in S}
           N == {u \in Seq(T) : Keep(s \o u, S) = Keep(s, S) \o Keep(u, R)}
<1>1. <<>> \in N
  <2>1. <<>> \in Seq(T) /\ s \o <<>> = s
    BY EmptySeq, ConcatEmptySeq
  <2>2. Keep(s, S) \o <<>> = Keep(s, S)
    BY KeepType, ConcatEmptySeq
  <2> QED BY <2>1, <2>2, KeepEmpty
<1>2. ASSUME NEW u \in Seq(T), u \in N, NEW x \in T PROVE Append(u, x) \in N
  <2>1. Append(u, x) \in Seq(T)
    BY AppendProperties
  <2>2. s \o u \in Seq(T) /\ Len(s \o u) = Len(s) + Len(u) /\ Len(s) \in Nat /\ Len(u) \in Nat
    BY ConcatProperties, LenProperties
  <2>3. s \o Append(u, x) = Append(s \o u, x)
    BY ConcatAppend
  <2>4. Len(s \o u) + 1 \in S <=> Len(u) + 1 \in R
    BY <2>2
  <2>5. Keep(s \o u, S) = Keep(s, S) \o Keep(u, R)
    BY <1>2
  <2>6. Keep(s, S) \in Seq(T) /\ Keep(u, R) \in Seq(T)
    BY KeepType
  <2>7. Keep(Append(s \o u, x), S) =
          IF Len(s \o u) + 1 \in S THEN Append(Keep(s \o u, S), x) ELSE Keep(s \o u, S)
    <3> DEFINE v == s \o u
    <3>1. v \in Seq(T)
      BY <2>2
    <3> HIDE DEF v
    <3>2. Keep(Append(v, x), S) = IF Len(v) + 1 \in S THEN Append(Keep(v, S), x) ELSE Keep(v, S)
      BY <3>1, KeepAppend
    <3> QED BY <3>2 DEF v
  <2>8. Keep(Append(u, x), R) = IF Len(u) + 1 \in R THEN Append(Keep(u, R), x) ELSE Keep(u, R)
    BY KeepAppend, SMTT(30)
  <2>9. Keep(s, S) \o Append(Keep(u, R), x) = Append(Keep(s, S) \o Keep(u, R), x)
    BY <2>6, ConcatAppend
  <2>10. Keep(s \o Append(u, x), S) = Keep(s, S) \o Keep(Append(u, x), R)
    <3> HIDE DEF R
    <3> QED BY <2>3, <2>4, <2>5, <2>7, <2>8, <2>9
  <2> QED BY <2>1, <2>10
<1>3. Seq(T) \subseteq N
  <2> HIDE DEF N
  <2> QED BY <1>1, <1>2, SeqSetInduction
<1>4. Keep(t, R) = Keep(t, Q)
  <2>1. DOMAIN t = 1..Len(t)
    BY LenProperties
  <2>2. \A i \in DOMAIN t : i \in R <=> i \in Q
    BY <2>1
  <2> HIDE DEF R
  <2> QED BY <2>2, KeepSame
<1> HIDE DEF R
<1> QED BY <1>3, <1>4

-----------------------------------------------------------------------------
(* Lists flattened from lists of one length.                               *)

LEMMA FlattenTwos ==
  ASSUME NEW T, NEW s \in Seq(Seq(T)), \A i \in 1..Len(s) : Len(s[i]) = 2
  PROVE  /\ Len(FlattenSeq(s)) = 2 * Len(s)
         /\ \A i \in 1..Len(s) : /\ FlattenSeq(s)[2 * i - 1] = s[i][1]
                                /\ FlattenSeq(s)[2 * i] = s[i][2]
<1> DEFINE Twos(u) == \A i \in 1..Len(u) : Len(u[i]) = 2
           Spread(u) == /\ Len(FlattenSeq(u)) = 2 * Len(u)
                        /\ \A i \in 1..Len(u) : /\ FlattenSeq(u)[2 * i - 1] = u[i][1]
                                               /\ FlattenSeq(u)[2 * i] = u[i][2]
           N == {u \in Seq(Seq(T)) : Twos(u) => Spread(u)}
<1>1. <<>> \in N
  <2>1. <<>> \in Seq(Seq(T)) /\ Len(<<>>) = 0
    BY EmptySeq
  <2> QED BY <2>1, FlattenEmpty
<1>2. ASSUME NEW u \in Seq(Seq(T)), u \in N, NEW x \in Seq(T) PROVE Append(u, x) \in N
  <2> DEFINE v == Append(u, x)
  <2>1. /\ v \in Seq(Seq(T)) /\ Len(v) = Len(u) + 1 /\ v[Len(u) + 1] = x
        /\ \A i \in 1..Len(u) : v[i] = u[i]
        /\ Len(u) \in Nat
    BY AppendProperties, LenProperties
  <2>2. FlattenSeq(v) = FlattenSeq(u) \o x
    BY FlattenAppend
  <2> HIDE DEF v
  <2>3. ASSUME Twos(v) PROVE Spread(v)
    <3>1. Twos(u) /\ Len(x) = 2
      <4>1. \A i \in 1..Len(u) : i \in 1..Len(v)
        BY <2>1
      <4>2. Len(u) + 1 \in 1..Len(v)
        BY <2>1
      <4> QED BY <2>1, <2>3, <4>1, <4>2
    <3>2. Spread(u)
      BY <1>2, <3>1
    <3>3. FlattenSeq(u) \in Seq(T)
      BY FlattenType
    <3> DEFINE f == FlattenSeq(u)
               g == FlattenSeq(v)
    <3>4. /\ Len(g) = Len(f) + Len(x)
          /\ \A i \in 1..Len(f) + Len(x) : g[i] = IF i <= Len(f) THEN f[i] ELSE x[i - Len(f)]
      BY <2>2, <3>3, ConcatProperties
    <3>5. Len(f) = 2 * Len(u)
      BY <3>2
    <3>6. ASSUME NEW i \in 1..Len(u) PROVE g[2 * i - 1] = f[2 * i - 1] /\ g[2 * i] = f[2 * i]
      <4> HIDE DEF f, g
      <4>1. 2 * i - 1 \in 1..Len(f) /\ 2 * i \in 1..Len(f)
        BY <3>5, <2>1
      <4>2. /\ 2 * i - 1 \in 1..Len(f) + Len(x) /\ 2 * i \in 1..Len(f) + Len(x)
            /\ 2 * i - 1 <= Len(f) /\ 2 * i <= Len(f)
        BY <3>1, <3>5, <4>1, <2>1
      <4> QED BY <3>4, <4>2
    <3>7. g[2 * Len(u) + 1] = x[1] /\ g[2 * Len(u) + 2] = x[2]
      <4>1. Len(f) = 2 * Len(u) /\ Len(x) = 2 /\ Len(u) \in Nat
        BY <3>1, <3>5, <2>1
      <4> HIDE DEF f, g
      <4>2. 2 * Len(u) + 1 \in 1..Len(f) + Len(x) /\ 2 * Len(u) + 2 \in 1..Len(f) + Len(x)
            /\ ~(2 * Len(u) + 1 <= Len(f)) /\ ~(2 * Len(u) + 2 <= Len(f))
        BY <4>1
      <4>3. g[2 * Len(u) + 1] = x[2 * Len(u) + 1 - Len(f)]
        BY <3>4, <4>2
      <4>4. g[2 * Len(u) + 2] = x[2 * Len(u) + 2 - Len(f)]
        BY <3>4, <4>2
      <4>5. 2 * Len(u) + 1 - Len(f) = 1 /\ 2 * Len(u) + 2 - Len(f) = 2
        BY <4>1
      <4> QED BY <4>3, <4>4, <4>5
    <3>8. 2 * Len(v) - 1 = 2 * Len(u) + 1 /\ 2 * Len(v) = 2 * Len(u) + 2
      BY <2>1
    <3>9. ASSUME NEW i \in 1..Len(v) PROVE g[2 * i - 1] = v[i][1] /\ g[2 * i] = v[i][2]
      <4>1. CASE i \in 1..Len(u)
        BY <4>1, <3>2, <3>6, <2>1
      <4>2. CASE i = Len(v)
        <5> HIDE DEF g
        <5> QED BY <4>2, <3>7, <3>8, <2>1
      <4> QED BY <4>1, <4>2, <2>1
    <3>10. Len(g) = 2 * Len(v)
      BY <3>1, <3>4, <3>5, <3>8, <2>1
    <3> QED BY <3>9, <3>10
  <2>4. v \in N
    <3> HIDE DEF Twos, Spread
    <3> QED BY <2>1, <2>3
  <2> QED BY <2>4 DEF v
<1>3. Seq(Seq(T)) \subseteq N
  <2> HIDE DEF N
  <2> QED BY <1>1, <1>2, SeqSetInduction
<1> QED BY <1>3

-----------------------------------------------------------------------------
(* Cutting a list into pieces of a length w, the last one maybe shorter.   *)

\* The k-th piece, and the position where it ends.
PieceEnd(s, w, k) == IF k * w < Len(s) THEN k * w ELSE Len(s)
Piece(s, w, k) == SubSeq(s, (k - 1) * w + 1, PieceEnd(s, w, k))
PieceCount(s, w) == (Len(s) + w - 1) \div w

LEMMA PieceBounds ==
  ASSUME NEW T, NEW s \in Seq(T), NEW w \in Nat \ {0}, NEW k \in 1..PieceCount(s, w)
  PROVE  /\ (k - 1) * w \in Nat /\ (k - 1) * w < Len(s)
         /\ PieceEnd(s, w, k - 1) = (k - 1) * w
         /\ PieceEnd(s, w, k) \in ((k - 1) * w + 1)..Len(s)
         /\ PieceEnd(s, w, k) - (k - 1) * w \in 1..w
<1> DEFINE n == Len(s)
           c == (n + w - 1) \div w
<1>1. n \in Nat /\ n + w - 1 \in Nat
  BY LenProperties
<1>2. c \in Nat /\ c * w <= n + w - 1
  BY <1>1
<1>3. k \in 1..c
  BY DEF PieceCount
<1> HIDE DEF c, n
<1>4. k * w <= c * w
  BY <1>2, <1>3
<1>5. (k - 1) * w = k * w - w /\ k * w \in Nat /\ (k - 1) * w \in Nat
  BY <1>2, <1>3
<1>6. (k - 1) * w < n
  BY <1>1, <1>2, <1>4, <1>5
<1>7. PieceEnd(s, w, k - 1) = (k - 1) * w
  BY <1>6 DEF PieceEnd, n
<1>8. PieceEnd(s, w, k) = IF k * w < n THEN k * w ELSE n
  BY DEF PieceEnd, n
<1>9. /\ PieceEnd(s, w, k) \in ((k - 1) * w + 1)..n
      /\ PieceEnd(s, w, k) - (k - 1) * w \in 1..w
  BY <1>1, <1>5, <1>6, <1>8
<1> QED BY <1>5, <1>6, <1>7, <1>9 DEF n

LEMMA PieceType ==
  ASSUME NEW T, NEW s \in Seq(T), NEW w \in Nat \ {0}, NEW k \in 1..PieceCount(s, w)
  PROVE  Piece(s, w, k) \in Seq(T) /\ Len(Piece(s, w, k)) \in 1..w
<1>1. /\ (k - 1) * w \in Nat
      /\ PieceEnd(s, w, k) \in ((k - 1) * w + 1)..Len(s)
      /\ PieceEnd(s, w, k) - (k - 1) * w \in 1..w
  BY PieceBounds
<1>2. Len(s) \in Nat
  BY LenProperties
<1>3. \A i \in ((k - 1) * w + 1)..PieceEnd(s, w, k) : s[i] \in T
  BY <1>1, <1>2, LenProperties
<1>4. (k - 1) * w + 1 \in Int /\ PieceEnd(s, w, k) \in Int
  BY <1>1, <1>2
<1>5. /\ Piece(s, w, k) \in Seq(T)
      /\ Len(Piece(s, w, k)) = PieceEnd(s, w, k) - ((k - 1) * w + 1) + 1
  BY <1>1, <1>3, <1>4, SubSeqProperties DEF Piece
<1> QED BY <1>1, <1>4, <1>5

\* The pieces of a list are the list.
LEMMA PiecesAreWhole ==
  ASSUME NEW T, NEW s \in Seq(T), NEW w \in Nat \ {0}
  PROVE  FlattenSeq([k \in 1..PieceCount(s, w) |-> Piece(s, w, k)]) = s
<1> DEFINE c == PieceCount(s, w)
           First(n) == [k \in 1..n |-> Piece(s, w, k)]
           N == {n \in Nat : n <= c => FlattenSeq(First(n)) = SubSeq(s, 1, PieceEnd(s, w, n))}
<1>1. Len(s) \in Nat
  BY LenProperties
<1>2. c \in Nat /\ c * w <= Len(s) + w - 1 /\ Len(s) + w - 1 < c * w + w
  <2>1. Len(s) + w - 1 \in Nat
    BY <1>1
  <2> QED BY <2>1 DEF PieceCount
<1>3. 0 \in N
  <2>1. First(0) = <<>>
    OBVIOUS
  <2>2. PieceEnd(s, w, 0) = 0
    BY <1>1 DEF PieceEnd
  <2>3. SubSeq(s, 1, 0) = <<>>
    BY SubSeqEmpty
  <2> QED BY <2>1, <2>2, <2>3, FlattenEmpty
<1>4. ASSUME NEW n \in Nat, n \in N PROVE n + 1 \in N
  <2> SUFFICES ASSUME n + 1 <= c
               PROVE  FlattenSeq(First(n + 1)) = SubSeq(s, 1, PieceEnd(s, w, n + 1))
    OBVIOUS
  <2>1. FlattenSeq(First(n)) = SubSeq(s, 1, PieceEnd(s, w, n))
    BY <1>4, <1>2
  <2>2. n + 1 \in 1..c /\ (n + 1) - 1 = n
    BY <1>2
  <2> HIDE DEF c
  <2>3. /\ n * w \in Nat /\ PieceEnd(s, w, n) = n * w
        /\ PieceEnd(s, w, n + 1) \in (n * w + 1)..Len(s)
    <3>1. n + 1 \in 1..PieceCount(s, w)
      BY <2>2 DEF c
    <3>2. /\ ((n + 1) - 1) * w \in Nat /\ PieceEnd(s, w, (n + 1) - 1) = ((n + 1) - 1) * w
          /\ PieceEnd(s, w, n + 1) \in (((n + 1) - 1) * w + 1)..Len(s)
      BY <3>1, PieceBounds
    <3> QED BY <2>2, <3>2
  <2>4. \A k \in 1..(n + 1) : Piece(s, w, k) \in Seq(T)
    <3>1. \A k \in 1..(n + 1) : k \in 1..PieceCount(s, w)
      BY <2>2, <1>2 DEF c
    <3> QED BY <3>1, PieceType
  <2>5. First(n) \in Seq(Seq(T)) /\ First(n + 1) \in Seq(Seq(T))
        /\ Len(First(n)) = n /\ Len(First(n + 1)) = n + 1
    BY <2>4
  <2>6. First(n + 1) = Append(First(n), Piece(s, w, n + 1))
    <3> DEFINE p == Piece(s, w, n + 1)
               f == First(n)
    <3>1. p \in Seq(T)
      BY <2>4
    <3>2. /\ Append(f, p) \in Seq(Seq(T)) /\ Len(Append(f, p)) = n + 1
          /\ \A i \in 1..n : Append(f, p)[i] = f[i]
          /\ Append(f, p)[n + 1] = p
      <4>1. f \in Seq(Seq(T)) /\ Len(f) = n
        BY <2>5
      <4> HIDE DEF f, p
      <4> QED BY <3>1, <4>1, AppendProperties
    <3>3. \A i \in 1..(n + 1) : First(n + 1)[i] = Append(f, p)[i]
      <4>1. \A i \in 1..n : f[i] = First(n + 1)[i]
        OBVIOUS
      <4>2. First(n + 1)[n + 1] = p
        OBVIOUS
      <4> HIDE DEF f, p, First
      <4> QED BY <3>2, <4>1, <4>2
    <3> HIDE DEF f, p, First
    <3>4. First(n + 1) = Append(f, p)
      BY <2>5, <3>2, <3>3, SeqEqual
    <3> QED BY <3>4 DEF f, p
  <2>7. FlattenSeq(First(n + 1)) = FlattenSeq(First(n)) \o Piece(s, w, n + 1)
    <3>1. Piece(s, w, n + 1) \in Seq(T)
      BY <2>4
    <3> HIDE DEF First
    <3> QED BY <3>1, <2>5, <2>6, FlattenAppend
  <2>8. Piece(s, w, n + 1) = SubSeq(s, n * w + 1, PieceEnd(s, w, n + 1))
    BY <2>2 DEF Piece
  <2>9. SubSeq(s, 1, n * w) \o SubSeq(s, n * w + 1, PieceEnd(s, w, n + 1)) =
          SubSeq(s, 1, PieceEnd(s, w, n + 1))
    <3>1. /\ 1 \in 1..(Len(s) + 1) /\ n * w \in (1 - 1)..Len(s)
          /\ PieceEnd(s, w, n + 1) \in (n * w)..Len(s)
      BY <1>1, <2>3
    <3> QED BY <3>1, ConcatAdjacentSubSeq
  <2> QED BY <2>1, <2>3, <2>7, <2>8, <2>9
<1>5. Nat \subseteq N
  <2> HIDE DEF N
  <2> QED BY <1>3, <1>4, NatSetInduction
<1>6. FlattenSeq(First(c)) = SubSeq(s, 1, PieceEnd(s, w, c))
  <2>1. c \in N /\ c <= c
    BY <1>2, <1>5
  <2> HIDE DEF c, First
  <2> QED BY <2>1
<1>7. PieceEnd(s, w, c) = Len(s)
  <2> HIDE DEF c
  <2>1. c * w \in Nat /\ c * w >= Len(s)
    BY <1>1, <1>2
  <2> QED BY <1>1, <2>1 DEF PieceEnd
<1> QED BY <1>6, <1>7, SubSeqFull

-----------------------------------------------------------------------------
(* Keeping the elements in a set.                                          *)

Where(s, P) == {i \in DOMAIN s : s[i] \in P}

LEMMA KeepWhereAppend ==
  ASSUME NEW T, NEW s \in Seq(T), NEW x \in T, NEW P
  PROVE  Keep(Append(s, x), Where(Append(s, x), P)) =
           IF x \in P THEN Append(Keep(s, Where(s, P)), x) ELSE Keep(s, Where(s, P))
<1> DEFINE v == Append(s, x)
           V == Where(v, P)
<1>1. /\ v \in Seq(T) /\ Len(v) = Len(s) + 1 /\ v[Len(s) + 1] = x
      /\ \A i \in 1..Len(s) : v[i] = s[i]
  BY AppendProperties
<1>2. DOMAIN v = 1..(Len(s) + 1) /\ DOMAIN s = 1..Len(s) /\ Len(s) \in Nat
  BY <1>1, LenProperties
<1>3. Len(s) + 1 \in V <=> x \in P
  BY <1>1, <1>2 DEF Where
<1>4. \A i \in DOMAIN s : i \in V <=> i \in Where(s, P)
  BY <1>1, <1>2 DEF Where
<1> HIDE DEF V
<1>5. Keep(s, V) = Keep(s, Where(s, P))
  BY <1>4, KeepSame
<1>6. Keep(v, V) = IF Len(s) + 1 \in V THEN Append(Keep(s, V), x) ELSE Keep(s, V)
  BY KeepAppend
<1> QED BY <1>3, <1>5, <1>6 DEF V

LEMMA KeepWhereConcat ==
  ASSUME NEW T, NEW s \in Seq(T), NEW t \in Seq(T), NEW P
  PROVE  Keep(s \o t, Where(s \o t, P)) = Keep(s, Where(s, P)) \o Keep(t, Where(t, P))
<1> DEFINE S == Where(s \o t, P)
           Q == Where(t, P)
<1>1. /\ s \o t \in Seq(T) /\ Len(s \o t) = Len(s) + Len(t)
      /\ \A i \in 1..Len(s) + Len(t) :
           (s \o t)[i] = IF i <= Len(s) THEN s[i] ELSE t[i - Len(s)]
  BY ConcatProperties
<1>2. /\ Len(s) \in Nat /\ Len(t) \in Nat /\ DOMAIN s = 1..Len(s) /\ DOMAIN t = 1..Len(t)
      /\ DOMAIN (s \o t) = 1..(Len(s) + Len(t))
  BY <1>1, LenProperties
<1>3. ASSUME NEW j \in 1..Len(t) PROVE j \in Q <=> Len(s) + j \in S
  <2>1. /\ Len(s) + j \in 1..Len(s) + Len(t) /\ ~(Len(s) + j <= Len(s))
        /\ (Len(s) + j) - Len(s) = j
    BY <1>2
  <2>2. (s \o t)[Len(s) + j] = t[j]
    BY <1>1, <2>1
  <2> QED BY <1>2, <2>1, <2>2 DEF Where
<1>4. ASSUME NEW i \in DOMAIN s PROVE i \in S <=> i \in Where(s, P)
  <2>1. i \in 1..Len(s) + Len(t) /\ i <= Len(s)
    BY <1>2
  <2>2. (s \o t)[i] = s[i]
    BY <1>1, <2>1
  <2> QED BY <1>2, <2>1, <2>2 DEF Where
<1> HIDE DEF S, Q
<1>5. Keep(s \o t, S) = Keep(s, S) \o Keep(t, Q)
  BY <1>3, KeepConcat
<1>6. Keep(s, S) = Keep(s, Where(s, P))
  BY <1>4, KeepSame
<1> QED BY <1>5, <1>6 DEF S, Q

-----------------------------------------------------------------------------
(* A function of each element.                                             *)

Image(F, s) == [k \in DOMAIN s |-> F[s[k]]]

LEMMA ImageType ==
  ASSUME NEW T, NEW U, NEW F, \A e \in T : F[e] \in U, NEW s \in Seq(T)
  PROVE  Image(F, s) \in Seq(U)
<1>1. DOMAIN s = 1..Len(s) /\ Len(s) \in Nat /\ \A k \in 1..Len(s) : s[k] \in T
  BY LenProperties
<1> QED BY <1>1 DEF Image

LEMMA ImageElements ==
  ASSUME NEW T, NEW F, NEW s \in Seq(T)
  PROVE  /\ Len(Image(F, s)) = Len(s)
         /\ \A k \in 1..Len(s) : Image(F, s)[k] = F[s[k]]
<1>1. DOMAIN s = 1..Len(s) /\ Len(s) \in Nat /\ \A k \in 1..Len(s) : s[k] \in T
  BY LenProperties
<1> QED BY <1>1 DEF Image

LEMMA ImageConcat ==
  ASSUME NEW T, NEW F, NEW s \in Seq(T), NEW t \in Seq(T)
  PROVE  Image(F, s \o t) = Image(F, s) \o Image(F, t)
<1> DEFINE U == {F[e] : e \in T}
           l == Image(F, s \o t)
           a == Image(F, s)
           b == Image(F, t)
           r == a \o b
<1>0. \A e \in T : F[e] \in U
  OBVIOUS
<1> HIDE DEF U
<1>1. /\ s \o t \in Seq(T) /\ Len(s \o t) = Len(s) + Len(t)
      /\ \A i \in 1..Len(s) + Len(t) :
           (s \o t)[i] = IF i <= Len(s) THEN s[i] ELSE t[i - Len(s)]
  BY ConcatProperties
<1>2. /\ a \in Seq(U) /\ Len(a) = Len(s) /\ \A k \in 1..Len(s) : a[k] = F[s[k]]
      /\ b \in Seq(U) /\ Len(b) = Len(t) /\ \A k \in 1..Len(t) : b[k] = F[t[k]]
  <2>1. Image(F, s) \in Seq(U) /\ Image(F, t) \in Seq(U)
    BY <1>0, ImageType
  <2>2. Len(Image(F, s)) = Len(s) /\ \A k \in 1..Len(s) : Image(F, s)[k] = F[s[k]]
    BY ImageElements
  <2>3. Len(Image(F, t)) = Len(t) /\ \A k \in 1..Len(t) : Image(F, t)[k] = F[t[k]]
    BY ImageElements
  <2> QED BY <2>1, <2>2, <2>3
<1>3. /\ l \in Seq(U) /\ Len(l) = Len(s) + Len(t)
      /\ \A k \in 1..Len(s) + Len(t) : l[k] = F[(s \o t)[k]]
  <2> DEFINE u == s \o t
  <2>1. u \in Seq(T) /\ Len(u) = Len(s) + Len(t)
    BY <1>1
  <2> HIDE DEF u
  <2>2. Image(F, u) \in Seq(U)
    BY <1>0, <2>1, ImageType
  <2>3. Len(Image(F, u)) = Len(u) /\ \A k \in 1..Len(u) : Image(F, u)[k] = F[u[k]]
    BY <2>1, ImageElements
  <2> QED BY <2>1, <2>2, <2>3 DEF u
<1>4. Len(s) \in Nat /\ Len(t) \in Nat
  BY LenProperties
<1> HIDE DEF a, b, l
<1>5. /\ r \in Seq(U) /\ Len(r) = Len(s) + Len(t)
      /\ \A i \in 1..Len(s) + Len(t) : r[i] = IF i <= Len(s) THEN a[i] ELSE b[i - Len(s)]
  <2>1. /\ r \in Seq(U) /\ Len(r) = Len(a) + Len(b)
        /\ \A i \in 1..Len(a) + Len(b) : r[i] = IF i <= Len(a) THEN a[i] ELSE b[i - Len(a)]
    BY <1>2, ConcatProperties, ZenonT(30)
  <2> HIDE DEF r
  <2> QED BY <1>2, <2>1
<1> HIDE DEF r
<1>6. ASSUME NEW i \in 1..Len(s) + Len(t) PROVE l[i] = r[i]
  <2>1. CASE i <= Len(s)
    <3>1. i \in 1..Len(s)
      BY <2>1, <1>4
    <3>2. l[i] = F[s[i]]
      BY <2>1, <1>1, <1>3
    <3> QED BY <2>1, <3>1, <3>2, <1>2, <1>5
  <2>2. CASE ~(i <= Len(s))
    <3>1. i - Len(s) \in 1..Len(t)
      BY <2>2, <1>4
    <3>2. l[i] = F[t[i - Len(s)]]
      BY <2>2, <1>1, <1>3
    <3> QED BY <2>2, <3>1, <3>2, <1>2, <1>5
  <2> QED BY <2>1, <2>2
<1>7. l = r
  BY <1>3, <1>5, <1>6, SeqEqual
<1> QED BY <1>7 DEF l, r, a, b

LEMMA ImageAppend ==
  ASSUME NEW T, NEW F, NEW s \in Seq(T), NEW x \in T
  PROVE  Image(F, Append(s, x)) = Append(Image(F, s), F[x])
<1> DEFINE U == {F[e] : e \in T}
<1>0. F[x] \in U /\ \A e \in T : F[e] \in U
  OBVIOUS
<1> HIDE DEF U
<1>1. <<x>> \in Seq(T) /\ Append(s, x) = s \o <<x>>
  BY AppendIsConcat
<1>2. Image(F, s \o <<x>>) = Image(F, s) \o Image(F, <<x>>)
  <2> DEFINE t == <<x>>
  <2>1. t \in Seq(T)
    BY <1>1
  <2> HIDE DEF t
  <2>2. Image(F, s \o t) = Image(F, s) \o Image(F, t)
    BY <2>1, ImageConcat
  <2> QED BY <2>2 DEF t
<1>3. Image(F, <<x>>) = <<F[x]>>
  BY DEF Image
<1>4. Image(F, s) \in Seq(U) /\ F[x] \in U
  BY <1>0, ImageType
<1>5. Image(F, s) \o <<F[x]>> = Append(Image(F, s), F[x])
  BY <1>4, AppendIsConcat
<1> QED BY <1>1, <1>2, <1>3, <1>5

-----------------------------------------------------------------------------
(* Places.                                                              *)

Shift(p, n) == [k \in DOMAIN p |-> p[k] + n]

LEMMA ShiftType ==
  ASSUME NEW p \in Seq(Nat), NEW n \in Nat
  PROVE  /\ Shift(p, n) \in Seq(Nat) /\ Len(Shift(p, n)) = Len(p)
         /\ \A k \in 1..Len(p) : Shift(p, n)[k] = p[k] + n
<1>1. DOMAIN p = 1..Len(p) /\ Len(p) \in Nat /\ \A k \in 1..Len(p) : p[k] \in Nat
  BY LenProperties
<1> QED BY <1>1 DEF Shift

LEMMA ShiftAppend ==
  ASSUME NEW p \in Seq(Nat), NEW n \in Nat, NEW x \in Nat
  PROVE  Shift(Append(p, x), n) = Append(Shift(p, n), x + n)
<1> DEFINE F == [y \in Nat |-> y + n]
<1>2. ASSUME NEW q \in Seq(Nat) PROVE Shift(q, n) = Image(F, q)
  <2>1. \A k \in DOMAIN q : q[k] \in Nat
    BY LenProperties
  <2> QED BY <2>1 DEF Shift, Image
<1>3. Append(p, x) \in Seq(Nat)
  BY AppendProperties
<1>4. F[x] = x + n
  OBVIOUS
<1> HIDE DEF F
<1>5. Image(F, Append(p, x)) = Append(Image(F, p), F[x])
  BY ImageAppend
<1> QED BY <1>2, <1>3, <1>4, <1>5

LEMMA PlacesEmpty == \A x : Places(<<>>, x) = <<>>
<1> SUFFICES ASSUME NEW x PROVE Places(<<>>, x) = <<>>
  OBVIOUS
<1>1. [i \in DOMAIN <<>> |-> i] = <<>>
  OBVIOUS
<1> QED BY <1>1, KeepEmpty DEF Places

LEMMA PlacesAppend ==
  ASSUME NEW T, NEW s \in Seq(T), NEW y \in T, NEW x
  PROVE  Places(Append(s, y), x) =
           IF y = x THEN Append(Places(s, x), Len(s) + 1) ELSE Places(s, x)
<1> DEFINE v == Append(s, y)
           n == Len(s)
           Of(u) == [i \in DOMAIN u |-> i]
           S == {i \in DOMAIN v : v[i] = x}
<1>1. /\ v \in Seq(T) /\ Len(v) = n + 1 /\ v[n + 1] = y
      /\ \A i \in 1..n : v[i] = s[i]
  BY AppendProperties
<1>2. DOMAIN v = 1..(n + 1) /\ DOMAIN s = 1..n /\ n \in Nat
  BY <1>1, LenProperties
<1>3. n + 1 \in S <=> y = x
  BY <1>1, <1>2
<1>4. Of(s) \in Seq(Nat) /\ Len(Of(s)) = n /\ \A i \in 1..n : Of(s)[i] = i
  BY <1>2
<1>5. Of(v) = Append(Of(s), n + 1)
  <2> DEFINE o == Of(s)
             a == Append(o, n + 1)
             l == Of(v)
  <2>1. /\ a \in Seq(Nat) /\ Len(a) = n + 1 /\ a[n + 1] = n + 1
        /\ \A i \in 1..n : a[i] = i
    <3>1. o \in Seq(Nat) /\ Len(o) = n /\ n + 1 \in Nat /\ \A i \in 1..n : o[i] = i
      BY <1>2, <1>4
    <3> HIDE DEF o, n
    <3> QED BY <3>1, AppendProperties
  <2>2. l \in Seq(Nat) /\ Len(l) = n + 1 /\ \A i \in 1..(n + 1) : l[i] = i
    BY <1>2
  <2>3. \A i \in 1..(n + 1) : i = n + 1 \/ i \in 1..n
    BY <1>2
  <2> HIDE DEF a, l, o, n
  <2>4. \A i \in 1..(n + 1) : l[i] = a[i]
    BY <2>1, <2>2, <2>3
  <2>5. l = a
    BY <2>1, <2>2, <2>4, SeqEqual
  <2> QED BY <2>5 DEF l, a, o
<1>6. Keep(Of(s), S) = Places(s, x)
  <2>1. DOMAIN Of(s) = DOMAIN s
    OBVIOUS
  <2>2. \A i \in DOMAIN s : i \in S <=> i \in {j \in DOMAIN s : s[j] = x}
    BY <1>1, <1>2
  <2> DEFINE o == Of(s)
             R == {j \in DOMAIN s : s[j] = x}
  <2>3. Keep(o, S) = Keep(o, R)
    <3>1. \A i \in DOMAIN o : i \in S <=> i \in R
      BY <2>1, <2>2
    <3> HIDE DEF o, S, R
    <3> QED BY <3>1, KeepSame
  <2> QED BY <2>3 DEF Places
<1>7. Keep(Append(Of(s), n + 1), S) =
        IF Len(Of(s)) + 1 \in S THEN Append(Keep(Of(s), S), n + 1) ELSE Keep(Of(s), S)
  <2> DEFINE o == Of(s)
             m == n + 1
  <2>1. o \in Seq(Nat) /\ m \in Nat
    BY <1>2, <1>4
  <2> HIDE DEF o, m, S
  <2>2. Keep(Append(o, m), S) = IF Len(o) + 1 \in S THEN Append(Keep(o, S), m) ELSE Keep(o, S)
    BY <2>1, KeepAppend, SMTT(30)
  <2> QED BY <2>2 DEF o, m
<1>8. Places(v, x) = Keep(Of(v), S)
  BY DEF Places
<1> HIDE DEF S, v, Of
<1> QED BY <1>3, <1>4, <1>5, <1>6, <1>7, <1>8 DEF v, n

\* What stands where in two sequences, one after the other.
LEMMA ConcatAt ==
  ASSUME NEW T, NEW s \in Seq(T), NEW t \in Seq(T), NEW m, m = Len(s), NEW n, n = Len(t)
  PROVE  /\ s \o t \in Seq(T) /\ Len(s \o t) = m + n /\ m \in Nat /\ n \in Nat
         /\ \A i \in 1..m : (s \o t)[i] = s[i]
         /\ \A i \in 1..n : (s \o t)[m + i] = t[i]
<1>1. /\ s \o t \in Seq(T) /\ Len(s \o t) = Len(s) + Len(t)
      /\ \A i \in 1..(Len(s) + Len(t)) : (s \o t)[i] = IF i <= Len(s) THEN s[i] ELSE t[i - Len(s)]
  BY ConcatProperties
<1>2. m \in Nat /\ n \in Nat
  BY LenProperties
<1>3. \A i \in 1..m : i \in 1..(m + n) /\ i <= m
  BY <1>2
<1>4. \A i \in 1..n : m + i \in 1..(m + n) /\ ~(m + i <= m) /\ (m + i) - m = i
  BY <1>2
<1> QED BY <1>1, <1>2, <1>3, <1>4

\* A position is a number in the domain.
LEMMA PlacesType ==
  ASSUME NEW T, NEW s \in Seq(T), NEW x
  PROVE  Places(s, x) \in Seq(1..Len(s)) /\ Places(s, x) \in Seq(Nat)
<1> DEFINE o == [i \in DOMAIN s |-> i]
           D == 1..Len(s)
           P == {i \in DOMAIN s : s[i] = x}
<1>1. o \in Seq(D) /\ D \subseteq Nat
  BY LenProperties
<1>2. Places(s, x) = Keep(o, P)
  BY DEF Places
<1> HIDE DEF o, D, P
<1>3. Keep(o, P) \in Seq(D)
  BY <1>1, KeepType
<1>4. Keep(o, P) \in Seq(Nat)
  BY <1>1, <1>3, SeqMonotonic
<1> QED BY <1>2, <1>3, <1>4 DEF D

\* What is not there has no position.
LEMMA PlacesNone ==
  ASSUME NEW T, NEW s \in Seq(T), NEW x, x \notin ToSet(s)
  PROVE  Places(s, x) = <<>>
<1> DEFINE o == [i \in DOMAIN s |-> i]
           P == {i \in DOMAIN s : s[i] = x}
<1>1. o \in Seq(Nat)
  BY LenProperties
<1>2. Places(s, x) = Keep(o, P)
  BY DEF Places
<1>3. P \cap DOMAIN o = {}
  BY LenProperties, SetOf
<1> HIDE DEF o, P
<1> QED BY <1>1, <1>2, <1>3, KeepNothing

LEMMA ShiftConcat ==
  ASSUME NEW p \in Seq(Nat), NEW q \in Seq(Nat), NEW n \in Nat
  PROVE  Shift(p \o q, n) = Shift(p, n) \o Shift(q, n)
<1> DEFINE F == [y \in Nat |-> y + n]
<1>2. ASSUME NEW r \in Seq(Nat) PROVE Shift(r, n) = Image(F, r)
  <2>1. \A k \in DOMAIN r : r[k] \in Nat
    BY LenProperties
  <2> QED BY <2>1 DEF Shift, Image
<1>3. p \o q \in Seq(Nat)
  BY ConcatProperties
<1> HIDE DEF F
<1>4. Image(F, p \o q) = Image(F, p) \o Image(F, q)
  BY ImageConcat
<1> QED BY <1>2, <1>3, <1>4

\* The positions in two sequences, one after the other.
LEMMA PlacesConcat ==
  ASSUME NEW T, NEW s \in Seq(T), NEW t \in Seq(T), NEW x
  PROVE  Places(s \o t, x) = Places(s, x) \o Shift(Places(t, x), Len(s))
<1> DEFINE Good == {u \in Seq(T) :
                      Places(s \o u, x) = Places(s, x) \o Shift(Places(u, x), Len(s))}
           p == Places(s, x)
           n == Len(s)
<1>1. p \in Seq(Nat) /\ n \in Nat
  BY PlacesType, LenProperties
<1>2. <<>> \in Good
  <2>1. s \o <<>> = s /\ <<>> \in Seq(T)
    BY ConcatEmptySeq, EmptySeq
  <2>2. Shift(<<>>, n) = <<>>
    BY DEF Shift
  <2>3. p \o <<>> = p
    BY <1>1, ConcatEmptySeq
  <2> QED BY <2>1, <2>2, <2>3, PlacesEmpty
<1>3. ASSUME NEW u \in Seq(T), u \in Good, NEW y \in T PROVE Append(u, y) \in Good
  <2> DEFINE q == Places(u, x)
             v == Append(u, y)
             w == s \o u
  <2>1. q \in Seq(Nat) /\ w \in Seq(T) /\ Len(w) = n + Len(u) /\ v \in Seq(T) /\ Len(u) \in Nat
    BY PlacesType, ConcatProperties, AppendProperties, LenProperties
  <2>2. s \o v = Append(w, y)
    BY ConcatAppend
  <2>3. Places(v, x) = IF y = x THEN Append(q, Len(u) + 1) ELSE q
    BY PlacesAppend
  <2>4. Places(Append(w, y), x) =
          IF y = x THEN Append(Places(w, x), Len(w) + 1) ELSE Places(w, x)
    <3> HIDE DEF w
    <3> QED BY <2>1, PlacesAppend
  <2>5. Places(w, x) = p \o Shift(q, n)
    BY <1>3
  <2> SUFFICES Places(s \o v, x) = p \o Shift(Places(v, x), n)
    BY <2>1
  <2> HIDE DEF w, v
  <2>6. CASE y # x
    BY <2>2, <2>3, <2>4, <2>5, <2>6
  <2>7. CASE y = x
    <3>1. Places(s \o v, x) = Append(p \o Shift(q, n), Len(u) + 1 + n)
      <4>1. Len(w) + 1 = Len(u) + 1 + n
        BY <1>1, <2>1
      <4> QED BY <2>2, <2>4, <2>5, <2>7, <4>1
    <3> HIDE DEF p, q, n
    <3>2. Shift(Append(q, Len(u) + 1), n) = Append(Shift(q, n), Len(u) + 1 + n)
      <4>1. Len(u) + 1 \in Nat
        BY <2>1
      <4> QED BY <1>1, <2>1, <4>1, ShiftAppend
    <3>3. Shift(q, n) \in Seq(Nat) /\ Len(u) + 1 + n \in Nat
      BY <1>1, <2>1, ShiftType
    <3>4. p \o Append(Shift(q, n), Len(u) + 1 + n) = Append(p \o Shift(q, n), Len(u) + 1 + n)
      BY <1>1, <3>3, ConcatAppend, SMTT(30)
    <3>5. Places(v, x) = Append(q, Len(u) + 1)
      BY <2>3, <2>7
    <3> QED BY <3>1, <3>2, <3>4, <3>5
  <2> QED BY <2>6, <2>7
<1>4. Seq(T) \subseteq Good
  <2> HIDE DEF Good
  <2> QED BY <1>2, <1>3, SeqSetInduction
<1> QED BY <1>4

LEMMA FlattenFlatten ==
  ASSUME NEW T, NEW s \in Seq(Seq(Seq(T)))
  PROVE  FlattenSeq([k \in DOMAIN s |-> FlattenSeq(s[k])]) = FlattenSeq(FlattenSeq(s))
<1> DEFINE F == [u \in Seq(Seq(T)) |-> FlattenSeq(u)]
           Good == {r \in Seq(Seq(Seq(T))) :
                      FlattenSeq(Image(F, r)) = FlattenSeq(FlattenSeq(r))}
<1>0. \A u \in Seq(Seq(T)) : F[u] = FlattenSeq(u) /\ F[u] \in Seq(T)
  BY FlattenType
<1> HIDE DEF F
<1>1. <<>> \in Good
  <2>1. Image(F, <<>>) = <<>> /\ <<>> \in Seq(Seq(Seq(T)))
    BY EmptySeq DEF Image
  <2> QED BY <2>1, FlattenEmpty
<1>2. ASSUME NEW r \in Seq(Seq(Seq(T))), r \in Good, NEW y \in Seq(Seq(T))
      PROVE  Append(r, y) \in Good
  <2>1. FlattenSeq(Append(r, y)) = FlattenSeq(r) \o y /\ FlattenSeq(r) \in Seq(Seq(T))
    BY FlattenAppend, FlattenType
  <2>2. Image(F, Append(r, y)) = Append(Image(F, r), F[y])
    BY ImageAppend
  <2>3. Image(F, r) \in Seq(Seq(T))
    BY <1>0, ImageType
  <2>4. FlattenSeq(Append(Image(F, r), F[y])) = FlattenSeq(Image(F, r)) \o F[y]
    BY <1>0, <2>3, FlattenAppend
  <2>5. FlattenSeq(FlattenSeq(r) \o y) = FlattenSeq(FlattenSeq(r)) \o FlattenSeq(y)
    BY <2>1, FlattenConcat
  <2>6. Append(r, y) \in Seq(Seq(Seq(T)))
    BY AppendProperties
  <2> QED BY <1>0, <1>2, <2>1, <2>2, <2>4, <2>5, <2>6
<1>3. s \in Good
  <2> HIDE DEF Good
  <2> QED BY <1>1, <1>2, SeqSetInduction
<1>4. Image(F, s) = [k \in DOMAIN s |-> FlattenSeq(s[k])]
  BY <1>0, LenProperties DEF Image
<1> QED BY <1>3, <1>4

\* A set of numbers up to n that is not empty has a greatest one.
LEMMA GreatestNumber ==
  ASSUME NEW n \in Nat, NEW S, S \subseteq 0..n, NEW i \in S
  PROVE  \E m \in S : m >= i /\ \A k \in S : k <= m
<1> DEFINE R == {d \in 0..n : n - d \in S}
<1>1. n - i \in R /\ n - i \in Nat
  OBVIOUS
<1>2. PICK d \in Nat : d \in R /\ \A k \in 0..(d - 1) : k \notin R
  <2> HIDE DEF R
  <2> QED BY <1>1, LeastNumber
<1>3. n - d \in S
  BY <1>2
<1>4. ASSUME NEW k \in S PROVE k <= n - d
  <2>1. n - k \in R /\ n - k \in Nat /\ n - (n - k) = k
    OBVIOUS
  <2>2. ~(n - k \in 0..(d - 1))
    BY <1>2, <2>1
  <2> QED BY <2>1, <2>2
<1> QED BY <1>3, <1>4

LEMMA PairConcat == \A x, y : <<x>> \o <<y>> = <<x, y>>
<1> SUFFICES ASSUME NEW x, NEW y PROVE <<x>> \o <<y>> = <<x, y>>
  OBVIOUS
<1> DEFINE T == {x, y}
           a == <<x>>
           b == <<y>>
           c == <<x, y>>
           d == a \o b
<1>1. a \in Seq(T) /\ Len(a) = 1 /\ b \in Seq(T) /\ Len(b) = 1 /\ a[1] = x /\ b[1] = y
  OBVIOUS
<1>2. c \in Seq(T) /\ Len(c) = 2 /\ c[1] = x /\ c[2] = y
  OBVIOUS
<1> HIDE DEF T, a, b, c
<1>3. /\ d \in Seq(T) /\ Len(d) = Len(a) + Len(b)
      /\ \A i \in 1..Len(a) : d[i] = a[i]
      /\ \A i \in 1..Len(b) : d[Len(a) + i] = b[i]
  <2>1. a \in Seq(T) /\ b \in Seq(T)
    BY <1>1
  <2> QED BY <2>1, ConcatAt
<1> HIDE DEF d
<1>4. Len(d) = 2 /\ d[1] = x /\ d[2] = y
  <2>1. 1 \in 1..Len(a) /\ 1 \in 1..Len(b) /\ Len(a) + 1 = 2 /\ Len(a) + Len(b) = 2
    BY <1>1
  <2> QED BY <1>1, <1>3, <2>1
<1>5. ASSUME NEW i \in 1..Len(d) PROVE d[i] = c[i]
  <2>1. i = 1 \/ i = 2
    BY <1>4
  <2> QED BY <2>1, <1>2, <1>4
<1>6. d = c
  BY <1>2, <1>3, <1>4, <1>5, SeqEqual
<1> QED BY <1>6 DEF a, b, c, d

LEMMA TripleConcat == \A x, y, z : <<x>> \o <<y, z>> = <<x, y, z>>
<1> SUFFICES ASSUME NEW x, NEW y, NEW z PROVE <<x>> \o <<y, z>> = <<x, y, z>>
  OBVIOUS
<1> DEFINE T == {x, y, z}
           a == <<x>>
           b == <<y, z>>
           c == <<x, y, z>>
           d == a \o b
<1>1. /\ a \in Seq(T) /\ Len(a) = 1 /\ a[1] = x
      /\ b \in Seq(T) /\ Len(b) = 2 /\ b[1] = y /\ b[2] = z
  OBVIOUS
<1>2. c \in Seq(T) /\ Len(c) = 3 /\ c[1] = x /\ c[2] = y /\ c[3] = z
  OBVIOUS
<1> HIDE DEF T, a, b, c
<1>3. /\ d \in Seq(T) /\ Len(d) = Len(a) + Len(b)
      /\ \A i \in 1..Len(a) : d[i] = a[i]
      /\ \A i \in 1..Len(b) : d[Len(a) + i] = b[i]
  <2>1. a \in Seq(T) /\ b \in Seq(T)
    BY <1>1
  <2> QED BY <2>1, ConcatAt
<1> HIDE DEF d
<1>4. Len(d) = 3 /\ d[1] = x /\ d[2] = y /\ d[3] = z
  <2>1. /\ 1 \in 1..Len(a) /\ 1 \in 1..Len(b) /\ 2 \in 1..Len(b)
        /\ Len(a) + 1 = 2 /\ Len(a) + 2 = 3 /\ Len(a) + Len(b) = 3
    BY <1>1
  <2> QED BY <1>1, <1>3, <2>1
<1>5. ASSUME NEW i \in 1..Len(d) PROVE d[i] = c[i]
  <2>1. i = 1 \/ i = 2 \/ i = 3
    BY <1>4
  <2> QED BY <2>1, <1>2, <1>4
<1>6. d = c
  BY <1>2, <1>3, <1>4, <1>5, SeqEqual
<1> QED BY <1>6 DEF a, b, c, d
=============================================================================
