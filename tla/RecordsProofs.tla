--------------------------- MODULE RecordsProofs ----------------------------
(***************************************************************************)
(* Theorems of module Records: what is published is read as it was         *)
(* written, and a cut-off file loses its end and nothing else, for any     *)
(* names, keys and mailboxes that trimming leaves alone, any lines, and    *)
(* any length of the strings of a TXT record.                              *)
(*                                                                         *)
(* The argument: a separator divides what is split on either side of it    *)
(* (SplitConcat), so that reading a text up to a line end and reading the  *)
(* rest are independent (RecordsConcat).  Hence a file is read line by     *)
(* line (FileIsRead), by induction about its length, and a file that is    *)
(* cut off is some whole lines and the start of one (CutFileIsRead).  What *)
(* the start of a line can be read as is a matter of how many of its       *)
(* semicolons are left (StartOfLine).  In DNS, unescaping undoes escaping  *)
(* byte by byte (UnescapeIsInverse), wherever the strings were cut         *)
(* (StringsAreRead), which takes us back to files and lines.               *)
(***************************************************************************)
EXTENDS Records, ListLemmas

-----------------------------------------------------------------------------
(* Splitting.                                                              *)

\* Parts of one of two sequences that are joined.
LEMMA CutLeft ==
  ASSUME NEW T, NEW s \in Seq(T), NEW t \in Seq(T),
         NEW i \in Nat \ {0}, NEW j \in Int, j <= Len(s)
  PROVE  Cut(s \o t, i, j) = Cut(s, i, j)
<1>1. CASE i <= j
  <2>1. i \in 1..Len(s) /\ j \in 1..Len(s)
    BY <1>1, LenProperties
  <2> QED BY <2>1, SubSeqOfConcat1 DEF Cut
<1>2. CASE i > j
  <2>1. SubSeq(s \o t, i, j) = <<>> /\ SubSeq(s, i, j) = <<>>
    BY <1>2, SubSeqEmpty
  <2> QED BY <2>1 DEF Cut
<1> QED BY <1>1, <1>2

LEMMA CutRight ==
  ASSUME NEW T, NEW s \in Seq(T), NEW t \in Seq(T),
         NEW i \in Nat \ {0}, NEW j \in Int, j <= Len(t)
  PROVE  Cut(s \o t, Len(s) + i, Len(s) + j) = Cut(t, i, j)
<1> DEFINE n == Len(s)
<1>0. n \in Nat /\ Len(t) \in Nat
  BY LenProperties
<1>1. CASE i <= j
  <2>1. n + i \in (n + 1)..(n + Len(t)) /\ n + j \in (n + 1)..(n + Len(t))
    BY <1>0, <1>1
  <2>2. (n + i) - n = i /\ (n + j) - n = j
    BY <1>0
  <2>3. SubSeq(s \o t, n + i, n + j) = SubSeq(t, (n + i) - n, (n + j) - n)
    BY <2>1, SubSeqOfConcat2
  <2> QED BY <2>2, <2>3 DEF Cut
<1>2. CASE i > j
  <2>1. n + i > n + j /\ n + i \in Int /\ n + j \in Int
    BY <1>0, <1>2
  <2>2. SubSeq(s \o t, n + i, n + j) = <<>> /\ SubSeq(t, i, j) = <<>>
    BY <1>2, <2>1, SubSeqEmpty
  <2> QED BY <2>2 DEF Cut
<1> QED BY <1>1, <1>2

LEMMA CutType ==
  ASSUME NEW T, NEW s \in Seq(T), NEW i \in Nat \ {0}, NEW j \in Int, j <= Len(s)
  PROVE  /\ Cut(s, i, j) \in Seq(T)
         /\ Len(Cut(s, i, j)) = IF i <= j THEN j - i + 1 ELSE 0
         /\ \A k \in 1..(j - i + 1) : Cut(s, i, j)[k] = s[i + k - 1]
<1>1. \A k \in i..j : s[k] \in T
  BY LenProperties
<1> QED BY <1>1, SubSeqProperties DEF Cut

\* The ends of the parts.
LEMMA EndsAt ==
  ASSUME NEW T, NEW s \in Seq(T), NEW p \in Seq(1..Len(s))
  PROVE  /\ Ends(s, p) \in Seq(Nat)
         /\ Len(Ends(s, p)) = Len(p) + 2
         /\ Ends(s, p)[1] = 0
         /\ \A k \in 1..Len(p) : Ends(s, p)[k + 1] = p[k]
         /\ Ends(s, p)[Len(p) + 2] = Len(s) + 1
         /\ \A k \in 1..(Len(p) + 1) : /\ Ends(s, p)[k] \in 0..Len(s)
                                       /\ Ends(s, p)[k + 1] \in 1..(Len(s) + 1)
<1> DEFINE a == <<0>>
           b == <<Len(s) + 1>>
           c == a \o p
<1>0. Len(s) \in Nat /\ Len(p) \in Nat /\ \A k \in 1..Len(p) : p[k] \in 1..Len(s)
  BY LenProperties
<1>1. /\ a \in Seq(Nat) /\ Len(a) = 1 /\ a[1] = 0
      /\ b \in Seq(Nat) /\ Len(b) = 1 /\ b[1] = Len(s) + 1
  BY <1>0
<1>2. p \in Seq(Nat)
  BY <1>0, SeqMonotonic
<1> HIDE DEF a, b
<1>3. /\ c \in Seq(Nat) /\ Len(c) = 1 + Len(p) /\ c[1] = 0
      /\ \A i \in 1..Len(p) : c[1 + i] = p[i]
  <2> HIDE DEF c
  <2>0. a \in Seq(Nat)
    BY <1>1
  <2>1. /\ a \o p \in Seq(Nat) /\ Len(a \o p) = Len(a) + Len(p)
        /\ \A i \in 1..Len(a) : (a \o p)[i] = a[i]
        /\ \A i \in 1..Len(p) : (a \o p)[Len(a) + i] = p[i]
    BY <2>0, <1>2, ConcatAt
  <2>2. 1 \in 1..Len(a)
    BY <1>1
  <2> QED BY <1>1, <2>1, <2>2 DEF c
<1> HIDE DEF c
<1>4. /\ c \o b \in Seq(Nat) /\ Len(c \o b) = 2 + Len(p)
      /\ \A i \in 1..(1 + Len(p)) : (c \o b)[i] = c[i]
      /\ (c \o b)[2 + Len(p)] = Len(s) + 1
  <2>0. b \in Seq(Nat) /\ c \in Seq(Nat)
    BY <1>1, <1>3
  <2>1. /\ c \o b \in Seq(Nat) /\ Len(c \o b) = Len(c) + Len(b)
        /\ \A i \in 1..Len(c) : (c \o b)[i] = c[i]
        /\ \A i \in 1..Len(b) : (c \o b)[Len(c) + i] = b[i]
    BY <2>0, ConcatAt
  <2>2. (1 + Len(p)) + 1 = 2 + Len(p) /\ 1 \in 1..Len(b)
    BY <1>0, <1>1
  <2> QED BY <1>1, <1>3, <2>1, <2>2
<1>5. Ends(s, p) = c \o b
  BY DEF Ends, c, a, b
<1> DEFINE e == Ends(s, p)
<1>6. /\ e \in Seq(Nat) /\ Len(e) = Len(p) + 2 /\ e[2 + Len(p)] = Len(s) + 1
      /\ \A i \in 1..(1 + Len(p)) : e[i] = c[i]
  BY <1>0, <1>4, <1>5
<1> HIDE DEF e
<1>7. e[1] = 0
  BY <1>0, <1>3, <1>6
<1>8. ASSUME NEW k \in 1..Len(p) PROVE e[k + 1] = p[k]
  <2>1. k + 1 = 1 + k /\ 1 + k \in 1..(1 + Len(p))
    BY <1>0
  <2> QED BY <2>1, <1>3, <1>6
<1>9. e[Len(p) + 2] = Len(s) + 1
  BY <1>0, <1>6
<1>10. ASSUME NEW k \in 1..(Len(p) + 1)
       PROVE  e[k] \in 0..Len(s) /\ e[k + 1] \in 1..(Len(s) + 1)
  <2>1. e[k] \in 0..Len(s)
    <3>1. CASE k = 1
      BY <1>0, <1>7, <3>1
    <3>2. CASE k # 1
      <4>1. k - 1 \in 1..Len(p) /\ (k - 1) + 1 = k
        BY <1>0, <3>2
      <4>2. e[k] = p[k - 1]
        BY <1>8, <4>1
      <4> QED BY <1>0, <4>1, <4>2
    <3> QED BY <3>1, <3>2
  <2>2. e[k + 1] \in 1..(Len(s) + 1)
    <3>1. CASE k = Len(p) + 1
      <4>1. k + 1 = Len(p) + 2
        BY <1>0, <3>1
      <4> QED BY <1>0, <1>9, <4>1
    <3>2. CASE k # Len(p) + 1
      <4>1. k \in 1..Len(p)
        BY <1>0, <3>2
      <4> QED BY <1>0, <1>8, <4>1
    <3> QED BY <3>1, <3>2
  <2> QED BY <2>1, <2>2
<1> QED BY <1>6, <1>7, <1>8, <1>9, <1>10 DEF e

LEMMA BetweenType ==
  ASSUME NEW T, NEW s \in Seq(T), NEW p \in Seq(1..Len(s))
  PROVE  /\ Between(s, p) \in Seq(Seq(T)) /\ Len(Between(s, p)) = Len(p) + 1
         /\ \A k \in 1..(Len(p) + 1) :
              Between(s, p)[k] = Cut(s, Ends(s, p)[k] + 1, Ends(s, p)[k + 1] - 1)
<1>0. Len(s) \in Nat /\ Len(p) \in Nat
  BY LenProperties
<1>1. ASSUME NEW k \in 1..(Len(p) + 1)
      PROVE  Cut(s, Ends(s, p)[k] + 1, Ends(s, p)[k + 1] - 1) \in Seq(T)
  <2> DEFINE i == Ends(s, p)[k] + 1
             j == Ends(s, p)[k + 1] - 1
  <2>1. i \in Nat \ {0} /\ j \in Int /\ j <= Len(s)
    BY <1>0, EndsAt, SMTT(30)
  <2> HIDE DEF i, j
  <2>2. Cut(s, i, j) \in Seq(T)
    BY <2>1, CutType
  <2> QED BY <2>2 DEF i, j
<1>2. Len(p) + 1 \in Nat
  BY <1>0
<1> QED BY <1>1, <1>2 DEF Between

\* Parts that one of the separators divides.
LEMMA BetweenConcat ==
  ASSUME NEW T, NEW s \in Seq(T), NEW t \in Seq(T), NEW x \in T,
         NEW p \in Seq(1..Len(s)), NEW q \in Seq(1..Len(t))
  PROVE  Between(Append(s, x) \o t, Append(p, Len(s) + 1) \o Shift(q, Len(s) + 1))
           = Between(s, p) \o Between(t, q)
<1> DEFINE N == Len(s) + 1
           a == Append(s, x)
           m == Len(p)
           n == Len(q)
           b == Append(p, N)
           c == Shift(q, N)
           r == b \o c
           w == a \o t
           U == Seq(T)
           left == Between(s, p)
           right == Between(t, q)
           all == Between(w, r)
<1>1. /\ Len(s) \in Nat /\ N \in Nat /\ m \in Nat /\ n \in Nat /\ Len(t) \in Nat
      /\ \A k \in 1..m : p[k] \in 1..Len(s)
      /\ \A k \in 1..n : q[k] \in 1..Len(t)
  BY LenProperties
<1>2. /\ a \in Seq(T) /\ Len(a) = N /\ a = s \o <<x>> /\ <<x>> \in Seq(T)
  BY AppendProperties, AppendIsConcat
<1>3. w \in Seq(T) /\ Len(w) = N + Len(t) /\ w = s \o (<<x>> \o t)
      /\ <<x>> \o t \in Seq(T)
  <2> DEFINE one == <<x>>
  <2>1. one \in Seq(T) /\ a = s \o one
    BY <1>2
  <2> HIDE DEF one, a, N
  <2>2. a \o t \in Seq(T) /\ Len(a \o t) = Len(a) + Len(t) /\ one \o t \in Seq(T)
    BY <1>2, <2>1, ConcatProperties
  <2>3. (s \o one) \o t = s \o (one \o t)
    BY <2>1, ConcatAssociative
  <2> QED BY <1>2, <2>1, <2>2, <2>3 DEF one
<1>4. p \in Seq(Nat) /\ q \in Seq(Nat)
  BY <1>1, SeqMonotonic
<1>5. /\ b \in Seq(Nat) /\ Len(b) = m + 1 /\ b[m + 1] = N
      /\ \A k \in 1..m : b[k] = p[k]
  <2> HIDE DEF N
  <2> QED BY <1>1, <1>4, AppendProperties
<1>6. c \in Seq(Nat) /\ Len(c) = n /\ \A k \in 1..n : c[k] = q[k] + N
  <2> HIDE DEF N
  <2> QED BY <1>1, <1>4, ShiftType
<1> HIDE DEF a, b, c
<1>7. /\ r \in Seq(Nat) /\ Len(r) = m + 1 + n
      /\ \A k \in 1..(m + 1) : r[k] = b[k]
      /\ \A k \in 1..n : r[m + 1 + k] = c[k]
  <2> HIDE DEF r, m, n
  <2>1. Len(b) = m + 1 /\ Len(c) = n /\ b \in Seq(Nat) /\ c \in Seq(Nat)
    BY <1>5, <1>6
  <2>2. /\ b \o c \in Seq(Nat) /\ Len(b \o c) = (m + 1) + n
        /\ \A k \in 1..(m + 1) : (b \o c)[k] = b[k]
        /\ \A k \in 1..n : (b \o c)[(m + 1) + k] = c[k]
    <3> DEFINE l == m + 1
           C == Nat
    <3>1. l = Len(b) /\ n = Len(c) /\ b \in Seq(C) /\ c \in Seq(C)
      BY <2>1
    <3> HIDE DEF l, C
    <3>2. /\ b \o c \in Seq(C) /\ Len(b \o c) = l + n
          /\ \A k \in 1..l : (b \o c)[k] = b[k]
          /\ \A k \in 1..n : (b \o c)[l + k] = c[k]
      BY <3>1, ConcatAt
    <3> QED BY <3>2 DEF l, C
  <2> QED BY <2>2 DEF r
<1> HIDE DEF r, w
<1>8. r \in Seq(1..Len(w))
  <2>1. ASSUME NEW k \in 1..(m + 1 + n) PROVE r[k] \in 1..(N + Len(t))
    <3>1. CASE k <= m
      <4>1. k \in 1..m /\ k \in 1..(m + 1)
        BY <1>1, <3>1
      <4>2. r[k] = p[k]
        BY <1>5, <1>7, <4>1
      <4> QED BY <1>1, <4>1, <4>2
    <3>2. CASE k = m + 1
      <4>1. r[k] = N
        BY <1>1, <1>5, <1>7, <3>2
      <4> QED BY <1>1, <4>1
    <3>3. CASE k > m + 1
      <4>1. k - (m + 1) \in 1..n /\ m + 1 + (k - (m + 1)) = k
        BY <1>1, <3>3
      <4>2. r[k] = q[k - (m + 1)] + N
        BY <1>6, <1>7, <4>1
      <4> QED BY <1>1, <4>1, <4>2
    <3> QED BY <1>1, <3>1, <3>2, <3>3
  <2>2. DOMAIN r = 1..Len(r)
    BY <1>7, LenProperties
  <2>3. r = [k \in 1..(m + 1 + n) |-> r[k]]
    BY <1>7, <2>2, LenProperties
  <2>4. m + 1 + n \in Nat
    BY <1>1
  <2>5. [k \in 1..(m + 1 + n) |-> r[k]] \in Seq(1..(N + Len(t)))
    BY <2>1, <2>4
  <2> QED BY <1>3, <2>3, <2>5
<1>9. /\ all \in Seq(U) /\ Len(all) = m + 1 + n + 1
      /\ \A k \in 1..(m + 1 + n + 1) :
           all[k] = Cut(w, Ends(w, r)[k] + 1, Ends(w, r)[k + 1] - 1)
  <2>1. w \in Seq(T) /\ r \in Seq(1..Len(w)) /\ Len(r) = m + 1 + n
    BY <1>3, <1>7, <1>8
  <2> HIDE DEF m, n, N
  <2>2. /\ Between(w, r) \in Seq(Seq(T)) /\ Len(Between(w, r)) = Len(r) + 1
        /\ \A k \in 1..(Len(r) + 1) :
             Between(w, r)[k] = Cut(w, Ends(w, r)[k] + 1, Ends(w, r)[k + 1] - 1)
    BY <2>1, BetweenType
  <2> QED BY <2>1, <2>2
<1>10. /\ left \in Seq(U) /\ Len(left) = m + 1
       /\ \A k \in 1..(m + 1) : left[k] = Cut(s, Ends(s, p)[k] + 1, Ends(s, p)[k + 1] - 1)
  BY BetweenType
<1>11. /\ right \in Seq(U) /\ Len(right) = n + 1
       /\ \A k \in 1..(n + 1) : right[k] = Cut(t, Ends(t, q)[k] + 1, Ends(t, q)[k + 1] - 1)
  BY BetweenType
<1> DEFINE es == Ends(s, p)
           et == Ends(t, q)
           ew == Ends(w, r)
<1>12. /\ es[1] = 0 /\ \A k \in 1..m : es[k + 1] = p[k]
       /\ es[m + 2] = N
       /\ \A k \in 1..(m + 1) : es[k] \in 0..Len(s) /\ es[k + 1] \in 1..(Len(s) + 1)
  BY EndsAt
<1>13. /\ et[1] = 0 /\ \A k \in 1..n : et[k + 1] = q[k]
       /\ et[n + 2] = Len(t) + 1
       /\ \A k \in 1..(n + 1) : et[k] \in 0..Len(t) /\ et[k + 1] \in 1..(Len(t) + 1)
  BY EndsAt
<1>14. /\ ew[1] = 0 /\ \A k \in 1..(m + 1 + n) : ew[k + 1] = r[k]
       /\ ew[m + 1 + n + 2] = N + Len(t) + 1
  <2>1. w \in Seq(T) /\ r \in Seq(1..Len(w)) /\ Len(r) = m + 1 + n /\ Len(w) = N + Len(t)
    BY <1>3, <1>7, <1>8
  <2> HIDE DEF m, n, N
  <2>2. /\ Ends(w, r)[1] = 0 /\ \A k \in 1..Len(r) : Ends(w, r)[k + 1] = r[k]
        /\ Ends(w, r)[Len(r) + 2] = Len(w) + 1
    BY <2>1, EndsAt
  <2> QED BY <2>1, <2>2
<1> HIDE DEF es, et, ew, all, left, right, m, n, N
<1>15. \A k \in 1..(m + 2) : ew[k] = es[k]
  <2> SUFFICES ASSUME NEW k \in 1..(m + 2) PROVE ew[k] = es[k]
    OBVIOUS
  <2>1. CASE k = 1
    BY <1>12, <1>14, <2>1
  <2>2. CASE k = m + 2
    <3>1. m + 1 \in 1..(m + 1 + n) /\ m + 1 \in 1..(m + 1) /\ (m + 1) + 1 = k
      BY <1>1, <2>2
    <3>2. ew[(m + 1) + 1] = r[m + 1] /\ r[m + 1] = N
      BY <1>5, <1>7, <1>14, <3>1
    <3> QED BY <1>12, <2>2, <3>1, <3>2
  <2>3. CASE k # 1 /\ k # m + 2
    <3>1. k - 1 \in 1..m /\ k - 1 \in 1..(m + 1) /\ k - 1 \in 1..(m + 1 + n) /\ (k - 1) + 1 = k
      BY <1>1, <2>3
    <3>2. ew[(k - 1) + 1] = p[k - 1] /\ es[(k - 1) + 1] = p[k - 1]
      BY <1>5, <1>7, <1>12, <1>14, <3>1
    <3> QED BY <3>1, <3>2
  <2> QED BY <2>1, <2>2, <2>3
<1>16. \A k \in 1..(n + 2) : ew[m + 1 + k] = N + et[k]
  <2> SUFFICES ASSUME NEW k \in 1..(n + 2) PROVE ew[m + 1 + k] = N + et[k]
    OBVIOUS
  <2>1. CASE k = 1
    <3>1. m + 2 \in 1..(m + 2) /\ m + 1 + k = m + 2
      BY <1>1, <2>1
    <3> QED BY <1>1, <1>12, <1>13, <1>15, <2>1, <3>1
  <2>2. CASE k = n + 2
    <3>1. m + 1 + k = m + 1 + n + 2 /\ N + Len(t) + 1 = N + (Len(t) + 1)
      BY <1>1, <2>2
    <3> QED BY <1>13, <1>14, <2>2, <3>1
  <2>3. CASE k # 1 /\ k # n + 2
    <3>1. /\ k - 1 \in 1..n /\ m + 1 + (k - 1) \in 1..(m + 1 + n)
          /\ (m + 1 + (k - 1)) + 1 = m + 1 + k /\ (k - 1) + 1 = k
      BY <1>1, <2>3
    <3>2. ew[(m + 1 + (k - 1)) + 1] = q[k - 1] + N /\ et[(k - 1) + 1] = q[k - 1]
      BY <1>6, <1>7, <1>13, <1>14, <3>1
    <3> QED BY <1>1, <3>1, <3>2
  <2> QED BY <2>1, <2>2, <2>3
<1> DEFINE lr == left \o right
<1>17. /\ lr \in Seq(U) /\ Len(lr) = (m + 1) + (n + 1)
       /\ \A k \in 1..(m + 1) : lr[k] = left[k]
       /\ \A k \in 1..(n + 1) : lr[(m + 1) + k] = right[k]
  <2>1. /\ left \in Seq(U) /\ Len(left) = m + 1
        /\ right \in Seq(U) /\ Len(right) = n + 1
    BY <1>10, <1>11
  <2> HIDE DEF U, lr
  <2>2. /\ left \o right \in Seq(U) /\ Len(left \o right) = (m + 1) + (n + 1)
        /\ \A k \in 1..(m + 1) : (left \o right)[k] = left[k]
        /\ \A k \in 1..(n + 1) : (left \o right)[(m + 1) + k] = right[k]
    BY <2>1, ConcatAt
  <2> QED BY <2>2 DEF lr
<1> HIDE DEF lr
<1>18. ASSUME NEW k \in 1..((m + 1) + (n + 1)) PROVE all[k] = lr[k]
  <2>0. k \in 1..(m + 1 + n + 1) /\ all[k] = Cut(w, ew[k] + 1, ew[k + 1] - 1)
    BY <1>1, <1>9 DEF ew
  <2>1. CASE k <= m + 1
    <3> DEFINE i == es[k] + 1
               j == es[k + 1] - 1
    <3>1. k \in 1..(m + 1) /\ k \in 1..(m + 2) /\ k + 1 \in 1..(m + 2)
      BY <1>1, <2>1
    <3>2. ew[k] + 1 = i /\ ew[k + 1] - 1 = j
      BY <1>15, <3>1
    <3>3. i \in Nat \ {0} /\ j \in Int /\ j <= Len(s)
      BY <1>1, <1>12, <3>1, SMTT(30)
    <3>4. left[k] = Cut(s, i, j)
      BY <1>10, <3>1 DEF es
    <3> HIDE DEF i, j
    <3> DEFINE y == <<x>> \o t
    <3>5. Cut(s \o y, i, j) = Cut(s, i, j)
      <4>1. y \in Seq(T)
        BY <1>3
      <4> HIDE DEF y
      <4> QED BY <3>3, <4>1, CutLeft
    <3>6. all[k] = Cut(s, i, j)
      BY <1>3, <2>0, <3>2, <3>5
    <3> QED BY <1>17, <3>1, <3>4, <3>6
  <2>2. CASE ~(k <= m + 1)
    <3> DEFINE h == k - (m + 1)
               i == et[h] + 1
               j == et[h + 1] - 1
    <3>1. /\ h \in 1..(n + 1) /\ h \in 1..(n + 2) /\ h + 1 \in 1..(n + 2)
          /\ m + 1 + h = k /\ m + 1 + (h + 1) = k + 1
      BY <1>1, <2>2
    <3>2. et[h] \in 0..Len(t) /\ et[h + 1] \in 1..(Len(t) + 1)
      BY <1>13, <3>1
    <3>3. ew[k] = N + et[h] /\ ew[k + 1] = N + et[h + 1]
      <4> HIDE DEF h
      <4> QED BY <1>16, <3>1
    <3>4. ew[k] + 1 = N + i /\ ew[k + 1] - 1 = N + j
      BY <1>1, <3>2, <3>3
    <3>5. i \in Nat \ {0} /\ j \in Int /\ j <= Len(t)
      BY <1>1, <3>2
    <3>6. right[h] = Cut(t, i, j)
      BY <1>11, <3>1 DEF et
    <3> HIDE DEF i, j, h
    <3>7. Cut(a \o t, Len(a) + i, Len(a) + j) = Cut(t, i, j)
      BY <1>2, <3>5, CutRight
    <3>8. all[k] = Cut(t, i, j)
      BY <1>2, <2>0, <3>4, <3>7 DEF w
    <3> QED BY <1>17, <3>1, <3>6, <3>8
  <2> QED BY <2>1, <2>2
<1>19. all = lr
  <2>1. Len(all) = Len(lr) /\ Len(all) = (m + 1) + (n + 1)
    BY <1>1, <1>9, <1>17
  <2> QED BY <1>9, <1>17, <1>18, <2>1, SeqEqual
<1> QED BY <1>19 DEF all, lr, left, right, w, r, a, b, c, N

\* A separator divides what is split.
LEMMA SplitConcat ==
  ASSUME NEW T, NEW s \in Seq(T), NEW t \in Seq(T), NEW x \in T
  PROVE  Split(Append(s, x) \o t, x) = Split(s, x) \o Split(t, x)
<1> DEFINE a == Append(s, x)
<1>1. a \in Seq(T) /\ Len(a) = Len(s) + 1
  BY AppendProperties
<1>2. Places(a, x) = Append(Places(s, x), Len(s) + 1)
  BY PlacesAppend
<1> HIDE DEF a
<1>3. Places(a \o t, x) = Places(a, x) \o Shift(Places(t, x), Len(a))
  BY <1>1, PlacesConcat
<1> DEFINE p == Places(s, x)
           q == Places(t, x)
<1>4. p \in Seq(1..Len(s)) /\ q \in Seq(1..Len(t))
  BY PlacesType
<1> HIDE DEF p, q
<1>5. Between(Append(s, x) \o t, Append(p, Len(s) + 1) \o Shift(q, Len(s) + 1))
        = Between(s, p) \o Between(t, q)
  BY <1>4, BetweenConcat
<1> QED BY <1>1, <1>2, <1>3, <1>5 DEF Split, p, q, a

\* Nothing but the end divides a text at no position.
LEMMA BetweenNone ==
  ASSUME NEW T, NEW s \in Seq(T)
  PROVE  Between(s, <<>>) = <<s>>
<1> DEFINE e == <<>>
<1>2. e \in Seq(1..Len(s)) /\ Len(e) = 0
  BY EmptySeq
<1> HIDE DEF e
<1>3. Ends(s, e)[1] = 0 /\ Ends(s, e)[2] = Len(s) + 1
  <2>1. Ends(s, e)[1] = 0 /\ Ends(s, e)[Len(e) + 2] = Len(s) + 1
    BY <1>2, EndsAt
  <2> QED BY <1>2, <2>1
<1>4. Len(s) \in Nat
  BY LenProperties
<1>5. Between(s, e) = <<Cut(s, 1, Len(s))>>
  <2>1. 1..(Len(e) + 1) = {1}
    BY <1>2
  <2>2. Ends(s, e)[1] + 1 = 1 /\ Ends(s, e)[1 + 1] - 1 = Len(s)
    BY <1>3, <1>4
  <2>3. Between(s, e) = [k \in {1} |-> Cut(s, 1, Len(s))]
    BY <2>1, <2>2 DEF Between
  <2> QED BY <2>3
<1>6. Cut(s, 1, Len(s)) = s
  BY SubSeqFull DEF Cut
<1> QED BY <1>5, <1>6 DEF e

\* What has no separator is one part.
LEMMA SplitOne ==
  ASSUME NEW T, NEW s \in Seq(T), NEW x, x \notin ToSet(s)
  PROVE  Split(s, x) = <<s>> /\ Between(s, <<>>) = <<s>>
BY PlacesNone, BetweenNone DEF Split

\* The least and the greatest number of a set are what FiniteSetsExt chooses.
LEMMA MinIs ==
  ASSUME NEW S, S \subseteq Nat, NEW m \in S, \A k \in S : m <= k
  PROVE  Min(S) = m
<1> DEFINE l == Min(S)
<1>1. \E x \in S : \A y \in S : x <= y
  OBVIOUS
<1>2. l \in S /\ \A y \in S : l <= y
  BY <1>1 DEF Min
<1> HIDE DEF l
<1>3. l \in Nat /\ m \in Nat /\ l <= m /\ m <= l
  BY <1>2
<1>4. l = m
  BY <1>3
<1> QED BY <1>4 DEF l

LEMMA MaxIs ==
  ASSUME NEW S, S \subseteq Nat, NEW m \in S, \A k \in S : k <= m
  PROVE  Max(S) = m
<1> DEFINE l == Max(S)
<1>1. \E x \in S : \A y \in S : x >= y
  OBVIOUS
<1>2. l \in S /\ \A y \in S : l >= y
  BY <1>1 DEF Max
<1> HIDE DEF l
<1>3. l \in Nat /\ m \in Nat /\ l <= m /\ m <= l
  BY <1>2
<1>4. l = m
  BY <1>3
<1> QED BY <1>4 DEF l

\* At most three parts: of a text that has no separator, ...
LEMMA OneOfThree ==
  ASSUME NEW T, NEW s \in Seq(T), NEW x, x \notin ToSet(s)
  PROVE  SplitN(s, x, 3) = <<s>>
<1>1. Places(s, x) = <<>> /\ Len(<<>>) = 0
  BY PlacesNone, EmptySeq
<1> QED BY <1>1, BetweenNone DEF SplitN

\* ... one ...
LEMMA TwoOfThree ==
  ASSUME NEW T, NEW s \in Seq(T), NEW t \in Seq(T), NEW x \in T,
         x \notin ToSet(s), x \notin ToSet(t)
  PROVE  SplitN(Append(s, x) \o t, x, 3) = <<s, t>>
<1> DEFINE a == Append(s, x)
           N == Len(s) + 1
           e == <<>>
<1>1. a \in Seq(T) /\ Len(a) = N
  BY AppendProperties
<1>2. Places(s, x) = e /\ Places(t, x) = e
  BY PlacesNone
<1>3. Places(a, x) = <<N>>
  <2>1. Places(a, x) = Append(e, N)
    BY <1>2, PlacesAppend
  <2> QED BY <2>1
<1> HIDE DEF a
<1>4. Places(a \o t, x) = <<N>>
  <2>1. Places(a \o t, x) = Places(a, x) \o Shift(Places(t, x), Len(a))
    BY <1>1, PlacesConcat
  <2>2. Shift(e, N) = e
    BY DEF Shift
  <2> DEFINE one == <<N>>
  <2>3. one \in Seq(Nat)
    BY LenProperties
  <2> HIDE DEF one
  <2>4. one \o e = one
    BY <2>3, ConcatEmptySeq
  <2> QED BY <1>1, <1>2, <1>3, <2>1, <2>2, <2>4 DEF one
<1>5. SplitN(a \o t, x, 3) = Split(a \o t, x)
  <2>1. Len(<<N>>) < 3
    OBVIOUS
  <2> QED BY <1>4, <2>1 DEF SplitN, Split
<1>6. Split(a \o t, x) = Split(s, x) \o Split(t, x)
  BY SplitConcat DEF a
<1>7. Split(s, x) = <<s>> /\ Split(t, x) = <<t>>
  BY SplitOne
<1>8. <<s>> \o <<t>> = <<s, t>>
  BY PairConcat
<1> QED BY <1>5, <1>6, <1>7, <1>8 DEF a

\* ... or two and more.
LEMMA ThreeOfThree ==
  ASSUME NEW T, NEW s \in Seq(T), NEW t \in Seq(T), NEW u \in Seq(T), NEW x \in T,
         x \notin ToSet(s), x \notin ToSet(t)
  PROVE  SplitN(Append(s, x) \o (Append(t, x) \o u), x, 3) = <<s, t, u>>
<1> DEFINE a == Append(s, x)
           b == Append(t, x)
           v == b \o u
           w == a \o v
           M == Len(s) + 1
           N == Len(t) + 1
           e == <<>>
           q == Places(u, x)
<1>0. M \in Nat /\ N \in Nat /\ Len(s) \in Nat /\ Len(t) \in Nat /\ Len(u) \in Nat
  BY LenProperties
<1>1. a \in Seq(T) /\ Len(a) = M /\ b \in Seq(T) /\ Len(b) = N
  BY AppendProperties
<1>2. Places(s, x) = e /\ Places(t, x) = e
  BY PlacesNone
<1>3. Places(a, x) = <<M>> /\ Places(b, x) = <<N>>
  <2>1. Places(a, x) = Append(e, M) /\ Places(b, x) = Append(e, N)
    BY <1>2, PlacesAppend
  <2> QED BY <2>1
<1> HIDE DEF a, b
<1>4. v \in Seq(T) /\ Len(v) = N + Len(u)
  <2>1. b \o u \in Seq(T) /\ Len(b \o u) = Len(b) + Len(u)
    BY <1>1, ConcatProperties
  <2> QED BY <1>1, <2>1
<1>5. Places(v, x) = <<N>> \o Shift(q, N)
  <2>1. Places(b \o u, x) = Places(b, x) \o Shift(q, Len(b))
    BY <1>1, PlacesConcat
  <2> QED BY <1>1, <1>3, <2>1
<1> HIDE DEF v
<1>6. Places(w, x) = <<M>> \o Shift(Places(v, x), M)
  <2>1. Places(a \o v, x) = Places(a, x) \o Shift(Places(v, x), Len(a))
    BY <1>1, <1>4, PlacesConcat
  <2> QED BY <1>1, <1>3, <2>1
<1> DEFINE two == <<M, M + N>>
           r == Shift(Shift(q, N), M)
<1>7. r \in Seq(Nat)
  <2>1. q \in Seq(Nat)
    BY PlacesType
  <2> HIDE DEF q, N, M
  <2>2. Shift(q, N) \in Seq(Nat)
    BY <1>0, <2>1, ShiftType
  <2> QED BY <1>0, <2>2, ShiftType
<1>8. Places(w, x) = two \o r
  <2> DEFINE one == <<N>>
             o == Shift(q, N)
             z == <<M>>
             y == <<N + M>>
  <2>1. one \in Seq(Nat) /\ z \in Seq(Nat) /\ y \in Seq(Nat)
    BY <1>0
  <2>2. o \in Seq(Nat)
    <3>1. q \in Seq(Nat)
      BY PlacesType
    <3> HIDE DEF q, N, M
    <3> QED BY <1>0, <3>1, ShiftType
  <2>3. Shift(one, M) = y
    BY DEF Shift
  <2>4. z \o y = two
    <3>1. z \o y = <<M, N + M>>
      BY PairConcat
    <3>2. N + M = M + N
      BY <1>0
    <3> QED BY <3>1, <3>2
  <2> HIDE DEF one, o, z, y, N, M, two
  <2>5. Shift(one \o o, M) = y \o Shift(o, M)
    <3>1. M \in Nat /\ one \in Seq(Nat)
      BY <1>0, <2>1
    <3>2. Shift(one \o o, M) = Shift(one, M) \o Shift(o, M)
      BY <2>2, <3>1, ShiftConcat
    <3> QED BY <2>3, <3>2
  <2>6. Shift(o, M) \in Seq(Nat)
    BY <1>0, <2>2, ShiftType
  <2> DEFINE so == Shift(o, M)
  <2>7. z \o (y \o so) = two \o so
    <3> HIDE DEF so
    <3>1. so \in Seq(Nat)
      BY <2>6 DEF so
    <3>2. (z \o y) \o so = z \o (y \o so)
      BY <2>1, <3>1, ConcatAssociative, SMTT(30)
    <3> QED BY <2>4, <3>2
  <2> QED BY <1>5, <1>6, <2>5, <2>7 DEF one, o, z
<1>9. SplitN(w, x, 3) = Between(w, two)
  <2> DEFINE p == two \o r
  <2>1. two \in Seq(Nat) /\ Len(two) = 2
    BY <1>0
  <2>2. Places(w, x) = p
    BY <1>8
  <2> HIDE DEF two, r
  <2>3. p \in Seq(Nat) /\ Len(p) = 2 + Len(r) /\ Len(r) \in Nat
    <3>1. two \in Seq(Nat) /\ r \in Seq(Nat)
      BY <1>7, <2>1
    <3>2. p \in Seq(Nat) /\ Len(p) = Len(two) + Len(r) /\ Len(r) \in Nat
      BY <3>1, ConcatProperties, LenProperties
    <3> QED BY <2>1, <3>2
  <2>4. CASE Len(p) < 3
    <3>1. Len(r) = 0
      BY <2>3, <2>4
    <3>2. r = <<>>
      BY <1>7, <3>1, EmptySeq
    <3>3. p = two
      BY <2>1, <3>2, ConcatEmptySeq
    <3> HIDE DEF p
    <3> QED BY <2>2, <2>4, <3>3 DEF SplitN
  <2>5. CASE ~(Len(p) < 3)
    <3>1. Cut(two \o r, 1, 2) = Cut(two, 1, 2)
      <4>1. 1 \in Nat \ {0} /\ 2 \in Int /\ 2 <= Len(two)
        BY <2>1
      <4> QED BY <1>7, <2>1, <4>1, CutLeft
    <3>2. Cut(two, 1, 2) = two
      BY <2>1, SubSeqFull DEF Cut
    <3>3. 3 - 1 = 2
      OBVIOUS
    <3> HIDE DEF p
    <3> QED BY <2>2, <2>5, <3>1, <3>2, <3>3 DEF SplitN, p
  <2> QED BY <2>4, <2>5
<1>10. Between(v, <<N>>) = <<t, u>>
  <2>1. e \in Seq(1..Len(t)) /\ e \in Seq(1..Len(u))
    BY EmptySeq
  <2>2. Append(e, N) \o Shift(e, N) = <<N>>
    BY DEF Shift
  <2> HIDE DEF e
  <2>3. Between(Append(t, x) \o u, Append(e, Len(t) + 1) \o Shift(e, Len(t) + 1))
          = Between(t, e) \o Between(u, e)
    BY <2>1, BetweenConcat
  <2>4. Between(t, e) = <<t>> /\ Between(u, e) = <<u>>
    BY BetweenNone DEF e
  <2>5. <<t>> \o <<u>> = <<t, u>>
    BY PairConcat
  <2> QED BY <2>2, <2>3, <2>4, <2>5 DEF v, b
<1>11. Between(w, two) = Between(s, e) \o Between(v, <<N>>)
  <2> DEFINE one == <<N>>
  <2>1. e \in Seq(1..Len(s)) /\ one \in Seq(1..Len(v))
    BY <1>0, <1>4, EmptySeq
  <2>2. Append(e, M) \o Shift(one, M) = two
    <3>1. Shift(one, M) = <<N + M>>
      BY DEF Shift
    <3>2. Append(e, M) = <<M>> /\ N + M = M + N
      BY <1>0
    <3>3. <<M>> \o <<M + N>> = two
      BY PairConcat
    <3> QED BY <3>1, <3>2, <3>3
  <2> HIDE DEF e, one, two
  <2>3. Between(Append(s, x) \o v, Append(e, Len(s) + 1) \o Shift(one, Len(s) + 1))
          = Between(s, e) \o Between(v, one)
    BY <1>4, <2>1, BetweenConcat
  <2> QED BY <2>2, <2>3 DEF w, a, one
<1>12. Between(s, e) = <<s>>
  BY BetweenNone
<1>13. <<s>> \o <<t, u>> = <<s, t, u>>
  BY TripleConcat
<1> QED BY <1>9, <1>10, <1>11, <1>12, <1>13 DEF w, v, a, b

-----------------------------------------------------------------------------
(* Trimming.                                                               *)

\* Blanks are trimmed to nothing.
LEMMA TrimmedBlank ==
  ASSUME NEW T, NEW s \in Seq(T), \A k \in 1..Len(s) : s[k] \in Blanks
  PROVE  Trimmed(s) = <<>>
BY LenProperties DEF Trimmed

\* From the first byte that is not blank to the last.
LEMMA TrimmedFrom ==
  ASSUME NEW T, NEW s \in Seq(T), NEW i \in 1..Len(s), s[i] \notin Blanks,
         \A k \in 1..(i - 1) : s[k] \in Blanks
  PROVE  \E j \in i..Len(s) : /\ Trimmed(s) = Cut(s, i, j) /\ s[j] \notin Blanks
                              /\ \A k \in (j + 1)..Len(s) : s[k] \in Blanks
<1> DEFINE dark == {k \in DOMAIN s : s[k] \notin Blanks}
           n == Len(s)
<1>1. n \in Nat /\ DOMAIN s = 1..n
  BY LenProperties
<1>2. i \in dark /\ dark \subseteq 1..n /\ dark \subseteq 0..n /\ dark \subseteq Nat
  BY <1>1
<1>3. \A k \in dark : i <= k
  BY <1>1
<1>4. Trimmed(s) = Cut(s, Min(dark), Max(dark))
  BY <1>2 DEF Trimmed
<1> HIDE DEF dark
<1>5. PICK j \in dark : j >= i /\ \A k \in dark : k <= j
  BY <1>1, <1>2, GreatestNumber
<1>6. Min(dark) = i
  BY <1>2, <1>3, MinIs
<1>7. Max(dark) = j
  BY <1>2, <1>5, MaxIs
<1>8. j \in i..n /\ s[j] \notin Blanks
  BY <1>1, <1>2, <1>5 DEF dark
<1>9. \A k \in (j + 1)..n : s[k] \in Blanks
  BY <1>1, <1>5, <1>8 DEF dark
<1> QED BY <1>4, <1>6, <1>7, <1>8, <1>9

\* Trimming leaves a field alone.
LEMMA TrimmedField ==
  ASSUME NEW T, NEW s \in Seq(T), s # <<>>, s[1] \notin Blanks, s[Len(s)] \notin Blanks
  PROVE  Trimmed(s) = s
<1>1. Len(s) \in Nat \ {0} /\ 1 \in 1..Len(s)
  BY EmptySeq
<1>2. PICK j \in 1..Len(s) : /\ Trimmed(s) = Cut(s, 1, j)
                             /\ \A k \in (j + 1)..Len(s) : s[k] \in Blanks
  BY <1>1, TrimmedFrom
<1>3. j = Len(s)
  BY <1>1, <1>2
<1> QED BY <1>2, <1>3, SubSeqFull DEF Cut

\* The start of two sequences that are joined, beyond the first.
LEMMA StartOfConcat ==
  ASSUME NEW T, NEW s \in Seq(T), NEW t \in Seq(T), NEW j \in 0..Len(t)
  PROVE  Cut(s \o t, 1, Len(s) + j) = s \o Cut(t, 1, j)
<1> DEFINE n == Len(s)
           w == s \o t
<1>1. n \in Nat /\ Len(t) \in Nat /\ j \in Nat /\ n <= Len(s)
  BY LenProperties
<1>2. w \in Seq(T) /\ Len(w) = n + Len(t)
  BY ConcatProperties
<1>3. Cut(w, 1, n) = s
  <2>1. Cut(s \o t, 1, n) = Cut(s, 1, n)
    BY <1>1, CutLeft
  <2> QED BY <2>1, SubSeqFull DEF Cut
<1>4. Cut(w, n + 1, n + j) = Cut(t, 1, j)
  <2>1. 1 \in Nat \ {0} /\ j \in Int /\ j <= Len(t)
    BY <1>1
  <2> QED BY <2>1, CutRight
<1>5. SubSeq(w, 1, n) \o SubSeq(w, n + 1, n + j) = SubSeq(w, 1, n + j)
  <2>1. 1 \in 1..(Len(w) + 1) /\ n \in (1 - 1)..Len(w) /\ n + j \in n..Len(w)
    BY <1>1, <1>2
  <2> HIDE DEF w, n
  <2> QED BY <1>2, <2>1, ConcatAdjacentSubSeq
<1> QED BY <1>3, <1>4, <1>5 DEF Cut

\* What starts a sequence.
LEMMA StartIsPrefix ==
  ASSUME NEW T, NEW s \in Seq(T), NEW j \in 0..Len(s)
  PROVE  /\ IsPrefix(Cut(s, 1, j), s)
         /\ Len(Cut(s, 1, j)) = j /\ Cut(s, 1, j) \in Seq(T)
         /\ \A k \in 1..j : Cut(s, 1, j)[k] = s[k]
         /\ ToSet(Cut(s, 1, j)) \subseteq ToSet(s)
<1> DEFINE c == Cut(s, 1, j)
<1>0. Len(s) \in Nat /\ j \in Nat /\ j <= Len(s)
  BY LenProperties
<1>1. c \in Seq(T) /\ Len(c) = j /\ \A k \in 1..j : c[k] = s[k]
  <2>1. /\ c \in Seq(T) /\ Len(c) = IF 1 <= j THEN j - 1 + 1 ELSE 0
        /\ \A k \in 1..(j - 1 + 1) : c[k] = s[1 + k - 1]
    BY <1>0, CutType
  <2>2. j - 1 + 1 = j /\ \A k \in 1..j : 1 + k - 1 = k
    BY <1>0
  <2> QED BY <1>0, <2>1, <2>2
<1>2. SubSeq(c, 1, Len(c)) = SubSeq(s, 1, Len(c))
  BY <1>1, SubSeqFull DEF Cut
<1> HIDE DEF c
<1>3. ToSet(c) \subseteq ToSet(s)
  <2>1. ToSet(c) = {c[i] : i \in 1..Len(c)} /\ ToSet(s) = {s[i] : i \in 1..Len(s)}
    BY <1>1, SetOf
  <2> QED BY <1>0, <1>1, <2>1
<1> QED BY <1>0, <1>1, <1>2, <1>3 DEF IsPrefix, c

-----------------------------------------------------------------------------
(* What is written.                                                        *)

\* What RecordsAssumption says of a spelling.
LEMMA SpelledField ==
  ASSUME NEW f \in Names \cup Mailboxes \cup Keys
  PROVE  /\ Spelling[f] \in Text /\ Spelling[f] # <<>> /\ Len(Spelling[f]) \in Nat \ {0}
         /\ Spelling[f][1] \notin Blanks /\ Spelling[f][Len(Spelling[f])] \notin Blanks
         /\ Newline \notin ToSet(Spelling[f])
         /\ Trimmed(Spelling[f]) = Spelling[f]
<1>1. Spelling[f] \in Text /\ IsField(Spelling[f])
  BY RecordsAssumption
<1> DEFINE s == Spelling[f]
<1>2. s \in Seq(Bytes) /\ s # <<>> /\ s[1] \notin Blanks /\ s[Len(s)] \notin Blanks
      /\ Newline \notin ToSet(s)
  BY <1>1 DEF Text, IsField
<1> HIDE DEF s
<1>3. Trimmed(s) = s /\ Len(s) \in Nat \ {0}
  BY <1>2, TrimmedField, EmptySeq
<1> QED BY <1>1, <1>2, <1>3 DEF s

LEMMA SpelledName ==
  ASSUME NEW f \in Names
  PROVE  Semicolon \notin ToSet(Spelling[f]) /\ Spelling[f][1] # Hash
BY RecordsAssumption

LEMMA SpelledMailbox ==
  ASSUME NEW f \in Mailboxes \cup {NoMailbox}
  PROVE  /\ Spelling[f] \in Text /\ Trimmed(Spelling[f]) = Spelling[f]
         /\ Newline \notin ToSet(Spelling[f]) /\ Semicolon \notin ToSet(Spelling[f])
<1>1. CASE f \in Mailboxes
  BY <1>1, SpelledField, RecordsAssumption
<1>2. CASE f = NoMailbox
  <2>1. Spelling[f] = <<>> /\ <<>> \in Seq(Bytes)
    BY <1>2, RecordsAssumption, EmptySeq
  <2>2. Trimmed(<<>>) = <<>>
    <3> DEFINE e == <<>>
    <3>1. e \in Seq(Bytes) /\ \A k \in 1..Len(e) : e[k] \in Blanks
      BY <2>1, EmptySeq
    <3> HIDE DEF e
    <3>2. Trimmed(e) = <<>>
      BY <3>1, TrimmedBlank
    <3> QED BY <3>2 DEF e
  <2>3. ToSet(<<>>) = {}
    BY <2>1, NothingIn
  <2> QED BY <2>1, <2>2, <2>3 DEF Text
<1> QED BY <1>1, <1>2

\* A record line, in its three parts.
LEMMA WrittenRecord ==
  ASSUME NEW l \in Lines, l.kind = "record"
  PROVE  /\ l.match \in Names /\ l.delivery \in Mailboxes \cup {NoMailbox} /\ l.key \in Keys
         /\ Written(l) = Append(Spelling[l.match], Semicolon)
                           \o (Append(Spelling[l.delivery], Semicolon)
                                 \o (<<Space>> \o Spelling[l.key]))
<1>1. l \in Records
  BY DEF Lines, Records, Malformed
<1>2. l.match \in Names /\ l.delivery \in Mailboxes \cup {NoMailbox} /\ l.key \in Keys
  BY <1>1 DEF Records
<1> DEFINE a == Spelling[l.match]
           b == Spelling[l.delivery]
           k == Spelling[l.key]
           s == <<Semicolon>>
           p == <<Space>>
<1>3. a \in Seq(Bytes) /\ b \in Seq(Bytes) /\ k \in Seq(Bytes)
  BY <1>2, SpelledField, SpelledMailbox DEF Text
<1>4. s \in Seq(Bytes) /\ p \in Seq(Bytes) /\ Semicolon \in Bytes
  BY DEF Semicolon, Space, Bytes
<1>5. <<Semicolon, Space>> = s \o p
  BY PairConcat
<1>6. Written(l) = a \o s \o b \o (s \o p) \o k
  BY <1>5 DEF Written
<1> HIDE DEF a, b, k, s, p
<1>7. Append(a, Semicolon) = a \o s /\ Append(b, Semicolon) = b \o s
  BY <1>3, <1>4, AppendIsConcat DEF s
<1> DEFINE as == a \o s
           sp == s \o p
           pk == p \o k
           bs == b \o s
<1>8. as \in Seq(Bytes) /\ sp \in Seq(Bytes) /\ pk \in Seq(Bytes) /\ bs \in Seq(Bytes)
  BY <1>3, <1>4, ConcatProperties
<1>9. sp \o k = s \o pk
  BY <1>3, <1>4, ConcatAssociative
<1>10. bs \o pk = b \o (s \o pk)
  <2> HIDE DEF pk
  <2> QED BY <1>3, <1>4, <1>8, ConcatAssociative, SMTT(30)
<1> HIDE DEF as, sp, pk, bs
<1>11. as \o b \o sp \o k = as \o (bs \o pk)
  <2> DEFINE x == b \o sp
             y == sp \o k
  <2>0. as \in Seq(Bytes) /\ b \in Seq(Bytes) /\ sp \in Seq(Bytes) /\ k \in Seq(Bytes)
    BY <1>3, <1>8
  <2>a. \A u, v, w \in Seq(Bytes) : (u \o v) \o w = u \o (v \o w)
    BY ConcatAssociative
  <2>1. (as \o b) \o sp = as \o x
    BY <2>0, <2>a, Zenon
  <2>2. x \in Seq(Bytes)
    BY <2>0, ConcatProperties
  <2>3. x \o k = b \o y
    BY <2>0, ConcatAssociative
  <2>4. b \o y = bs \o pk
    BY <1>9, <1>10
  <2> HIDE DEF x, y
  <2>5. (as \o x) \o k = as \o (x \o k)
    BY <2>0, <2>2, <2>a, ZenonT(30)
  <2> QED BY <2>1, <2>3, <2>4, <2>5
<1> QED BY <1>2, <1>6, <1>7, <1>11 DEF as, sp, pk, bs, a, b, k, p

\* A malformed line, in its one.
LEMMA WrittenMalformed ==
  ASSUME NEW l \in Lines, l.kind # "record"
  PROVE  /\ l.intended \in Names
         /\ Written(l) = Append(Spelling[l.intended], Semicolon)
<1>1. l \in Malformed
  BY DEF Lines, Records, Malformed
<1>2. l.intended \in Names
  BY <1>1 DEF Malformed
<1>3. Spelling[l.intended] \in Seq(Bytes) /\ Semicolon \in Bytes
  BY <1>2, SpelledField DEF Text, Semicolon, Bytes
<1>4. Append(Spelling[l.intended], Semicolon) = Spelling[l.intended] \o <<Semicolon>>
  BY <1>3, AppendIsConcat
<1> QED BY <1>2, <1>4 DEF Written

\* A line stands for itself: it is not empty, trimmed, no comment, and one line.
LEMMA WrittenIsALine ==
  ASSUME NEW l \in Lines
  PROVE  /\ Written(l) \in Seq(Bytes) /\ Len(Written(l)) \in Nat \ {0}
         /\ Written(l)[1] \notin Blanks /\ Written(l)[1] # Hash
         /\ Written(l)[Len(Written(l))] \notin Blanks
         /\ Newline \notin ToSet(Written(l))
<1>0. Semicolon \in Bytes /\ Semicolon \notin Blanks /\ Semicolon # Newline
      /\ Space \in Bytes /\ Space # Newline
  BY DEF Semicolon, Bytes, Blanks, Newline, Space
<1>a. ASSUME NEW s \in Seq(Bytes), Newline \notin ToSet(s)
      PROVE  /\ Append(s, Semicolon) \in Seq(Bytes)
             /\ Len(Append(s, Semicolon)) = Len(s) + 1
             /\ Newline \notin ToSet(Append(s, Semicolon))
             /\ \A i \in 1..Len(s) : Append(s, Semicolon)[i] = s[i]
             /\ Append(s, Semicolon)[Len(s) + 1] = Semicolon
  <2> DEFINE t == <<Semicolon>>
  <2>1. t \in Seq(Bytes) /\ ToSet(t) = {Semicolon}
    BY <1>0 DEF ToSet
  <2>2. Append(s, Semicolon) = s \o t
    BY <1>0, AppendIsConcat
  <2> HIDE DEF t
  <2>3. ToSet(s \o t) = ToSet(s) \cup ToSet(t)
    BY <2>1, ConcatSet
  <2> QED BY <1>0, <1>a, <2>1, <2>2, <2>3, AppendProperties
<1>1. CASE l.kind = "record"
  <2> DEFINE a == Spelling[l.match]
             b == Spelling[l.delivery]
             k == Spelling[l.key]
             X == Append(a, Semicolon)
             Y == Append(b, Semicolon)
             p == <<Space>>
             Z == p \o k
             V == Y \o Z
             w == X \o V
  <2>1. /\ a \in Seq(Bytes) /\ Len(a) \in Nat \ {0} /\ a[1] \notin Blanks /\ a[1] # Hash
        /\ Newline \notin ToSet(a)
        /\ b \in Seq(Bytes) /\ Newline \notin ToSet(b) /\ Len(b) \in Nat
        /\ k \in Seq(Bytes) /\ Len(k) \in Nat \ {0} /\ k[Len(k)] \notin Blanks
        /\ Newline \notin ToSet(k)
    BY <1>1, WrittenRecord, SpelledField, SpelledMailbox, SpelledName, LenProperties DEF Text
  <2>2. w = Written(l)
    BY <1>1, WrittenRecord
  <2> HIDE DEF a, b, k
  <2>3. /\ X \in Seq(Bytes) /\ Len(X) = Len(a) + 1 /\ Newline \notin ToSet(X)
        /\ \A i \in 1..Len(a) : X[i] = a[i]
        /\ Y \in Seq(Bytes) /\ Newline \notin ToSet(Y) /\ Len(Y) = Len(b) + 1
    BY <1>a, <2>1
  <2>4. p \in Seq(Bytes) /\ Len(p) = 1 /\ ToSet(p) = {Space}
    BY <1>0 DEF ToSet
  <2> HIDE DEF X, Y, p
  <2>5. /\ Z \in Seq(Bytes) /\ Len(Z) = Len(p) + Len(k) /\ Newline \notin ToSet(Z)
        /\ \A i \in 1..Len(k) : Z[Len(p) + i] = k[i]
    <3>1. p \in Seq(Bytes) /\ k \in Seq(Bytes)
      BY <1>0, <2>1, <2>4
    <3>2. ToSet(p \o k) = ToSet(p) \cup ToSet(k)
      BY <3>1, ConcatSet
    <3>3. /\ p \o k \in Seq(Bytes) /\ Len(p \o k) = Len(p) + Len(k)
          /\ \A i \in 1..Len(p) : (p \o k)[i] = p[i]
          /\ \A i \in 1..Len(k) : (p \o k)[Len(p) + i] = k[i]
      BY <3>1, ConcatAt
    <3> QED BY <1>0, <2>1, <2>4, <3>2, <3>3
  <2> HIDE DEF Z
  <2>6. /\ V \in Seq(Bytes) /\ Len(V) = Len(Y) + Len(Z) /\ Newline \notin ToSet(V)
        /\ \A i \in 1..Len(Z) : V[Len(Y) + i] = Z[i]
    <3>1. Y \in Seq(Bytes) /\ Z \in Seq(Bytes)
      BY <2>3, <2>5
    <3>2. ToSet(Y \o Z) = ToSet(Y) \cup ToSet(Z)
      BY <3>1, ConcatSet
    <3>3. /\ Y \o Z \in Seq(Bytes) /\ Len(Y \o Z) = Len(Y) + Len(Z)
          /\ \A i \in 1..Len(Y) : (Y \o Z)[i] = Y[i]
          /\ \A i \in 1..Len(Z) : (Y \o Z)[Len(Y) + i] = Z[i]
      BY <3>1, ConcatAt
    <3> QED BY <2>3, <2>5, <3>2, <3>3
  <2> HIDE DEF V
  <2>7. /\ w \in Seq(Bytes) /\ Len(w) = Len(X) + Len(V) /\ Newline \notin ToSet(w)
        /\ \A i \in 1..Len(X) : w[i] = X[i]
        /\ \A i \in 1..Len(V) : w[Len(X) + i] = V[i]
    <3>1. X \in Seq(Bytes) /\ V \in Seq(Bytes)
      BY <2>3, <2>6
    <3>2. ToSet(X \o V) = ToSet(X) \cup ToSet(V)
      BY <3>1, ConcatSet
    <3>3. /\ X \o V \in Seq(Bytes) /\ Len(X \o V) = Len(X) + Len(V)
          /\ \A i \in 1..Len(X) : (X \o V)[i] = X[i]
          /\ \A i \in 1..Len(V) : (X \o V)[Len(X) + i] = V[i]
      BY <3>1, ConcatAt
    <3> QED BY <2>3, <2>6, <3>2, <3>3
  <2> HIDE DEF w
  <2>8. w[1] = a[1] /\ Len(w) \in Nat \ {0}
    <3>1. 1 \in 1..Len(a) /\ 1 \in 1..Len(X) /\ Len(X) \in Nat \ {0}
      BY <2>1, <2>3
    <3>2. Len(V) \in Nat
      BY <2>6, LenProperties
    <3> QED BY <2>3, <2>7, <3>1, <3>2
  <2>9. w[Len(w)] = k[Len(k)]
    <3>1. Len(k) \in 1..Len(k) /\ Z[Len(Z)] = k[Len(k)] /\ Len(Z) \in Nat \ {0}
      BY <2>1, <2>4, <2>5
    <3>2. Len(Z) \in 1..Len(Z) /\ V[Len(V)] = Z[Len(Z)] /\ Len(V) \in Nat \ {0}
      BY <2>1, <2>3, <2>6, <3>1
    <3>3. Len(V) \in 1..Len(V)
      BY <3>2
    <3> QED BY <2>7, <3>1, <3>2, <3>3
  <2> QED BY <2>1, <2>2, <2>7, <2>8, <2>9
<1>2. CASE l.kind # "record"
  <2> DEFINE a == Spelling[l.intended]
             w == Append(a, Semicolon)
  <2>1. /\ a \in Seq(Bytes) /\ Len(a) \in Nat \ {0} /\ a[1] \notin Blanks /\ a[1] # Hash
        /\ Newline \notin ToSet(a)
    BY <1>2, WrittenMalformed, SpelledField, SpelledName DEF Text
  <2>2. w = Written(l)
    BY <1>2, WrittenMalformed
  <2> HIDE DEF a
  <2>3. /\ w \in Seq(Bytes) /\ Len(w) = Len(a) + 1 /\ Newline \notin ToSet(w)
        /\ \A i \in 1..Len(a) : w[i] = a[i]
        /\ w[Len(a) + 1] = Semicolon
    BY <1>a, <2>1
  <2>4. 1 \in 1..Len(a) /\ Len(a) + 1 \in Nat \ {0}
    BY <2>1
  <2> QED BY <1>0, <2>1, <2>2, <2>3, <2>4
<1> QED BY <1>1, <1>2

-----------------------------------------------------------------------------
(* The fields of a line, whole or cut off.                                 *)

\* The fields of a line that has no, one or two semicolons and more.
LEMMA FieldsOfOne ==
  ASSUME NEW s \in Seq(Bytes), Semicolon \notin ToSet(s)
  PROVE  ~IsRecord(s)
<1>1. SplitN(s, Semicolon, 3) = <<s>>
  BY OneOfThree
<1>2. Len(Fields(s)) = 1
  BY <1>1 DEF Fields
<1> QED BY <1>2 DEF IsRecord

LEMMA FieldsOfTwo ==
  ASSUME NEW s \in Seq(Bytes), NEW t \in Seq(Bytes),
         Semicolon \notin ToSet(s), Semicolon \notin ToSet(t)
  PROVE  ~IsRecord(Append(s, Semicolon) \o t)
<1> DEFINE w == Append(s, Semicolon) \o t
<1>0. Semicolon \in Bytes
  BY DEF Semicolon, Bytes
<1>1. SplitN(w, Semicolon, 3) = <<s, t>>
  BY <1>0, TwoOfThree
<1> HIDE DEF w
<1>2. Len(Fields(w)) = 2
  BY <1>1 DEF Fields
<1> QED BY <1>2 DEF IsRecord, w

LEMMA FieldsOfThree ==
  ASSUME NEW s \in Seq(Bytes), NEW t \in Seq(Bytes), NEW u \in Seq(Bytes),
         Semicolon \notin ToSet(s), Semicolon \notin ToSet(t)
  PROVE  Fields(Append(s, Semicolon) \o (Append(t, Semicolon) \o u))
           = <<Trimmed(s), Trimmed(t), Trimmed(u)>>
<1> DEFINE w == Append(s, Semicolon) \o (Append(t, Semicolon) \o u)
<1>0. Semicolon \in Bytes
  BY DEF Semicolon, Bytes
<1>1. SplitN(w, Semicolon, 3) = <<s, t, u>>
  BY <1>0, ThreeOfThree
<1> HIDE DEF w
<1>2. Fields(w) = [k \in 1..3 |-> Trimmed(<<s, t, u>>[k])]
  BY <1>1 DEF Fields
<1> QED BY <1>2 DEF w

\* The start of a key, after a blank.
LEMMA TrimmedStartOfKey ==
  ASSUME NEW k \in Seq(Bytes), Len(k) \in Nat \ {0}, k[1] \notin Blanks,
         NEW h \in 0..(1 + Len(k))
  PROVE  LET q == Trimmed(Cut(<<Space>> \o k, 1, h)) IN q \in Seq(Bytes) /\ IsPrefix(q, k)
<1> DEFINE p == <<Space>>
           z == p \o k
           c == Cut(z, 1, h)
           q == Trimmed(c)
           n == Len(k)
<1>0. p \in Seq(Bytes) /\ Len(p) = 1 /\ p[1] = Space /\ n \in Nat /\ Space \in Blanks
  BY DEF Space, Bytes, Blanks
<1> HIDE DEF p
<1>1. /\ z \in Seq(Bytes) /\ Len(z) = 1 + n /\ z[1] = Space
      /\ \A i \in 1..n : z[1 + i] = k[i]
  <2>1. /\ z \in Seq(Bytes) /\ Len(z) = Len(p) + n
        /\ \A i \in 1..Len(p) : z[i] = p[i]
        /\ \A i \in 1..n : z[Len(p) + i] = k[i]
    <3>1. p \in Seq(Bytes) /\ k \in Seq(Bytes)
      BY <1>0
    <3> QED BY <3>1, ConcatAt
  <2>2. 1 \in 1..Len(p)
    BY <1>0
  <2> QED BY <1>0, <2>1, <2>2
<1>2. /\ Len(c) = h /\ c \in Seq(Bytes)
      /\ \A i \in 1..h : c[i] = z[i]
  <2>1. h \in 0..Len(z)
    BY <1>1
  <2> HIDE DEF z
  <2> QED BY <1>1, <2>1, StartIsPrefix
<1>3. CASE h < 2
  <2>1. \A i \in 1..Len(c) : c[i] \in Blanks
    <3>1. \A i \in 1..h : i = 1
      BY <1>3
    <3> HIDE DEF c, z
    <3> QED BY <1>0, <1>1, <1>2, <3>1
  <2>2. q = <<>>
    <3> HIDE DEF c
    <3> QED BY <1>2, <2>1, TrimmedBlank
  <2>3. SubSeq(k, 1, 0) = <<>> /\ SubSeq(<<>>, 1, 0) = <<>> /\ Len(<<>>) = 0 /\ <<>> \in Seq(Bytes)
    BY SubSeqEmpty, EmptySeq
  <2>4. IsPrefix(<<>>, k)
    BY <1>0, <2>3 DEF IsPrefix
  <2> HIDE DEF q
  <2> QED BY <2>2, <2>3, <2>4 DEF q, c, z, p
<1>4. CASE h >= 2
  <2>1. 2 \in 1..Len(c) /\ c[2] = k[1] /\ c[1] = Space /\ 1 \in 1..n
    <3>1. 1 \in 1..n /\ 1 \in 1..h /\ 2 \in 1..h /\ z[1 + 1] = k[1]
      BY <1>1, <1>4
    <3> HIDE DEF c, z
    <3> QED BY <1>1, <1>2, <3>1
  <2>2. \A i \in 1..(2 - 1) : c[i] \in Blanks
    BY <1>0, <2>1
  <2>3. PICK j \in 2..Len(c) : Trimmed(c) = Cut(c, 2, j)
    <3> HIDE DEF c
    <3> QED BY <1>2, <2>1, <2>2, TrimmedFrom
  <2>4. j \in 2..h /\ j - 1 \in 0..n /\ j - 1 \in Nat
    BY <1>2, <2>3
  <2>5. Cut(c, 2, j) = Cut(z, 2, j)
    <3>1. /\ 2 \in 1..Len(c) /\ j \in 1..Len(c)
      BY <2>1, <2>4, <1>2
    <3>2. Cut(c, 2, j) \in Seq(Bytes) /\ Len(Cut(c, 2, j)) = j - 2 + 1
          /\ \A i \in 1..(j - 2 + 1) : Cut(c, 2, j)[i] = c[2 + i - 1]
      <4>1. 2 \in Nat \ {0} /\ j \in Int /\ j <= Len(c) /\ 2 <= j
        BY <2>4, <1>2
      <4> DEFINE two == 2
      <4>2. two \in Nat \ {0} /\ j \in Int /\ j <= Len(c) /\ c \in Seq(Bytes) /\ two <= j
        BY <4>1, <1>2
      <4> HIDE DEF c, two
      <4>3. /\ Cut(c, two, j) \in Seq(Bytes)
            /\ Len(Cut(c, two, j)) = IF two <= j THEN j - two + 1 ELSE 0
            /\ \A i \in 1..(j - two + 1) : Cut(c, two, j)[i] = c[two + i - 1]
        BY <4>2, CutType
      <4> QED BY <4>2, <4>3 DEF two
    <3>3. Cut(z, 2, j) \in Seq(Bytes) /\ Len(Cut(z, 2, j)) = j - 2 + 1
          /\ \A i \in 1..(j - 2 + 1) : Cut(z, 2, j)[i] = z[2 + i - 1]
      <4>1. 2 \in Nat \ {0} /\ j \in Int /\ j <= Len(z) /\ 2 <= j
        BY <2>4, <1>1
      <4> DEFINE two == 2
      <4>2. two \in Nat \ {0} /\ j \in Int /\ j <= Len(z) /\ z \in Seq(Bytes) /\ two <= j
        BY <4>1, <1>1
      <4> HIDE DEF z, two
      <4>3. /\ Cut(z, two, j) \in Seq(Bytes)
            /\ Len(Cut(z, two, j)) = IF two <= j THEN j - two + 1 ELSE 0
            /\ \A i \in 1..(j - two + 1) : Cut(z, two, j)[i] = z[two + i - 1]
        BY <4>2, CutType
      <4> QED BY <4>2, <4>3 DEF two
    <3>4. \A i \in 1..(j - 2 + 1) : c[2 + i - 1] = z[2 + i - 1]
      <4>1. \A i \in 1..(j - 2 + 1) : 2 + i - 1 \in 1..h
        BY <2>4
      <4> HIDE DEF c, z
      <4> QED BY <1>2, <4>1
    <3> DEFINE x == Cut(c, 2, j)
               y == Cut(z, 2, j)
    <3>5. x \in Seq(Bytes) /\ y \in Seq(Bytes) /\ Len(x) = Len(y) /\ \A i \in 1..Len(x) : x[i] = y[i]
      <4>1. \A i \in 1..(j - 2 + 1) : Cut(c, 2, j)[i] = Cut(z, 2, j)[i]
        <5> HIDE DEF c, z
        <5> QED BY <3>2, <3>3, <3>4
      <4> HIDE DEF c, z
      <4> QED BY <3>2, <3>3, <4>1
    <3> HIDE DEF x, y
    <3>6. x = y
      BY <3>5, SeqEqual
    <3> QED BY <3>6 DEF x, y
  <2>6. Cut(z, 2, j) = Cut(k, 1, j - 1)
    <3>1. 1 \in Nat \ {0} /\ j - 1 \in Int /\ j - 1 <= Len(k)
      BY <2>4
    <3>2. Cut(p \o k, Len(p) + 1, Len(p) + (j - 1)) = Cut(k, 1, j - 1)
      BY <1>0, <3>1, CutRight
    <3>3. Len(p) + 1 = 2 /\ Len(p) + (j - 1) = j
      BY <1>0, <2>4
    <3> QED BY <3>2, <3>3
  <2>7. IsPrefix(Cut(k, 1, j - 1), k) /\ Cut(k, 1, j - 1) \in Seq(Bytes)
    BY <2>4, StartIsPrefix
  <2> HIDE DEF c
  <2> QED BY <2>3, <2>5, <2>6, <2>7 DEF c, z, p
<1> QED BY <1>3, <1>4

\* The first bytes of a record line that are read as a record are one of the
\* same match and mailbox, and of a key that starts its key.
LEMMA StartOfRecord ==
  ASSUME NEW l \in Lines, l.kind = "record", NEW j \in 1..Len(Written(l)),
         IsRecord(Cut(Written(l), 1, j))
  PROVE  \E q \in Seq(Bytes) :
           /\ IsPrefix(q, Spelling[l.key])
           /\ Fields(Cut(Written(l), 1, j))
                = <<Spelling[l.match], Spelling[l.delivery], q>>
<1> DEFINE a == Spelling[l.match]
           b == Spelling[l.delivery]
           k == Spelling[l.key]
           X == Append(a, Semicolon)
           Y == Append(b, Semicolon)
           Z == <<Space>> \o k
           V == Y \o Z
           w == Written(l)
           c == Cut(w, 1, j)
<1>1. /\ a \in Seq(Bytes) /\ Semicolon \notin ToSet(a) /\ Trimmed(a) = a
      /\ b \in Seq(Bytes) /\ Semicolon \notin ToSet(b) /\ Trimmed(b) = b
      /\ k \in Seq(Bytes) /\ Len(k) \in Nat \ {0} /\ k[1] \notin Blanks
  BY WrittenRecord, SpelledField, SpelledMailbox, SpelledName DEF Text
<1>2. w = X \o V
  BY WrittenRecord
<1>3. j \in 1..Len(w) /\ IsRecord(c)
  OBVIOUS
<1> HIDE DEF a, b, k, w
<1>4. Len(a) \in Nat /\ Len(b) \in Nat
  BY <1>1, LenProperties
<1>5. /\ X \in Seq(Bytes) /\ Len(X) = Len(a) + 1 /\ X = a \o <<Semicolon>>
      /\ Y \in Seq(Bytes) /\ Len(Y) = Len(b) + 1 /\ Y = b \o <<Semicolon>>
      /\ <<Semicolon>> \in Seq(Bytes)
  <2>1. Semicolon \in Bytes
    BY DEF Semicolon, Bytes
  <2> QED BY <1>1, <2>1, AppendProperties, AppendIsConcat
<1>6. Z \in Seq(Bytes) /\ Len(Z) = 1 + Len(k)
  <2> DEFINE p == <<Space>>
  <2>1. p \in Seq(Bytes) /\ Len(p) = 1
    BY DEF Space, Bytes
  <2> HIDE DEF p
  <2>2. p \o k \in Seq(Bytes) /\ Len(p \o k) = Len(p) + Len(k)
    BY <1>1, <2>1, ConcatProperties
  <2> QED BY <2>1, <2>2 DEF p
<1> HIDE DEF X, Y, Z
<1>7. V \in Seq(Bytes) /\ Len(V) = Len(Y) + Len(Z)
  BY <1>5, <1>6, ConcatProperties
<1> HIDE DEF V
<1>8. Len(w) = Len(X) + Len(V)
  BY <1>2, <1>5, <1>7, ConcatProperties
<1> DEFINE s == <<Semicolon>>
<1> HIDE DEF s, c
<1>a. s \in Seq(Bytes) /\ X = a \o s /\ Y = b \o s
  BY <1>5 DEF s
<1>9. CASE j <= Len(a)
  <2>1. c = Cut(a, 1, j)
    <3>1. 1 \in Nat \ {0} /\ j \in Int /\ j <= Len(X)
      BY <1>4, <1>5, <1>9
    <3>2. Cut(X \o V, 1, j) = Cut(X, 1, j)
      BY <1>5, <1>7, <3>1, CutLeft
    <3>3. Cut(a \o s, 1, j) = Cut(a, 1, j)
      BY <1>1, <1>9, <1>a, <3>1, CutLeft
    <3> QED BY <1>2, <1>a, <3>2, <3>3 DEF c
  <2>2. j \in 0..Len(a)
    BY <1>4, <1>9
  <2>3. c \in Seq(Bytes) /\ Semicolon \notin ToSet(c)
    BY <1>1, <2>1, <2>2, StartIsPrefix
  <2> QED BY <1>3, <2>3, FieldsOfOne
<1>10. CASE j > Len(a) /\ j <= Len(a) + 1 + Len(b)
  <2> DEFINE i == j - (Len(a) + 1)
             d == Cut(b, 1, i)
  <2>1. i \in 0..Len(b) /\ Len(X) + i = j /\ i \in 0..Len(V) /\ i <= Len(Y)
    BY <1>1, <1>3, <1>4, <1>5, <1>6, <1>7, <1>8, <1>10
  <2>2. c = X \o Cut(V, 1, i)
    <3> HIDE DEF i
    <3>1. Cut(X \o V, 1, Len(X) + i) = X \o Cut(V, 1, i)
      BY <1>5, <1>7, <2>1, StartOfConcat
    <3> QED BY <1>2, <2>1, <3>1 DEF c
  <2>3. Cut(V, 1, i) = d
    <3>1. 1 \in Nat \ {0} /\ i \in Int /\ i <= Len(Y) /\ i <= Len(b)
      BY <2>1
    <3> HIDE DEF i
    <3>2. Cut(Y \o Z, 1, i) = Cut(Y, 1, i)
      BY <1>5, <1>6, <3>1, CutLeft
    <3>3. Cut(b \o s, 1, i) = Cut(b, 1, i)
      BY <1>1, <1>a, <3>1, CutLeft
    <3> QED BY <1>a, <3>2, <3>3 DEF V
  <2>4. d \in Seq(Bytes) /\ Semicolon \notin ToSet(d)
    <3> HIDE DEF i
    <3> QED BY <1>1, <2>1, StartIsPrefix
  <2> HIDE DEF d
  <2>5. ~IsRecord(X \o d)
    BY <1>1, <2>4, FieldsOfTwo DEF X
  <2> QED BY <1>3, <2>2, <2>3, <2>5
<1>11. CASE j > Len(a) + 1 + Len(b)
  <2> DEFINE h == j - (Len(X) + Len(Y))
             u == Cut(Z, 1, h)
             q == Trimmed(u)
  <2>1. /\ h \in 0..Len(Z) /\ h \in 0..(1 + Len(k))
        /\ Len(Y) + h \in 0..Len(V) /\ Len(X) + (Len(Y) + h) = j
    BY <1>1, <1>3, <1>4, <1>5, <1>6, <1>7, <1>8, <1>11
  <2> HIDE DEF h
  <2>2. Cut(V, 1, Len(Y) + h) = Y \o u
    BY <1>5, <1>6, <2>1, StartOfConcat DEF V
  <2>3. Cut(X \o V, 1, Len(X) + (Len(Y) + h)) = X \o Cut(V, 1, Len(Y) + h)
    BY <1>5, <1>7, <2>1, StartOfConcat
  <2>4. c = X \o (Y \o u)
    BY <1>2, <2>1, <2>2, <2>3 DEF c
  <2>5. u \in Seq(Bytes)
    BY <1>6, <2>1, StartIsPrefix
  <2>6. q \in Seq(Bytes) /\ IsPrefix(q, k)
    BY <1>1, <2>1, TrimmedStartOfKey DEF Z
  <2> HIDE DEF u
  <2>7. Fields(X \o (Y \o u)) = <<Trimmed(a), Trimmed(b), q>>
    BY <1>1, <2>5, FieldsOfThree DEF X, Y
  <2> QED BY <1>1, <2>4, <2>6, <2>7 DEF c, w, a, b, k
<1> QED BY <1>3, <1>4, <1>9, <1>10, <1>11

\* A whole record line is read as that record.
LEMMA WholeRecord ==
  ASSUME NEW l \in Lines, l.kind = "record"
  PROVE  /\ IsRecord(Written(l))
         /\ Fields(Written(l)) = <<Spelling[l.match], Spelling[l.delivery], Spelling[l.key]>>
<1> DEFINE a == Spelling[l.match]
           b == Spelling[l.delivery]
           k == Spelling[l.key]
           p == <<Space>>
           z == p \o k
<1>1. /\ a \in Seq(Bytes) /\ Semicolon \notin ToSet(a) /\ Trimmed(a) = a /\ a # <<>>
      /\ b \in Seq(Bytes) /\ Semicolon \notin ToSet(b) /\ Trimmed(b) = b
      /\ k \in Seq(Bytes) /\ Len(k) \in Nat \ {0} /\ k[1] \notin Blanks /\ k # <<>>
      /\ k[Len(k)] \notin Blanks
  BY WrittenRecord, SpelledField, SpelledMailbox, SpelledName DEF Text
<1>2. IsPrefix(KeyPrefix, k)
  BY WrittenRecord, RecordsAssumption
<1>3. Written(l) = Append(a, Semicolon) \o (Append(b, Semicolon) \o z)
  BY WrittenRecord
<1> HIDE DEF a, b, k
<1>4. p \in Seq(Bytes) /\ Len(p) = 1 /\ p[1] = Space /\ Space \in Blanks
  BY DEF Space, Bytes, Blanks
<1> HIDE DEF p
<1>5. /\ z \in Seq(Bytes) /\ Len(z) = 1 + Len(k) /\ z[1] = Space /\ z[2] = k[1]
      /\ z[1 + Len(k)] = k[Len(k)]
  <2>1. /\ z \in Seq(Bytes) /\ Len(z) = Len(p) + Len(k)
        /\ \A i \in 1..Len(p) : z[i] = p[i]
        /\ \A i \in 1..Len(k) : z[Len(p) + i] = k[i]
    <3>1. p \in Seq(Bytes) /\ k \in Seq(Bytes)
      BY <1>1, <1>4
    <3> QED BY <3>1, ConcatAt
  <2>2. 1 \in 1..Len(p) /\ 1 \in 1..Len(k) /\ Len(k) \in 1..Len(k) /\ Len(p) + 1 = 2
    BY <1>1, <1>4
  <2> QED BY <1>4, <2>1, <2>2
<1>6. Trimmed(z) = k
  <2> HIDE DEF z
  <2>1. 2 \in 1..Len(z) /\ z[2] \notin Blanks /\ \A i \in 1..(2 - 1) : z[i] \in Blanks
    BY <1>1, <1>4, <1>5
  <2>2. PICK j \in 2..Len(z) : /\ Trimmed(z) = Cut(z, 2, j)
                               /\ \A i \in (j + 1)..Len(z) : z[i] \in Blanks
    BY <1>5, <2>1, TrimmedFrom
  <2>3. j = 1 + Len(k)
    BY <1>1, <1>5, <2>2
  <2>4. Cut(p \o k, Len(p) + 1, Len(p) + Len(k)) = Cut(k, 1, Len(k))
    <3> DEFINE i == 1
               m == Len(k)
    <3>1. /\ i \in Nat \ {0} /\ m \in Int /\ m <= Len(k)
          /\ p \in Seq(Bytes) /\ k \in Seq(Bytes)
      BY <1>1, <1>4
    <3> HIDE DEF i, m
    <3>2. Cut(p \o k, Len(p) + i, Len(p) + m) = Cut(k, i, m)
      BY <3>1, CutRight
    <3> QED BY <3>2 DEF i, m
  <2>5. Cut(k, 1, Len(k)) = k
    BY <1>1, SubSeqFull DEF Cut
  <2>6. Len(p) + 1 = 2 /\ Len(p) + Len(k) = j
    BY <1>1, <1>4, <2>3
  <2> QED BY <2>2, <2>4, <2>5, <2>6 DEF z
<1> HIDE DEF z
<1>7. Fields(Written(l)) = <<a, b, k>>
  BY <1>1, <1>3, <1>5, <1>6, FieldsOfThree
<1>8. IsRecord(Written(l))
  <2> DEFINE f == <<a, b, k>>
  <2>1. Len(f) = 3 /\ f[1] = a /\ f[3] = k
    OBVIOUS
  <2>2. Fields(Written(l)) = f
    BY <1>7
  <2> HIDE DEF f
  <2> QED BY <1>1, <1>2, <2>1, <2>2 DEF IsRecord
<1> QED BY <1>7, <1>8 DEF a, b, k

\* A malformed line is none, and neither is what it starts with.
LEMMA StartOfMalformed ==
  ASSUME NEW l \in Lines, l.kind # "record", NEW j \in 1..Len(Written(l))
  PROVE  ~IsRecord(Cut(Written(l), 1, j))
<1> DEFINE a == Spelling[l.intended]
           X == Append(a, Semicolon)
           s == <<Semicolon>>
           e == <<>>
<1>1. a \in Seq(Bytes) /\ Semicolon \notin ToSet(a)
  BY WrittenMalformed, SpelledField, SpelledName DEF Text
<1>2. Written(l) = X
  BY WrittenMalformed
<1> HIDE DEF a
<1>3. X \in Seq(Bytes) /\ Len(X) = Len(a) + 1 /\ X = a \o s /\ s \in Seq(Bytes)
      /\ Len(a) \in Nat
  <2>1. Semicolon \in Bytes
    BY DEF Semicolon, Bytes
  <2> QED BY <1>1, <2>1, AppendProperties, AppendIsConcat, LenProperties
<1> HIDE DEF s
<1>4. CASE j <= Len(a)
  <2>1. 1 \in Nat \ {0} /\ j \in Int /\ j \in 0..Len(a)
    BY <1>3, <1>4
  <2>2. Cut(a \o s, 1, j) = Cut(a, 1, j)
    BY <1>1, <1>3, <1>4, <2>1, CutLeft
  <2>3. Cut(a, 1, j) \in Seq(Bytes) /\ Semicolon \notin ToSet(Cut(a, 1, j))
    BY <1>1, <2>1, StartIsPrefix
  <2>4. ~IsRecord(Cut(a, 1, j))
    BY <2>3, FieldsOfOne
  <2> QED BY <1>2, <1>3, <2>2, <2>4
<1>5. CASE ~(j <= Len(a))
  <2>1. j = Len(X)
    BY <1>2, <1>3, <1>5
  <2> HIDE DEF X
  <2>2. Cut(X, 1, j) = X
    BY <1>3, <2>1, SubSeqFull DEF Cut
  <2>3. e \in Seq(Bytes) /\ ToSet(e) = {}
    <3>1. e \in Seq(Bytes)
      BY EmptySeq
    <3> QED BY <3>1, NothingIn
  <2> HIDE DEF e
  <2>4. ~IsRecord(Append(a, Semicolon) \o e)
    BY <1>1, <2>3, FieldsOfTwo
  <2>5. X \o e = X
    BY <1>3, ConcatEmptySeq DEF e
  <2> QED BY <1>2, <2>2, <2>4, <2>5 DEF X
<1> QED BY <1>4, <1>5

LEMMA TrimmedType ==
  ASSUME NEW T, NEW s \in Seq(T)
  PROVE  Trimmed(s) \in Seq(T)
<1>1. CASE \A k \in 1..Len(s) : s[k] \in Blanks
  BY <1>1, TrimmedBlank, EmptySeq
<1>2. CASE ~(\A k \in 1..Len(s) : s[k] \in Blanks)
  <2> DEFINE dark == {k \in 1..Len(s) : s[k] \notin Blanks}
  <2>1. PICK n \in Nat : n \in dark
    BY <1>2, LenProperties
  <2>2. PICK i \in Nat : i \in dark /\ \A k \in 0..(i - 1) : k \notin dark
    <3> HIDE DEF dark
    <3> QED BY <2>1, LeastNumber
  <2>3. Len(s) \in Nat /\ i \in 1..Len(s) /\ s[i] \notin Blanks
    BY <2>2, LenProperties
  <2>4. \A k \in 1..(i - 1) : s[k] \in Blanks
    BY <2>2, <2>3
  <2>5. PICK j \in i..Len(s) : Trimmed(s) = Cut(s, i, j)
    BY <2>3, <2>4, TrimmedFrom
  <2>6. i \in Nat \ {0} /\ j \in Int /\ j <= Len(s)
    BY <2>3
  <2> QED BY <2>5, <2>6, CutType
<1> QED BY <1>1, <1>2

LEMMA SplitType ==
  ASSUME NEW T, NEW s \in Seq(T), NEW x
  PROVE  Split(s, x) \in Seq(Seq(T))
<1> DEFINE p == Places(s, x)
<1>1. p \in Seq(1..Len(s))
  BY PlacesType
<1> HIDE DEF p
<1>2. Between(s, p) \in Seq(Seq(T))
  BY <1>1, BetweenType
<1> QED BY <1>2 DEF Split, p

-----------------------------------------------------------------------------
(* The lines of a text.                                                    *)

TrimF == [s \in Seq(Bytes) |-> Trimmed(s)]
Loud == {s \in Seq(Bytes) : s # <<>> /\ Head(s) # Hash}

LEMMA TrimFAt == \A s \in Seq(Bytes) : TrimF[s] = Trimmed(s) /\ TrimF[s] \in Seq(Bytes)
BY TrimmedType DEF TrimF

\* TextLines, in the terms of ListLemmas.
LEMMA TextLinesAre ==
  ASSUME NEW s \in Seq(Bytes)
  PROVE  LET all == Image(TrimF, Split(s, Newline))
         IN  /\ all \in Seq(Seq(Bytes))
             /\ TextLines(s) = Keep(all, Where(all, Loud))
<1> DEFINE parts == Split(s, Newline)
           all == [k \in DOMAIN parts |-> Trimmed(parts[k])]
           S == {k \in DOMAIN all : all[k] # <<>> /\ Head(all[k]) # Hash}
<1>1. parts \in Seq(Seq(Bytes))
  BY SplitType
<1>2. TextLines(s) = Keep(all, S)
  BY DEF TextLines
<1> HIDE DEF parts
<1>3. \A k \in DOMAIN parts : parts[k] \in Seq(Bytes)
  BY <1>1, LenProperties
<1>4. all = Image(TrimF, parts)
  BY <1>3, TrimFAt DEF Image
<1>5. Image(TrimF, parts) \in Seq(Seq(Bytes))
  BY <1>1, TrimFAt, ImageType
<1> HIDE DEF all
<1>6. \A k \in DOMAIN all : all[k] \in Seq(Bytes)
  BY <1>4, <1>5, LenProperties
<1>7. S = Where(all, Loud)
  BY <1>6 DEF Where, Loud
<1> QED BY <1>2, <1>4, <1>5, <1>7 DEF parts

LEMMA TextLinesType ==
  ASSUME NEW s \in Seq(Bytes)
  PROVE  TextLines(s) \in Seq(Seq(Bytes))
BY TextLinesAre, KeepType

\* A line end parts the lines.
LEMMA TextLinesConcat ==
  ASSUME NEW s \in Seq(Bytes), NEW t \in Seq(Bytes)
  PROVE  TextLines(Append(s, Newline) \o t) = TextLines(s) \o TextLines(t)
<1> DEFINE w == Append(s, Newline) \o t
           a == Image(TrimF, Split(s, Newline))
           b == Image(TrimF, Split(t, Newline))
           c == Image(TrimF, Split(w, Newline))
           K(u) == Keep(u, Where(u, Loud))
<1>0. Newline \in Bytes
  BY DEF Newline, Bytes
<1>1. w \in Seq(Bytes)
  <2>1. Append(s, Newline) \in Seq(Bytes)
    BY <1>0, AppendProperties
  <2> QED BY <2>1, ConcatProperties
<1>2. Split(w, Newline) = Split(s, Newline) \o Split(t, Newline)
  BY <1>0, SplitConcat
<1>3. Split(s, Newline) \in Seq(Seq(Bytes)) /\ Split(t, Newline) \in Seq(Seq(Bytes))
  BY SplitType
<1> HIDE DEF w
<1>4. c = a \o b
  <2> DEFINE x == Split(s, Newline)
             y == Split(t, Newline)
             T == Seq(Bytes)
  <2>1. x \in Seq(T) /\ y \in Seq(T)
    BY <1>3
  <2> HIDE DEF x, y, T
  <2>2. Image(TrimF, x \o y) = Image(TrimF, x) \o Image(TrimF, y)
    BY <2>1, ImageConcat
  <2> QED BY <1>2, <2>2 DEF x, y
<1>5. a \in Seq(Seq(Bytes)) /\ b \in Seq(Seq(Bytes))
  BY TextLinesAre
<1>6. TextLines(s) = K(a) /\ TextLines(t) = K(b) /\ TextLines(w) = K(c)
  BY <1>1, TextLinesAre
<1> HIDE DEF a, b, c
<1>7. K(a \o b) = K(a) \o K(b)
  BY <1>5, KeepWhereConcat
<1> QED BY <1>4, <1>6, <1>7 DEF w

\* A text without line ends is one line, or none.
LEMMA TextLinesOne ==
  ASSUME NEW s \in Seq(Bytes), Newline \notin ToSet(s)
  PROVE  TextLines(s) = IF Trimmed(s) \in Loud THEN <<Trimmed(s)>> ELSE <<>>
<1> DEFINE t == Trimmed(s)
           e == <<>>
           one == <<t>>
<1>1. Split(s, Newline) = <<s>>
  BY SplitOne
<1>2. t \in Seq(Bytes) /\ TrimF[s] = t
  BY TrimFAt
<1>3. Image(TrimF, <<s>>) = <<t>>
  BY <1>2 DEF Image
<1>4. TextLines(s) = Keep(<<t>>, Where(<<t>>, Loud))
  BY <1>1, <1>3, TextLinesAre
<1>5. e \in Seq(Seq(Bytes)) /\ Append(e, t) = <<t>> /\ Keep(e, Where(e, Loud)) = e
  BY EmptySeq, KeepEmpty
<1> HIDE DEF t, e
<1>6. Keep(Append(e, t), Where(Append(e, t), Loud)) =
        IF t \in Loud THEN Append(Keep(e, Where(e, Loud)), t) ELSE Keep(e, Where(e, Loud))
  <2> DEFINE T == Seq(Bytes)
  <2>1. e \in Seq(T) /\ t \in T
    BY <1>2, <1>5
  <2> HIDE DEF T
  <2> QED BY <2>1, KeepWhereAppend
<1> QED BY <1>4, <1>5, <1>6 DEF t, e

LEMMA NoTextNoLines == TextLines(<<>>) = <<>>
<1> DEFINE e == <<>>
<1>1. e \in Seq(Bytes) /\ \A k \in 1..Len(e) : e[k] \in Blanks
  BY EmptySeq
<1>2. Newline \notin ToSet(e)
  BY <1>1, NothingIn
<1>3. Trimmed(e) = <<>>
  <2> HIDE DEF e
  <2> QED BY <1>1, TrimmedBlank
<1>4. <<>> \notin Loud
  BY DEF Loud
<1> HIDE DEF e
<1>5. TextLines(e) = <<>>
  BY <1>1, <1>2, <1>3, <1>4, TextLinesOne
<1> QED BY <1>5 DEF e

-----------------------------------------------------------------------------
(* The records and the failures of lines.                                  *)

FieldsF == [s \in Seq(Bytes) |-> Fields(s)]
Good == {s \in Seq(Bytes) : IsRecord(s)}
Bad == {s \in Seq(Bytes) : ~IsRecord(s)}

\* RecordsIn and FailuresIn, in the same terms.
LEMMA RecordsAre ==
  ASSUME NEW s \in Seq(Bytes)
  PROVE  LET lines == TextLines(s)
         IN  /\ lines \in Seq(Seq(Bytes))
             /\ RecordsIn(s) = Image(FieldsF, Keep(lines, Where(lines, Good)))
             /\ FailuresIn(s) = Keep(lines, Where(lines, Bad))
<1> DEFINE lines == TextLines(s)
           S == {k \in DOMAIN lines : IsRecord(lines[k])}
           R == {k \in DOMAIN lines : ~IsRecord(lines[k])}
           good == Keep(lines, S)
<1>1. lines \in Seq(Seq(Bytes))
  BY TextLinesType
<1>2. RecordsIn(s) = [k \in DOMAIN good |-> Fields(good[k])] /\ FailuresIn(s) = Keep(lines, R)
  BY DEF RecordsIn, FailuresIn
<1> HIDE DEF lines
<1>3. \A k \in DOMAIN lines : lines[k] \in Seq(Bytes)
  BY <1>1, LenProperties
<1>4. S = Where(lines, Good) /\ R = Where(lines, Bad)
  BY <1>3 DEF Where, Good, Bad
<1>5. good \in Seq(Seq(Bytes))
  <2> HIDE DEF S
  <2> QED BY <1>1, KeepType
<1> HIDE DEF good
<1>6. \A k \in DOMAIN good : good[k] \in Seq(Bytes)
  BY <1>5, LenProperties
<1>7. [k \in DOMAIN good |-> Fields(good[k])] = Image(FieldsF, good)
  BY <1>6 DEF Image, FieldsF
<1> QED BY <1>1, <1>2, <1>4, <1>7 DEF lines, good

\* Texts whose lines are those of one, and then those of the other.
LEMMA RecordsConcat ==
  ASSUME NEW s \in Seq(Bytes), NEW t \in Seq(Bytes), NEW w \in Seq(Bytes),
         TextLines(w) = TextLines(s) \o TextLines(t)
  PROVE  /\ RecordsIn(w) = RecordsIn(s) \o RecordsIn(t)
         /\ FailuresIn(w) = FailuresIn(s) \o FailuresIn(t)
<1> DEFINE a == TextLines(s)
           b == TextLines(t)
           T == Seq(Bytes)
           G(u) == Keep(u, Where(u, Good))
           F(u) == Keep(u, Where(u, Bad))
           x == G(a)
           y == G(b)
<1>1. /\ a \in Seq(T) /\ b \in Seq(T)
      /\ RecordsIn(s) = Image(FieldsF, x) /\ FailuresIn(s) = F(a)
      /\ RecordsIn(t) = Image(FieldsF, y) /\ FailuresIn(t) = F(b)
      /\ RecordsIn(w) = Image(FieldsF, G(a \o b)) /\ FailuresIn(w) = F(a \o b)
  BY RecordsAre
<1> HIDE DEF a, b, T
<1>2. G(a \o b) = x \o y /\ F(a \o b) = F(a) \o F(b)
  <2>1. a \in Seq(T) /\ b \in Seq(T)
    BY <1>1
  <2>2. G(a \o b) = x \o y
    BY <2>1, KeepWhereConcat
  <2>3. F(a \o b) = F(a) \o F(b)
    BY <2>1, KeepWhereConcat
  <2> QED BY <2>2, <2>3
<1>3. x \in Seq(T) /\ y \in Seq(T)
  BY <1>1, KeepType
<1> HIDE DEF x, y
<1>4. Image(FieldsF, x \o y) = Image(FieldsF, x) \o Image(FieldsF, y)
  BY <1>3, ImageConcat
<1> QED BY <1>1, <1>2, <1>4

\* Texts of no line and of one.
LEMMA RecordsOfNone ==
  ASSUME NEW s \in Seq(Bytes), TextLines(s) = <<>>
  PROVE  RecordsIn(s) = <<>> /\ FailuresIn(s) = <<>>
<1>1. Image(FieldsF, <<>>) = <<>>
  BY DEF Image
<1> QED BY <1>1, RecordsAre, KeepEmpty

LEMMA RecordsOfOne ==
  ASSUME NEW s \in Seq(Bytes), NEW l \in Seq(Bytes), TextLines(s) = <<l>>
  PROVE  /\ RecordsIn(s) = IF IsRecord(l) THEN <<Fields(l)>> ELSE <<>>
         /\ FailuresIn(s) = IF IsRecord(l) THEN <<>> ELSE <<l>>
<1> DEFINE e == <<>>
           v == Append(e, l)
<1>1. e \in Seq(Seq(Bytes)) /\ v = <<l>> /\ \A S : Keep(e, S) = e
  BY EmptySeq, KeepEmpty
<1>2. /\ RecordsIn(s) = Image(FieldsF, Keep(v, Where(v, Good)))
      /\ FailuresIn(s) = Keep(v, Where(v, Bad))
  BY <1>1, RecordsAre
<1> HIDE DEF e
<1>3. /\ Keep(v, Where(v, Good)) = IF l \in Good THEN Append(e, l) ELSE e
      /\ Keep(v, Where(v, Bad)) = IF l \in Bad THEN Append(e, l) ELSE e
  <2> DEFINE T == Seq(Bytes)
  <2>1. e \in Seq(T) /\ l \in T
    BY <1>1
  <2> HIDE DEF T
  <2>2. Keep(v, Where(v, Good)) =
          IF l \in Good THEN Append(Keep(e, Where(e, Good)), l) ELSE Keep(e, Where(e, Good))
    BY <2>1, KeepWhereAppend
  <2>3. Keep(v, Where(v, Bad)) =
          IF l \in Bad THEN Append(Keep(e, Where(e, Bad)), l) ELSE Keep(e, Where(e, Bad))
    BY <2>1, KeepWhereAppend
  <2> QED BY <1>1, <2>2, <2>3
<1>4. (l \in Good <=> IsRecord(l)) /\ (l \in Bad <=> ~IsRecord(l))
  BY DEF Good, Bad
<1>5. Image(FieldsF, <<l>>) = <<Fields(l)>> /\ Image(FieldsF, <<>>) = <<>>
  BY DEF Image, FieldsF
<1> QED BY <1>1, <1>2, <1>3, <1>4, <1>5 DEF e

Triple(l) == <<Spelling[l.match], Spelling[l.delivery], Spelling[l.key]>>

\* What a line is read as.
ReadOf(l) == IF l.kind = "record" THEN <<Triple(l)>> ELSE <<>>
FailedOf(l) == IF l.kind = "record" THEN 0 ELSE 1

\* The start of a line is read as nothing, or as its record with the start of
\* its key.
LEMMA StartOfLine ==
  ASSUME NEW l \in Lines, NEW j \in 1..Len(Written(l))
  PROVE  \E i \in 1..j : /\ j = Len(Written(l)) => i = j
                         /\ Cut(Written(l), 1, i) \in Seq(Bytes)
                         /\ Cut(Written(l), 1, j) \in Seq(Bytes)
                         /\ TextLines(Cut(Written(l), 1, j)) = <<Cut(Written(l), 1, i)>>
<1> DEFINE w == Written(l)
           p == Cut(w, 1, j)
<1>1. /\ w \in Seq(Bytes) /\ Len(w) \in Nat \ {0} /\ w[1] \notin Blanks /\ w[1] # Hash
      /\ w[Len(w)] \notin Blanks /\ Newline \notin ToSet(w)
  BY WrittenIsALine
<1> HIDE DEF w
<1>0. j \in 1..Len(w) /\ j \in 0..Len(w) /\ j \in Nat
  BY <1>1 DEF w
<1>2. /\ p \in Seq(Bytes) /\ Len(p) = j /\ Newline \notin ToSet(p)
      /\ \A k \in 1..j : p[k] = w[k]
  BY <1>0, <1>1, StartIsPrefix
<1>3. p[1] = w[1] /\ 1 \in 1..Len(p)
  <2>1. 1 \in 1..j
    BY <1>0
  <2> HIDE DEF p
  <2> QED BY <1>2, <2>1
<1>4. PICK i \in 1..j : /\ Trimmed(p) = Cut(p, 1, i)
                        /\ \A k \in (i + 1)..j : p[k] \in Blanks
  <2>1. p[1] \notin Blanks /\ \A k \in 1..(1 - 1) : p[k] \in Blanks
    BY <1>1, <1>3
  <2> HIDE DEF p
  <2>2. \E i \in 1..Len(p) : /\ Trimmed(p) = Cut(p, 1, i) /\ p[i] \notin Blanks
                             /\ \A k \in (i + 1)..Len(p) : p[k] \in Blanks
    BY <1>2, <1>3, <2>1, TrimmedFrom
  <2> QED BY <1>2, <2>2
<1>5. Cut(p, 1, i) = Cut(w, 1, i)
  <2> DEFINE x == Cut(p, 1, i)
             y == Cut(w, 1, i)
  <2>1. i \in 0..Len(p) /\ i \in 0..Len(w)
    BY <1>0, <1>2, <1>4
  <2>2. x \in Seq(Bytes) /\ Len(x) = i /\ \A k \in 1..i : x[k] = p[k]
    <3> HIDE DEF p
    <3> QED BY <1>2, <2>1, StartIsPrefix
  <2>3. y \in Seq(Bytes) /\ Len(y) = i /\ \A k \in 1..i : y[k] = w[k]
    BY <1>1, <2>1, StartIsPrefix
  <2>4. \A k \in 1..i : k \in 1..j
    BY <1>0
  <2> HIDE DEF x, y, p
  <2>5. \A k \in 1..Len(x) : x[k] = y[k]
    BY <1>2, <2>2, <2>3, <2>4
  <2>6. x = y
    BY <2>2, <2>3, <2>5, SeqEqual
  <2> QED BY <2>6 DEF x, y
<1>6. j = Len(w) => i = j
  <2>1. ASSUME j = Len(w), i # j PROVE FALSE
    <3>1. j \in (i + 1)..j /\ j \in 1..j
      BY <1>0, <2>1
    <3> HIDE DEF p
    <3> QED BY <1>1, <1>2, <1>4, <2>1, <3>1
  <2> QED BY <2>1
<1>7. Cut(w, 1, i) \in Loud /\ Cut(w, 1, i) \in Seq(Bytes)
  <2> DEFINE x == Cut(w, 1, i)
  <2>1. x \in Seq(Bytes) /\ Len(x) = i /\ \A k \in 1..i : x[k] = w[k]
    <3>1. i \in 0..Len(w)
      BY <1>0, <1>4
    <3> QED BY <1>1, <3>1, StartIsPrefix
  <2>2. 1 \in 1..i /\ i # 0
    BY <1>0
  <2> HIDE DEF x
  <2>3. x # <<>> /\ Head(x) = x[1] /\ x[1] # Hash
    BY <1>1, <2>1, <2>2
  <2>4. x \in Loud
    BY <2>1, <2>3 DEF Loud
  <2> QED BY <2>1, <2>4 DEF x
<1>8. TextLines(p) = <<Cut(w, 1, i)>>
  <2> HIDE DEF p
  <2> QED BY <1>2, <1>4, <1>5, <1>7, TextLinesOne
<1> QED BY <1>2, <1>6, <1>7, <1>8 DEF p, w

LEMMA WholeLine ==
  ASSUME NEW l \in Lines
  PROVE  /\ TextLines(Written(l)) = <<Written(l)>>
         /\ RecordsIn(Written(l)) = ReadOf(l)
         /\ Len(FailuresIn(Written(l))) = FailedOf(l)
<1> DEFINE w == Written(l)
           j == Len(w)
<1>1. w \in Seq(Bytes) /\ j \in 1..Len(w)
  BY WrittenIsALine
<1>2. Cut(w, 1, j) = w
  BY <1>1, SubSeqFull DEF Cut
<1>3. TextLines(w) = <<w>>
  BY <1>1, <1>2, StartOfLine
<1>4. /\ RecordsIn(w) = IF IsRecord(w) THEN <<Fields(w)>> ELSE <<>>
      /\ FailuresIn(w) = IF IsRecord(w) THEN <<>> ELSE <<w>>
  <2> HIDE DEF w
  <2> QED BY <1>1, <1>3, RecordsOfOne
<1>5. CASE l.kind = "record"
  <2>1. IsRecord(w) /\ Fields(w) = Triple(l)
    BY <1>5, WholeRecord DEF Triple
  <2> HIDE DEF w
  <2> QED BY <1>3, <1>4, <1>5, <2>1, EmptySeq DEF ReadOf, FailedOf, w
<1>6. CASE l.kind # "record"
  <2>1. ~IsRecord(w)
    BY <1>1, <1>2, <1>6, StartOfMalformed
  <2>2. Len(<<w>>) = 1
    OBVIOUS
  <2> HIDE DEF w
  <2> QED BY <1>3, <1>4, <1>6, <2>1, <2>2 DEF ReadOf, FailedOf, w
<1> QED BY <1>5, <1>6

-----------------------------------------------------------------------------
(* A file.                                                                 *)

LineF == [l \in Lines |-> Append(Written(l), Newline)]

LEMMA LineFAt ==
  \A l \in Lines : LineF[l] = Append(Written(l), Newline) /\ LineF[l] \in Seq(Bytes)
<1> SUFFICES ASSUME NEW l \in Lines
             PROVE  LineF[l] = Append(Written(l), Newline) /\ LineF[l] \in Seq(Bytes)
  OBVIOUS
<1>1. Written(l) \in Seq(Bytes) /\ Newline \in Bytes
  BY WrittenIsALine DEF Newline, Bytes
<1>2. LineF[l] = Append(Written(l), Newline)
  BY DEF LineF
<1> QED BY <1>1, <1>2, AppendProperties

\* A file is its comment and its lines, each with its end.
LEMMA AsFileIs ==
  ASSUME NEW ls \in Seq(Lines)
  PROVE  /\ AsFile(ls) = <<Hash, Newline>> \o FlattenSeq(Image(LineF, ls))
         /\ Image(LineF, ls) \in Seq(Seq(Bytes))
         /\ FlattenSeq(Image(LineF, ls)) \in Seq(Bytes)
         /\ AsFile(ls) \in Seq(Bytes)
<1>1. ASSUME NEW k \in DOMAIN ls PROVE Written(ls[k]) \o <<Newline>> = LineF[ls[k]]
  <2>1. ls[k] \in Lines
    BY LenProperties
  <2>2. Written(ls[k]) \in Seq(Bytes) /\ Newline \in Bytes
    BY <2>1, WrittenIsALine DEF Newline, Bytes
  <2> QED BY <2>1, <2>2, LineFAt, AppendIsConcat
<1>2. [k \in DOMAIN ls |-> Written(ls[k]) \o <<Newline>>] = Image(LineF, ls)
  BY <1>1 DEF Image
<1>3. Image(LineF, ls) \in Seq(Seq(Bytes))
  BY LineFAt, ImageType
<1>4. FlattenSeq(Image(LineF, ls)) \in Seq(Bytes)
  BY <1>3, FlattenType
<1>5. <<Hash, Newline>> \in Seq(Bytes)
  BY DEF Hash, Newline, Bytes
<1>6. AsFile(ls) = <<Hash, Newline>> \o FlattenSeq(Image(LineF, ls))
  BY <1>2 DEF AsFile
<1> DEFINE h == <<Hash, Newline>>
           f == FlattenSeq(Image(LineF, ls))
<1>7. h \o f \in Seq(Bytes)
  <2>1. h \in Seq(Bytes) /\ f \in Seq(Bytes)
    BY <1>4, <1>5
  <2> HIDE DEF h, f
  <2> QED BY <2>1, ConcatProperties
<1> QED BY <1>3, <1>4, <1>6, <1>7

LEMMA AsFileEmpty == AsFile(<<>>) = <<Hash, Newline>>
<1> DEFINE h == <<Hash, Newline>>
           e == <<>>
<1>1. e \in Seq(Lines) /\ Image(LineF, e) = e
  BY EmptySeq DEF Image
<1>2. AsFile(e) = h \o e
  BY <1>1, AsFileIs, FlattenEmpty
<1>3. h \in Seq(Bytes)
  BY DEF Hash, Newline, Bytes
<1> HIDE DEF h
<1> QED BY <1>2, <1>3, ConcatEmptySeq DEF h

LEMMA AsFileAppend ==
  ASSUME NEW ls \in Seq(Lines), NEW l \in Lines
  PROVE  /\ AsFile(Append(ls, l)) = AsFile(ls) \o Append(Written(l), Newline)
         /\ Append(ls, l) \in Seq(Lines)
<1> DEFINE h == <<Hash, Newline>>
           i == Image(LineF, ls)
           f == FlattenSeq(i)
           m == Append(ls, l)
           x == LineF[l]
<1>0. m \in Seq(Lines)
  BY AppendProperties
<1>1. h \in Seq(Bytes)
  BY DEF Hash, Newline, Bytes
<1>2. i \in Seq(Seq(Bytes)) /\ f \in Seq(Bytes) /\ x \in Seq(Bytes)
  BY AsFileIs, LineFAt
<1>3. AsFile(ls) = h \o f /\ AsFile(m) = h \o FlattenSeq(Image(LineF, m))
  BY <1>0, AsFileIs
<1>4. Image(LineF, m) = Append(i, x)
  BY ImageAppend
<1>5. FlattenSeq(Append(i, x)) = f \o x
  <2> HIDE DEF i, x
  <2> QED BY <1>2, FlattenAppend
<1> HIDE DEF h, f, x
<1>6. (h \o f) \o x = h \o (f \o x)
  BY <1>1, <1>2, ConcatAssociative
<1> QED BY <1>0, <1>3, <1>4, <1>5, <1>6, LineFAt DEF x

LEMMA AsFileEnds ==
  ASSUME NEW ls \in Seq(Lines)
  PROVE  \E y \in Seq(Bytes) : AsFile(ls) = Append(y, Newline)
<1>1. CASE ls = <<>>
  <2> DEFINE h == <<Hash>>
  <2>1. h \in Seq(Bytes) /\ Newline \in Bytes
    BY DEF Hash, Bytes, Newline
  <2>2. Append(h, Newline) = <<Hash, Newline>>
    BY <2>1, PairConcat, AppendIsConcat
  <2> QED BY <1>1, <2>1, <2>2, AsFileEmpty
<1>2. CASE ls # <<>>
  <2>1. PICK m \in Seq(Lines), l \in Lines : ls = Append(m, l)
    BY <1>2, SequenceEmptyOrAppend
  <2>2. AsFile(ls) = AsFile(m) \o Append(Written(l), Newline)
    BY <2>1, AsFileAppend
  <2>3. AsFile(m) \in Seq(Bytes) /\ Written(l) \in Seq(Bytes) /\ Newline \in Bytes
    BY AsFileIs, WrittenIsALine DEF Newline, Bytes
  <2>4. AsFile(m) \o Append(Written(l), Newline) = Append(AsFile(m) \o Written(l), Newline)
    BY <2>3, ConcatAppend
  <2>5. AsFile(m) \o Written(l) \in Seq(Bytes)
    BY <2>3, ConcatProperties
  <2> QED BY <2>2, <2>4, <2>5
<1> QED BY <1>1, <1>2

\* What follows a file is read after it.
LEMMA AfterFile ==
  ASSUME NEW ls \in Seq(Lines), NEW t \in Seq(Bytes)
  PROVE  /\ TextLines(AsFile(ls) \o t) = TextLines(AsFile(ls)) \o TextLines(t)
         /\ RecordsIn(AsFile(ls) \o t) = RecordsIn(AsFile(ls)) \o RecordsIn(t)
         /\ FailuresIn(AsFile(ls) \o t) = FailuresIn(AsFile(ls)) \o FailuresIn(t)
<1> DEFINE f == AsFile(ls)
           e == <<>>
<1>1. PICK y \in Seq(Bytes) : f = Append(y, Newline)
  BY AsFileEnds
<1>2. f \in Seq(Bytes)
  BY AsFileIs
<1> HIDE DEF f
<1>3. TextLines(f \o t) = TextLines(y) \o TextLines(t)
  BY <1>1, TextLinesConcat
<1>4. TextLines(f) = TextLines(y)
  <2>1. e \in Seq(Bytes) /\ TextLines(e) = e
    BY NoTextNoLines, EmptySeq
  <2> HIDE DEF e
  <2>2. TextLines(f \o e) = TextLines(y) \o TextLines(e)
    BY <1>1, <2>1, TextLinesConcat
  <2>3. f \o e = f
    BY <1>2, ConcatEmptySeq DEF e
  <2> DEFINE ty == TextLines(y)
  <2>4. ty \in Seq(Seq(Bytes))
    BY TextLinesType
  <2> HIDE DEF ty
  <2>5. ty \o <<>> = ty
    BY <2>4, ConcatEmptySeq
  <2> QED BY <2>1, <2>2, <2>3, <2>5 DEF ty, e
<1>5. TextLines(f \o t) = TextLines(f) \o TextLines(t)
  BY <1>3, <1>4
<1>6. f \o t \in Seq(Bytes)
  BY <1>2, ConcatProperties
<1> DEFINE w == f \o t
<1> HIDE DEF w
<1>7. RecordsIn(w) = RecordsIn(f) \o RecordsIn(t) /\ FailuresIn(w) = FailuresIn(f) \o FailuresIn(t)
  BY <1>2, <1>5, <1>6, RecordsConcat DEF w
<1> QED BY <1>5, <1>7 DEF w, f

\* A line with its end.
LEMMA EndedLine ==
  ASSUME NEW l \in Lines
  PROVE  /\ RecordsIn(Append(Written(l), Newline)) = ReadOf(l)
         /\ Len(FailuresIn(Append(Written(l), Newline))) = FailedOf(l)
<1> DEFINE w == Written(l)
           v == Append(w, Newline)
           e == <<>>
<1>1. w \in Seq(Bytes) /\ Newline \in Bytes /\ v \in Seq(Bytes)
  <2>1. w \in Seq(Bytes) /\ Newline \in Bytes
    BY WrittenIsALine DEF Newline, Bytes
  <2> QED BY <2>1, AppendProperties
<1>2. TextLines(w) = <<w>> /\ RecordsIn(w) = ReadOf(l) /\ Len(FailuresIn(w)) = FailedOf(l)
  BY WholeLine
<1> HIDE DEF w
<1>3. TextLines(v) = <<w>>
  <2>1. e \in Seq(Bytes) /\ TextLines(e) = e
    BY NoTextNoLines, EmptySeq
  <2> HIDE DEF e
  <2>2. TextLines(v \o e) = TextLines(w) \o TextLines(e)
    BY <1>1, <2>1, TextLinesConcat
  <2> HIDE DEF v
  <2>3. v \o e = v
    BY <1>1, ConcatEmptySeq DEF e
  <2> DEFINE one == <<w>>
  <2>4. one \in Seq(Seq(Bytes))
    BY <1>1
  <2> HIDE DEF one
  <2>5. one \o <<>> = one
    BY <2>4, ConcatEmptySeq
  <2> QED BY <1>2, <2>1, <2>2, <2>3, <2>5 DEF one, e
<1>4. RecordsIn(v) = RecordsIn(w) /\ FailuresIn(v) = FailuresIn(w)
  <2>1. /\ RecordsIn(w) = IF IsRecord(w) THEN <<Fields(w)>> ELSE <<>>
        /\ FailuresIn(w) = IF IsRecord(w) THEN <<>> ELSE <<w>>
    BY <1>1, <1>2, RecordsOfOne
  <2> HIDE DEF v
  <2>2. /\ RecordsIn(v) = IF IsRecord(w) THEN <<Fields(w)>> ELSE <<>>
        /\ FailuresIn(v) = IF IsRecord(w) THEN <<>> ELSE <<w>>
    BY <1>1, <1>3, RecordsOfOne
  <2> QED BY <2>1, <2>2
<1> QED BY <1>2, <1>4 DEF v, w

\* The comment at the top is no line.
LEMMA EmptyFile == RecordsIn(AsFile(<<>>)) = <<>> /\ FailuresIn(AsFile(<<>>)) = <<>>
<1> DEFINE h == <<Hash>>
           f == Append(h, Newline)
           e == <<>>
<1>1. h \in Seq(Bytes) /\ h # <<>> /\ Len(h) = 1 /\ h[1] = Hash /\ ToSet(h) = {Hash} /\ Newline \in Bytes
  BY DEF Hash, Bytes, ToSet, Newline
<1>2. Hash \notin Blanks /\ Hash # Newline
  BY DEF Hash, Blanks, Space, Newline
<1>3. AsFile(<<>>) = f
  <2>1. f = <<Hash, Newline>>
    BY <1>1, AppendIsConcat, PairConcat
  <2> QED BY <2>1, AsFileEmpty
<1> HIDE DEF h
<1>4. Trimmed(h) = h
  BY <1>1, <1>2, TrimmedField
<1>5. h \notin Loud
  <2>1. h # <<>> => Head(h) = Hash
    BY <1>1
  <2> QED BY <2>1 DEF Loud
<1>6. TextLines(h) = <<>>
  BY <1>1, <1>2, <1>4, <1>5, TextLinesOne
<1>7. f \in Seq(Bytes)
  BY <1>1, AppendProperties
<1>8. TextLines(f) = <<>>
  <2>1. e \in Seq(Bytes) /\ TextLines(e) = e
    BY NoTextNoLines, EmptySeq
  <2> HIDE DEF e
  <2>2. TextLines(f \o e) = TextLines(h) \o TextLines(e)
    BY <1>1, <2>1, TextLinesConcat
  <2> HIDE DEF f
  <2>3. f \o e = f
    BY <1>7, ConcatEmptySeq DEF e
  <2>4. <<>> \o e = <<>>
    BY <2>1, ConcatEmptySeq DEF e
  <2> QED BY <1>6, <2>1, <2>2, <2>3, <2>4 DEF e
<1> HIDE DEF f
<1> QED BY <1>3, <1>7, <1>8, RecordsOfNone

Rec == {l \in Lines : l.kind = "record"}
Mal == {l \in Lines : l.kind = "malformed"}
SpellF == [l \in Rec |-> Triple(l)]

LEMMA KindsOfLines ==
  ASSUME NEW l \in Lines
  PROVE  (l.kind = "record" <=> l \in Rec) /\ (l.kind # "record" <=> l \in Mal)
BY DEF Rec, Mal, Lines, Records, Malformed

\* Valid and Failures, in the terms of ListLemmas.
LEMMA ValidAre ==
  ASSUME NEW ls \in Seq(Lines)
  PROVE  /\ Valid(ls) = Keep(ls, Where(ls, Rec)) /\ Valid(ls) \in Seq(Rec)
         /\ Failures(ls) = Keep(ls, Where(ls, Mal)) /\ Failures(ls) \in Seq(Lines)
<1>1. \A i \in DOMAIN ls : ls[i] \in Lines
  BY LenProperties
<1>2. {i \in DOMAIN ls : ls[i].kind = "record"} = Where(ls, Rec)
  BY <1>1 DEF Where, Rec
<1>3. {i \in DOMAIN ls : ls[i].kind = "malformed"} = Where(ls, Mal)
  BY <1>1 DEF Where, Mal
<1>4. Valid(ls) = Keep(ls, Where(ls, Rec)) /\ Failures(ls) = Keep(ls, Where(ls, Mal))
  BY <1>2, <1>3 DEF Valid, Failures
<1> DEFINE S == Where(ls, Rec)
           R == Where(ls, Mal)
<1>5. \A i \in S : i \in DOMAIN ls => ls[i] \in Rec
  BY DEF Where
<1> HIDE DEF S, R
<1>6. Keep(ls, S) \in Seq(Lines) /\ Keep(ls, R) \in Seq(Lines)
  BY KeepType
<1>7. ToSet(Keep(ls, S)) \subseteq Rec
  <2>1. ToSet(Keep(ls, S)) = {ls[i] : i \in S \cap DOMAIN ls}
    BY KeepSet
  <2> QED BY <1>5, <2>1
<1>8. Keep(ls, S) \in Seq(Rec)
  BY <1>6, <1>7, SeqOfItsSet
<1> QED BY <1>4, <1>6, <1>8 DEF S, R

LEMMA SpelledAppend ==
  ASSUME NEW ls \in Seq(Lines), NEW l \in Lines
  PROVE  /\ Spelled(Valid(Append(ls, l))) = Spelled(Valid(ls)) \o ReadOf(l)
         /\ Len(Failures(Append(ls, l))) = Len(Failures(ls)) + FailedOf(l)
         /\ Len(Failures(ls)) \in Nat
<1> DEFINE m == Append(ls, l)
           v == Valid(ls)
           f == Failures(ls)
<1>1. m \in Seq(Lines)
  BY AppendProperties
<1>2. ASSUME NEW r \in Seq(Rec) PROVE Spelled(r) = Image(SpellF, r)
  <2>1. \A k \in DOMAIN r : r[k] \in Rec
    BY LenProperties
  <2> QED BY <2>1 DEF Spelled, Image, SpellF, Triple
<1>3. Valid(m) = IF l \in Rec THEN Append(v, l) ELSE v
  <2>1. Keep(m, Where(m, Rec)) =
          IF l \in Rec THEN Append(Keep(ls, Where(ls, Rec)), l) ELSE Keep(ls, Where(ls, Rec))
    BY KeepWhereAppend
  <2> QED BY <1>1, <2>1, ValidAre
<1>4. Failures(m) = IF l \in Mal THEN Append(f, l) ELSE f
  <2>1. Keep(m, Where(m, Mal)) =
          IF l \in Mal THEN Append(Keep(ls, Where(ls, Mal)), l) ELSE Keep(ls, Where(ls, Mal))
    BY KeepWhereAppend
  <2> QED BY <1>1, <2>1, ValidAre
<1>5. v \in Seq(Rec) /\ f \in Seq(Lines) /\ Len(f) \in Nat
  BY ValidAre, LenProperties
<1>6. Valid(m) \in Seq(Rec)
  BY <1>1, ValidAre
<1> HIDE DEF m, v, f
<1>7. CASE l.kind = "record"
  <2>1. l \in Rec /\ l \notin Mal
    BY <1>7, KindsOfLines
  <2>2. Image(SpellF, Append(v, l)) = Append(Image(SpellF, v), SpellF[l])
    BY <1>5, <2>1, ImageAppend
  <2>3. SpellF[l] = Triple(l)
    BY <2>1 DEF SpellF
  <2> DEFINE U == {SpellF[e] : e \in Rec}
             i == Image(SpellF, v)
             x == SpellF[l]
  <2>4. x \in U /\ \A e \in Rec : SpellF[e] \in U
    BY <2>1
  <2> HIDE DEF U, x
  <2>5. i \in Seq(U)
    BY <1>5, <2>4, ImageType
  <2> HIDE DEF i
  <2>6. Append(i, x) = i \o <<x>>
    BY <2>4, <2>5, AppendIsConcat
  <2>7. Spelled(Valid(m)) = Append(i, x)
    BY <1>2, <1>3, <1>6, <2>1, <2>2 DEF i, x
  <2>8. Spelled(v) = i
    BY <1>2, <1>5 DEF i
  <2>9. ReadOf(l) = <<x>> /\ FailedOf(l) = 0
    BY <1>7, <2>3 DEF ReadOf, FailedOf, x
  <2>10. Failures(m) = f
    BY <1>4, <2>1
  <2> QED BY <1>5, <2>6, <2>7, <2>8, <2>9, <2>10 DEF m, v, f
<1>8. CASE l.kind # "record"
  <2>1. l \notin Rec /\ l \in Mal
    BY <1>8, KindsOfLines
  <2>2. Valid(m) = v /\ Failures(m) = Append(f, l)
    BY <1>3, <1>4, <2>1
  <2>3. Len(Append(f, l)) = Len(f) + 1
    BY <1>5, AppendProperties
  <2>4. ReadOf(l) = <<>> /\ FailedOf(l) = 1
    BY <1>8 DEF ReadOf, FailedOf
  <2> DEFINE U == {SpellF[e] : e \in Rec}
             i == Image(SpellF, v)
  <2>5. \A e \in Rec : SpellF[e] \in U
    OBVIOUS
  <2> HIDE DEF U
  <2>6. i \in Seq(U)
    BY <1>5, <2>5, ImageType
  <2>7. Spelled(v) = i
    BY <1>2, <1>5
  <2> HIDE DEF i
  <2>8. i \o <<>> = i
    BY <2>6, ConcatEmptySeq
  <2> QED BY <1>5, <2>2, <2>3, <2>4, <2>7, <2>8 DEF m, v, f
<1> QED BY <1>7, <1>8

LEMMA NothingSpelled == Spelled(Valid(<<>>)) = <<>> /\ Len(Failures(<<>>)) = 0
<1>1. Valid(<<>>) = <<>> /\ Failures(<<>>) = <<>>
  BY KeepEmpty DEF Valid, Failures
<1>2. Spelled(<<>>) = <<>>
  BY DEF Spelled
<1> QED BY <1>1, <1>2, EmptySeq

\* Records and failures have lengths.
LEMMA RecordsType ==
  ASSUME NEW s \in Seq(Bytes)
  PROVE  /\ RecordsIn(s) \in Seq({FieldsF[e] : e \in Seq(Bytes)})
         /\ FailuresIn(s) \in Seq(Seq(Bytes))
<1> DEFINE lines == TextLines(s)
           U == {FieldsF[e] : e \in Seq(Bytes)}
           g == Keep(lines, Where(lines, Good))
<1>1. /\ lines \in Seq(Seq(Bytes))
      /\ RecordsIn(s) = Image(FieldsF, g)
      /\ FailuresIn(s) = Keep(lines, Where(lines, Bad))
  BY RecordsAre
<1>2. \A e \in Seq(Bytes) : FieldsF[e] \in U
  OBVIOUS
<1> HIDE DEF lines, U
<1>3. g \in Seq(Seq(Bytes)) /\ Keep(lines, Where(lines, Bad)) \in Seq(Seq(Bytes))
  BY <1>1, KeepType
<1> HIDE DEF g
<1>4. Image(FieldsF, g) \in Seq(U)
  BY <1>2, <1>3, ImageType
<1> QED BY <1>1, <1>3, <1>4 DEF U

\* A file is read as it was written.
LEMMA FileIsRead ==
  ASSUME NEW ls \in Seq(Lines)
  PROVE  /\ RecordsIn(AsFile(ls)) = Spelled(Valid(ls))
         /\ Len(FailuresIn(AsFile(ls))) = Len(Failures(ls))
<1> DEFINE S == {m \in Seq(Lines) : /\ RecordsIn(AsFile(m)) = Spelled(Valid(m))
                                    /\ Len(FailuresIn(AsFile(m))) = Len(Failures(m))}
<1>1. <<>> \in S
  BY EmptyFile, NothingSpelled, EmptySeq
<1>2. ASSUME NEW m \in Seq(Lines), m \in S, NEW l \in Lines PROVE Append(m, l) \in S
  <2> DEFINE n == Append(m, l)
             f == AsFile(m)
             v == Append(Written(l), Newline)
  <2>1. n \in Seq(Lines) /\ AsFile(n) = f \o v
    BY AsFileAppend
  <2>2. f \in Seq(Bytes) /\ v \in Seq(Bytes)
    BY AsFileIs, LineFAt
  <2>3. RecordsIn(v) = ReadOf(l) /\ Len(FailuresIn(v)) = FailedOf(l)
    BY EndedLine
  <2> HIDE DEF v
  <2>4. /\ RecordsIn(f \o v) = RecordsIn(f) \o RecordsIn(v)
        /\ FailuresIn(f \o v) = FailuresIn(f) \o FailuresIn(v)
    BY <2>2, AfterFile
  <2>5. RecordsIn(f) = Spelled(Valid(m)) /\ Len(FailuresIn(f)) = Len(Failures(m))
    BY <1>2
  <2>6. Len(FailuresIn(f) \o FailuresIn(v)) = Len(FailuresIn(f)) + Len(FailuresIn(v))
    <3>1. FailuresIn(f) \in Seq(Seq(Bytes)) /\ FailuresIn(v) \in Seq(Seq(Bytes))
      BY <2>2, RecordsType
    <3> HIDE DEF f
    <3> QED BY <3>1, ConcatProperties
  <2> HIDE DEF f
  <2>7. RecordsIn(AsFile(n)) = Spelled(Valid(n))
    BY <2>1, <2>3, <2>4, <2>5, SpelledAppend
  <2>8. Len(FailuresIn(AsFile(n))) = Len(Failures(n))
    BY <2>1, <2>3, <2>4, <2>5, <2>6, SpelledAppend
  <2> QED BY <2>1, <2>7, <2>8
<1>3. ls \in S
  <2> HIDE DEF S
  <2> QED BY <1>1, <1>2, SeqSetInduction
<1> QED BY <1>3

-----------------------------------------------------------------------------
(* A file that is cut off.                                                 *)

\* What is read is what there was, except at its end.
OnlyTheEnd(read, whole) ==
  /\ Len(read) <= Len(whole)
  /\ \A k \in DOMAIN read :
       \/ read[k] = whole[k]
       \/ /\ k = Len(read)
          /\ read[k][1] = whole[k][1] /\ read[k][2] = whole[k][2]
          /\ IsPrefix(read[k][3], whole[k][3])

\* A file that is not cut, one that grows, one that loses of its last line,
\* and one of which no more is left than of the comment at its top.
LEMMA NothingLost ==
  ASSUME NEW U, NEW s \in Seq(U), NEW t \in Seq(U)
  PROVE  OnlyTheEnd(s, s \o t)
<1>1. /\ s \o t \in Seq(U) /\ Len(s \o t) = Len(s) + Len(t)
      /\ \A i \in 1..Len(s) : (s \o t)[i] = s[i]
  BY ConcatAt
<1>2. Len(s) \in Nat /\ Len(t) \in Nat /\ DOMAIN s = 1..Len(s)
  BY LenProperties
<1> QED BY <1>1, <1>2 DEF OnlyTheEnd

LEMMA MoreToLose ==
  ASSUME NEW U, NEW r \in Seq(U), NEW s \in Seq(U), NEW t \in Seq(U), OnlyTheEnd(r, s)
  PROVE  OnlyTheEnd(r, s \o t)
<1> DEFINE w == s \o t
<1>1. /\ w \in Seq(U) /\ Len(w) = Len(s) + Len(t)
      /\ \A i \in 1..Len(s) : w[i] = s[i]
  BY ConcatAt
<1>2. Len(s) \in Nat /\ Len(t) \in Nat /\ Len(r) \in Nat /\ DOMAIN r = 1..Len(r)
  BY LenProperties
<1>3. Len(r) <= Len(s)
  BY DEF OnlyTheEnd
<1>4. \A k \in DOMAIN r : k \in 1..Len(s)
  BY <1>2, <1>3
<1> HIDE DEF w
<1>5. \A k \in DOMAIN r : w[k] = s[k]
  BY <1>1, <1>4
<1>6. Len(r) <= Len(w)
  BY <1>1, <1>2, <1>3
<1> QED BY <1>5, <1>6 DEF OnlyTheEnd, w

LEMMA LastTouched ==
  ASSUME NEW U, NEW s \in Seq(U), NEW x \in U, NEW y \in U,
         x[1] = y[1], x[2] = y[2], IsPrefix(x[3], y[3])
  PROVE  OnlyTheEnd(s \o <<x>>, s \o <<y>>)
<1> DEFINE a == Append(s, x)
           b == Append(s, y)
<1>1. a = s \o <<x>> /\ b = s \o <<y>>
  BY AppendIsConcat
<1>2. /\ a \in Seq(U) /\ Len(a) = Len(s) + 1 /\ a[Len(s) + 1] = x
      /\ \A i \in 1..Len(s) : a[i] = s[i]
      /\ b \in Seq(U) /\ Len(b) = Len(s) + 1 /\ b[Len(s) + 1] = y
      /\ \A i \in 1..Len(s) : b[i] = s[i]
  BY AppendProperties
<1>3. Len(s) \in Nat /\ DOMAIN a = 1..(Len(s) + 1)
  BY <1>2, LenProperties
<1> HIDE DEF a, b
<1>4. ASSUME NEW k \in DOMAIN a
      PROVE  \/ a[k] = b[k]
             \/ /\ k = Len(a)
                /\ a[k][1] = b[k][1] /\ a[k][2] = b[k][2]
                /\ IsPrefix(a[k][3], b[k][3])
  <2>1. CASE k = Len(s) + 1
    BY <1>2, <2>1
  <2>2. CASE k # Len(s) + 1
    <3>1. k \in 1..Len(s)
      BY <1>3, <2>2
    <3> QED BY <1>2, <3>1
  <2> QED BY <2>1, <2>2
<1>5. OnlyTheEnd(a, b)
  BY <1>2, <1>3, <1>4 DEF OnlyTheEnd
<1> QED BY <1>1, <1>5

LEMMA NothingOfTheTop ==
  ASSUME NEW j \in 0..Len(AsFile(<<>>))
  PROVE  RecordsIn(Cut(AsFile(<<>>), 1, j)) = <<>>
<1> DEFINE f == AsFile(<<>>)
           e == <<>>
           h == <<Hash>>
<1>1. f = <<Hash, Newline>> /\ Len(f) = 2 /\ f \in Seq(Bytes) /\ f[1] = Hash
  <2> DEFINE g == <<Hash, Newline>>
  <2>1. Len(g) = 2 /\ g \in Seq(Bytes) /\ g[1] = Hash
    BY DEF Hash, Newline, Bytes
  <2> QED BY <2>1, AsFileEmpty
<1>2. RecordsIn(f) = <<>>
  BY EmptyFile
<1> HIDE DEF f
<1>3. CASE j = 0
  <2>1. Cut(f, 1, 0) = e
    BY SubSeqEmpty DEF Cut
  <2>2. e \in Seq(Bytes) /\ TextLines(e) = <<>>
    BY EmptySeq, NoTextNoLines
  <2> HIDE DEF e
  <2>3. RecordsIn(e) = <<>>
    BY <2>2, RecordsOfNone
  <2> QED BY <1>3, <2>1, <2>3 DEF f
<1>4. CASE j = 1
  <2>1. Cut(f, 1, 1) = h
    <3> DEFINE c == Cut(f, 1, 1)
    <3>1. c \in Seq(Bytes) /\ Len(c) = 1 /\ c[1] = Hash
      <4>1. 1 \in 0..Len(f) /\ 1 \in 1..1
        BY <1>1
      <4> QED BY <1>1, <4>1, StartIsPrefix
    <3>2. h \in Seq(Bytes) /\ Len(h) = 1 /\ h[1] = Hash
      BY DEF Hash, Bytes
    <3> HIDE DEF c, h
    <3>3. \A i \in 1..Len(c) : c[i] = h[i]
      BY <3>1, <3>2
    <3>4. c = h
      BY <3>1, <3>2, <3>3, SeqEqual
    <3> QED BY <3>4 DEF c
  <2>2. h \in Seq(Bytes) /\ Len(h) = 1 /\ h[1] = Hash /\ ToSet(h) = {Hash} /\ h # <<>>
    BY DEF Hash, Bytes, ToSet
  <2>3. Hash \notin Blanks /\ Hash # Newline
    BY DEF Hash, Blanks, Space, Newline
  <2> HIDE DEF h
  <2>4. Trimmed(h) = h
    BY <2>2, <2>3, TrimmedField
  <2>5. h \notin Loud
    <3>1. Head(h) = Hash
      BY <2>2
    <3> QED BY <3>1 DEF Loud
  <2>6. TextLines(h) = <<>>
    BY <2>2, <2>3, <2>4, <2>5, TextLinesOne
  <2>7. RecordsIn(h) = <<>>
    BY <2>2, <2>6, RecordsOfNone
  <2> QED BY <1>4, <2>1, <2>7 DEF f
<1>5. CASE j = 2
  <2>1. Cut(f, 1, 2) = f
    BY <1>1, SubSeqFull DEF Cut
  <2> QED BY <1>2, <1>5, <2>1 DEF f
<1>6. j \in 0..2
  BY <1>1 DEF f
<1> QED BY <1>3, <1>4, <1>5, <1>6

\* Of a file that is cut off, only the end is lost.
LEMMA CutFileIsRead ==
  ASSUME NEW ls \in Seq(Lines), NEW j \in 0..Len(AsFile(ls))
  PROVE  OnlyTheEnd(RecordsIn(Cut(AsFile(ls), 1, j)), RecordsIn(AsFile(ls)))
<1> DEFINE S == {m \in Seq(Lines) :
                   \A i \in 0..Len(AsFile(m)) :
                     OnlyTheEnd(RecordsIn(Cut(AsFile(m), 1, i)), RecordsIn(AsFile(m)))}
           U == {FieldsF[e] : e \in Seq(Bytes)}
<1>1. <<>> \in S
  <2>1. OnlyTheEnd(<<>>, <<>>)
    BY DEF OnlyTheEnd
  <2> QED BY <2>1, EmptyFile, NothingOfTheTop, EmptySeq
<1>2. ASSUME NEW m \in Seq(Lines), m \in S, NEW l \in Lines PROVE Append(m, l) \in S
  <2> DEFINE f == AsFile(m)
             w == Written(l)
             v == Append(w, Newline)
             g == f \o v
             whole == RecordsIn(f)
  <2>1. Append(m, l) \in Seq(Lines) /\ AsFile(Append(m, l)) = g
    BY AsFileAppend
  <2>2. f \in Seq(Bytes) /\ v \in Seq(Bytes) /\ w \in Seq(Bytes) /\ Newline \in Bytes
    BY AsFileIs, LineFAt, WrittenIsALine DEF Newline, Bytes
  <2>3. Len(f) \in Nat /\ Len(w) \in Nat /\ Len(v) = Len(w) + 1 /\ v = w \o <<Newline>>
        /\ <<Newline>> \in Seq(Bytes)
    BY <2>2, LenProperties, AppendProperties, AppendIsConcat
  <2>4. g \in Seq(Bytes) /\ Len(g) = Len(f) + Len(v)
    <3> HIDE DEF f, v
    <3> QED BY <2>2, ConcatProperties
  <2>5. RecordsIn(v) = ReadOf(l)
    BY EndedLine
  <2>6. \A x \in Seq(Bytes) : RecordsIn(f \o x) = whole \o RecordsIn(x)
    BY AfterFile
  <2>7. \A x \in Seq(Bytes) : RecordsIn(x) \in Seq(U)
    BY RecordsType
  <2>8. \A i \in 0..Len(f) : OnlyTheEnd(RecordsIn(Cut(f, 1, i)), whole)
    BY <1>2
  <2> HIDE DEF v, f, U
  <2> SUFFICES ASSUME NEW i \in 0..Len(g)
               PROVE  OnlyTheEnd(RecordsIn(Cut(g, 1, i)), RecordsIn(g))
    BY <2>1
  <2>9. RecordsIn(g) = whole \o ReadOf(l) /\ whole \in Seq(U) /\ ReadOf(l) \in Seq(U)
    <3>1. RecordsIn(f \o v) = whole \o RecordsIn(v) /\ RecordsIn(v) \in Seq(U) /\ whole \in Seq(U)
      BY <2>2, <2>6, <2>7
    <3> QED BY <2>5, <3>1
  <2> HIDE DEF whole
  <2>10. CASE i <= Len(f)
    <3>1. Cut(g, 1, i) = Cut(f, 1, i)
      <4>1. 1 \in Nat \ {0} /\ i \in Int
        OBVIOUS
      <4> HIDE DEF g
      <4> QED BY <2>2, <2>10, <4>1, CutLeft DEF g
    <3>2. i \in 0..Len(f)
      BY <2>3, <2>10
    <3> DEFINE c == Cut(f, 1, i)
    <3>3. c \in Seq(Bytes)
      BY <2>2, <3>2, StartIsPrefix
    <3>4. OnlyTheEnd(RecordsIn(c), whole)
      BY <2>8, <3>2
    <3> HIDE DEF c
    <3> DEFINE rc == RecordsIn(c)
               rl == ReadOf(l)
    <3>5. rc \in Seq(U)
      BY <2>7, <3>3
    <3> HIDE DEF rc, rl
    <3>6. OnlyTheEnd(rc, whole \o rl)
      BY <2>9, <3>4, <3>5, MoreToLose DEF rc, rl
    <3> QED BY <2>9, <3>1, <3>6 DEF c, rc, rl
  <2>11. CASE i > Len(f)
    <3> DEFINE h == i - Len(f)
               c == Cut(v, 1, h)
    <3>1. h \in 1..Len(v) /\ h \in 0..Len(v) /\ Len(f) + h = i
      BY <2>2, <2>3, <2>4, <2>11
    <3> HIDE DEF h
    <3>2. Cut(g, 1, i) = f \o c
      <4>1. Cut(f \o v, 1, Len(f) + h) = f \o Cut(v, 1, h)
        BY <2>2, <3>1, StartOfConcat
      <4> QED BY <3>1, <4>1
    <3>3. c \in Seq(Bytes)
      BY <2>2, <3>1, StartIsPrefix
    <3>4. RecordsIn(Cut(g, 1, i)) = whole \o RecordsIn(c)
      <4> HIDE DEF c, g
      <4> QED BY <2>6, <3>2, <3>3
    <3>5. CASE h = Len(v)
      <4>1. c = v
        BY <2>2, <3>5, SubSeqFull DEF Cut
      <4> DEFINE r == whole \o ReadOf(l)
                 e == <<>>
      <4>2. RecordsIn(Cut(g, 1, i)) = r
        BY <2>5, <3>4, <4>1
      <4>3. r \in Seq(U) /\ e \in Seq(U)
        BY <2>9, ConcatProperties, EmptySeq
      <4> HIDE DEF r, e
      <4>4. OnlyTheEnd(r, r \o e) /\ r \o e = r
        BY <4>3, NothingLost, ConcatEmptySeq DEF e
      <4> QED BY <2>9, <4>2, <4>4 DEF r
    <3>6. CASE h # Len(v)
      <4>1. h \in 1..Len(w)
        BY <2>3, <3>1, <3>6
      <4>2. c = Cut(w, 1, h)
        <5>1. 1 \in Nat \ {0} /\ h \in Int /\ h <= Len(w)
          BY <4>1
        <5> QED BY <2>2, <2>3, <5>1, CutLeft
      <4>3. PICK k \in 1..h : /\ Cut(w, 1, k) \in Seq(Bytes)
                              /\ TextLines(c) = <<Cut(w, 1, k)>>
        BY <4>1, <4>2, StartOfLine
      <4> DEFINE d == Cut(w, 1, k)
      <4>4. k \in 1..Len(w)
        BY <2>3, <4>1
      <4>5. RecordsIn(c) = IF IsRecord(d) THEN <<Fields(d)>> ELSE <<>>
        <5> HIDE DEF c, d
        <5> QED BY <3>3, <4>3, RecordsOfOne DEF d
      <4>6. CASE ~IsRecord(d)
        <5> DEFINE rl == ReadOf(l)
        <5>1. whole \o <<>> = whole
          BY <2>9, ConcatEmptySeq
        <5>2. RecordsIn(c) = <<>>
          BY <4>5, <4>6
        <5>3. rl \in Seq(U)
          BY <2>9
        <5> HIDE DEF rl, c, g
        <5>4. OnlyTheEnd(whole, whole \o rl)
          BY <2>9, <5>3, NothingLost
        <5> QED BY <2>9, <3>4, <5>1, <5>2, <5>4 DEF rl
      <4>7. CASE IsRecord(d)
        <5>1. l.kind = "record"
          BY <4>4, <4>7, StartOfMalformed
        <5>2. PICK q \in Seq(Bytes) :
                /\ IsPrefix(q, Spelling[l.key])
                /\ Fields(d) = <<Spelling[l.match], Spelling[l.delivery], q>>
          BY <4>4, <4>7, <5>1, StartOfRecord
        <5> DEFINE x == Fields(d)
                   y == Triple(l)
        <5>3. x[1] = y[1] /\ x[2] = y[2] /\ IsPrefix(x[3], y[3])
          <6> HIDE DEF d
          <6> QED BY <5>2 DEF Triple
        <5>4. x \in U
          <6>1. d \in Seq(Bytes)
            BY <4>3
          <6> HIDE DEF d
          <6>2. FieldsF[d] = Fields(d)
            BY <6>1 DEF FieldsF
          <6> QED BY <6>1, <6>2 DEF U
        <5>5. y \in U /\ ReadOf(l) = <<y>>
          <6>1. Fields(w) = y /\ FieldsF[w] = Fields(w)
            BY <2>2, <5>1, WholeRecord DEF Triple, FieldsF
          <6> QED BY <2>2, <5>1, <6>1 DEF U, ReadOf
        <5>6. RecordsIn(c) = <<x>>
          BY <4>5, <4>7
        <5> HIDE DEF x, y, c, g
        <5>7. OnlyTheEnd(whole \o <<x>>, whole \o <<y>>)
          BY <2>9, <5>3, <5>4, <5>5, LastTouched
        <5> QED BY <2>9, <3>4, <5>5, <5>6, <5>7
      <4> QED BY <4>6, <4>7
    <3> QED BY <3>5, <3>6
  <2> QED BY <2>3, <2>10, <2>11
<1>3. ls \in S
  <2> HIDE DEF S
  <2> QED BY <1>1, <1>2, SeqSetInduction
<1> QED BY <1>3

-----------------------------------------------------------------------------
(* Escapes.                                                                *)

\* One step of Unescape, at position i, given what the later ones yield.
UStep(s, f, i) ==
  IF i > Len(s) THEN <<>>
  ELSE IF IsCode(s, i) THEN <<CodeAt(s, i)>> \o f[i + 4]
  ELSE IF IsEscape(s, i) THEN <<s[i + 1]>> \o f[i + 2]
  ELSE <<s[i]>> \o f[i + 1]

\* It depends on later positions alone, ...
LEMMA UStepAfter ==
  ASSUME NEW T, NEW s \in Seq(T), NEW i \in Nat, NEW f, NEW g,
         \A k \in (i + 1)..(Len(s) + 1) : f[k] = g[k]
  PROVE  UStep(s, f, i) = UStep(s, g, i)
<1>1. Len(s) \in Nat
  BY LenProperties
<1>2. CASE i > Len(s)
  BY <1>2 DEF UStep
<1>3. CASE ~(i > Len(s)) /\ IsCode(s, i)
  <2>1. i + 3 <= Len(s)
    BY <1>3 DEF IsCode
  <2>2. f[i + 4] = g[i + 4]
    BY <1>1, <2>1
  <2> QED BY <1>3, <2>2 DEF UStep
<1>4. CASE ~(i > Len(s)) /\ ~IsCode(s, i) /\ IsEscape(s, i)
  <2>1. i < Len(s)
    BY <1>4 DEF IsEscape
  <2>2. f[i + 2] = g[i + 2]
    BY <1>1, <2>1
  <2> QED BY <1>4, <2>2 DEF UStep
<1>5. CASE ~(i > Len(s)) /\ ~IsCode(s, i) /\ ~IsEscape(s, i)
  <2>1. f[i + 1] = g[i + 1]
    BY <1>1, <1>5
  <2> QED BY <1>5, <2>1 DEF UStep
<1> QED BY <1>2, <1>3, <1>4, <1>5

\* ... so there is a function that Unescape describes.
LEMMA UnescapeExists ==
  ASSUME NEW T, NEW s \in Seq(T)
  PROVE  \E f : f = [i \in 1..(Len(s) + 1) |-> UStep(s, f, i)]
<1> DEFINE n == Len(s)
           N == {d \in Nat : d <= n => \E f : f = [i \in (n + 1 - d)..(n + 1) |-> UStep(s, f, i)]}
<1>0. n \in Nat
  BY LenProperties
<1>1. 0 \in N
  <2> DEFINE f == [i \in (n + 1 - 0)..(n + 1) |-> <<>>]
  <2>1. \A i \in (n + 1 - 0)..(n + 1) : UStep(s, f, i) = <<>>
    BY <1>0 DEF UStep
  <2>2. f = [i \in (n + 1 - 0)..(n + 1) |-> UStep(s, f, i)]
    BY <2>1
  <2> QED BY <2>2
<1>2. ASSUME NEW d \in Nat, d \in N PROVE d + 1 \in N
  <2> SUFFICES ASSUME d + 1 <= n
               PROVE  \E g : g = [i \in (n + 1 - (d + 1))..(n + 1) |-> UStep(s, g, i)]
    OBVIOUS
  <2> DEFINE m == n + 1 - (d + 1)
  <2>0. m \in Nat /\ n + 1 - d = m + 1 /\ d <= n
    BY <1>0
  <2>1. PICK f : f = [i \in (m + 1)..(n + 1) |-> UStep(s, f, i)]
    <3>1. \E f : f = [i \in (n + 1 - d)..(n + 1) |-> UStep(s, f, i)]
      BY <1>2, <2>0
    <3> HIDE DEF m
    <3> QED BY <2>0, <3>1
  <2> DEFINE g == [i \in m..(n + 1) |-> IF i = m THEN UStep(s, f, m) ELSE f[i]]
  <2>2. \A k \in (m + 1)..(n + 1) : g[k] = f[k]
    BY <1>0, <2>0
  <2>3. ASSUME NEW i \in m..(n + 1) PROVE g[i] = UStep(s, g, i)
    <3>1. \A k \in (i + 1)..(n + 1) : f[k] = g[k]
      BY <1>0, <2>0, <2>2
    <3>2. i \in Nat
      BY <2>0
    <3> DEFINE h == g
    <3>3. UStep(s, f, i) = UStep(s, h, i)
      <4> HIDE DEF h, m
      <4>1. \A k \in (i + 1)..(Len(s) + 1) : f[k] = h[k]
        BY <3>1 DEF h
      <4> HIDE DEF n
      <4> QED BY <3>2, <4>1, UStepAfter
    <3>4. g[i] = UStep(s, f, i)
      <4>1. CASE i = m
        BY <1>0, <2>0, <4>1
      <4>2. CASE i # m
        <5>1. i \in (m + 1)..(n + 1)
          BY <1>0, <2>0, <4>2
        <5> QED BY <2>1, <2>2, <5>1
      <4> QED BY <4>1, <4>2
    <3> QED BY <3>3, <3>4
  <2>4. g = [i \in m..(n + 1) |-> UStep(s, g, i)]
    BY <2>3
  <2> QED BY <2>4
<1>3. Nat \subseteq N
  <2> HIDE DEF N
  <2> QED BY <1>1, <1>2, NatSetInduction
<1>4. n \in N /\ n <= n /\ n + 1 - n = 1
  BY <1>0, <1>3
<1> QED BY <1>4

LEMMA UnescapeIs ==
  ASSUME NEW T, NEW s \in Seq(T)
  PROVE  \E f : /\ f = [i \in 1..(Len(s) + 1) |-> UStep(s, f, i)]
                /\ Unescape(s) = f[1]
<1> DEFINE from == CHOOSE f : f = [i \in 1..(Len(s) + 1) |-> UStep(s, f, i)]
<1>1. from = [i \in 1..(Len(s) + 1) |-> UStep(s, from, i)]
  BY UnescapeExists
<1>2. Unescape(s) = from[1]
  BY DEF Unescape, UStep
<1> QED BY <1>1, <1>2

LEMMA DecimalDigits ==
  ASSUME NEW b \in 0..255
  PROVE  /\ b \div 100 \in 0..2 /\ (b \div 10) % 10 \in 0..9 /\ b % 10 \in 0..9
         /\ 100 * (b \div 100) + 10 * ((b \div 10) % 10) + (b % 10) = b
OBVIOUS

\* One byte is read back, whatever follows it.
LEMMA EscapeIsRead ==
  ASSUME NEW s \in Seq(Bytes), NEW b \in Bytes, NEW o \in Nat,
         o + Len(EscapedByte(b)) <= Len(s),
         \A j \in 1..Len(EscapedByte(b)) : s[o + j] = EscapedByte(b)[j], NEW f
  PROVE  /\ UStep(s, f, o + 1) = <<b>> \o f[o + Len(EscapedByte(b)) + 1]
         /\ Len(EscapedByte(b)) \in Nat \ {0}
<1> DEFINE e == EscapedByte(b)
<1>00. o + Len(e) <= Len(s) /\ \A j \in 1..Len(e) : s[o + j] = e[j]
  OBVIOUS
<1>0. Len(s) \in Nat /\ b \in 0..255
  BY LenProperties DEF Bytes
<1>1. CASE b \in {Backslash, Quote}
  <2>1. e = <<Backslash, b>> /\ Len(e) = 2 /\ e[1] = Backslash /\ e[2] = b
    BY <1>1 DEF EscapedByte
  <2>2. s[o + 1] = Backslash /\ s[o + 2] = b /\ o + 2 <= Len(s)
    BY <2>1
  <2>3. (o + 1) + 1 = o + 2 /\ (o + 1) + 2 = o + Len(e) + 1 /\ o + 1 < Len(s) /\ ~(o + 1 > Len(s))
    BY <1>0, <2>1, <2>2
  <2>4. b \notin Digits
    BY <1>1 DEF Digits, Backslash, Quote
  <2>5. ~IsCode(s, o + 1)
    <3>1. 1 \in 1..3
      OBVIOUS
    <3> QED BY <2>2, <2>3, <2>4, <3>1 DEF IsCode
  <2>6. IsEscape(s, o + 1)
    BY <1>1, <2>2, <2>3 DEF IsEscape
  <2> QED BY <2>1, <2>2, <2>3, <2>5, <2>6 DEF UStep
<1>2. CASE b \notin {Backslash, Quote} /\ b \in 32..126
  <2>1. e = <<b>> /\ Len(e) = 1 /\ e[1] = b
    BY <1>2 DEF EscapedByte
  <2>2. s[o + 1] = b /\ o + 1 <= Len(s)
    BY <2>1
  <2>3. (o + 1) + 1 = o + Len(e) + 1 /\ ~(o + 1 > Len(s))
    BY <1>0, <2>1, <2>2
  <2>4. ~IsCode(s, o + 1) /\ ~IsEscape(s, o + 1)
    BY <1>2, <2>2 DEF IsCode, IsEscape
  <2> QED BY <2>1, <2>2, <2>3, <2>4 DEF UStep
<1>3. CASE b \notin {Backslash, Quote} /\ b \notin 32..126
  <2> DEFINE x == b \div 100
             y == (b \div 10) % 10
             z == b % 10
  <2>1. e = <<Backslash, 48 + x, 48 + y, 48 + z>>
    BY <1>3 DEF EscapedByte
  <2>2. x \in 0..2 /\ y \in 0..9 /\ z \in 0..9 /\ 100 * x + 10 * y + z = b
    BY <1>0, DecimalDigits
  <2> HIDE DEF x, y, z
  <2>3. Len(e) = 4 /\ e[1] = Backslash /\ e[2] = 48 + x /\ e[3] = 48 + y /\ e[4] = 48 + z
    BY <2>1
  <2>4. /\ s[o + 1] = Backslash /\ s[o + 2] = 48 + x /\ s[o + 3] = 48 + y /\ s[o + 4] = 48 + z
        /\ o + 4 <= Len(s)
    BY <2>3
  <2>5. /\ (o + 1) + 1 = o + 2 /\ (o + 1) + 2 = o + 3 /\ (o + 1) + 3 = o + 4
        /\ (o + 1) + 4 = o + Len(e) + 1 /\ ~(o + 1 > Len(s)) /\ (o + 1) + 3 <= Len(s)
    BY <1>0, <2>3, <2>4
  <2>6. 48 + x \in Digits /\ 48 + y \in Digits /\ 48 + z \in Digits
    BY <2>2, SMTT(30) DEF Digits
  <2>7. CodeAt(s, o + 1) = b
    <3>1. CodeAt(s, o + 1) = 100 * ((48 + x) - 48) + 10 * ((48 + y) - 48) + ((48 + z) - 48)
      BY <2>4, <2>5 DEF CodeAt
    <3>2. (48 + x) - 48 = x /\ (48 + y) - 48 = y /\ (48 + z) - 48 = z
      BY <2>2
    <3> QED BY <2>2, <3>1, <3>2
  <2>8. IsCode(s, o + 1)
    <3>1. \A k \in 1..3 : s[(o + 1) + k] \in Digits
      <4>1. \A k \in 1..3 : k = 1 \/ k = 2 \/ k = 3
        OBVIOUS
      <4> QED BY <2>4, <2>5, <2>6, <4>1
    <3>2. CodeAt(s, o + 1) <= 255
      BY <1>0, <2>7
    <3> QED BY <2>4, <2>5, <3>1, <3>2 DEF IsCode
  <2> QED BY <2>3, <2>5, <2>7, <2>8 DEF UStep
<1> QED BY <1>1, <1>2, <1>3

EscF == [b \in Bytes |-> EscapedByte(b)]

LEMMA EscFAt == \A b \in Bytes : EscF[b] = EscapedByte(b) /\ EscF[b] \in Seq(Bytes)
<1> SUFFICES ASSUME NEW b \in Bytes PROVE EscF[b] = EscapedByte(b) /\ EscapedByte(b) \in Seq(Bytes)
  OBVIOUS
<1>1. EscF[b] = EscapedByte(b)
  BY DEF EscF
<1>2. b \in 0..255
  BY DEF Bytes
<1>3. Backslash \in Bytes
  BY DEF Backslash, Bytes
<1> DEFINE x == b \div 100
           y == (b \div 10) % 10
           z == b % 10
<1>4. x \in 0..2 /\ y \in 0..9 /\ z \in 0..9
  BY <1>2
<1>5. 48 + x \in Bytes /\ 48 + y \in Bytes /\ 48 + z \in Bytes
  <2> HIDE DEF x, y, z
  <2> QED BY <1>4 DEF Bytes
<1> HIDE DEF x, y, z
<1>6. /\ <<Backslash, b>> \in Seq(Bytes) /\ <<b>> \in Seq(Bytes)
      /\ <<Backslash, 48 + x, 48 + y, 48 + z>> \in Seq(Bytes)
  BY <1>3, <1>5
<1> QED BY <1>1, <1>6 DEF EscapedByte, x, y, z

Escaped(text) == FlattenSeq(Image(EscF, text))

LEMMA EscapedType ==
  ASSUME NEW s \in Seq(Bytes)
  PROVE  Escaped(s) \in Seq(Bytes) /\ Image(EscF, s) \in Seq(Seq(Bytes))
<1>1. Image(EscF, s) \in Seq(Seq(Bytes))
  BY EscFAt, ImageType
<1> QED BY <1>1, FlattenType DEF Escaped

LEMMA EscapedConcat ==
  ASSUME NEW s \in Seq(Bytes), NEW t \in Seq(Bytes)
  PROVE  Escaped(s \o t) = Escaped(s) \o Escaped(t)
<1> DEFINE a == Image(EscF, s)
           b == Image(EscF, t)
<1>1. Image(EscF, s \o t) = a \o b
  BY ImageConcat
<1>2. a \in Seq(Seq(Bytes)) /\ b \in Seq(Seq(Bytes))
  BY EscapedType
<1> HIDE DEF a, b
<1>3. FlattenSeq(a \o b) = FlattenSeq(a) \o FlattenSeq(b)
  BY <1>2, FlattenConcat
<1> QED BY <1>1, <1>3 DEF Escaped, a, b

LEMMA EscapedOne ==
  ASSUME NEW b \in Bytes
  PROVE  Escaped(<<b>>) = EscapedByte(b)
<1> DEFINE x == EscapedByte(b)
<1>1. Image(EscF, <<b>>) = <<x>>
  BY EscFAt DEF Image
<1>2. x \in Seq(Bytes)
  BY EscFAt
<1> HIDE DEF x
<1>3. FlattenSeq(<<x>>) = x
  BY <1>2, FlattenOne
<1> QED BY <1>1, <1>3 DEF Escaped, x

\* What is escaped is read back, by induction about what is left of it.
LEMMA UnescapeIsInverse ==
  ASSUME NEW s \in Seq(Bytes)
  PROVE  Unescape(Escaped(s)) = s
<1> DEFINE t == Escaped(s)
           n == Len(t)
<1>1. t \in Seq(Bytes) /\ n \in Nat
  BY EscapedType, LenProperties
<1> HIDE DEF t
<1>2. PICK f : f = [i \in 1..(n + 1) |-> UStep(t, f, i)] /\ Unescape(t) = f[1]
  BY <1>1, UnescapeIs
<1> DEFINE N == {d \in Nat : \A u, v \in Seq(Bytes) :
                   s = u \o v /\ Len(v) = d => f[Len(Escaped(u)) + 1] = v}
<1>3. 0 \in N
  <2> SUFFICES ASSUME NEW u \in Seq(Bytes), NEW v \in Seq(Bytes), s = u \o v, Len(v) = 0
               PROVE  f[Len(Escaped(u)) + 1] = v
    OBVIOUS
  <2>1. v = <<>>
    BY EmptySeq
  <2>2. u = s
    BY <2>1, ConcatEmptySeq
  <2>3. Len(Escaped(u)) = n
    BY <2>2 DEF t
  <2>4. UStep(t, f, n + 1) = <<>>
    BY <1>1 DEF UStep
  <2>5. n + 1 \in 1..(n + 1)
    BY <1>1
  <2> HIDE DEF n
  <2> QED BY <1>2, <2>1, <2>3, <2>4, <2>5
<1>4. ASSUME NEW d \in Nat, d \in N PROVE d + 1 \in N
  <2> SUFFICES ASSUME NEW u \in Seq(Bytes), NEW v \in Seq(Bytes), s = u \o v, Len(v) = d + 1
               PROVE  f[Len(Escaped(u)) + 1] = v
    OBVIOUS
  <2> DEFINE b == v[1]
             w == SubSeq(v, 2, Len(v))
             one == <<b>>
             u1 == u \o one
             e == EscapedByte(b)
             o == Len(Escaped(u))
  <2>1. b \in Bytes /\ one \in Seq(Bytes) /\ Len(v) \in Nat
    <3>1. 1 \in 1..Len(v) /\ Len(v) \in Nat
      BY LenProperties
    <3>2. b \in Bytes
      BY <3>1, ElementOfSeq
    <3> QED BY <3>1, <3>2
  <2>2. v = one \o w
    <3>1. 1 \in 1..Len(v) /\ Len(v) \in 1..Len(v) /\ 1 + 1 = 2
      BY <2>1
    <3>2. SubSeq(v, 1, Len(v)) = <<v[1]>> \o SubSeq(v, 1 + 1, Len(v))
      BY <3>1, SubSeqRecursiveFirst
    <3>3. SubSeq(v, 1, Len(v)) = v
      BY SubSeqFull
    <3> QED BY <3>1, <3>2, <3>3
  <2>3. w \in Seq(Bytes) /\ Len(w) = d
    <3>1. 2 \in Nat \ {0} /\ Len(v) \in Int /\ Len(v) <= Len(v)
      BY <2>1
    <3>2. /\ Cut(v, 2, Len(v)) \in Seq(Bytes)
          /\ Len(Cut(v, 2, Len(v))) = IF 2 <= Len(v) THEN Len(v) - 2 + 1 ELSE 0
      <4> DEFINE two == 2
                 m == Len(v)
      <4>1. two \in Nat \ {0} /\ m \in Int /\ m <= Len(v)
        BY <3>1
      <4> HIDE DEF two, m
      <4>2. Cut(v, two, m) \in Seq(Bytes) /\ Len(Cut(v, two, m)) = IF two <= m THEN m - two + 1 ELSE 0
        BY <4>1, CutType
      <4> QED BY <4>2 DEF two, m
    <3> QED BY <2>1, <3>2 DEF Cut
  <2> HIDE DEF w, b
  <2> HIDE DEF one
  <2>4. u1 \in Seq(Bytes) /\ s = u1 \o w
    <3>1. (u \o one) \o w = u \o (one \o w)
      BY <2>1, <2>3, ConcatAssociative
    <3> QED BY <2>1, <2>2, <3>1, ConcatProperties
  <2> HIDE DEF u1
  <2>5. f[Len(Escaped(u1)) + 1] = w
    BY <1>4, <2>3, <2>4
  <2>6. Escaped(u1) = Escaped(u) \o e
    <3>1. Escaped(one) = e
      BY <2>1, EscapedOne DEF one
    <3> HIDE DEF e
    <3> QED BY <2>1, <3>1, EscapedConcat DEF u1
  <2>7. e \in Seq(Bytes) /\ Escaped(u) \in Seq(Bytes) /\ o \in Nat /\ Len(e) \in Nat
    BY <2>1, EscFAt, EscapedType, LenProperties
  <2>8. /\ Len(Escaped(u1)) = o + Len(e) /\ Escaped(u1) \in Seq(Bytes)
        /\ \A j \in 1..Len(e) : Escaped(u1)[o + j] = e[j]
    <3> DEFINE x == Escaped(u)
    <3>1. x \in Seq(Bytes) /\ e \in Seq(Bytes) /\ Escaped(u1) = x \o e
      BY <2>6, <2>7
    <3> HIDE DEF e, x
    <3>2. /\ x \o e \in Seq(Bytes) /\ Len(x \o e) = Len(x) + Len(e)
          /\ \A j \in 1..Len(e) : (x \o e)[Len(x) + j] = e[j]
      BY <3>1, ConcatAt
    <3> QED BY <3>1, <3>2 DEF x
  <2>9. /\ o + Len(e) <= Len(t) /\ \A j \in 1..Len(e) : t[o + j] = e[j]
    <3> DEFINE x == Escaped(u1)
               y == Escaped(w)
    <3>1. t = x \o y
      BY <2>3, <2>4, EscapedConcat DEF t
    <3>2. x \in Seq(Bytes) /\ y \in Seq(Bytes)
      BY <2>3, <2>8, EscapedType
    <3> HIDE DEF x, y
    <3>3. /\ Len(x \o y) = Len(x) + Len(y) /\ Len(y) \in Nat
          /\ \A j \in 1..Len(x) : (x \o y)[j] = x[j]
      BY <3>2, ConcatAt, LenProperties
    <3> HIDE DEF e, o
    <3>4. \A j \in 1..Len(e) : o + j \in 1..(o + Len(e))
      BY <2>7
    <3>5. Len(x) = o + Len(e) /\ \A j \in 1..Len(e) : x[o + j] = e[j]
      BY <2>8 DEF x
    <3> QED BY <2>7, <3>1, <3>3, <3>4, <3>5
  <2> HIDE DEF o
  <2>10. UStep(t, f, o + 1) = <<b>> \o f[o + Len(e) + 1] /\ Len(e) \in Nat \ {0}
    <3>1. /\ t \in Seq(Bytes) /\ b \in Bytes /\ o \in Nat
          /\ o + Len(EscapedByte(b)) <= Len(t)
          /\ \A j \in 1..Len(EscapedByte(b)) : t[o + j] = EscapedByte(b)[j]
      BY <1>1, <2>1, <2>7, <2>9
    <3> HIDE DEF e, n, t
    <3>2. /\ UStep(t, f, o + 1) = <<b>> \o f[o + Len(EscapedByte(b)) + 1]
          /\ Len(EscapedByte(b)) \in Nat \ {0}
      BY ONLY <3>1, EscapeIsRead, ZenonT(40)
    <3> QED BY <3>2 DEF e
  <2> HIDE DEF e, n
  <2>11. o + 1 \in 1..(n + 1)
    BY <1>1, <2>7, <2>9 DEF n
  <2>12. f[o + 1] = UStep(t, f, o + 1)
    BY <1>2, <2>11
  <2> QED BY <2>2, <2>5, <2>8, <2>10, <2>12 DEF o, one
<1>5. Nat \subseteq N
  <2> HIDE DEF N
  <2> QED BY <1>3, <1>4, NatSetInduction
<1>6. f[1] = s
  <2> DEFINE e == <<>>
  <2>1. e \in Seq(Bytes) /\ Len(s) \in Nat
    BY EmptySeq, LenProperties
  <2>2. s = e \o s
    BY ConcatEmptySeq
  <2>3. Len(Escaped(e)) = 0
    <3>1. Image(EscF, <<>>) = <<>>
      BY DEF Image
    <3> QED BY <3>1, FlattenEmpty, EmptySeq DEF Escaped
  <2> HIDE DEF e
  <2>4. f[Len(Escaped(e)) + 1] = s
    BY <1>5, <2>1, <2>2
  <2> QED BY <2>3, <2>4
<1> QED BY <1>2, <1>6 DEF t

\* However a text is cut into strings, it is read back.
LEMMA StringsAreRead ==
  ASSUME NEW s \in Seq(Bytes)
  PROVE  Joined(AsStrings(s)) = s
<1> DEFINE w == ChunkSize
           E == Image(EscF, s)
           c == PieceCount(s, w)
           P == [k \in 1..c |-> Piece(E, w, k)]
<1>0. w \in Nat \ {0}
  BY RecordsAssumption
<1>1. E \in Seq(Seq(Bytes)) /\ Len(E) = Len(s) /\ \A k \in 1..Len(s) : E[k] = EscF[s[k]]
  BY EscapedType, ImageElements
<1>2. PieceCount(E, w) = c
  <2> HIDE DEF E
  <2> QED BY <1>1 DEF PieceCount
<1>3. Len(s) \in Nat
  BY LenProperties
<1>4. ASSUME NEW k \in 1..c
      PROVE  /\ Piece(s, w, k) \in Seq(Bytes)
             /\ Piece(E, w, k) = Image(EscF, Piece(s, w, k))
  <2> DEFINE a == (k - 1) * w
             z == PieceEnd(s, w, k)
             p == Cut(s, a + 1, z)
             q == Cut(E, a + 1, z)
  <2>1. a \in Nat /\ z \in (a + 1)..Len(s)
    BY <1>0, PieceBounds
  <2>2. PieceEnd(E, w, k) = z
    <3> HIDE DEF E
    <3> QED BY <1>1 DEF PieceEnd
  <2>3. Piece(s, w, k) = p /\ Piece(E, w, k) = q
    BY <2>2 DEF Piece, Cut
  <2> HIDE DEF a, z, E
  <2>4. /\ p \in Seq(Bytes) /\ Len(p) = z - a
        /\ \A i \in 1..(z - a) : p[i] = s[a + i]
    <3> DEFINE h == a + 1
    <3>1. h \in Nat \ {0} /\ z \in Int /\ z <= Len(s) /\ h <= z /\ z - h + 1 = z - a
          /\ \A i \in 1..(z - a) : h + i - 1 = a + i
      BY <1>3, <2>1
    <3> HIDE DEF h
    <3>2. /\ Cut(s, h, z) \in Seq(Bytes) /\ Len(Cut(s, h, z)) = IF h <= z THEN z - h + 1 ELSE 0
          /\ \A i \in 1..(z - h + 1) : Cut(s, h, z)[i] = s[h + i - 1]
      BY <3>1, CutType
    <3> QED BY <3>1, <3>2 DEF h
  <2>5. /\ q \in Seq(Seq(Bytes)) /\ Len(q) = z - a
        /\ \A i \in 1..(z - a) : q[i] = E[a + i]
    <3> DEFINE h == a + 1
    <3>1. h \in Nat \ {0} /\ z \in Int /\ z <= Len(E) /\ h <= z /\ z - h + 1 = z - a
          /\ \A i \in 1..(z - a) : h + i - 1 = a + i
      BY <1>1, <1>3, <2>1
    <3> HIDE DEF h
    <3>2. /\ Cut(E, h, z) \in Seq(Seq(Bytes)) /\ Len(Cut(E, h, z)) = IF h <= z THEN z - h + 1 ELSE 0
          /\ \A i \in 1..(z - h + 1) : Cut(E, h, z)[i] = E[h + i - 1]
      <4> DEFINE T == Seq(Bytes)
      <4>1. E \in Seq(T)
        BY <1>1
      <4> HIDE DEF T
      <4>2. /\ Cut(E, h, z) \in Seq(T) /\ Len(Cut(E, h, z)) = IF h <= z THEN z - h + 1 ELSE 0
            /\ \A i \in 1..(z - h + 1) : Cut(E, h, z)[i] = E[h + i - 1]
        BY <3>1, <4>1, CutType
      <4> QED BY <4>2 DEF T
    <3> QED BY <3>1, <3>2 DEF h
  <2> HIDE DEF p, q
  <2> DEFINE r == Image(EscF, p)
  <2>6. /\ r \in Seq(Seq(Bytes)) /\ Len(r) = z - a
        /\ \A i \in 1..(z - a) : r[i] = EscF[p[i]]
    BY <2>4, EscapedType, ImageElements
  <2> HIDE DEF r
  <2>7. ASSUME NEW i \in 1..(z - a) PROVE q[i] = r[i]
    <3>1. a + i \in 1..Len(s)
      BY <1>3, <2>1
    <3> QED BY <1>1, <2>4, <2>5, <2>6, <3>1
  <2>8. q = r
    BY <2>5, <2>6, <2>7, SeqEqual
  <2> QED BY <2>3, <2>4, <2>8 DEF r
<1>5. ASSUME NEW k \in 1..c
      PROVE  /\ P[k] \in Seq(Seq(Bytes))
             /\ AsStrings(s)[k] = FlattenSeq(P[k])
  <2> DEFINE piece == Piece(s, w, k)
  <2>1. piece \in Seq(Bytes) /\ P[k] = Image(EscF, piece)
    BY <1>4
  <2>2. piece = Cut(s, (k - 1) * ChunkSize + 1,
                    IF k * ChunkSize < Len(s) THEN k * ChunkSize ELSE Len(s))
    BY DEF Piece, PieceEnd, Cut
  <2>3. AsStrings(s)[k] = FlattenSeq([i \in DOMAIN piece |-> EscapedByte(piece[i])])
    BY <2>2 DEF AsStrings, PieceCount
  <2> HIDE DEF piece
  <2>4. \A i \in DOMAIN piece : piece[i] \in Bytes
    BY <2>1, LenProperties
  <2>5. [i \in DOMAIN piece |-> EscapedByte(piece[i])] = Image(EscF, piece)
    BY <2>4, EscFAt DEF Image
  <2>6. Image(EscF, piece) \in Seq(Seq(Bytes))
    BY <2>1, EscapedType
  <2> HIDE DEF P
  <2> QED BY <2>1, <2>3, <2>5, <2>6
<1>6. c \in Nat /\ DOMAIN AsStrings(s) = 1..c
  <2>1. c \in Nat
    BY <1>0, <1>3 DEF PieceCount
  <2> QED BY <2>1 DEF AsStrings, PieceCount
<1>7. P \in Seq(Seq(Seq(Bytes))) /\ DOMAIN P = 1..c
  <2>1. DOMAIN P = 1..c
    OBVIOUS
  <2>2. P = [k \in 1..c |-> P[k]]
    OBVIOUS
  <2> HIDE DEF P, c
  <2> QED BY <1>5, <1>6, <2>1, <2>2
<1>8. AsStrings(s) = [k \in DOMAIN P |-> FlattenSeq(P[k])]
  <2>1. AsStrings(s) = [k \in 1..c |-> AsStrings(s)[k]]
    BY <1>6 DEF AsStrings
  <2> HIDE DEF P, c
  <2> QED BY <1>5, <1>7, <2>1
<1>9. FlattenSeq(P) = E
  <2>1. P = [k \in 1..PieceCount(E, w) |-> Piece(E, w, k)]
    BY <1>2
  <2> HIDE DEF P, E, c
  <2> QED BY <1>0, <1>1, <2>1, PiecesAreWhole
<1> HIDE DEF P, E
<1>10. FlattenSeq(AsStrings(s)) = FlattenSeq(FlattenSeq(P))
  BY <1>7, <1>8, FlattenFlatten
<1>11. FlattenSeq(AsStrings(s)) = Escaped(s)
  BY <1>9, <1>10 DEF Escaped, E
<1> QED BY <1>11, UnescapeIsInverse DEF Joined

-----------------------------------------------------------------------------
(* What is published.                                                      *)

\* One record for each line: read as its line is.
LEMMA LinesAreRead ==
  ASSUME NEW ls \in Seq(Lines)
  PROVE  LET zone == [k \in DOMAIN ls |-> AsStrings(Written(ls[k]))]
         IN  /\ RecordsOfZone(zone) = Spelled(Valid(ls))
             /\ Len(FailuresOfZone(zone)) = Len(Failures(ls))
<1> DEFINE RF == [l \in Lines |-> RecordsIn(Written(l))]
           FF == [l \in Lines |-> FailuresIn(Written(l))]
           U == {FieldsF[e] : e \in Seq(Bytes)}
           T == Seq(Bytes)
           zone == [k \in DOMAIN ls |-> AsStrings(Written(ls[k]))]
           S == {m \in Seq(Lines) :
                   /\ FlattenSeq(Image(RF, m)) = Spelled(Valid(m))
                   /\ Len(FlattenSeq(Image(FF, m))) = Len(Failures(m))}
<1>1. \A l \in Lines : /\ RF[l] = ReadOf(l) /\ RF[l] \in Seq(U)
                       /\ Len(FF[l]) = FailedOf(l) /\ FF[l] \in Seq(T)
                       /\ RF[l] = RecordsIn(Written(l)) /\ FF[l] = FailuresIn(Written(l))
  <2> SUFFICES ASSUME NEW l \in Lines
               PROVE  /\ RF[l] = ReadOf(l) /\ RF[l] \in Seq(U)
                      /\ Len(FF[l]) = FailedOf(l) /\ FF[l] \in Seq(T)
                      /\ RF[l] = RecordsIn(Written(l)) /\ FF[l] = FailuresIn(Written(l))
    OBVIOUS
  <2> DEFINE w == Written(l)
  <2>1. w \in Seq(Bytes)
    BY WrittenIsALine
  <2>2. RecordsIn(w) = ReadOf(l) /\ Len(FailuresIn(w)) = FailedOf(l)
    BY WholeLine
  <2>3. RF[l] = RecordsIn(w) /\ FF[l] = FailuresIn(w)
    OBVIOUS
  <2> HIDE DEF w, RF, FF
  <2>4. RecordsIn(w) \in Seq(U) /\ FailuresIn(w) \in Seq(T)
    BY <2>1, RecordsType
  <2> QED BY <2>2, <2>3, <2>4 DEF w
<1> HIDE DEF RF, FF, U, T
<1>2. <<>> \in S
  <2>1. Image(RF, <<>>) = <<>> /\ Image(FF, <<>>) = <<>>
    BY DEF Image
  <2> QED BY <2>1, FlattenEmpty, NothingSpelled, EmptySeq
<1>3. ASSUME NEW m \in Seq(Lines), m \in S, NEW l \in Lines PROVE Append(m, l) \in S
  <2> DEFINE n == Append(m, l)
             a == Image(RF, m)
             b == Image(FF, m)
             x == RF[l]
             y == FF[l]
  <2>1. n \in Seq(Lines)
    BY AppendProperties
  <2>2. Image(RF, n) = Append(a, x) /\ Image(FF, n) = Append(b, y)
    BY ImageAppend
  <2>3. a \in Seq(Seq(U)) /\ x \in Seq(U) /\ b \in Seq(Seq(T)) /\ y \in Seq(T)
    <3>1. /\ \A e \in Lines : RF[e] \in Seq(U)
          /\ \A e \in Lines : FF[e] \in Seq(T)
      BY <1>1
    <3>2. Image(RF, m) \in Seq(Seq(U))
      BY <3>1, ImageType
    <3>3. Image(FF, m) \in Seq(Seq(T))
      BY <3>1, ImageType
    <3> QED BY <3>1, <3>2, <3>3
  <2>4. FlattenSeq(a) = Spelled(Valid(m)) /\ Len(FlattenSeq(b)) = Len(Failures(m))
    BY <1>3
  <2>5. x = ReadOf(l) /\ Len(y) = FailedOf(l)
    BY <1>1
  <2> HIDE DEF n, a, b, x, y
  <2>6. FlattenSeq(Append(a, x)) = FlattenSeq(a) \o x
    BY <2>3, FlattenAppend
  <2>7. FlattenSeq(Append(b, y)) = FlattenSeq(b) \o y
    BY <2>3, FlattenAppend
  <2>8. Len(FlattenSeq(b) \o y) = Len(FlattenSeq(b)) + Len(y)
    <3>1. FlattenSeq(b) \in Seq(T)
      BY <2>3, FlattenType
    <3> QED BY <2>3, <3>1, ConcatProperties
  <2>9. /\ Spelled(Valid(n)) = Spelled(Valid(m)) \o ReadOf(l)
        /\ Len(Failures(n)) = Len(Failures(m)) + FailedOf(l)
    BY SpelledAppend DEF n
  <2>10. n \in S
    BY <2>1, <2>2, <2>4, <2>5, <2>6, <2>7, <2>8, <2>9
  <2> QED BY <2>10 DEF n
<1>4. ls \in S
  <2> HIDE DEF S
  <2> QED BY <1>2, <1>3, SeqSetInduction
<1>5. ASSUME NEW k \in DOMAIN ls
      PROVE  RecordsIn(Joined(zone[k])) = RF[ls[k]] /\ FailuresIn(Joined(zone[k])) = FF[ls[k]]
  <2>1. ls[k] \in Lines
    BY LenProperties
  <2>2. Written(ls[k]) \in Seq(Bytes) /\ zone[k] = AsStrings(Written(ls[k]))
    BY <2>1, WrittenIsALine
  <2>3. Joined(zone[k]) = Written(ls[k])
    BY <2>2, StringsAreRead
  <2> QED BY <1>1, <2>1, <2>3
<1>6. DOMAIN zone = DOMAIN ls
  OBVIOUS
<1> HIDE DEF zone
<1>7. RecordsOfZone(zone) = FlattenSeq(Image(RF, ls))
  <2>1. [k \in DOMAIN zone |-> RecordsIn(Joined(zone[k]))] = Image(RF, ls)
    BY <1>5, <1>6 DEF Image
  <2> QED BY <2>1 DEF RecordsOfZone
<1>8. FailuresOfZone(zone) = FlattenSeq(Image(FF, ls))
  <2>1. [k \in DOMAIN zone |-> FailuresIn(Joined(zone[k]))] = Image(FF, ls)
    BY <1>5, <1>6 DEF Image
  <2> QED BY <2>1 DEF FailuresOfZone
<1>9. /\ RecordsOfZone(zone) = Spelled(Valid(ls))
      /\ Len(FailuresOfZone(zone)) = Len(Failures(ls))
  BY <1>4, <1>7, <1>8
<1> QED BY <1>9 DEF zone

\* All lines in one record: read as the file is.
LEMMA BundleIsRead ==
  ASSUME NEW ls \in Seq(Lines)
  PROVE  /\ RecordsOfZone(<<AsStrings(AsFile(ls))>>) = Spelled(Valid(ls))
         /\ Len(FailuresOfZone(<<AsStrings(AsFile(ls))>>)) = Len(Failures(ls))
<1> DEFINE f == AsFile(ls)
           zone == <<AsStrings(f)>>
           r == RecordsIn(f)
           d == FailuresIn(f)
           U == {FieldsF[e] : e \in Seq(Bytes)}
           T == Seq(Bytes)
<1>1. f \in Seq(Bytes)
  BY AsFileIs
<1> HIDE DEF f
<1>2. Joined(AsStrings(f)) = f
  BY <1>1, StringsAreRead
<1>3. RecordsOfZone(zone) = FlattenSeq(<<r>>) /\ FailuresOfZone(zone) = FlattenSeq(<<d>>)
  <2>1. [k \in DOMAIN zone |-> RecordsIn(Joined(zone[k]))] = <<r>>
    BY <1>2
  <2>2. [k \in DOMAIN zone |-> FailuresIn(Joined(zone[k]))] = <<d>>
    BY <1>2
  <2> HIDE DEF zone, r, d
  <2> QED BY <2>1, <2>2 DEF RecordsOfZone, FailuresOfZone
<1>4. r \in Seq(U) /\ d \in Seq(T)
  BY <1>1, RecordsType
<1> HIDE DEF r, d, U, T
<1>5. FlattenSeq(<<r>>) = r
  BY <1>4, FlattenOne
<1>6. FlattenSeq(<<d>>) = d
  BY <1>4, FlattenOne
<1>7. r = Spelled(Valid(ls)) /\ Len(d) = Len(Failures(ls))
  BY FileIsRead DEF r, d, f
<1> HIDE DEF zone
<1>8. RecordsOfZone(zone) = Spelled(Valid(ls)) /\ Len(FailuresOfZone(zone)) = Len(Failures(ls))
  BY <1>3, <1>5, <1>6, <1>7
<1> QED BY <1>8 DEF zone, f

LEMMA PublishedAreLists == Published \subseteq Seq(Lines)
<1> SUFFICES ASSUME NEW n \in 0..MaxLines, NEW s \in [1..n -> Lines] PROVE s \in Seq(Lines)
  BY DEF Published
<1>1. n \in Nat
  BY LookupAssumption
<1> QED BY <1>1

LEMMA PublishedHolds == PublishedIsRead
<1> SUFFICES ASSUME NEW ls \in Published, NEW zone \in Zones(ls)
             PROVE  /\ RecordsIn(AsFile(ls)) = Spelled(Valid(ls))
                    /\ Len(FailuresIn(AsFile(ls))) = Len(Failures(ls))
                    /\ RecordsOfZone(zone) = Spelled(Valid(ls))
                    /\ Len(FailuresOfZone(zone)) = Len(Failures(ls))
  BY DEF PublishedIsRead, Zones
<1>1. ls \in Seq(Lines)
  BY PublishedAreLists
<1>2. RecordsIn(AsFile(ls)) = Spelled(Valid(ls)) /\ Len(FailuresIn(AsFile(ls))) = Len(Failures(ls))
  BY <1>1, FileIsRead
<1>3. CASE zone = <<AsStrings(AsFile(ls))>>
  BY <1>1, <1>2, <1>3, BundleIsRead
<1>4. CASE zone = [k \in DOMAIN ls |-> AsStrings(Written(ls[k]))]
  BY <1>1, <1>2, <1>4, LinesAreRead
<1> QED BY <1>3, <1>4 DEF Zones

\* Some lines published in a file, in one TXT record or in several, however the
\* DNS library escapes them and cuts them into strings, are read as the same
\* records and failures (ParseRecordsAndFailures, record.go:83-101; unescapeTXT
\* and DNSLookup, dns.go:12-39 and 87-105).
THEOREM EveryWayIsRead == Spec => []PublishedIsRead
BY PublishedHolds, PTL

LEMMA CutOffHolds == OnlyTheEndIsLost
<1> SUFFICES ASSUME NEW ls \in Published, NEW limit \in 0..Len(AsFile(ls))
             PROVE  OnlyTheEnd(RecordsIn(Limited(AsFile(ls), limit)), RecordsIn(AsFile(ls)))
  BY DEF OnlyTheEndIsLost, OnlyTheEnd
<1>1. ls \in Seq(Lines)
  BY PublishedAreLists
<1>2. Len(AsFile(ls)) \in Nat
  BY <1>1, AsFileIs, LenProperties
<1>3. Limited(AsFile(ls), limit) = Cut(AsFile(ls), 1, limit)
  <2>1. limit < Len(AsFile(ls)) \/ limit = Len(AsFile(ls))
    BY <1>2
  <2> QED BY <2>1 DEF Limited
<1> QED BY <1>1, <1>3, CutFileIsRead

\* A well-known file cut off at the size limit (io.LimitReader, https.go) is read
\* as what stands before the cut: no record gets another match or mailbox, and
\* only the key of the last one may have lost its end.
THEOREM OnlyTheEndOfAFileIsLost == Spec => []OnlyTheEndIsLost
BY CutOffHolds, PTL
=============================================================================
