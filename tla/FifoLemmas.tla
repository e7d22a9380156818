------------------------------- MODULE FifoLemmas -------------------------------
(* Facts about sequences and about the operators of FifoOps that the proofs    *)
(* about the buffer and about the blocks that use it share.                    *)
EXTENDS FifoOps, Integers, SequenceTheorems, TLAPS

\* A concatenation splits where its parts meet.
LEMMA SplitConcat ==
  ASSUME NEW S, NEW s \in Seq(S), NEW t \in Seq(S)
  PROVE  /\ SubSeq(s \o t, 1, Len(s)) = s
         /\ SubSeq(s \o t, Len(s) + 1, Len(s) + Len(t)) = t
<1> DEFINE m == Len(s)
           n == Len(t)
           q == s \o t
<1>1. m \in Nat /\ n \in Nat
  OBVIOUS
<1>2. /\ q \in Seq(S) /\ Len(q) = m + n
      /\ \A i \in 1..(m + n) : q[i] = IF i <= m THEN s[i] ELSE t[i - m]
  BY ConcatProperties
<1>3. \A i \in 1..(m + n) : q[i] \in S
  BY <1>2, ElementOfSeq
<1> HIDE DEF q
<1>4. SubSeq(q, 1, m) = s
  <2>1. \A i \in 1..m : q[i] \in S
    BY <1>1, <1>3
  <2>2. /\ SubSeq(q, 1, m) \in Seq(S) /\ Len(SubSeq(q, 1, m)) = m
        /\ \A i \in 1..m : SubSeq(q, 1, m)[i] = q[i]
    BY <1>1, <2>1, SubSeqProperties
  <2>3. \A i \in 1..m : q[i] = s[i]
    BY <1>1, <1>2
  <2>4. QED
    BY <2>2, <2>3, SeqEqual
<1>5. SubSeq(q, m + 1, m + n) = t
  <2> HIDE DEF m, n
  <2>1. \A i \in (m + 1)..(m + n) : q[i] \in S
    BY <1>1, <1>3
  <2>2. /\ SubSeq(q, m + 1, m + n) \in Seq(S)
        /\ Len(SubSeq(q, m + 1, m + n)) = n
        /\ \A i \in 1..n : SubSeq(q, m + 1, m + n)[i] = q[m + i]
    <3>1. m + 1 \in Int /\ m + n \in Int /\ (m + n) - (m + 1) + 1 = n
      BY <1>1
    <3>2. \A i \in 1..n : (m + 1) + i - 1 = m + i
      BY <1>1
    <3>3. QED
      BY <1>1, <2>1, <3>1, <3>2, SubSeqProperties
  <2>3. \A i \in 1..n : q[m + i] = t[i]
    BY <1>1, <1>2
  <2>4. \A i \in 1..n : SubSeq(q, m + 1, m + n)[i] = t[i]
    BY <2>2, <2>3
  <2>5. QED
    BY <2>2, <2>4, SeqEqual DEF n
<1>6. QED
  BY <1>4, <1>5 DEF q

\* Two sequences that agree up to k have the same prefix of length k.
LEMMA SamePrefix ==
  ASSUME NEW S, NEW s, NEW t, NEW k \in Nat,
         \A i \in 1..k : s[i] \in S /\ t[i] = s[i]
  PROVE  SubSeq(t, 1, k) = SubSeq(s, 1, k)
<1>1. /\ SubSeq(s, 1, k) \in Seq(S) /\ Len(SubSeq(s, 1, k)) = k
      /\ \A i \in 1..k : SubSeq(s, 1, k)[i] = s[i]
  BY SubSeqProperties
<1>2. /\ SubSeq(t, 1, k) \in Seq(S) /\ Len(SubSeq(t, 1, k)) = k
      /\ \A i \in 1..k : SubSeq(t, 1, k)[i] = t[i]
  BY SubSeqProperties
<1>3. QED
  BY <1>1, <1>2, SeqEqual

\* Moving the head of one sequence to the end of another keeps their
\* concatenation.
LEMMA MoveOne ==
  ASSUME NEW S, NEW s \in Seq(S), NEW t \in Seq(S), NEW u \in Seq(S),
         Len(t) = Len(u) + 1, \A i \in 1..Len(u) : u[i] = t[i + 1]
  PROVE  Append(s, t[1]) \o u = s \o t
<1> DEFINE m == Len(s)
           n == Len(u)
           a == Append(s, t[1])
<1>1. m \in Nat /\ n \in Nat /\ Len(t) = n + 1
  BY LenProperties
<1>2. t[1] \in S
  BY <1>1, ElementOfSeq
<1>3. /\ a \in Seq(S) /\ Len(a) = m + 1
      /\ \A i \in 1..m : a[i] = s[i]
      /\ a[m + 1] = t[1]
  BY <1>2, AppendProperties
<1>4. /\ a \o u \in Seq(S) /\ Len(a \o u) = m + 1 + n
      /\ \A i \in 1..(m + 1 + n) : (a \o u)[i] = IF i <= m + 1 THEN a[i] ELSE u[i - (m + 1)]
  BY <1>3, ConcatProperties
<1>5. /\ s \o t \in Seq(S) /\ Len(s \o t) = m + Len(t)
      /\ \A i \in 1..(m + Len(t)) : (s \o t)[i] = IF i <= m THEN s[i] ELSE t[i - m]
  BY ConcatProperties
<1>6. \A i \in 1..n : u[i] = t[i + 1]
  OBVIOUS
<1> HIDE DEF m, n, a
<1>7. ASSUME NEW i \in 1..(m + 1 + n) PROVE (a \o u)[i] = (s \o t)[i]
  <2>1. CASE i <= m
    BY <1>1, <1>3, <1>4, <1>5, <2>1
  <2>2. CASE i = m + 1
    BY <1>1, <1>3, <1>4, <1>5, <2>2
  <2>3. CASE i > m + 1
    <3>1. i - (m + 1) \in 1..n /\ i - (m + 1) + 1 = i - m
      BY <1>1, <2>3
    <3>2. u[i - (m + 1)] = t[i - m]
      BY <1>6, <3>1
    <3>3. (a \o u)[i] = u[i - (m + 1)]
      BY <1>1, <1>4, <2>3
    <3>4. i \in 1..(m + Len(t)) /\ ~(i <= m)
      BY <1>1, <2>3
    <3>5. (s \o t)[i] = t[i - m]
      BY <1>5, <3>4
    <3>6. QED
      BY <3>2, <3>3, <3>5
  <2>4. i <= m \/ i = m + 1 \/ i > m + 1
    <3>1. i \in Int /\ m \in Int
      BY <1>1
    <3>2. QED
      BY <3>1
  <2>5. QED
    BY <2>1, <2>2, <2>3, <2>4
<1>8. a \o u = s \o t
  <2>1. Len(a \o u) = Len(s \o t) /\ Len(a \o u) = m + 1 + n
    BY <1>1, <1>4, <1>5
  <2>2. QED
    BY <1>4, <1>5, <1>7, <2>1, SeqEqual
<1>9. QED
  BY <1>8 DEF a

--------------------------------------------------------------------------------
\* A read splits the queue: what it takes and what it leaves.
LEMMA TakenLeft ==
  ASSUME NEW S, NEW q \in Seq(S), NEW n \in Nat
  PROVE  /\ Taken(q, n) \in Seq(S) /\ Left(q, n) \in Seq(S)
         /\ Len(Taken(q, n)) = (IF n <= Len(q) THEN n ELSE Len(q))
         /\ Len(Left(q, n)) = Len(q) - Len(Taken(q, n))
         /\ \A k \in 1..Len(Taken(q, n)) : Taken(q, n)[k] = q[k]
         /\ \A k \in 1..Len(Left(q, n)) : Left(q, n)[k] = q[Len(Taken(q, n)) + k]
         /\ Taken(q, n) \o Left(q, n) = q
<1> DEFINE m == Len(q)
<1>1. m \in Nat /\ \A k \in 1..m : q[k] \in S
  BY ElementOfSeq
<1>2. CASE n <= m
  <2> DEFINE t == SubSeq(q, 1, n)
             l == SubSeq(q, n + 1, m)
  <2>1. Taken(q, n) = t /\ Left(q, n) = l
    BY <1>2 DEF Taken, Left
  <2>2. t \in Seq(S) /\ Len(t) = n /\ \A k \in 1..n : t[k] = q[k]
    <3>1. \A k \in 1..n : q[k] \in S
      BY <1>1, <1>2
    <3>2. QED
      BY <3>1, SubSeqProperties
  <2>3. l \in Seq(S) /\ Len(l) = m - n /\ \A k \in 1..(m - n) : l[k] = q[n + k]
    <3> HIDE DEF m
    <3>1. \A k \in (n + 1)..m : q[k] \in S
      BY <1>1
    <3>2. m - (n + 1) + 1 = m - n /\ \A k \in 1..(m - n) : (n + 1) + k - 1 = n + k
      BY <1>1
    <3>3. n + 1 \in Int /\ m \in Int /\ (n + 1 <= m \/ m - n = 0)
      BY <1>1, <1>2
    <3>4. QED
      BY <3>1, <3>2, <3>3, SubSeqProperties
  <2>4. /\ t \o l \in Seq(S) /\ Len(t \o l) = Len(t) + Len(l)
        /\ \A k \in 1..(Len(t) + Len(l)) :
             (t \o l)[k] = IF k <= Len(t) THEN t[k] ELSE l[k - Len(t)]
    <3> HIDE DEF t, l
    <3>1. QED
      BY <2>2, <2>3, ConcatProperties
  <2>5. t \o l = q
    <3> HIDE DEF m, t, l
    <3>1. Len(t) = n /\ Len(t) + Len(l) = m
      BY <1>1, <2>2, <2>3
    <3>2. ASSUME NEW k \in 1..m PROVE (t \o l)[k] = q[k]
      <4>1. CASE k <= n
        <5>1. (t \o l)[k] = t[k]
          BY <2>4, <3>1, <4>1
        <5>2. k \in 1..n
          BY <1>1, <4>1
        <5>3. QED
          BY <2>2, <5>1, <5>2
      <4>2. CASE k > n
        <5>1. k - n \in 1..(m - n) /\ n + (k - n) = k /\ ~(k <= n)
          BY <1>1, <4>2
        <5>2. (t \o l)[k] = l[k - n]
          BY <2>4, <3>1, <5>1
        <5>3. l[k - n] = q[n + (k - n)]
          BY <2>3, <5>1
        <5>4. QED
          BY <5>1, <5>2, <5>3
      <4>3. k <= n \/ k > n
        <5>1. k \in Int /\ n \in Int
          BY <1>1
        <5>2. QED
          BY <5>1
      <4>4. QED
        BY <4>1, <4>2, <4>3
    <3>3. QED
      BY <2>4, <3>1, <3>2, SeqEqual DEF m
  <2> HIDE DEF t, l
  <2>6. QED
    BY <1>2, <2>1, <2>2, <2>3, <2>5
<1>3. CASE ~(n <= m)
  <2>1. Taken(q, n) = q /\ Left(q, n) = << >>
    BY <1>3 DEF Taken, Left
  <2>2. q \o << >> = q /\ << >> \in Seq(S) /\ Len(<< >>) = 0
    BY ConcatEmptySeq, EmptySeq
  <2>3. QED
    BY <1>1, <1>3, <2>1, <2>2
<1>4. QED
  BY <1>2, <1>3

\* A write of one packet stores it or drops it.
LEMMA AcceptedOne ==
  ASSUME NEW S, NEW q \in Seq(S), NEW cap \in Nat, Len(q) <= cap, NEW p
  PROVE  Accepted(q, << p >>, cap) = IF Len(q) < cap THEN << p >> ELSE << >>
<1>1. Len(<< p >>) = 1 /\ Len(q) \in Nat
  OBVIOUS
<1>2. CASE Len(q) < cap
  BY <1>1, <1>2 DEF Accepted
<1>3. CASE Len(q) = cap
  <2>1. Accepted(q, << p >>, cap) = SubSeq(<< p >>, 1, 0)
    BY <1>1, <1>3 DEF Accepted
  <2>2. SubSeq(<< p >>, 1, 0) = << >>
    BY SubSeqEmpty
  <2>3. QED
    BY <1>3, <2>1, <2>2
<1>4. QED
  BY <1>1, <1>2, <1>3

\* A batch b in front of a queue q, as one sequence: its items are those of b
\* first, a write to q appends to it, and a read that replaces b by the oldest
\* items of q removes b from its front.
LEMMA BatchAndQueue ==
  ASSUME NEW S, NEW b \in Seq(S), NEW q \in Seq(S)
  PROVE  /\ b \o q \in Seq(S)
         /\ Len(b \o q) = Len(b) + Len(q)
         /\ \A k \in 1..Len(b) : (b \o q)[k] = b[k]
         /\ \A p \in S : b \o (q \o << p >>) = Append(b \o q, p)
         /\ \A n \in Nat :
              Taken(q, n) \o Left(q, n) = SubSeq(b \o q, Len(b) + 1, Len(b \o q))
<1>1. b \o q \in Seq(S) /\ Len(b \o q) = Len(b) + Len(q)
  BY ConcatProperties
<1>2. \A k \in 1..Len(b) : (b \o q)[k] = b[k]
  BY ConcatProperties
<1>3. ASSUME NEW p \in S PROVE b \o (q \o << p >>) = Append(b \o q, p)
  <2>1. << p >> \in Seq(S)
    OBVIOUS
  <2>2. b \o (q \o << p >>) = (b \o q) \o << p >>
    BY <2>1, ConcatAssociative
  <2>3. QED
    BY <1>1, <2>2, AppendIsConcat
<1>4. ASSUME NEW n \in Nat
      PROVE  Taken(q, n) \o Left(q, n) = SubSeq(b \o q, Len(b) + 1, Len(b \o q))
  <2>1. Taken(q, n) \o Left(q, n) = q
    BY TakenLeft
  <2>2. SubSeq(b \o q, Len(b) + 1, Len(b) + Len(q)) = q
    BY SplitConcat
  <2>3. QED
    BY <1>1, <2>1, <2>2
<1>5. QED
  BY <1>1, <1>2, <1>3, <1>4
================================================================================
