----------------------------- MODULE QueueLemmas -----------------------------
(***************************************************************************)
(* What the proofs need to know of sequences: queues, into which elements  *)
(* go behind the last one and which they leave from the front, sequences   *)
(* that change at any place, and the linked lists that keep a sequence in  *)
(* the fields of their nodes.                                              *)
(***************************************************************************)
EXTENDS SequenceTheorems, FiniteSetTheorems, WellFoundedInduction, TLAPS

LEMMA AppendElement ==
  ASSUME NEW S, NEW s \in Seq(S), NEW e \in S
  PROVE  /\ Append(s, e) \in Seq(S) /\ Append(s, e) # <<>>
         /\ Range(Append(s, e)) = Range(s) \cup {e}
         /\ IsInjective(s) /\ e \notin Range(s) => IsInjective(Append(s, e))
  <1>1. /\ Append(s, e) \in Seq(S)
        /\ Len(Append(s, e)) = Len(s) + 1
        /\ \A i \in 1..Len(s) : Append(s, e)[i] = s[i]
        /\ Append(s, e)[Len(s) + 1] = e
        /\ Len(s) \in Nat /\ DOMAIN s = 1..Len(s)
        /\ DOMAIN Append(s, e) = 1..(Len(s) + 1)
    BY AppendProperties, LenProperties
  <1>2. Append(s, e) # <<>>
    BY <1>1, EmptySeq
  <1>3. \A i : i \in DOMAIN Append(s, e) <=> i \in DOMAIN s \/ i = Len(s) + 1
    BY <1>1
  <1>4. Range(Append(s, e)) = Range(s) \cup {e}
    BY <1>1, <1>3 DEF Range
  <1>5. ASSUME IsInjective(s), e \notin Range(s) PROVE IsInjective(Append(s, e))
    <2> SUFFICES ASSUME NEW i \in DOMAIN Append(s, e), NEW j \in DOMAIN Append(s, e),
                        Append(s, e)[i] = Append(s, e)[j]
                 PROVE  i = j
      BY DEF IsInjective
    <2>1. \A k \in DOMAIN s : s[k] # e
      BY <1>5 DEF Range
    <2>2. CASE i \in DOMAIN s /\ j \in DOMAIN s
      BY <1>1, <1>5, <2>2 DEF IsInjective
    <2>3. CASE i \notin DOMAIN s \/ j \notin DOMAIN s
      BY <1>1, <1>3, <2>1, <2>3
    <2> QED
      BY <2>2, <2>3
  <1> QED
    BY <1>1, <1>2, <1>4, <1>5

LEMMA TakeHead ==
  ASSUME NEW S, NEW s \in Seq(S), s # <<>>
  PROVE  /\ Head(s) \in S /\ Tail(s) \in Seq(S)
         /\ Head(s) \in Range(s)
         /\ Range(s) = Range(Tail(s)) \cup {Head(s)}
         /\ IsInjective(s) => IsInjective(Tail(s)) /\ Head(s) \notin Range(Tail(s))
  <1>1. /\ Head(s) \in S /\ Head(s) = s[1]
        /\ Tail(s) \in Seq(S) /\ Len(Tail(s)) = Len(s) - 1
        /\ \A i \in 1..Len(Tail(s)) : Tail(s)[i] = s[i + 1]
        /\ Len(s) \in Nat \ {0} /\ DOMAIN s = 1..Len(s)
        /\ DOMAIN Tail(s) = 1..(Len(s) - 1)
    <2>1. /\ Head(s) \in S /\ Tail(s) \in Seq(S) /\ Len(Tail(s)) = Len(s) - 1
          /\ \A i \in 1..Len(Tail(s)) : Tail(s)[i] = s[i + 1]
      BY HeadTailProperties
    <2>2. Len(s) \in Nat \ {0}
      BY EmptySeq
    <2>3. DOMAIN s = 1..Len(s)
      BY LenProperties
    <2>4. DOMAIN Tail(s) = 1..Len(Tail(s))
      BY <2>1, LenProperties
    <2>5. Head(s) = s[1]
      OBVIOUS
    <2> QED
      BY <2>1, <2>2, <2>3, <2>4, <2>5
  <1>2. \A i \in DOMAIN s : i # 1 => i - 1 \in DOMAIN Tail(s) /\ s[i] = Tail(s)[i - 1]
    <2> SUFFICES ASSUME NEW i \in DOMAIN s, i # 1
                 PROVE  i - 1 \in DOMAIN Tail(s) /\ s[i] = Tail(s)[i - 1]
      OBVIOUS
    <2>1. i - 1 \in 1..Len(Tail(s)) /\ (i - 1) + 1 = i
      BY <1>1
    <2> QED
      BY <1>1, <2>1
  <1>3. \A i : i \in DOMAIN Tail(s) => i + 1 \in DOMAIN s /\ i + 1 # 1 /\ s[i + 1] = Tail(s)[i]
    BY <1>1
  <1>4. 1 \in DOMAIN s
    BY <1>1
  <1>5. Range(s) = Range(Tail(s)) \cup {Head(s)}
    <2>1. ASSUME NEW x \in Range(s) PROVE x \in Range(Tail(s)) \cup {Head(s)}
      <3>1. PICK i \in DOMAIN s : x = s[i]
        BY <2>1 DEF Range
      <3> QED
        BY <1>1, <1>2, <3>1 DEF Range
    <2>2. ASSUME NEW x \in Range(Tail(s)) PROVE x \in Range(s)
      <3>1. PICK i \in DOMAIN Tail(s) : x = Tail(s)[i]
        BY <2>2 DEF Range
      <3> QED
        BY <1>3, <3>1 DEF Range
    <2>3. Head(s) \in Range(s)
      BY <1>1, <1>4 DEF Range
    <2> QED
      BY <2>1, <2>2, <2>3
  <1>6. ASSUME IsInjective(s) PROVE IsInjective(Tail(s)) /\ Head(s) \notin Range(Tail(s))
    <2>1. ASSUME NEW i \in DOMAIN Tail(s), NEW j \in DOMAIN Tail(s), Tail(s)[i] = Tail(s)[j]
          PROVE  i = j
      <3>1. i + 1 = j + 1
        BY <1>3, <1>6, <2>1 DEF IsInjective
      <3> QED
        BY <1>1, <3>1
    <2>2. ASSUME NEW i \in DOMAIN Tail(s) PROVE Tail(s)[i] # Head(s)
      BY <1>1, <1>3, <1>4, <1>6, <2>2 DEF IsInjective
    <2> QED
      BY <2>1, <2>2 DEF IsInjective, Range
  <1> QED
    BY <1>1, <1>5, <1>6

LEMMA PutFirst ==
  ASSUME NEW S, NEW s \in Seq(S), NEW e \in S
  PROVE  /\ <<e>> \o s \in Seq(S)
         /\ Range(<<e>> \o s) = Range(s) \cup {e}
         /\ IsInjective(s) /\ e \notin Range(s) => IsInjective(<<e>> \o s)
  <1> DEFINE u == <<e>> \o s
  <1>1. <<e>> \in Seq(S) /\ Len(<<e>>) = 1 /\ <<e>>[1] = e
    OBVIOUS
  <1>2. /\ u \in Seq(S) /\ Len(u) = 1 + Len(s) /\ Len(s) \in Nat
        /\ \A i \in 1..(1 + Len(s)) : u[i] = IF i <= 1 THEN <<e>>[i] ELSE s[i - 1]
    BY <1>1, ConcatProperties, LenProperties
  <1>3. DOMAIN u = 1..(1 + Len(s)) /\ DOMAIN s = 1..Len(s)
    BY <1>2, LenProperties
  <1>4. u[1] = e /\ \A i \in DOMAIN s : i + 1 \in DOMAIN u /\ u[i + 1] = s[i]
    <2>1. u[1] = e
      BY <1>1, <1>2
    <2>2. ASSUME NEW i \in DOMAIN s PROVE i + 1 \in DOMAIN u /\ u[i + 1] = s[i]
      <3>1. i + 1 \in 1..(1 + Len(s)) /\ ~(i + 1 <= 1) /\ (i + 1) - 1 = i
        BY <1>2, <1>3
      <3> QED
        BY <1>2, <1>3, <3>1
    <2> QED
      BY <2>1, <2>2
  <1>5. \A i \in DOMAIN u : i # 1 => i - 1 \in DOMAIN s /\ u[i] = s[i - 1]
    <2> SUFFICES ASSUME NEW i \in DOMAIN u, i # 1 PROVE i - 1 \in DOMAIN s /\ u[i] = s[i - 1]
      OBVIOUS
    <2>1. i \in 1..(1 + Len(s)) /\ ~(i <= 1) /\ i - 1 \in 1..Len(s)
      BY <1>2, <1>3
    <2> QED
      BY <1>2, <1>3, <2>1
  <1>6. 1 \in DOMAIN u /\ DOMAIN u \subseteq Nat /\ DOMAIN s \subseteq Nat
    BY <1>2, <1>3
  <1> HIDE DEF u
  <1>7. Range(u) = Range(s) \cup {e}
    <2>1. ASSUME NEW x \in Range(u) PROVE x \in Range(s) \cup {e}
      <3>1. PICK i \in DOMAIN u : x = u[i]
        BY <2>1 DEF Range
      <3> QED
        BY <1>4, <1>5, <3>1 DEF Range
    <2>2. ASSUME NEW x \in Range(s) PROVE x \in Range(u)
      <3>1. PICK i \in DOMAIN s : x = s[i]
        BY <2>2 DEF Range
      <3> QED
        BY <1>4, <3>1 DEF Range
    <2>3. e \in Range(u)
      BY <1>4, <1>6 DEF Range
    <2> QED
      BY <2>1, <2>2, <2>3
  <1>8. ASSUME IsInjective(s), e \notin Range(s) PROVE IsInjective(u)
    <2> SUFFICES ASSUME NEW i \in DOMAIN u, NEW j \in DOMAIN u, u[i] = u[j] PROVE i = j
      BY DEF IsInjective
    <2>1. \A k \in DOMAIN s : s[k] # e
      BY <1>8 DEF Range
    <2>2. CASE i = 1 \/ j = 1
      BY <1>4, <1>5, <2>1, <2>2
    <2>3. CASE i # 1 /\ j # 1
      <3>1. i - 1 = j - 1
        BY <1>5, <1>8, <2>3 DEF IsInjective
      <3> QED
        BY <1>6, <3>1
    <2> QED
      BY <2>2, <2>3
  <1> QED
    BY <1>2, <1>7, <1>8 DEF u

LEMMA EmptyQueue == Range(<<>>) = {} /\ IsInjective(<<>>)
  BY DEF Range, IsInjective

LEMMA HeadAndTail ==
  ASSUME NEW S, NEW s \in Seq(S), s # <<>>
  PROVE  s = <<Head(s)>> \o Tail(s)
  <1>1. Head(s) \in S /\ Tail(s) \in Seq(S) /\ Len(Tail(s)) = Len(s) - 1
    BY HeadTailProperties
  <1>2. Len(s) \in Nat \ {0}
    BY EmptySeq
  <1>3. \A i \in 1..Len(Tail(s)) : Tail(s)[i] = s[i + 1]
    BY HeadTailProperties
  <1>4. Head(s) = s[1]
    OBVIOUS
  <1>5. <<Head(s)>> \in Seq(S) /\ Len(<<Head(s)>>) = 1 /\ <<Head(s)>>[1] = Head(s)
    BY <1>1
  <1> DEFINE u == <<Head(s)>> \o Tail(s)
  <1>6. /\ u \in Seq(S) /\ Len(u) = 1 + Len(Tail(s))
        /\ \A i \in 1..(1 + Len(Tail(s))) :
             u[i] = IF i <= 1 THEN <<Head(s)>>[i] ELSE Tail(s)[i - 1]
    BY <1>1, <1>5, ConcatProperties
  <1>7. Len(u) = Len(s)
    BY <1>1, <1>2, <1>6
  <1>8. ASSUME NEW i \in 1..Len(s) PROVE s[i] = u[i]
    <2>1. CASE i = 1
      BY <1>2, <1>4, <1>5, <1>6, <1>7, <2>1
    <2>2. CASE i # 1
      <3>1. i - 1 \in 1..Len(Tail(s)) /\ (i - 1) + 1 = i /\ ~(i <= 1)
        BY <1>1, <1>2, <2>2
      <3> QED
        BY <1>3, <1>6, <1>7, <3>1
    <2> QED
      BY <2>1, <2>2
  <1> HIDE DEF u
  <1>9. s = u
    BY <1>6, <1>7, <1>8, SeqEqual
  <1> QED
    BY <1>9 DEF u

\* What putting one sequence behind another gives.
LEMMA Concat ==
  ASSUME NEW S, NEW w \in Seq(S), NEW s \in Seq(S)
  PROVE  /\ w \o s \in Seq(S) /\ Len(w \o s) = Len(w) + Len(s)
         /\ Len(w) \in Nat /\ Len(s) \in Nat
         /\ \A k \in 1..Len(w) : (w \o s)[k] = w[k]
         /\ \A k \in 1..Len(s) : (w \o s)[Len(w) + k] = s[k]
  <1>1. w \o s \in Seq(S) /\ Len(w \o s) = Len(w) + Len(s)
    BY ConcatProperties
  <1>2. \A k \in 1..(Len(w) + Len(s)) : (w \o s)[k] = IF k <= Len(w) THEN w[k] ELSE s[k - Len(w)]
    BY ConcatProperties
  <1>3. Len(w) \in Nat /\ Len(s) \in Nat
    BY LenProperties
  <1>4. \A k \in 1..Len(w) : (w \o s)[k] = w[k]
    BY <1>2, <1>3
  <1>5. ASSUME NEW k \in 1..Len(s) PROVE (w \o s)[Len(w) + k] = s[k]
    <2>1. Len(w) + k \in 1..(Len(w) + Len(s)) /\ ~(Len(w) + k <= Len(w)) /\ (Len(w) + k) - Len(w) = k
      BY <1>3
    <2> QED
      BY <1>2, <2>1
  <1> QED
    BY <1>1, <1>3, <1>4, <1>5

\* What went through a queue, in order: r is done, e is under way, and w waits.
LEMMA Joins ==
  ASSUME NEW S, NEW r \in Seq(S), NEW w \in Seq(S), NEW e \in S
  PROVE  r \o Append(w, e) = Append(r \o w, e)
  <1>1. <<e>> \in Seq(S) /\ r \o w \in Seq(S)
    BY ConcatProperties
  <1>2. Append(w, e) = w \o <<e>>
    BY AppendIsConcat
  <1>3. Append(r \o w, e) = (r \o w) \o <<e>>
    BY <1>1, AppendIsConcat
  <1>4. (r \o w) \o <<e>> = r \o (w \o <<e>>)
    BY <1>1, ConcatAssociative
  <1> QED
    BY <1>2, <1>3, <1>4

LEMMA Moves ==
  ASSUME NEW S, NEW r \in Seq(S), NEW w \in Seq(S), w # <<>>
  PROVE  (r \o <<Head(w)>>) \o Tail(w) = (r \o <<>>) \o w
  <1>1. Head(w) \in S /\ Tail(w) \in Seq(S) /\ <<Head(w)>> \in Seq(S)
    BY HeadTailProperties
  <1>2. (r \o <<Head(w)>>) \o Tail(w) = r \o (<<Head(w)>> \o Tail(w))
    BY <1>1, ConcatAssociative
  <1>3. w = <<Head(w)>> \o Tail(w)
    BY HeadAndTail
  <1>4. r \o <<>> = r
    BY ConcatEmptySeq
  <1> QED
    BY <1>2, <1>3, <1>4

LEMMA Ends ==
  ASSUME NEW S, NEW r \in Seq(S), NEW w \in Seq(S), NEW e \in S
  PROVE  /\ (r \o <<e>>) \o w = (Append(r, e) \o <<>>) \o w
         /\ IsInjective((r \o <<e>>) \o w) => e \notin Range(r)
  <1>1. Append(r, e) = r \o <<e>> /\ Append(r, e) \in Seq(S) /\ <<e>> \in Seq(S)
    BY AppendIsConcat, AppendProperties
  <1>2. Append(r, e) \o <<>> = Append(r, e)
    BY <1>1, ConcatEmptySeq
  <1>3. ASSUME IsInjective((r \o <<e>>) \o w), e \in Range(r) PROVE FALSE
    <2>1. PICK u, v : u = r \o <<e>> /\ v = u \o w
      OBVIOUS
    <2>2. u \in Seq(S) /\ Len(u) = Len(r) + 1 /\ Len(r) \in Nat
      BY <1>1, <2>1, AppendProperties, LenProperties
    <2>3. u[Len(r) + 1] = e /\ \A i \in 1..Len(r) : u[i] = r[i]
      BY <1>1, <2>1, AppendProperties
    <2>4. u \o w \in Seq(S) /\ Len(u \o w) = Len(u) + Len(w) /\ Len(w) \in Nat
      BY <2>2, Concat
    <2>5. \A i \in 1..Len(u) : (u \o w)[i] = u[i]
      BY <2>2, Concat
    <2>6. v \in Seq(S) /\ Len(v) = Len(r) + 1 + Len(w) /\ \A i \in 1..(Len(r) + 1) : v[i] = u[i]
      BY <2>1, <2>2, <2>4, <2>5
    <2>7. DOMAIN v = 1..Len(v) /\ DOMAIN r = 1..Len(r)
      BY <2>6, LenProperties
    <2>8. PICK i \in 1..Len(r) : r[i] = e
      BY <1>3, <2>7 DEF Range
    <2>9. /\ i \in DOMAIN v /\ Len(r) + 1 \in DOMAIN v /\ i # Len(r) + 1
          /\ v[i] = e /\ v[Len(r) + 1] = e
      BY <2>2, <2>3, <2>4, <2>6, <2>7, <2>8
    <2>10. IsInjective(v)
      BY <1>3, <2>1
    <2> QED
      BY <2>9, <2>10 DEF IsInjective
  <1> QED
    BY <1>1, <1>2, <1>3

\* What was put in front of a queue comes off it first.
LEMMA TakeBack ==
  ASSUME NEW S, NEW s \in Seq(S), NEW e \in S
  PROVE  <<e>> \o s # <<>> /\ Head(<<e>> \o s) = e /\ Tail(<<e>> \o s) = s
  <1>1. PICK u : u = <<e>> \o s
    OBVIOUS
  <1>2. /\ <<e>> \in Seq(S) /\ Len(<<e>>) = 1 /\ <<e>>[1] = e
    OBVIOUS
  <1>3. /\ <<e>> \o s \in Seq(S) /\ Len(<<e>> \o s) = 1 + Len(s) /\ Len(s) \in Nat
        /\ (<<e>> \o s)[1] = e
        /\ \A k \in 1..Len(s) : (<<e>> \o s)[1 + k] = s[k]
    BY <1>2, Concat
  <1>4. /\ u \in Seq(S) /\ Len(u) = 1 + Len(s) /\ u[1] = e
        /\ \A k \in 1..Len(s) : u[k + 1] = s[k]
    BY <1>1, <1>3
  <1>5. u # <<>>
    BY <1>3, <1>4, EmptySeq
  <1>6. /\ Tail(u) \in Seq(S) /\ Len(Tail(u)) = Len(s) /\ Head(u) = u[1]
        /\ \A k \in 1..Len(s) : Tail(u)[k] = u[k + 1]
    BY <1>3, <1>4, <1>5, HeadTailProperties
  <1>7. Tail(u) = s
    BY <1>4, <1>6, SeqEqual
  <1> QED
    BY <1>1, <1>4, <1>5, <1>6, <1>7

-----------------------------------------------------------------------------
(* Sets of numbers.  An induction is done with the least number for which  *)
(* it would fail.                                                          *)

LEMMA Smallest ==
  ASSUME NEW T, T \subseteq Nat, T # {}
  PROVE  \E m \in T : \A k \in T : m <= k
  <1>1. PICK R : R = OpToRel(<, Nat)
    OBVIOUS
  <1>2. IsWellFoundedOn(R, Nat)
    BY <1>1, NatLessThanWellFounded
  <1>3. PICK m \in T : \A k \in T : ~ (<<k, m>> \in R)
    BY <1>2, WFMin
  <1>4. \A k \in T : <<k, m>> \in R <=> k < m
    BY <1>1 DEF OpToRel
  <1>5. m \in Nat /\ \A k \in T : k \in Nat /\ ~(k < m)
    BY <1>3, <1>4
  <1> QED
    BY <1>5

LEMMA Largest ==
  ASSUME NEW n \in Nat, NEW T, T \subseteq 0..n, T # {}
  PROVE  \E m \in T : \A k \in T : k <= m
  <1> DEFINE U == {k \in 0..n : n - k \in T}
  <1>1. U \subseteq Nat /\ U # {}
    <2>1. PICK k \in T : k \in 0..n
      OBVIOUS
    <2>2. n - k \in 0..n /\ n - (n - k) = k
      BY <2>1
    <2>3. n - k \in U
      BY <2>1, <2>2
    <2>4. U \subseteq Nat
      OBVIOUS
    <2> QED
      BY <2>3, <2>4
  <1>2. PICK m \in U : \A k \in U : m <= k
    <2> HIDE DEF U
    <2> QED
      BY <1>1, Smallest
  <1>3. ASSUME NEW k \in T PROVE k <= n - m
    <2>1. n - k \in U
      BY <1>3
    <2>2. m <= n - k
      BY <1>2, <2>1
    <2> QED
      BY <2>2, <1>2
  <1> QED
    BY <1>2, <1>3

-----------------------------------------------------------------------------
(* Sequences into and out of which elements go at any place.               *)

\* s with e at place j, and s without its place j.
InsertedAt(s, j, e) == SubSeq(s, 1, j - 1) \o <<e>> \o SubSeq(s, j, Len(s))
RemovedAt(s, j) == SubSeq(s, 1, j - 1) \o SubSeq(s, j + 1, Len(s))

\* The parts of s before and from position j on.
LEMMA Parts ==
  ASSUME NEW S, NEW s \in Seq(S), NEW j \in 1..(Len(s) + 1)
  PROVE  /\ SubSeq(s, 1, j - 1) \in Seq(S) /\ Len(SubSeq(s, 1, j - 1)) = j - 1
         /\ \A k \in 1..(j - 1) : SubSeq(s, 1, j - 1)[k] = s[k]
         /\ SubSeq(s, j, Len(s)) \in Seq(S) /\ Len(SubSeq(s, j, Len(s))) = Len(s) + 1 - j
         /\ \A k \in 1..(Len(s) + 1 - j) : SubSeq(s, j, Len(s))[k] = s[j + k - 1]
  <1>1. /\ Len(s) \in Nat /\ DOMAIN s = 1..Len(s) /\ \A i \in 1..Len(s) : s[i] \in S
        /\ j \in Int /\ j - 1 \in Int /\ 1 \in Int /\ Len(s) \in Int
    BY LenProperties, ElementOfSeq
  <1>2. /\ \A i \in 1..(j - 1) : s[i] \in S
        /\ \A i \in j..Len(s) : s[i] \in S
    BY <1>1
  <1>3. /\ SubSeq(s, 1, j - 1) \in Seq(S)
        /\ Len(SubSeq(s, 1, j - 1)) = IF 1 <= j - 1 THEN j - 1 - 1 + 1 ELSE 0
        /\ \A i \in 1..(j - 1 - 1 + 1) : SubSeq(s, 1, j - 1)[i] = s[1 + i - 1]
    BY <1>1, <1>2, SubSeqProperties
  <1>4. /\ SubSeq(s, j, Len(s)) \in Seq(S)
        /\ Len(SubSeq(s, j, Len(s))) = IF j <= Len(s) THEN Len(s) - j + 1 ELSE 0
        /\ \A i \in 1..(Len(s) - j + 1) : SubSeq(s, j, Len(s))[i] = s[j + i - 1]
    BY <1>1, <1>2, SubSeqProperties
  <1>5. Len(SubSeq(s, 1, j - 1)) = j - 1 /\ Len(SubSeq(s, j, Len(s))) = Len(s) + 1 - j
    BY <1>1, <1>3, <1>4
  <1>6. ASSUME NEW k \in 1..(j - 1) PROVE SubSeq(s, 1, j - 1)[k] = s[k]
    <2>1. k \in 1..(j - 1 - 1 + 1) /\ 1 + k - 1 = k
      OBVIOUS
    <2> QED
      BY <1>3, <2>1
  <1>7. ASSUME NEW k \in 1..(Len(s) + 1 - j) PROVE SubSeq(s, j, Len(s))[k] = s[j + k - 1]
    <2>1. k \in 1..(Len(s) - j + 1)
      BY <1>1
    <2> QED
      BY <1>4, <2>1
  <1> QED
    BY <1>3, <1>4, <1>5, <1>6, <1>7

LEMMA Inserted ==
  ASSUME NEW S, NEW s \in Seq(S), NEW e \in S, NEW j \in 1..(Len(s) + 1)
  PROVE  /\ InsertedAt(s, j, e) \in Seq(S) /\ Len(InsertedAt(s, j, e)) = Len(s) + 1
         /\ \A k \in 1..(Len(s) + 1) :
              InsertedAt(s, j, e)[k] = IF k < j THEN s[k] ELSE IF k = j THEN e ELSE s[k - 1]
  <1>1. PICK a, b : a = SubSeq(s, 1, j - 1) /\ b = SubSeq(s, j, Len(s))
    OBVIOUS
  <1>2. /\ a \in Seq(S) /\ Len(a) = j - 1 /\ \A k \in 1..(j - 1) : a[k] = s[k]
    BY <1>1, Parts
  <1>3. b \in Seq(S) /\ Len(b) = Len(s) + 1 - j /\ \A k \in 1..(Len(s) + 1 - j) : b[k] = s[j + k - 1]
    BY <1>1, Parts
  <1>4. PICK d : d = <<e>>
    OBVIOUS
  <1>5. d \in Seq(S) /\ Len(d) = 1 /\ d[1] = e
    BY <1>4
  <1>6. PICK c : c = a \o d
    OBVIOUS
  <1>7. /\ a \o d \in Seq(S) /\ Len(a \o d) = Len(a) + Len(d)
        /\ \A k \in 1..Len(a) : (a \o d)[k] = a[k]
        /\ \A k \in 1..Len(d) : (a \o d)[Len(a) + k] = d[k]
    <2>1. a \in Seq(S) /\ d \in Seq(S)
      BY <1>2, <1>5
    <2> QED
      BY ONLY <2>1, Concat
  <1>8. c \in Seq(S) /\ Len(c) = j /\ \A k \in 1..(j - 1) : c[k] = s[k]
    BY <1>2, <1>5, <1>6, <1>7
  <1>9. c[j] = e
    <2>1. (a \o d)[Len(a) + 1] = d[1]
      BY <1>5, <1>7
    <2>2. Len(a) + 1 = j
      BY <1>2
    <2> QED
      BY <1>5, <1>6, <2>1, <2>2
  <1>10. c \in Seq(S) /\ b \in Seq(S)
    BY <1>3, <1>8
  <1>11. /\ c \o b \in Seq(S) /\ Len(c \o b) = Len(c) + Len(b)
         /\ \A k \in 1..Len(c) : (c \o b)[k] = c[k]
         /\ \A k \in 1..Len(b) : (c \o b)[Len(c) + k] = b[k]
    BY ONLY <1>10, Concat
  <1>12. PICK u : u = c \o b
    OBVIOUS
  <1>13. /\ u \in Seq(S) /\ Len(u) = Len(s) + 1 /\ Len(s) \in Nat
         /\ \A k \in 1..j : u[k] = c[k]
         /\ \A k \in 1..(Len(s) + 1 - j) : u[j + k] = b[k]
    BY <1>3, <1>8, <1>11, <1>12, LenProperties
  <1>14. ASSUME NEW k \in 1..(Len(s) + 1)
         PROVE  u[k] = IF k < j THEN s[k] ELSE IF k = j THEN e ELSE s[k - 1]
    <2>1. CASE k <= j
      BY <1>8, <1>9, <1>13, <2>1
    <2>2. CASE k > j
      <3>1. k - j \in 1..(Len(s) + 1 - j) /\ j + (k - j) = k /\ j + (k - j) - 1 = k - 1
        BY <1>13, <2>2
      <3>2. b[k - j] = s[k - 1]
        BY <1>3, <3>1
      <3>3. u[k] = b[k - j]
        BY <1>13, <3>1
      <3> QED
        BY <2>2, <3>2, <3>3
    <2> QED
      BY <2>1, <2>2
  <1>15. u = InsertedAt(s, j, e)
    BY <1>1, <1>4, <1>6, <1>12 DEF InsertedAt
  <1> QED
    BY <1>13, <1>14, <1>15

LEMMA Removed ==
  ASSUME NEW S, NEW s \in Seq(S), NEW j \in 1..Len(s)
  PROVE  /\ RemovedAt(s, j) \in Seq(S) /\ Len(RemovedAt(s, j)) = Len(s) - 1
         /\ \A k \in 1..(Len(s) - 1) : RemovedAt(s, j)[k] = IF k < j THEN s[k] ELSE s[k + 1]
  <1>1. PICK a, b : a = SubSeq(s, 1, j - 1) /\ b = SubSeq(s, j + 1, Len(s))
    OBVIOUS
  <1>2. Len(s) \in Nat /\ j \in 1..(Len(s) + 1) /\ j + 1 \in 1..(Len(s) + 1)
    BY LenProperties
  <1>3. a \in Seq(S) /\ Len(a) = j - 1 /\ \A k \in 1..(j - 1) : a[k] = s[k]
    BY <1>1, <1>2, Parts
  <1>4. /\ b \in Seq(S) /\ Len(b) = Len(s) + 1 - (j + 1)
        /\ \A k \in 1..(Len(s) + 1 - (j + 1)) : b[k] = s[j + 1 + k - 1]
    BY <1>1, <1>2, Parts
  <1>5. PICK u : u = a \o b
    OBVIOUS
  <1>10. a \in Seq(S) /\ b \in Seq(S)
    BY <1>3, <1>4
  <1>6. /\ a \o b \in Seq(S) /\ Len(a \o b) = Len(a) + Len(b)
        /\ \A k \in 1..Len(a) : (a \o b)[k] = a[k]
        /\ \A k \in 1..Len(b) : (a \o b)[Len(a) + k] = b[k]
    BY ONLY <1>10, Concat
  <1>7. /\ u \in Seq(S) /\ Len(u) = Len(s) - 1
        /\ \A k \in 1..(j - 1) : u[k] = s[k]
        /\ \A k \in 1..(Len(s) - j) : u[j - 1 + k] = b[k]
    BY <1>2, <1>3, <1>4, <1>5, <1>6
  <1>8. ASSUME NEW k \in 1..(Len(s) - 1) PROVE u[k] = IF k < j THEN s[k] ELSE s[k + 1]
    <2>1. CASE k < j
      BY <1>7, <2>1
    <2>2. CASE k >= j
      <3>1. k - j + 1 \in 1..(Len(s) - j) /\ j - 1 + (k - j + 1) = k /\ j + 1 + (k - j + 1) - 1 = k + 1
        BY <1>2, <2>2
      <3>2. b[k - j + 1] = s[k + 1]
        BY <1>2, <1>4, <3>1
      <3> QED
        BY <1>7, <2>2, <3>1, <3>2
    <2> QED
      BY <2>1, <2>2
  <1>9. u = RemovedAt(s, j)
    BY <1>1, <1>5 DEF RemovedAt
  <1> QED
    BY <1>7, <1>8, <1>9

\* The ends of a sequence are places, too.
LEMMA TailIsRemoved ==
  ASSUME NEW S, NEW s \in Seq(S), s # <<>>
  PROVE  Tail(s) = RemovedAt(s, 1)
  <1>1. Len(s) \in Nat \ {0} /\ 1 \in 1..Len(s)
    BY EmptySeq
  <1>2. /\ Tail(s) \in Seq(S) /\ Len(Tail(s)) = Len(s) - 1
        /\ \A i \in 1..Len(Tail(s)) : Tail(s)[i] = s[i + 1]
    BY HeadTailProperties
  <1>3. PICK u : u = RemovedAt(s, 1)
    OBVIOUS
  <1>4. u \in Seq(S) /\ Len(u) = Len(s) - 1 /\ \A k \in 1..(Len(s) - 1) : u[k] = s[k + 1]
    <2>1. \A k \in 1..(Len(s) - 1) : RemovedAt(s, 1)[k] = IF k < 1 THEN s[k] ELSE s[k + 1]
      BY <1>1, Removed
    <2> QED
      BY <1>1, <1>3, <2>1, Removed
  <1>5. Tail(s) = u
    BY <1>2, <1>4, SeqEqual
  <1> QED
    BY <1>3, <1>5

LEMMA FrontIsRemoved ==
  ASSUME NEW S, NEW s \in Seq(S), s # <<>>
  PROVE  SubSeq(s, 1, Len(s) - 1) = RemovedAt(s, Len(s))
  <1>1. Len(s) \in Nat \ {0} /\ Len(s) \in 1..Len(s) /\ Len(s) \in 1..(Len(s) + 1)
    BY EmptySeq
  <1>2. PICK v : v = SubSeq(s, 1, Len(s) - 1)
    OBVIOUS
  <1>3. v \in Seq(S) /\ Len(v) = Len(s) - 1 /\ \A k \in 1..(Len(s) - 1) : v[k] = s[k]
    BY <1>1, <1>2, Parts
  <1>4. PICK u : u = RemovedAt(s, Len(s))
    OBVIOUS
  <1>5. u \in Seq(S) /\ Len(u) = Len(s) - 1 /\ \A k \in 1..(Len(s) - 1) : u[k] = s[k]
    <2>1. \A k \in 1..(Len(s) - 1) : RemovedAt(s, Len(s))[k] = IF k < Len(s) THEN s[k] ELSE s[k + 1]
      BY <1>1, Removed
    <2> QED
      BY <1>1, <1>4, <2>1, Removed
  <1>6. v = u
    BY <1>3, <1>5, SeqEqual
  <1> QED
    BY <1>2, <1>4, <1>6

LEMMA AppendIsInserted ==
  ASSUME NEW S, NEW s \in Seq(S), NEW e \in S
  PROVE  Append(s, e) = InsertedAt(s, Len(s) + 1, e)
  <1>1. Len(s) \in Nat /\ Len(s) + 1 \in 1..(Len(s) + 1)
    BY LenProperties
  <1>2. PICK v : v = Append(s, e)
    OBVIOUS
  <1>3. /\ v \in Seq(S) /\ Len(v) = Len(s) + 1 /\ v[Len(s) + 1] = e
        /\ \A k \in 1..Len(s) : v[k] = s[k]
    BY <1>2, AppendProperties
  <1>4. PICK u : u = InsertedAt(s, Len(s) + 1, e)
    OBVIOUS
  <1>5. /\ u \in Seq(S) /\ Len(u) = Len(s) + 1
        /\ u[Len(s) + 1] = e /\ \A k \in 1..Len(s) : u[k] = s[k]
    <2>1. \A j \in 1..(Len(s) + 1) :
            /\ InsertedAt(s, j, e) \in Seq(S) /\ Len(InsertedAt(s, j, e)) = Len(s) + 1
            /\ \A k \in 1..(Len(s) + 1) :
                 InsertedAt(s, j, e)[k] = IF k < j THEN s[k] ELSE IF k = j THEN e ELSE s[k - 1]
      BY Inserted
    <2> QED
      BY <1>1, <1>4, <2>1
  <1>6. v = u
    <2>1. \A k \in 1..Len(v) : v[k] = u[k]
      BY <1>1, <1>3, <1>5
    <2> QED
      BY <1>3, <1>5, <2>1, SeqEqual
  <1> QED
    BY <1>2, <1>4, <1>6

\* s from its end.
Turned(s) == [i \in 1..Len(s) |-> s[(Len(s) - i) + 1]]

LEMMA TurnedIs ==
  ASSUME NEW S, NEW s \in Seq(S)
  PROVE  /\ Turned(s) \in Seq(S) /\ Len(Turned(s)) = Len(s) /\ Len(s) \in Nat
         /\ \A i \in 1..Len(s) : Len(s) - i + 1 \in 1..Len(s) /\ Turned(s)[i] = s[Len(s) - i + 1]
         /\ \A i \in 1..Len(s) : s[i] = Turned(s)[Len(s) - i + 1]
         /\ Range(Turned(s)) = Range(s)
  <1>1. Len(s) \in Nat /\ DOMAIN s = 1..Len(s) /\ \A i \in 1..Len(s) : s[i] \in S
    BY LenProperties, ElementOfSeq
  <1>2. \A i \in 1..Len(s) : Len(s) - i + 1 \in 1..Len(s) /\ Len(s) - (Len(s) - i + 1) + 1 = i
    BY <1>1
  <1>3. PICK u : u = Turned(s)
    OBVIOUS
  <1>4. u = [i \in 1..Len(s) |-> s[(Len(s) - i) + 1]]
    BY <1>3 DEF Turned
  <1>5. \A i \in 1..Len(s) : u[i] = s[Len(s) - i + 1] /\ u[i] \in S
    BY <1>1, <1>2, <1>4
  <1>6. u \in Seq(S) /\ Len(u) = Len(s) /\ DOMAIN u = 1..Len(s)
    BY <1>1, <1>4, <1>5
  <1>7. \A i \in 1..Len(s) : s[i] = u[Len(s) - i + 1]
    BY <1>2, <1>5
  <1>8. Range(u) = Range(s)
    <2>1. ASSUME NEW x \in Range(u) PROVE x \in Range(s)
      <3>1. PICK i \in 1..Len(s) : u[i] = x
        BY <1>6, <2>1 DEF Range
      <3> QED
        BY <1>1, <1>2, <1>5, <3>1 DEF Range
    <2>2. ASSUME NEW x \in Range(s) PROVE x \in Range(u)
      <3>1. PICK i \in 1..Len(s) : s[i] = x
        BY <1>1, <2>2 DEF Range
      <3> QED
        BY <1>2, <1>6, <1>7, <3>1 DEF Range
    <2> QED
      BY <2>1, <2>2
  <1> QED
    BY <1>1, <1>2, <1>3, <1>5, <1>6, <1>7, <1>8

\* The last put is the first of the turned sequence.
LEMMA TurnedIn ==
  ASSUME NEW S, NEW s \in Seq(S), NEW n \in S
  PROVE  Turned(InsertedAt(s, 1, n)) = Append(Turned(s), n)
  <1>1. PICK u, v, w : u = InsertedAt(s, 1, n) /\ v = Turned(s) /\ w = Append(v, n)
    OBVIOUS
  <1>2. Len(s) \in Nat /\ 1 \in 1..(Len(s) + 1)
    BY LenProperties
  <1>3. /\ u \in Seq(S) /\ Len(u) = Len(s) + 1
        /\ \A k \in 1..(Len(s) + 1) : u[k] = IF k < 1 THEN s[k] ELSE IF k = 1 THEN n ELSE s[k - 1]
    <2>1. \A y \in 1..(Len(s) + 1) :
            /\ InsertedAt(s, y, n) \in Seq(S) /\ Len(InsertedAt(s, y, n)) = Len(s) + 1
            /\ \A k \in 1..(Len(s) + 1) :
                 InsertedAt(s, y, n)[k] = IF k < y THEN s[k] ELSE IF k = y THEN n ELSE s[k - 1]
      BY ONLY s \in Seq(S), n \in S, Inserted
    <2> QED
      BY <1>1, <1>2, <2>1
  <1>4. /\ v \in Seq(S) /\ Len(v) = Len(s)
        /\ \A i \in 1..Len(s) : Len(s) - i + 1 \in 1..Len(s) /\ v[i] = s[Len(s) - i + 1]
    BY <1>1, TurnedIs
  <1>5. /\ w \in Seq(S) /\ Len(w) = Len(s) + 1 /\ w[Len(s) + 1] = n
        /\ \A i \in 1..Len(s) : w[i] = v[i]
    BY <1>1, <1>4, AppendProperties
  <1>6. PICK x : x = Turned(u)
    OBVIOUS
  <1>7. /\ x \in Seq(S) /\ Len(x) = Len(s) + 1
        /\ \A i \in 1..(Len(s) + 1) : x[i] = u[(Len(s) + 1) - i + 1]
    BY <1>3, <1>6, TurnedIs
  <1>8. ASSUME NEW i \in 1..(Len(s) + 1) PROVE x[i] = w[i]
    <2>1. CASE i = Len(s) + 1
      <3>1. (Len(s) + 1) - i + 1 = 1
        BY <1>2, <2>1
      <3>2. x[i] = u[1] /\ u[1] = n
        BY <1>2, <1>3, <1>7, <3>1
      <3> QED
        BY <1>5, <2>1, <3>2
    <2>2. CASE i # Len(s) + 1
      <3>1. i \in 1..Len(s) /\ (Len(s) + 1) - i + 1 \in 2..(Len(s) + 1)
            /\ ((Len(s) + 1) - i + 1) - 1 = Len(s) - i + 1
        BY <1>2, <2>2
      <3>2. u[(Len(s) + 1) - i + 1] = s[Len(s) - i + 1]
        BY <1>2, <1>3, <3>1
      <3>3. x[i] = s[Len(s) - i + 1]
        BY <1>7, <3>2
      <3> QED
        BY <1>4, <1>5, <3>1, <3>3
    <2> QED
      BY <2>1, <2>2
  <1>9. x = w
    BY <1>5, <1>7, <1>8, SeqEqual
  <1> QED
    BY <1>1, <1>6, <1>9

\* The last element of a turned sequence was the first.
LEMMA TurnedOut ==
  ASSUME NEW S, NEW s \in Seq(S), s # <<>>
  PROVE  /\ Turned(s) # <<>> /\ Turned(s)[Len(Turned(s))] = s[1]
         /\ Turned(RemovedAt(s, 1)) = SubSeq(Turned(s), 1, Len(Turned(s)) - 1)
  <1>1. PICK u, v, w : u = RemovedAt(s, 1) /\ v = Turned(s) /\ w = SubSeq(v, 1, Len(v) - 1)
    OBVIOUS
  <1>2. Len(s) \in Nat \ {0} /\ 1 \in 1..Len(s)
    BY EmptySeq
  <1>3. /\ u \in Seq(S) /\ Len(u) = Len(s) - 1
        /\ \A k \in 1..(Len(s) - 1) : u[k] = s[k + 1]
    <2>1. \A y \in 1..Len(s) :
            /\ RemovedAt(s, y) \in Seq(S) /\ Len(RemovedAt(s, y)) = Len(s) - 1
            /\ \A k \in 1..(Len(s) - 1) : RemovedAt(s, y)[k] = IF k < y THEN s[k] ELSE s[k + 1]
      BY Removed
    <2> QED
      BY <1>1, <1>2, <2>1
  <1>4. /\ v \in Seq(S) /\ Len(v) = Len(s)
        /\ \A i \in 1..Len(s) : Len(s) - i + 1 \in 1..Len(s) /\ v[i] = s[Len(s) - i + 1]
    BY <1>1, TurnedIs
  <1>5. w \in Seq(S) /\ Len(w) = Len(s) - 1 /\ \A k \in 1..(Len(s) - 1) : w[k] = v[k]
    <2>1. Len(v) \in 1..(Len(v) + 1)
      BY <1>2, <1>4
    <2> QED
      BY <1>1, <1>4, <2>1, Parts
  <1>6. PICK x : x = Turned(u)
    OBVIOUS
  <1>7. /\ x \in Seq(S) /\ Len(x) = Len(s) - 1
        /\ \A i \in 1..(Len(s) - 1) : x[i] = u[(Len(s) - 1) - i + 1]
    BY <1>3, <1>6, TurnedIs
  <1>8. ASSUME NEW i \in 1..(Len(s) - 1) PROVE x[i] = w[i]
    <2>1. /\ i \in 1..Len(s) /\ (Len(s) - 1) - i + 1 \in 1..(Len(s) - 1)
          /\ ((Len(s) - 1) - i + 1) + 1 = Len(s) - i + 1
      BY <1>2
    <2>2. u[(Len(s) - 1) - i + 1] = s[Len(s) - i + 1]
      BY <1>3, <2>1
    <2>3. x[i] = s[Len(s) - i + 1]
      BY <1>7, <2>2
    <2> QED
      BY <1>4, <1>5, <2>1, <2>3
  <1>9. x = w
    BY <1>2, <1>5, <1>7, <1>8, SeqEqual
  <1>10. v # <<>>
    BY <1>2, <1>4, EmptySeq
  <1>11. v[Len(v)] = s[1]
    <2>1. Len(s) \in 1..Len(s) /\ Len(s) - Len(s) + 1 = 1
      BY <1>2
    <2> QED
      BY <1>4, <2>1
  <1> QED
    BY <1>1, <1>6, <1>9, <1>10, <1>11

-----------------------------------------------------------------------------
(* Linked lists.  A list starts at a head h; its nodes, in their order,    *)
(* are a sequence s of elements of S; and behind the last one comes e,     *)
(* which is NULL in a singly linked list and the head again in a ring.     *)
(* The fields of nodes and heads are functions.                            *)

\* What is met after i steps from h through s to e.
Path(h, s, e, i) == IF i = 0 THEN h ELSE IF i <= Len(s) THEN s[i] ELSE e

\* f leads from h through s to e, and g leads back.
Linked(f, h, s, e) == \A i \in 0..Len(s) : f[Path(h, s, e, i)] = Path(h, s, e, i + 1)
BackLinked(g, h, s, e) == \A i \in 0..Len(s) : g[Path(h, s, e, i + 1)] = Path(h, s, e, i)

\* The nodes of s are different, and neither what is before nor what is behind them is one.
Line(S, h, s, e) == s \in Seq(S) /\ IsInjective(s) /\ h \notin S /\ e \notin S

LEMMA Members ==
  ASSUME NEW S, NEW h, NEW e, NEW s, Line(S, h, s, e)
  PROVE  /\ s \in Seq(S) /\ Len(s) \in Nat /\ DOMAIN s = 1..Len(s)
         /\ \A i \in 1..Len(s) : s[i] \in S /\ s[i] \in Range(s)
         /\ \A i, k \in 1..Len(s) : s[i] = s[k] => i = k
         /\ \A x \in Range(s) : \E i \in 1..Len(s) : s[i] = x
  <1>1. s \in Seq(S) /\ Len(s) \in Nat /\ DOMAIN s = 1..Len(s) /\ \A i \in 1..Len(s) : s[i] \in S
    BY LenProperties, ElementOfSeq DEF Line
  <1>2. \A i, k \in 1..Len(s) : s[i] = s[k] => i = k
    BY <1>1 DEF Line, IsInjective
  <1>3. \A x : x \in Range(s) <=> \E i \in 1..Len(s) : s[i] = x
    BY <1>1 DEF Range
  <1> QED
    BY <1>1, <1>2, <1>3

\* No two places of a line are the same, but for the two ends of a ring.
LEMMA Places ==
  ASSUME NEW S, NEW h, NEW e, NEW s, Line(S, h, s, e)
  PROVE  /\ Len(s) \in Nat /\ Path(h, s, e, 0) = h /\ Path(h, s, e, Len(s) + 1) = e
         /\ \A i \in 1..Len(s) : Path(h, s, e, i) \in S /\ Path(h, s, e, i) = s[i] /\ s[i] \in Range(s)
         /\ \A x \in Range(s) : x \in S /\ \E i \in 1..Len(s) : s[i] = x
         /\ \A i, j \in 0..Len(s) : Path(h, s, e, i) = Path(h, s, e, j) => i = j
         /\ \A i, j \in 1..(Len(s) + 1) : Path(h, s, e, i) = Path(h, s, e, j) => i = j
  <1>1. Len(s) \in Nat /\ DOMAIN s = 1..Len(s) /\ \A i \in 1..Len(s) : s[i] \in S
    BY LenProperties, ElementOfSeq DEF Line
  <1>2. \A i, j \in 1..Len(s) : s[i] = s[j] => i = j
    BY <1>1 DEF Line, IsInjective
  <1>3. \A x : x \in Range(s) <=> \E i \in 1..Len(s) : s[i] = x
    BY <1>1 DEF Range
  <1>4. h \notin S /\ e \notin S
    BY DEF Line
  <1>5. \A i \in 1..Len(s) : Path(h, s, e, i) = s[i]
    BY <1>1 DEF Path
  <1>6. Path(h, s, e, 0) = h /\ Path(h, s, e, Len(s) + 1) = e
    BY <1>1 DEF Path
  <1>7. \A i \in 0..Len(s) : i = 0 \/ i \in 1..Len(s)
    BY <1>1
  <1>8. \A i \in 1..(Len(s) + 1) : i = Len(s) + 1 \/ i \in 1..Len(s)
    BY <1>1
  <1>9. \A i, j \in 0..Len(s) : Path(h, s, e, i) = Path(h, s, e, j) => i = j
    BY <1>1, <1>2, <1>4, <1>5, <1>6, <1>7
  <1>10. \A i, j \in 1..(Len(s) + 1) : Path(h, s, e, i) = Path(h, s, e, j) => i = j
    BY <1>1, <1>2, <1>4, <1>5, <1>6, <1>8
  <1> QED
    BY <1>1, <1>3, <1>5, <1>6, <1>9, <1>10

\* The places of a line with one node more, and with one less.
LEMMA PathIn ==
  ASSUME NEW S, NEW h, NEW e, NEW s, Line(S, h, s, e), NEW n \in S, n \notin Range(s),
         NEW j \in 1..(Len(s) + 1), NEW u, u = InsertedAt(s, j, n)
  PROVE  /\ Line(S, h, u, e) /\ Len(u) = Len(s) + 1 /\ Range(u) = Range(s) \cup {n}
         /\ \A k \in 0..(Len(s) + 2) :
              Path(h, u, e, k) = IF k < j THEN Path(h, s, e, k) ELSE IF k = j THEN n ELSE Path(h, s, e, k - 1)
  <1>1. /\ s \in Seq(S) /\ Len(s) \in Nat /\ \A i \in 1..Len(s) : s[i] \in S /\ s[i] \in Range(s)
        /\ \A i, k \in 1..Len(s) : s[i] = s[k] => i = k
        /\ \A x \in Range(s) : \E i \in 1..Len(s) : s[i] = x
    BY Members
  <1>2. /\ u \in Seq(S) /\ Len(u) = Len(s) + 1
        /\ \A k \in 1..(Len(s) + 1) : u[k] = IF k < j THEN s[k] ELSE IF k = j THEN n ELSE s[k - 1]
    <2>1. s \in Seq(S)
      BY <1>1
    <2>2. \A y \in 1..(Len(s) + 1), x \in S :
            /\ InsertedAt(s, y, x) \in Seq(S) /\ Len(InsertedAt(s, y, x)) = Len(s) + 1
            /\ \A k \in 1..(Len(s) + 1) :
                 InsertedAt(s, y, x)[k] = IF k < y THEN s[k] ELSE IF k = y THEN x ELSE s[k - 1]
      BY ONLY <2>1, Inserted
    <2> QED
      BY <2>2
  <1>3. DOMAIN u = 1..(Len(s) + 1)
    BY <1>2, LenProperties
  <1>4. ASSUME NEW i \in 1..(Len(s) + 1), NEW k \in 1..(Len(s) + 1), u[i] = u[k] PROVE i = k
    <2>1. \A x \in 1..Len(s) : s[x] # n
      BY <1>1
    <2>2. u[j] = n /\ \A x \in 1..(Len(s) + 1) : x # j => u[x] # n
      <3>1. ASSUME NEW x \in 1..(Len(s) + 1), x < j PROVE u[x] # n
        <4>1. x \in 1..Len(s) /\ u[x] = s[x]
          BY <1>1, <1>2, <3>1
        <4> QED
          BY <2>1, <4>1
      <3>2. ASSUME NEW x \in 1..(Len(s) + 1), x > j PROVE u[x] # n
        <4>1. x - 1 \in 1..Len(s) /\ u[x] = s[x - 1]
          BY <1>1, <1>2, <3>2
        <4> QED
          BY <2>1, <4>1
      <3> QED
        BY <1>1, <1>2, <3>1, <3>2
    <2>3. CASE i = j \/ k = j
      BY <1>4, <2>2, <2>3
    <2>4. CASE i # j /\ k # j
      <3>1. PICK x \in 1..Len(s) : u[i] = s[x] /\ x = IF i < j THEN i ELSE i - 1
        BY <1>1, <1>2, <2>4
      <3>2. PICK y \in 1..Len(s) : u[k] = s[y] /\ y = IF k < j THEN k ELSE k - 1
        BY <1>1, <1>2, <2>4
      <3>3. x = y
        BY <1>1, <1>4, <3>1, <3>2
      <3> QED
        BY <1>1, <2>4, <3>1, <3>2, <3>3
    <2> QED
      BY <2>3, <2>4
  <1>5. Range(u) = Range(s) \cup {n}
    <2>1. ASSUME NEW x \in Range(u) PROVE x \in Range(s) \cup {n}
      <3>1. PICK k \in 1..(Len(s) + 1) : u[k] = x
        BY <1>3 DEF Range
      <3>2. CASE k < j
        BY <1>1, <1>2, <3>1, <3>2
      <3>3. CASE k >= j
        BY <1>1, <1>2, <3>1, <3>3
      <3> QED
        BY <3>2, <3>3
    <2>2. ASSUME NEW x \in Range(s) PROVE x \in Range(u)
      <3>1. PICK k \in 1..Len(s) : s[k] = x
        BY <1>1
      <3>2. k \in 1..(Len(s) + 1) /\ k + 1 \in 1..(Len(s) + 1) /\ (k + 1) - 1 = k
        BY <1>1
      <3>3. u[k] = x \/ u[k + 1] = x
        BY <1>2, <3>1, <3>2
      <3> QED
        BY <1>3, <3>2, <3>3 DEF Range
    <2>3. u[j] = n
      BY <1>2
    <2>4. n \in Range(u)
      BY <1>3, <2>3 DEF Range
    <2> QED
      BY <2>1, <2>2, <2>4
  <1>6. Line(S, h, u, e)
    BY <1>2, <1>3, <1>4 DEF Line, IsInjective
  <1>7. ASSUME NEW k \in 0..(Len(s) + 2)
        PROVE  Path(h, u, e, k) = IF k < j THEN Path(h, s, e, k) ELSE IF k = j THEN n ELSE Path(h, s, e, k - 1)
    <2>1. CASE k = 0
      BY <2>1 DEF Path
    <2>2. CASE k \in 1..(Len(s) + 1)
      BY <1>1, <1>2, <2>2 DEF Path
    <2>3. CASE k = Len(s) + 2
      BY <1>1, <1>2, <2>3 DEF Path
    <2> QED
      BY <1>1, <2>1, <2>2, <2>3
  <1> QED
    BY <1>2, <1>5, <1>6, <1>7

LEMMA PathOut ==
  ASSUME NEW S, NEW h, NEW e, NEW s, Line(S, h, s, e),
         NEW j \in 1..Len(s), NEW u, u = RemovedAt(s, j)
  PROVE  /\ Line(S, h, u, e) /\ Len(u) = Len(s) - 1 /\ Range(u) = Range(s) \ {s[j]}
         /\ \A k \in 0..Len(s) :
              Path(h, u, e, k) = IF k < j THEN Path(h, s, e, k) ELSE Path(h, s, e, k + 1)
  <1>1. /\ s \in Seq(S) /\ Len(s) \in Nat /\ \A i \in 1..Len(s) : s[i] \in S /\ s[i] \in Range(s)
        /\ \A i, k \in 1..Len(s) : s[i] = s[k] => i = k
        /\ \A x \in Range(s) : \E i \in 1..Len(s) : s[i] = x
    BY Members
  <1>2. /\ u \in Seq(S) /\ Len(u) = Len(s) - 1
        /\ \A k \in 1..(Len(s) - 1) : u[k] = IF k < j THEN s[k] ELSE s[k + 1]
    BY <1>1, Removed
  <1>3. DOMAIN u = 1..(Len(s) - 1)
    BY <1>2, LenProperties
  <1> DEFINE o(x) == IF x < j THEN x ELSE x + 1
  <1>4. \A k \in 1..(Len(s) - 1) : o(k) \in 1..Len(s) /\ o(k) # j /\ u[k] = s[o(k)]
    BY <1>1, <1>2
  <1>5. \A i, k \in 1..(Len(s) - 1) : o(i) = o(k) => i = k
    BY <1>1
  <1>6. \A i \in 1..Len(s) : i # j => \E k \in 1..(Len(s) - 1) : o(k) = i
    <2> SUFFICES ASSUME NEW i \in 1..Len(s), i # j PROVE \E k \in 1..(Len(s) - 1) : o(k) = i
      OBVIOUS
    <2>1. CASE i < j
      <3>1. i \in 1..(Len(s) - 1) /\ o(i) = i
        BY <1>1, <2>1
      <3> QED
        BY <3>1
    <2>2. CASE i > j
      <3>1. i - 1 \in 1..(Len(s) - 1) /\ o(i - 1) = i
        BY <1>1, <2>2
      <3> QED
        BY <3>1
    <2> QED
      BY <1>1, <2>1, <2>2
  <1> HIDE DEF o
  <1>7. ASSUME NEW i \in 1..(Len(s) - 1), NEW k \in 1..(Len(s) - 1), u[i] = u[k] PROVE i = k
    <2>1. o(i) \in 1..Len(s) /\ o(k) \in 1..Len(s) /\ s[o(i)] = s[o(k)]
      BY <1>4, <1>7
    <2>2. o(i) = o(k)
      BY <1>1, <2>1
    <2> QED
      BY <1>5, <2>2
  <1>8. Line(S, h, u, e)
    BY <1>2, <1>3, <1>7 DEF Line, IsInjective
  <1>9. Range(u) = Range(s) \ {s[j]}
    <2>1. ASSUME NEW x \in Range(u) PROVE x \in Range(s) \ {s[j]}
      <3>1. PICK k \in 1..(Len(s) - 1) : u[k] = x
        BY <1>3 DEF Range
      <3>2. PICK i \in 1..Len(s) : i # j /\ x = s[i]
        BY <1>4, <3>1
      <3> QED
        BY <1>1, <3>2
    <2>2. ASSUME NEW x \in Range(s), x # s[j] PROVE x \in Range(u)
      <3>1. PICK i \in 1..Len(s) : s[i] = x
        BY <1>1
      <3>2. PICK k \in 1..(Len(s) - 1) : o(k) = i
        BY <1>6, <2>2, <3>1
      <3> QED
        BY <1>3, <1>4, <3>1, <3>2 DEF Range
    <2> QED
      BY <2>1, <2>2
  <1>10. ASSUME NEW k \in 0..Len(s)
         PROVE  Path(h, u, e, k) = IF k < j THEN Path(h, s, e, k) ELSE Path(h, s, e, k + 1)
    <2>1. CASE k = 0
      BY <2>1 DEF Path
    <2>2. CASE k \in 1..(Len(s) - 1)
      <3>1. Path(h, u, e, k) = u[k] /\ Path(h, s, e, k) = s[k] /\ Path(h, s, e, k + 1) = s[k + 1]
        BY <1>1, <1>2, <2>2 DEF Path
      <3> QED
        BY <1>2, <2>2, <3>1
    <2>3. CASE k = Len(s)
      BY <1>1, <1>2, <2>3 DEF Path
    <2> QED
      BY <1>1, <2>1, <2>2, <2>3
  <1> QED
    BY <1>2, <1>8, <1>9, <1>10

\* A field that is changed at the place before the new node, and at the new node, leads
\* through the line with the node; and the other way round.
LEMMA LinkIn ==
  ASSUME NEW S, NEW h, NEW e, NEW s, Line(S, h, s, e), NEW n \in S, n \notin Range(s),
         NEW j \in 1..(Len(s) + 1), NEW f, Linked(f, h, s, e), NEW g,
         g[Path(h, s, e, j - 1)] = n, g[n] = Path(h, s, e, j),
         \A x \in S \cup {h} : x # n /\ x # Path(h, s, e, j - 1) => g[x] = f[x]
  PROVE  Linked(g, h, InsertedAt(s, j, n), e)
  <1>1. PICK u : u = InsertedAt(s, j, n)
    OBVIOUS
  <1>2. /\ Len(u) = Len(s) + 1
        /\ \A k \in 0..(Len(s) + 2) :
             Path(h, u, e, k) = IF k < j THEN Path(h, s, e, k) ELSE IF k = j THEN n ELSE Path(h, s, e, k - 1)
    BY <1>1, PathIn
  <1>3. /\ Len(s) \in Nat /\ Path(h, s, e, 0) = h
        /\ \A i \in 1..Len(s) : Path(h, s, e, i) \in S /\ Path(h, s, e, i) = s[i] /\ s[i] \in Range(s)
        /\ \A i, k \in 0..Len(s) : Path(h, s, e, i) = Path(h, s, e, k) => i = k
    BY Places
  <1>4. ASSUME NEW i \in 0..Len(s), i # j - 1 PROVE g[Path(h, s, e, i)] = Path(h, s, e, i + 1)
    <2>1. j - 1 \in 0..Len(s)
      BY <1>3
    <2>2. Path(h, s, e, i) # Path(h, s, e, j - 1)
      BY <1>3, <1>4, <2>1
    <2>3. Path(h, s, e, i) \in S \cup {h} /\ Path(h, s, e, i) # n
      <3>1. CASE i = 0
        BY <1>3, <3>1 DEF Line
      <3>2. CASE i # 0
        BY <1>3, <3>2
      <3> QED
        BY <3>1, <3>2
    <2> QED
      BY <2>2, <2>3 DEF Linked
  <1>5. ASSUME NEW i \in 0..Len(u) PROVE g[Path(h, u, e, i)] = Path(h, u, e, i + 1)
    <2>1. i \in 0..(Len(s) + 2) /\ i + 1 \in 0..(Len(s) + 2)
      BY <1>2, <1>3
    <2>2. CASE i < j - 1
      <3>1. i \in 0..Len(s) /\ Path(h, u, e, i) = Path(h, s, e, i) /\ Path(h, u, e, i + 1) = Path(h, s, e, i + 1)
        BY <1>2, <1>3, <2>1, <2>2
      <3> QED
        BY <1>4, <2>2, <3>1
    <2>3. CASE i = j - 1
      BY <1>2, <2>1, <2>3
    <2>4. CASE i = j
      <3>1. Path(h, u, e, i) = n /\ Path(h, u, e, i + 1) = Path(h, s, e, j)
        BY <1>2, <2>1, <2>4
      <3> QED
        BY <3>1
    <2>5. CASE i > j
      <3>1. /\ i - 1 \in 0..Len(s) /\ i - 1 # j - 1 /\ (i - 1) + 1 = i
            /\ Path(h, u, e, i) = Path(h, s, e, i - 1) /\ Path(h, u, e, i + 1) = Path(h, s, e, i)
        BY <1>2, <1>3, <2>1, <2>5
      <3> QED
        BY <1>4, <3>1
    <2> QED
      BY <1>3, <2>2, <2>3, <2>4, <2>5
  <1> QED
    BY <1>1, <1>5 DEF Linked

LEMMA BackIn ==
  ASSUME NEW S, NEW h, NEW e, NEW s, Line(S, h, s, e), NEW n \in S, n \notin Range(s),
         NEW j \in 1..(Len(s) + 1), NEW f, BackLinked(f, h, s, e), NEW g,
         g[n] = Path(h, s, e, j - 1), g[Path(h, s, e, j)] = n,
         \A x \in S \cup {e} : x # n /\ x # Path(h, s, e, j) => g[x] = f[x]
  PROVE  BackLinked(g, h, InsertedAt(s, j, n), e)
  <1>1. PICK u : u = InsertedAt(s, j, n)
    OBVIOUS
  <1>2. /\ Len(u) = Len(s) + 1
        /\ \A k \in 0..(Len(s) + 2) :
             Path(h, u, e, k) = IF k < j THEN Path(h, s, e, k) ELSE IF k = j THEN n ELSE Path(h, s, e, k - 1)
    BY <1>1, PathIn
  <1>3. /\ Len(s) \in Nat /\ Path(h, s, e, Len(s) + 1) = e
        /\ \A i \in 1..Len(s) : Path(h, s, e, i) \in S /\ Path(h, s, e, i) = s[i] /\ s[i] \in Range(s)
        /\ \A i, k \in 1..(Len(s) + 1) : Path(h, s, e, i) = Path(h, s, e, k) => i = k
    BY Places
  <1>4. ASSUME NEW i \in 0..Len(s), i + 1 # j PROVE g[Path(h, s, e, i + 1)] = Path(h, s, e, i)
    <2>1. Path(h, s, e, i + 1) # Path(h, s, e, j)
      <3>1. i + 1 \in 1..(Len(s) + 1)
        BY <1>3
      <3> QED
        BY <1>3, <1>4, <3>1
    <2>2. Path(h, s, e, i + 1) \in S \cup {e} /\ Path(h, s, e, i + 1) # n
      <3>1. CASE i = Len(s)
        BY <1>3, <3>1 DEF Line
      <3>2. CASE i # Len(s)
        <4>1. i + 1 \in 1..Len(s)
          BY <1>3, <3>2
        <4> QED
          BY <1>3, <4>1
      <3> QED
        BY <3>1, <3>2
    <2> QED
      BY <2>1, <2>2 DEF BackLinked
  <1>5. ASSUME NEW i \in 0..Len(u) PROVE g[Path(h, u, e, i + 1)] = Path(h, u, e, i)
    <2>1. i \in 0..(Len(s) + 2) /\ i + 1 \in 0..(Len(s) + 2)
      BY <1>2, <1>3
    <2>2. CASE i < j - 1
      <3>1. /\ i \in 0..Len(s) /\ i + 1 # j
            /\ Path(h, u, e, i) = Path(h, s, e, i) /\ Path(h, u, e, i + 1) = Path(h, s, e, i + 1)
        BY <1>2, <1>3, <2>1, <2>2
      <3> QED
        BY <1>4, <3>1
    <2>3. CASE i = j - 1
      <3>1. Path(h, u, e, i) = Path(h, s, e, j - 1) /\ Path(h, u, e, i + 1) = n
        BY <1>2, <2>1, <2>3
      <3> QED
        BY <3>1
    <2>4. CASE i = j
      <3>1. Path(h, u, e, i) = n /\ Path(h, u, e, i + 1) = Path(h, s, e, j)
        BY <1>2, <2>1, <2>4
      <3> QED
        BY <3>1
    <2>5. CASE i > j
      <3>1. /\ i - 1 \in 0..Len(s) /\ (i - 1) + 1 # j /\ (i - 1) + 1 = i
            /\ Path(h, u, e, i) = Path(h, s, e, i - 1) /\ Path(h, u, e, i + 1) = Path(h, s, e, i)
        BY <1>2, <1>3, <2>1, <2>5
      <3> QED
        BY <1>4, <3>1
    <2> QED
      BY <1>3, <2>2, <2>3, <2>4, <2>5
  <1> QED
    BY <1>1, <1>5 DEF BackLinked

\* A field that is changed at the place before a node passes the node by.
LEMMA LinkOut ==
  ASSUME NEW S, NEW h, NEW e, NEW s, Line(S, h, s, e), NEW j \in 1..Len(s),
         NEW f, Linked(f, h, s, e), NEW g,
         g[Path(h, s, e, j - 1)] = Path(h, s, e, j + 1),
         \A x \in S \cup {h} : x # Path(h, s, e, j - 1) => g[x] = f[x]
  PROVE  Linked(g, h, RemovedAt(s, j), e)
  <1>1. PICK u : u = RemovedAt(s, j)
    OBVIOUS
  <1>2. /\ Len(u) = Len(s) - 1
        /\ \A k \in 0..Len(s) : Path(h, u, e, k) = IF k < j THEN Path(h, s, e, k) ELSE Path(h, s, e, k + 1)
    BY <1>1, PathOut
  <1>3. /\ Len(s) \in Nat /\ Path(h, s, e, 0) = h
        /\ \A i \in 1..Len(s) : Path(h, s, e, i) \in S
        /\ \A i, k \in 0..Len(s) : Path(h, s, e, i) = Path(h, s, e, k) => i = k
    BY Places
  <1>4. ASSUME NEW i \in 0..Len(s), i # j - 1 PROVE g[Path(h, s, e, i)] = Path(h, s, e, i + 1)
    <2>1. j - 1 \in 0..Len(s)
      BY <1>3
    <2>2. Path(h, s, e, i) # Path(h, s, e, j - 1)
      BY <1>3, <1>4, <2>1
    <2>3. Path(h, s, e, i) \in S \cup {h}
      <3>1. i = 0 \/ i \in 1..Len(s)
        BY <1>3
      <3> QED
        BY <1>3, <3>1
    <2> QED
      BY <2>2, <2>3 DEF Linked
  <1>5. ASSUME NEW i \in 0..Len(u) PROVE g[Path(h, u, e, i)] = Path(h, u, e, i + 1)
    <2>1. i \in 0..Len(s) /\ i + 1 \in 0..Len(s)
      BY <1>2, <1>3
    <2>2. CASE i < j - 1
      <3>1. Path(h, u, e, i) = Path(h, s, e, i) /\ Path(h, u, e, i + 1) = Path(h, s, e, i + 1)
        BY <1>2, <1>3, <2>1, <2>2
      <3> QED
        BY <1>4, <2>1, <2>2, <3>1
    <2>3. CASE i = j - 1
      <3>1. Path(h, u, e, i) = Path(h, s, e, j - 1) /\ Path(h, u, e, i + 1) = Path(h, s, e, j + 1)
        BY <1>2, <2>1, <2>3
      <3> QED
        BY <3>1
    <2>4. CASE i >= j
      <3>1. /\ i + 1 # j - 1
            /\ Path(h, u, e, i) = Path(h, s, e, i + 1) /\ Path(h, u, e, i + 1) = Path(h, s, e, (i + 1) + 1)
        BY <1>2, <1>3, <2>1, <2>4
      <3> QED
        BY <1>4, <2>1, <3>1
    <2> QED
      BY <1>3, <2>2, <2>3, <2>4
  <1> QED
    BY <1>1, <1>5 DEF Linked

LEMMA BackOut ==
  ASSUME NEW S, NEW h, NEW e, NEW s, Line(S, h, s, e), NEW j \in 1..Len(s),
         NEW f, BackLinked(f, h, s, e), NEW g,
         g[Path(h, s, e, j + 1)] = Path(h, s, e, j - 1),
         \A x \in S \cup {e} : x # Path(h, s, e, j + 1) => g[x] = f[x]
  PROVE  BackLinked(g, h, RemovedAt(s, j), e)
  <1>1. PICK u : u = RemovedAt(s, j)
    OBVIOUS
  <1>2. /\ Len(u) = Len(s) - 1
        /\ \A k \in 0..Len(s) : Path(h, u, e, k) = IF k < j THEN Path(h, s, e, k) ELSE Path(h, s, e, k + 1)
    BY <1>1, PathOut
  <1>3. /\ Len(s) \in Nat /\ Path(h, s, e, Len(s) + 1) = e
        /\ \A i \in 1..Len(s) : Path(h, s, e, i) \in S
        /\ \A i, k \in 1..(Len(s) + 1) : Path(h, s, e, i) = Path(h, s, e, k) => i = k
    BY Places
  <1>4. ASSUME NEW i \in 0..Len(s), i # j PROVE g[Path(h, s, e, i + 1)] = Path(h, s, e, i)
    <2>1. i + 1 \in 1..(Len(s) + 1) /\ j + 1 \in 1..(Len(s) + 1) /\ i + 1 # j + 1
      BY <1>3, <1>4
    <2>2. Path(h, s, e, i + 1) # Path(h, s, e, j + 1)
      BY <1>3, <2>1
    <2>3. Path(h, s, e, i + 1) \in S \cup {e}
      <3>1. i + 1 = Len(s) + 1 \/ i + 1 \in 1..Len(s)
        BY <1>3
      <3> QED
        BY <1>3, <3>1
    <2> QED
      BY <2>2, <2>3 DEF BackLinked
  <1>5. ASSUME NEW i \in 0..Len(u) PROVE g[Path(h, u, e, i + 1)] = Path(h, u, e, i)
    <2>1. i \in 0..Len(s) /\ i + 1 \in 0..Len(s)
      BY <1>2, <1>3
    <2>2. CASE i < j - 1
      <3>1. Path(h, u, e, i) = Path(h, s, e, i) /\ Path(h, u, e, i + 1) = Path(h, s, e, i + 1)
        BY <1>2, <1>3, <2>1, <2>2
      <3> QED
        BY <1>4, <2>1, <2>2, <3>1
    <2>3. CASE i = j - 1
      <3>1. Path(h, u, e, i) = Path(h, s, e, j - 1) /\ Path(h, u, e, i + 1) = Path(h, s, e, j + 1)
        BY <1>2, <2>1, <2>3
      <3> QED
        BY <3>1
    <2>4. CASE i >= j
      <3>1. /\ i + 1 # j
            /\ Path(h, u, e, i) = Path(h, s, e, i + 1) /\ Path(h, u, e, i + 1) = Path(h, s, e, (i + 1) + 1)
        BY <1>2, <1>3, <2>1, <2>4
      <3> QED
        BY <1>4, <2>1, <3>1
    <2> QED
      BY <1>3, <2>2, <2>3, <2>4
  <1> QED
    BY <1>1, <1>5 DEF BackLinked

\* A field that is the same at all places of a line still leads through it.
LEMMA Aside ==
  ASSUME NEW S, NEW h, NEW e, NEW s, Line(S, h, s, e), NEW f, NEW g
  PROVE  /\ Linked(f, h, s, e) /\ (\A x \in Range(s) \cup {h} : g[x] = f[x]) => Linked(g, h, s, e)
         /\ BackLinked(f, h, s, e) /\ (\A x \in Range(s) \cup {e} : g[x] = f[x]) => BackLinked(g, h, s, e)
  <1>1. /\ Len(s) \in Nat /\ Path(h, s, e, 0) = h /\ Path(h, s, e, Len(s) + 1) = e
        /\ \A i \in 1..Len(s) : Path(h, s, e, i) = s[i] /\ s[i] \in Range(s)
    BY Places
  <1>2. ASSUME NEW i \in 0..Len(s)
        PROVE  Path(h, s, e, i) \in Range(s) \cup {h} /\ Path(h, s, e, i + 1) \in Range(s) \cup {e}
    <2>1. (i = 0 \/ i \in 1..Len(s)) /\ (i + 1 = Len(s) + 1 \/ i + 1 \in 1..Len(s))
      BY <1>1
    <2> QED
      BY <1>1, <2>1
  <1> QED
    BY <1>2 DEF Linked, BackLinked

\* A line from its other end.
LEMMA TurnedLine ==
  ASSUME NEW S, NEW h, NEW e, NEW s, Line(S, h, s, e)
  PROVE  /\ Line(S, e, Turned(s), h) /\ Range(Turned(s)) = Range(s)
         /\ \A g : BackLinked(g, h, s, e) => Linked(g, e, Turned(s), h)
  <1>1. PICK u : u = Turned(s)
    OBVIOUS
  <1>2. s \in Seq(S) /\ \A i, k \in 1..Len(s) : s[i] = s[k] => i = k
    BY Members
  <1>3. /\ u \in Seq(S) /\ Len(u) = Len(s) /\ Len(s) \in Nat
        /\ \A i \in 1..Len(s) : Len(s) - i + 1 \in 1..Len(s) /\ u[i] = s[Len(s) - i + 1]
        /\ Range(u) = Range(s)
    BY <1>1, <1>2, TurnedIs
  <1>4. DOMAIN u = 1..Len(s)
    BY <1>3, LenProperties
  <1>5. \A i, k \in 1..Len(s) : u[i] = u[k] => i = k
    <2> SUFFICES ASSUME NEW i \in 1..Len(s), NEW k \in 1..Len(s), u[i] = u[k] PROVE i = k
      OBVIOUS
    <2>1. Len(s) - i + 1 = Len(s) - k + 1
      BY <1>2, <1>3
    <2> QED
      BY <1>3, <2>1
  <1>6. Line(S, e, u, h)
    BY <1>3, <1>4, <1>5 DEF Line, IsInjective
  <1>7. \A i \in 0..(Len(s) + 1) : Path(e, u, h, i) = Path(h, s, e, Len(s) + 1 - i)
    <2> SUFFICES ASSUME NEW i \in 0..(Len(s) + 1)
                 PROVE  Path(e, u, h, i) = Path(h, s, e, Len(s) + 1 - i)
      OBVIOUS
    <2>1. CASE i = 0
      BY <1>3, <2>1 DEF Path
    <2>2. CASE i = Len(s) + 1
      BY <1>3, <2>2 DEF Path
    <2>3. CASE i \in 1..Len(s)
      <3>1. Len(s) + 1 - i \in 1..Len(s) /\ Len(s) + 1 - i = Len(s) - i + 1
        BY <1>3, <2>3
      <3>2. u[i] = s[Len(s) + 1 - i]
        BY <1>3, <2>3, <3>1
      <3> QED
        BY <1>3, <2>3, <3>1, <3>2 DEF Path
    <2> QED
      BY <1>3, <2>1, <2>2, <2>3
  <1>8. ASSUME NEW g, BackLinked(g, h, s, e), NEW i \in 0..Len(u)
        PROVE  g[Path(e, u, h, i)] = Path(e, u, h, i + 1)
    <2>1. /\ Len(s) - i \in 0..Len(s) /\ (Len(s) - i) + 1 = Len(s) + 1 - i
          /\ i \in 0..(Len(s) + 1) /\ i + 1 \in 0..(Len(s) + 1) /\ Len(s) + 1 - (i + 1) = Len(s) - i
      BY <1>3
    <2>2. g[Path(h, s, e, Len(s) + 1 - i)] = Path(h, s, e, Len(s) - i)
      BY <1>8, <2>1 DEF BackLinked
    <2> QED
      BY <1>7, <2>1, <2>2
  <1> QED
    BY <1>1, <1>3, <1>6, <1>8 DEF Linked

-----------------------------------------------------------------------------
(* A walk.  The nodes that a loop over a list meets, when the loop is      *)
(* written as a recursive function of the number of nodes it has met.      *)

\* What the loop is at after each of N steps from h along f, and the nodes before the end e.
Visits(g, f, h, e, N) ==
  g = [k \in 0..N |-> IF k = 0 THEN f[h] ELSE IF g[k - 1] = e THEN e ELSE f[g[k - 1]]]
Met(g, e) == [i \in 1..Cardinality({k \in DOMAIN g : g[k] # e}) |-> g[i - 1]]

\* A line has no more nodes than there are.
LEMMA Fitting ==
  ASSUME NEW S, NEW h, NEW e, NEW s, Line(S, h, s, e), IsFiniteSet(S)
  PROVE  Len(s) \in Nat /\ Cardinality(S) \in Nat /\ Len(s) <= Cardinality(S)
  <1>1. Len(s) \in Nat /\ DOMAIN s = 1..Len(s) /\ \A i \in 1..Len(s) : s[i] \in S
    BY Members
  <1>2. s \in Injection(1..Len(s), S)
    BY Members, <1>1 DEF Injection, Line
  <1>3. Cardinality(1..Len(s)) = Len(s)
    <2>1. 1 \in Int /\ Len(s) \in Int
      BY <1>1
    <2>2. Cardinality(1..Len(s)) = IF 1 > Len(s) THEN 0 ELSE Len(s) - 1 + 1
      BY <2>1, FS_Interval
    <2> QED
      BY <1>1, <2>2
  <1>4. Cardinality(1..Len(s)) <= Cardinality(S)
    BY <1>2, FS_Injection
  <1> QED
    BY <1>1, <1>3, <1>4, FS_CardinalityType

\* The loop follows the line.
LEMMA OnThePath ==
  ASSUME NEW S, NEW h, NEW e, NEW s, Line(S, h, s, e), NEW f, Linked(f, h, s, e),
         NEW N \in Nat, Len(s) <= N
  PROVE  /\ \E g : Visits(g, f, h, e, N)
         /\ \A g : Visits(g, f, h, e, N) => \A k \in 0..N : g[k] = Path(h, s, e, k + 1)
  <1> DEFINE P(k) == Path(h, s, e, k)
             Next_(g, k) == IF k = 0 THEN f[h] ELSE IF g[k - 1] = e THEN e ELSE f[g[k - 1]]
  <1>1. /\ Len(s) \in Nat /\ P(0) = h /\ \A k \in Nat : k > Len(s) => P(k) = e
        /\ \A k \in 1..Len(s) : P(k) # e /\ f[P(k)] = P(k + 1)
        /\ f[h] = P(1)
    <2>1. Len(s) \in Nat /\ P(0) = h /\ \A k \in 1..Len(s) : P(k) \in S
      BY Places
    <2>2. \A k \in 0..Len(s) : f[P(k)] = P(k + 1)
      BY DEF Linked
    <2>3. \A k \in Nat : k > Len(s) => P(k) = e
      BY <2>1 DEF Path
    <2>4. e \notin S
      BY DEF Line
    <2> QED
      BY <2>1, <2>2, <2>3, <2>4
  <1> HIDE DEF P
  <1>2. ASSUME NEW k \in 1..N
        PROVE  P(k + 1) = IF P(k) = e THEN e ELSE f[P(k)]
    <2>1. CASE k <= Len(s)
      BY <1>1, <2>1
    <2>2. CASE k > Len(s)
      <3>1. k \in Nat /\ k + 1 \in Nat /\ k + 1 > Len(s)
        BY <1>1, <2>2
      <3> QED
        BY <1>1, <2>2, <3>1
    <2> QED
      BY <1>1, <2>1, <2>2
  <1>3. \E g : Visits(g, f, h, e, N)
    <2> DEFINE g == [k \in 0..N |-> P(k + 1)]
    <2>1. \A k \in 1..N : k - 1 \in 0..N /\ g[k - 1] = P(k)
      OBVIOUS
    <2>2. \A k \in 0..N : g[k] = P(k + 1)
      OBVIOUS
    <2> HIDE DEF g
    <2>3. ASSUME NEW k \in 0..N PROVE P(k + 1) = IF k = 0 THEN f[h] ELSE IF g[k - 1] = e THEN e ELSE f[g[k - 1]]
      <3>1. CASE k = 0
        BY <1>1, <3>1
      <3>2. CASE k # 0
        <4>1. k \in 1..N
          BY <3>2
        <4> QED
          BY <1>2, <2>1, <3>2, <4>1
      <3> QED
        BY <3>1, <3>2
    <2>4. g = [k \in 0..N |-> IF k = 0 THEN f[h] ELSE IF g[k - 1] = e THEN e ELSE f[g[k - 1]]]
      BY <2>3 DEF g
    <2> QED
      BY <2>4 DEF Visits
  <1>4. ASSUME NEW g, Visits(g, f, h, e, N) PROVE \A k \in 0..N : g[k] = P(k + 1)
    <2>1. \A k \in 0..N : g[k] = IF k = 0 THEN f[h] ELSE IF g[k - 1] = e THEN e ELSE f[g[k - 1]]
      BY <1>4 DEF Visits
    <2> DEFINE T == {k \in 0..N : g[k] # P(k + 1)}
    <2>2. T = {}
      <3> SUFFICES ASSUME T # {} PROVE FALSE
        OBVIOUS
      <3>1. PICK k \in T : \A i \in T : k <= i
        <4>1. T \subseteq Nat
          OBVIOUS
        <4> HIDE DEF T
        <4> QED
          BY <2>2, <4>1, Smallest
      <3>2. k # 0
        BY <1>1, <2>1
      <3>3. k \in 1..N /\ k - 1 \in 0..N /\ ~(k <= k - 1)
        BY <3>2
      <3>4. g[k - 1] = P(k)
        <4>1. k - 1 \notin T
          BY <3>1, <3>3
        <4>2. (k - 1) + 1 = k
          BY <3>3
        <4> QED
          BY <3>3, <4>1, <4>2
      <3>5. g[k] = IF g[k - 1] = e THEN e ELSE f[g[k - 1]]
        BY <2>1, <3>2
      <3>6. g[k] = P(k + 1)
        BY <1>2, <3>3, <3>4, <3>5
      <3> QED
        BY <3>6
    <2> QED
      BY <2>2
  <1> QED
    BY <1>3, <1>4 DEF P

\* The loop meets the nodes of the line, in their order, and no other.
LEMMA WalkEnds ==
  ASSUME NEW S, NEW h, NEW e, NEW s, Line(S, h, s, e), IsFiniteSet(S), NEW f, Linked(f, h, s, e)
  PROVE  Met(CHOOSE g : Visits(g, f, h, e, Cardinality(S)), e) = s
  <1>1. PICK N \in Nat : N = Cardinality(S) /\ Len(s) <= N
    BY Fitting
  <1>2. PICK g : g = CHOOSE x : Visits(x, f, h, e, N)
    OBVIOUS
  <1>3. Visits(g, f, h, e, N) /\ \A k \in 0..N : g[k] = Path(h, s, e, k + 1)
    <2>1. \E x : Visits(x, f, h, e, N)
      BY <1>1, OnThePath
    <2>2. Visits(g, f, h, e, N)
      BY <1>2, <2>1
    <2> QED
      BY <1>1, <2>2, OnThePath
  <1>4. DOMAIN g = 0..N
    BY <1>3 DEF Visits
  <1>5. s \in Seq(S) /\ Len(s) \in Nat /\ DOMAIN s = 1..Len(s)
    BY Members
  <1>6. \A k \in 0..N : g[k] # e <=> k < Len(s)
    <2> SUFFICES ASSUME NEW k \in 0..N PROVE g[k] # e <=> k < Len(s)
      OBVIOUS
    <2>1. CASE k < Len(s)
      <3>1. k + 1 \in 1..Len(s)
        BY <1>5, <2>1
      <3>2. Path(h, s, e, k + 1) \in S
        BY <3>1, Places
      <3> QED
        BY <1>3, <2>1, <3>2 DEF Line
    <2>2. CASE k >= Len(s)
      <3>1. Path(h, s, e, k + 1) = e
        BY <1>5, <2>2 DEF Path
      <3> QED
        BY <1>3, <1>5, <2>2, <3>1
    <2> QED
      BY <1>5, <2>1, <2>2
  <1>7. Cardinality({k \in DOMAIN g : g[k] # e}) = Len(s)
    <2>1. 0 \in Int /\ Len(s) - 1 \in Int
      BY <1>5
    <2>2. Cardinality(0..(Len(s) - 1)) = IF 0 > Len(s) - 1 THEN 0 ELSE Len(s) - 1 - 0 + 1
      BY <2>1, FS_Interval
    <2>3. Cardinality(0..(Len(s) - 1)) = Len(s)
      BY <1>5, <2>2
    <2>4. {k \in DOMAIN g : g[k] # e} = 0..(Len(s) - 1)
      BY <1>1, <1>4, <1>5, <1>6
    <2> QED
      BY <2>3, <2>4
  <1>8. ASSUME NEW i \in 1..Len(s) PROVE g[i - 1] = s[i]
    <2>1. i - 1 \in 0..N /\ (i - 1) + 1 = i
      BY <1>1, <1>5
    <2>2. Path(h, s, e, i) = s[i]
      BY Places
    <2> QED
      BY <1>3, <2>1, <2>2
  <1>9. s = [i \in 1..Len(s) |-> s[i]]
    BY <1>5
  <1>10. Met(g, e) = s
    BY <1>7, <1>8, <1>9 DEF Met
  <1> QED
    BY <1>1, <1>2, <1>10

-----------------------------------------------------------------------------
(* Two lists over the same nodes, which no node is in both of: a change of *)
(* one leaves the other as it is.                                          *)

\* A list from h and another one from k, which share no node.
Apart(S, h, s, k, t, e, d) ==
  Line(S, h, s, e) /\ Line(S, k, t, d) /\ h # k /\ Range(s) \cap Range(t) = {}

LEMMA ApartIn ==
  ASSUME NEW S, NEW h, NEW s, NEW k, NEW t, NEW e, NEW d, Apart(S, h, s, k, t, e, d),
         NEW n \in S, n \notin Range(s) \cup Range(t), NEW j \in 1..(Len(s) + 1)
  PROVE  /\ Apart(S, h, InsertedAt(s, j, n), k, t, e, d)
         /\ Path(h, s, e, j - 1) \in Range(s) \cup {h} /\ Path(h, s, e, j) \in Range(s) \cup {e}
         /\ Path(h, s, e, j - 1) # n
         /\ Path(h, s, e, j - 1) \notin Range(t) \cup {k}
  <1>1. /\ Len(s) \in Nat /\ Path(h, s, e, 0) = h /\ Path(h, s, e, Len(s) + 1) = e
        /\ \A i \in 1..Len(s) : Path(h, s, e, i) \in S /\ Path(h, s, e, i) = s[i] /\ s[i] \in Range(s)
    BY Places DEF Apart
  <1>2. PICK u : u = InsertedAt(s, j, n)
    OBVIOUS
  <1>3. Line(S, h, u, e) /\ Range(u) = Range(s) \cup {n}
    BY <1>2, PathIn DEF Apart
  <1>4. Apart(S, h, u, k, t, e, d)
    BY <1>3 DEF Apart
  <1>5. (j - 1 = 0 \/ j - 1 \in 1..Len(s)) /\ (j = Len(s) + 1 \/ j \in 1..Len(s))
    BY <1>1
  <1>6. Path(h, s, e, j - 1) \in Range(s) \cup {h} /\ Path(h, s, e, j) \in Range(s) \cup {e}
    BY <1>1, <1>5
  <1>7. h \notin S /\ k \notin S /\ h # k /\ Range(t) \subseteq S /\ Range(s) \subseteq S
    BY Places DEF Apart, Line
  <1> QED
    BY <1>2, <1>4, <1>6, <1>7 DEF Apart

LEMMA ApartOut ==
  ASSUME NEW S, NEW h, NEW s, NEW k, NEW t, NEW e, NEW d, Apart(S, h, s, k, t, e, d),
         NEW j \in 1..Len(s)
  PROVE  /\ Apart(S, h, RemovedAt(s, j), k, t, e, d)
         /\ Path(h, s, e, j - 1) \in Range(s) \cup {h} /\ Path(h, s, e, j + 1) \in Range(s) \cup {e}
         /\ Path(h, s, e, j - 1) \notin Range(t) \cup {k} /\ s[j] \in Range(s)
  <1>1. /\ Len(s) \in Nat /\ Path(h, s, e, 0) = h /\ Path(h, s, e, Len(s) + 1) = e
        /\ \A i \in 1..Len(s) : Path(h, s, e, i) \in S /\ Path(h, s, e, i) = s[i] /\ s[i] \in Range(s)
    BY Places DEF Apart
  <1>2. PICK u : u = RemovedAt(s, j)
    OBVIOUS
  <1>3. Line(S, h, u, e) /\ Range(u) = Range(s) \ {s[j]}
    BY <1>2, PathOut DEF Apart
  <1>4. Apart(S, h, u, k, t, e, d)
    BY <1>3 DEF Apart
  <1>5. (j - 1 = 0 \/ j - 1 \in 1..Len(s)) /\ (j + 1 = Len(s) + 1 \/ j + 1 \in 1..Len(s))
    BY <1>1
  <1>6. Path(h, s, e, j - 1) \in Range(s) \cup {h} /\ Path(h, s, e, j + 1) \in Range(s) \cup {e}
    BY <1>1, <1>5
  <1>7. h \notin S /\ k \notin S /\ h # k /\ Range(t) \subseteq S /\ Range(s) \subseteq S
    BY Places DEF Apart, Line
  <1> QED
    BY <1>1, <1>2, <1>4, <1>6, <1>7 DEF Apart

\* A node put into one of two lists in one direction.
LEMMA ChainIn ==
  ASSUME NEW S, NEW h, NEW s, NEW k, NEW t, NEW e, Apart(S, h, s, k, t, e, e),
         NEW f, Linked(f, h, s, e), Linked(f, k, t, e),
         NEW n \in S, n \notin Range(s) \cup Range(t), NEW j \in 1..(Len(s) + 1),
         NEW g, g[Path(h, s, e, j - 1)] = n, g[n] = Path(h, s, e, j),
         \A x \in S \cup {h, k} : x # n /\ x # Path(h, s, e, j - 1) => g[x] = f[x]
  PROVE  /\ Apart(S, h, InsertedAt(s, j, n), k, t, e, e)
         /\ Linked(g, h, InsertedAt(s, j, n), e) /\ Linked(g, k, t, e)
  <1>1. /\ Apart(S, h, InsertedAt(s, j, n), k, t, e, e)
        /\ Path(h, s, e, j - 1) \notin Range(t) \cup {k}
    BY ApartIn
  <1>2. Linked(g, h, InsertedAt(s, j, n), e)
    <2>1. Line(S, h, s, e) /\ n \notin Range(s)
      BY DEF Apart
    <2>2. \A x \in S \cup {h} : x # n /\ x # Path(h, s, e, j - 1) => g[x] = f[x]
      OBVIOUS
    <2> QED
      BY <2>1, <2>2, LinkIn
  <1>3. Linked(g, k, t, e)
    <2>1. Line(S, k, t, e) /\ k \notin S
      BY DEF Apart, Line
    <2>2. Range(t) \subseteq S
      BY <2>1, Places
    <2>3. \A x \in Range(t) \cup {k} : g[x] = f[x]
      BY <1>1, <2>1, <2>2
    <2> QED
      BY <2>1, <2>3, Aside
  <1> QED
    BY <1>1, <1>2, <1>3

\* A node taken out of one of two lists in one direction.
LEMMA ChainOut ==
  ASSUME NEW S, NEW h, NEW s, NEW k, NEW t, NEW e, Apart(S, h, s, k, t, e, e),
         NEW f, Linked(f, h, s, e), Linked(f, k, t, e), NEW j \in 1..Len(s),
         NEW g, g[Path(h, s, e, j - 1)] = Path(h, s, e, j + 1),
         \A x \in S \cup {h, k} : x # Path(h, s, e, j - 1) => g[x] = f[x]
  PROVE  /\ Apart(S, h, RemovedAt(s, j), k, t, e, e)
         /\ Linked(g, h, RemovedAt(s, j), e) /\ Linked(g, k, t, e)
  <1>1. /\ Apart(S, h, RemovedAt(s, j), k, t, e, e)
        /\ Path(h, s, e, j - 1) \notin Range(t) \cup {k}
    BY ApartOut
  <1>2. Linked(g, h, RemovedAt(s, j), e)
    <2>1. Line(S, h, s, e)
      BY DEF Apart
    <2>2. \A x \in S \cup {h} : x # Path(h, s, e, j - 1) => g[x] = f[x]
      OBVIOUS
    <2> QED
      BY <2>1, <2>2, LinkOut
  <1>3. Linked(g, k, t, e)
    <2>1. Line(S, k, t, e)
      BY DEF Apart
    <2>2. Range(t) \subseteq S
      BY <2>1, Places
    <2>3. \A x \in Range(t) \cup {k} : g[x] = f[x]
      BY <1>1, <2>2
    <2> QED
      BY <2>1, <2>3, Aside
  <1> QED
    BY <1>1, <1>2, <1>3

\* A ring through h, forwards along f and backwards along g.
Ring(f, g, h, s) == Linked(f, h, s, h) /\ BackLinked(g, h, s, h)

\* A node put into one of two rings, where the other one runs the other way; and one taken out.
LEMMA RingIn ==
  ASSUME NEW S, NEW h, NEW s, NEW k, NEW t, Apart(S, h, s, k, t, h, k),
         NEW f, NEW g, Ring(f, g, h, s), Ring(g, f, k, t),
         NEW n \in S, n \notin Range(s) \cup Range(t), NEW j \in 1..(Len(s) + 1),
         NEW ff, ff[Path(h, s, h, j - 1)] = n, ff[n] = Path(h, s, h, j),
         \A x \in S \cup {h, k} : x # n /\ x # Path(h, s, h, j - 1) => ff[x] = f[x],
         NEW gg, gg[Path(h, s, h, j)] = n, gg[n] = Path(h, s, h, j - 1),
         \A x \in S \cup {h, k} : x # n /\ x # Path(h, s, h, j) => gg[x] = g[x]
  PROVE  /\ Apart(S, h, InsertedAt(s, j, n), k, t, h, k)
         /\ Ring(ff, gg, h, InsertedAt(s, j, n)) /\ Ring(gg, ff, k, t)
  <1>1. /\ Apart(S, h, InsertedAt(s, j, n), k, t, h, k)
        /\ Path(h, s, h, j - 1) \notin Range(t) \cup {k} /\ Path(h, s, h, j) \in Range(s) \cup {h}
    BY ApartIn
  <1>2. Line(S, h, s, h) /\ n \notin Range(s) /\ Line(S, k, t, k) /\ k \notin S /\ h \notin S /\ h # k
    BY DEF Apart, Line
  <1>3. Linked(ff, h, InsertedAt(s, j, n), h)
    <2>1. \A x \in S \cup {h} : x # n /\ x # Path(h, s, h, j - 1) => ff[x] = f[x]
      OBVIOUS
    <2>2. Linked(f, h, s, h)
      BY DEF Ring
    <2> QED
      BY <1>2, <2>1, <2>2, LinkIn
  <1>4. BackLinked(gg, h, InsertedAt(s, j, n), h)
    <2>1. \A x \in S \cup {h} : x # n /\ x # Path(h, s, h, j) => gg[x] = g[x]
      OBVIOUS
    <2>2. BackLinked(g, h, s, h)
      BY DEF Ring
    <2> QED
      BY <1>2, <2>1, <2>2, BackIn
  <1>5. Range(t) \subseteq S /\ Range(s) \subseteq S
    BY <1>2, Places
  <1>6. \A x \in Range(t) \cup {k} : ff[x] = f[x] /\ gg[x] = g[x]
    <2> SUFFICES ASSUME NEW x \in Range(t) \cup {k} PROVE ff[x] = f[x] /\ gg[x] = g[x]
      OBVIOUS
    <2>1. x \in S \cup {h, k} /\ x # n /\ x # Path(h, s, h, j - 1) /\ x \notin Range(s) \cup {h}
      BY <1>1, <1>2, <1>5 DEF Apart
    <2> QED
      BY <1>1, <2>1
  <1>7. Linked(gg, k, t, k) /\ BackLinked(ff, k, t, k)
    BY <1>2, <1>6, Aside DEF Ring
  <1> QED
    BY <1>1, <1>3, <1>4, <1>7 DEF Ring

LEMMA RingOut ==
  ASSUME NEW S, NEW h, NEW s, NEW k, NEW t, Apart(S, h, s, k, t, h, k),
         NEW f, NEW g, Ring(f, g, h, s), Ring(g, f, k, t), NEW j \in 1..Len(s),
         NEW ff, ff[Path(h, s, h, j - 1)] = Path(h, s, h, j + 1),
         \A x \in S \cup {h, k} : x # Path(h, s, h, j - 1) => ff[x] = f[x],
         NEW gg, gg[Path(h, s, h, j + 1)] = Path(h, s, h, j - 1),
         \A x \in S \cup {h, k} : x # Path(h, s, h, j + 1) => gg[x] = g[x]
  PROVE  /\ Apart(S, h, RemovedAt(s, j), k, t, h, k)
         /\ Ring(ff, gg, h, RemovedAt(s, j)) /\ Ring(gg, ff, k, t)
  <1>1. /\ Apart(S, h, RemovedAt(s, j), k, t, h, k)
        /\ Path(h, s, h, j - 1) \in Range(s) \cup {h} /\ Path(h, s, h, j + 1) \in Range(s) \cup {h}
    BY ApartOut
  <1>2. Line(S, h, s, h) /\ Line(S, k, t, k) /\ k \notin S /\ h \notin S /\ h # k
    BY DEF Apart, Line
  <1>3. Linked(ff, h, RemovedAt(s, j), h)
    <2>1. \A x \in S \cup {h} : x # Path(h, s, h, j - 1) => ff[x] = f[x]
      OBVIOUS
    <2>2. Linked(f, h, s, h)
      BY DEF Ring
    <2> QED
      BY <1>2, <2>1, <2>2, LinkOut
  <1>4. BackLinked(gg, h, RemovedAt(s, j), h)
    <2>1. \A x \in S \cup {h} : x # Path(h, s, h, j + 1) => gg[x] = g[x]
      OBVIOUS
    <2>2. BackLinked(g, h, s, h)
      BY DEF Ring
    <2> QED
      BY <1>2, <2>1, <2>2, BackOut
  <1>5. Range(t) \subseteq S /\ Range(s) \subseteq S
    BY <1>2, Places
  <1>6. \A x \in Range(t) \cup {k} : ff[x] = f[x] /\ gg[x] = g[x]
    <2> SUFFICES ASSUME NEW x \in Range(t) \cup {k} PROVE ff[x] = f[x] /\ gg[x] = g[x]
      OBVIOUS
    <2>1. x \in S \cup {h, k} /\ x \notin Range(s) \cup {h}
      BY <1>1, <1>2, <1>5 DEF Apart
    <2> QED
      BY <1>1, <2>1
  <1>7. Linked(gg, k, t, k) /\ BackLinked(ff, k, t, k)
    BY <1>2, <1>6, Aside DEF Ring
  <1> QED
    BY <1>1, <1>3, <1>4, <1>7 DEF Ring
\* What stands before another sequence comes off first; and what is injective with it is
\* injective without.
LEMMA TakesFirst ==
  ASSUME NEW S, NEW s \in Seq(S), NEW b \in Seq(S)
  PROVE  /\ s # <<>> => s \o b # <<>> /\ Head(s \o b) = Head(s) /\ Tail(s \o b) = Tail(s) \o b
         /\ IsInjective(s \o b) => IsInjective(s)
  <1>1. ASSUME s # <<>>
        PROVE  s \o b # <<>> /\ Head(s \o b) = Head(s) /\ Tail(s \o b) = Tail(s) \o b
    <2>1. PICK h, t : h = Head(s) /\ t = Tail(s) /\ h \in S /\ t \in Seq(S) /\ s = <<h>> \o t
      BY <1>1, HeadTailProperties, HeadAndTail
    <2>2. <<h>> \in Seq(S) /\ t \o b \in Seq(S)
      BY <2>1, ConcatProperties
    <2>3. s \o b = <<h>> \o (t \o b)
      BY <2>1, <2>2, ConcatAssociative
    <2> QED
      BY <2>1, <2>2, <2>3, TakeBack
  <1>2. ASSUME IsInjective(s \o b) PROVE IsInjective(s)
    <2>1. PICK u : u = s \o b
      OBVIOUS
    <2>2. /\ u \in Seq(S) /\ Len(u) = Len(s) + Len(b) /\ Len(s) \in Nat /\ Len(b) \in Nat
          /\ \A k \in 1..Len(s) : u[k] = s[k]
      BY <2>1, Concat
    <2>3. DOMAIN u = 1..Len(u) /\ DOMAIN s = 1..Len(s)
      BY <2>2, LenProperties
    <2>4. \A k \in DOMAIN s : k \in DOMAIN u /\ u[k] = s[k]
      BY <2>2, <2>3
    <2>5. IsInjective(u)
      BY <1>2, <2>1
    <2> QED
      BY <2>4, <2>5 DEF IsInjective
  <1> QED
    BY <1>1, <1>2

\* What stands before a mark.
LEMMA BeforeTheMark ==
  ASSUME NEW S, NEW w \in Seq(S), NEW e, NEW b \in Seq(S)
  PROVE  /\ SubSeq(Append(w, e) \o b, 1, Len(Append(w, e) \o b) - (1 + Len(b))) = w
         /\ e \in Range(Append(w, e) \o b)
  <1> DEFINE T == S \cup {e}
  <1>1. w \in Seq(T) /\ b \in Seq(T) /\ e \in T /\ Len(w) \in Nat /\ Len(b) \in Nat
    BY SeqMonotonic, LenProperties
  <1> HIDE DEF T
  <1>2. PICK v, u : v = Append(w, e) /\ u = v \o b
    OBVIOUS
  <1>3. /\ v \in Seq(T) /\ Len(v) = Len(w) + 1 /\ v[Len(w) + 1] = e
        /\ \A k \in 1..Len(w) : v[k] = w[k]
    BY <1>1, <1>2, AppendProperties
  <1>4. /\ u \in Seq(T) /\ Len(u) = Len(v) + Len(b)
        /\ \A k \in 1..Len(v) : u[k] = v[k]
    BY <1>1, <1>2, <1>3, Concat
  <1>5. Len(w) + 1 \in 1..(Len(u) + 1) /\ (Len(w) + 1) - 1 = Len(w) /\ Len(u) - (1 + Len(b)) = Len(w)
    BY <1>1, <1>3, <1>4
  <1> DEFINE f == SubSeq(u, 1, Len(w))
  <1>6. f \in Seq(T) /\ Len(f) = Len(w) /\ \A k \in 1..Len(w) : f[k] = u[k]
    BY <1>4, <1>5, Parts
  <1> HIDE DEF f
  <1>7. \A k \in 1..Len(w) : f[k] = w[k]
    <2>1. \A k \in 1..Len(w) : k \in 1..Len(v)
      BY <1>1, <1>3
    <2> QED
      BY <1>3, <1>4, <1>6, <2>1
  <1>8. f = w
    BY <1>1, <1>6, <1>7, SeqEqual
  <1>9. e \in Range(u)
    <2>1. Len(w) + 1 \in 1..Len(u) /\ u[Len(w) + 1] = e
      BY <1>1, <1>3, <1>4
    <2>2. DOMAIN u = 1..Len(u)
      BY <1>4, LenProperties
    <2> QED
      BY <2>1, <2>2 DEF Range
  <1> QED
    BY <1>2, <1>5, <1>8, <1>9 DEF f
=============================================================================
