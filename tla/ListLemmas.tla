----------------------------- MODULE ListLemmas -----------------------------
(***************************************************************************)
(* What the proofs need to know of the lists under a mutex, to which one   *)
(* side appends and from which the other takes the oldest element or all,  *)
(* and of the least and the greatest of a set of places.                   *)
(***************************************************************************)
EXTENDS SequencesExt, SequenceTheorems, WellFoundedInduction, TLAPS

-----------------------------------------------------------------------------
(* Sequences as sets of elements *)

(* What emplace_back adds to a list. *)
LEMMA ToSetAppend ==
  ASSUME NEW S, NEW s \in Seq(S), NEW e \in S
  PROVE  ToSet(Append(s, e)) = ToSet(s) \cup {e}
<1>1. /\ Len(Append(s, e)) = Len(s) + 1
      /\ \A i \in 1 .. Len(s) : Append(s, e)[i] = s[i]
      /\ Append(s, e)[Len(s) + 1] = e
      /\ Len(s) \in Nat
  BY AppendProperties
<1>2. 1 .. Len(s) + 1 = (1 .. Len(s)) \cup {Len(s) + 1}
  BY <1>1
<1> QED BY <1>1, <1>2 DEF ToSet

(* The oldest element and the others. *)
LEMMA ToSetHeadTail ==
  ASSUME NEW S, NEW s \in Seq(S), s # <<>>
  PROVE  ToSet(s) = {Head(s)} \cup ToSet(Tail(s))
<1>1. /\ Len(Tail(s)) = Len(s) - 1
      /\ \A i \in 1 .. Len(Tail(s)) : Tail(s)[i] = s[i + 1]
      /\ DOMAIN Tail(s) = 1 .. Len(Tail(s))
  BY HeadTailProperties
<1>2. Len(s) \in Nat \ {0}
  BY EmptySeq
<1>3. Head(s) = s[1]
  OBVIOUS
<1>4. ToSet(s) \subseteq {Head(s)} \cup ToSet(Tail(s))
  <2> SUFFICES ASSUME NEW i \in 1 .. Len(s), i # 1
               PROVE  s[i] \in ToSet(Tail(s))
    BY <1>3 DEF ToSet
  <2>1. i - 1 \in 1 .. Len(Tail(s)) /\ (i - 1) + 1 = i
    BY <1>1, <1>2
  <2> QED BY <2>1, <1>1 DEF ToSet
<1>5. {Head(s)} \cup ToSet(Tail(s)) \subseteq ToSet(s)
  <2>1. 1 \in 1 .. Len(s)
    BY <1>2
  <2>2. \A i \in 1 .. Len(Tail(s)) : i + 1 \in 1 .. Len(s)
    BY <1>1, <1>2
  <2> QED BY <2>1, <2>2, <1>1, <1>3 DEF ToSet
<1> QED BY <1>4, <1>5

(* An element that is new to a list does not make it repeat itself. *)
LEMMA DistinctAppend ==
  ASSUME NEW S, NEW s \in Seq(S), NEW e \in S, IsInjective(s), e \notin ToSet(s)
  PROVE  IsInjective(Append(s, e))
<1>1. /\ Len(Append(s, e)) = Len(s) + 1
      /\ \A i \in 1 .. Len(s) : Append(s, e)[i] = s[i]
      /\ Append(s, e)[Len(s) + 1] = e
      /\ Len(s) \in Nat
  BY AppendProperties
<1>2. \A i \in 1 .. Len(s) + 1 : i \in 1 .. Len(s) \/ i = Len(s) + 1
  BY <1>1
<1> QED BY <1>1, <1>2 DEF IsInjective, ToSet

(* Taking the oldest element of a list without repetitions removes it for good. *)
LEMMA DistinctTail ==
  ASSUME NEW S, NEW s \in Seq(S), s # <<>>, IsInjective(s)
  PROVE  IsInjective(Tail(s)) /\ Head(s) \notin ToSet(Tail(s))
<1>1. /\ Len(Tail(s)) = Len(s) - 1
      /\ \A i \in 1 .. Len(Tail(s)) : Tail(s)[i] = s[i + 1]
  BY HeadTailProperties
<1>2. Len(s) \in Nat \ {0}
  BY EmptySeq
<1>3. Head(s) = s[1] /\ 1 \in 1 .. Len(s)
  BY <1>2
<1>4. \A i \in 1 .. Len(Tail(s)) : i + 1 \in 1 .. Len(s) /\ i + 1 # 1
  BY <1>1, <1>2
<1>5. Head(s) \notin ToSet(Tail(s))
  BY <1>1, <1>3, <1>4 DEF IsInjective, ToSet
<1>6. IsInjective(Tail(s))
  <2> SUFFICES ASSUME NEW i \in 1 .. Len(Tail(s)), NEW j \in 1 .. Len(Tail(s)),
                      Tail(s)[i] = Tail(s)[j]
               PROVE  i = j
    BY DEF IsInjective
  <2>1. s[i + 1] = s[j + 1]
    BY <1>1
  <2>2. i + 1 = j + 1
    BY <2>1, <1>4 DEF IsInjective
  <2> QED BY <2>2
<1> QED BY <1>5, <1>6

(* The empty list. *)
LEMMA EmptyList == ToSet(<<>>) = {} /\ IsInjective(<<>>)
  BY EmptySeq DEF ToSet, IsInjective

-----------------------------------------------------------------------------
(* Two lists, one behind the other *)

(* Appending to the list behind appends to the two. *)
LEMMA ConcatAppend ==
  ASSUME NEW S, NEW s \in Seq(S), NEW u \in Seq(S), NEW e \in S
  PROVE  s \o Append(u, e) = Append(s \o u, e)
<1>1. <<e>> \in Seq(S) /\ s \o u \in Seq(S)
  BY ConcatProperties
<1>2. Append(u, e) = u \o <<e>> /\ Append(s \o u, e) = (s \o u) \o <<e>>
  BY <1>1, AppendIsConcat
<1> QED BY <1>1, <1>2, ConcatAssociative

(* The oldest element of the two is the oldest of the list in front. *)
LEMMA ConcatTail ==
  ASSUME NEW S, NEW s \in Seq(S), NEW u \in Seq(S), s # <<>>
  PROVE  /\ s \o u # <<>>
         /\ Head(s \o u) = Head(s)
         /\ Tail(s \o u) = Tail(s) \o u
<1>1. /\ s \o u \in Seq(S)
      /\ Len(s \o u) = Len(s) + Len(u)
      /\ \A i \in 1 .. Len(s) + Len(u) :
            (s \o u)[i] = IF i <= Len(s) THEN s[i] ELSE u[i - Len(s)]
  BY ConcatProperties
<1>2. Len(s) \in Nat \ {0} /\ Len(u) \in Nat
  BY EmptySeq
<1>3. s \o u # <<>>
  BY <1>1, <1>2, EmptySeq
<1>4. Head(s \o u) = Head(s)
  BY <1>1, <1>2
<1>5. /\ Tail(s) \in Seq(S) /\ Len(Tail(s)) = Len(s) - 1
      /\ \A i \in 1 .. Len(Tail(s)) : Tail(s)[i] = s[i + 1]
      /\ Tail(s \o u) \in Seq(S) /\ Len(Tail(s \o u)) = Len(s) + Len(u) - 1
      /\ \A i \in 1 .. Len(Tail(s \o u)) : Tail(s \o u)[i] = (s \o u)[i + 1]
  BY <1>1, <1>3, HeadTailProperties
<1>6. /\ Tail(s) \o u \in Seq(S)
      /\ Len(Tail(s) \o u) = Len(Tail(s)) + Len(u)
      /\ \A i \in 1 .. Len(Tail(s)) + Len(u) :
            (Tail(s) \o u)[i] =
               IF i <= Len(Tail(s)) THEN Tail(s)[i] ELSE u[i - Len(Tail(s))]
  BY <1>5, ConcatProperties
<1>7. Len(Tail(s \o u)) = Len(Tail(s) \o u)
  BY <1>2, <1>5, <1>6
<1>8. ASSUME NEW i \in 1 .. Len(Tail(s \o u))
      PROVE  Tail(s \o u)[i] = (Tail(s) \o u)[i]
  <2>1. i \in Nat /\ i + 1 \in 1 .. Len(s) + Len(u) /\ i \in 1 .. Len(Tail(s)) + Len(u)
    BY <1>2, <1>5
  <2>2. CASE i <= Len(s) - 1
    BY <2>1, <2>2, <1>1, <1>2, <1>5, <1>6
  <2>3. CASE ~(i <= Len(s) - 1)
    <3>1. (i + 1) - Len(s) = i - Len(Tail(s)) /\ ~(i + 1 <= Len(s)) /\ ~(i <= Len(Tail(s)))
      BY <2>1, <2>3, <1>2, <1>5
    <3> QED BY <3>1, <2>1, <1>1, <1>5, <1>6
  <2> QED BY <2>2, <2>3
<1> QED BY <1>3, <1>4, <1>5, <1>6, <1>7, <1>8, SeqEqual

(* The elements of the two are those of either. *)
LEMMA ToSetConcat ==
  ASSUME NEW S, NEW s \in Seq(S), NEW u \in Seq(S)
  PROVE  ToSet(s \o u) \subseteq ToSet(s) \cup ToSet(u)
<1>1. /\ Len(s \o u) = Len(s) + Len(u)
      /\ \A i \in 1 .. Len(s) + Len(u) :
            (s \o u)[i] = IF i <= Len(s) THEN s[i] ELSE u[i - Len(s)]
  BY ConcatProperties
<1>2. Len(s) \in Nat /\ Len(u) \in Nat
  BY LenProperties
<1>3. \A i \in 1 .. Len(s) + Len(u) :
        i \in 1 .. Len(s) \/ (~(i <= Len(s)) /\ i - Len(s) \in 1 .. Len(u))
  BY <1>2
<1> QED BY <1>1, <1>3 DEF ToSet

-----------------------------------------------------------------------------
(* The places of a list *)

Less == {ss \in Nat \X Nat : ss[1] < ss[2]}

(* Every non-empty set of natural numbers has a least element. *)
LEMMA Least ==
  ASSUME NEW S \in SUBSET Nat, S # {}
  PROVE  \E n \in S : \A m \in S : n <= m
<1>1. OpToRel(<, Nat) = Less
    BY DEF OpToRel, Less
<1>2. IsWellFoundedOn(Less, Nat)
    BY <1>1, NatLessThanWellFounded
<1>3. PICK n \in S : \A m \in S : ~ (<<m, n>> \in Less)
    BY <1>2, WFMin
<1>4. ASSUME NEW m \in S PROVE n <= m
    <2>1. m \in Nat /\ n \in Nat /\ ~ (<<m, n>> \in Less)
        BY <1>3
    <2>2. /\ <<m, n>> \in Nat \X Nat
          /\ <<m, n>>[1] = m /\ <<m, n>>[2] = n
        BY <2>1
    <2>3. ~ (m < n)
        BY <2>1, <2>2 DEF Less
    <2> QED BY <2>1, <2>3
<1> QED BY <1>4

(* Every non-empty set of places of a list has a last one. *)
LEMMA Greatest ==
  ASSUME NEW n \in Nat, NEW S \in SUBSET (1 .. n), S # {}
  PROVE  \E i \in S : \A j \in S : j <= i
<1> DEFINE Back == {n - i : i \in S}
<1>1. Back \in SUBSET Nat /\ Back # {}
  <2>1. ASSUME NEW i \in S PROVE n - i \in Nat
    <3>1. i \in 1 .. n
      OBVIOUS
    <3> QED BY <3>1
  <2> QED BY <2>1
<1>2. PICK b \in Back : \A c \in Back : b <= c
  BY <1>1, Least
<1>3. PICK i \in S : b = n - i
  BY <1>2
<1>4. ASSUME NEW j \in S PROVE j <= i
  <2>1. b <= n - j
    BY <1>2
  <2>2. i \in 1 .. n /\ j \in 1 .. n
    OBVIOUS
  <2> QED BY <1>3, <2>1, <2>2
<1> QED BY <1>4

(* Where the elements of a list go when one is appended. *)
LEMMA AppendPlaces ==
  ASSUME NEW S, NEW s \in Seq(S), NEW e \in S
  PROVE  /\ Append(s, e) \in Seq(S)
         /\ Len(s) \in Nat /\ Len(Append(s, e)) = Len(s) + 1
         /\ DOMAIN s = 1 .. Len(s) /\ DOMAIN Append(s, e) = 1 .. Len(s) + 1
         /\ \A i \in 1 .. Len(s) : Append(s, e)[i] = s[i] /\ s[i] \in S
         /\ Append(s, e)[Len(s) + 1] = e
BY AppendProperties, LenProperties, ElementOfSeq

(* Where they go when the oldest is taken. *)
LEMMA TailPlaces ==
  ASSUME NEW S, NEW s \in Seq(S), s # <<>>
  PROVE  /\ Tail(s) \in Seq(S) /\ Head(s) = s[1] /\ Head(s) \in S
         /\ Len(s) \in Nat \ {0} /\ Len(Tail(s)) = Len(s) - 1
         /\ DOMAIN s = 1 .. Len(s) /\ DOMAIN Tail(s) = 1 .. Len(s) - 1
         /\ \A i \in 1 .. Len(s) - 1 : Tail(s)[i] = s[i + 1]
         /\ \A i \in 2 .. Len(s) : i - 1 \in 1 .. Len(s) - 1 /\ Tail(s)[i - 1] = s[i]
<1>1. /\ Tail(s) \in Seq(S) /\ Head(s) \in S /\ Len(Tail(s)) = Len(s) - 1
      /\ \A i \in 1 .. Len(Tail(s)) : Tail(s)[i] = s[i + 1]
  BY HeadTailProperties
<1>2. Len(s) \in Nat \ {0} /\ DOMAIN s = 1 .. Len(s)
  BY EmptySeq, LenProperties
<1>3. DOMAIN Tail(s) = 1 .. Len(s) - 1
  BY <1>1, LenProperties
<1>4. Head(s) = s[1]
  OBVIOUS
<1>5. ASSUME NEW i \in 2 .. Len(s)
      PROVE  i - 1 \in 1 .. Len(s) - 1 /\ Tail(s)[i - 1] = s[i]
  <2>1. i - 1 \in 1 .. Len(s) - 1 /\ (i - 1) + 1 = i
    BY <1>2
  <2> QED BY <1>1, <1>3, <2>1, <1>2
<1> QED BY <1>1, <1>2, <1>3, <1>4, <1>5

(* A list is the beginning of what it becomes by appending. *)
LEMMA AppendIsLonger ==
  ASSUME NEW S, NEW s \in Seq(S), NEW e \in S
  PROVE  IsPrefix(s, Append(s, e))
<1>1. /\ Append(s, e) \in Seq(S)
      /\ Len(s) \in Nat /\ Len(Append(s, e)) = Len(s) + 1
      /\ \A i \in 1 .. Len(s) : Append(s, e)[i] = s[i] /\ s[i] \in S
  BY AppendPlaces
<1>2. /\ SubSeq(s, 1, Len(s)) \in Seq(S) /\ SubSeq(Append(s, e), 1, Len(s)) \in Seq(S)
      /\ Len(SubSeq(s, 1, Len(s))) = Len(s)
      /\ Len(SubSeq(Append(s, e), 1, Len(s))) = Len(s)
      /\ \A i \in 1 .. Len(s) : SubSeq(s, 1, Len(s))[i] = s[i]
      /\ \A i \in 1 .. Len(s) : SubSeq(Append(s, e), 1, Len(s))[i] = Append(s, e)[i]
  BY <1>1, SubSeqProperties
<1>3. SubSeq(s, 1, Len(s)) = SubSeq(Append(s, e), 1, Len(s))
  BY <1>1, <1>2, SeqEqual
<1> QED BY <1>1, <1>3 DEF IsPrefix

-----------------------------------------------------------------------------
(* A list from which elements were removed *)

(* u is what is left of the first n elements of s. *)
Subsequence(u, s, n) ==
    /\ Len(u) <= n
    /\ \E g \in [1 .. Len(u) -> 1 .. n] :
          /\ \A m \in 1 .. Len(u) : u[m] = s[g[m]]
          /\ \A l, m \in 1 .. Len(u) : l < m => g[l] < g[m]

(* Nothing is left of nothing. *)
LEMMA SubsequenceEmpty ==
  ASSUME NEW s, NEW u, u = <<>>
  PROVE  Subsequence(u, s, 0)
<1> DEFINE f == [m \in 1 .. 0 |-> m]
<1>1. Len(u) = 0 /\ 1 .. 0 = {}
  BY EmptySeq
<1>2. f \in [1 .. Len(u) -> 1 .. 0]
  BY <1>1
<1> HIDE DEF f
<1>3. /\ \A m \in 1 .. Len(u) : u[m] = s[f[m]]
      /\ \A l, m \in 1 .. Len(u) : l < m => f[l] < f[m]
  BY <1>1
<1>4. \E g \in [1 .. Len(u) -> 1 .. 0] :
         /\ \A m \in 1 .. Len(u) : u[m] = s[g[m]]
         /\ \A l, m \in 1 .. Len(u) : l < m => g[l] < g[m]
  BY <1>2, <1>3
<1>5. Len(u) <= 0
  BY <1>1
<1> QED BY <1>4, <1>5 DEF Subsequence

(* The next element is removed. *)
LEMMA SubsequenceSkip ==
  ASSUME NEW T, NEW s \in Seq(T), NEW u \in Seq(T), NEW n \in 1 .. Len(s),
         Subsequence(u, s, n - 1)
  PROVE  Subsequence(u, s, n)
<1>1. Len(s) \in Nat /\ Len(u) \in Nat /\ n \in Nat /\ n - 1 \in Nat
  BY LenProperties
<1>2. PICK g \in [1 .. Len(u) -> 1 .. n - 1] :
          /\ \A m \in 1 .. Len(u) : u[m] = s[g[m]]
          /\ \A l, m \in 1 .. Len(u) : l < m => g[l] < g[m]
  BY DEF Subsequence
<1>3. g \in [1 .. Len(u) -> 1 .. n]
  <2>1. 1 .. n - 1 \subseteq 1 .. n
    BY <1>1
  <2> QED BY <1>2, <2>1
<1>4. Len(u) <= n
  BY <1>1 DEF Subsequence
<1> QED BY <1>2, <1>3, <1>4 DEF Subsequence

(* It is kept. *)
LEMMA SubsequenceTake ==
  ASSUME NEW T, NEW s \in Seq(T), NEW u \in Seq(T), NEW n \in 1 .. Len(s),
         Subsequence(u, s, n - 1)
  PROVE  Subsequence(Append(u, s[n]), s, n)
<1> DEFINE v == Append(u, s[n])
           L == Len(u)
<1>1. Len(s) \in Nat /\ L \in Nat /\ n \in Nat /\ n - 1 \in Nat /\ s[n] \in T
  BY LenProperties, ElementOfSeq
<1>2. Len(v) = L + 1 /\ (\A m \in 1 .. L : v[m] = u[m]) /\ v[L + 1] = s[n]
  BY <1>1, AppendPlaces
<1>3. PICK g \in [1 .. L -> 1 .. n - 1] :
          /\ \A m \in 1 .. L : u[m] = s[g[m]]
          /\ \A l, m \in 1 .. L : l < m => g[l] < g[m]
  BY DEF Subsequence
<1> DEFINE h == [m \in 1 .. L + 1 |-> IF m <= L THEN g[m] ELSE n]
<1>4. L <= n - 1
  BY DEF Subsequence
<1> HIDE DEF v, L
<1>5. /\ \A m \in 1 .. L : h[m] = g[m] /\ g[m] \in 1 .. n - 1
      /\ h[L + 1] = n
      /\ \A m \in 1 .. L + 1 : m \in 1 .. L \/ m = L + 1
  BY <1>1, <1>3
<1>6. h \in [1 .. L + 1 -> 1 .. n]
  <2>1. ASSUME NEW m \in 1 .. L + 1 PROVE h[m] \in 1 .. n
    <3> HIDE DEF h
    <3>1. CASE m \in 1 .. L
      <4>1. g[m] \in 1 .. n - 1 /\ h[m] = g[m]
        BY <1>5, <3>1
      <4> QED BY <1>1, <4>1
    <3>2. CASE m = L + 1
      BY <1>1, <1>5, <3>2
    <3> QED BY <1>5, <3>1, <3>2
  <2> QED BY <2>1
<1> HIDE DEF h
<1>7. \A m \in 1 .. L + 1 : v[m] = s[h[m]]
  BY <1>2, <1>3, <1>5
<1>8. \A l, m \in 1 .. L + 1 : l < m => h[l] < h[m]
  <2> SUFFICES ASSUME NEW l \in 1 .. L + 1, NEW m \in 1 .. L + 1, l < m PROVE h[l] < h[m]
    OBVIOUS
  <2>1. l \in 1 .. L
    BY <1>1
  <2>2. CASE m \in 1 .. L
    BY <1>3, <1>5, <2>1, <2>2
  <2>3. CASE m = L + 1
    BY <1>1, <1>5, <2>1, <2>3
  <2> QED BY <1>5, <2>2, <2>3
<1>9. Len(v) <= n
  BY <1>1, <1>2, <1>4
<1> QED BY <1>2, <1>6, <1>7, <1>8, <1>9 DEF Subsequence, v

(* The rest of the list is left as it is. *)
LEMMA SubsequenceRest ==
  ASSUME NEW T, NEW s \in Seq(T), NEW u \in Seq(T), NEW n \in 0 .. Len(s),
         Subsequence(u, s, n)
  PROVE  /\ u \o SubSeq(s, n + 1, Len(s)) \in Seq(T)
         /\ Subsequence(u \o SubSeq(s, n + 1, Len(s)), s, Len(s))
<1> DEFINE w == SubSeq(s, n + 1, Len(s))
           v == u \o w
           L == Len(u)
           N == Len(s)
<1>1. N \in Nat /\ L \in Nat /\ n \in Nat /\ N - n \in Nat /\ L <= n
  BY LenProperties DEF Subsequence
<1>2. w \in Seq(T) /\ Len(w) = N - n /\ \A m \in 1 .. N - n : w[m] = s[n + m]
  <2>1. \A m \in n + 1 .. N : s[m] \in T
    BY <1>1, ElementOfSeq
  <2>2. /\ w \in Seq(T)
        /\ Len(w) = IF n + 1 <= N THEN N - (n + 1) + 1 ELSE 0
        /\ \A m \in 1 .. N - (n + 1) + 1 : w[m] = s[(n + 1) + m - 1]
    BY <1>1, <2>1, SubSeqProperties
  <2>3. \A m \in 1 .. N - n : (n + 1) + m - 1 = n + m
    BY <1>1
  <2>4. N - (n + 1) + 1 = N - n
    BY <1>1
  <2> HIDE DEF w, N
  <2>5. \A m \in 1 .. N - n : w[m] = s[n + m]
    BY <2>2, <2>3, <2>4
  <2>6. Len(w) = N - n
    BY <1>1, <2>2
  <2> QED BY <2>2, <2>5, <2>6
<1> HIDE DEF w
<1>3. /\ v \in Seq(T) /\ Len(v) = L + Len(w)
      /\ \A m \in 1 .. L + Len(w) : v[m] = IF m <= L THEN u[m] ELSE w[m - L]
  BY <1>2, ConcatProperties
<1>4. PICK g \in [1 .. L -> 1 .. n] :
          /\ \A m \in 1 .. L : u[m] = s[g[m]]
          /\ \A l, m \in 1 .. L : l < m => g[l] < g[m]
  BY DEF Subsequence
<1> DEFINE K == L + (N - n)
           h == [m \in 1 .. K |-> IF m <= L THEN g[m] ELSE n + (m - L)]
<1> HIDE DEF v, L, N
<1>5. K \in Nat /\ K <= N /\ L <= K /\ Len(v) = K
  BY <1>1, <1>2, <1>3
<1>6. /\ \A m \in 1 .. L : h[m] = g[m] /\ g[m] \in 1 .. n
      /\ \A m \in L + 1 .. K : h[m] = n + (m - L)
      /\ \A m \in 1 .. K : m \in 1 .. L \/ m \in L + 1 .. K
  <2>1. \A m \in 1 .. L : m \in 1 .. K /\ m <= L /\ g[m] \in 1 .. n
    BY <1>1, <1>4
  <2>2. \A m \in L + 1 .. K : m \in 1 .. K /\ ~(m <= L)
    BY <1>1
  <2>3. \A m \in 1 .. K : m \in 1 .. L \/ m \in L + 1 .. K
    BY <1>1
  <2> HIDE DEF K
  <2> QED BY <2>1, <2>2, <2>3
<1> HIDE DEF h
<1>7. \A m \in 1 .. K : h[m] \in 1 .. N /\ v[m] = s[h[m]]
  <2> SUFFICES ASSUME NEW m \in 1 .. K PROVE h[m] \in 1 .. N /\ v[m] = s[h[m]]
    OBVIOUS
  <2>1. CASE m \in 1 .. L
    BY <1>1, <1>2, <1>3, <1>4, <1>6, <2>1
  <2>2. CASE m \in L + 1 .. K
    <3>1. m - L \in 1 .. N - n /\ ~(m <= L) /\ n + (m - L) \in 1 .. N
      BY <1>1, <2>2
    <3>2. v[m] = w[m - L]
      BY <1>2, <1>3, <3>1
    <3> QED BY <1>2, <1>6, <2>2, <3>1, <3>2
  <2> QED BY <1>6, <2>1, <2>2
<1>8. \A l, m \in 1 .. K : l < m => h[l] < h[m]
  <2> SUFFICES ASSUME NEW l \in 1 .. K, NEW m \in 1 .. K, l < m PROVE h[l] < h[m]
    OBVIOUS
  <2>1. CASE m \in 1 .. L
    BY <1>1, <1>4, <1>6, <2>1
  <2>2. CASE l \in 1 .. L /\ m \in L + 1 .. K
    BY <1>1, <1>6, <2>2
  <2>3. CASE l \in L + 1 .. K /\ m \in L + 1 .. K
    BY <1>1, <1>6, <2>3
  <2>4. m \in 1 .. L \/ (l \in 1 .. L /\ m \in L + 1 .. K) \/ (l \in L + 1 .. K /\ m \in L + 1 .. K)
    BY <1>1, <1>6
  <2> QED BY <2>1, <2>2, <2>3, <2>4
<1>9. h \in [1 .. K -> 1 .. N]
  <2>1. h = [m \in 1 .. K |-> h[m]]
    BY DEF h
  <2> QED BY <1>7, <2>1
<1>10. Subsequence(v, s, N)
  <2> HIDE DEF K
  <2> QED BY <1>5, <1>7, <1>8, <1>9 DEF Subsequence
<1> QED BY <1>3, <1>10 DEF v, w, N

(* The elements that are left were there. *)
LEMMA SubsequenceElements ==
  ASSUME NEW T, NEW s \in Seq(T), NEW u \in Seq(T), Subsequence(u, s, Len(s))
  PROVE  ToSet(u) \subseteq ToSet(s)
<1>1. DOMAIN u = 1 .. Len(u) /\ DOMAIN s = 1 .. Len(s)
  BY LenProperties
<1> QED BY <1>1 DEF Subsequence, ToSet
=============================================================================
