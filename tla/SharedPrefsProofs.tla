------------------------- MODULE SharedPrefsProofs -------------------------
(***************************************************************************)
(* Proofs about what is stored.  The preferences, for every set of names   *)
(* and values and every number of writes: a kill leaves a prefix of what   *)
(* was set, and get returns what was last given to set unless Java refused *)
(* its batch.  And the cache of icons with the tasks that fill it, for any *)
(* size of a bucket and any number of urls, tasks and views.               *)
(***************************************************************************)
EXTENDS SharedPrefs, LoadImage, ListLemmas, TLAPS

-----------------------------------------------------------------------------
(* The last write of a batch to a name *)

(* Write number i is the last one of ws to the name k. *)
LastWrite(ws, k, i) ==
    /\ i \in 1 .. Len(ws) /\ ws[i].key = k
    /\ \A j \in 1 .. Len(ws) : ws[j].key = k => j <= i

NoWrite(ws, k) == \A j \in 1 .. Len(ws) : ws[j].key # k

(* A batch either does not write a name or has a last write to it. *)
LEMMA LastOrNone ==
  ASSUME NEW ws \in Seq(Write), NEW k
  PROVE  NoWrite(ws, k) \/ \E i \in 1 .. Len(ws) : LastWrite(ws, k, i)
<1> SUFFICES ASSUME ~ NoWrite(ws, k)
             PROVE  \E i \in 1 .. Len(ws) : LastWrite(ws, k, i)
    OBVIOUS
<1> DEFINE Back == {Len(ws) - i : i \in {j \in 1 .. Len(ws) : ws[j].key = k}}
<1>1. Len(ws) \in Nat
    OBVIOUS
<1>2. Back \in SUBSET Nat /\ Back # {}
    BY <1>1 DEF NoWrite
<1>3. PICK b \in Back : \A m \in Back : b <= m
    BY <1>2, Least
<1>4. PICK i \in 1 .. Len(ws) : ws[i].key = k /\ b = Len(ws) - i
    BY <1>3
<1>5. ASSUME NEW j \in 1 .. Len(ws), ws[j].key = k PROVE j <= i
    <2>1. Len(ws) - j \in Back
        BY <1>5
    <2>2. Len(ws) - i <= Len(ws) - j
        BY <2>1, <1>3, <1>4
    <2> QED BY <2>2, <1>1
<1> QED BY <1>4, <1>5 DEF LastWrite

(* Applied leaves a name that is not written and gives the others the value
   of their last write. *)
LEMMA AppliedLast ==
  ASSUME NEW ws \in Seq(Write), NEW p, NEW k \in Keys, NEW i, LastWrite(ws, k, i)
  PROVE  Applied(ws, p)[k] = ws[i].value
<1> DEFINE hits == {j \in 1 .. Len(ws) : ws[j].key = k}
           Top(j) == j \in hits /\ \A h \in hits : h <= j
           top == CHOOSE j \in hits : \A h \in hits : h <= j
<1>1. i \in hits /\ \A h \in hits : h <= i
    BY DEF LastWrite
<1>2. top \in hits /\ \A h \in hits : h <= top
    BY <1>1
<1>3. top <= i /\ i <= top
    BY <1>1, <1>2
<1>4. top \in Int /\ i \in Int
    BY <1>1, <1>2
<1>5. top = i
    BY <1>3, <1>4
<1>6. Applied(ws, p)[k] = IF hits = {} THEN p[k] ELSE ws[top].value
    BY DEF Applied
<1> QED BY <1>1, <1>5, <1>6

LEMMA AppliedNone ==
  ASSUME NEW ws \in Seq(Write), NEW p, NEW k \in Keys, NoWrite(ws, k)
  PROVE  Applied(ws, p)[k] = p[k]
BY DEF Applied, NoWrite

LEMMA AppliedIsPrefs ==
  ASSUME NEW ws \in Seq(Write), NEW p \in Prefs
  PROVE  Applied(ws, p) \in Prefs
<1>1. ASSUME NEW k \in Keys PROVE Applied(ws, p)[k] \in Values \cup {Absent}
    <2>1. CASE NoWrite(ws, k)
        BY <2>1, AppliedNone DEF Prefs
    <2>2. CASE \E i \in 1 .. Len(ws) : LastWrite(ws, k, i)
        <3>1. PICK i \in 1 .. Len(ws) : LastWrite(ws, k, i)
            BY <2>2
        <3>2. ws[i] \in Write
            OBVIOUS
        <3>3. Applied(ws, p)[k] = ws[i].value
            BY <3>1, AppliedLast
        <3> QED BY <3>2, <3>3 DEF Write
    <2> QED BY <2>1, <2>2, LastOrNone
<1> QED BY <1>1 DEF Applied, Prefs

LEMMA NothingIsPrefs == Nothing \in Prefs
  BY DEF Nothing, Prefs

-----------------------------------------------------------------------------
(* Parts of the log *)

(* A prefix of a list of writes. *)
LEMMA Prefix ==
  ASSUME NEW L \in Seq(Write), NEW n \in 0 .. Len(L)
  PROVE  /\ SubSeq(L, 1, n) \in Seq(Write) /\ Len(SubSeq(L, 1, n)) = n
         /\ \A i \in 1 .. n : SubSeq(L, 1, n)[i] = L[i]
<1>1. n \in Nat /\ n <= Len(L) /\ Len(L) \in Nat
    OBVIOUS
<1>2. \A i \in 1 .. n : L[i] \in Write
    BY <1>1
<1>3. /\ SubSeq(L, 1, n) \in Seq(Write)
      /\ Len(SubSeq(L, 1, n)) = IF 1 <= n THEN n - 1 + 1 ELSE 0
      /\ \A i \in 1 .. n - 1 + 1 : SubSeq(L, 1, n)[i] = L[1 + i - 1]
    BY <1>1, <1>2, SubSeqProperties
<1>4. n - 1 + 1 = n /\ \A i \in 1 .. n : 1 + i - 1 = i
    BY <1>1
<1>5. Len(SubSeq(L, 1, n)) = n
    BY <1>1, <1>3, <1>4
<1>6. \A i \in 1 .. n : SubSeq(L, 1, n)[i] = L[i]
    BY <1>1, <1>3, <1>4
<1> QED BY <1>3, <1>5, <1>6

(* Lists that agree on their first n writes have the same prefix. *)
LEMMA SamePrefix ==
  ASSUME NEW L \in Seq(Write), NEW M \in Seq(Write), NEW n \in 0 .. Len(L), n <= Len(M),
         \A i \in 1 .. n : L[i] = M[i]
  PROVE  SubSeq(L, 1, n) = SubSeq(M, 1, n)
<1>1. n \in 0 .. Len(M)
    OBVIOUS
<1>2. /\ SubSeq(L, 1, n) \in Seq(Write) /\ SubSeq(M, 1, n) \in Seq(Write)
      /\ Len(SubSeq(L, 1, n)) = n /\ Len(SubSeq(M, 1, n)) = n
      /\ \A i \in 1 .. n : SubSeq(L, 1, n)[i] = SubSeq(M, 1, n)[i]
    BY <1>1, Prefix
<1> QED BY <1>2, SeqEqual

(* Applying a prefix of the log and then the batch behind it is applying the
   longer prefix. *)
LEMMA AppliedInTurn ==
  ASSUME NEW L \in Seq(Write), NEW n \in 0 .. Len(L), NEW ws \in Seq(Write),
         n + Len(ws) <= Len(L), \A j \in 1 .. Len(ws) : ws[j] = L[n + j]
  PROVE  Applied(ws, Applied(SubSeq(L, 1, n), Nothing))
           = Applied(SubSeq(L, 1, n + Len(ws)), Nothing)
<1> DEFINE a == SubSeq(L, 1, n)
           b == SubSeq(L, 1, n + Len(ws))
<1>1. n \in Nat /\ Len(ws) \in Nat /\ n + Len(ws) \in 0 .. Len(L)
    OBVIOUS
<1>2. /\ a \in Seq(Write) /\ Len(a) = n
      /\ \A i \in 1 .. n : a[i] = L[i]
    BY Prefix
<1>3. /\ b \in Seq(Write) /\ Len(b) = n + Len(ws)
      /\ \A i \in 1 .. n + Len(ws) : b[i] = L[i]
    BY <1>1, Prefix
<1> HIDE DEF a, b
<1>4. /\ \A i \in 1 .. n : i \in 1 .. n + Len(ws) /\ b[i] = a[i]
      /\ \A j \in 1 .. Len(ws) : n + j \in 1 .. n + Len(ws) /\ b[n + j] = ws[j]
      /\ \A i \in 1 .. n + Len(ws) : i \in 1 .. n \/ (i - n \in 1 .. Len(ws) /\ i = n + (i - n))
    <2>1. \A i \in 1 .. n : i \in 1 .. n + Len(ws)
        BY <1>1
    <2>2. \A j \in 1 .. Len(ws) : n + j \in 1 .. n + Len(ws)
        BY <1>1
    <2>3. \A i \in 1 .. n + Len(ws) : i \in 1 .. n \/ (i - n \in 1 .. Len(ws) /\ i = n + (i - n))
        BY <1>1
    <2>4. \A i \in 1 .. n : b[i] = a[i]
        BY <2>1, <1>2, <1>3
    <2>5. \A j \in 1 .. Len(ws) : b[n + j] = ws[j]
        BY <2>2, <1>3
    <2> QED BY <2>1, <2>2, <2>3, <2>4, <2>5
<1>5. ASSUME NEW k \in Keys
      PROVE  Applied(ws, Applied(a, Nothing))[k] = Applied(b, Nothing)[k]
    <2>1. CASE \E i \in 1 .. Len(ws) : LastWrite(ws, k, i)
        <3>1. PICK i \in 1 .. Len(ws) : LastWrite(ws, k, i)
            BY <2>1
        <3>2. n + i \in 1 .. Len(b) /\ b[n + i] = ws[i] /\ b[n + i].key = k
            BY <3>1, <1>3, <1>4 DEF LastWrite
        <3>3. ASSUME NEW j \in 1 .. Len(b), b[j].key = k PROVE j <= n + i
            <4>1. CASE j \in 1 .. n
                BY <4>1, <1>1, <3>1
            <4>2. CASE j - n \in 1 .. Len(ws) /\ j = n + (j - n)
                <5>1. ws[j - n].key = k
                    BY <4>2, <3>3, <1>4
                <5>2. j - n <= i
                    BY <5>1, <4>2, <3>1 DEF LastWrite
                <5> QED BY <5>2, <4>2, <3>1, <1>1
            <4> QED BY <4>1, <4>2, <1>3, <1>4
        <3>4. LastWrite(b, k, n + i)
            BY <3>2, <3>3 DEF LastWrite
        <3>5. Applied(b, Nothing)[k] = b[n + i].value
            BY <3>4, <1>3, AppliedLast
        <3>6. Applied(ws, Applied(a, Nothing))[k] = ws[i].value
            BY <3>1, AppliedLast
        <3> QED BY <3>2, <3>5, <3>6
    <2>2. CASE NoWrite(ws, k)
        <3>1. Applied(ws, Applied(a, Nothing))[k] = Applied(a, Nothing)[k]
            BY <2>2, AppliedNone
        <3>2. CASE NoWrite(a, k)
            <4>1. ASSUME NEW j \in 1 .. Len(b) PROVE b[j].key # k
                <5>1. CASE j \in 1 .. n
                    BY <5>1, <3>2, <1>2, <1>4 DEF NoWrite
                <5>2. CASE j - n \in 1 .. Len(ws) /\ j = n + (j - n)
                    <6>1. b[n + (j - n)] = ws[j - n]
                        BY <5>2, <1>4
                    <6>2. b[j] = ws[j - n]
                        BY <6>1, <5>2
                    <6> QED BY <6>2, <5>2, <2>2 DEF NoWrite
                <5> QED BY <5>1, <5>2, <1>3, <1>4
            <4>2. NoWrite(b, k)
                BY <4>1 DEF NoWrite
            <4>3. Applied(b, Nothing)[k] = Nothing[k]
                BY <4>2, <1>3, AppliedNone
            <4>4. Applied(a, Nothing)[k] = Nothing[k]
                BY <3>2, <1>2, AppliedNone
            <4> QED BY <4>3, <4>4, <3>1
        <3>3. CASE \E i \in 1 .. Len(a) : LastWrite(a, k, i)
            <4>1. PICK i \in 1 .. n : LastWrite(a, k, i)
                BY <3>3, <1>2
            <4>2. i \in 1 .. Len(b) /\ b[i] = a[i] /\ b[i].key = k
                BY <4>1, <1>3, <1>4 DEF LastWrite
            <4>3. ASSUME NEW j \in 1 .. Len(b), b[j].key = k PROVE j <= i
                <5>1. CASE j - n \in 1 .. Len(ws) /\ j = n + (j - n)
                    <6>1. b[n + (j - n)] = ws[j - n]
                        BY <5>1, <1>4
                    <6>2. b[j] = ws[j - n]
                        BY <6>1, <5>1
                    <6> QED BY <6>2, <5>1, <4>3, <2>2 DEF NoWrite
                <5>2. CASE j \in 1 .. n
                    BY <5>2, <4>3, <4>1, <1>2, <1>4 DEF LastWrite
                <5> QED BY <5>1, <5>2, <1>3, <1>4
            <4>4. LastWrite(b, k, i)
                BY <4>2, <4>3 DEF LastWrite
            <4>5. Applied(b, Nothing)[k] = b[i].value
                BY <4>4, <1>3, AppliedLast
            <4>6. Applied(a, Nothing)[k] = a[i].value
                BY <4>1, <1>2, AppliedLast
            <4> QED BY <4>2, <4>5, <4>6, <3>1
        <3> QED BY <3>2, <3>3, <1>2, LastOrNone
    <2> QED BY <2>1, <2>2, LastOrNone
<1>6. /\ Applied(ws, Applied(a, Nothing)) = [k \in Keys |-> Applied(ws, Applied(a, Nothing))[k]]
      /\ Applied(b, Nothing) = [k \in Keys |-> Applied(b, Nothing)[k]]
    BY DEF Applied
<1>7. Applied(ws, Applied(a, Nothing)) = Applied(b, Nothing)
    BY <1>5, <1>6
<1> QED BY <1>7 DEF a, b

-----------------------------------------------------------------------------
(* What the invariant says of a state *)

(* The places where the parts of the log meet, spelled out. *)
LEMMA CutFacts ==
  ASSUME TypeOK, NEW cut \in [1 .. Len(dirty) + 1 -> 0 .. Len(log)], CutInv(cut)
  PROVE  /\ Len(dirty) \in Nat /\ Len(log) \in Nat /\ Len(writes) \in Nat
         /\ cut[1] \in 0 .. Len(log) /\ cut[Len(dirty) + 1] \in 0 .. Len(log)
         /\ \A i \in 1 .. Len(dirty) :
                /\ dirty[i] \in Seq(Write) /\ Len(dirty[i]) \in Nat
                /\ cut[i] \in 0 .. Len(log) /\ cut[i + 1] = cut[i] + Len(dirty[i])
                /\ cut[i] + Len(dirty[i]) <= Len(log)
                /\ \A j \in 1 .. Len(dirty[i]) : dirty[i][j] = log[cut[i] + j]
         /\ \A i \in 1 .. Len(dirty) + 1 : cut[i] <= cut[Len(dirty) + 1]
         /\ Len(log) = cut[Len(dirty) + 1] + Len(writes)
         /\ \A j \in 1 .. Len(writes) : writes[j] = log[cut[Len(dirty) + 1] + j]
         /\ disk = Upto(cut[1]) /\ prefs = Upto(cut[Len(dirty) + 1])
<1>1. writes \in Seq(Write) /\ log \in Seq(Write) /\ dirty \in Seq(Seq(Write))
    BY DEF TypeOK
<1>2. /\ Len(dirty) \in Nat /\ Len(log) \in Nat /\ Len(writes) \in Nat
      /\ \A i \in 1 .. Len(dirty) : dirty[i] \in Seq(Write)
    BY <1>1, LenProperties, ElementOfSeq
<1>3. \A i \in 1 .. Len(dirty) : Len(dirty[i]) \in Nat
    BY <1>2, LenProperties
<1>4. /\ 1 \in 1 .. Len(dirty) + 1 /\ Len(dirty) + 1 \in 1 .. Len(dirty) + 1
      /\ \A i \in 1 .. Len(dirty) : i \in 1 .. Len(dirty) + 1
    BY <1>2
<1>5. /\ cut[1] \in 0 .. Len(log) /\ cut[Len(dirty) + 1] \in 0 .. Len(log)
      /\ \A i \in 1 .. Len(dirty) : cut[i] \in 0 .. Len(log)
    BY <1>4
<1>6. /\ \A i \in 1 .. Len(dirty) :
            PartOfLog(dirty[i], cut[i]) /\ cut[i + 1] = cut[i] + Len(dirty[i])
      /\ \A i \in 1 .. Len(dirty) + 1 : cut[i] <= cut[Len(dirty) + 1]
      /\ PartOfLog(writes, cut[Len(dirty) + 1])
      /\ Len(log) = cut[Len(dirty) + 1] + Len(writes)
      /\ disk = Upto(cut[1]) /\ prefs = Upto(cut[Len(dirty) + 1])
    BY DEF CutInv
<1>7. ASSUME NEW i \in 1 .. Len(dirty)
      PROVE  /\ cut[i] + Len(dirty[i]) <= Len(log)
             /\ \A j \in 1 .. Len(dirty[i]) : dirty[i][j] = log[cut[i] + j]
    BY <1>6 DEF PartOfLog
<1>8. \A j \in 1 .. Len(writes) : writes[j] = log[cut[Len(dirty) + 1] + j]
    BY <1>6 DEF PartOfLog
<1> QED BY <1>2, <1>3, <1>5, <1>6, <1>7, <1>8

(* Java's preferences and the writes still held back make up the whole log. *)
LEMMA WholeLog ==
  ASSUME TypeOK, NEW cut \in [1 .. Len(dirty) + 1 -> 0 .. Len(log)], CutInv(cut)
  PROVE  Applied(writes, prefs) = Upto(Len(log))
<1>1. PICK last \in 0 .. Len(log) : last = cut[Len(dirty) + 1]
    BY CutFacts
<1>2. /\ Len(log) \in Nat /\ Len(writes) \in Nat /\ Len(log) = last + Len(writes)
      /\ \A j \in 1 .. Len(writes) : writes[j] = log[last + j]
      /\ prefs = Applied(SubSeq(log, 1, last), Nothing)
    BY <1>1, CutFacts DEF Upto
<1>3. writes \in Seq(Write) /\ log \in Seq(Write) /\ last + Len(writes) <= Len(log)
    BY <1>2 DEF TypeOK
<1>4. Applied(writes, prefs) = Applied(SubSeq(log, 1, last + Len(writes)), Nothing)
    BY <1>2, <1>3, AppliedInTurn
<1> QED BY <1>2, <1>4 DEF Upto

(* The disk is one of the states the log went through. *)
LEMMA LogGivesPrefix == TypeOK /\ LogInv => DiskIsPrefix
<1> SUFFICES ASSUME TypeOK, LogInv PROVE DiskIsPrefix
    OBVIOUS
<1>1. PICK cut \in [1 .. Len(dirty) + 1 -> 0 .. Len(log)] : CutInv(cut)
    BY DEF LogInv
<1>2. 1 \in 1 .. Len(dirty) + 1
    BY DEF TypeOK
<1>3. cut[1] \in 0 .. Len(log) /\ disk = Upto(cut[1])
    BY <1>1, <1>2 DEF CutInv
<1> QED BY <1>3 DEF DiskIsPrefix

(* A name none of the held-back writes is to has the value Java has. *)
LEMMA NotHeldBack ==
  ASSUME IInv, NEW k \in Keys, k \notin lost, NoWrite(writes, k)
  PROVE  wanted[k] = prefs[k]
<1>1. PICK cut \in [1 .. Len(dirty) + 1 -> 0 .. Len(log)] : CutInv(cut)
    BY DEF IInv, LogInv
<1>2. wanted[k] = Applied(writes, prefs)[k]
    BY <1>1, WholeLog DEF IInv, WantedInv
<1>3. writes \in Seq(Write)
    BY DEF IInv, TypeOK
<1> QED BY <1>2, <1>3, AppliedNone

-----------------------------------------------------------------------------
LEMMA InitPrefs == Init => IInv
<1> SUFFICES ASSUME Init PROVE IInv
    OBVIOUS
<1>1. /\ writes = <<>> /\ dirty = <<>> /\ log = <<>>
      /\ prefs = Nothing /\ disk = Nothing /\ wanted = Nothing
    BY DEF Init
<1>2. writes \in Seq(Write) /\ log \in Seq(Write) /\ dirty \in Seq(Seq(Write))
    BY <1>1
<1>3. TypeOK
    BY <1>1, <1>2, NothingIsPrefs DEF Init, TypeOK
<1>4. Upto(0) = Nothing
    <2>1. 0 \in 0 .. Len(log)
        BY <1>1
    <2>2. SubSeq(log, 1, 0) \in Seq(Write) /\ Len(SubSeq(log, 1, 0)) = 0
        BY <1>2, <2>1, Prefix
    <2>3. \A k \in Keys : Applied(SubSeq(log, 1, 0), Nothing)[k] = Nothing[k]
        <3>1. \A k \in Keys : NoWrite(SubSeq(log, 1, 0), k)
            BY <2>2 DEF NoWrite
        <3> QED BY <2>2, <3>1, AppliedNone
    <2> QED BY <2>3 DEF Upto, Applied, Nothing
<1>5. LogInv
    <2>1. Len(dirty) = 0 /\ Len(writes) = 0 /\ Len(log) = 0
        BY <1>1
    <2> DEFINE cut == [i \in 1 .. 1 |-> 0]
    <2>2. cut \in [1 .. Len(dirty) + 1 -> 0 .. Len(log)] /\ cut[1] = 0
        BY <2>1
    <2>3. CutInv(cut)
        <3>1. \A i \in 1 .. Len(dirty) + 1 : i = 1
            BY <2>1
        <3>2. \A i \in 1 .. Len(dirty) + 1 : cut[i] <= cut[Len(dirty) + 1]
            BY <2>1, <2>2, <3>1
        <3> QED BY <2>1, <2>2, <3>2, <1>1, <1>4 DEF CutInv, PartOfLog
    <2> QED BY <2>2, <2>3 DEF LogInv
<1>6. WantedInv
    <2>1. Len(log) = 0
        BY <1>1
    <2> QED BY <1>1, <1>4, <2>1 DEF WantedInv
<1> QED BY <1>3, <1>5, <1>6, LogGivesPrefix DEF IInv

-----------------------------------------------------------------------------
(* set *)
LEMMA StepSet ==
  ASSUME IInv, NEW k \in Keys, NEW v \in Values, Set(k, v)
  PROVE  IInv'
<1> DEFINE w == [key |-> k, value |-> v]
<1>1. /\ writes' = Append(writes, w) /\ log' = Append(log, w)
      /\ scheduled' = TRUE /\ armed' = (armed \/ ~scheduled)
      /\ wanted' = [wanted EXCEPT ![k] = v] /\ lost' = lost \ {k}
      /\ prefs' = prefs /\ dirty' = dirty /\ disk' = disk /\ answer' = answer
    BY DEF Set, javaVars
<1>2. /\ writes \in Seq(Write) /\ log \in Seq(Write) /\ dirty \in Seq(Seq(Write))
      /\ TypeOK
    BY DEF IInv, TypeOK
<1>3. w \in Write /\ w.key = k /\ w.value = v
    BY DEF Write
<1> HIDE DEF w
<1>4. /\ writes' \in Seq(Write) /\ Len(writes') = Len(writes) + 1
      /\ \A i \in 1 .. Len(writes) : writes'[i] = writes[i]
      /\ writes'[Len(writes) + 1] = w
    BY <1>1, <1>2, <1>3, AppendProperties
<1>5. /\ log' \in Seq(Write) /\ Len(log') = Len(log) + 1
      /\ \A i \in 1 .. Len(log) : log'[i] = log[i]
      /\ log'[Len(log) + 1] = w
    BY <1>1, <1>2, <1>3, AppendProperties
<1>6. TypeOK'
    <2>1. wanted' \in Prefs
        BY <1>1, <1>2 DEF TypeOK, Prefs
    <2>2. lost' \subseteq Keys
        BY <1>1, <1>2 DEF TypeOK
    <2>3. scheduled' \in BOOLEAN /\ armed' = scheduled'
        BY <1>1, <1>2 DEF TypeOK
    <2> QED BY <1>1, <1>2, <1>4, <1>5, <2>1, <2>2, <2>3 DEF TypeOK
<1>7. \A n \in 0 .. Len(log) : Upto(n)' = Upto(n)
    <2> SUFFICES ASSUME NEW n \in 0 .. Len(log) PROVE Upto(n)' = Upto(n)
        OBVIOUS
    <2>1. n <= Len(log') /\ \A i \in 1 .. n : log[i] = log'[i]
        BY <1>2, <1>5
    <2> QED BY <1>2, <1>5, <2>1, SamePrefix DEF Upto
<1>8. LogInv'
    <2>1. PICK cut \in [1 .. Len(dirty) + 1 -> 0 .. Len(log)] : CutInv(cut)
        BY DEF IInv, LogInv
    <2>2. PICK last \in 0 .. Len(log) : last = cut[Len(dirty) + 1]
        BY <2>1, <1>2, CutFacts
    <2>3. cut \in [1 .. Len(dirty') + 1 -> 0 .. Len(log')]
        <3>1. Len(log) \in Nat /\ 0 .. Len(log) \subseteq 0 .. Len(log')
            BY <1>2, <1>5
        <3> QED BY <1>1, <3>1
    <2>4. ASSUME NEW i \in 1 .. Len(dirty')
          PROVE  PartOfLog(dirty[i], cut[i])' /\ cut[i + 1] = cut[i] + Len(dirty'[i])
        <3>1. /\ cut[i] \in Nat /\ Len(dirty[i]) \in Nat /\ Len(log) \in Nat
              /\ cut[i] + Len(dirty[i]) <= Len(log) /\ cut[i + 1] = cut[i] + Len(dirty[i])
              /\ \A j \in 1 .. Len(dirty[i]) : dirty[i][j] = log[cut[i] + j]
            <4>1. i \in 1 .. Len(dirty)
                BY <1>1
            <4>2. cut[i] \in 0 .. Len(log) /\ Len(log) \in Nat
                BY <1>2, <2>1, <4>1, CutFacts
            <4>3. cut[i] \in Nat
                BY <4>2
            <4> QED BY <1>2, <2>1, <4>1, <4>2, <4>3, CutFacts
        <3>2. \A j \in 1 .. Len(dirty[i]) : cut[i] + j \in 1 .. Len(log)
            BY <3>1
        <3>3. cut[i] + Len(dirty[i]) <= Len(log')
            BY <3>1, <1>5
        <3> QED BY <1>1, <1>5, <3>1, <3>2, <3>3 DEF PartOfLog
    <2>5. PartOfLog(writes, last)' /\ Len(log') = last + Len(writes')
        <3>1. /\ Len(log) = last + Len(writes) /\ Len(log) \in Nat /\ Len(writes) \in Nat
              /\ \A j \in 1 .. Len(writes) : writes[j] = log[last + j]
            BY <1>2, <2>1, <2>2, CutFacts
        <3>2. ASSUME NEW j \in 1 .. Len(writes') PROVE writes'[j] = log'[last + j]
            <4>1. CASE j = Len(writes) + 1
                <5>1. last + j = Len(log) + 1
                    BY <4>1, <3>1
                <5> QED BY <4>1, <5>1, <1>4, <1>5
            <4>2. CASE j \in 1 .. Len(writes)
                <5>1. last + j \in 1 .. Len(log)
                    BY <4>2, <3>1, <2>2
                <5> QED BY <4>2, <5>1, <3>1, <1>4, <1>5
            <4> QED BY <4>1, <4>2, <1>4, <3>1
        <3>3. last + Len(writes') <= Len(log') /\ Len(log') = last + Len(writes')
            BY <3>1, <1>4, <1>5
        <3> QED BY <3>2, <3>3 DEF PartOfLog
    <2>6. disk' = Upto(cut[1])' /\ prefs' = Upto(last)'
        <3>1. /\ cut[1] \in 0 .. Len(log)
              /\ disk = Upto(cut[1]) /\ prefs = Upto(last)
            BY <1>2, <2>1, <2>2, CutFacts
        <3> QED BY <1>1, <1>7, <3>1
    <2>7. CutInv(cut)'
        <3>1. \A i \in 1 .. Len(dirty') + 1 : cut[i] <= cut[Len(dirty') + 1]
            BY <1>1, <1>2, <2>1, CutFacts
        <3> QED BY <1>1, <2>2, <2>4, <2>5, <2>6, <3>1 DEF CutInv
    <2> QED BY <2>3, <2>7 DEF LogInv
<1>9. WantedInv'
    <2> SUFFICES ASSUME NEW q \in Keys, q \notin lost'
                 PROVE  wanted'[q] = Upto(Len(log))'[q]
        BY DEF WantedInv
    <2> DEFINE one == <<w>>
    <2>1. /\ Len(log) \in 0 .. Len(log') /\ Len(log) + 1 = Len(log')
          /\ one \in Seq(Write) /\ Len(one) = 1 /\ one[1] = w
        BY <1>2, <1>3, <1>5
    <2> HIDE DEF one
    <2>2. \A j \in 1 .. Len(one) : one[j] = log'[Len(log) + j]
        BY <2>1, <1>5
    <2>3. Applied(one, Applied(SubSeq(log', 1, Len(log)), Nothing))
            = Applied(SubSeq(log', 1, Len(log) + Len(one)), Nothing)
        <3>1. Len(log) + Len(one) <= Len(log')
            BY <1>2, <1>5, <2>1
        <3> QED BY <1>5, <2>1, <2>2, <3>1, AppliedInTurn
    <2>4. Upto(Len(log))' = Applied(SubSeq(log', 1, Len(log')), Nothing)
        BY DEF Upto
    <2>5. Applied(SubSeq(log', 1, Len(log)), Nothing) = Upto(Len(log))
        <3>1. /\ Len(log) \in 0 .. Len(log) /\ Len(log) <= Len(log')
              /\ \A i \in 1 .. Len(log) : log[i] = log'[i]
            BY <1>2, <1>5
        <3> QED BY <1>2, <1>5, <3>1, SamePrefix DEF Upto
    <2>6. Upto(Len(log))' = Applied(one, Upto(Len(log)))
        BY <2>1, <2>3, <2>4, <2>5
    <2>7. CASE q = k
        <3>1. LastWrite(one, q, 1)
            BY <2>1, <2>7, <1>3 DEF LastWrite
        <3>2. Applied(one, Upto(Len(log)))[q] = w.value
            BY <2>1, <3>1, AppliedLast
        <3>3. wanted'[q] = v
            BY <1>1, <1>2, <2>7 DEF TypeOK, Prefs
        <3> QED BY <2>6, <3>2, <3>3, <1>3
    <2>8. CASE q # k
        <3>1. NoWrite(one, q)
            BY <2>1, <2>8, <1>3 DEF NoWrite
        <3>2. Applied(one, Upto(Len(log)))[q] = Upto(Len(log))[q]
            BY <2>1, <3>1, AppliedNone
        <3>3. wanted'[q] = wanted[q] /\ q \notin lost
            BY <1>1, <1>2, <2>8 DEF TypeOK, Prefs
        <3> QED BY <2>6, <3>2, <3>3 DEF IInv, WantedInv
    <2> QED BY <2>7, <2>8
<1>10. DiskIsPrefix'
    BY <1>6, <1>8, LogGivesPrefix, PTL
<1> QED BY <1>6, <1>8, <1>9, <1>10 DEF IInv

-----------------------------------------------------------------------------
(* _flushWrites, from the timer and from get *)

(* Java applies the batch: the log ends behind the last batch now. *)
LEMMA FlushApplied ==
  ASSUME IInv, writes' = <<>>, Batch(writes), disk' = disk, wanted' = wanted
  PROVE  /\ prefs' \in Prefs /\ dirty' \in Seq(Seq(Write)) /\ log' = log /\ lost' = lost
         /\ prefs' = Upto(Len(log))
         /\ LogInv' /\ WantedInv'
<1>1. /\ prefs' = Applied(writes, prefs) /\ log' = log /\ lost' = lost
      /\ dirty' = IF writes = <<>> THEN dirty ELSE Append(dirty, writes)
    BY DEF Batch
<1>2. /\ TypeOK /\ writes \in Seq(Write) /\ log \in Seq(Write)
      /\ dirty \in Seq(Seq(Write)) /\ prefs \in Prefs
    BY DEF IInv, TypeOK
<1>3. prefs' \in Prefs
    BY <1>1, <1>2, AppliedIsPrefs
<1>4. dirty' \in Seq(Seq(Write))
    BY <1>1, <1>2, AppendProperties
<1>5. PICK cut \in [1 .. Len(dirty) + 1 -> 0 .. Len(log)] : CutInv(cut)
    BY DEF IInv, LogInv
<1>6. PICK last \in 0 .. Len(log) : last = cut[Len(dirty) + 1]
    BY <1>2, <1>5, CutFacts
<1>7. /\ Len(dirty) \in Nat /\ Len(log) \in Nat /\ Len(writes) \in Nat
      /\ Len(log) = last + Len(writes)
      /\ \A j \in 1 .. Len(writes) : writes[j] = log[last + j]
      /\ cut[1] \in 0 .. Len(log) /\ disk = Upto(cut[1])
    BY <1>2, <1>5, <1>6, CutFacts
<1>8. prefs' = Upto(Len(log))
    BY <1>1, <1>2, <1>5, WholeLog
<1>9. \A n : Upto(n)' = Upto(n)
    BY <1>1 DEF Upto
<1>10. WantedInv'
    BY <1>1, <1>9 DEF IInv, WantedInv
<1>0. PICK all \in Nat : all = Len(log)
    BY <1>7
<1>11. PartOfLog(writes, all)' /\ Len(log') = all + Len(writes')
    <2>1. Len(writes') = 0 /\ Len(log') = all
        BY <1>0, <1>1
    <2> QED BY <2>1 DEF PartOfLog
<1>12. \A i \in 1 .. Len(dirty) :
            /\ PartOfLog(dirty[i], cut[i]) /\ cut[i + 1] = cut[i] + Len(dirty[i])
    BY <1>5 DEF CutInv
<1>13. CASE writes = <<>>
    <2>1. /\ dirty' = dirty /\ Len(writes) = 0 /\ last = Len(log)
          /\ cut[Len(dirty') + 1] = all
        BY <1>0, <1>1, <1>6, <1>7, <1>13
    <2>2. CutInv(cut)'
        <3>1. \A i \in 1 .. Len(dirty') :
                 PartOfLog(dirty[i], cut[i])' /\ cut[i + 1] = cut[i] + Len(dirty'[i])
            BY <2>1, <1>1, <1>12 DEF PartOfLog
        <3>2. disk' = Upto(cut[1])' /\ prefs' = Upto(all)'
            BY <1>0, <1>7, <1>8, <1>9
        <3>3. \A i \in 1 .. Len(dirty') + 1 : cut[i] <= cut[Len(dirty') + 1]
            BY <1>2, <1>5, <2>1, CutFacts
        <3> QED BY <3>1, <3>2, <3>3, <2>1, <1>11 DEF CutInv
    <2>3. cut \in [1 .. Len(dirty') + 1 -> 0 .. Len(log')]
        BY <1>1, <2>1
    <2> QED BY <2>2, <2>3, <1>3, <1>4, <1>1, <1>8, <1>10 DEF LogInv
<1>14. CASE writes # <<>>
    <2> DEFINE cut2 == [i \in 1 .. Len(dirty) + 2 |->
                           IF i \in 1 .. Len(dirty) + 1 THEN cut[i] ELSE Len(log)]
    <2>1. /\ Len(dirty') = Len(dirty) + 1 /\ dirty'[Len(dirty) + 1] = writes
          /\ \A i \in 1 .. Len(dirty) : dirty'[i] = dirty[i]
        BY <1>1, <1>2, <1>14, AppendProperties
    <2>2. /\ cut2 \in [1 .. Len(dirty) + 2 -> 0 .. Len(log)]
          /\ \A i \in 1 .. Len(dirty) + 1 : cut2[i] = cut[i]
          /\ cut2[Len(dirty) + 2] = Len(log)
        BY <1>7
    <2> HIDE DEF cut2
    <2>3. PICK c2 \in [1 .. Len(dirty) + 2 -> 0 .. Len(log)] :
              /\ \A i \in 1 .. Len(dirty) + 1 : c2[i] = cut[i]
              /\ c2[Len(dirty) + 2] = Len(log)
        BY <2>2
    <2>4. c2 \in [1 .. Len(dirty') + 1 -> 0 .. Len(log')] /\ Len(dirty') + 1 = Len(dirty) + 2
        BY <2>1, <2>3, <1>1, <1>7
    <2>5. ASSUME NEW i \in 1 .. Len(dirty')
          PROVE  PartOfLog(dirty[i], c2[i])' /\ c2[i + 1] = c2[i] + Len(dirty'[i])
        <3>1. CASE i \in 1 .. Len(dirty)
            <4>1. c2[i] = cut[i] /\ c2[i + 1] = cut[i + 1]
                BY <2>3, <3>1, <1>7
            <4> QED BY <4>1, <3>1, <2>1, <1>1, <1>12 DEF PartOfLog
        <3>2. CASE i = Len(dirty) + 1
            <4>1. c2[i] = last /\ c2[i + 1] = Len(log) /\ dirty'[i] = writes
                BY <2>1, <2>3, <3>2, <1>6, <1>7
            <4>2. last + Len(writes) <= Len(log)
                BY <1>7
            <4> QED BY <4>1, <4>2, <1>1, <1>7 DEF PartOfLog
        <3> QED BY <3>1, <3>2, <2>1, <1>7
    <2>6. disk' = Upto(c2[1])' /\ prefs' = Upto(all)'
        <3>1. c2[1] = cut[1]
            BY <2>3, <1>7
        <3> QED BY <3>1, <1>0, <1>7, <1>8, <1>9
    <2>7. c2[Len(dirty') + 1] = all
        BY <2>3, <2>4, <1>0
    <2>8. CutInv(c2)'
        <3>1. ASSUME NEW i \in 1 .. Len(dirty') + 1 PROVE c2[i] <= c2[Len(dirty') + 1]
            <4>1. c2[i] \in 0 .. Len(log)
                BY <2>3, <2>4
            <4> QED BY <4>1, <2>7, <1>0
        <3> QED BY <3>1, <2>5, <2>6, <2>7, <1>11 DEF CutInv
    <2> QED BY <2>4, <2>8, <1>3, <1>4, <1>1, <1>8, <1>10 DEF LogInv
<1> QED BY <1>13, <1>14

(* Java throws: the log ends where the lost batch began. *)
LEMMA FlushLost ==
  ASSUME IInv, writes' = <<>>, LoseBatch, disk' = disk, wanted' = wanted
  PROVE  /\ prefs' = prefs /\ dirty' = dirty /\ log' \in Seq(Write) /\ lost' \subseteq Keys
         /\ \A k \in Keys \ lost' : k \notin lost /\ NoWrite(writes, k)
         /\ LogInv' /\ WantedInv'
<1>1. /\ prefs' = prefs /\ dirty' = dirty
      /\ lost' = lost \cup {writes[i].key : i \in 1 .. Len(writes)}
      /\ log' = SubSeq(log, 1, Len(log) - Len(writes))
    BY DEF LoseBatch
<1>2. /\ TypeOK /\ writes \in Seq(Write) /\ log \in Seq(Write) /\ lost \subseteq Keys
      /\ \A i \in 1 .. Len(writes) : writes[i].key \in Keys
    <2>1. TypeOK /\ writes \in Seq(Write) /\ log \in Seq(Write) /\ lost \subseteq Keys
        BY DEF IInv, TypeOK
    <2>2. \A i \in 1 .. Len(writes) : writes[i] \in Write
        BY <2>1, ElementOfSeq
    <2> QED BY <2>1, <2>2 DEF Write
<1>3. lost' \subseteq Keys
    BY <1>1, <1>2
<1>4. \A k \in Keys \ lost' : k \notin lost /\ NoWrite(writes, k)
    BY <1>1 DEF NoWrite
<1>5. PICK cut \in [1 .. Len(dirty) + 1 -> 0 .. Len(log)] : CutInv(cut)
    BY DEF IInv, LogInv
<1>6. PICK last \in 0 .. Len(log) : last = cut[Len(dirty) + 1]
    BY <1>2, <1>5, CutFacts
<1>7. /\ Len(dirty) \in Nat /\ Len(log) \in Nat /\ Len(writes) \in Nat
      /\ last = Len(log) - Len(writes)
      /\ cut[1] \in 0 .. Len(log) /\ disk = Upto(cut[1]) /\ prefs = Upto(last)
    <2>1. Len(log) = last + Len(writes) /\ Len(log) \in Nat /\ Len(writes) \in Nat
        BY <1>2, <1>5, <1>6, CutFacts
    <2>2. last = Len(log) - Len(writes)
        BY <2>1
    <2> QED BY <2>2, <1>2, <1>5, <1>6, CutFacts
<1>8. /\ log' \in Seq(Write) /\ Len(log') = last
      /\ \A i \in 1 .. last : log'[i] = log[i]
    BY <1>1, <1>2, <1>7, Prefix
<1>9. \A n \in 0 .. last : Upto(n)' = Upto(n)
    <2> SUFFICES ASSUME NEW n \in 0 .. last PROVE Upto(n)' = Upto(n)
        OBVIOUS
    <2>1. /\ n \in 0 .. Len(log) /\ n \in 0 .. Len(log')
          /\ n <= Len(log) /\ n <= Len(log') /\ \A i \in 1 .. n : log[i] = log'[i]
        BY <1>7, <1>8
    <2> QED BY <1>2, <1>8, <2>1, SamePrefix DEF Upto
<1>10. WantedInv'
    <2> SUFFICES ASSUME NEW k \in Keys, k \notin lost' PROVE wanted'[k] = Upto(Len(log))'[k]
        BY DEF WantedInv
    <2>1. wanted[k] = prefs[k]
        BY <1>4, NotHeldBack
    <2>2. Upto(last)' = Upto(last) /\ last \in 0 .. last
        BY <1>7, <1>9
    <2> QED BY <2>1, <2>2, <1>7, <1>8
<1>11. LogInv'
    <2>1. \A i \in 1 .. Len(dirty) :
              /\ Len(dirty[i]) \in Nat /\ cut[i] \in 0 .. Len(log)
              /\ cut[i + 1] = cut[i] + Len(dirty[i])
              /\ \A j \in 1 .. Len(dirty[i]) : dirty[i][j] = log[cut[i] + j]
        BY <1>2, <1>5, CutFacts
    <2>2. \A i \in 1 .. Len(dirty) + 1 : cut[i] \in 0 .. last
        <3>1. \A i \in 1 .. Len(dirty) + 1 : cut[i] \in 0 .. Len(log) /\ cut[i] <= last
            BY <1>2, <1>5, <1>6, CutFacts
        <3> QED BY <3>1, <1>7
    <2>3. cut \in [1 .. Len(dirty') + 1 -> 0 .. Len(log')]
        BY <2>2, <1>1, <1>8
    <2>4. ASSUME NEW i \in 1 .. Len(dirty')
          PROVE  PartOfLog(dirty[i], cut[i])' /\ cut[i + 1] = cut[i] + Len(dirty'[i])
        <3>1. /\ Len(dirty[i]) \in Nat /\ cut[i] \in 0 .. last /\ cut[i + 1] \in 0 .. last
              /\ cut[i + 1] = cut[i] + Len(dirty[i])
              /\ \A j \in 1 .. Len(dirty[i]) : dirty[i][j] = log[cut[i] + j]
            <4>1. i \in 1 .. Len(dirty)
                BY <1>1
            <4>2. i \in 1 .. Len(dirty) + 1 /\ i + 1 \in 1 .. Len(dirty) + 1
                BY <4>1, <1>2, <1>5, CutFacts
            <4> QED BY <4>1, <4>2, <2>1, <2>2
        <3>2. /\ cut[i] + Len(dirty[i]) <= last
              /\ \A j \in 1 .. Len(dirty[i]) : cut[i] + j \in 1 .. last
            <4>1. last \in Nat
                BY <1>7
            <4>2. cut[i] \in Nat /\ cut[i] + Len(dirty[i]) <= last
                BY <3>1, <4>1
            <4>3. ASSUME NEW j \in 1 .. Len(dirty[i])
                  PROVE  cut[i] + j \in 1 .. last
                <5>1. Len(dirty[i]) \in Nat
                    BY <3>1
                <5>2. j \in Nat /\ 1 <= j /\ j <= Len(dirty[i])
                    BY <5>1
                <5> QED BY <4>1, <4>2, <5>1, <5>2
            <4> QED BY <4>2, <4>3
        <3> QED BY <1>1, <1>8, <3>1, <3>2 DEF PartOfLog
    <2>5. PartOfLog(writes, last)' /\ Len(log') = last + Len(writes')
        <3>1. Len(writes') = 0
            OBVIOUS
        <3> QED BY <3>1, <1>7, <1>8 DEF PartOfLog
    <2>6. disk' = Upto(cut[1])' /\ prefs' = Upto(last)'
        <3>1. cut[1] \in 0 .. last /\ last \in 0 .. last
            BY <2>2, <1>7
        <3> QED BY <3>1, <1>1, <1>7, <1>9
    <2>7. CutInv(cut)'
        <3>1. \A i \in 1 .. Len(dirty') + 1 : cut[i] <= cut[Len(dirty') + 1]
            BY <1>1, <1>2, <1>5, CutFacts
        <3> QED BY <2>4, <2>5, <2>6, <3>1, <1>1, <1>6 DEF CutInv
    <2> QED BY <2>3, <2>7 DEF LogInv
<1> QED BY <1>1, <1>3, <1>4, <1>8, <1>10, <1>11

(* Both outcomes of a flush keep what concerns the log. *)
LEMMA StepFlush ==
  ASSUME IInv, Flush, disk' = disk, wanted' = wanted,
         scheduled' \in BOOLEAN, armed' = scheduled', answer' \in Values \cup {Absent}
  PROVE  IInv'
<1>1. writes' = <<>> /\ (Batch(writes) \/ LoseBatch)
    BY DEF Flush
<1>2. /\ prefs' \in Prefs /\ dirty' \in Seq(Seq(Write)) /\ log' \in Seq(Write)
      /\ lost' \subseteq Keys /\ LogInv' /\ WantedInv'
    <2>1. CASE Batch(writes)
        BY <2>1, <1>1, FlushApplied DEF IInv, TypeOK
    <2>2. CASE LoseBatch
        BY <2>2, <1>1, FlushLost DEF IInv, TypeOK
    <2> QED BY <2>1, <2>2, <1>1
<1>3. TypeOK'
    <2>1. writes' \in Seq(Write)
        BY <1>1
    <2> QED BY <2>1, <1>2 DEF IInv, TypeOK
<1>4. DiskIsPrefix'
    BY <1>2, <1>3, LogGivesPrefix, PTL
<1> QED BY <1>2, <1>3, <1>4 DEF IInv

(* get reads what Java has after the flush. *)
LEMMA StepGet ==
  ASSUME IInv, NEW k \in Keys, Get(k)
  PROVE  IInv'
<1>1. /\ Flush /\ answer' = prefs'[k] /\ scheduled' = scheduled /\ armed' = armed
      /\ disk' = disk /\ wanted' = wanted
    BY DEF Get
<1>2. prefs' \in Prefs
    <2>1. writes' = <<>> /\ (Batch(writes) \/ LoseBatch)
        BY <1>1 DEF Flush
    <2>2. CASE Batch(writes)
        BY <2>1, <2>2, <1>1, FlushApplied
    <2>3. CASE LoseBatch
        BY <2>1, <2>3, <1>1, FlushLost DEF IInv, TypeOK
    <2> QED BY <2>1, <2>2, <2>3
<1>3. answer' \in Values \cup {Absent}
    BY <1>1, <1>2 DEF Prefs
<1>4. scheduled' \in BOOLEAN /\ armed' = scheduled'
    BY <1>1 DEF IInv, TypeOK
<1> QED BY <1>1, <1>3, <1>4, StepFlush

LEMMA StepTimer ==
  ASSUME IInv, Timer
  PROVE  IInv'
<1>1. /\ Flush /\ scheduled' = FALSE /\ armed' = FALSE
      /\ disk' = disk /\ wanted' = wanted /\ answer' = answer
    BY DEF Timer
<1>2. answer' \in Values \cup {Absent}
    BY <1>1 DEF IInv, TypeOK
<1> QED BY <1>1, <1>2, StepFlush

-----------------------------------------------------------------------------
(* Android commits the oldest batch. *)
LEMMA StepCommit ==
  ASSUME IInv, Commit
  PROVE  IInv'
<1>1. /\ dirty # <<>> /\ disk' = Applied(Head(dirty), disk) /\ dirty' = Tail(dirty)
      /\ writes' = writes /\ scheduled' = scheduled /\ armed' = armed
      /\ prefs' = prefs /\ answer' = answer /\ log' = log /\ wanted' = wanted /\ lost' = lost
    BY DEF Commit, jsVars, ghostVars
<1>2. /\ TypeOK /\ writes \in Seq(Write) /\ log \in Seq(Write)
      /\ dirty \in Seq(Seq(Write)) /\ disk \in Prefs
    BY DEF IInv, TypeOK
<1>3. PICK cut \in [1 .. Len(dirty) + 1 -> 0 .. Len(log)] : CutInv(cut)
    BY DEF IInv, LogInv
<1>4. /\ Len(dirty) \in Nat \ {0} /\ dirty' \in Seq(Seq(Write))
      /\ Len(dirty') = Len(dirty) - 1
      /\ \A i \in 1 .. Len(dirty') : dirty'[i] = dirty[i + 1]
      /\ Head(dirty) = dirty[1]
    <2>1. Len(dirty) \in Nat \ {0}
        BY <1>1, <1>2, EmptySeq
    <2>2. /\ dirty' \in Seq(Seq(Write)) /\ Len(dirty') = Len(dirty) - 1
          /\ \A i \in 1 .. Len(dirty') : dirty'[i] = dirty[i + 1]
        BY <1>1, <1>2, HeadTailProperties
    <2> QED BY <2>1, <2>2
<1>5. /\ dirty[1] \in Seq(Write) /\ Len(log) \in Nat
      /\ cut[1] \in 0 .. Len(log) /\ cut[1] + Len(dirty[1]) <= Len(log)
      /\ cut[2] = cut[1] + Len(dirty[1])
      /\ \A j \in 1 .. Len(dirty[1]) : dirty[1][j] = log[cut[1] + j]
      /\ disk = Applied(SubSeq(log, 1, cut[1]), Nothing)
    <2>1. 1 \in 1 .. Len(dirty) /\ 1 + 1 = 2
        BY <1>4
    <2> QED BY <1>2, <1>3, <2>1, CutFacts DEF Upto
<1>6. disk' = Upto(cut[2])
    <2>1. PICK first \in 0 .. Len(log) : first = cut[1]
        BY <1>5
    <2>2. Applied(dirty[1], Applied(SubSeq(log, 1, first), Nothing))
            = Applied(SubSeq(log, 1, first + Len(dirty[1])), Nothing)
        BY <1>2, <1>5, <2>1, AppliedInTurn
    <2> QED BY <1>1, <1>4, <1>5, <2>1, <2>2 DEF Upto
<1>7. TypeOK'
    <2>1. disk' \in Prefs
        BY <1>1, <1>2, <1>4, <1>5, AppliedIsPrefs
    <2> QED BY <1>1, <1>2, <1>4, <2>1 DEF TypeOK
<1>8. \A n : Upto(n)' = Upto(n)
    BY <1>1 DEF Upto
<1>9. LogInv'
    <2> DEFINE shift == [i \in 1 .. Len(dirty) |-> cut[i + 1]]
    <2>1. /\ shift \in [1 .. Len(dirty) -> 0 .. Len(log)]
          /\ \A i \in 1 .. Len(dirty) : shift[i] = cut[i + 1]
        BY <1>4
    <2> HIDE DEF shift
    <2>2. PICK c2 \in [1 .. Len(dirty) -> 0 .. Len(log)] :
              \A i \in 1 .. Len(dirty) : c2[i] = cut[i + 1]
        BY <2>1
    <2>3. /\ Len(dirty') + 1 = Len(dirty)
          /\ c2 \in [1 .. Len(dirty') + 1 -> 0 .. Len(log')]
        BY <1>1, <1>4, <2>2
    <2>4. PICK last \in 0 .. Len(log) : last = cut[Len(dirty) + 1]
        BY <1>2, <1>3, CutFacts
    <2>5. c2[Len(dirty') + 1] = last
        BY <2>2, <2>3, <2>4, <1>4
    <2>6. ASSUME NEW i \in 1 .. Len(dirty')
          PROVE  PartOfLog(dirty[i], c2[i])' /\ c2[i + 1] = c2[i] + Len(dirty'[i])
        <3>1. i + 1 \in 1 .. Len(dirty) /\ i \in 1 .. Len(dirty)
            BY <1>4
        <3>2. c2[i] = cut[i + 1] /\ c2[i + 1] = cut[i + 1 + 1] /\ dirty'[i] = dirty[i + 1]
            BY <2>2, <3>1, <1>4
        <3>3. /\ PartOfLog(dirty[i + 1], cut[i + 1])
              /\ cut[i + 1 + 1] = cut[i + 1] + Len(dirty[i + 1])
            BY <1>3, <3>1 DEF CutInv
        <3> QED BY <3>2, <3>3, <1>1 DEF PartOfLog
    <2>7. ASSUME NEW i \in 1 .. Len(dirty') + 1 PROVE c2[i] <= c2[Len(dirty') + 1]
        <3>1. c2[i] = cut[i + 1] /\ i + 1 \in 1 .. Len(dirty) + 1
            BY <2>2, <2>3, <1>4
        <3> QED BY <3>1, <2>4, <2>5, <1>2, <1>3, CutFacts
    <2>8. PartOfLog(writes, last)' /\ Len(log') = last + Len(writes')
        <3>1. PartOfLog(writes, last) /\ Len(log) = last + Len(writes)
            BY <1>3, <2>4 DEF CutInv
        <3> QED BY <3>1, <1>1 DEF PartOfLog
    <2>9. disk' = Upto(c2[1])' /\ prefs' = Upto(last)'
        <3>1. c2[1] = cut[2]
            BY <2>2, <1>4
        <3>2. prefs = Upto(last)
            BY <1>2, <1>3, <2>4, CutFacts
        <3> QED BY <3>1, <3>2, <1>1, <1>6, <1>8
    <2>10. CutInv(c2)'
        BY <2>5, <2>6, <2>7, <2>8, <2>9 DEF CutInv
    <2> QED BY <2>3, <2>10 DEF LogInv
<1>10. WantedInv'
    BY <1>1, <1>8 DEF IInv, WantedInv
<1>11. DiskIsPrefix'
    BY <1>7, <1>9, LogGivesPrefix, PTL
<1> QED BY <1>7, <1>9, <1>10, <1>11 DEF IInv

(* A new process has what is on the disk. *)
LEMMA StepRestart ==
  ASSUME IInv, Restart
  PROVE  IInv'
<1>1. /\ writes' = <<>> /\ scheduled' = FALSE /\ armed' = FALSE
      /\ prefs' = disk /\ dirty' = <<>> /\ answer' = Absent
      /\ wanted' = disk /\ lost' = {} /\ disk' = disk
    BY DEF Restart
<1>2. PICK n \in 0 .. Len(log) : disk = Upto(n) /\ log' = SubSeq(log, 1, n)
    BY DEF Restart
<1>3. TypeOK /\ log \in Seq(Write) /\ disk \in Prefs /\ Len(log) \in Nat
    BY DEF IInv, TypeOK
<1>4. /\ log' \in Seq(Write) /\ Len(log') = n
      /\ \A i \in 1 .. n : log'[i] = log[i]
    BY <1>2, <1>3, Prefix
<1>5. Upto(n)' = Upto(n)
    <2>1. n <= Len(log') /\ \A i \in 1 .. n : log[i] = log'[i]
        BY <1>3, <1>4
    <2> QED BY <1>3, <1>4, <2>1, SamePrefix DEF Upto
<1>6. TypeOK'
    <2>1. writes' \in Seq(Write) /\ dirty' \in Seq(Seq(Write))
        BY <1>1
    <2> QED BY <1>1, <1>3, <1>4, <2>1 DEF TypeOK
<1>7. LogInv'
    <2>1. Len(dirty') = 0 /\ Len(writes') = 0
        BY <1>1
    <2>2. PICK c2 \in [1 .. 1 -> 0 .. n] : c2[1] = n
        <3> DEFINE whole == [i \in 1 .. 1 |-> n]
        <3>1. whole \in [1 .. 1 -> 0 .. n] /\ whole[1] = n
            BY <1>3
        <3> HIDE DEF whole
        <3> QED BY <3>1
    <2>3. c2 \in [1 .. Len(dirty') + 1 -> 0 .. Len(log')] /\ c2[Len(dirty') + 1] = n
        BY <2>1, <2>2, <1>4
    <2>4. PartOfLog(writes, n)' /\ Len(log') = n + Len(writes')
        BY <2>1, <1>3, <1>4 DEF PartOfLog
    <2>5. disk' = Upto(n)' /\ prefs' = Upto(n)'
        BY <1>1, <1>2, <1>5
    <2>6. \A i \in 1 .. Len(dirty') + 1 : c2[i] <= c2[Len(dirty') + 1]
        <3>1. \A i \in 1 .. Len(dirty') + 1 : i = 1
            BY <2>1
        <3> QED BY <3>1, <2>2, <2>3, <1>3
    <2>7. CutInv(c2)'
        BY <2>1, <2>2, <2>3, <2>4, <2>5, <2>6 DEF CutInv
    <2> QED BY <2>3, <2>7 DEF LogInv
<1>8. WantedInv'
    BY <1>1, <1>2, <1>4, <1>5 DEF WantedInv
<1>9. DiskIsPrefix'
    BY <1>6, <1>7, LogGivesPrefix, PTL
<1> QED BY <1>6, <1>7, <1>8, <1>9 DEF IInv

-----------------------------------------------------------------------------
LEMMA StepPrefs == IInv /\ [Next]_vars => IInv'
<1> SUFFICES ASSUME IInv, [Next]_vars PROVE IInv'
    OBVIOUS
<1>1. CASE \E k \in Keys, v \in Values : Set(k, v)
    BY <1>1, StepSet
<1>2. CASE \E k \in Keys : Get(k)
    BY <1>2, StepGet
<1>3. CASE Timer
    BY <1>3, StepTimer
<1>4. CASE Commit
    BY <1>4, StepCommit
<1>5. CASE Restart
    BY <1>5, StepRestart
<1>6. CASE UNCHANGED vars
    <2>1. /\ writes' = writes /\ scheduled' = scheduled /\ armed' = armed
          /\ prefs' = prefs /\ dirty' = dirty /\ disk' = disk /\ answer' = answer
          /\ log' = log /\ wanted' = wanted /\ lost' = lost
        BY <1>6 DEF vars, jsVars, javaVars, ghostVars
    <2>2. \A n : Upto(n)' = Upto(n)
        BY <2>1 DEF Upto
    <2>3. TypeOK' /\ WantedInv' /\ DiskIsPrefix'
        BY <2>1, <2>2 DEF IInv, TypeOK, WantedInv, DiskIsPrefix
    <2>4. LogInv'
        BY <2>1, <2>2 DEF IInv, LogInv, CutInv, PartOfLog
    <2> QED BY <2>3, <2>4 DEF IInv
<1> QED BY <1>1, <1>2, <1>3, <1>4, <1>5, <1>6 DEF Next

(* The invariant of SharedPrefs: the log is the disk, the batches on their way
   and the writes held back, in this order, and so what a kill leaves of
   SharedPreferencesAPI is what had been set up to some moment. *)
THEOREM InvariantHolds == Spec => []IInv
<1> QED BY InitPrefs, StepPrefs, PTL DEF Spec

(* What platform.js promises its readers: get returns the value last given to
   set unless Java refused the batch that value was in. *)
THEOREM ReadYourWritesHolds == Spec => ReadYourWrites
<1>1. IInv /\ [Next]_vars =>
        [\A k \in Keys : Get(k) /\ k \notin lost' => answer' = wanted[k]]_vars
    <2> SUFFICES ASSUME IInv, NEW k \in Keys, Get(k), k \notin lost'
                 PROVE  answer' = wanted[k]
        OBVIOUS
    <2>1. /\ writes' = <<>> /\ (Batch(writes) \/ LoseBatch) /\ answer' = prefs'[k]
          /\ disk' = disk /\ wanted' = wanted
        BY DEF Get, Flush
    <2>2. CASE Batch(writes)
        <3>1. lost' = lost /\ prefs' = Upto(Len(log))
            BY <2>1, <2>2, FlushApplied
        <3> QED BY <3>1, <2>1 DEF IInv, WantedInv
    <2>3. CASE LoseBatch
        <3>1. prefs' = prefs /\ k \notin lost /\ NoWrite(writes, k)
            BY <2>1, <2>3, FlushLost
        <3> QED BY <3>1, <2>1, NotHeldBack
    <2> QED BY <2>1, <2>2, <2>3
<1> QED BY <1>1, InvariantHolds, PTL DEF Spec, ReadYourWrites

-----------------------------------------------------------------------------
(* What the loops of GenericObjectCache keep of a bucket *)

(* f holds, for each beginning of s, those of its elements that are in S. *)
Filters(f, s, S, N) ==
    f = [n \in 0 .. N |-> IF n = 0 THEN <<>>
                          ELSE IF s[n] \in S THEN Append(f[n - 1], s[n]) ELSE f[n - 1]]

(* There is such a function: the first length without one would have one. *)
LEMMA FilterExists ==
  ASSUME NEW s, NEW S, NEW N \in Nat
  PROVE  \E f : Filters(f, s, S, N)
<1> DEFINE Rest(f, n) == IF n = 0 THEN <<>>
                         ELSE IF s[n] \in S THEN Append(f[n - 1], s[n]) ELSE f[n - 1]
           Found(f, N0) == f = [n \in 0 .. N0 |-> Rest(f, n)]
           Bad == {n \in Nat : ~ \E f : Found(f, n)}
<1>1. N \notin Bad => \E f : Found(f, N)
  OBVIOUS
<1>2. ASSUME N \in Bad PROVE FALSE
  <2>1. PICK b \in Bad : \A m \in Bad : b <= m
    <3> HIDE DEF Bad
    <3>1. Bad \in SUBSET Nat
      BY DEF Bad
    <3> QED BY <1>2, <3>1, Least
  <2>2. CASE b = 0
    <3>1. Found([n \in 0 .. 0 |-> <<>>], 0)
      OBVIOUS
    <3> QED BY <2>2, <3>1, <2>1
  <2>3. CASE b # 0
    <3>0. b \in Nat /\ b - 1 \in Nat /\ ~(b <= b - 1)
      BY <2>3
    <3>1. b - 1 \notin Bad
      BY <2>1, <3>0
    <3>2. PICK f : Found(f, b - 1)
      BY <3>0, <3>1
    <3> DEFINE g == [n \in 0 .. b |-> IF n = b THEN Rest(f, b) ELSE f[n]]
    <3>3. \A n \in 0 .. b - 1 : g[n] = f[n]
      BY <3>0
    <3>4. \A n \in 0 .. b : g[n] = Rest(g, n)
      <4> SUFFICES ASSUME NEW n \in 0 .. b PROVE g[n] = Rest(g, n)
        OBVIOUS
      <4>1. n # 0 => n - 1 \in 0 .. b - 1
        BY <3>0
      <4>2. Rest(g, n) = Rest(f, n)
        <5> HIDE DEF g
        <5> QED BY <3>3, <4>1
      <4>3. CASE n = b
        <5>1. g[n] = Rest(f, n)
          <6> HIDE DEF Rest
          <6> QED BY <4>3
        <5> HIDE DEF g, Rest
        <5> QED BY <4>2, <5>1
      <4>4. CASE n # b
        <5>1. n \in 0 .. b - 1
          BY <3>0, <4>4
        <5>2. f[n] = Rest(f, n)
          <6> HIDE DEF Rest
          <6> QED BY <3>2, <5>1
        <5> HIDE DEF g, Rest
        <5> QED BY <3>3, <4>2, <5>1, <5>2
      <4> QED BY <4>3, <4>4
    <3>5. g = [n \in 0 .. b |-> Rest(g, n)]
      <4>1. g = [n \in 0 .. b |-> g[n]]
        OBVIOUS
      <4> HIDE DEF g, Rest
      <4> QED BY <3>4, <4>1
    <3>6. b \notin Bad
      <4> HIDE DEF g, Rest
      <4> QED BY <3>5
    <3> QED BY <2>1, <3>6
  <2> QED BY <2>2, <2>3
<1>3. PICK f : Found(f, N)
  BY <1>1, <1>2
<1>4. Filters(f, s, S, N)
  BY <1>3 DEF Filters
<1> QED BY <1>4

(* What Kept computes, element by element. *)
LEMMA KeptIs ==
  ASSUME NEW T, NEW s \in Seq(T), NEW S
  PROVE  \E f : /\ Kept(s, S) = f[Len(s)] /\ f[0] = <<>>
                /\ \A n \in 1 .. Len(s) :
                      f[n] = IF s[n] \in S THEN Append(f[n - 1], s[n]) ELSE f[n - 1]
<1>1. Len(s) \in Nat
  BY LenProperties
<1>2. \E f : Filters(f, s, S, Len(s))
  BY <1>1, FilterExists
<1> DEFINE G == CHOOSE G : Filters(G, s, S, Len(s))
<1>3. Filters(G, s, S, Len(s))
  BY <1>2
<1>4. Kept(s, S) = G[Len(s)]
  BY DEF Kept, Filters
<1> HIDE DEF G
<1>5. G[0] = <<>>
  BY <1>1, <1>3 DEF Filters
<1>6. ASSUME NEW n \in 1 .. Len(s)
      PROVE  G[n] = IF s[n] \in S THEN Append(G[n - 1], s[n]) ELSE G[n - 1]
  <2>1. n \in 0 .. Len(s) /\ n # 0
    BY <1>1
  <2> QED BY <1>3, <2>1 DEF Filters
<1> QED BY <1>4, <1>5, <1>6

(* What is kept is left of the list, and in the set. *)
LEMMA KeptProperties ==
  ASSUME NEW T, NEW s \in Seq(T), NEW S
  PROVE  /\ Kept(s, S) \in Seq(T) /\ Subsequence(Kept(s, S), s, Len(s))
         /\ ToSet(Kept(s, S)) \subseteq S
<1>1. Len(s) \in Nat
  BY LenProperties
<1>2. PICK f : /\ Kept(s, S) = f[Len(s)] /\ f[0] = <<>>
               /\ \A n \in 1 .. Len(s) :
                     f[n] = IF s[n] \in S THEN Append(f[n - 1], s[n]) ELSE f[n - 1]
  BY KeptIs
<1> DEFINE Right(n) == /\ f[n] \in Seq(T) /\ Subsequence(f[n], s, n)
                       /\ \A m \in 1 .. Len(f[n]) : f[n][m] \in S
           Bad == {n \in 0 .. Len(s) : ~ Right(n)}
<1>3. Right(0)
  <2>1. f[0] \in Seq(T) /\ Len(f[0]) = 0
    BY <1>2, EmptySeq
  <2> QED BY <1>2, <2>1, SubsequenceEmpty
<1>4. ASSUME NEW n \in 1 .. Len(s), Right(n - 1) PROVE Right(n)
  <2>1. f[n] = IF s[n] \in S THEN Append(f[n - 1], s[n]) ELSE f[n - 1]
    BY <1>2
  <2>2. s[n] \in T /\ f[n - 1] \in Seq(T)
    BY <1>1, <1>4, ElementOfSeq
  <2>3. CASE s[n] \in S
    <3>1. f[n] = Append(f[n - 1], s[n])
      BY <2>1, <2>3
    <3>2. /\ f[n] \in Seq(T) /\ Len(f[n - 1]) \in Nat
          /\ Len(f[n]) = Len(f[n - 1]) + 1 /\ f[n][Len(f[n - 1]) + 1] = s[n]
          /\ \A m \in 1 .. Len(f[n - 1]) : f[n][m] = f[n - 1][m]
      BY <2>2, <3>1, AppendPlaces
    <3>3. Subsequence(f[n], s, n)
      BY <1>4, <2>2, <3>1, SubsequenceTake
    <3>4. ASSUME NEW m \in 1 .. Len(f[n]) PROVE f[n][m] \in S
      <4>1. m \in 1 .. Len(f[n - 1]) \/ m = Len(f[n - 1]) + 1
        BY <3>2
      <4> QED BY <1>4, <2>3, <3>2, <4>1
    <3> QED BY <3>2, <3>3, <3>4
  <2>4. CASE s[n] \notin S
    <3>1. f[n] = f[n - 1]
      BY <2>1, <2>4
    <3>2. Subsequence(f[n], s, n)
      BY <1>4, <2>2, <3>1, SubsequenceSkip
    <3> QED BY <1>4, <3>1, <3>2
  <2> QED BY <2>3, <2>4
<1> HIDE DEF Right
<1>5. Bad = {}
  <2> SUFFICES ASSUME Bad # {} PROVE FALSE
    OBVIOUS
  <2>1. PICK b \in Bad : \A m \in Bad : b <= m
    <3> HIDE DEF Bad
    <3>1. Bad \in SUBSET Nat
      BY <1>1 DEF Bad
    <3> QED BY <3>1, Least
  <2>2. b \in 1 .. Len(s)
    BY <1>1, <1>3, <2>1
  <2>3. b - 1 \in 0 .. Len(s) /\ ~(b <= b - 1)
    BY <1>1, <2>2
  <2>4. Right(b - 1)
    BY <2>1, <2>3
  <2> QED BY <1>4, <2>1, <2>2, <2>4
<1>6. Right(Len(s))
  BY <1>1, <1>5
<1>7. /\ Kept(s, S) \in Seq(T) /\ Subsequence(Kept(s, S), s, Len(s))
      /\ \A m \in 1 .. Len(Kept(s, S)) : Kept(s, S)[m] \in S
  BY <1>2, <1>6 DEF Right
<1>8. DOMAIN Kept(s, S) = 1 .. Len(Kept(s, S))
  BY <1>7, LenProperties
<1> QED BY <1>7, <1>8 DEF ToSet

-----------------------------------------------------------------------------
(* The items of a bucket *)

Things == Item \cup {Cleared}

(* No two items that are there have the same key. *)
OneEach(s) ==
    \A i, j \in DOMAIN s :
        s[i] # Cleared /\ s[j] # Cleared /\ s[i].key = s[j].key => i = j

LEMMA ClearedIsNoItem == Cleared \notin Item
BY ObjectCacheAssumption DEF Cleared, Item

LEMMA SubsequenceOneEach ==
  ASSUME NEW s \in Seq(Things), NEW u \in Seq(Things), Subsequence(u, s, Len(s)), OneEach(s)
  PROVE  OneEach(u)
<1>1. /\ DOMAIN u = 1 .. Len(u) /\ DOMAIN s = 1 .. Len(s)
      /\ Len(u) \in Nat /\ Len(s) \in Nat
  BY LenProperties
<1>2. PICK g \in [1 .. Len(u) -> 1 .. Len(s)] :
          /\ \A m \in 1 .. Len(u) : u[m] = s[g[m]]
          /\ \A l, m \in 1 .. Len(u) : l < m => g[l] < g[m]
  BY DEF Subsequence
<1> SUFFICES ASSUME NEW i \in 1 .. Len(u), NEW j \in 1 .. Len(u),
                    u[i] # Cleared, u[j] # Cleared, u[i].key = u[j].key
             PROVE  i = j
  BY <1>1 DEF OneEach
<1>3. g[i] \in 1 .. Len(s) /\ g[j] \in 1 .. Len(s) /\ g[i] = g[j]
  BY <1>1, <1>2 DEF OneEach
<1>4. ~(i < j) /\ ~(j < i)
  BY <1>1, <1>2, <1>3
<1> QED BY <1>1, <1>4

(* Purging keeps good items only. *)
LEMMA PurgedProperties ==
  ASSUME NEW s \in Seq(Things)
  PROVE  /\ Purged(s) \in Seq(Things) /\ Subsequence(Purged(s), s, Len(s))
         /\ \A x \in ToSet(Purged(s)) : x \in Item /\ ~Gone(x) /\ x \in ToSet(s)
<1>1. /\ Purged(s) \in Seq(Things) /\ Subsequence(Purged(s), s, Len(s))
      /\ ToSet(Purged(s)) \subseteq {x \in Item : ~Gone(x)}
  BY KeptProperties DEF Purged
<1> QED BY <1>1, SubsequenceElements

(* Purging up to a place, which leaves the rest. *)
LEMMA PurgedUpToProperties ==
  ASSUME NEW s \in Seq(Things), NEW i \in 1 .. Len(s)
  PROVE  /\ PurgedUpTo(s, i) \in Seq(Things)
         /\ Subsequence(PurgedUpTo(s, i), s, Len(s))
<1> DEFINE t == SubSeq(s, 1, i)
<1>1. Len(s) \in Nat /\ i \in Nat
  BY LenProperties
<1>2. t \in Seq(Things) /\ Len(t) = i /\ \A m \in 1 .. i : t[m] = s[m]
  <2>1. \A m \in 1 .. i : s[m] \in Things
    BY <1>1, ElementOfSeq
  <2>2. /\ t \in Seq(Things)
        /\ Len(t) = IF 1 <= i THEN i - 1 + 1 ELSE 0
        /\ \A m \in 1 .. i - 1 + 1 : t[m] = s[1 + m - 1]
    BY <1>1, <2>1, SubSeqProperties
  <2>3. i - 1 + 1 = i /\ \A m \in 1 .. i : 1 + m - 1 = m
    BY <1>1
  <2> HIDE DEF t
  <2> QED BY <1>1, <2>2, <2>3
<1> HIDE DEF t
<1>3. Purged(t) \in Seq(Things) /\ Subsequence(Purged(t), t, i)
  BY <1>2, PurgedProperties
<1>4. Subsequence(Purged(t), s, i)
  <2>1. PICK g \in [1 .. Len(Purged(t)) -> 1 .. i] :
          /\ \A m \in 1 .. Len(Purged(t)) : Purged(t)[m] = t[g[m]]
          /\ \A l, m \in 1 .. Len(Purged(t)) : l < m => g[l] < g[m]
    BY <1>3 DEF Subsequence
  <2>2. \A m \in 1 .. Len(Purged(t)) : Purged(t)[m] = s[g[m]]
    BY <1>2, <2>1
  <2> QED BY <1>3, <2>1, <2>2 DEF Subsequence
<1>5. i \in 0 .. Len(s)
  BY <1>1
<1> QED BY <1>3, <1>4, <1>5, SubsequenceRest DEF PurgedUpTo, t

(* What hit and store find: a good item with the key, or no such item. *)
LEMMA FindProperties ==
  ASSUME CacheTypeOK, NEW k
  PROVE  /\ Find(k) \in 0 .. Len(bucket)
         /\ Find(k) = 0 => \A x \in ToSet(bucket) : x.key = k => Gone(x)
         /\ Find(k) # 0 => /\ Find(k) \in 1 .. Len(bucket)
                           /\ bucket[Find(k)] \in Item
                           /\ bucket[Find(k)] \in ToSet(bucket)
                           /\ bucket[Find(k)].key = k /\ ~Gone(bucket[Find(k)])
<1> DEFINE hits == {i \in DOMAIN bucket : bucket[i].key = k /\ ~Gone(bucket[i])}
<1>1. /\ DOMAIN bucket = 1 .. Len(bucket) /\ Len(bucket) \in Nat
      /\ \A i \in 1 .. Len(bucket) : bucket[i] \in Things
  BY LenProperties, ElementOfSeq DEF CacheTypeOK, Things
<1>2. CASE hits = {}
  <2>1. Find(k) = 0
    BY <1>2 DEF Find
  <2>2. \A x \in ToSet(bucket) : x.key = k => Gone(x)
    BY <1>2 DEF ToSet
  <2> QED BY <1>1, <2>1, <2>2
<1>3. CASE hits # {}
  <2>1. \E i \in hits : \A j \in hits : i <= j
    <3> HIDE DEF hits
    <3>1. hits \in SUBSET Nat
      BY <1>1 DEF hits
    <3> QED BY <1>3, <3>1, Least
  <2>2. Find(k) = CHOOSE i \in hits : \A j \in hits : i <= j
    BY <1>3 DEF Find
  <2>3. Find(k) \in hits
    <3> HIDE DEF hits
    <3> QED BY <2>1, <2>2
  <2>4. /\ Find(k) \in 1 .. Len(bucket) /\ bucket[Find(k)].key = k
        /\ ~Gone(bucket[Find(k)])
    BY <1>1, <2>3
  <2>5. bucket[Find(k)] \in Item
    BY <1>1, <2>4 DEF Things, Gone
  <2>6. bucket[Find(k)] \in ToSet(bucket) /\ Find(k) # 0
    BY <1>1, <2>4 DEF ToSet
  <2> QED BY <1>1, <2>4, <2>5, <2>6
<1> QED BY <1>2, <1>3

(* A full bucket gives up one item, whichever it is. *)
LEMMA RoomProperties ==
  ASSUME NEW s \in Seq(Things)
  PROVE  /\ Room(s) \in Seq(Things) /\ Subsequence(Room(s), s, Len(s))
         /\ Len(s) <= MaxBucketSize + 1 => Len(Room(s)) <= MaxBucketSize
<1>1. Len(s) \in Nat /\ MaxBucketSize \in Nat /\ MaxBucketSize # 0
  BY LenProperties, ObjectCacheAssumption
<1>2. CASE ~(Len(s) > MaxBucketSize)
  <2>1. Room(s) = s
    BY <1>2 DEF Room
  <2>2. Subsequence(s, s, Len(s))
    <3> DEFINE f == [m \in 1 .. Len(s) |-> m]
    <3>1. f \in [1 .. Len(s) -> 1 .. Len(s)] /\ \A m \in 1 .. Len(s) : f[m] = m
      OBVIOUS
    <3> HIDE DEF f
    <3>2. /\ \A m \in 1 .. Len(s) : s[m] = s[f[m]]
          /\ \A l, m \in 1 .. Len(s) : l < m => f[l] < f[m]
      BY <3>1
    <3> QED BY <1>1, <3>1, <3>2 DEF Subsequence
  <2> QED BY <1>1, <1>2, <2>1, <2>2
<1>3. CASE Len(s) > MaxBucketSize
  <2> DEFINE cleared == {i \in DOMAIN s : s[i] = Cleared}
             r == IF cleared = {} THEN Len(s)
                  ELSE CHOOSE i \in cleared : \A j \in cleared : j <= i
             t == SubSeq(s, 1, r - 1)
  <2>1. r \in 1 .. Len(s)
    <3>1. cleared \in SUBSET (1 .. Len(s))
      BY LenProperties
    <3> HIDE DEF cleared
    <3>2. CASE cleared = {}
      BY <1>1, <1>3, <3>2
    <3>3. CASE cleared # {}
      <4>1. \E i \in cleared : \A j \in cleared : j <= i
        BY <1>1, <3>1, <3>3, Greatest
      <4>2. r = CHOOSE i \in cleared : \A j \in cleared : j <= i
        BY <3>3
      <4>3. r \in cleared
        BY <4>1, <4>2
      <4> QED BY <3>1, <4>3
    <3> QED BY <3>2, <3>3
  <2>2. Room(s) = t \o SubSeq(s, r + 1, Len(s))
    BY <1>3 DEF Room, RemoveAt
  <2> HIDE DEF r
  <2>3. t \in Seq(Things) /\ Len(t) = r - 1 /\ \A m \in 1 .. r - 1 : t[m] = s[m]
    <3>1. \A m \in 1 .. r - 1 : s[m] \in Things
      BY <1>1, <2>1, ElementOfSeq
    <3>2. /\ t \in Seq(Things)
          /\ Len(t) = IF 1 <= r - 1 THEN r - 1 - 1 + 1 ELSE 0
          /\ \A m \in 1 .. r - 1 - 1 + 1 : t[m] = s[1 + m - 1]
      BY <1>1, <2>1, <3>1, SubSeqProperties
    <3>3. r - 1 - 1 + 1 = r - 1 /\ \A m \in 1 .. r - 1 : 1 + m - 1 = m
      BY <1>1, <2>1
    <3> HIDE DEF t
    <3> QED BY <1>1, <2>1, <3>2, <3>3
  <2> HIDE DEF t
  <2>4. Subsequence(t, s, r - 1)
    <3> DEFINE f == [m \in 1 .. r - 1 |-> m]
    <3>1. f \in [1 .. Len(t) -> 1 .. r - 1]
      BY <2>3
    <3>2. \A m \in 1 .. Len(t) : f[m] = m
      BY <2>3
    <3> HIDE DEF f
    <3>3. /\ \A m \in 1 .. Len(t) : t[m] = s[f[m]]
          /\ \A l, m \in 1 .. Len(t) : l < m => f[l] < f[m]
      BY <2>3, <3>2
    <3>4. Len(t) <= r - 1
      BY <1>1, <2>1, <2>3
    <3> QED BY <3>1, <3>3, <3>4 DEF Subsequence
  <2>5. Subsequence(t, s, r)
    BY <2>1, <2>3, <2>4, SubsequenceSkip
  <2>6. Room(s) \in Seq(Things) /\ Subsequence(Room(s), s, Len(s))
    <3>1. r \in 0 .. Len(s)
      BY <1>1, <2>1
    <3> QED BY <2>2, <2>3, <2>5, <3>1, SubsequenceRest
  <2>7. Len(Room(s)) = Len(s) - 1
    <3> DEFINE w == SubSeq(s, r + 1, Len(s))
    <3>1. \A m \in r + 1 .. Len(s) : s[m] \in Things
      BY <1>1, <2>1, ElementOfSeq
    <3>2. /\ w \in Seq(Things)
          /\ Len(w) = IF r + 1 <= Len(s) THEN Len(s) - (r + 1) + 1 ELSE 0
      BY <1>1, <2>1, <3>1, SubSeqProperties
    <3> HIDE DEF w
    <3>3. Len(w) = Len(s) - r
      BY <1>1, <2>1, <3>2
    <3>4. Len(t \o w) = Len(t) + Len(w)
      BY <2>3, <3>2, ConcatProperties
    <3>5. Room(s) = t \o w
      BY <2>2 DEF w
    <3>6. (r - 1) + (Len(s) - r) = Len(s) - 1
      BY <1>1, <2>1
    <3>7. Len(t) + Len(w) = Len(s) - 1
      BY <2>3, <3>3, <3>6
    <3> QED BY <3>4, <3>5, <3>7
  <2> QED BY <1>1, <2>6, <2>7
<1> QED BY <1>2, <1>3

(* The collector takes items and leaves places. *)
LEMMA CollectedProperties ==
  ASSUME NEW s \in Seq(Things), NEW u \in Collected(s)
  PROVE  /\ u \in Seq(Things) /\ Len(u) = Len(s)
         /\ ToSet(u) \subseteq ToSet(s) \cup {Cleared}
         /\ OneEach(s) => OneEach(u)
<1>1. Len(s) \in Nat /\ DOMAIN s = 1 .. Len(s) /\ \A i \in 1 .. Len(s) : s[i] \in Things
  BY LenProperties, ElementOfSeq
<1>2. PICK C \in SUBSET DOMAIN s : u = [i \in DOMAIN s |-> IF i \in C THEN Cleared ELSE s[i]]
  BY DEF Collected
<1>3. u \in [1 .. Len(s) -> Things]
  BY <1>1, <1>2 DEF Things
<1>4. u \in Seq(Things) /\ DOMAIN u = 1 .. Len(s) /\ Len(u) = Len(s)
  BY <1>1, <1>3
<1>5. \A i \in 1 .. Len(s) : u[i] = Cleared \/ u[i] = s[i]
  BY <1>1, <1>2
<1> QED BY <1>1, <1>4, <1>5 DEF ToSet, OneEach

(* store freshens the item of its key where it is, or appends it when the purge
   has left none. *)
LEMMA StoreProperties ==
  ASSUME CacheTypeOK, OneItemPerKey, NEW k \in CacheKeys, NEW v \in CacheValues,
         NEW e \in Times, Store(k, v, e)
  PROVE  /\ bucket' \in Seq(Things) /\ Len(bucket') <= MaxBucketSize + 1
         /\ OneEach(bucket')
         /\ ToSet(bucket') \subseteq
               ToSet(bucket) \cup {Cleared, [key |-> k, value |-> v, expires |-> e]}
<1> DEFINE item == [key |-> k, value |-> v, expires |-> e]
           i == Find(k)
<1>1. bucket \in Seq(Things) /\ OneEach(bucket) /\ Len(bucket) <= MaxBucketSize + 1
  BY DEF CacheTypeOK, Things, OneItemPerKey, OneEach
<1>2. item \in Item /\ item \in Things /\ item.key = k
  BY DEF Item, Things
<1>3. Len(bucket) \in Nat /\ DOMAIN bucket = 1 .. Len(bucket) /\ MaxBucketSize \in Nat
  BY <1>1, LenProperties, ObjectCacheAssumption
<1>4. /\ i \in 0 .. Len(bucket)
      /\ i = 0 => \A x \in ToSet(bucket) : x.key = k => Gone(x)
      /\ i # 0 => /\ i \in 1 .. Len(bucket)
                  /\ bucket[i] \in Item
                  /\ bucket[i] \in ToSet(bucket)
                  /\ bucket[i].key = k /\ ~Gone(bucket[i])
  BY FindProperties
<1>5. IF i # 0 THEN bucket' = PurgedUpTo([bucket EXCEPT ![i] = Freshen(bucket[i], item)], i)
      ELSE \E s \in Collected(Purged(bucket)) : bucket' = Append(Room(s), item)
  BY DEF Store
<1> HIDE DEF item, i
<1>6. CASE i # 0
  <2> DEFINE fresh == Freshen(bucket[i], item)
             t == [bucket EXCEPT ![i] = fresh]
  <2>1. fresh \in {bucket[i], item} /\ fresh \in Things /\ fresh.key = k /\ bucket[i] # Cleared
    BY <1>2, <1>4, <1>6, ClearedIsNoItem DEF Freshen, Things
  <2> HIDE DEF fresh
  <2>2. /\ t \in Seq(Things) /\ Len(t) = Len(bucket)
        /\ \A j \in 1 .. Len(bucket) : t[j] = IF j = i THEN fresh ELSE bucket[j]
    BY <1>1, <1>4, <1>6, <2>1, ExceptSeq
  <2>3. bucket' = PurgedUpTo(t, i)
    BY <1>5, <1>6 DEF fresh
  <2> HIDE DEF t
  <2>4. DOMAIN t = 1 .. Len(bucket)
    BY <2>2, LenProperties
  <2>5. OneEach(t)
    <3>1. \A j \in 1 .. Len(bucket) : t[j] # Cleared => bucket[j] # Cleared
      BY <2>1, <2>2
    <3>2. \A j \in 1 .. Len(bucket) : t[j].key = bucket[j].key
      BY <1>4, <1>6, <2>1, <2>2
    <3> QED BY <1>1, <1>3, <2>4, <3>1, <3>2 DEF OneEach
  <2>6. ToSet(t) \subseteq ToSet(bucket) \cup {item}
    <3>1. \A j \in 1 .. Len(bucket) : t[j] \in {bucket[j], item}
      BY <2>1, <2>2
    <3> QED BY <1>3, <2>4, <3>1 DEF ToSet
  <2>7. bucket' \in Seq(Things) /\ Subsequence(bucket', t, Len(t))
    BY <1>4, <1>6, <2>2, <2>3, PurgedUpToProperties
  <2>8. ToSet(bucket') \subseteq ToSet(t)
    BY <2>2, <2>7, SubsequenceElements
  <2>9. OneEach(bucket')
    BY <2>2, <2>5, <2>7, SubsequenceOneEach
  <2>10. Len(bucket') <= MaxBucketSize + 1
    <3>1. Len(bucket') <= Len(bucket) /\ Len(bucket') \in Nat
      BY <2>2, <2>7, LenProperties DEF Subsequence
    <3> QED BY <1>1, <1>3, <3>1
  <2> QED BY <2>6, <2>7, <2>8, <2>9, <2>10 DEF item
<1>7. CASE i = 0
  <2> DEFINE p == Purged(bucket)
  <2>1. /\ p \in Seq(Things) /\ Subsequence(p, bucket, Len(bucket))
        /\ \A x \in ToSet(p) : x \in Item /\ ~Gone(x) /\ x \in ToSet(bucket)
    BY <1>1, PurgedProperties
  <2>2. PICK s \in Collected(p) : bucket' = Append(Room(s), item)
    BY <1>5, <1>7
  <2> HIDE DEF p
  <2>3. OneEach(p) /\ Len(p) <= MaxBucketSize + 1 /\ \A x \in ToSet(p) : x.key # k
    <3>1. OneEach(p)
      BY <1>1, <2>1, SubsequenceOneEach
    <3>2. Len(p) <= MaxBucketSize + 1
      <4>1. Len(p) <= Len(bucket) /\ Len(p) \in Nat
        BY <2>1, LenProperties DEF Subsequence
      <4> QED BY <1>1, <1>3, <4>1
    <3>3. \A x \in ToSet(p) : x.key # k
      BY <1>4, <1>7, <2>1
    <3> QED BY <3>1, <3>2, <3>3
  <2>4. /\ s \in Seq(Things) /\ Len(s) = Len(p) /\ OneEach(s)
        /\ ToSet(s) \subseteq ToSet(p) \cup {Cleared}
    BY <2>1, <2>3, CollectedProperties
  <2> DEFINE r == Room(s)
  <2>5. /\ r \in Seq(Things) /\ Subsequence(r, s, Len(s)) /\ Len(r) <= MaxBucketSize
    BY <2>3, <2>4, RoomProperties
  <2> HIDE DEF r
  <2>6. OneEach(r) /\ ToSet(r) \subseteq ToSet(p) \cup {Cleared}
    <3>1. OneEach(r)
      BY <2>4, <2>5, SubsequenceOneEach
    <3>2. ToSet(r) \subseteq ToSet(s)
      BY <2>4, <2>5, SubsequenceElements
    <3> QED BY <2>4, <3>1, <3>2
  <2>7. /\ bucket' \in Seq(Things) /\ Len(r) \in Nat /\ Len(bucket') = Len(r) + 1
        /\ DOMAIN r = 1 .. Len(r) /\ DOMAIN bucket' = 1 .. Len(r) + 1
        /\ \A j \in 1 .. Len(r) : bucket'[j] = r[j]
        /\ bucket'[Len(r) + 1] = item
    BY <1>2, <2>2, <2>5, AppendPlaces DEF r
  <2>8. ToSet(bucket') = ToSet(r) \cup {item}
    BY <1>2, <2>2, <2>5, ToSetAppend DEF r
  <2>9. OneEach(bucket')
    <3> SUFFICES ASSUME NEW j \in 1 .. Len(r) + 1, NEW l \in 1 .. Len(r) + 1,
                        bucket'[j] # Cleared, bucket'[l] # Cleared,
                        bucket'[j].key = bucket'[l].key
                 PROVE  j = l
      BY <2>7 DEF OneEach
    <3>1. \A m \in 1 .. Len(r) : bucket'[m] # Cleared => bucket'[m].key # k
      BY <2>3, <2>6, <2>7 DEF ToSet
    <3>2. \A m \in 1 .. Len(r) + 1 : m \in 1 .. Len(r) \/ m = Len(r) + 1
      BY <2>7
    <3>3. CASE j \in 1 .. Len(r) /\ l \in 1 .. Len(r)
      BY <2>6, <2>7, <3>3 DEF OneEach
    <3>4. CASE ~(j \in 1 .. Len(r) /\ l \in 1 .. Len(r))
      BY <1>2, <2>7, <3>1, <3>2, <3>4
    <3> QED BY <3>3, <3>4
  <2>10. Len(bucket') <= MaxBucketSize + 1
    BY <1>3, <2>5, <2>7
  <2>11. ToSet(bucket') \subseteq ToSet(bucket) \cup {Cleared, item}
    <3>1. ToSet(p) \subseteq ToSet(bucket)
      BY <2>1
    <3> QED BY <2>6, <2>8, <3>1
  <2> QED BY <2>7, <2>9, <2>10, <2>11 DEF item
<1> QED BY <1>6, <1>7

-----------------------------------------------------------------------------
(* What every operation of the cache keeps *)

CacheInv == CacheTypeOK /\ OneItemPerKey /\ StoredInv

(* It is enough to look at the new bucket and at what is remembered. *)
LEMMA CacheStays ==
  ASSUME CacheInv, bucket' \in Seq(Things), Len(bucket') <= MaxBucketSize + 1,
         OneEach(bucket'), now' = now, stored' \subseteq Item,
         \A x \in stored' : x.expires > now,
         \A x \in ToSet(bucket') : Gone(x) \/ x \in stored'
  PROVE  CacheInv'
<1>1. CacheTypeOK'
  BY DEF CacheInv, CacheTypeOK, Things
<1>2. OneItemPerKey'
  BY DEF OneItemPerKey, OneEach
<1>3. StoredInv'
  BY DEF StoredInv, Gone
<1> QED BY <1>1, <1>2, <1>3 DEF CacheInv

LEMMA StoreStep ==
  ASSUME CacheInv, NEW k \in CacheKeys, NEW v \in CacheValues, NEW e \in Times, Store(k, v, e)
  PROVE  /\ CacheInv'
         /\ ToSet(bucket') \subseteq
               ToSet(bucket) \cup {Cleared, [key |-> k, value |-> v, expires |-> e]}
<1> DEFINE item == [key |-> k, value |-> v, expires |-> e]
<1>1. /\ bucket' \in Seq(Things) /\ Len(bucket') <= MaxBucketSize + 1
      /\ OneEach(bucket') /\ ToSet(bucket') \subseteq ToSet(bucket) \cup {Cleared, item}
  BY StoreProperties DEF CacheInv
<1>2. now' = now /\ stored' = IF Gone(item) THEN stored ELSE stored \cup {item}
  BY DEF Store, Remember
<1>3. /\ item \in Item /\ item.expires \in Nat /\ now \in Nat /\ stored \subseteq Item
      /\ item # Cleared
  BY ClearedIsNoItem, ObjectCacheAssumption DEF Item, CacheInv, CacheTypeOK
<1> HIDE DEF item
<1>4. ~Gone(item) => item.expires > now
  BY <1>3 DEF Gone
<1>5. Gone(Cleared)
  BY DEF Gone
<1>6. \A x \in stored' : x.expires > now
  BY <1>2, <1>4 DEF CacheInv, StoredInv
<1>7. \A x \in ToSet(bucket') : Gone(x) \/ x \in stored'
  BY <1>1, <1>2, <1>5 DEF CacheInv, StoredInv
<1>8. CacheInv'
  BY <1>1, <1>2, <1>3, <1>6, <1>7, CacheStays
<1> QED BY <1>1, <1>8 DEF item

(* Operations that remove items, or find one. *)
LEMMA RemovingStep ==
  ASSUME CacheInv,
         \/ \E k \in CacheKeys : Hit(k) \/ ClearKey(k)
         \/ Clear \/ Collect \/ Tick
  PROVE  CacheInv' /\ ToSet(bucket') \subseteq ToSet(bucket) \cup {Cleared}
<1>1. /\ bucket \in Seq(Things) /\ OneEach(bucket) /\ Len(bucket) <= MaxBucketSize + 1
      /\ Len(bucket) \in Nat /\ MaxBucketSize \in Nat /\ now \in Nat /\ stored \subseteq Item
      /\ \A x \in stored : x.expires > now
      /\ \A x \in ToSet(bucket) : Gone(x) \/ x \in stored
  BY LenProperties, ObjectCacheAssumption
     DEF CacheInv, CacheTypeOK, Things, OneItemPerKey, OneEach, StoredInv
<1>2. ASSUME NEW u \in Seq(Things), Subsequence(u, bucket, Len(bucket)), bucket' = u
      PROVE  /\ bucket' \in Seq(Things) /\ OneEach(bucket')
             /\ Len(bucket') <= MaxBucketSize + 1
             /\ ToSet(bucket') \subseteq ToSet(bucket)
  <2>1. Len(u) <= Len(bucket) /\ Len(u) \in Nat
    BY <1>2, LenProperties DEF Subsequence
  <2>2. OneEach(u) /\ ToSet(u) \subseteq ToSet(bucket)
    BY <1>1, <1>2, SubsequenceOneEach, SubsequenceElements
  <2> QED BY <1>1, <1>2, <2>1, <2>2
<1>3. ASSUME NEW k \in CacheKeys, Hit(k)
      PROVE  CacheInv' /\ ToSet(bucket') \subseteq ToSet(bucket)
  <2>1. now' = now /\ stored' = stored
    BY <1>3 DEF Hit
  <2>2. /\ bucket' \in Seq(Things) /\ Subsequence(bucket', bucket, Len(bucket))
    <3>1. CASE Find(k) = 0
      BY <1>1, <1>3, <3>1, PurgedProperties DEF Hit
    <3>2. CASE Find(k) # 0
      <4>1. Find(k) \in 1 .. Len(bucket)
        BY <3>2, FindProperties DEF CacheInv
      <4> QED BY <1>1, <1>3, <3>2, <4>1, PurgedUpToProperties DEF Hit
    <3> QED BY <3>1, <3>2
  <2> QED BY <1>1, <1>2, <2>1, <2>2, CacheStays
<1>4. ASSUME NEW k \in CacheKeys, ClearKey(k)
      PROVE  CacheInv' /\ ToSet(bucket') \subseteq ToSet(bucket)
  <2>1. /\ now' = now /\ stored' = {s \in stored : s.key # k}
        /\ bucket' = Kept(bucket, {x \in Item : x.key # k})
    BY <1>4 DEF ClearKey
  <2>2. /\ bucket' \in Seq(Things) /\ Subsequence(bucket', bucket, Len(bucket))
        /\ \A x \in ToSet(bucket') : x.key # k
    BY <1>1, <2>1, KeptProperties
  <2> QED BY <1>1, <1>2, <2>1, <2>2, CacheStays
<1>5. ASSUME Clear PROVE CacheInv' /\ ToSet(bucket') = {}
  <2>1. bucket' = <<>> /\ now' = now /\ stored' = {}
    BY <1>5 DEF Clear
  <2>2. /\ bucket' \in Seq(Things) /\ Len(bucket') = 0 /\ DOMAIN bucket' = {}
        /\ ToSet(bucket') = {}
    BY <2>1, EmptySeq, EmptyList
  <2> QED BY <1>1, <2>1, <2>2, CacheStays DEF OneEach
<1>6. ASSUME Collect PROVE CacheInv' /\ ToSet(bucket') \subseteq ToSet(bucket) \cup {Cleared}
  <2>1. bucket' \in Collected(bucket) /\ now' = now /\ stored' = stored
    BY <1>6 DEF Collect
  <2>2. /\ bucket' \in Seq(Things) /\ Len(bucket') = Len(bucket) /\ OneEach(bucket')
        /\ ToSet(bucket') \subseteq ToSet(bucket) \cup {Cleared}
    BY <1>1, <2>1, CollectedProperties
  <2>3. Gone(Cleared)
    BY DEF Gone
  <2> QED BY <1>1, <2>1, <2>2, <2>3, CacheStays
<1>7. ASSUME Tick PROVE CacheInv' /\ ToSet(bucket') = ToSet(bucket)
  <2>1. bucket' = bucket /\ now' = now + 1 /\ stored' = {x \in stored : x.expires > now'}
    BY <1>7 DEF Tick
  <2>2. CacheTypeOK' /\ OneItemPerKey'
    BY <1>1, <2>1 DEF CacheInv, CacheTypeOK, OneItemPerKey
  <2>3. \A x \in stored : x.expires \in Nat
    BY <1>1, ObjectCacheAssumption DEF Item
  <2>4. ASSUME NEW x \in ToSet(bucket) PROVE Gone(x)' \/ x \in stored'
    <3>1. CASE x \in stored
      BY <1>1, <2>1, <2>3, <3>1 DEF Gone
    <3>2. CASE Gone(x) /\ x # Cleared
      <4>1. x \in Item
        BY <1>1, <3>2, LenProperties, ElementOfSeq DEF ToSet, Things
      <4>2. x.expires \in Nat
        BY <4>1, ObjectCacheAssumption DEF Item
      <4> QED BY <1>1, <2>1, <3>2, <4>2 DEF Gone
    <3>3. CASE x = Cleared
      BY <3>3 DEF Gone
    <3> QED BY <1>1, <3>1, <3>2, <3>3
  <2>5. StoredInv'
    BY <2>1, <2>4 DEF StoredInv
  <2> QED BY <2>1, <2>2, <2>5 DEF CacheInv
<1> QED BY <1>3, <1>4, <1>5, <1>6, <1>7

LEMMA InitCacheInv == CacheInit => CacheInv
<1> SUFFICES ASSUME CacheInit PROVE CacheInv
  OBVIOUS
<1>1. /\ bucket = <<>> /\ now = 1 /\ stored = {}
      /\ <<>> \in Seq(Item \cup {Cleared}) /\ Len(<<>>) = 0 /\ DOMAIN <<>> = {}
      /\ ToSet(<<>>) = {} /\ MaxBucketSize \in Nat
  BY EmptySeq, EmptyList, ObjectCacheAssumption DEF CacheInit
<1>2. CacheTypeOK
  BY <1>1 DEF CacheTypeOK
<1>3. OneItemPerKey /\ StoredInv
  BY <1>1 DEF OneItemPerKey, StoredInv
<1> QED BY <1>2, <1>3 DEF CacheInv

LEMMA NextCacheInv == CacheInv /\ [CacheNext]_cacheVars => CacheInv'
<1> SUFFICES ASSUME CacheInv, [CacheNext]_cacheVars PROVE CacheInv'
  OBVIOUS
<1>1. CASE UNCHANGED cacheVars
  BY <1>1 DEF cacheVars, CacheInv, CacheTypeOK, OneItemPerKey, StoredInv, Gone
<1>2. ASSUME NEW k \in CacheKeys, NEW v \in CacheValues, NEW e \in Times, Store(k, v, e)
      PROVE  CacheInv'
  BY <1>2, StoreStep
<1>3. CASE (\E k \in CacheKeys : Hit(k) \/ ClearKey(k)) \/ Clear \/ Collect \/ Tick
  BY <1>3, RemovingStep
<1> QED BY <1>1, <1>2, <1>3 DEF CacheNext

LEMMA HitsAreGood == CacheInv => HitIsGood
<1> SUFFICES ASSUME CacheInv, NEW k \in CacheKeys, HitValue(k) # None
             PROVE  \E x \in stored : x.key = k /\ x.value = HitValue(k) /\ x.expires > now
  BY DEF HitIsGood
<1>1. Find(k) # 0 /\ HitValue(k) = bucket[Find(k)].value
  BY DEF HitValue
<1>2. /\ bucket[Find(k)] \in ToSet(bucket) /\ bucket[Find(k)].key = k
      /\ ~Gone(bucket[Find(k)])
  BY <1>1, FindProperties DEF CacheInv
<1>3. bucket[Find(k)] \in stored /\ bucket[Find(k)].expires > now
  BY <1>2 DEF CacheInv, StoredInv
<1> QED BY <1>1, <1>2, <1>3

(* For any size of a bucket and any stores, clears, expiry and collections:
   a key has one item at most, and a hit returns what was stored under its key
   and has not expired. *)
THEOREM CacheIsRight == CacheSpec => [](OneItemPerKey /\ HitIsGood)
<1>1. CacheInv => OneItemPerKey /\ HitIsGood
  BY HitsAreGood DEF CacheInv
<1> QED BY <1>1, InitCacheInv, NextCacheInv, PTL DEF CacheSpec

-----------------------------------------------------------------------------
(* The tasks that load icons *)

(* A task that is not idle is one for a view and a url. *)
LEMMA BusyTask ==
  ASSUME LoadInv, NEW t \in Tasks, task[t].view # None
  PROVE  /\ task[t].view \in Views /\ task[t].url \in CacheKeys
         /\ task[t].image \in Drawable[task[t].url] \cup {Pending, Broken}
         /\ Drawable[task[t].url] \subseteq CacheValues
<1>1. task[t] \in [view : Views \cup {None}, url : CacheKeys \cup {None},
                   image : CacheValues \cup {None, Pending, Broken}]
  BY DEF LoadInv, LTypeOK
<1>2. task[t].url \in CacheKeys
  BY DEF LoadInv, TaskInv
<1> QED BY <1>1, <1>2, LoadImageAssumption DEF LoadInv, TaskInv

LEMMA PendingTask ==
  ASSUME LoadInv, NEW t \in Tasks, task[t].image = Pending \/ Done(t)
  PROVE  task[t].view # None
BY LoadImageAssumption DEF LoadInv, TaskInv, Idle, Done

(* What is shown of a hit is an icon of the url. *)
LEMMA HitIsIcon ==
  ASSUME LoadInv, NEW u \in CacheKeys, HitValue(u) # None
  PROVE  HitValue(u) \in Drawable[u] /\ Drawable[u] \subseteq CacheValues
<1>1. Find(u) # 0 /\ HitValue(u) = bucket[Find(u)].value
  BY DEF HitValue
<1>2. /\ bucket[Find(u)] \in ToSet(bucket) /\ bucket[Find(u)].key = u
      /\ ~Gone(bucket[Find(u)])
  BY <1>1, FindProperties DEF LoadInv, LTypeOK
<1> QED BY <1>1, <1>2, LoadImageAssumption DEF LoadInv, IconsInv, Gone

(* What a step of the cache leaves of what is known of icons. *)
LEMMA IconsStay ==
  ASSUME LoadInv, NEW new, ToSet(bucket') \subseteq ToSet(bucket) \cup {Cleared, new},
         new.value \in Drawable[new.key]
  PROVE  IconsInv'
BY DEF LoadInv, IconsInv

LEMMA CacheOfLoad == LoadInv => CacheInv
BY DEF LoadInv, LTypeOK, CacheInv

(* The cache as load leaves it, hit or missed. *)
LEMMA HitStep ==
  ASSUME LoadInv, NEW u \in CacheKeys, Hit(u)
  PROVE  CacheInv' /\ IconsInv'
<1>1. CacheInv' /\ ToSet(bucket') \subseteq ToSet(bucket) \cup {Cleared}
  BY RemovingStep, CacheOfLoad
<1> QED BY <1>1 DEF LoadInv, IconsInv

LEMMA LoadHitStep ==
  ASSUME LoadInv, NEW w \in Views, NEW u \in CacheKeys, LoadHit(w, u)
  PROVE  LoadInv'
<1> USE DEF LoadInv
<1>1. /\ HitValue(u) \notin {None, Undecodable} /\ Hit(u)
      /\ shows' = [shows EXCEPT ![w] = HitValue(u)]
      /\ wants' = [wants EXCEPT ![w] = u]
      /\ overtaken' = IF TasksOf(w) = {} THEN overtaken \ {w} ELSE overtaken \cup {w}
      /\ task' = task
  BY DEF LoadHit
<1>2. CacheInv' /\ IconsInv'
  BY <1>1, HitStep
<1>3. HitValue(u) \in Drawable[u] /\ Drawable[u] \subseteq CacheValues
  BY <1>1, HitIsIcon
<1>4. /\ shows \in [Views -> (CacheValues \ {Undecodable}) \cup {NoImage, Broken}]
      /\ wants \in [Views -> CacheKeys \cup {None}] /\ overtaken \subseteq Views
  BY DEF LTypeOK
<1> DEFINE value == HitValue(u)
<1> HIDE DEF value
<1>5. /\ \A x \in Views : x # w => shows'[x] = shows[x] /\ wants'[x] = wants[x]
      /\ shows'[w] = value /\ wants'[w] = u
      /\ value \in (CacheValues \ {Undecodable}) /\ value \in Drawable[u] \ {Undecodable}
      /\ shows' \in [Views -> (CacheValues \ {Undecodable}) \cup {NoImage, Broken}]
      /\ wants' \in [Views -> CacheKeys \cup {None}] /\ overtaken' \subseteq Views
  BY <1>1, <1>3, <1>4 DEF value
<1>6. LTypeOK'
  BY <1>1, <1>2, <1>5 DEF LTypeOK, CacheInv
<1>7. TaskInv' /\ \A x \in Views : TasksOf(x)' = TasksOf(x)
  BY <1>1 DEF TaskInv, TasksOf
<1>8. ViewInv'
  <2> SUFFICES ASSUME NEW t \in Tasks, task[t].view \in Views \ overtaken'
               PROVE  /\ task[t].url = wants'[task[t].view]
                      /\ TasksOf(task[t].view) = {t}
    BY <1>1, <1>7 DEF ViewInv
  <2>1. task[t].view # w
    <3>1. task[t].view = w => t \in TasksOf(w)
      BY DEF TasksOf
    <3> QED BY <1>1, <3>1
  <2>2. task[t].view \in Views \ overtaken
    BY <1>1, <2>1
  <2> QED BY <1>5, <2>1, <2>2 DEF ViewInv
<1>9. ShowsWanted'
  <2> SUFFICES ASSUME NEW x \in Views, wants'[x] # None, TasksOf(x) = {}, x \notin overtaken'
               PROVE  shows'[x] \in (Drawable[wants'[x]] \ {Undecodable}) \cup {Broken}
    BY <1>7 DEF ShowsWanted
  <2>1. CASE x = w
    BY <1>5, <2>1
  <2>2. CASE x # w
    BY <1>1, <1>5, <2>2 DEF ShowsWanted
  <2> QED BY <2>1, <2>2
<1> QED BY <1>2, <1>6, <1>7, <1>8, <1>9 DEF CacheInv

LEMMA LoadMissStep ==
  ASSUME LoadInv, NEW w \in Views, NEW u \in CacheKeys, NEW t \in Tasks, LoadMiss(w, u, t)
  PROVE  LoadInv'
<1> USE DEF LoadInv
<1> DEFINE new == [view |-> w, url |-> u, image |-> Pending]
<1>1. /\ Hit(u) /\ task[t] = Idle /\ task' = [task EXCEPT ![t] = new]
      /\ wants' = [wants EXCEPT ![w] = u]
      /\ overtaken' = IF TasksOf(w) = {} THEN overtaken \ {w} ELSE overtaken \cup {w}
      /\ shows' = shows
  BY DEF LoadMiss
<1>2. CacheInv' /\ IconsInv'
  BY <1>1, HitStep
<1>3. new.view = w /\ new.url = u /\ new.image = Pending /\ w # None
  BY LoadImageAssumption
<1>4. /\ wants \in [Views -> CacheKeys \cup {None}] /\ overtaken \subseteq Views
      /\ task \in [Tasks -> [view : Views \cup {None}, url : CacheKeys \cup {None},
                             image : CacheValues \cup {None, Pending, Broken}]]
      /\ new \in [view : Views \cup {None}, url : CacheKeys \cup {None},
                  image : CacheValues \cup {None, Pending, Broken}]
  BY DEF LTypeOK
<1> HIDE DEF new
<1>5. /\ \A x \in Views : x # w => wants'[x] = wants[x]
      /\ wants'[w] = u
      /\ \A s \in Tasks : s # t => task'[s] = task[s]
      /\ task'[t] = new
  BY <1>1, <1>4
<1>6. LTypeOK'
  <2>1. task' \in [Tasks -> [view : Views \cup {None}, url : CacheKeys \cup {None},
                             image : CacheValues \cup {None, Pending, Broken}]]
    BY <1>1, <1>4
  <2>2. wants' \in [Views -> CacheKeys \cup {None}] /\ overtaken' \subseteq Views
    BY <1>1, <1>4
  <2> QED BY <1>1, <1>2, <2>1, <2>2 DEF LTypeOK, CacheInv
<1>7. TaskInv'
  BY <1>3, <1>5 DEF TaskInv
<1>8. /\ TasksOf(w)' = TasksOf(w) \cup {t}
      /\ \A x \in Views : x # w => TasksOf(x)' = TasksOf(x)
  <2>1. \A x \in Views : t \notin TasksOf(x)
    BY <1>1, LoadImageAssumption DEF TasksOf, Idle
  <2> QED BY <1>3, <1>5, <2>1 DEF TasksOf
<1>9. ViewInv'
  <2> SUFFICES ASSUME NEW s \in Tasks, task'[s].view \in Views \ overtaken'
               PROVE  /\ task'[s].url = wants'[task'[s].view]
                      /\ {r \in Tasks : task'[r].view = task'[s].view} = {s}
    BY DEF ViewInv, TasksOf
  <2>1. CASE task'[s].view = w
    <3>1. TasksOf(w) = {}
      BY <1>1, <2>1
    <3>2. s \in TasksOf(w)' /\ TasksOf(w)' = {t}
      BY <1>8, <2>1, <3>1 DEF TasksOf
    <3>3. s = t
      BY <3>2
    <3> QED BY <1>3, <1>5, <2>1, <3>2, <3>3 DEF TasksOf
  <2>2. CASE task'[s].view # w
    <3>1. s # t /\ task'[s] = task[s]
      BY <1>3, <1>5, <2>2
    <3>2. task[s].view \in Views \ overtaken
      BY <1>1, <2>2, <3>1
    <3>3. TasksOf(task[s].view) = {s} /\ task[s].url = wants[task[s].view]
      BY <3>2 DEF ViewInv
    <3> QED BY <1>5, <1>8, <2>2, <3>1, <3>2, <3>3 DEF TasksOf
  <2> QED BY <2>1, <2>2
<1>10. ShowsWanted'
  <2> SUFFICES ASSUME NEW x \in Views, wants'[x] # None, TasksOf(x)' = {}, x \notin overtaken'
               PROVE  shows'[x] \in (Drawable[wants'[x]] \ {Undecodable}) \cup {Broken}
    BY DEF ShowsWanted
  <2>1. x # w
    BY <1>8
  <2> QED BY <1>1, <1>5, <1>8, <2>1 DEF ShowsWanted
<1> QED BY <1>2, <1>6, <1>7, <1>9, <1>10 DEF CacheInv

(* A task ends: it has an image of its url, or none. *)
LEMMA TaskEnds ==
  ASSUME LoadInv, NEW t \in Tasks, task[t].image = Pending,
         NEW d \in Drawable[task[t].url] \cup {Broken},
         task' = [task EXCEPT ![t].image = d], UNCHANGED <<shows, wants, overtaken>>,
         CacheInv', IconsInv'
  PROVE  LoadInv'
<1> USE DEF LoadInv
<1>1. /\ task[t].view # None /\ task[t].view \in Views /\ task[t].url \in CacheKeys
      /\ Drawable[task[t].url] \subseteq CacheValues
  BY PendingTask, BusyTask
<1>2. task \in [Tasks -> [view : Views \cup {None}, url : CacheKeys \cup {None},
                          image : CacheValues \cup {None, Pending, Broken}]]
  BY DEF LTypeOK
<1>3. /\ \A s \in Tasks : s # t => task'[s] = task[s]
      /\ task'[t].view = task[t].view /\ task'[t].url = task[t].url /\ task'[t].image = d
      /\ task' \in [Tasks -> [view : Views \cup {None}, url : CacheKeys \cup {None},
                              image : CacheValues \cup {None, Pending, Broken}]]
  BY <1>1, <1>2
<1>4. LTypeOK'
  BY <1>3 DEF LTypeOK, CacheInv
<1>5. TaskInv'
  BY <1>1, <1>3 DEF TaskInv
<1>6. \A s \in Tasks : task'[s].view = task[s].view /\ task'[s].url = task[s].url
  BY <1>3
<1>7. \A x : TasksOf(x)' = TasksOf(x)
  BY <1>6 DEF TasksOf
<1>8. ViewInv' /\ ShowsWanted'
  BY <1>6, <1>7 DEF ViewInv, ShowsWanted
<1> QED BY <1>4, <1>5, <1>8 DEF CacheInv

LEMMA FetchedStep ==
  ASSUME LoadInv, NEW t \in Tasks, Fetched(t)
  PROVE  LoadInv'
<1>1. PICK d \in Drawable[task[t].url] :
         Store(task[t].url, d, Expiry) /\ task' = [task EXCEPT ![t].image = d]
  BY DEF Fetched
<1>2. task[t].image = Pending /\ UNCHANGED <<shows, wants, overtaken>>
  BY DEF Fetched
<1>3. task[t].url \in CacheKeys /\ d \in CacheValues /\ Expiry \in Times
  BY <1>1, <1>2, PendingTask, BusyTask, LoadImageAssumption
<1> DEFINE item == [key |-> task[t].url, value |-> d, expires |-> Expiry]
<1>4. CacheInv' /\ ToSet(bucket') \subseteq ToSet(bucket) \cup {Cleared, item}
  BY <1>1, <1>3, StoreStep, CacheOfLoad
<1>5. item.value \in Drawable[item.key]
  BY <1>1
<1>6. IconsInv'
  <2> HIDE DEF item
  <2> QED BY <1>4, <1>5, IconsStay
<1> QED BY <1>1, <1>2, <1>4, <1>6, TaskEnds

LEMMA FetchFailedStep ==
  ASSUME LoadInv, NEW t \in Tasks, FetchFailed(t)
  PROVE  LoadInv'
<1>1. /\ task[t].image = Pending /\ task' = [task EXCEPT ![t].image = Broken]
      /\ UNCHANGED <<bucket, now, stored>> /\ UNCHANGED <<shows, wants, overtaken>>
  BY DEF FetchFailed, cacheVars
<1>2. CacheInv' /\ IconsInv'
  BY <1>1 DEF LoadInv, LTypeOK, CacheInv, CacheTypeOK, OneItemPerKey, StoredInv, Gone, IconsInv
<1> QED BY <1>1, <1>2, TaskEnds

(* The UI thread is told: the view shows what its task got. *)
LEMMA PostStep ==
  ASSUME LoadInv, NEW t \in Tasks, Post(t)
  PROVE  LoadInv'
<1> USE DEF LoadInv
<1> DEFINE v == task[t].view
           u == task[t].url
           icon == IF task[t].image = Undecodable THEN Broken ELSE task[t].image
<1>1. /\ Done(t) /\ shows' = [shows EXCEPT ![v] = icon] /\ task' = [task EXCEPT ![t] = Idle]
      /\ UNCHANGED <<bucket, now, stored>> /\ UNCHANGED <<wants, overtaken>>
  BY DEF Post, cacheVars
<1>2. /\ v \in Views /\ v # None /\ Drawable[u] \subseteq CacheValues
      /\ task[t].image \in Drawable[u] \cup {Pending, Broken} /\ task[t].image # Pending
  BY <1>1, PendingTask, BusyTask DEF Done
<1>3. icon \in (Drawable[u] \ {Undecodable}) \cup {Broken}
  BY <1>2
<1> HIDE DEF icon
<1>4. /\ shows \in [Views -> (CacheValues \ {Undecodable}) \cup {NoImage, Broken}]
      /\ task \in [Tasks -> [view : Views \cup {None}, url : CacheKeys \cup {None},
                             image : CacheValues \cup {None, Pending, Broken}]]
      /\ Idle \in [view : Views \cup {None}, url : CacheKeys \cup {None},
                   image : CacheValues \cup {None, Pending, Broken}]
      /\ Idle.view = None
  BY DEF LTypeOK, Idle
<1> HIDE DEF v, u
<1>5. CacheInv' /\ IconsInv'
  BY <1>1 DEF LTypeOK, CacheInv, CacheTypeOK, OneItemPerKey, StoredInv, Gone, IconsInv
<1>6. /\ \A x \in Views : x # v => shows'[x] = shows[x]
      /\ shows'[v] = icon
      /\ \A s \in Tasks : s # t => task'[s] = task[s]
      /\ task'[t] = Idle
  BY <1>1, <1>2, <1>4
<1>7. LTypeOK'
  <2>1. shows' \in [Views -> (CacheValues \ {Undecodable}) \cup {NoImage, Broken}]
    BY <1>1, <1>2, <1>3, <1>4
  <2>2. task' \in [Tasks -> [view : Views \cup {None}, url : CacheKeys \cup {None},
                             image : CacheValues \cup {None, Pending, Broken}]]
    BY <1>1, <1>4
  <2> QED BY <1>1, <1>5, <2>1, <2>2 DEF LTypeOK, CacheInv
<1>8. TaskInv'
  BY <1>4, <1>6 DEF TaskInv
<1>9. /\ \A x \in Views : TasksOf(x)' = TasksOf(x) \ {t}
      /\ t \in TasksOf(v)
  BY <1>4, <1>6, LoadImageAssumption DEF TasksOf, v
<1>10. ViewInv'
  <2> SUFFICES ASSUME NEW s \in Tasks, task'[s].view \in Views \ overtaken
               PROVE  /\ task'[s].url = wants[task'[s].view]
                      /\ {r \in Tasks : task'[r].view = task'[s].view} = {s}
    BY <1>1 DEF ViewInv, TasksOf
  <2>1. s # t /\ task'[s] = task[s]
    BY <1>4, <1>6, LoadImageAssumption
  <2>2. TasksOf(task[s].view) = {s} /\ task[s].url = wants[task[s].view]
    BY <2>1 DEF ViewInv
  <2> QED BY <1>9, <2>1, <2>2 DEF TasksOf
<1>11. ShowsWanted'
  <2> SUFFICES ASSUME NEW x \in Views, wants[x] # None, TasksOf(x)' = {}, x \notin overtaken
               PROVE  shows'[x] \in (Drawable[wants[x]] \ {Undecodable}) \cup {Broken}
    BY <1>1 DEF ShowsWanted
  <2>1. CASE x = v
    <3>1. u = wants[v]
      BY <1>2, <2>1 DEF ViewInv, v, u
    <3> QED BY <1>3, <1>6, <2>1, <3>1
  <2>2. CASE x # v
    <3>1. TasksOf(x) = {}
      BY <1>9, <2>2 DEF TasksOf, v
    <3> QED BY <1>6, <2>2, <3>1 DEF ShowsWanted
  <2> QED BY <2>1, <2>2
<1> QED BY <1>5, <1>7, <1>8, <1>10, <1>11 DEF CacheInv

(* The cache changes and the tasks do not. *)
LEMMA TasksUntouched ==
  ASSUME LoadInv, CacheInv', IconsInv', UNCHANGED taskVars
  PROVE  LoadInv'
<1> USE DEF LoadInv
<1>1. LTypeOK' /\ TaskInv' /\ ViewInv' /\ ShowsWanted'
  BY DEF taskVars, CacheInv, LTypeOK, TaskInv, ViewInv, ShowsWanted, TasksOf
<1> QED BY <1>1 DEF CacheInv

LEMMA InitLoadInv == LInit => LoadInv
<1> SUFFICES ASSUME LInit PROVE LoadInv
  OBVIOUS
<1>1. CacheInv
  BY InitCacheInv DEF LInit
<1>2. ToSet(bucket) = {}
  BY EmptyList DEF LInit, CacheInit
<1>3. /\ \A t \in Tasks : task[t] = Idle /\ task[t].view = None
      /\ \A w \in Views : wants[w] = None
  BY DEF LInit, Idle
<1>4. LTypeOK
  BY <1>1 DEF LInit, LTypeOK, CacheInv, Idle
<1>5. IconsInv /\ TaskInv /\ ViewInv /\ ShowsWanted
  BY <1>2, <1>3, LoadImageAssumption DEF IconsInv, TaskInv, ViewInv, ShowsWanted
<1> QED BY <1>1, <1>4, <1>5 DEF LoadInv, CacheInv

LEMMA NextLoadInv == LoadInv /\ [LNext]_allVars => LoadInv'
<1> SUFFICES ASSUME LoadInv, [LNext]_allVars PROVE LoadInv'
  OBVIOUS
<1>1. CASE UNCHANGED allVars
  <2>1. UNCHANGED taskVars /\ UNCHANGED <<bucket, now, stored>>
    BY <1>1 DEF allVars, cacheVars
  <2>2. CacheInv' /\ IconsInv'
    BY <2>1 DEF LoadInv, LTypeOK, CacheInv, CacheTypeOK, OneItemPerKey, StoredInv, Gone, IconsInv
  <2> QED BY <2>1, <2>2, TasksUntouched
<1>2. ASSUME NEW w \in Views, NEW u \in CacheKeys, LoadHit(w, u) PROVE LoadInv'
  BY <1>2, LoadHitStep
<1>3. ASSUME NEW w \in Views, NEW u \in CacheKeys, NEW t \in Tasks, LoadMiss(w, u, t)
      PROVE  LoadInv'
  BY <1>3, LoadMissStep
<1>4. ASSUME NEW t \in Tasks, Fetched(t) \/ FetchFailed(t) \/ Post(t) PROVE LoadInv'
  BY <1>4, FetchedStep, FetchFailedStep, PostStep
<1>5. ASSUME Collect \/ Tick \/ Clear \/ \E u \in CacheKeys : ClearKey(u), UNCHANGED taskVars
      PROVE  LoadInv'
  <2>1. CacheInv' /\ ToSet(bucket') \subseteq ToSet(bucket) \cup {Cleared}
    BY <1>5, RemovingStep, CacheOfLoad
  <2>2. IconsInv'
    BY <2>1 DEF LoadInv, IconsInv
  <2> QED BY <1>5, <2>1, <2>2, TasksUntouched
<1>6. ASSUME NEW u \in CacheKeys, NEW e \in Times, NEW d \in Drawable[u], Store(u, d, e),
             UNCHANGED taskVars
      PROVE  LoadInv'
  <2> DEFINE item == [key |-> u, value |-> d, expires |-> e]
  <2>1. d \in CacheValues
    BY LoadImageAssumption
  <2>2. CacheInv' /\ ToSet(bucket') \subseteq ToSet(bucket) \cup {Cleared, item}
    BY <1>6, <2>1, StoreStep, CacheOfLoad
  <2>3. item.value \in Drawable[item.key]
    OBVIOUS
  <2>4. IconsInv'
    <3> HIDE DEF item
    <3> QED BY <2>2, <2>3, IconsStay
  <2> QED BY <1>6, <2>2, <2>4, TasksUntouched
<1> QED BY <1>1, <1>2, <1>3, <1>4, <1>5, <1>6 DEF LNext

(* The invariant, for any number of urls, tasks and views. *)
THEOREM LoadInvHolds == LSpec => []LoadInv
<1> QED BY InitLoadInv, NextLoadInv, PTL DEF LSpec

(* An icon that a task set, or that the cache had, is the one that the last url
   of its view can yield, unless loads of that view overlapped. *)
THEOREM ViewsShowWanted == LSpec => []ShowsWanted
<1>1. LoadInv => ShowsWanted
  BY DEF LoadInv
<1> QED BY <1>1, InitLoadInv, NextLoadInv, PTL DEF LSpec

(* Whatever the tasks do with the cache is what the cache's interface allows. *)
LEMMA LoadUsesCache == LoadInv /\ [LNext]_allVars => [CacheNext]_cacheVars
<1> SUFFICES ASSUME LoadInv, [LNext]_allVars PROVE [CacheNext]_cacheVars
  OBVIOUS
<1>1. CASE UNCHANGED allVars
  BY <1>1 DEF allVars
<1>2. ASSUME NEW w \in Views, NEW u \in CacheKeys,
             LoadHit(w, u) \/ \E t \in Tasks : LoadMiss(w, u, t)
      PROVE  CacheNext
  BY <1>2 DEF LoadHit, LoadMiss, CacheNext
<1>3. ASSUME NEW t \in Tasks, Fetched(t) PROVE CacheNext
  <2>1. task[t].url \in CacheKeys /\ Drawable[task[t].url] \subseteq CacheValues
    BY <1>3, PendingTask, BusyTask DEF Fetched
  <2>2. Expiry \in Times
    BY LoadImageAssumption
  <2> QED BY <1>3, <2>1, <2>2 DEF Fetched, CacheNext
<1>4. ASSUME NEW t \in Tasks, FetchFailed(t) \/ Post(t) PROVE UNCHANGED cacheVars
  BY <1>4 DEF FetchFailed, Post
<1>5. ASSUME Collect \/ Tick \/ Clear \/ \E u \in CacheKeys : ClearKey(u) PROVE CacheNext
  BY <1>5 DEF CacheNext
<1>6. ASSUME NEW u \in CacheKeys, NEW e \in Times, NEW d \in Drawable[u], Store(u, d, e)
      PROVE  CacheNext
  <2>1. d \in CacheValues
    BY LoadImageAssumption
  <2> QED BY <1>6, <2>1 DEF CacheNext
<1> QED BY <1>1, <1>2, <1>3, <1>4, <1>5, <1>6 DEF LNext

(* The UI thread and the tasks use the cache through its operations only. *)
THEOREM LoadImplementsCache == LSpec => CacheSpec
<1>1. LInit => CacheInit
  BY DEF LInit
<1> QED BY <1>1, LoadUsesCache, InitLoadInv, NextLoadInv, PTL DEF LSpec, CacheSpec

(* So what the tasks and the UI thread find in the cache is good. *)
THEOREM LoadHitsAreGood == LSpec => []HitIsGood
<1> QED BY LoadImplementsCache, CacheIsRight, PTL
=============================================================================
