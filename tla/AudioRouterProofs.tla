------------------------- MODULE AudioRouterProofs -------------------------
(***************************************************************************)
(* Proofs about AudioRouter, for any finite number of threads, any proxies *)
(* and any number of sessions.                                             *)
(***************************************************************************)
EXTENDS AudioRouter, FiniteSetTheorems, TLAPS

Away == {"idle", "last", "closing"}

(* The sets of counted threads are finite. *)
LEMMA FiniteThreads ==
  /\ IsFiniteSet(Threads) /\ Cardinality(Threads) \in Nat
  /\ \A S \in SUBSET Threads : IsFiniteSet(S) /\ Cardinality(S) \in 0 .. Cardinality(Threads)
<1>1. IsFiniteSet(Threads)
    BY AudioRouterAssumption, FS_AddElement DEF Threads
<1>2. \A S \in SUBSET Threads : IsFiniteSet(S) /\ Cardinality(S) <= Cardinality(Threads)
    BY <1>1, FS_Subset
<1>3. \A S \in SUBSET Threads : Cardinality(S) \in Nat
    BY <1>2, FS_CardinalityType
<1> QED BY <1>1, <1>2, <1>3, FS_CardinalityType

LEMMA CountBounds == CountIsUsers => refCount \in 0 .. Cardinality(Threads)
  BY FiniteThreads DEF CountIsUsers, Counted

(* A thread changes its state without entering or leaving the count. *)
LEMMA CountKept ==
  ASSUME CountIsUsers, refCount' = refCount,
         \A u \in Threads : pc'[u] \in Away <=> pc[u] \in Away
  PROVE  CountIsUsers'
<1>1. Counted' = Counted
    BY DEF Counted, Away
<1> QED BY <1>1 DEF CountIsUsers

LEMMA GotoStep ==
  ASSUME TypeOK, NEW t \in Threads, NEW where \in ThreadStates, Goto(t, where)
  PROVE  /\ pc' \in [Threads -> ThreadStates]
         /\ pc'[t] = where
         /\ \A u \in Threads \ {t} : pc'[u] = pc[u]
  BY DEF TypeOK, Goto

(* Those who slept are awake, and nothing else has happened to them. *)
Woken(u) == pc'[u] = IF pc[u] = "waiting" THEN "notified" ELSE pc[u]

LEMMA EnteredStates ==
  ASSUME NEW t \in Threads
  PROVE  Entered(t) \in {"started", "check"}
  BY DEF Entered

LEMMA InitRouter == Init => IInv
<1> SUFFICES ASSUME Init PROVE IInv
    OBVIOUS
<1>1. Counted = {}
    BY DEF Init, Counted
<1>2. CountIsUsers
    BY <1>1, FS_EmptySet DEF Init, CountIsUsers
<1>3. TypeOK
    <2>1. refCount \in 0 .. Cardinality(Threads)
        BY <1>2, CountBounds
    <2>2. 0 \in 0 .. MaxSessions
        BY AudioRouterAssumption
    <2>3. sessions \in [Threads -> 0 .. MaxSessions]
        BY <2>2 DEF Init
    <2>4. pc \in [Threads -> ThreadStates] /\ mine \in [Threads -> Proxies \cup {NoProxy}]
        BY DEF Init, ThreadStates
    <2>5. ad2p = NoProxy /\ proxy \in [Proxies -> {"free", "binding", "bound", "closed"}]
          /\ raced \in BOOLEAN
        BY DEF Init
    <2> QED BY <2>1, <2>3, <2>4, <2>5 DEF TypeOK
<1>4. NobodySleepsBesideProxy /\ MineInv
    BY DEF Init, NobodySleepsBesideProxy, MineInv
<1>5. ProxyInv
    BY DEF Init, ProxyInv
<1>6. ClosedOnceUnlessRaced
    BY DEF Init, ClosedOnceUnlessRaced, Threads
<1> QED BY <1>2, <1>3, <1>4, <1>5, <1>6 DEF IInv

-----------------------------------------------------------------------------
(* start *)

LEMMA StepCount ==
  ASSUME IInv, NEW t \in Threads, Count(t)
  PROVE  IInv'
<1>1. /\ pc[t] = "idle" /\ sessions[t] < MaxSessions
      /\ refCount' = refCount + 1
      /\ sessions' = [sessions EXCEPT ![t] = sessions[t] + 1]
      /\ UNCHANGED <<ad2p, proxy, mine, raced>>
    BY DEF Count
<1>2. PICK where \in {"first", "started", "check"} : Goto(t, where)
    BY EnteredStates DEF Count
<1>3. where \in ThreadStates /\ where \notin Away
    BY DEF ThreadStates, Away
<1>4. TypeOK
    BY DEF IInv
<1>5. /\ pc' \in [Threads -> ThreadStates] /\ pc'[t] = where
      /\ \A u \in Threads \ {t} : pc'[u] = pc[u]
    BY <1>2, <1>3, <1>4, GotoStep
<1>6. CountIsUsers'
    <2>1. Counted' = Counted \cup {t} /\ t \notin Counted
        BY <1>1, <1>3, <1>5 DEF Counted, Away
    <2>2. IsFiniteSet(Counted)
        BY FiniteThreads DEF Counted
    <2>3. Cardinality(Counted') = Cardinality(Counted) + 1
        BY <2>1, <2>2, FS_AddElement
    <2> QED BY <1>1, <2>3 DEF IInv, CountIsUsers
<1>7. refCount' \in 0 .. Cardinality(Threads)
    BY <1>6, CountBounds, FiniteThreads DEF CountIsUsers, Counted
<1>8. sessions' \in [Threads -> 0 .. MaxSessions]
    <2>1. sessions[t] + 1 \in 0 .. MaxSessions
        BY <1>1, <1>4, AudioRouterAssumption DEF TypeOK
    <2> QED BY <1>1, <1>4, <2>1 DEF TypeOK
<1>9. TypeOK'
    BY <1>1, <1>4, <1>5, <1>7, <1>8 DEF TypeOK
<1>10. NobodySleepsBesideProxy' /\ MineInv'
    BY <1>1, <1>2, <1>5 DEF IInv, NobodySleepsBesideProxy, MineInv
<1>11. ProxyInv' /\ ClosedOnceUnlessRaced'
    BY <1>1, <1>2, <1>5 DEF IInv, ProxyInv, ClosedOnceUnlessRaced, Threads
<1> QED BY <1>6, <1>9, <1>10, <1>11 DEF IInv

LEMMA StepAcquire ==
  ASSUME IInv, NEW t \in Threads, Acquire(t)
  PROVE  IInv'
<1>1. /\ pc[t] = "first" /\ Goto(t, Entered(t))
      /\ UNCHANGED <<refCount, ad2p, mine, sessions, raced>>
    BY DEF Acquire
<1>2. /\ proxy' \in [Proxies -> {"free", "binding", "bound", "closed"}]
      /\ \A x \in Proxies : proxy[x] \in {"bound", "closed"} => proxy'[x] = proxy[x]
      /\ \A x \in Proxies : proxy'[x] = "closed" => proxy[x] = "closed"
    BY DEF Acquire, IInv, TypeOK
<1>3. Entered(t) \in ThreadStates /\ Entered(t) \in {"started", "check"}
    BY EnteredStates DEF ThreadStates
<1>4. TypeOK
    BY DEF IInv
<1>5. /\ pc' \in [Threads -> ThreadStates] /\ pc'[t] \in {"started", "check"}
      /\ \A u \in Threads \ {t} : pc'[u] = pc[u]
    BY <1>1, <1>3, <1>4, GotoStep
<1>6. CountIsUsers'
    BY <1>1, <1>5, CountKept DEF IInv, Away
<1>7. TypeOK'
    BY <1>1, <1>2, <1>4, <1>5 DEF TypeOK
<1>8. NobodySleepsBesideProxy' /\ MineInv' /\ ProxyInv'
    BY <1>1, <1>2, <1>4, <1>5 DEF IInv, NobodySleepsBesideProxy, MineInv, ProxyInv, TypeOK
<1>9. ClosedOnceUnlessRaced'
    <2> SUFFICES ASSUME ~raced PROVE ClosedOnceUnlessRaced'
        BY <1>1 DEF ClosedOnceUnlessRaced
    <2>1. ASSUME NEW u \in Threads, pc'[u] = "closing", mine'[u] # NoProxy
          PROVE  ad2p' # mine'[u] /\ \A v \in Threads \ {u} : mine'[v] # mine'[u]
        BY <1>1, <1>5, <2>1 DEF IInv, ClosedOnceUnlessRaced
    <2>2. ASSUME NEW u \in Users, pc'[u] = "using"
          PROVE  proxy'[mine'[u]] # "closed"
        <3>1. u \in Threads /\ pc[u] = "using" /\ mine[u] \in Proxies
            BY <1>4, <1>5, <2>2 DEF Threads, TypeOK, IInv, MineInv
        <3> QED BY <3>1, <1>1, <1>2 DEF IInv, ClosedOnceUnlessRaced
    <2> QED BY <2>1, <2>2 DEF ClosedOnceUnlessRaced
<1> QED BY <1>6, <1>7, <1>8, <1>9 DEF IInv

-----------------------------------------------------------------------------
(* Between start and stop *)

(* Only the state of one thread changes, among those that have no proxy. *)
LEMMA StepAside ==
  ASSUME IInv, NEW t \in Threads, NEW where \in ThreadStates, Goto(t, where),
         pc[t] # "using", where \notin {"using", "closing"}, pc[t] # "closing",
         where = "waiting" => ad2p = NoProxy, pc[t] \in Away <=> where \in Away,
         UNCHANGED <<refCount, ad2p, proxy, mine, sessions, raced>>
  PROVE  IInv'
<1>1. TypeOK
    BY DEF IInv
<1>2. /\ pc' \in [Threads -> ThreadStates] /\ pc'[t] = where
      /\ \A u \in Threads \ {t} : pc'[u] = pc[u]
    BY <1>1, GotoStep
<1>3. CountIsUsers'
    BY <1>2, CountKept DEF IInv, Away
<1>4. TypeOK'
    BY <1>1, <1>2 DEF TypeOK
<1>5. NobodySleepsBesideProxy' /\ MineInv' /\ ProxyInv'
    BY <1>2 DEF IInv, NobodySleepsBesideProxy, MineInv, ProxyInv
<1>6. ClosedOnceUnlessRaced'
    BY <1>2 DEF IInv, ClosedOnceUnlessRaced, Threads
<1> QED BY <1>3, <1>4, <1>5, <1>6 DEF IInv

LEMMA StepCheck ==
  ASSUME IInv, NEW t \in Users, Check(t)
  PROVE  IInv'
<1>1. /\ t \in Threads /\ pc[t] \in {"check", "notified"}
      /\ UNCHANGED <<refCount, ad2p, proxy, sessions, raced>>
    BY DEF Check, Threads
<1>2. TypeOK
    BY DEF IInv
<1>3. CASE ad2p = NoProxy
    <2>1. Goto(t, "waiting") /\ UNCHANGED mine
        BY <1>3 DEF Check
    <2> QED BY <1>1, <1>3, <2>1, StepAside DEF ThreadStates, Away
<1>4. CASE ad2p # NoProxy
    <2>1. Goto(t, "using") /\ mine' = [mine EXCEPT ![t] = ad2p]
        BY <1>4 DEF Check
    <2>2. /\ pc' \in [Threads -> ThreadStates] /\ pc'[t] = "using"
          /\ \A u \in Threads \ {t} : pc'[u] = pc[u]
        BY <1>1, <1>2, <2>1, GotoStep DEF ThreadStates
    <2>3. /\ mine' \in [Threads -> Proxies \cup {NoProxy}] /\ mine'[t] = ad2p
          /\ \A u \in Threads \ {t} : mine'[u] = mine[u]
        BY <1>1, <1>2, <2>1 DEF TypeOK
    <2>4. CountIsUsers'
        BY <1>1, <2>2, CountKept DEF IInv, Away
    <2>5. TypeOK'
        BY <1>1, <1>2, <2>2, <2>3 DEF TypeOK
    <2>6. NobodySleepsBesideProxy' /\ MineInv' /\ ProxyInv'
        BY <1>1, <1>4, <2>2, <2>3 DEF IInv, NobodySleepsBesideProxy, MineInv, ProxyInv
    <2>7. ClosedOnceUnlessRaced'
        <3> SUFFICES ASSUME ~raced PROVE ClosedOnceUnlessRaced'
            BY <1>1 DEF ClosedOnceUnlessRaced
        <3>1. ASSUME NEW u \in Threads, pc'[u] = "closing", mine'[u] # NoProxy
              PROVE  ad2p' # mine'[u] /\ \A v \in Threads \ {u} : mine'[v] # mine'[u]
            <4>1. u # t /\ pc[u] = "closing" /\ mine[u] = mine'[u]
                BY <2>2, <2>3, <3>1
            <4>2. ad2p # mine[u] /\ \A v \in Threads \ {u} : mine[v] # mine[u]
                BY <3>1, <4>1 DEF IInv, ClosedOnceUnlessRaced
            <4> QED BY <1>1, <2>3, <4>1, <4>2
        <3>2. ASSUME NEW u \in Users, pc'[u] = "using"
              PROVE  proxy'[mine'[u]] # "closed"
            <4>1. CASE u = t
                BY <1>1, <1>4, <2>3, <4>1 DEF IInv, ProxyInv
            <4>2. CASE u # t
                BY <1>1, <2>2, <2>3, <3>2, <4>2 DEF IInv, ClosedOnceUnlessRaced, Threads
            <4> QED BY <4>1, <4>2
        <3> QED BY <3>1, <3>2 DEF ClosedOnceUnlessRaced
    <2> QED BY <2>4, <2>5, <2>6, <2>7 DEF IInv
<1> QED BY <1>3, <1>4

LEMMA StepUse ==
  ASSUME IInv, NEW t \in Users, Use(t)
  PROVE  IInv'
<1>1. /\ t \in Threads /\ pc[t] = "using" /\ Goto(t, "stopping")
      /\ mine' = [mine EXCEPT ![t] = NoProxy]
      /\ UNCHANGED <<refCount, ad2p, proxy, sessions, raced>>
    BY DEF Use, Threads
<1>2. TypeOK
    BY DEF IInv
<1>3. /\ pc' \in [Threads -> ThreadStates] /\ pc'[t] = "stopping"
      /\ \A u \in Threads \ {t} : pc'[u] = pc[u]
    BY <1>1, <1>2, GotoStep DEF ThreadStates
<1>4. /\ mine' \in [Threads -> Proxies \cup {NoProxy}] /\ mine'[t] = NoProxy
      /\ \A u \in Threads \ {t} : mine'[u] = mine[u]
    BY <1>1, <1>2 DEF TypeOK
<1>5. CountIsUsers'
    BY <1>1, <1>3, CountKept DEF IInv, Away
<1>6. TypeOK'
    BY <1>1, <1>2, <1>3, <1>4 DEF TypeOK
<1>7. NobodySleepsBesideProxy' /\ MineInv' /\ ProxyInv'
    BY <1>1, <1>3, <1>4 DEF IInv, NobodySleepsBesideProxy, MineInv, ProxyInv
<1>8. ClosedOnceUnlessRaced'
    <2> SUFFICES ASSUME ~raced PROVE ClosedOnceUnlessRaced'
        BY <1>1 DEF ClosedOnceUnlessRaced
    <2>1. ASSUME NEW u \in Threads, pc'[u] = "closing", mine'[u] # NoProxy
          PROVE  ad2p' # mine'[u] /\ \A v \in Threads \ {u} : mine'[v] # mine'[u]
        BY <1>1, <1>3, <1>4, <2>1 DEF IInv, ClosedOnceUnlessRaced
    <2>2. ASSUME NEW u \in Users, pc'[u] = "using"
          PROVE  proxy'[mine'[u]] # "closed"
        BY <1>1, <1>3, <1>4, <2>2 DEF IInv, ClosedOnceUnlessRaced, Threads
    <2> QED BY <2>1, <2>2 DEF ClosedOnceUnlessRaced
<1> QED BY <1>5, <1>6, <1>7, <1>8 DEF IInv

-----------------------------------------------------------------------------
(* stop *)

LEMMA StepDiscount ==
  ASSUME IInv, NEW t \in Threads, Discount(t)
  PROVE  IInv'
<1>1. /\ pc[t] = "stopping" /\ refCount' = refCount - 1
      /\ UNCHANGED <<ad2p, proxy, mine, sessions, raced>>
    BY DEF Discount
<1>2. PICK where \in {"idle", "last"} : Goto(t, where)
    BY DEF Discount
<1>3. where \in ThreadStates /\ where \in Away
    BY DEF ThreadStates, Away
<1>4. TypeOK
    BY DEF IInv
<1>5. /\ pc' \in [Threads -> ThreadStates] /\ pc'[t] = where
      /\ \A u \in Threads \ {t} : pc'[u] = pc[u]
    BY <1>2, <1>3, <1>4, GotoStep
<1>6. CountIsUsers'
    <2>1. Counted' = Counted \ {t} /\ t \in Counted
        BY <1>1, <1>3, <1>5 DEF Counted, Away
    <2>2. IsFiniteSet(Counted)
        BY FiniteThreads DEF Counted
    <2>3. Cardinality(Counted') = Cardinality(Counted) - 1
        BY <2>1, <2>2, FS_RemoveElement
    <2> QED BY <1>1, <2>3 DEF IInv, CountIsUsers
<1>7. refCount' \in 0 .. Cardinality(Threads)
    BY <1>6, CountBounds, FiniteThreads DEF CountIsUsers, Counted
<1>8. TypeOK'
    BY <1>1, <1>4, <1>5, <1>7 DEF TypeOK
<1>9. NobodySleepsBesideProxy' /\ MineInv'
    BY <1>1, <1>2, <1>5 DEF IInv, NobodySleepsBesideProxy, MineInv
<1>10. ProxyInv' /\ ClosedOnceUnlessRaced'
    BY <1>1, <1>2, <1>5 DEF IInv, ProxyInv, ClosedOnceUnlessRaced, Threads
<1> QED BY <1>6, <1>8, <1>9, <1>10 DEF IInv

(* While nobody is counted nobody uses a proxy. *)
LEMMA NobodyUses ==
  ASSUME CountIsUsers, refCount = 0, NEW u \in Threads
  PROVE  pc[u] # "using"
<1>1. IsFiniteSet(Counted)
    BY FiniteThreads DEF Counted
<1>2. Counted = {}
    BY <1>1, FS_EmptySet DEF CountIsUsers
<1> QED BY <1>2 DEF Counted

LEMMA StepTake ==
  ASSUME IInv, NEW t \in Threads, Take(t)
  PROVE  IInv'
<1>1. /\ pc[t] = "last" /\ ad2p' = NoProxy
      /\ mine' = [mine EXCEPT ![t] = ad2p]
      /\ raced' = (raced \/ refCount > 0)
      /\ pc' = [u \in Threads |-> IF u = t THEN "closing"
                                 ELSE IF pc[u] = "waiting" THEN "notified" ELSE pc[u]]
      /\ UNCHANGED <<refCount, proxy, sessions>>
    BY DEF Take, NotifyAllAnd
<1>2. TypeOK
    BY DEF IInv
<1>3. /\ pc' \in [Threads -> ThreadStates] /\ pc'[t] = "closing"
      /\ \A u \in Threads \ {t} : Woken(u)
    BY <1>1, <1>2 DEF TypeOK, ThreadStates, Woken
<1>4. /\ mine' \in [Threads -> Proxies \cup {NoProxy}] /\ mine'[t] = ad2p
      /\ \A u \in Threads \ {t} : mine'[u] = mine[u]
    BY <1>1, <1>2 DEF TypeOK
<1>5. CountIsUsers'
    BY <1>1, <1>3, CountKept DEF IInv, Away, Woken
<1>6. TypeOK'
    BY <1>1, <1>2, <1>3, <1>4 DEF TypeOK
<1>7. NobodySleepsBesideProxy' /\ MineInv' /\ ProxyInv'
    BY <1>1, <1>3, <1>4 DEF IInv, NobodySleepsBesideProxy, MineInv, ProxyInv, Woken
<1>8. ClosedOnceUnlessRaced'
    <2>0. refCount = 0 \/ refCount > 0
        BY <1>2, FiniteThreads DEF TypeOK
    <2> SUFFICES ASSUME ~raced, refCount = 0 PROVE ClosedOnceUnlessRaced'
        BY <1>1, <2>0 DEF ClosedOnceUnlessRaced
    <2>1. \A u \in Threads : pc[u] # "using"
        BY NobodyUses DEF IInv
    <2>2. ASSUME NEW u \in Threads, pc'[u] = "closing", mine'[u] # NoProxy
          PROVE  ad2p' # mine'[u] /\ \A v \in Threads \ {u} : mine'[v] # mine'[u]
        <3>1. CASE u = t
            <4>1. mine'[u] = ad2p
                BY <1>4, <3>1
            <4>2. ASSUME NEW v \in Threads \ {t}, mine[v] = ad2p
                  PROVE  FALSE
                <5>1. pc[v] = "closing" /\ mine[v] # NoProxy
                    BY <2>1, <2>2, <4>1, <4>2 DEF IInv, MineInv
                <5> QED BY <4>2, <5>1 DEF IInv, ClosedOnceUnlessRaced
            <4> QED BY <1>1, <1>4, <2>2, <3>1, <4>1, <4>2
        <3>2. CASE u # t
            <4>1. pc[u] = "closing" /\ mine[u] = mine'[u]
                BY <1>3, <1>4, <2>2, <3>2 DEF Woken
            <4>2. ad2p # mine[u] /\ \A v \in Threads \ {u} : mine[v] # mine[u]
                BY <2>2, <4>1 DEF IInv, ClosedOnceUnlessRaced
            <4> QED BY <1>1, <1>4, <2>2, <3>2, <4>1, <4>2
        <3> QED BY <3>1, <3>2
    <2>3. ASSUME NEW u \in Users, pc'[u] = "using"
          PROVE  FALSE
        BY <1>3, <2>1, <2>3 DEF Threads, Woken
    <2> QED BY <2>2, <2>3 DEF ClosedOnceUnlessRaced
<1> QED BY <1>5, <1>6, <1>7, <1>8 DEF IInv

(* The proxy that is closed is nobody else's. *)
LEMMA StepClose ==
  ASSUME IInv, NEW t \in Threads, Close(t)
  PROVE  IInv'
<1>1. /\ pc[t] = "closing" /\ Goto(t, "idle")
      /\ proxy' = [x \in Proxies |-> IF x = mine[t] THEN "closed" ELSE proxy[x]]
      /\ mine' = [mine EXCEPT ![t] = NoProxy]
      /\ UNCHANGED <<refCount, ad2p, sessions, raced>>
    BY DEF Close
<1>2. TypeOK
    BY DEF IInv
<1>3. /\ pc' \in [Threads -> ThreadStates] /\ pc'[t] = "idle"
      /\ \A u \in Threads \ {t} : pc'[u] = pc[u]
    BY <1>1, <1>2, GotoStep DEF ThreadStates
<1>4. /\ mine' \in [Threads -> Proxies \cup {NoProxy}] /\ mine'[t] = NoProxy
      /\ \A u \in Threads \ {t} : mine'[u] = mine[u]
    BY <1>1, <1>2 DEF TypeOK
<1>5. proxy' \in [Proxies -> {"free", "binding", "bound", "closed"}]
      /\ \A x \in Proxies : proxy'[x] = IF x = mine[t] THEN "closed" ELSE proxy[x]
    BY <1>1, <1>2 DEF TypeOK
<1>6. CountIsUsers'
    BY <1>1, <1>3, CountKept DEF IInv, Away
<1>7. TypeOK'
    BY <1>1, <1>2, <1>3, <1>4, <1>5 DEF TypeOK
<1>8. NobodySleepsBesideProxy' /\ MineInv'
    BY <1>1, <1>3, <1>4 DEF IInv, NobodySleepsBesideProxy, MineInv
<1>9. ProxyInv'
    <2> SUFFICES ASSUME ~raced, ad2p # NoProxy PROVE proxy'[ad2p] = "bound"
        BY <1>1 DEF ProxyInv
    <2>1. ad2p \in Proxies /\ proxy[ad2p] = "bound"
        BY <1>2 DEF IInv, ProxyInv, TypeOK
    <2>2. mine[t] # ad2p
        BY <1>1 DEF IInv, ClosedOnceUnlessRaced
    <2> QED BY <2>1, <2>2, <1>5
<1>10. ClosedOnceUnlessRaced'
    <2> SUFFICES ASSUME ~raced PROVE ClosedOnceUnlessRaced'
        BY <1>1 DEF ClosedOnceUnlessRaced
    <2>1. ASSUME NEW u \in Threads, pc'[u] = "closing", mine'[u] # NoProxy
          PROVE  ad2p' # mine'[u] /\ \A v \in Threads \ {u} : mine'[v] # mine'[u]
        BY <1>1, <1>3, <1>4, <2>1 DEF IInv, ClosedOnceUnlessRaced
    <2>2. ASSUME NEW u \in Users, pc'[u] = "using"
          PROVE  proxy'[mine'[u]] # "closed"
        <3>1. u \in Threads /\ u # t /\ pc[u] = "using" /\ mine'[u] = mine[u]
            BY <1>3, <1>4, <2>2 DEF Threads
        <3>2. mine[u] \in Proxies /\ proxy[mine[u]] # "closed"
            BY <1>2, <3>1 DEF IInv, MineInv, TypeOK, ClosedOnceUnlessRaced
        <3>3. mine[u] # mine[t]
            BY <1>1, <3>1, <3>2, AudioRouterAssumption DEF IInv, ClosedOnceUnlessRaced
        <3> QED BY <1>5, <3>1, <3>2, <3>3
    <2> QED BY <2>1, <2>2 DEF ClosedOnceUnlessRaced
<1> QED BY <1>6, <1>7, <1>8, <1>9, <1>10 DEF IInv

-----------------------------------------------------------------------------
(* The main thread *)

(* A proxy arrives; sleepers wake. *)
LEMMA StepConnected ==
  ASSUME IInv, NEW x \in Proxies, Connected(x)
  PROVE  IInv'
<1>1. /\ proxy[x] = "binding" /\ ad2p' = x
      /\ proxy' = [proxy EXCEPT ![x] = "bound"]
      /\ raced' = (raced \/ Closing(x))
      /\ pc' = [u \in Threads |-> IF pc[u] = "waiting" THEN "notified" ELSE pc[u]]
      /\ UNCHANGED <<refCount, mine, sessions>>
    BY DEF Connected
<1>2. TypeOK
    BY DEF IInv
<1>3. pc' \in [Threads -> ThreadStates] /\ \A u \in Threads : Woken(u)
    BY <1>1, <1>2 DEF TypeOK, ThreadStates, Woken
<1>4. /\ proxy' \in [Proxies -> {"free", "binding", "bound", "closed"}]
      /\ \A y \in Proxies : proxy'[y] = IF y = x THEN "bound" ELSE proxy[y]
    BY <1>1, <1>2 DEF TypeOK
<1>5. CountIsUsers'
    BY <1>1, <1>3, CountKept DEF IInv, Away, Woken
<1>6. raced' \in BOOLEAN
    BY <1>1
<1>7. TypeOK'
    BY <1>1, <1>2, <1>3, <1>4, <1>6 DEF TypeOK
<1>8. NobodySleepsBesideProxy' /\ MineInv' /\ ProxyInv'
    BY <1>1, <1>3, <1>4 DEF IInv, NobodySleepsBesideProxy, MineInv, ProxyInv, Woken
<1>9. ClosedOnceUnlessRaced'
    <2> SUFFICES ASSUME ~raced, ~Closing(x) PROVE ClosedOnceUnlessRaced'
        BY <1>1 DEF ClosedOnceUnlessRaced
    <2>1. ASSUME NEW u \in Threads, pc'[u] = "closing", mine'[u] # NoProxy
          PROVE  ad2p' # mine'[u] /\ \A v \in Threads \ {u} : mine'[v] # mine'[u]
        <3>1. pc[u] = "closing" /\ mine[u] # NoProxy /\ mine[u] # x
            BY <1>1, <1>3, <2>1 DEF Woken, Closing
        <3> QED BY <1>1, <3>1 DEF IInv, ClosedOnceUnlessRaced
    <2>2. ASSUME NEW u \in Users, pc'[u] = "using"
          PROVE  proxy'[mine'[u]] # "closed"
        <3>1. u \in Threads /\ pc[u] = "using"
            BY <1>3, <2>2 DEF Threads, Woken
        <3>2. mine[u] \in Proxies /\ proxy[mine[u]] # "closed"
            BY <1>2, <3>1 DEF IInv, MineInv, TypeOK, ClosedOnceUnlessRaced
        <3> QED BY <1>1, <1>4, <3>2
    <2> QED BY <2>1, <2>2 DEF ClosedOnceUnlessRaced
<1> QED BY <1>5, <1>7, <1>8, <1>9 DEF IInv

LEMMA StepDisconnected ==
  ASSUME IInv, NEW x \in Proxies, Disconnected(x)
  PROVE  IInv'
<1>1. /\ proxy[x] = "bound" /\ ad2p' = NoProxy
      /\ proxy' = [proxy EXCEPT ![x] = "binding"]
      /\ pc' = [u \in Threads |-> IF pc[u] = "waiting" THEN "notified" ELSE pc[u]]
      /\ UNCHANGED <<refCount, mine, sessions, raced>>
    BY DEF Disconnected
<1>2. TypeOK
    BY DEF IInv
<1>3. pc' \in [Threads -> ThreadStates] /\ \A u \in Threads : Woken(u)
    BY <1>1, <1>2 DEF TypeOK, ThreadStates, Woken
<1>4. /\ proxy' \in [Proxies -> {"free", "binding", "bound", "closed"}]
      /\ \A y \in Proxies : proxy'[y] = IF y = x THEN "binding" ELSE proxy[y]
    BY <1>1, <1>2 DEF TypeOK
<1>5. CountIsUsers'
    BY <1>1, <1>3, CountKept DEF IInv, Away, Woken
<1>6. TypeOK'
    BY <1>1, <1>2, <1>3, <1>4 DEF TypeOK
<1>7. NobodySleepsBesideProxy' /\ MineInv' /\ ProxyInv'
    BY <1>1, <1>3 DEF IInv, NobodySleepsBesideProxy, MineInv, ProxyInv, Woken
<1>8. ClosedOnceUnlessRaced'
    <2> SUFFICES ASSUME ~raced PROVE ClosedOnceUnlessRaced'
        BY <1>1 DEF ClosedOnceUnlessRaced
    <2>1. ASSUME NEW u \in Threads, pc'[u] = "closing", mine'[u] # NoProxy
          PROVE  ad2p' # mine'[u] /\ \A v \in Threads \ {u} : mine'[v] # mine'[u]
        BY <1>1, <1>3, <2>1 DEF IInv, ClosedOnceUnlessRaced, Woken
    <2>2. ASSUME NEW u \in Users, pc'[u] = "using"
          PROVE  proxy'[mine'[u]] # "closed"
        <3>1. u \in Threads /\ pc[u] = "using"
            BY <1>3, <2>2 DEF Threads, Woken
        <3>2. mine[u] \in Proxies /\ proxy[mine[u]] # "closed"
            BY <1>2, <3>1 DEF IInv, MineInv, TypeOK, ClosedOnceUnlessRaced
        <3> QED BY <1>1, <1>4, <3>2
    <2> QED BY <2>1, <2>2 DEF ClosedOnceUnlessRaced
<1> QED BY <1>5, <1>6, <1>7, <1>8 DEF IInv

-----------------------------------------------------------------------------
LEMMA StepRouter == IInv /\ [Next]_vars => IInv'
<1> SUFFICES ASSUME IInv, [Next]_vars PROVE IInv'
    OBVIOUS
<1>1. CASE UNCHANGED vars
    BY <1>1 DEF vars, threadVars, IInv, TypeOK, CountIsUsers, Counted, MineInv, ProxyInv,
                NobodySleepsBesideProxy, ClosedOnceUnlessRaced
<1>2. ASSUME NEW t \in Threads, Count(t) \/ Acquire(t) \/ Discount(t) \/ Take(t) \/ Close(t)
      PROVE  IInv'
    BY <1>2, StepCount, StepAcquire, StepDiscount, StepTake, StepClose
<1>3. ASSUME NEW t \in Users, Timeout(t)
      PROVE  IInv'
    BY <1>3, StepAside DEF Timeout, Threads, ThreadStates, Away
<1>4. ASSUME NEW t \in Users, Check(t) \/ Use(t)
      PROVE  IInv'
    BY <1>4, StepCheck, StepUse
<1>5. CASE ScriptStop
    BY <1>5, StepAside DEF ScriptStop, Threads, ThreadStates, Away
<1>6. ASSUME NEW x \in Proxies, Connected(x) \/ Disconnected(x)
      PROVE  IInv'
    BY <1>6, StepConnected, StepDisconnected
<1> QED BY <1>1, <1>2, <1>3, <1>4, <1>5, <1>6 DEF Next

(* The inductive invariant of the audio router: among its parts, that the
   counter is the number of users and that nobody sleeps beside a proxy. *)
THEOREM InvariantHolds == Spec => []IInv
BY InitRouter, StepRouter, PTL DEF Spec

(* Outside the two races a proxy that is closed is nobody's any more. *)
THEOREM ClosedOnceUnlessRacedHolds == Spec => []ClosedOnceUnlessRaced
<1>1. IInv => ClosedOnceUnlessRaced
    BY DEF IInv
<1> QED BY <1>1, InvariantHolds, PTL
=============================================================================
