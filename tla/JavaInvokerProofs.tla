------------------------- MODULE JavaInvokerProofs -------------------------
(***************************************************************************)
(* Proofs about JavaInvoker, for any number of promises and methods, and   *)
(* about Images, which use it.                                             *)
(***************************************************************************)
EXTENDS Images, ListLemmas, TLAPS

-----------------------------------------------------------------------------
LEMMA InitIInv == Init => IInv
<1> SUFFICES ASSUME Init PROVE IInv
  OBVIOUS
<1>1. ToSet(natives) = {} /\ ToSet(batch) = {} /\ UnderWay = {}
  BY EmptyList DEF Init, UnderWay
<1>2. IsInjective(natives) /\ IsInjective(batch)
  BY EmptyList DEF Init
<1>3. TypeOK /\ NoLostWakeup
  BY EmptySeq DEF Init, TypeOK, PromiseStates, NoLostWakeup
<1>4. EntryInv /\ CompletionInv /\ PendingIsTracked /\ SettledByOwnCall
  BY <1>1, <1>2 DEF Init, EntryInv, CompletionInv, PendingIsTracked, SettledByOwnCall
<1> QED BY <1>3, <1>4 DEF IInv

(* Steps that leave the promises, the map and the two lists alone. *)
LEMMA LoopFrame ==
  ASSUME IInv, UNCHANGED <<natives, batch, callVars, alive>>
  PROVE  EntryInv' /\ CompletionInv' /\ PendingIsTracked' /\ SettledByOwnCall'
  BY DEF callVars, IInv, EntryInv, CompletionInv, PendingIsTracked, SettledByOwnCall,
         UnderWay, OnTheWay

(* run_all_asyncs moves the list aside: the completions under way are the same. *)
LEMMA DrainStep ==
  ASSUME IInv, Drain
  PROVE  IInv'
<1>1. /\ batch = <<>> /\ batch' = natives /\ natives' = <<>>
      /\ node' = "busy"
      /\ UNCHANGED <<methods, wake, nextId, callbacks, tasks, state, outcome, alive>>
  BY DEF Drain, IInv, TypeOK, callVars
<1>2. TypeOK' /\ NoLostWakeup'
  BY <1>1, EmptySeq DEF IInv, TypeOK, NoLostWakeup
<1>3. ToSet(natives') = {} /\ IsInjective(natives') /\ ToSet(batch) = {}
  BY <1>1, EmptyList
<1>4. ToSet(batch') = ToSet(natives) /\ UnderWay' = UnderWay
  BY <1>1, <1>3 DEF UnderWay
<1>5. EntryInv' /\ SettledByOwnCall'
  BY <1>1 DEF IInv, EntryInv, SettledByOwnCall
<1>6. CompletionInv'
  BY <1>1, <1>3, <1>4 DEF IInv, CompletionInv
<1>7. PendingIsTracked'
  BY <1>1, <1>4 DEF IInv, PendingIsTracked, OnTheWay
<1> QED BY <1>2, <1>5, <1>6, <1>7 DEF IInv

(* completePromise: the number of a running task is in no completion, so the
   new one is the only completion of its entry. *)
LEMMA TaskDoneStep ==
  ASSUME IInv, NEW e \in tasks, TaskDone(e)
  PROVE  IInv'
<1>1. PICK o \in {"ok", "error"} : Complete(e, o)
  BY DEF TaskDone
<1> DEFINE new == [id |-> e.id, outcome |-> o]
<1>2. /\ natives' = Append(natives, new) /\ wake' = TRUE
      /\ outcome' = [outcome EXCEPT ![e.promise] = o]
      /\ tasks' = tasks \ {e}
      /\ alive /\ UNCHANGED <<methods, batch, node, nextId, callbacks, state, alive>>
  BY <1>1 DEF TaskDone, Complete
<1>3. /\ TypeOK /\ e \in callbacks /\ e \in Entries /\ new \in Completions
      /\ natives \in Seq(Completions) /\ batch \in Seq(Completions)
      /\ outcome \in [Promises -> {"none", "ok", "error", "refused"}]
      /\ e.promise \in Promises /\ e.id \in Nat
  BY DEF IInv, TypeOK, EntryInv, Entries, Completions
<1>4. /\ natives' \in Seq(Completions)
      /\ ToSet(natives') = ToSet(natives) \cup {new}
      /\ UnderWay' = UnderWay \cup {new}
  BY <1>2, <1>3, AppendProperties, ToSetAppend DEF UnderWay
<1>5. \A c \in UnderWay : c.id # e.id
  BY <1>2, <1>3 DEF IInv, PendingIsTracked, OnTheWay
<1>6. new \notin UnderWay
  BY <1>5
<1>7. \A f \in callbacks : f # e => f.id # e.id /\ f.promise # e.promise
  <2> SUFFICES ASSUME NEW f \in callbacks, f # e
               PROVE  f.id # e.id /\ f.promise # e.promise
    OBVIOUS
  <2>1. f.id = e.id <=> f.promise = e.promise
    BY <1>3 DEF IInv, PendingIsTracked
  <2>2. f \in Entries
    BY DEF IInv, TypeOK
  <2>3. ~(f.id = e.id /\ f.promise = e.promise)
    BY <2>2, <1>3 DEF Entries
  <2> QED BY <2>1, <2>3
<1>8. TypeOK'
  BY <1>2, <1>3, <1>4 DEF TypeOK
<1>9. EntryInv'
  <2>1. \A f \in tasks' : outcome'[f.promise] = "none"
    BY <1>2, <1>3, <1>7 DEF IInv, EntryInv
  <2>2. state[e.promise] = "pending"
    BY <1>3 DEF IInv, PendingIsTracked
  <2>3. \A p \in Promises : state'[p] = "unused" => outcome'[p] = "none"
    BY <1>2, <1>3, <2>2 DEF IInv, EntryInv
  <2> QED BY <1>2, <2>1, <2>3 DEF IInv, EntryInv
<1>10. CompletionInv'
  <2>1. IsInjective(natives')
    BY <1>2, <1>3, <1>6, DistinctAppend DEF IInv, CompletionInv, UnderWay
  <2>2. ToSet(natives') \cap ToSet(batch') = {}
    BY <1>2, <1>4, <1>6 DEF IInv, CompletionInv, UnderWay
  <2>3. \A c, d \in UnderWay' : c.id = d.id => c = d
    BY <1>4, <1>5 DEF IInv, CompletionInv
  <2>4. \A c \in UnderWay' :
           \E f \in callbacks' \ tasks' : f.id = c.id /\ outcome'[f.promise] = c.outcome
    <3> SUFFICES ASSUME NEW c \in UnderWay'
                 PROVE  \E f \in callbacks' \ tasks' :
                           f.id = c.id /\ outcome'[f.promise] = c.outcome
      OBVIOUS
    <3>1. CASE c = new
      BY <3>1, <1>2, <1>3
    <3>2. CASE c \in UnderWay
      <4>1. PICK f \in callbacks \ tasks : f.id = c.id /\ outcome[f.promise] = c.outcome
        BY <3>2 DEF IInv, CompletionInv
      <4>2. f # e /\ f.promise \in Promises
        BY <4>1 DEF IInv, TypeOK, Entries
      <4> QED BY <4>1, <4>2, <1>2, <1>3, <1>7
    <3> QED BY <3>1, <3>2, <1>4
  <2> QED BY <1>2, <2>1, <2>2, <2>3, <2>4 DEF IInv, CompletionInv
<1>11. PendingIsTracked'
  <2>1. OnTheWay(e)' # {}
    BY <1>4, <1>2 DEF OnTheWay
  <2>2. \A f \in callbacks : f # e => OnTheWay(f)' = OnTheWay(f)
    BY <1>4, <1>7 DEF OnTheWay
  <2>3. \A f \in callbacks' : f \in tasks' <=> OnTheWay(f)' = {}
    BY <1>2, <2>1, <2>2 DEF IInv, PendingIsTracked
  <2>4. /\ \A f, g \in callbacks' : f.id = g.id <=> f.promise = g.promise
        /\ \A p \in Promises :
              state'[p] = "pending" <=> \E f \in callbacks' : f.promise = p
    BY <1>2 DEF IInv, PendingIsTracked
  <2> QED BY <2>3, <2>4 DEF PendingIsTracked
<1>12. SettledByOwnCall'
  <2>1. state[e.promise] = "pending"
    BY <1>3 DEF IInv, PendingIsTracked
  <2> QED BY <1>2, <1>3, <2>1 DEF IInv, SettledByOwnCall
<1>13. NoLostWakeup'
  BY <1>2 DEF NoLostWakeup
<1> QED BY <1>8, <1>9, <1>10, <1>11, <1>12, <1>13 DEF IInv

(* CompletePromise: the head of the batch has exactly one entry, and the rest
   of the completions concern others. *)
LEMMA CompletePromiseStep ==
  ASSUME IInv, CompletePromise
  PROVE  IInv'
<1> DEFINE c == Head(batch)
<1>1. /\ alive /\ node = "busy" /\ batch # <<>> /\ batch' = Tail(batch) /\ Settle(c)
      /\ UNCHANGED <<methods, natives, wake, node, nextId, tasks, outcome, alive>>
  BY DEF CompletePromise
<1>2. /\ natives \in Seq(Completions) /\ batch \in Seq(Completions)
      /\ callbacks \subseteq Entries /\ tasks \subseteq callbacks
      /\ state \in [Promises -> PromiseStates]
  BY DEF IInv, TypeOK, EntryInv
<1>3. /\ ToSet(batch) = {c} \cup ToSet(batch')
      /\ c \notin ToSet(batch') /\ IsInjective(batch')
      /\ batch' \in Seq(Completions) /\ c \in Completions
  BY <1>1, <1>2, ToSetHeadTail, DistinctTail, HeadTailProperties DEF IInv, CompletionInv
<1>4. /\ c \in UnderWay /\ c \notin ToSet(natives)
      /\ UnderWay = UnderWay' \cup {c} /\ c \notin UnderWay'
  BY <1>1, <1>3 DEF IInv, CompletionInv, UnderWay
<1>5. PICK e \in callbacks \ tasks : e.id = c.id /\ outcome[e.promise] = c.outcome
  BY <1>4 DEF IInv, CompletionInv
<1>6. \A f \in callbacks : f.id = c.id => f = e
  <2> SUFFICES ASSUME NEW f \in callbacks, f.id = c.id PROVE f = e
    OBVIOUS
  <2>1. f.promise = e.promise
    BY <1>5 DEF IInv, PendingIsTracked
  <2> QED BY <2>1, <1>2, <1>5 DEF Entries
<1>7. Found(c.id) = {e}
  BY <1>5, <1>6 DEF Found
<1>8. /\ callbacks' = callbacks \ {e}
      /\ state' = [p \in Promises |->
                      IF p = e.promise
                      THEN IF c.outcome = "ok" THEN "fulfilled" ELSE "rejected"
                      ELSE state[p]]
  <2>1. \A p \in Promises : (\E f \in Found(c.id) : f.promise = p) <=> p = e.promise
    BY <1>7
  <2> QED BY <1>1, <1>7, <2>1 DEF Settle
<1>9. e.promise \in Promises /\ c.outcome \in {"ok", "error"}
  BY <1>2, <1>3, <1>5 DEF Entries, Completions
<1>10. \A f \in callbacks' : f.promise # e.promise /\ f.id # c.id
  BY <1>5, <1>6, <1>8 DEF IInv, PendingIsTracked
<1>11. TypeOK'
  BY <1>1, <1>2, <1>3, <1>8 DEF IInv, TypeOK, PromiseStates
<1>12. EntryInv'
  <2>1. \A p \in Promises : state'[p] = "unused" => outcome'[p] = "none"
    BY <1>1, <1>8 DEF IInv, EntryInv
  <2> QED BY <1>1, <1>5, <1>8, <2>1 DEF IInv, EntryInv
<1>13. CompletionInv'
  <2>1. \A d \in UnderWay' : d.id # c.id
    BY <1>4 DEF IInv, CompletionInv
  <2>2. \A d \in UnderWay' :
           \E f \in callbacks' \ tasks' : f.id = d.id /\ outcome'[f.promise] = d.outcome
    <3> SUFFICES ASSUME NEW d \in UnderWay'
                 PROVE  \E f \in callbacks' \ tasks' :
                           f.id = d.id /\ outcome'[f.promise] = d.outcome
      OBVIOUS
    <3>1. PICK f \in callbacks \ tasks : f.id = d.id /\ outcome[f.promise] = d.outcome
      BY <1>4 DEF IInv, CompletionInv
    <3>2. f # e
      BY <3>1, <2>1, <1>5
    <3> QED BY <3>1, <3>2, <1>1, <1>8
  <2>3. \A d, f \in UnderWay' : d.id = f.id => d = f
    BY <1>4 DEF IInv, CompletionInv
  <2>4. ToSet(natives') \cap ToSet(batch') = {} /\ IsInjective(natives')
    BY <1>1, <1>3 DEF IInv, CompletionInv
  <2> QED BY <1>3, <2>2, <2>3, <2>4 DEF CompletionInv
<1>14. PendingIsTracked'
  <2>1. \A f \in callbacks' : OnTheWay(f)' = OnTheWay(f)
    BY <1>4, <1>10 DEF OnTheWay
  <2>2. \A f \in callbacks' : f \in tasks' <=> OnTheWay(f)' = {}
    BY <1>1, <1>8, <2>1 DEF IInv, PendingIsTracked
  <2>3. \A f, g \in callbacks' : f.id = g.id <=> f.promise = g.promise
    BY <1>8 DEF IInv, PendingIsTracked
  <2>4. \A p \in Promises :
           state'[p] = "pending" <=> \E f \in callbacks' : f.promise = p
    BY <1>5, <1>8, <1>9, <1>10 DEF IInv, PendingIsTracked
  <2> QED BY <2>2, <2>3, <2>4 DEF PendingIsTracked
<1>15. SettledByOwnCall'
  BY <1>1, <1>5, <1>8, <1>9 DEF IInv, SettledByOwnCall
<1>16. NoLostWakeup'
  BY <1>1 DEF IInv, NoLostWakeup
<1> QED BY <1>11, <1>12, <1>13, <1>14, <1>15, <1>16 DEF IInv

(* callJavaAsync: a fresh number names no entry and no completion. *)
LEMMA InvokeAsyncStep ==
  ASSUME IInv, NEW p \in Promises, NEW m \in Methods, InvokeAsync(p, m)
  PROVE  IInv'
<1>1. /\ alive /\ node = "busy" /\ state[p] = "unused"
      /\ UNCHANGED <<methods, natives, wake, batch, node, alive>>
  BY DEF InvokeAsync, loopVars
<1>2. /\ callbacks \subseteq Entries /\ tasks \subseteq callbacks /\ nextId \in Nat
      /\ state \in [Promises -> PromiseStates]
      /\ outcome \in [Promises -> {"none", "ok", "error", "refused"}]
      /\ outcome[p] = "none"
  BY <1>1 DEF IInv, TypeOK, EntryInv
<1>3. UnderWay' = UnderWay /\ NoLostWakeup'
  BY <1>1 DEF IInv, UnderWay, NoLostWakeup
<1>4. \A e \in callbacks : e.promise # p
  BY <1>1 DEF IInv, PendingIsTracked
<1>5. ASSUME NEW s \in {"undefined", "rejected"}, NEW o \in {"none", "refused"},
             s = "rejected" => o = "refused",
             state' = [state EXCEPT ![p] = s], outcome' = [outcome EXCEPT ![p] = o],
             nextId' \in {nextId, nextId + 1}, UNCHANGED <<callbacks, tasks>>
      PROVE  IInv'
  <2>1. TypeOK'
    BY <1>1, <1>2, <1>5 DEF IInv, TypeOK, PromiseStates
  <2>2. EntryInv'
    <3>1. \A e \in callbacks' : e.id < nextId'
      BY <1>2, <1>5 DEF IInv, EntryInv, Entries
    <3>2. \A e \in tasks' : outcome'[e.promise] = "none"
      BY <1>2, <1>4, <1>5 DEF IInv, EntryInv, Entries
    <3>3. \A q \in Promises : state'[q] = "unused" => outcome'[q] = "none"
      BY <1>2, <1>5 DEF IInv, EntryInv
    <3> QED BY <3>1, <3>2, <3>3, <1>2, <1>5 DEF EntryInv
  <2>3. CompletionInv'
    <3>1. \A e \in callbacks : outcome'[e.promise] = outcome[e.promise]
      BY <1>2, <1>4, <1>5 DEF Entries
    <3> QED BY <3>1, <1>1, <1>3, <1>5 DEF IInv, CompletionInv
  <2>4. PendingIsTracked'
    BY <1>1, <1>2, <1>3, <1>4, <1>5 DEF IInv, PendingIsTracked, OnTheWay
  <2>5. SettledByOwnCall'
    BY <1>2, <1>5 DEF IInv, SettledByOwnCall
  <2> QED BY <2>1, <2>2, <2>3, <2>4, <2>5, <1>3 DEF IInv
<1>6. CASE NotMarshalled(p)
  <2>1. outcome' = [outcome EXCEPT ![p] = "none"]
    BY <1>2, <1>6 DEF NotMarshalled
  <2> QED BY <1>5, <1>6, <2>1 DEF NotMarshalled
<1>7. CASE NoSuchFunction(p)
  BY <1>5, <1>7 DEF NoSuchFunction
<1>8. CASE Refused(p)
  BY <1>5, <1>8 DEF Refused
<1>9. CASE Accepted(p)
  <2> DEFINE new == [id |-> nextId, promise |-> p]
  <2>1. /\ callbacks' = callbacks \cup {new} /\ tasks' = tasks \cup {new}
        /\ state' = [state EXCEPT ![p] = "pending"]
        /\ nextId' = nextId + 1 /\ outcome' = outcome
    BY <1>9 DEF Accepted, Fresh
  <2>2. new \in Entries /\ new \notin callbacks
    BY <1>2, <1>4 DEF Entries
  <2>3. \A e \in callbacks : e.id # nextId
    BY <1>2 DEF IInv, EntryInv, Entries
  <2>4. \A c \in UnderWay : c.id # nextId
    BY <2>3 DEF IInv, CompletionInv
  <2>5. TypeOK'
    BY <1>1, <1>2, <2>1, <2>2 DEF IInv, TypeOK, PromiseStates
  <2>6. EntryInv'
    <3>1. \A e \in callbacks' : e.id < nextId'
      BY <1>2, <2>1 DEF IInv, EntryInv, Entries
    <3> QED BY <3>1, <1>2, <2>1 DEF IInv, EntryInv
  <2>7. CompletionInv'
    <3>1. \A c \in UnderWay :
             \E e \in callbacks' \ tasks' : e.id = c.id /\ outcome'[e.promise] = c.outcome
      BY <2>1, <2>2 DEF IInv, CompletionInv
    <3> QED BY <3>1, <1>1, <1>3 DEF IInv, CompletionInv
  <2>8. PendingIsTracked'
    <3>1. \A e, f \in callbacks' : e.id = f.id <=> e.promise = f.promise
      BY <2>1, <2>3, <1>4 DEF IInv, PendingIsTracked
    <3>2. ASSUME NEW q \in Promises
          PROVE  state'[q] = "pending" <=> \E e \in callbacks' : e.promise = q
      <4>1. CASE q = p
        <5>1. new \in callbacks' /\ new.promise = p
          BY <2>1
        <5> QED BY <4>1, <5>1, <2>1, <1>2
      <4>2. CASE q # p
        <5>1. state'[q] = state[q] /\ new.promise # q
          BY <4>2, <2>1, <1>2
        <5>2. (\E e \in callbacks' : e.promise = q) <=> \E e \in callbacks : e.promise = q
          BY <5>1, <2>1
        <5> QED BY <5>1, <5>2 DEF IInv, PendingIsTracked
      <4> QED BY <4>1, <4>2
    <3>3. ASSUME NEW e \in callbacks'
          PROVE  alive' => (e \in tasks' <=> OnTheWay(e)' = {})
      <4>1. CASE e = new
        <5>1. e \in tasks' /\ e.id = nextId
          BY <4>1, <2>1
        <5> QED BY <5>1, <2>4, <1>3 DEF OnTheWay
      <4>2. CASE e \in callbacks
        <5>1. OnTheWay(e)' = OnTheWay(e)
          BY <1>3 DEF OnTheWay
        <5>2. e \in tasks' <=> e \in tasks
          BY <4>2, <2>1, <2>2
        <5> QED BY <4>2, <5>1, <5>2, <1>1 DEF IInv, PendingIsTracked
      <4> QED BY <4>1, <4>2, <2>1
    <3> QED BY <3>1, <3>2, <3>3 DEF PendingIsTracked
  <2>9. SettledByOwnCall'
    BY <2>1, <1>2 DEF IInv, SettledByOwnCall
  <2> QED BY <2>5, <2>6, <2>7, <2>8, <2>9, <1>3 DEF IInv
<1> QED BY <1>6, <1>7, <1>8, <1>9 DEF InvokeAsync

LEMMA NextIInv == IInv /\ [Next]_vars => IInv'
<1> SUFFICES ASSUME IInv, [Next]_vars PROVE IInv'
  OBVIOUS
<1>1. CASE UNCHANGED vars
  BY <1>1, LoopFrame DEF vars, loopVars, callVars, IInv, TypeOK, NoLostWakeup
<1>2. ASSUME NEW m \in Methods, Register(m) PROVE IInv'
  <2>1. TypeOK' /\ NoLostWakeup'
    BY <1>2 DEF Register, loopVars, callVars, IInv, TypeOK, NoLostWakeup
  <2> QED BY <1>2, <2>1, LoopFrame DEF Register, loopVars, IInv
<1>3. ASSUME NEW m \in Methods, InvokeSync(m) PROVE IInv'
  <2>1. TypeOK' /\ NoLostWakeup'
    BY <1>3 DEF InvokeSync, callVars, IInv, TypeOK, NoLostWakeup
  <2> QED BY <1>3, <2>1, LoopFrame DEF InvokeSync, IInv
<1>4. ASSUME NEW p \in Promises, NEW m \in Methods, InvokeAsync(p, m) PROVE IInv'
  BY <1>4, InvokeAsyncStep
<1>5. ASSUME NEW e \in tasks, TaskDone(e) PROVE IInv'
  BY <1>5, TaskDoneStep
<1>6. ASSUME NEW e \in tasks, TaskFatal(e) PROVE IInv'
  <2>1. /\ alive' = FALSE /\ tasks' = tasks \ {e}
        /\ UNCHANGED <<methods, natives, wake, batch, node, nextId, callbacks, state, outcome>>
    BY <1>6 DEF TaskFatal, loopVars
  <2>2. TypeOK' /\ EntryInv' /\ NoLostWakeup' /\ SettledByOwnCall'
    BY <2>1 DEF IInv, TypeOK, EntryInv, NoLostWakeup, SettledByOwnCall
  <2>3. CompletionInv' /\ PendingIsTracked'
    BY <2>1 DEF IInv, CompletionInv, PendingIsTracked, UnderWay
  <2> QED BY <2>2, <2>3 DEF IInv
<1>7. CASE SyncReturn
  <2>1. TypeOK' /\ NoLostWakeup'
    BY <1>7 DEF SyncReturn, callVars, IInv, TypeOK, NoLostWakeup
  <2> QED BY <1>7, <2>1, LoopFrame DEF SyncReturn, IInv
<1>8. CASE LoopEvent
  <2>1. TypeOK' /\ NoLostWakeup'
    BY <1>8 DEF LoopEvent, callVars, IInv, TypeOK, NoLostWakeup
  <2> QED BY <1>8, <2>1, LoopFrame DEF LoopEvent, IInv
<1>9. CASE WakeUp
  <2>1. TypeOK' /\ NoLostWakeup'
    BY <1>9 DEF WakeUp, callVars, IInv, TypeOK, NoLostWakeup
  <2> QED BY <1>9, <2>1, LoopFrame DEF WakeUp, IInv
<1>10. CASE Drain
  BY <1>10, DrainStep
<1>11. CASE CompletePromise
  BY <1>11, CompletePromiseStep
<1>12. CASE EndTurn
  <2>1. TypeOK' /\ NoLostWakeup'
    BY <1>12 DEF EndTurn, callVars, IInv, TypeOK, NoLostWakeup
  <2> QED BY <1>12, <2>1, LoopFrame DEF EndTurn, IInv
<1>13. CASE Killed
  <2>1. TypeOK' /\ EntryInv' /\ NoLostWakeup' /\ SettledByOwnCall'
    BY <1>13 DEF Killed, loopVars, callVars, IInv, TypeOK, EntryInv, NoLostWakeup, SettledByOwnCall
  <2>2. CompletionInv' /\ PendingIsTracked'
    BY <1>13 DEF Killed, loopVars, callVars, IInv, CompletionInv, PendingIsTracked, UnderWay
  <2> QED BY <2>1, <2>2 DEF IInv
<1> QED
  BY <1>1, <1>2, <1>3, <1>4, <1>5, <1>6, <1>7, <1>8, <1>9, <1>10, <1>11, <1>12, <1>13 DEF Next

-----------------------------------------------------------------------------
(* The invariant, for any number of promises and methods. *)
THEOREM InvariantHolds == Spec => []IInv
<1> QED BY InitIInv, NextIInv, PTL DEF Spec

(* No promise that callJavaAsync returned is settled by the outcome of another
   call: the numbers next_promise_id gives out are never mixed up between the
   pool threads, the native queue and JavaInvoker::callbacks. *)
THEOREM SettledByOwnCallHolds == Spec => []SettledByOwnCall
<1>1. IInv => SettledByOwnCall
  BY DEF IInv
<1> QED BY <1>1, InitIInv, NextIInv, PTL DEF Spec

(* What a step may not take back: a settled promise, the outcome of a call,
   and that a promise has been handed out. *)
Forward ==
    /\ \A p \in Promises : state[p] \in {"fulfilled", "rejected"} => state'[p] = state[p]
    /\ \A p \in Promises : state[p] \notin {"unused", "undefined"}
                             => state'[p] \notin {"unused", "undefined"}
    /\ \A p \in Promises : outcome[p] # "none" => outcome'[p] = outcome[p]

LEMMA StepsGoForward == IInv /\ [Next]_vars => Forward
<1> SUFFICES ASSUME IInv, [Next]_vars, NEW q \in Promises
             PROVE  /\ state[q] \in {"fulfilled", "rejected"} => state'[q] = state[q]
                    /\ state[q] \notin {"unused", "undefined"}
                         => state'[q] \notin {"unused", "undefined"}
                    /\ outcome[q] # "none" => outcome'[q] = outcome[q]
  BY DEF Forward
<1>1. /\ state \in [Promises -> PromiseStates]
      /\ outcome \in [Promises -> {"none", "ok", "error", "refused"}]
      /\ state[q] # "pending" => \A e \in callbacks : e.promise # q
      /\ state[q] = "unused" => outcome[q] = "none"
      /\ \A e \in tasks : outcome[e.promise] = "none" /\ e.promise \in Promises
  BY DEF IInv, TypeOK, PendingIsTracked, EntryInv, Entries
<1>2. ASSUME NEW p \in Promises, NEW m \in Methods, InvokeAsync(p, m)
      PROVE  /\ p # q => state'[q] = state[q] /\ outcome'[q] = outcome[q]
             /\ p = q => state[q] = "unused"
  BY <1>1, <1>2 DEF InvokeAsync, NotMarshalled, NoSuchFunction, Accepted, Refused
<1>3. CASE CompletePromise
  <2>1. outcome' = outcome
    BY <1>3 DEF CompletePromise
  <2>2. state[q] # "pending" => state'[q] = state[q]
    BY <1>1, <1>3 DEF CompletePromise, Settle, Found
  <2>3. state'[q] = state[q] \/ state'[q] \in {"fulfilled", "rejected"}
    BY <1>1, <1>3 DEF CompletePromise, Settle
  <2> QED BY <2>1, <2>2, <2>3
<1>4. ASSUME NEW e \in tasks, TaskDone(e)
      PROVE  state' = state /\ (outcome[q] # "none" => outcome'[q] = outcome[q])
  BY <1>1, <1>4 DEF TaskDone, Complete
<1>5. ASSUME NEW e \in tasks, TaskFatal(e) PROVE state' = state /\ outcome' = outcome
  BY <1>5 DEF TaskFatal
<1>6. ASSUME NEW m \in Methods, Register(m) \/ InvokeSync(m)
      PROVE  state' = state /\ outcome' = outcome
  BY <1>6 DEF Register, InvokeSync, callVars
<1>7. CASE SyncReturn \/ LoopEvent \/ WakeUp \/ Drain \/ EndTurn \/ Killed \/ UNCHANGED vars
  BY <1>7 DEF SyncReturn, LoopEvent, WakeUp, Drain, EndTurn, Killed, vars, callVars
<1> QED BY <1>1, <1>2, <1>3, <1>4, <1>5, <1>6, <1>7 DEF Next

(* CompletePromise settles a promise once: a settled promise stays as it is. *)
THEOREM SettledForGood ==
  Spec => [][\A p \in Promises :
                state[p] \in {"fulfilled", "rejected"} => state'[p] = state[p]]_vars
<1>1. IInv /\ [Next]_vars =>
        \A p \in Promises : state[p] \in {"fulfilled", "rejected"} => state'[p] = state[p]
  BY StepsGoForward DEF Forward
<1> QED BY <1>1, InitIInv, NextIInv, PTL DEF Spec

-----------------------------------------------------------------------------
(* Whatever graphics.js does with the promises and ImageAPI with its map of
   bitmaps, what the bridge sees of it is calls that any module could make. *)
LEMMA ImagesStep == [ImagesNext]_allVars => [Next]_vars
<1> SUFFICES ASSUME [ImagesNext]_allVars PROVE [Next]_vars
  OBVIOUS
<1>1. CASE UNCHANGED allVars
  BY <1>1 DEF allVars
<1>2. CASE Others
  BY <1>2 DEF Others, Next
<1>3. ASSUME NEW i \in Pictures, NEW e \in tasks, CreateImage(i, e) PROVE Next
  BY <1>3 DEF CreateImage, Next
<1>4. ASSUME NEW i \in Pictures, NEW p \in Promises, Create(i, p) PROVE Next
  BY <1>4 DEF Create, CallJava, Next
<1>5. ASSUME NEW i \in Pictures, NEW kind \in Uses \cup {"resizeFit"}, Ask(i, kind)
      PROVE  UNCHANGED vars
  BY <1>5 DEF Ask
<1>6. ASSUME NEW i \in Pictures, NEW k \in 2 .. Len(ops[i]), GiveUp(i, k)
      PROVE  UNCHANGED vars
  BY <1>6 DEF GiveUp
<1>7. ASSUME NEW i \in Pictures, NEW k \in 2 .. Len(ops[i]), BeginUse(i, k) \/ EndUse(i, k)
      PROVE  Next
  BY <1>7 DEF BeginUse, EndUse, Next
<1>8. ASSUME NEW i \in Pictures, NEW k \in 2 .. Len(ops[i]),
             NEW p \in Promises, CallResize(i, k, p)
      PROVE  Next
  BY <1>8 DEF CallResize, CallJava, Next
<1>9. ASSUME NEW i \in Pictures, NEW k \in 2 .. Len(ops[i]),
             NEW e \in tasks, ResizeFit(i, k, e)
      PROVE  Next
  BY <1>9 DEF ResizeFit, Next
<1>10. ASSUME NEW i \in Pictures, CompressFatal(i) PROVE Next
  BY <1>10 DEF CompressFatal, Next
<1> QED
  BY <1>1, <1>2, <1>3, <1>4, <1>5, <1>6, <1>7, <1>8, <1>9, <1>10 DEF ImagesNext

(* The images over the bridge implement the bridge. *)
THEOREM ImagesImplementInvoker == ImagesSpec => Spec
<1>1. ImagesInit => Init
  BY DEF ImagesInit
<1> QED BY <1>1, ImagesStep, PTL DEF ImagesSpec, Spec

(* So no promise of an image is orphaned, or settled by another call than its
   own, whatever other modules call meanwhile. *)
THEOREM ImagesKeepInvoker == ImagesSpec => [](IInv /\ SettledByOwnCall)
<1> QED BY ImagesImplementInvoker, InvariantHolds, SettledByOwnCallHolds, PTL

-----------------------------------------------------------------------------
(* The operations of an image *)

LEMMA OpsPlaces ==
  ASSUME ImagesTypeOK, NEW i \in Pictures
  PROVE  /\ ops[i] \in Seq(Operation) /\ Len(ops[i]) \in Nat
         /\ DOMAIN ops[i] = 1 .. Len(ops[i])
         /\ \A k \in 1 .. Len(ops[i]) :
               /\ ops[i][k] \in Operation
               /\ ops[i][k].kind \in Chained \cup Uses
               /\ ops[i][k].at \in {"waiting", "called", "done", "failed"}
               /\ ops[i][k].promise \in Promises \cup {NoPromise}
<1>1. ops[i] \in Seq(Operation)
  BY DEF ImagesTypeOK
<1>2. \A k \in 1 .. Len(ops[i]) : ops[i][k] \in Operation
  BY <1>1, ElementOfSeq
<1> QED BY <1>1, <1>2, LenProperties DEF Operation

(* What an operation hangs on is there, replaced the promise, and nothing
   replaced it since. *)
LEMMA AwaitsIs ==
  ASSUME ImagesTypeOK, OpsInv, NEW i \in Pictures, NEW k \in 2 .. Len(ops[i])
  PROVE  /\ Awaits(i, k) \in 1 .. k - 1
         /\ ops[i][Awaits(i, k)].kind \in Chained
         /\ \A h \in Awaits(i, k) + 1 .. k - 1 : ops[i][h].kind \notin Chained
<1> DEFINE S == {j \in 1 .. k - 1 : ops[i][j].kind \in Chained}
<1>1. Len(ops[i]) \in Nat /\ k - 1 \in Nat /\ 1 \in 1 .. k - 1
  BY OpsPlaces
<1>2. ops[i] # <<>>
  BY <1>1, EmptySeq
<1>3. 1 \in S
  BY <1>1, <1>2 DEF OpsInv, Chained
<1>4. PICK a \in S : \A j \in S : j <= a
  BY <1>1, <1>3, Greatest
<1>5. \A h \in a + 1 .. k - 1 : ops[i][h].kind \notin Chained
  <2> SUFFICES ASSUME NEW h \in a + 1 .. k - 1, ops[i][h].kind \in Chained PROVE FALSE
    OBVIOUS
  <2>1. h \in S /\ a < h
    BY <1>1, <1>4
  <2> QED BY <1>1, <1>4, <2>1
<1>6. \E j \in 1 .. k - 1 : /\ ops[i][j].kind \in Chained
                            /\ \A h \in j + 1 .. k - 1 : ops[i][h].kind \notin Chained
  BY <1>4, <1>5
<1> QED BY <1>6 DEF Awaits

(* There is one place that fits the description. *)
LEMMA AwaitsThat ==
  ASSUME ImagesTypeOK, OpsInv, NEW i \in Pictures, NEW k \in 2 .. Len(ops[i]),
         NEW a \in 1 .. k - 1, ops[i][a].kind \in Chained,
         \A h \in a + 1 .. k - 1 : ops[i][h].kind \notin Chained
  PROVE  Awaits(i, k) = a
<1>1. /\ Awaits(i, k) \in 1 .. k - 1 /\ ops[i][Awaits(i, k)].kind \in Chained
      /\ \A h \in Awaits(i, k) + 1 .. k - 1 : ops[i][h].kind \notin Chained
  BY AwaitsIs
<1>2. Len(ops[i]) \in Nat
  BY OpsPlaces
<1>3. ~(a < Awaits(i, k))
  BY <1>1, <1>2
<1>4. ~(Awaits(i, k) < a)
  BY <1>1, <1>2
<1> QED BY <1>1, <1>2, <1>3, <1>4

(* What a change of one operation leaves alone. *)
LEMMA NowChanges ==
  ASSUME ImagesTypeOK, NEW i \in Pictures, NEW k \in 2 .. Len(ops[i]),
         NEW at \in {"waiting", "called", "done", "failed"},
         NEW p \in Promises \cup {NoPromise}, Now(i, k, at, p)
  PROVE  /\ ops' \in [Pictures -> Seq(Operation)]
         /\ \A h \in Pictures : Len(ops'[h]) = Len(ops[h]) /\ (h # i => ops'[h] = ops[h])
         /\ \A m \in 1 .. Len(ops[i]) : m # k => ops'[i][m] = ops[i][m]
         /\ ops'[i][k].kind = ops[i][k].kind
         /\ ops'[i][k].at = at /\ ops'[i][k].promise = p
<1> DEFINE o == Op(ops[i][k].kind, at, p)
<1>1. ops[i] \in Seq(Operation) /\ Len(ops[i]) \in Nat /\ DOMAIN ops[i] = 1 .. Len(ops[i])
  BY OpsPlaces
<1>2. k \in 1 .. Len(ops[i])
  BY <1>1
<1>3. o \in Operation /\ o.kind = ops[i][k].kind /\ o.at = at /\ o.promise = p
  BY <1>2, OpsPlaces DEF Operation, Op
<1> HIDE DEF o
<1>4. ops' = [ops EXCEPT ![i] = [ops[i] EXCEPT ![k] = o]]
  BY DEF Now, o
<1>5. /\ [ops[i] EXCEPT ![k] = o] \in Seq(Operation)
      /\ Len([ops[i] EXCEPT ![k] = o]) = Len(ops[i])
      /\ \A m \in 1 .. Len(ops[i]) :
            [ops[i] EXCEPT ![k] = o][m] = IF m = k THEN o ELSE ops[i][m]
  BY <1>1, <1>2, <1>3, ExceptSeq
<1>6. ops \in [Pictures -> Seq(Operation)]
  BY DEF ImagesTypeOK
<1> QED BY <1>2, <1>3, <1>4, <1>5, <1>6

(* What has settled stays settled, in an operation that does not change and in
   one that had no promise and had not failed. *)
LEMMA SettledStays ==
  ASSUME ImagesTypeOK, Forward, NEW i \in Pictures, NEW j \in 1 .. Len(ops[i]),
         \/ ops'[i][j] = ops[i][j]
         \/ ops[i][j].promise = NoPromise /\ ops[i][j].at # "failed"
  PROVE  /\ Fulfilled(i, j) => Fulfilled(i, j)'
         /\ Rejected(i, j) => Rejected(i, j)'
<1>1. ops[i][j].promise \in Promises \cup {NoPromise}
  BY OpsPlaces
<1> QED BY <1>1 DEF Fulfilled, Rejected, Settled, Forward

(* Whose turn it is: everything before it has left the wait, everything after
   it waits. *)
LEMMA DueOrder ==
  ASSUME ImagesInv, NEW i \in Pictures, NEW k \in 2 .. Len(ops[i]), Due(i, k),
         Fulfilled(i, Awaits(i, k)) \/ Rejected(i, Awaits(i, k))
  PROVE  /\ \A j \in 2 .. k - 1 : ops[i][j].at # "waiting"
         /\ \A j \in k .. Len(ops[i]) : ops[i][j].at = "waiting"
         /\ Fulfilled(i, Awaits(i, k)) =>
              \A j \in 1 .. k - 1 : ops[i][j].kind \in Chained => Fulfilled(i, j)
<1> DEFINE a == Awaits(i, k)
<1>0. ImagesTypeOK /\ OpsInv /\ OrderInv /\ Len(ops[i]) \in Nat
  BY OpsPlaces DEF ImagesInv
<1>1. /\ a \in 1 .. k - 1 /\ ops[i][a].kind \in Chained
      /\ \A h \in a + 1 .. k - 1 : ops[i][h].kind \notin Chained
  BY <1>0, AwaitsIs
<1>2. Fulfilled(i, a) \/ Rejected(i, a)
  OBVIOUS
<1>3. \A j \in a + 1 .. k - 1 : j \in 2 .. Len(ops[i]) /\ j \in 2 .. k - 1 /\ Awaits(i, j) = a
  <2> SUFFICES ASSUME NEW j \in a + 1 .. k - 1
               PROVE  j \in 2 .. Len(ops[i]) /\ j \in 2 .. k - 1 /\ Awaits(i, j) = a
    OBVIOUS
  <2>1. j \in 2 .. Len(ops[i]) /\ j \in 2 .. k - 1 /\ a \in 1 .. j - 1
    BY <1>0, <1>1
  <2>2. \A h \in a + 1 .. j - 1 : h \in a + 1 .. k - 1
    BY <1>0, <1>1
  <2> HIDE DEF a
  <2> QED BY <1>0, <1>1, <2>1, <2>2, AwaitsThat
<1>4. \A j \in a + 1 .. k - 1 : ops[i][j].at # "waiting"
  BY <1>3 DEF Due
<1>5. a # 1 => /\ a \in 2 .. Len(ops[i]) /\ ops[i][a].at # "waiting"
               /\ Fulfilled(i, a) => ops[i][a].at = "called"
  <2> SUFFICES ASSUME a # 1
               PROVE  /\ a \in 2 .. Len(ops[i]) /\ ops[i][a].at # "waiting"
                      /\ Fulfilled(i, a) => ops[i][a].at = "called"
    OBVIOUS
  <2>1. a \in 2 .. Len(ops[i])
    BY <1>0, <1>1
  <2> HIDE DEF a
  <2> QED BY <1>0, <1>2, <2>1 DEF OpsInv, Fulfilled, Rejected, Settled
<1> HIDE DEF a
<1>6. \A j \in 2 .. k - 1 : ops[i][j].at # "waiting"
  <2> SUFFICES ASSUME NEW j \in 2 .. k - 1 PROVE ops[i][j].at # "waiting"
    OBVIOUS
  <2>1. CASE j \in a + 1 .. k - 1
    BY <1>4, <2>1
  <2>2. CASE j = a
    BY <1>5, <2>2
  <2>3. CASE j < a
    <3>1. a # 1 /\ j \in 2 .. a - 1
      BY <1>0, <1>1, <2>3
    <3> QED BY <1>0, <1>5, <3>1 DEF OrderInv
  <2> QED BY <1>0, <1>1, <2>1, <2>2, <2>3
<1>7. \A j \in k .. Len(ops[i]) : ops[i][j].at = "waiting"
  <2> SUFFICES ASSUME NEW j \in k .. Len(ops[i]) PROVE ops[i][j].at = "waiting"
    OBVIOUS
  <2>1. j \in 2 .. Len(ops[i]) /\ (j # k => k \in 2 .. j - 1)
    BY <1>0
  <2> QED BY <1>0, <2>1 DEF OrderInv, Due
<1>8. ASSUME Fulfilled(i, a), NEW j \in 1 .. k - 1, ops[i][j].kind \in Chained
      PROVE  Fulfilled(i, j)
  <2>1. ~(j \in a + 1 .. k - 1)
    BY <1>1, <1>8
  <2>2. j = a \/ (a # 1 /\ j \in 1 .. a - 1)
    BY <1>0, <1>1, <2>1
  <2> QED BY <1>0, <1>5, <1>8, <2>2 DEF OrderInv
<1> QED BY <1>6, <1>7, <1>8 DEF a

(* No image is in use but one. *)
LEMMA OneInUse ==
  ASSUME ImagesInv, NEW i \in Pictures, NEW k \in 2 .. Len(ops[i]), InUse(i, k),
         NEW h \in Pictures, NEW m \in 2 .. Len(ops[h]), InUse(h, m)
  PROVE  h = i /\ m = k
<1>1. h = i /\ UseInv /\ Len(ops[i]) \in Nat
  BY OpsPlaces DEF ImagesInv, UseInv
<1>2. ~(m \in k + 1 .. Len(ops[i]))
  BY <1>1 DEF UseInv, InUse
<1>3. ~(k \in m + 1 .. Len(ops[i]))
  BY <1>1 DEF UseInv, InUse
<1> QED BY <1>1, <1>2, <1>3

(* What ImageAPI has of an image follows the outcome of the calls for it. *)
LEMMA CreatedInMap ==
  ASSUME ImagesInv, NEW i \in Pictures, i \in images
  PROVE  /\ ops[i] # <<>> /\ outcome[ops[i][1].promise] = "ok"
         /\ ~Rejected(i, 1) /\ bitmap[i] # "none"
<1>1. ops[i] # <<>> /\ outcome[ops[i][1].promise] = "ok" /\ bitmap[i] # "none"
  BY DEF ImagesInv, BitmapInv
<1>2. 1 \in 1 .. Len(ops[i])
  BY <1>1, OpsPlaces, EmptySeq DEF ImagesInv
<1>3. ops[i][1].promise \in Promises /\ ops[i][1].at = "called"
  BY <1>1, <1>2, OpsPlaces DEF ImagesInv, OpsInv
<1> QED BY <1>1, <1>3 DEF ImagesInv, IInv, SettledByOwnCall, Rejected, Settled

(* A call that is still running has no outcome and has settled nothing. *)
LEMMA RunningCall ==
  ASSUME ImagesInv, NEW i \in Pictures, NEW k \in 1 .. Len(ops[i]),
         NEW e \in tasks, ops[i][k].promise = e.promise
  PROVE  /\ e.promise \in Promises /\ e.promise # NoPromise /\ outcome[e.promise] = "none"
         /\ ~Fulfilled(i, k) /\ ~Settled(i, k, "rejected")
<1>1. e.promise \in Promises /\ outcome[e.promise] = "none"
  BY DEF ImagesInv, IInv, TypeOK, EntryInv, Entries
<1> QED
  BY <1>1, ImagesAssumption
     DEF ImagesInv, IInv, SettledByOwnCall, Fulfilled, Settled

(* Steps that ask for nothing and change no operation. *)
LEMMA OpsUntouched ==
  ASSUME ImagesInv, Forward, UNCHANGED ops, node = "java" => node' = "java"
  PROVE  OpsInv' /\ PromiseInv' /\ OrderInv' /\ UseInv'
<1> USE DEF ImagesInv
<1>1. \A i \in Pictures : \A j \in 1 .. Len(ops[i]) :
         /\ Fulfilled(i, j) => Fulfilled(i, j)'
         /\ Rejected(i, j) => Rejected(i, j)'
  BY SettledStays
<1>2. \A i \in Pictures : Len(ops[i]) \in Nat
  BY OpsPlaces
<1>3. \A i \in Pictures : \A k \in 2 .. Len(ops[i]) : \A j \in 1 .. k - 1 : j \in 1 .. Len(ops[i])
  BY <1>2
<1>4. OpsInv'
  BY DEF OpsInv
<1>5. PromiseInv'
  <2>1. \A i \in Pictures : \A k \in 1 .. Len(ops[i]) :
           ops[i][k].promise # NoPromise => ops[i][k].promise \in Promises
    BY OpsPlaces
  <2> QED BY <2>1 DEF PromiseInv, Forward
<1>6. OrderInv'
  BY <1>1, <1>3 DEF OrderInv
<1>7. UseInv'
  BY DEF UseInv, InUse
<1> QED BY <1>4, <1>5, <1>6, <1>7

(* An operation leaves the wait, or a use ends. *)
LEMMA OpMovesOn ==
  ASSUME ImagesInv, Forward, NEW i \in Pictures, NEW k \in 2 .. Len(ops[i]),
         NEW at \in {"called", "done", "failed"}, NEW p \in Promises \cup {NoPromise},
         Now(i, k, at, p), ops[i][k].at = "waiting" \/ InUse(i, k),
         p # NoPromise <=> ops[i][k].kind = "resizeFit" /\ at = "called",
         at = "done" => ops[i][k].kind \in Uses,
         p # NoPromise => state[p] = "unused" /\ state'[p] \notin {"unused", "undefined"},
         \A j \in 2 .. k - 1 : ops[i][j].at # "waiting",
         \/ \A j \in 1 .. k - 1 : ops[i][j].kind \in Chained => Fulfilled(i, j)
         \/ at = "failed" /\ \E j \in 1 .. k - 1 : Rejected(i, j)
  PROVE  /\ OpsInv' /\ PromiseInv' /\ OrderInv'
         /\ \A h \in Pictures : \A j \in 1 .. Len(ops[h]) :
               /\ Fulfilled(h, j) => Fulfilled(h, j)'
               /\ Rejected(h, j) => Rejected(h, j)'
<1> USE DEF ImagesInv
<1>1. /\ \A h \in Pictures : Len(ops'[h]) = Len(ops[h]) /\ (h # i => ops'[h] = ops[h])
      /\ \A m \in 1 .. Len(ops[i]) : m # k => ops'[i][m] = ops[i][m]
      /\ ops'[i][k].kind = ops[i][k].kind
      /\ ops'[i][k].at = at /\ ops'[i][k].promise = p
  BY NowChanges
<1>2. \A h \in Pictures : Len(ops[h]) \in Nat
  BY OpsPlaces
<1>3. ops[i][k].promise = NoPromise /\ ops[i][k].at # "failed"
  BY DEF OpsInv, InUse, Uses
<1>4. \A h \in Pictures : \A j \in 1 .. Len(ops[h]) :
         /\ Fulfilled(h, j) => Fulfilled(h, j)'
         /\ Rejected(h, j) => Rejected(h, j)'
  <2> SUFFICES ASSUME NEW h \in Pictures, NEW j \in 1 .. Len(ops[h])
               PROVE  /\ Fulfilled(h, j) => Fulfilled(h, j)'
                      /\ Rejected(h, j) => Rejected(h, j)'
    OBVIOUS
  <2>1. \/ ops'[h][j] = ops[h][j]
        \/ ops[h][j].promise = NoPromise /\ ops[h][j].at # "failed"
    BY <1>1, <1>3
  <2> QED BY <2>1, SettledStays
<1>5. \A h \in Pictures : \A m \in 1 .. Len(ops[h]) : ops'[h][m].kind = ops[h][m].kind
  BY <1>1
<1>6. OpsInv'
  <2>1. \A h \in Pictures : ops'[h] # <<>> => ops[h] # <<>> /\ ops'[h][1] = ops[h][1]
    <3> SUFFICES ASSUME NEW h \in Pictures, ops'[h] # <<>>
                 PROVE  ops[h] # <<>> /\ ops'[h][1] = ops[h][1]
      OBVIOUS
    <3>1. CASE h # i
      BY <1>1, <3>1
    <3>2. CASE h = i
      BY <1>1, <1>2, <3>2, EmptySeq
    <3> QED BY <3>1, <3>2
  <2>2. \A h \in Pictures : \A m \in 2 .. Len(ops[h]) :
           h # i \/ m # k => ops'[h][m] = ops[h][m]
    <3>1. \A h \in Pictures : \A m \in 2 .. Len(ops[h]) : m \in 1 .. Len(ops[h])
      BY <1>2
    <3> QED BY <1>1, <3>1
  <2>3. ops[i][k].kind # "create"
    BY DEF OpsInv
  <2> QED BY <1>1, <2>1, <2>2, <2>3 DEF OpsInv
<1>7. PromiseInv'
  <2> SUFFICES ASSUME NEW h \in Pictures, NEW m \in 1 .. Len(ops'[h]),
                      ops'[h][m].promise # NoPromise
               PROVE  /\ state'[ops'[h][m].promise] \notin {"unused", "undefined"}
                      /\ \A g \in Pictures : \A n \in 1 .. Len(ops'[g]) :
                            ops'[g][n].promise = ops'[h][m].promise => g = h /\ n = m
    BY DEF PromiseInv
  <2>1. \A g \in Pictures : \A n \in 1 .. Len(ops[g]) :
           ops[g][n].promise # NoPromise => /\ ops[g][n].promise \in Promises
                                            /\ ops[g][n].promise # p
    <3> SUFFICES ASSUME NEW g \in Pictures, NEW n \in 1 .. Len(ops[g]),
                        ops[g][n].promise # NoPromise
                 PROVE  ops[g][n].promise \in Promises /\ ops[g][n].promise # p
      OBVIOUS
    <3>1. ops[g][n].promise \in Promises
      BY OpsPlaces
    <3>2. state[ops[g][n].promise] # "unused"
      BY DEF PromiseInv
    <3> QED BY <3>1, <3>2
  <2>2. \A g \in Pictures : \A n \in 1 .. Len(ops[g]) : g # i \/ n # k => ops'[g][n] = ops[g][n]
    BY <1>1
  <2>3. CASE h = i /\ m = k
    BY <1>1, <2>1, <2>2, <2>3
  <2>4. CASE h # i \/ m # k
    <3>1. ops'[h][m] = ops[h][m] /\ m \in 1 .. Len(ops[h])
      BY <1>1, <2>2, <2>4
    <3>2. state'[ops'[h][m].promise] \notin {"unused", "undefined"}
      BY <2>1, <3>1 DEF PromiseInv, Forward
    <3>3. ASSUME NEW g \in Pictures, NEW n \in 1 .. Len(ops'[g]),
                 ops'[g][n].promise = ops'[h][m].promise
          PROVE  g = h /\ n = m
      <4>1. n \in 1 .. Len(ops[g]) /\ (g # i \/ n # k)
        BY <1>1, <2>1, <3>1, <3>3
      <4>2. ops[g][n].promise = ops[h][m].promise
        BY <2>2, <3>1, <3>3, <4>1
      <4> QED BY <3>1, <4>1, <4>2 DEF PromiseInv
    <3> QED BY <3>2, <3>3
  <2> QED BY <2>3, <2>4
<1>8. OrderInv'
  <2> SUFFICES ASSUME NEW h \in Pictures, NEW m \in 2 .. Len(ops'[h])
               PROVE  /\ ops'[h][m].at # "waiting" =>
                           \A j \in 2 .. m - 1 : ops'[h][j].at # "waiting"
                      /\ ops'[h][m].at \in {"called", "done"} =>
                           \A j \in 1 .. m - 1 :
                              ops'[h][j].kind \in Chained => Fulfilled(h, j)'
                      /\ ops'[h][m].at = "failed" =>
                           \/ \A j \in 1 .. m - 1 :
                                 ops'[h][j].kind \in Chained => Fulfilled(h, j)'
                           \/ \E j \in 1 .. m - 1 : Rejected(h, j)'
    BY DEF OrderInv
  <2>1. /\ m \in 2 .. Len(ops[h]) /\ m \in 1 .. Len(ops[h])
        /\ \A j \in 1 .. m - 1 : j \in 1 .. Len(ops[h])
        /\ \A j \in 2 .. m - 1 : j \in 1 .. m - 1
    BY <1>1, <1>2
  <2>2. CASE h = i /\ m = k
    BY <1>1, <1>4, <1>5, <2>1, <2>2
  <2>3. CASE h # i \/ m # k
    <3>1. ops'[h][m] = ops[h][m]
      BY <1>1, <2>1, <2>3
    <3>2. \A j \in 1 .. m - 1 : ops[h][j].at # "waiting" => ops'[h][j].at # "waiting"
      BY <1>1, <2>1
    <3> QED BY <1>4, <1>5, <2>1, <3>1, <3>2 DEF OrderInv
  <2> QED BY <2>2, <2>3
<1> QED BY <1>4, <1>6, <1>7, <1>8

(* The outcomes that what is known of bitmaps rests on, as long as no call for
   an image returns. *)
LEMMA OutcomesUntouched ==
  ASSUME ImagesInv, images' \subseteq images, UNCHANGED <<bitmap, scaled>>,
         \A h \in Pictures : /\ Len(ops'[h]) >= Len(ops[h]) /\ Len(ops'[h]) \in Nat
                             /\ ops[h] # <<>> => ops'[h] # <<>> /\ ops'[h][1] = ops[h][1]
                             /\ ops'[h] # <<>> /\ ops[h] = <<>>
                                  => outcome'[ops'[h][1].promise] # "ok"
                             /\ \A m \in 2 .. Len(ops'[h]) :
                                   /\ m \in 1 .. Len(ops[h]) /\ ops'[h][m] = ops[h][m]
                                   \/ /\ m \in 1 .. Len(ops[h]) => ops[h][m].promise = NoPromise
                                      /\ \/ ops'[h][m].promise = NoPromise
                                         \/ outcome'[ops'[h][m].promise] # "ok",
         \A h \in Pictures : \A m \in 1 .. Len(ops[h]) : ops[h][m].promise # NoPromise
            => outcome'[ops[h][m].promise] = outcome[ops[h][m].promise]
  PROVE  /\ BitmapInv' /\ ScaledInv'
         /\ \A h \in Pictures : Resized(h)' = Resized(h)
<1> USE DEF ImagesInv
<1>1. \A h \in Pictures : Len(ops[h]) \in Nat
  BY OpsPlaces
<1>2. \A h \in Pictures : ops[h] # <<>> => 1 \in 1 .. Len(ops[h]) /\ ops[h][1].promise # NoPromise
  BY <1>1, OpsPlaces, EmptySeq DEF OpsInv
<1>3. BitmapInv'
  <2> SUFFICES ASSUME NEW h \in Pictures
               PROVE  /\ bitmap[h] # "none"
                           <=> ops'[h] # <<>> /\ outcome'[ops'[h][1].promise] = "ok"
                      /\ h \in images' => bitmap[h] # "none"
    BY DEF BitmapInv
  <2>1. /\ bitmap[h] # "none" <=> ops[h] # <<>> /\ outcome[ops[h][1].promise] = "ok"
        /\ h \in images => bitmap[h] # "none"
    BY DEF BitmapInv
  <2>2. CASE ops[h] # <<>>
    BY <1>2, <2>1, <2>2
  <2>3. CASE ops[h] = <<>>
    BY <2>1, <2>3
  <2> QED BY <2>2, <2>3
<1>4. ASSUME NEW h \in Pictures PROVE Resized(h)' = Resized(h)
  <2>1. \A m \in 2 .. Len(ops[h]) : m \in 2 .. Len(ops'[h]) /\ m \in 1 .. Len(ops[h])
    BY <1>1
  <2>2. \A m \in 2 .. Len(ops'[h]) : m \in 1 .. Len(ops[h]) => m \in 2 .. Len(ops[h])
    BY <1>1
  <2>3. Resized(h)' \subseteq Resized(h)
    BY <2>1, <2>2 DEF Resized
  <2>4. Resized(h) \subseteq Resized(h)'
    BY <2>1, <2>2 DEF Resized
  <2> QED BY <2>3, <2>4
<1>5. ScaledInv'
  BY <1>4 DEF ScaledInv
<1> QED BY <1>3, <1>4, <1>5

(* What is known of uses, as long as no use ends but one that gives up after a
   failure. *)
LEMMA UsesUntouched ==
  ASSUME ImagesInv, Forward, UNCHANGED <<images, bitmap, scaled, saw>>,
         \A h \in Pictures : Resized(h)' = Resized(h),
         \A h \in Pictures : \A j \in 1 .. Len(ops[h]) : Rejected(h, j) => Rejected(h, j)',
         \A h \in Pictures : \A m \in 2 .. Len(ops'[h]) :
            ops'[h][m].kind \in Uses /\ ops'[h][m].at \in {"done", "failed"} =>
               /\ m \in 2 .. Len(ops[h])
               /\ \/ ops'[h][m] = ops[h][m]
                  \/ /\ ops'[h][m].at = "failed"
                     /\ h \in images => \E j \in 2 .. m - 1 : Rejected(h, j)
  PROVE  UsedInv' /\ TokenIsGivenBack'
<1> USE DEF ImagesInv
<1>1. \A h \in Pictures : Len(ops[h]) \in Nat
  BY OpsPlaces
<1>2. \A h \in Pictures : \A m \in 2 .. Len(ops'[h]) :
         Used(h, m)' => m \in 2 .. Len(ops[h]) /\ Used(h, m)
  BY DEF Used
<1>3. UsedInv'
  BY <1>2 DEF UsedInv
<1>4. TokenIsGivenBack'
  <2> SUFFICES ASSUME NEW h \in images, NEW m \in 2 .. Len(ops'[h]),
                      ops'[h][m].kind \in Uses, ops'[h][m].at \in {"done", "failed"}
               PROVE  bitmap[h] = "null" \/ \E j \in 2 .. m - 1 : Rejected(h, j)'
    BY DEF TokenIsGivenBack
  <2>1. h \in Pictures /\ m \in 2 .. Len(ops[h])
    BY DEF ImagesTypeOK
  <2>2. bitmap[h] = "null" \/ \E j \in 2 .. m - 1 : Rejected(h, j)
    BY <2>1 DEF TokenIsGivenBack
  <2>3. \A j \in 2 .. m - 1 : j \in 1 .. Len(ops[h])
    BY <1>1, <2>1
  <2> QED BY <2>1, <2>2, <2>3
<1> QED BY <1>3, <1>4

-----------------------------------------------------------------------------
(* The steps of JavaScript *)

LEMMA InitImagesInv == ImagesInit => ImagesInv
<1> SUFFICES ASSUME ImagesInit PROVE ImagesInv
  OBVIOUS
<1>1. IInv
  BY InitIInv DEF ImagesInit
<1>2. \A S : <<>> \in Seq(S)
  BY EmptySeq
<1>3. Len(<<>>) = 0 /\ DOMAIN <<>> = {} /\ ToSet(<<>>) = {}
  BY EmptySeq, EmptyList
<1>4. \A i \in Pictures : ops[i] = <<>> /\ scaled[i] = <<>> /\ bitmap[i] = "none"
  BY DEF ImagesInit
<1>5. \A i \in Pictures : 1 .. Len(ops[i]) = {} /\ 2 .. Len(ops[i]) = {}
  BY <1>3, <1>4
<1>6. ImagesTypeOK
  BY <1>2 DEF ImagesInit, ImagesTypeOK
<1>7. OpsInv /\ PromiseInv /\ OrderInv /\ UseInv /\ UsedInv
  BY <1>4, <1>5 DEF OpsInv, PromiseInv, OrderInv, UseInv, UsedInv
<1>8. BitmapInv /\ TokenIsGivenBack
  BY <1>4 DEF ImagesInit, BitmapInv, TokenIsGivenBack
<1>9. ScaledInv
  BY <1>3, <1>4, <1>5 DEF ScaledInv, InOrder, Resized
<1> QED BY <1>1, <1>6, <1>7, <1>8, <1>9 DEF ImagesInv

(* A promise that callJavaAsync hands out is new, and its call has not returned
   before it is even under way. *)
LEMMA CallJavaIs ==
  ASSUME IInv, NEW p \in Promises, CallJava(p)
  PROVE  /\ p # NoPromise /\ state[p] = "unused"
         /\ state'[p] \notin {"unused", "undefined"} /\ outcome'[p] # "ok"
         /\ \A q \in Promises : q # p => outcome'[q] = outcome[q]
         /\ node = "busy" /\ node' = "busy"
<1>1. PICK m \in Methods : InvokeAsync(p, m)
  BY DEF CallJava
<1>2. state[p] = "unused" /\ node = "busy" /\ node' = "busy" /\ outcome[p] = "none"
  BY <1>1 DEF InvokeAsync, loopVars, IInv, EntryInv
<1>3. /\ state \in [Promises -> PromiseStates]
      /\ outcome \in [Promises -> {"none", "ok", "error", "refused"}]
  BY DEF IInv, TypeOK
<1>4. /\ state'[p] # "unused" /\ outcome'[p] # "ok"
      /\ \A q \in Promises : q # p => outcome'[q] = outcome[q]
  BY <1>1, <1>2, <1>3
     DEF InvokeAsync, NotMarshalled, NoSuchFunction, Accepted, Refused
<1> QED BY <1>2, <1>4, ImagesAssumption DEF CallJava

LEMMA CreateStep ==
  ASSUME ImagesInv, IInv', Forward, NEW i \in Pictures, NEW p \in Promises, Create(i, p)
  PROVE  ImagesInv'
<1> USE DEF ImagesInv
<1> DEFINE o == Op("create", "called", p)
<1>1. /\ ops[i] = <<>> /\ CallJava(p) /\ ops' = [ops EXCEPT ![i] = <<o>>]
      /\ UNCHANGED <<images, bitmap, scaled, saw>>
  BY DEF Create
<1>2. /\ p # NoPromise /\ state[p] = "unused"
      /\ state'[p] \notin {"unused", "undefined"} /\ outcome'[p] # "ok"
      /\ \A q \in Promises : q # p => outcome'[q] = outcome[q]
      /\ node = "busy" /\ node' = "busy"
  BY <1>1, CallJavaIs
<1>3. /\ o \in Operation /\ o.kind = "create" /\ o.at = "called" /\ o.promise = p
  BY DEF Op, Operation, Chained
<1> HIDE DEF o
<1>4. <<o>> \in Seq(Operation) /\ Len(<<o>>) = 1 /\ <<o>>[1] = o /\ <<o>> # <<>>
  BY <1>3
<1>5. ops \in [Pictures -> Seq(Operation)]
  BY DEF ImagesTypeOK
<1>6. /\ ops'[i] = <<o>> /\ Len(ops'[i]) = 1 /\ ops'[i] # <<>> /\ ops'[i][1] = o
      /\ \A h \in Pictures : h # i => ops'[h] = ops[h]
      /\ ops' \in [Pictures -> Seq(Operation)]
  BY <1>1, <1>4, <1>5
<1>7. \A h \in Pictures : Len(ops[h]) \in Nat
  BY OpsPlaces
<1>8. Len(ops[i]) = 0 /\ 1 .. Len(ops[i]) = {} /\ 2 .. Len(ops[i]) = {}
  BY <1>1, EmptySeq
<1>9. 2 .. Len(ops'[i]) = {} /\ 1 .. Len(ops'[i]) = {1}
  BY <1>6
<1>10. \A h \in Pictures : \A m \in 1 .. Len(ops[h]) :
          /\ h # i /\ ops'[h][m] = ops[h][m]
          /\ ops[h][m].promise # NoPromise =>
               ops[h][m].promise \in Promises /\ ops[h][m].promise # p
  BY <1>2, <1>6, <1>8, OpsPlaces DEF PromiseInv
<1>11. \A h \in Pictures : \A j \in 1 .. Len(ops[h]) :
          /\ Fulfilled(h, j) => Fulfilled(h, j)'
          /\ Rejected(h, j) => Rejected(h, j)'
  BY <1>10, SettledStays
<1>12. ImagesTypeOK'
  BY <1>1, <1>6 DEF ImagesTypeOK
<1>13. OpsInv'
  BY <1>2, <1>3, <1>6, <1>9 DEF OpsInv
<1>14. PromiseInv'
  <2> SUFFICES ASSUME NEW h \in Pictures, NEW m \in 1 .. Len(ops'[h]),
                      ops'[h][m].promise # NoPromise
               PROVE  /\ state'[ops'[h][m].promise] \notin {"unused", "undefined"}
                      /\ \A g \in Pictures : \A n \in 1 .. Len(ops'[g]) :
                            ops'[g][n].promise = ops'[h][m].promise => g = h /\ n = m
    BY DEF PromiseInv
  <2>1. CASE h = i
    BY <1>3, <1>6, <1>9, <1>10, <1>2, <2>1
  <2>2. CASE h # i
    <3>1. ops'[h][m] = ops[h][m] /\ m \in 1 .. Len(ops[h])
      BY <1>6, <2>2
    <3>2. state'[ops'[h][m].promise] \notin {"unused", "undefined"}
      BY <1>10, <3>1 DEF PromiseInv, Forward
    <3>3. ASSUME NEW g \in Pictures, NEW n \in 1 .. Len(ops'[g]),
                 ops'[g][n].promise = ops'[h][m].promise
          PROVE  g = h /\ n = m
      <4>1. g # i
        BY <1>3, <1>6, <1>9, <1>10, <3>1, <3>3
      <4> QED BY <1>6, <3>1, <3>3, <4>1 DEF PromiseInv
    <3> QED BY <3>2, <3>3
  <2> QED BY <2>1, <2>2
<1>15. OrderInv'
  <2> SUFFICES ASSUME NEW h \in Pictures, NEW k \in 2 .. Len(ops'[h])
               PROVE  /\ ops'[h][k].at # "waiting" =>
                            \A j \in 2 .. k - 1 : ops'[h][j].at # "waiting"
                      /\ ops'[h][k].at \in {"called", "done"} =>
                            \A j \in 1 .. k - 1 :
                               ops'[h][j].kind \in Chained => Fulfilled(h, j)'
                      /\ ops'[h][k].at = "failed" =>
                            \/ \A j \in 1 .. k - 1 :
                                  ops'[h][j].kind \in Chained => Fulfilled(h, j)'
                            \/ \E j \in 1 .. k - 1 : Rejected(h, j)'
    BY DEF OrderInv
  <2>1. h # i /\ ops'[h] = ops[h] /\ k \in 2 .. Len(ops[h])
    BY <1>6, <1>9
  <2>2. \A j \in 1 .. k - 1 : j \in 1 .. Len(ops[h])
    BY <1>7, <2>1
  <2> QED BY <1>11, <2>1, <2>2 DEF OrderInv
<1>16. UseInv'
  <2>1. \A h \in Pictures : \A m \in 2 .. Len(ops'[h]) : ~InUse(h, m)'
    BY <1>2, <1>6, <1>9 DEF UseInv, InUse
  <2> QED BY <2>1 DEF UseInv
<1>17. /\ BitmapInv' /\ ScaledInv'
       /\ \A h \in Pictures : Resized(h)' = Resized(h)
  <2>1. \A h \in Pictures :
          /\ Len(ops'[h]) >= Len(ops[h]) /\ Len(ops'[h]) \in Nat
          /\ ops[h] # <<>> => ops'[h] # <<>> /\ ops'[h][1] = ops[h][1]
          /\ ops'[h] # <<>> /\ ops[h] = <<>> => outcome'[ops'[h][1].promise] # "ok"
    BY <1>1, <1>2, <1>3, <1>6, <1>7, <1>8
  <2>2. \A h \in Pictures : \A m \in 2 .. Len(ops'[h]) :
           m \in 1 .. Len(ops[h]) /\ ops'[h][m] = ops[h][m]
    BY <1>6, <1>7, <1>9
  <2> QED BY <1>1, <1>2, <1>10, <2>1, <2>2, OutcomesUntouched
<1>18. UsedInv' /\ TokenIsGivenBack'
  <2>1. \A h \in Pictures : \A m \in 2 .. Len(ops'[h]) :
           m \in 2 .. Len(ops[h]) /\ ops'[h][m] = ops[h][m]
    BY <1>6, <1>7, <1>9
  <2> QED BY <1>1, <1>11, <1>17, <2>1, UsesUntouched
<1> QED BY <1>12, <1>13, <1>14, <1>15, <1>16, <1>17, <1>18

LEMMA AskStep ==
  ASSUME ImagesInv, IInv', Forward, NEW i \in Pictures,
         NEW kind \in Uses \cup {"resizeFit"}, Ask(i, kind)
  PROVE  ImagesInv'
<1> USE DEF ImagesInv
<1> DEFINE o == Op(kind, "waiting", NoPromise)
           n == Len(ops[i]) + 1
<1>1. /\ Len(ops[i]) >= 1 /\ ops' = [ops EXCEPT ![i] = Append(@, o)]
      /\ UNCHANGED <<vars, images, bitmap, scaled, saw>>
  BY DEF Ask
<1>2. /\ o \in Operation /\ o.kind = kind /\ o.at = "waiting" /\ o.promise = NoPromise
      /\ kind \in Uses \cup {"resizeFit"} /\ kind # "create"
  BY DEF Op, Operation, Chained, Uses
<1> HIDE DEF o
<1>3. /\ ops \in [Pictures -> Seq(Operation)] /\ ops[i] \in Seq(Operation)
      /\ \A h \in Pictures : Len(ops[h]) \in Nat
  BY OpsPlaces DEF ImagesTypeOK
<1>4. /\ Append(ops[i], o) \in Seq(Operation) /\ Len(Append(ops[i], o)) = n
      /\ \A m \in 1 .. Len(ops[i]) : Append(ops[i], o)[m] = ops[i][m]
      /\ Append(ops[i], o)[n] = o
  BY <1>2, <1>3, AppendProperties
<1>5. /\ ops' \in [Pictures -> Seq(Operation)]
      /\ ops'[i] = Append(ops[i], o)
      /\ \A h \in Pictures : h # i => ops'[h] = ops[h]
  BY <1>1, <1>3, <1>4
<1>6. /\ Len(ops'[i]) = n /\ ops'[i][n] = o /\ n \in Nat /\ n >= 2
      /\ \A h \in Pictures : \A m \in 1 .. Len(ops[h]) : ops'[h][m] = ops[h][m]
  BY <1>1, <1>3, <1>4, <1>5
<1>7. \A h \in Pictures : \A m \in 1 .. Len(ops'[h]) :
         \/ m \in 1 .. Len(ops[h]) /\ (m # 1 => m \in 2 .. Len(ops[h]))
         \/ h = i /\ m = n
  BY <1>3, <1>5, <1>6
<1>8. \A h \in Pictures : \A m \in 2 .. Len(ops'[h]) : m \in 1 .. Len(ops'[h]) /\ m # 1
  BY <1>3, <1>5, <1>6
<1>9. \A h \in Pictures : \A k \in 2 .. Len(ops[h]) : \A j \in 1 .. k - 1 : j \in 1 .. Len(ops[h])
  BY <1>3
<1>10. \A h \in Pictures : \A j \in 1 .. Len(ops[h]) :
          /\ Fulfilled(h, j) => Fulfilled(h, j)'
          /\ Rejected(h, j) => Rejected(h, j)'
  BY <1>6, SettledStays
<1>11. /\ UNCHANGED <<images, bitmap, scaled, saw, node, state, outcome>>
       /\ ops[i] # <<>> /\ ops'[i] # <<>>
  BY <1>1, <1>3, <1>6, EmptySeq DEF vars, loopVars, callVars
<1> HIDE DEF n
<1>12. ImagesTypeOK'
  BY <1>5, <1>11 DEF ImagesTypeOK
<1>13. OpsInv'
  <2>1. \A h \in Pictures : ops'[h] # <<>> => ops[h] # <<>> /\ ops'[h][1] = ops[h][1]
    <3> SUFFICES ASSUME NEW h \in Pictures, ops'[h] # <<>>
                 PROVE  ops[h] # <<>> /\ ops'[h][1] = ops[h][1]
      OBVIOUS
    <3>1. ops[h] # <<>>
      BY <1>5, <1>11
    <3>2. 1 \in 1 .. Len(ops[h])
      BY <1>3, <3>1, EmptySeq DEF ImagesTypeOK
    <3> QED BY <1>6, <3>1, <3>2
  <2>2. \A h \in Pictures : \A m \in 2 .. Len(ops'[h]) :
           \/ m \in 2 .. Len(ops[h]) /\ ops'[h][m] = ops[h][m]
           \/ ops'[h][m] = o
    BY <1>6, <1>7, <1>8
  <2>3. \A h \in Pictures : ops'[h] # <<>> =>
           /\ ops'[h][1].kind = "create" /\ ops'[h][1].at = "called"
           /\ ops'[h][1].promise # NoPromise
    BY <2>1 DEF OpsInv
  <2>4. ASSUME NEW h \in Pictures, NEW m \in 2 .. Len(ops'[h])
        PROVE  /\ ops'[h][m].kind # "create"
               /\ ops'[h][m].promise # NoPromise
                     <=> ops'[h][m].kind = "resizeFit" /\ ops'[h][m].at = "called"
               /\ ops'[h][m].at = "done" => ops'[h][m].kind \in Uses
    <3>1. CASE m \in 2 .. Len(ops[h]) /\ ops'[h][m] = ops[h][m]
      BY <3>1 DEF OpsInv
    <3>2. CASE ops'[h][m] = o
      BY <1>2, <3>2
    <3> QED BY <2>2, <3>1, <3>2
  <2> QED BY <2>3, <2>4 DEF OpsInv
<1>14. PromiseInv'
  <2>1. \A h \in Pictures : \A m \in 1 .. Len(ops'[h]) : ops'[h][m].promise # NoPromise =>
           m \in 1 .. Len(ops[h]) /\ ops'[h][m] = ops[h][m]
    BY <1>2, <1>6, <1>7
  <2>2. ASSUME NEW h \in Pictures, NEW m \in 1 .. Len(ops'[h]),
               ops'[h][m].promise # NoPromise
        PROVE  /\ state'[ops'[h][m].promise] \notin {"unused", "undefined"}
               /\ \A g \in Pictures : \A l \in 1 .. Len(ops'[g]) :
                     ops'[g][l].promise = ops'[h][m].promise => g = h /\ l = m
    <3>1. m \in 1 .. Len(ops[h]) /\ ops'[h][m] = ops[h][m]
      BY <2>1, <2>2
    <3>2. state'[ops'[h][m].promise] \notin {"unused", "undefined"}
      BY <1>11, <2>2, <3>1 DEF PromiseInv
    <3>3. ASSUME NEW g \in Pictures, NEW l \in 1 .. Len(ops'[g]),
                 ops'[g][l].promise = ops'[h][m].promise
          PROVE  g = h /\ l = m
      <4>1. l \in 1 .. Len(ops[g]) /\ ops'[g][l] = ops[g][l]
        BY <2>1, <2>2, <3>3
      <4> QED BY <2>2, <3>1, <3>3, <4>1 DEF PromiseInv
    <3> QED BY <3>2, <3>3
  <2> QED BY <2>2 DEF PromiseInv
<1>15. OrderInv'
  <2> SUFFICES ASSUME NEW h \in Pictures, NEW m \in 2 .. Len(ops'[h]), ops'[h][m].at # "waiting"
               PROVE  /\ \A j \in 2 .. m - 1 : ops'[h][j].at # "waiting"
                      /\ ops'[h][m].at \in {"called", "done"} =>
                           \A j \in 1 .. m - 1 :
                              ops'[h][j].kind \in Chained => Fulfilled(h, j)'
                      /\ ops'[h][m].at = "failed" =>
                           \/ \A j \in 1 .. m - 1 :
                                 ops'[h][j].kind \in Chained => Fulfilled(h, j)'
                           \/ \E j \in 1 .. m - 1 : Rejected(h, j)'
    BY <1>2 DEF OrderInv
  <2>1. m \in 2 .. Len(ops[h]) /\ ops'[h][m] = ops[h][m]
    BY <1>2, <1>6, <1>7, <1>8
  <2>2. \A j \in 1 .. m - 1 : j \in 1 .. Len(ops[h]) /\ ops'[h][j] = ops[h][j]
    BY <1>6, <1>9, <2>1
  <2>3. \A j \in 2 .. m - 1 : j \in 1 .. m - 1
    BY <1>3, <2>1
  <2> QED BY <1>10, <2>1, <2>2, <2>3 DEF OrderInv
<1>16. UseInv'
  <2>1. \A h \in Pictures : \A m \in 2 .. Len(ops'[h]) : ~InUse(h, m)'
    <3> SUFFICES ASSUME NEW h \in Pictures, NEW m \in 2 .. Len(ops'[h]), InUse(h, m)'
                 PROVE  FALSE
      OBVIOUS
    <3>1. m \in 2 .. Len(ops[h]) /\ ops'[h][m] = ops[h][m]
      BY <1>2, <1>6, <1>7, <1>8 DEF InUse
    <3> QED BY <3>1 DEF InUse, UseInv, Ask
  <2> QED BY <2>1 DEF UseInv
<1>17. /\ BitmapInv' /\ ScaledInv'
       /\ \A h \in Pictures : Resized(h)' = Resized(h)
  <2>1. \A h \in Pictures :
          /\ Len(ops'[h]) >= Len(ops[h]) /\ Len(ops'[h]) \in Nat
          /\ ops[h] # <<>> => ops'[h] # <<>> /\ ops'[h][1] = ops[h][1]
          /\ ops'[h] # <<>> /\ ops[h] = <<>> => outcome'[ops'[h][1].promise] # "ok"
    <3> SUFFICES ASSUME NEW h \in Pictures
                 PROVE  /\ Len(ops'[h]) >= Len(ops[h]) /\ Len(ops'[h]) \in Nat
                        /\ ops[h] # <<>> => ops'[h] # <<>> /\ ops'[h][1] = ops[h][1]
                        /\ ops'[h] # <<>> /\ ops[h] = <<>> => outcome'[ops'[h][1].promise] # "ok"
      OBVIOUS
    <3>1. CASE h # i
      BY <1>3, <1>5, <3>1
    <3>2. CASE h = i
      BY <1>1, <1>3, <1>6, <1>11, <3>2 DEF n
    <3> QED BY <3>1, <3>2
  <2>2. \A h \in Pictures : \A m \in 2 .. Len(ops'[h]) :
           \/ m \in 1 .. Len(ops[h]) /\ ops'[h][m] = ops[h][m]
           \/ m \notin 1 .. Len(ops[h]) /\ ops'[h][m].promise = NoPromise
    <3>1. n \notin 1 .. Len(ops[i])
      BY <1>3 DEF n
    <3> QED BY <1>2, <1>6, <1>7, <1>8, <3>1
  <2> QED BY <1>11, <2>1, <2>2, OutcomesUntouched
<1>18. UsedInv' /\ TokenIsGivenBack'
  <2>1. \A h \in Pictures : \A m \in 2 .. Len(ops'[h]) :
           ops'[h][m].at # "waiting" => m \in 2 .. Len(ops[h]) /\ ops'[h][m] = ops[h][m]
    BY <1>2, <1>6, <1>7, <1>8
  <2>2. \A h \in Pictures : \A m \in 2 .. Len(ops'[h]) :
           ops'[h][m].kind \in Uses /\ ops'[h][m].at \in {"done", "failed"} =>
              m \in 2 .. Len(ops[h]) /\ ops'[h][m] = ops[h][m]
    BY <2>1
  <2> QED BY <1>10, <1>11, <1>17, <2>2, UsesUntouched
<1> QED BY <1>12, <1>13, <1>14, <1>15, <1>16, <1>17, <1>18

(* What an operation that moves on leaves to be shown when it is neither the
   end of a use nor a call that has returned. *)
LEMMA MovesOnUnused ==
  ASSUME ImagesInv, Forward, NEW i \in Pictures, NEW k \in 2 .. Len(ops[i]),
         NEW at \in {"called", "failed"}, NEW p \in Promises \cup {NoPromise},
         Now(i, k, at, p), ops[i][k].at = "waiting",
         UNCHANGED <<images, bitmap, scaled, saw>>,
         p = NoPromise \/ outcome'[p] # "ok",
         \A q \in Promises : q # p => outcome'[q] = outcome[q],
         p # NoPromise => state[p] = "unused",
         \A h \in Pictures : \A j \in 1 .. Len(ops[h]) : Rejected(h, j) => Rejected(h, j)',
         at = "failed" /\ ops[i][k].kind \in Uses =>
            (i \in images => \E j \in 2 .. k - 1 : Rejected(i, j))
  PROVE  ImagesTypeOK' /\ BitmapInv' /\ ScaledInv' /\ UsedInv' /\ TokenIsGivenBack'
<1> USE DEF ImagesInv
<1>1. /\ ops' \in [Pictures -> Seq(Operation)]
      /\ \A h \in Pictures : Len(ops'[h]) = Len(ops[h]) /\ (h # i => ops'[h] = ops[h])
      /\ \A m \in 1 .. Len(ops[i]) : m # k => ops'[i][m] = ops[i][m]
      /\ ops'[i][k].kind = ops[i][k].kind
      /\ ops'[i][k].at = at /\ ops'[i][k].promise = p
  BY NowChanges
<1>2. /\ ops[i][k].promise = NoPromise
      /\ \A h \in Pictures : Len(ops[h]) \in Nat
  BY OpsPlaces DEF OpsInv
<1>3. \A h \in Pictures : \A m \in 2 .. Len(ops'[h]) :
         /\ m \in 1 .. Len(ops[h]) /\ m \in 2 .. Len(ops[h])
         /\ ops'[h][m] = ops[h][m] \/ (h = i /\ m = k)
  BY <1>1, <1>2
<1>4. ImagesTypeOK'
  BY <1>1 DEF ImagesTypeOK
<1>5. \A h \in Pictures : \A m \in 1 .. Len(ops[h]) : ops[h][m].promise # NoPromise
         => outcome'[ops[h][m].promise] = outcome[ops[h][m].promise]
  <2>1. \A h \in Pictures : \A m \in 1 .. Len(ops[h]) : ops[h][m].promise # NoPromise
           => ops[h][m].promise \in Promises /\ ops[h][m].promise # p
    BY OpsPlaces DEF PromiseInv
  <2> QED BY <2>1
<1>6. \A h \in Pictures :
        /\ Len(ops'[h]) >= Len(ops[h]) /\ Len(ops'[h]) \in Nat
        /\ ops[h] # <<>> => ops'[h] # <<>> /\ ops'[h][1] = ops[h][1]
        /\ ops[h] = <<>> => ops'[h] = <<>>
  <2> SUFFICES ASSUME NEW h \in Pictures
               PROVE  /\ Len(ops'[h]) >= Len(ops[h]) /\ Len(ops'[h]) \in Nat
                      /\ ops[h] # <<>> => ops'[h] # <<>> /\ ops'[h][1] = ops[h][1]
                      /\ ops[h] = <<>> => ops'[h] = <<>>
    OBVIOUS
  <2>1. CASE h # i
    BY <1>1, <1>2, <2>1
  <2>2. CASE h = i
    <3>1. 1 \in 1 .. Len(ops[i]) /\ 1 # k /\ ops[i] # <<>>
      BY <1>2, EmptySeq
    <3>2. Len(ops'[i]) # 0
      BY <1>1, <3>1
    <3> QED BY <1>1, <1>2, <2>2, <3>1, <3>2, EmptySeq
  <2> QED BY <2>1, <2>2
<1>7. /\ BitmapInv' /\ ScaledInv'
      /\ \A h \in Pictures : Resized(h)' = Resized(h)
  <2>1. \A h \in Pictures : \A m \in 2 .. Len(ops'[h]) :
           \/ m \in 1 .. Len(ops[h]) /\ ops'[h][m] = ops[h][m]
           \/ /\ ops[h][m].promise = NoPromise
              /\ ops'[h][m].promise = NoPromise \/ outcome'[ops'[h][m].promise] # "ok"
    BY <1>1, <1>2, <1>3
  <2> QED BY <1>5, <1>6, <2>1, OutcomesUntouched
<1>8. UsedInv' /\ TokenIsGivenBack'
  <2>1. \A h \in Pictures : \A m \in 2 .. Len(ops'[h]) :
           ops'[h][m].kind \in Uses /\ ops'[h][m].at \in {"done", "failed"} =>
              /\ m \in 2 .. Len(ops[h])
              /\ \/ ops'[h][m] = ops[h][m]
                 \/ /\ ops'[h][m].at = "failed"
                    /\ h \in images => \E j \in 2 .. m - 1 : Rejected(h, j)
    BY <1>1, <1>3
  <2> QED BY <1>7, <2>1, UsesUntouched
<1> QED BY <1>4, <1>7, <1>8

LEMMA GiveUpStep ==
  ASSUME ImagesInv, IInv', Forward, NEW i \in Pictures, NEW k \in 2 .. Len(ops[i]),
         GiveUp(i, k)
  PROVE  ImagesInv'
<1> USE DEF ImagesInv
<1>1. /\ Due(i, k) /\ Rejected(i, Awaits(i, k)) /\ Now(i, k, "failed", NoPromise)
      /\ UNCHANGED <<images, bitmap, scaled, saw>> /\ UNCHANGED <<node, state, outcome>>
      /\ node = "busy" /\ ops[i][k].at = "waiting"
  BY DEF GiveUp, Due, vars, loopVars, callVars
<1>2. \A j \in 2 .. k - 1 : ops[i][j].at # "waiting"
  BY <1>1, DueOrder
<1>3. Awaits(i, k) \in 1 .. k - 1
  BY AwaitsIs
<1>4. /\ OpsInv' /\ PromiseInv' /\ OrderInv'
      /\ \A h \in Pictures : \A j \in 1 .. Len(ops[h]) : Rejected(h, j) => Rejected(h, j)'
  BY <1>1, <1>2, <1>3, OpMovesOn
<1>5. UseInv'
  <2>1. /\ \A h \in Pictures : Len(ops'[h]) = Len(ops[h]) /\ (h # i => ops'[h] = ops[h])
        /\ \A m \in 1 .. Len(ops[i]) : m # k => ops'[i][m] = ops[i][m]
        /\ ops'[i][k].at = "failed" /\ Len(ops[i]) \in Nat
    BY <1>1, NowChanges, OpsPlaces
  <2>2. \A h \in Pictures : \A m \in 2 .. Len(ops'[h]) : ~InUse(h, m)'
    BY <1>1, <2>1 DEF UseInv, InUse
  <2> QED BY <2>2 DEF UseInv
<1>6. i \in images => \E j \in 2 .. k - 1 : Rejected(i, j)
  <2>1. i \in images => Awaits(i, k) # 1
    BY <1>1, CreatedInMap
  <2>2. Awaits(i, k) # 1 => Awaits(i, k) \in 2 .. k - 1
    BY <1>3
  <2> QED BY <1>1, <2>1, <2>2
<1>7. ImagesTypeOK' /\ BitmapInv' /\ ScaledInv' /\ UsedInv' /\ TokenIsGivenBack'
  BY <1>1, <1>4, <1>6, MovesOnUnused
<1> QED BY <1>4, <1>5, <1>7

LEMMA CallResizeStep ==
  ASSUME ImagesInv, IInv', Forward, NEW i \in Pictures, NEW k \in 2 .. Len(ops[i]),
         NEW p \in Promises, CallResize(i, k, p)
  PROVE  ImagesInv'
<1> USE DEF ImagesInv
<1>1. /\ Due(i, k) /\ Fulfilled(i, Awaits(i, k)) /\ Now(i, k, "called", p)
      /\ UNCHANGED <<images, bitmap, scaled, saw>> /\ CallJava(p)
      /\ ops[i][k].at = "waiting" /\ ops[i][k].kind = "resizeFit"
  BY DEF CallResize, Due
<1>2. /\ p # NoPromise /\ state[p] = "unused"
      /\ state'[p] \notin {"unused", "undefined"} /\ outcome'[p] # "ok"
      /\ \A q \in Promises : q # p => outcome'[q] = outcome[q]
      /\ node = "busy"
  BY <1>1, CallJavaIs
<1>3. /\ \A j \in 2 .. k - 1 : ops[i][j].at # "waiting"
      /\ \A j \in 1 .. k - 1 : ops[i][j].kind \in Chained => Fulfilled(i, j)
  BY <1>1, DueOrder
<1>4. /\ OpsInv' /\ PromiseInv' /\ OrderInv'
      /\ \A h \in Pictures : \A j \in 1 .. Len(ops[h]) : Rejected(h, j) => Rejected(h, j)'
  BY <1>1, <1>2, <1>3, OpMovesOn
<1>5. UseInv'
  <2>1. /\ \A h \in Pictures : Len(ops'[h]) = Len(ops[h]) /\ (h # i => ops'[h] = ops[h])
        /\ \A m \in 1 .. Len(ops[i]) : m # k => ops'[i][m] = ops[i][m]
        /\ ops'[i][k].kind = "resizeFit" /\ Len(ops[i]) \in Nat
    BY <1>1, NowChanges, OpsPlaces
  <2>2. \A h \in Pictures : \A m \in 2 .. Len(ops'[h]) : ~InUse(h, m)'
    BY <1>2, <2>1 DEF UseInv, InUse, Uses
  <2> QED BY <2>2 DEF UseInv
<1>6. ImagesTypeOK' /\ BitmapInv' /\ ScaledInv' /\ UsedInv' /\ TokenIsGivenBack'
  BY <1>1, <1>2, <1>4, MovesOnUnused
<1> QED BY <1>4, <1>5, <1>6

LEMMA BeginUseStep ==
  ASSUME ImagesInv, IInv', Forward, NEW i \in Pictures, NEW k \in 2 .. Len(ops[i]),
         BeginUse(i, k)
  PROVE  ImagesInv'
<1> USE DEF ImagesInv
<1>1. /\ Due(i, k) /\ Fulfilled(i, Awaits(i, k)) /\ Now(i, k, "called", NoPromise)
      /\ UNCHANGED <<images, bitmap, scaled, saw>> /\ UNCHANGED <<state, outcome>>
      /\ node = "busy" /\ node' = "java"
      /\ ops[i][k].at = "waiting" /\ ops[i][k].kind \in Uses /\ ops[i][k].kind # "resizeFit"
  BY DEF BeginUse, Due, InvokeSync, callVars, Uses
<1>2. /\ \A j \in 2 .. k - 1 : ops[i][j].at # "waiting"
      /\ \A j \in k .. Len(ops[i]) : ops[i][j].at = "waiting"
      /\ \A j \in 1 .. k - 1 : ops[i][j].kind \in Chained => Fulfilled(i, j)
  BY <1>1, DueOrder
<1>3. /\ OpsInv' /\ PromiseInv' /\ OrderInv'
      /\ \A h \in Pictures : \A j \in 1 .. Len(ops[h]) : Rejected(h, j) => Rejected(h, j)'
  BY <1>1, <1>2, OpMovesOn
<1>4. UseInv'
  <2>1. /\ \A h \in Pictures : Len(ops'[h]) = Len(ops[h]) /\ (h # i => ops'[h] = ops[h])
        /\ \A m \in 1 .. Len(ops[i]) : m # k => ops'[i][m] = ops[i][m]
        /\ Len(ops[i]) \in Nat
    BY <1>1, NowChanges, OpsPlaces
  <2>2. \A h \in Pictures : \A m \in 2 .. Len(ops'[h]) : InUse(h, m)' => h = i /\ m = k
    <3> SUFFICES ASSUME NEW h \in Pictures, NEW m \in 2 .. Len(ops'[h]), h # i \/ m # k,
                        InUse(h, m)'
                 PROVE  FALSE
      OBVIOUS
    <3>1. m \in 2 .. Len(ops[h]) /\ ops'[h][m] = ops[h][m]
      BY <2>1
    <3> QED BY <1>1, <3>1 DEF UseInv, InUse
  <2>3. \A j \in k + 1 .. Len(ops'[i]) : ops'[i][j].at = "waiting"
    <3>1. \A j \in k + 1 .. Len(ops'[i]) :
             j \in k .. Len(ops[i]) /\ j \in 1 .. Len(ops[i]) /\ j # k
      BY <2>1
    <3> QED BY <1>2, <2>1, <3>1
  <2> QED BY <1>1, <2>2, <2>3 DEF UseInv
<1>5. ImagesTypeOK' /\ BitmapInv' /\ ScaledInv' /\ UsedInv' /\ TokenIsGivenBack'
  BY <1>1, <1>3, MovesOnUnused
<1> QED BY <1>3, <1>4, <1>5

(* A use ends: the token goes with the bitmap that was used. *)
LEMMA EndUseStep ==
  ASSUME ImagesInv, IInv', Forward, NEW i \in Pictures, NEW k \in 2 .. Len(ops[i]),
         EndUse(i, k)
  PROVE  ImagesInv'
<1> USE DEF ImagesInv
<1> DEFINE kind == ops[i][k].kind
           fine == i \in images /\ (kind = "stream" \/ bitmap[i] = "decoded")
<1>1. /\ InUse(i, k) /\ UNCHANGED <<state, outcome, bitmap, scaled>>
      /\ images' = IF i \in images /\ TokenGoes(i, kind) THEN images \ {i} ELSE images
      /\ kind \in Uses /\ kind # "resizeFit"
  BY DEF EndUse, InUse, SyncReturn, callVars, Uses
<1>2. PICK at \in {"done", "failed"} :
         /\ Now(i, k, at, NoPromise)
         /\ at = "done" => fine /\ saw' = [saw EXCEPT ![i] = scaled[i]]
         /\ at = "failed" => saw' = saw
  BY DEF EndUse
<1>3. /\ ops' \in [Pictures -> Seq(Operation)]
      /\ \A h \in Pictures : Len(ops'[h]) = Len(ops[h]) /\ (h # i => ops'[h] = ops[h])
      /\ \A m \in 1 .. Len(ops[i]) : m # k => ops'[i][m] = ops[i][m]
      /\ ops'[i][k].kind = kind /\ ops'[i][k].at = at /\ ops'[i][k].promise = NoPromise
      /\ \A h \in Pictures : Len(ops[h]) \in Nat
  <2>1. /\ Now(i, k, at, NoPromise) /\ at \in {"waiting", "called", "done", "failed"}
        /\ NoPromise \in Promises \cup {NoPromise} /\ ImagesTypeOK
    BY <1>2
  <2> QED BY <2>1, NowChanges, OpsPlaces
<1>4. /\ \A j \in 2 .. k - 1 : ops[i][j].at # "waiting"
      /\ \A j \in 1 .. k - 1 : ops[i][j].kind \in Chained => Fulfilled(i, j)
      /\ \A j \in k + 1 .. Len(ops[i]) : ops[i][j].at = "waiting"
      /\ ops[i][k].promise = NoPromise
  BY <1>1 DEF OrderInv, UseInv, InUse, OpsInv
<1> HIDE DEF kind, fine
<1>5. /\ OpsInv' /\ PromiseInv' /\ OrderInv'
      /\ \A h \in Pictures : \A j \in 1 .. Len(ops[h]) : Rejected(h, j) => Rejected(h, j)'
  BY <1>1, <1>2, <1>4, OpMovesOn DEF kind
<1>6. ImagesTypeOK'
  <2>1. scaled[i] \in Seq(Nat) /\ saw \in [Pictures -> Seq(Nat)] /\ images \subseteq Pictures
    BY DEF ImagesTypeOK
  <2>2. saw' \in [Pictures -> Seq(Nat)] /\ images' \subseteq Pictures
    BY <1>1, <1>2, <2>1
  <2> QED BY <1>1, <1>3, <2>2 DEF ImagesTypeOK
<1>7. \A h \in Pictures : \A m \in 2 .. Len(ops'[h]) :
         /\ m \in 1 .. Len(ops[h]) /\ m \in 2 .. Len(ops[h])
         /\ ops'[h][m] = ops[h][m] \/ (h = i /\ m = k)
  BY <1>3
<1>8. UseInv'
  <2>1. \A h \in Pictures : \A m \in 2 .. Len(ops'[h]) : ~InUse(h, m)'
    <3> SUFFICES ASSUME NEW h \in Pictures, NEW m \in 2 .. Len(ops'[h]), InUse(h, m)'
                 PROVE  FALSE
      OBVIOUS
    <3>1. h # i \/ m # k
      BY <1>3 DEF InUse
    <3>2. m \in 2 .. Len(ops[h]) /\ InUse(h, m)
      BY <1>7, <3>1 DEF InUse
    <3> QED BY <1>1, <3>1, <3>2, OneInUse
  <2> QED BY <2>1 DEF UseInv
<1>9. /\ BitmapInv' /\ ScaledInv'
      /\ \A h \in Pictures : Resized(h)' = Resized(h)
  <2>1. \A h \in Pictures :
          /\ Len(ops'[h]) >= Len(ops[h]) /\ Len(ops'[h]) \in Nat
          /\ ops[h] # <<>> => ops'[h] # <<>> /\ ops'[h][1] = ops[h][1]
          /\ ops[h] = <<>> => ops'[h] = <<>>
    <3> SUFFICES ASSUME NEW h \in Pictures
                 PROVE  /\ Len(ops'[h]) >= Len(ops[h]) /\ Len(ops'[h]) \in Nat
                        /\ ops[h] # <<>> => ops'[h] # <<>> /\ ops'[h][1] = ops[h][1]
                        /\ ops[h] = <<>> => ops'[h] = <<>>
      OBVIOUS
    <3>1. CASE h # i
      BY <1>3, <3>1
    <3>2. CASE h = i
      <4>1. 1 \in 1 .. Len(ops[i]) /\ 1 # k /\ ops[i] # <<>>
        BY <1>3, EmptySeq
      <4>2. Len(ops'[i]) # 0
        BY <1>3, <4>1
      <4> QED BY <1>3, <3>2, <4>1, <4>2, EmptySeq
    <3> QED BY <3>1, <3>2
  <2>2. \A h \in Pictures : \A m \in 2 .. Len(ops'[h]) :
           \/ m \in 1 .. Len(ops[h]) /\ ops'[h][m] = ops[h][m]
           \/ ops[h][m].promise = NoPromise /\ ops'[h][m].promise = NoPromise
    BY <1>3, <1>4, <1>7
  <2>3. images' \subseteq images
    BY <1>1
  <2> QED BY <1>1, <2>1, <2>2, <2>3, OutcomesUntouched
<1>10. UsedInv'
  <2>1. at = "done" => i \in images /\ i \notin images'
    BY <1>1, <1>2 DEF fine, TokenGoes
  <2>2. Resized(i) \subseteq 1 .. k - 1
    <3> SUFFICES ASSUME NEW j \in Resized(i), j \notin 1 .. k - 1 PROVE FALSE
      OBVIOUS
    <3>1. j \in 2 .. Len(ops[i]) /\ ops[i][j].promise # NoPromise
      BY DEF Resized
    <3>2. j \in k + 1 .. Len(ops[i])
      BY <1>3, <1>4, <3>1
    <3> QED BY <1>4, <3>1, <3>2 DEF OpsInv
  <2>3. \A h \in Pictures : \A m \in 2 .. Len(ops'[h]) : Used(h, m)' =>
           \/ m \in 2 .. Len(ops[h]) /\ Used(h, m)
           \/ h = i /\ m = k /\ at = "done"
    BY <1>3, <1>7 DEF Used
  <2> SUFFICES ASSUME NEW h \in Pictures, NEW m \in 2 .. Len(ops'[h]), Used(h, m)'
               PROVE  /\ h \notin images'
                      /\ saw'[h] = scaled[h] /\ Resized(h) \subseteq 1 .. m - 1
                      /\ \A j \in 2 .. Len(ops'[h]) : Used(h, j)' => j = m
    BY <1>1, <1>9 DEF UsedInv
  <2>4. CASE h = i /\ m = k /\ at = "done"
    <3>1. saw'[i] = scaled[i]
      BY <1>2, <2>4 DEF ImagesTypeOK
    <3>2. \A j \in 2 .. Len(ops'[i]) : Used(i, j)' => j = k
      BY <2>1, <2>3, <2>4 DEF UsedInv
    <3> QED BY <2>1, <2>2, <2>4, <3>1, <3>2
  <2>5. CASE m \in 2 .. Len(ops[h]) /\ Used(h, m)
    <3>1. /\ h \notin images /\ saw[h] = scaled[h] /\ Resized(h) \subseteq 1 .. m - 1
          /\ \A j \in 2 .. Len(ops[h]) : Used(h, j) => j = m
      BY <2>5 DEF UsedInv
    <3>2. h \notin images'
      BY <1>1, <3>1
    <3>3. ~(h = i /\ at = "done")
      BY <2>1, <3>1
    <3>4. saw'[h] = saw[h]
      BY <1>2, <3>3 DEF ImagesTypeOK
    <3>5. \A j \in 2 .. Len(ops'[h]) : Used(h, j)' => j = m
      BY <2>3, <3>1, <3>3
    <3> QED BY <3>1, <3>2, <3>4, <3>5
  <2> QED BY <2>3, <2>4, <2>5
<1>11. TokenIsGivenBack'
  <2> SUFFICES ASSUME NEW h \in images', NEW m \in 2 .. Len(ops'[h]),
                      ops'[h][m].kind \in Uses, ops'[h][m].at \in {"done", "failed"}
               PROVE  bitmap[h] = "null" \/ \E j \in 2 .. m - 1 : Rejected(h, j)'
    BY <1>1 DEF TokenIsGivenBack
  <2>1. h \in images /\ h \in Pictures /\ m \in 2 .. Len(ops[h])
    BY <1>1, <1>7 DEF ImagesTypeOK
  <2>2. CASE h = i /\ m = k
    <3>1. bitmap[i] # "decoded"
      BY <1>1, <2>1, <2>2 DEF TokenGoes
    <3>2. bitmap[i] # "none" /\ bitmap[i] \in {"none", "null", "decoded"}
      BY <2>1, <2>2 DEF BitmapInv, ImagesTypeOK
    <3> QED BY <2>2, <3>1, <3>2
  <2>3. CASE h # i \/ m # k
    <3>1. ops'[h][m] = ops[h][m]
      BY <1>7, <2>1, <2>3
    <3>2. bitmap[h] = "null" \/ \E j \in 2 .. m - 1 : Rejected(h, j)
      BY <2>1, <3>1 DEF TokenIsGivenBack
    <3>3. \A j \in 2 .. m - 1 : j \in 1 .. Len(ops[h])
      BY <1>3, <2>1
    <3> QED BY <1>5, <2>1, <3>2, <3>3
  <2> QED BY <2>2, <2>3
<1> QED BY <1>5, <1>6, <1>8, <1>9, <1>10, <1>11

-----------------------------------------------------------------------------
(* The steps of ImageAPI *)

(* A call of an image returns: it was the call of that operation alone. *)
LEMMA CallReturns ==
  ASSUME ImagesInv, NEW i \in Pictures, NEW k \in 1 .. Len(ops[i]), NEW e \in tasks,
         ops[i][k].promise = e.promise, TaskDone(e)
  PROVE  /\ outcome'[e.promise] \in {"ok", "error"}
         /\ \A h \in Pictures : \A m \in 1 .. Len(ops[h]) :
               ops[h][m].promise # NoPromise /\ ~(h = i /\ m = k)
                  => outcome'[ops[h][m].promise] = outcome[ops[h][m].promise]
         /\ node' = node /\ state' = state
<1>1. e.promise \in Promises /\ e.promise # NoPromise
  BY RunningCall
<1>2. \A h \in Pictures : \A m \in 1 .. Len(ops[h]) :
         ops[h][m].promise # NoPromise /\ ~(h = i /\ m = k)
            => ops[h][m].promise \in Promises /\ ops[h][m].promise # e.promise
  BY <1>1, OpsPlaces DEF ImagesInv, PromiseInv
<1>3. outcome \in [Promises -> {"none", "ok", "error", "refused"}]
  BY DEF ImagesInv, IInv, TypeOK
<1> QED BY <1>1, <1>2, <1>3 DEF TaskDone, Complete

LEMMA CreateImageStep ==
  ASSUME ImagesInv, IInv', Forward, NEW i \in Pictures, NEW e \in tasks, CreateImage(i, e)
  PROVE  ImagesInv'
<1> USE DEF ImagesInv
<1> DEFINE p == ops[i][1].promise
<1>1. /\ ops[i] # <<>> /\ p = e.promise /\ TaskDone(e) /\ UNCHANGED <<ops, scaled, saw>>
      /\ outcome'[p] = "ok" => /\ images' = images \cup {i}
                               /\ \E b \in {"null", "decoded"} : bitmap' = [bitmap EXCEPT ![i] = b]
      /\ outcome'[p] # "ok" => UNCHANGED <<images, bitmap>>
  BY DEF CreateImage
<1>2. \A h \in Pictures : Len(ops[h]) \in Nat
  BY OpsPlaces
<1>3. 1 \in 1 .. Len(ops[i])
  BY <1>1, <1>2, EmptySeq DEF ImagesTypeOK
<1>4. /\ p # NoPromise /\ outcome[p] = "none" /\ ~Fulfilled(i, 1) /\ ~Rejected(i, 1)
  <2>1. ops[i][1].at = "called"
    BY <1>1 DEF OpsInv
  <2> QED BY <1>1, <1>3, <2>1, RunningCall DEF Rejected
<1>5. /\ outcome'[p] \in {"ok", "error"} /\ node' = node
      /\ \A h \in Pictures : \A m \in 1 .. Len(ops[h]) :
            ops[h][m].promise # NoPromise /\ ~(h = i /\ m = 1)
               => outcome'[ops[h][m].promise] = outcome[ops[h][m].promise]
  BY <1>1, <1>3, CallReturns
<1> HIDE DEF p
<1>6. OpsInv' /\ PromiseInv' /\ OrderInv' /\ UseInv'
  BY <1>1, <1>5, OpsUntouched
<1>7. \A h \in Pictures : \A j \in 1 .. Len(ops[h]) : Rejected(h, j) => Rejected(h, j)'
  BY <1>1, SettledStays
<1>8. \A h \in Pictures : Resized(h)' = Resized(h)
  <2>1. \A h \in Pictures : \A m \in 2 .. Len(ops[h]) : m \in 1 .. Len(ops[h]) /\ m # 1
    BY <1>2
  <2> QED BY <1>1, <1>5, <2>1 DEF Resized
<1>9. bitmap[i] = "none" /\ i \notin images
  BY <1>4 DEF BitmapInv, p
<1>10. /\ \A h \in Pictures : h # i => bitmap'[h] = bitmap[h] /\ (h \in images' <=> h \in images)
       /\ outcome'[p] = "ok" => bitmap'[i] \in {"null", "decoded"}
       /\ outcome'[p] # "ok" => bitmap'[i] = "none" /\ i \notin images'
  BY <1>1, <1>9 DEF ImagesTypeOK
<1>11. ImagesTypeOK'
  BY <1>1 DEF ImagesTypeOK
<1>12. BitmapInv'
  <2> SUFFICES ASSUME NEW h \in Pictures
               PROVE  /\ bitmap'[h] # "none"
                           <=> ops[h] # <<>> /\ outcome'[ops[h][1].promise] = "ok"
                      /\ h \in images' => bitmap'[h] # "none"
    BY <1>1 DEF BitmapInv
  <2>1. CASE h = i
    BY <1>1, <1>10, <2>1 DEF p
  <2>2. CASE h # i
    <3>1. ops[h] # <<>> => 1 \in 1 .. Len(ops[h]) /\ ops[h][1].promise # NoPromise
      BY <1>2, EmptySeq DEF ImagesTypeOK, OpsInv
    <3>2. ops[h] # <<>> => outcome'[ops[h][1].promise] = outcome[ops[h][1].promise]
      BY <1>5, <2>2, <3>1
    <3> QED BY <1>10, <2>2, <3>2 DEF BitmapInv
  <2> QED BY <2>1, <2>2
<1>13. ScaledInv'
  BY <1>1, <1>8 DEF ScaledInv
<1>14. \A k \in 2 .. Len(ops[i]) : ~Used(i, k)
  <2>1. \A k \in 2 .. Len(ops[i]) : 1 \in 1 .. k - 1
    OBVIOUS
  <2>2. ops[i][1].kind \in Chained
    BY <1>1 DEF OpsInv, Chained
  <2> QED BY <1>4, <2>1, <2>2 DEF OrderInv, Used
<1>15. UsedInv'
  BY <1>1, <1>8, <1>10, <1>14 DEF UsedInv, Used
<1>16. TokenIsGivenBack'
  <2> SUFFICES ASSUME NEW h \in images', NEW m \in 2 .. Len(ops[h]),
                      ops[h][m].kind \in Uses, ops[h][m].at \in {"done", "failed"}
               PROVE  bitmap'[h] = "null" \/ \E j \in 2 .. m - 1 : Rejected(h, j)'
    BY <1>1 DEF TokenIsGivenBack
  <2>1. h \in Pictures
    BY <1>11 DEF ImagesTypeOK
  <2>2. \A j \in 1 .. m - 1 : j \in 1 .. Len(ops[h]) /\ (j # 1 => j \in 2 .. m - 1)
    BY <1>2, <2>1
  <2>3. CASE h # i
    BY <1>7, <1>10, <2>1, <2>2, <2>3 DEF TokenIsGivenBack
  <2>4. CASE h = i
    <3>1. ops[i][m].at = "failed" /\ ops[i][1].kind \in Chained /\ 1 \in 1 .. m - 1
      BY <1>1, <1>14, <2>4 DEF Used, OpsInv, Chained
    <3>2. PICK j \in 1 .. m - 1 : Rejected(i, j)
      BY <1>4, <2>4, <3>1 DEF OrderInv
    <3> QED BY <1>4, <1>7, <2>2, <2>4, <3>2
  <2> QED BY <2>3, <2>4
<1> QED BY <1>6, <1>11, <1>12, <1>13, <1>15, <1>16

(* The next of a list whose elements grow. *)
LEMMA InOrderAppend ==
  ASSUME NEW s \in Seq(Nat), NEW n \in Nat, InOrder(s), \A j \in ToSet(s) : j < n
  PROVE  InOrder(Append(s, n))
<1>1. /\ Len(Append(s, n)) = Len(s) + 1 /\ Len(s) \in Nat
      /\ \A m \in 1 .. Len(s) : Append(s, n)[m] = s[m] /\ s[m] \in ToSet(s)
      /\ Append(s, n)[Len(s) + 1] = n
      /\ DOMAIN Append(s, n) = 1 .. Len(Append(s, n)) /\ DOMAIN s = 1 .. Len(s)
  BY AppendProperties DEF ToSet
<1> SUFFICES ASSUME NEW l \in DOMAIN Append(s, n), NEW m \in DOMAIN Append(s, n), l < m
             PROVE  Append(s, n)[l] < Append(s, n)[m]
  BY DEF InOrder
<1>2. l \in 1 .. Len(s)
  BY <1>1
<1>3. CASE m \in 1 .. Len(s)
  BY <1>1, <1>2, <1>3 DEF InOrder
<1>4. CASE m = Len(s) + 1
  BY <1>1, <1>2, <1>4
<1> QED BY <1>1, <1>3, <1>4

LEMMA ResizeFitStep ==
  ASSUME ImagesInv, IInv', Forward, NEW i \in Pictures, NEW k \in 2 .. Len(ops[i]),
         NEW e \in tasks, ResizeFit(i, k, e)
  PROVE  ImagesInv'
<1> USE DEF ImagesInv
<1> DEFINE p == ops[i][k].promise
<1>1. /\ p = e.promise /\ TaskDone(e) /\ UNCHANGED <<ops, images, bitmap, saw>>
      /\ outcome'[p] = "ok" => i \in images /\ scaled' = [scaled EXCEPT ![i] = Append(@, k)]
      /\ outcome'[p] # "ok" => scaled' = scaled
  BY DEF ResizeFit
<1>2. \A h \in Pictures : Len(ops[h]) \in Nat
  BY OpsPlaces
<1>3. k \in 1 .. Len(ops[i]) /\ k \in Nat
  BY <1>2
<1>4. p # NoPromise /\ outcome[p] = "none" /\ ~Fulfilled(i, k)
  BY <1>1, <1>3, RunningCall
<1>5. /\ outcome'[p] \in {"ok", "error"} /\ node' = node
      /\ \A h \in Pictures : \A m \in 1 .. Len(ops[h]) :
            ops[h][m].promise # NoPromise /\ ~(h = i /\ m = k)
               => outcome'[ops[h][m].promise] = outcome[ops[h][m].promise]
  BY <1>1, <1>3, CallReturns
<1> HIDE DEF p
<1>6. OpsInv' /\ PromiseInv' /\ OrderInv' /\ UseInv'
  BY <1>1, <1>5, OpsUntouched
<1>7. \A h \in Pictures : \A j \in 1 .. Len(ops[h]) : Rejected(h, j) => Rejected(h, j)'
  BY <1>1, SettledStays
<1>8. \A h \in Pictures : \A m \in 2 .. Len(ops[h]) : m \in 1 .. Len(ops[h])
  BY <1>2
<1>9. /\ \A h \in Pictures : h # i => Resized(h)' = Resized(h)
      /\ outcome'[p] = "ok" => Resized(i)' = Resized(i) \cup {k}
      /\ outcome'[p] # "ok" => Resized(i)' = Resized(i)
  <2>1. \A h \in Pictures : \A m \in 2 .. Len(ops[h]) : ~(h = i /\ m = k) =>
           (m \in Resized(h)' <=> m \in Resized(h))
    BY <1>1, <1>5, <1>8 DEF Resized
  <2>2. k \notin Resized(i) /\ (k \in Resized(i)' <=> outcome'[p] = "ok")
    BY <1>1, <1>4 DEF Resized, p
  <2>3. \A h \in Pictures : Resized(h) \subseteq 2 .. Len(ops[h])
                             /\ Resized(h)' \subseteq 2 .. Len(ops[h])
    BY <1>1 DEF Resized
  <2>4. ASSUME NEW h \in Pictures, h # i \/ outcome'[p] # "ok"
        PROVE  Resized(h)' = Resized(h)
    <3>1. \A m \in 2 .. Len(ops[h]) : m \in Resized(h)' <=> m \in Resized(h)
      BY <2>1, <2>2, <2>4
    <3> QED BY <2>3, <3>1
  <2>5. ASSUME outcome'[p] = "ok" PROVE Resized(i)' = Resized(i) \cup {k}
    <3>1. \A m \in 2 .. Len(ops[i]) : m \in Resized(i)' <=> m \in Resized(i) \cup {k}
      BY <2>1, <2>2, <2>5
    <3> QED BY <2>3, <3>1
  <2> QED BY <2>4, <2>5
<1>10. \A j \in Resized(i) : j < k
  <2> SUFFICES ASSUME NEW j \in Resized(i), ~(j < k) PROVE FALSE
    OBVIOUS
  <2>1. /\ j \in 2 .. Len(ops[i]) /\ ops[i][j].promise # NoPromise
        /\ outcome[ops[i][j].promise] = "ok"
    BY DEF Resized
  <2>2. k \in 1 .. j - 1
    <3>1. j # k
      BY <1>4, <2>1 DEF p
    <3> QED BY <1>2, <2>1, <3>1
  <2>3. ops[i][j].at = "called" /\ ops[i][k].kind \in Chained
    BY <1>4, <2>1 DEF OpsInv, Chained, p
  <2> QED BY <1>4, <2>1, <2>2, <2>3 DEF OrderInv
<1>11. scaled \in [Pictures -> Seq(Nat)] /\ scaled[i] \in Seq(Nat)
  BY DEF ImagesTypeOK
<1>12. ImagesTypeOK'
  <2>1. scaled' \in [Pictures -> Seq(Nat)]
    <3>1. Append(scaled[i], k) \in Seq(Nat)
      BY <1>3, <1>11, AppendProperties
    <3> QED BY <1>1, <1>11, <3>1
  <2> QED BY <1>1, <2>1 DEF ImagesTypeOK
<1>13. BitmapInv'
  <2>1. \A h \in Pictures : ops[h] # <<>> => 1 \in 1 .. Len(ops[h]) /\ ops[h][1].promise # NoPromise
    BY <1>2, EmptySeq DEF ImagesTypeOK, OpsInv
  <2>2. \A h \in Pictures : ops[h] # <<>> =>
           outcome'[ops[h][1].promise] = outcome[ops[h][1].promise]
    BY <1>5, <2>1
  <2> QED BY <1>1, <2>2 DEF BitmapInv
<1>14. ScaledInv'
  <2> SUFFICES ASSUME NEW h \in Pictures
               PROVE  InOrder(scaled'[h]) /\ ToSet(scaled'[h]) = Resized(h)'
    BY DEF ScaledInv
  <2>1. CASE h = i /\ outcome'[p] = "ok"
    <3>1. scaled'[i] = Append(scaled[i], k)
      BY <1>1, <1>11, <2>1
    <3>2. InOrder(scaled[i]) /\ ToSet(scaled[i]) = Resized(i)
      BY DEF ScaledInv
    <3>3. InOrder(Append(scaled[i], k))
      BY <1>3, <1>10, <1>11, <3>2, InOrderAppend
    <3>4. ToSet(Append(scaled[i], k)) = Resized(i) \cup {k}
      <4>1. ToSet(Append(scaled[i], k)) = ToSet(scaled[i]) \cup {k}
        <5>1. scaled[i] \in Seq(Nat) /\ k \in Nat
          BY <1>3, <1>11
        <5> QED BY <5>1, ToSetAppend
      <4> QED BY <3>2, <4>1
    <3> QED BY <1>9, <2>1, <3>1, <3>3, <3>4
  <2>2. CASE h # i \/ outcome'[p] # "ok"
    <3>1. scaled'[h] = scaled[h]
      BY <1>1, <1>11, <2>2
    <3> QED BY <1>9, <2>2, <3>1 DEF ScaledInv
  <2> QED BY <2>1, <2>2
<1>15. UsedInv'
  <2> SUFFICES ASSUME NEW h \in Pictures, NEW m \in 2 .. Len(ops[h]), Used(h, m)
               PROVE  /\ h \notin images
                      /\ saw[h] = scaled'[h] /\ Resized(h)' \subseteq 1 .. m - 1
                      /\ \A j \in 2 .. Len(ops[h]) : Used(h, j) => j = m
    BY <1>1 DEF UsedInv, Used
  <2>1. /\ h \notin images /\ saw[h] = scaled[h] /\ Resized(h) \subseteq 1 .. m - 1
        /\ \A j \in 2 .. Len(ops[h]) : Used(h, j) => j = m
    BY DEF UsedInv
  <2>2. h # i \/ outcome'[p] # "ok"
    BY <1>1, <2>1
  <2>3. scaled'[h] = scaled[h]
    BY <1>1, <1>11, <2>2
  <2> QED BY <1>9, <2>1, <2>2, <2>3
<1>16. TokenIsGivenBack'
  <2> SUFFICES ASSUME NEW h \in images, NEW m \in 2 .. Len(ops[h]),
                      ops[h][m].kind \in Uses, ops[h][m].at \in {"done", "failed"}
               PROVE  bitmap[h] = "null" \/ \E j \in 2 .. m - 1 : Rejected(h, j)'
    BY <1>1 DEF TokenIsGivenBack
  <2>1. h \in Pictures
    BY DEF ImagesTypeOK
  <2>2. \A j \in 2 .. m - 1 : j \in 1 .. Len(ops[h])
    BY <1>2, <2>1
  <2> QED BY <1>7, <2>1, <2>2 DEF TokenIsGivenBack
<1> QED BY <1>6, <1>12, <1>13, <1>14, <1>15, <1>16

-----------------------------------------------------------------------------
(* The steps of the others *)

LEMMA OthersStep ==
  ASSUME ImagesInv, IInv', Forward, UNCHANGED imageVars,
         node = "java" => node' = "java",
         \A h \in Pictures : \A m \in 1 .. Len(ops[h]) : ops[h][m].promise # NoPromise
            => outcome'[ops[h][m].promise] = outcome[ops[h][m].promise]
  PROVE  ImagesInv'
<1> USE DEF ImagesInv
<1>1. UNCHANGED <<ops, images, bitmap, scaled, saw>>
  BY DEF imageVars
<1>2. OpsInv' /\ PromiseInv' /\ OrderInv' /\ UseInv' /\ ImagesTypeOK'
  BY <1>1, OpsUntouched DEF ImagesTypeOK
<1>3. \A h \in Pictures : \A j \in 1 .. Len(ops[h]) : Rejected(h, j) => Rejected(h, j)'
  BY <1>1, SettledStays
<1>4. \A h \in Pictures : Len(ops[h]) \in Nat
  BY OpsPlaces
<1>5. \A h \in Pictures : \A m \in 2 .. Len(ops[h]) : m \in 1 .. Len(ops[h])
  BY <1>4
<1>6. BitmapInv' /\ ScaledInv' /\ \A h \in Pictures : Resized(h)' = Resized(h)
  BY <1>1, <1>4, <1>5, OutcomesUntouched
<1>7. UsedInv' /\ TokenIsGivenBack'
  BY <1>1, <1>3, <1>6, UsesUntouched
<1> QED BY <1>2, <1>6, <1>7

(* What the others do with the bridge. *)
LEMMA OthersOutcomes ==
  ASSUME ImagesInv, Others
  PROVE  /\ UNCHANGED imageVars
         /\ node = "java" => node' = "java"
         /\ \A h \in Pictures : \A m \in 1 .. Len(ops[h]) : ops[h][m].promise # NoPromise
               => outcome'[ops[h][m].promise] = outcome[ops[h][m].promise]
<1> USE DEF ImagesInv
<1>1. \A h \in Pictures : \A m \in 1 .. Len(ops[h]) : ops[h][m].promise # NoPromise
         => /\ ops[h][m].promise \in Promises /\ OfImage(ops[h][m].promise)
            /\ state[ops[h][m].promise] # "unused"
  BY OpsPlaces DEF PromiseInv, OfImage
<1>2. ASSUME NEW m \in Methods, Register(m) PROVE node' = node /\ outcome' = outcome
  BY <1>2 DEF Register, loopVars, callVars
<1>3. ASSUME NEW p \in Promises, NEW m \in Methods, IsNext(p), InvokeAsync(p, m)
      PROVE  /\ node' = node /\ state[p] = "unused"
             /\ \A q \in Promises : q # p => outcome'[q] = outcome[q]
  <2>1. outcome \in [Promises -> {"none", "ok", "error", "refused"}]
    BY DEF IInv, TypeOK
  <2> QED BY <1>3, <2>1
             DEF InvokeAsync, NotMarshalled, NoSuchFunction, Accepted, Refused, loopVars
<1>4. ASSUME NEW e \in tasks, ~OfImage(e.promise), TaskDone(e)
      PROVE  /\ node' = node
             /\ \A q \in Promises : OfImage(q) => outcome'[q] = outcome[q]
  <2>1. outcome \in [Promises -> {"none", "ok", "error", "refused"}]
    BY DEF IInv, TypeOK
  <2> QED BY <1>4, <2>1 DEF TaskDone, Complete
<1>5. ASSUME NEW e \in tasks, TaskFatal(e) PROVE node' = node /\ outcome' = outcome
  BY <1>5 DEF TaskFatal, loopVars
<1>6. CASE LoopEvent \/ WakeUp \/ Drain \/ CompletePromise \/ EndTurn
  <2>1. node # "java" /\ outcome' = outcome
    BY <1>6 DEF LoopEvent, WakeUp, Drain, CompletePromise, EndTurn, callVars
  <2> QED BY <2>1, <1>1 DEF Others
<1> QED BY <1>1, <1>2, <1>3, <1>4, <1>5, <1>6 DEF Others

LEMMA NextImagesInv == ImagesInv /\ [ImagesNext]_allVars => ImagesInv'
<1> SUFFICES ASSUME ImagesInv, [ImagesNext]_allVars PROVE ImagesInv'
  OBVIOUS
<1>1. IInv /\ [Next]_vars
  BY ImagesStep DEF ImagesInv
<1>2. IInv' /\ Forward
  BY <1>1, NextIInv, StepsGoForward
<1>3. CASE UNCHANGED allVars
  <2>1. UNCHANGED <<imageVars, node, outcome>>
    BY <1>3 DEF allVars, vars, loopVars, callVars
  <2> QED BY <1>2, <2>1, OthersStep
<1>4. CASE Others
  BY <1>2, <1>4, OthersOutcomes, OthersStep
<1>5. ASSUME NEW i \in Pictures, NEW p \in Promises, Create(i, p) PROVE ImagesInv'
  BY <1>2, <1>5, CreateStep
<1>6. ASSUME NEW i \in Pictures, NEW kind \in Uses \cup {"resizeFit"}, Ask(i, kind)
      PROVE  ImagesInv'
  BY <1>2, <1>6, AskStep
<1>7. ASSUME NEW i \in Pictures, NEW k \in 2 .. Len(ops[i]), GiveUp(i, k) PROVE ImagesInv'
  BY <1>2, <1>7, GiveUpStep
<1>8. ASSUME NEW i \in Pictures, NEW k \in 2 .. Len(ops[i]), BeginUse(i, k) PROVE ImagesInv'
  BY <1>2, <1>8, BeginUseStep
<1>9. ASSUME NEW i \in Pictures, NEW k \in 2 .. Len(ops[i]), EndUse(i, k) PROVE ImagesInv'
  BY <1>2, <1>9, EndUseStep
<1>10. ASSUME NEW i \in Pictures, NEW k \in 2 .. Len(ops[i]), NEW p \in Promises,
              CallResize(i, k, p)
       PROVE  ImagesInv'
  BY <1>2, <1>10, CallResizeStep
<1>11. ASSUME NEW i \in Pictures, NEW k \in 2 .. Len(ops[i]), NEW e \in tasks,
              ResizeFit(i, k, e)
       PROVE  ImagesInv'
  BY <1>2, <1>11, ResizeFitStep
<1>12. ASSUME NEW i \in Pictures, NEW e \in tasks, CreateImage(i, e) PROVE ImagesInv'
  BY <1>2, <1>12, CreateImageStep
<1>13. ASSUME NEW i \in Pictures, CompressFatal(i) PROVE ImagesInv'
  <2>1. UNCHANGED imageVars /\ node' = node /\ outcome' = outcome
    BY <1>13 DEF CompressFatal, Killed, loopVars, callVars
  <2> QED BY <1>2, <2>1, OthersStep
<1> QED
  BY <1>3, <1>4, <1>5, <1>6, <1>7, <1>8, <1>9, <1>10, <1>11, <1>12, <1>13 DEF ImagesNext

-----------------------------------------------------------------------------
(* The invariant, for any number of images and of operations asked of each. *)
THEOREM ImagesInvHolds == ImagesSpec => []ImagesInv
<1> QED BY InitImagesInv, NextImagesInv, PTL DEF ImagesSpec

(* No token is left in ImageAPI.images once the image was used or was to be
   used, but for the two ways that graphics.js does not dispose of. *)
THEOREM TokensGoBack == ImagesSpec => []TokenIsGivenBack
<1>1. ImagesInv => TokenIsGivenBack
  BY DEF ImagesInv
<1> QED BY <1>1, InitImagesInv, NextImagesInv, PTL DEF ImagesSpec

(* The resizes run on threads of a pool, but the image that a use finds is the
   one JavaScript wrote down: the chain of promises orders the calls. *)
LEMMA UsedAsAsked == ImagesInv => UsedAsWritten
<1> SUFFICES ASSUME ImagesInv, NEW i \in Pictures, NEW k \in 2 .. Len(ops[i]), Used(i, k)
             PROVE  /\ InOrder(saw[i])
                    /\ ToSet(saw[i]) = {j \in 1 .. k - 1 : ops[i][j].kind = "resizeFit"}
                    /\ \A j \in k + 1 .. Len(ops[i]) : ~Used(i, j) /\ ~Fulfilled(i, j)
  BY DEF UsedAsWritten
<1> USE DEF ImagesInv
<1>1. /\ saw[i] = scaled[i] /\ Resized(i) \subseteq 1 .. k - 1
      /\ \A j \in 2 .. Len(ops[i]) : Used(i, j) => j = k
  BY DEF UsedInv
<1>2. InOrder(scaled[i]) /\ ToSet(scaled[i]) = Resized(i)
  BY DEF ScaledInv
<1>3. Len(ops[i]) \in Nat
  BY OpsPlaces
<1>4. \A j \in 2 .. Len(ops[i]) : Fulfilled(i, j) => j \in Resized(i)
  <2> SUFFICES ASSUME NEW j \in 2 .. Len(ops[i]), Fulfilled(i, j) PROVE j \in Resized(i)
    OBVIOUS
  <2>1. ops[i][j].promise \in Promises
    BY <1>3, OpsPlaces DEF Fulfilled, Settled
  <2> QED BY <2>1 DEF Fulfilled, Settled, Resized, IInv, SettledByOwnCall
<1>5. Resized(i) = {j \in 1 .. k - 1 : ops[i][j].kind = "resizeFit"}
  <2>1. ASSUME NEW j \in Resized(i) PROVE ops[i][j].kind = "resizeFit"
    BY DEF Resized, OpsInv
  <2>2. ASSUME NEW j \in 1 .. k - 1, ops[i][j].kind = "resizeFit" PROVE j \in Resized(i)
    <3>1. Fulfilled(i, j)
      BY <2>2 DEF OrderInv, Used, Chained
    <3>2. j \in 2 .. Len(ops[i])
      <4>1. ops[i][1].kind = "create"
        BY <1>3, EmptySeq DEF OpsInv
      <4> QED BY <1>3, <2>2, <4>1
    <3> QED BY <1>4, <3>1, <3>2
  <2> QED BY <1>1, <2>1, <2>2
<1>6. \A j \in k + 1 .. Len(ops[i]) : ~Used(i, j) /\ ~Fulfilled(i, j)
  <2>1. \A j \in k + 1 .. Len(ops[i]) : j \in 2 .. Len(ops[i]) /\ j # k /\ j \notin 1 .. k - 1
    BY <1>3
  <2> QED BY <1>1, <1>4, <2>1
<1> QED BY <1>1, <1>2, <1>5, <1>6

(* An image is used as the script wrote it: resized by exactly the calls that
   stand before the use, in their order. *)
THEOREM UsedAsWrittenHolds == ImagesSpec => []UsedAsWritten
<1> QED BY UsedAsAsked, InitImagesInv, NextImagesInv, PTL DEF ImagesSpec
=============================================================================
