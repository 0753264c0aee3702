-------------------------- MODULE CallQueueProofs --------------------------
(***************************************************************************)
(* Proofs about CallQueue, for any set of threads and any set of calls,    *)
(* and about EngineLife, whose calls of the interface go through it.       *)
(***************************************************************************)
EXTENDS CallQueue, EngineLife, ListLemmas, TLAPS

-----------------------------------------------------------------------------
(* The inductive invariant *)

LEMMA InitIInv == Init => IInv
<1> SUFFICES ASSUME Init PROVE IInv
  OBVIOUS
<1>1. TypeOK
  BY EmptySeq DEF Init, TypeOK, NodeStates, ThreadStates, Stages, PromiseStates, Results
<1>2. BootInv /\ ThreadInv /\ AnswerInv /\ NoLostWakeup /\ NoWaiterLeftBehind
  BY CallQueueAssumption
     DEF Init, BootInv, ThreadInv, AnswerInv, NoLostWakeup, NoWaiterLeftBehind
<1>3. ListInv
  BY EmptyList DEF Init, ListInv
<1> QED BY <1>1, <1>2, <1>3 DEF IInv

(* Appending a call that has not been queued: what Enqueue and Reenter share. *)
LEMMA PushList ==
  ASSUME TypeOK, ListInv, NEW c \in Calls, stage[c] # "queued",
         Push(c), UNCHANGED batch, stage' = [stage EXCEPT ![c] = "queued"]
  PROVE  ListInv' /\ calls' \in Seq(Calls) /\ NoLostWakeup'
<1>1. calls \in Seq(Calls) /\ batch \in Seq(Calls) /\ stage \in [Calls -> Stages]
  BY DEF TypeOK
<1>2. c \notin ToSet(calls) \cup ToSet(batch)
  BY DEF ListInv
<1>3. calls' = Append(calls, c)
  BY DEF Push
<1>4. ToSet(calls') = ToSet(calls) \cup {c}
  BY <1>1, <1>3, ToSetAppend
<1>5. IsInjective(calls')
  BY <1>1, <1>2, <1>3, DistinctAppend DEF ListInv
<1>6. calls' \in Seq(Calls)
  BY <1>1, <1>3, AppendProperties
<1>7. \A d \in Calls : stage'[d] = "queued" <=> stage[d] = "queued" \/ d = c
  BY <1>1
<1>8. ListInv'
  BY <1>2, <1>4, <1>5, <1>7 DEF ListInv
<1> QED BY <1>6, <1>8 DEF NoLostWakeup, Push

(* A call that is neither queued nor becomes so leaves the lists alone. *)
LEMMA ListFrame ==
  ASSUME TypeOK, ListInv, NEW c \in Calls, stage[c] # "queued", NEW v, v # "queued",
         stage' = [stage EXCEPT ![c] = v], UNCHANGED <<calls, batch>>
  PROVE  ListInv'
<1>1. \A d \in Calls : stage'[d] = "queued" <=> stage[d] = "queued"
  BY DEF TypeOK
<1> QED BY <1>1 DEF ListInv

(* Invoke and Resume end in Enqueue. *)
LEMMA EnqueueStep ==
  ASSUME IInv, NEW t \in Threads, NEW c \in Calls, initialized,
         stage[c] \in {"new", "calling"},
         \A u \in Threads \ {t} :
             pc[u] \in {"waiting", "notified"} => current[u] # c,
         Enqueue(t, c)
  PROVE  IInv'
<1>1. TypeOK /\ stage[c] # "queued"
  BY DEF IInv
<1>2. ListInv' /\ calls' \in Seq(Calls) /\ NoLostWakeup'
  BY <1>1, PushList DEF IInv, Enqueue, nodeVars
<1>3. TypeOK'
  BY <1>1, <1>2 DEF TypeOK, Enqueue, nodeVars, Push, ThreadStates, Stages
<1>4. BootInv'
  BY <1>1 DEF IInv, TypeOK, BootInv, Enqueue, nodeVars, Push
<1>5. ThreadInv'
  BY <1>1 DEF IInv, TypeOK, ThreadInv, Enqueue, nodeVars
<1>6. AnswerInv'
  BY <1>1 DEF IInv, TypeOK, AnswerInv, Enqueue, nodeVars
<1>7. NoWaiterLeftBehind'
  BY <1>1 DEF IInv, TypeOK, NoWaiterLeftBehind, Enqueue, nodeVars
<1> QED BY <1>2, <1>3, <1>4, <1>5, <1>6, <1>7 DEF IInv

(* Settling a promise writes the result of that call, if it is synchronous. *)
LEMMA SettleResult ==
  ASSUME TypeOK, NEW c \in Calls, NEW o, Settle(c, o)
  PROVE  /\ result' \in [Calls -> Results]
         /\ c \in SyncCalls => result'[c] # "none"
         /\ \A d \in Calls : d # c => result'[d] = result[d]
  BY DEF TypeOK, Settle, SetResult, Results

(* The next call of the batch is run: it leaves the lists for good, and its
   promise is settled or moves to the holder. *)
LEMMA InvokeHeadStep ==
  ASSUME IInv, InvokeHead
  PROVE  IInv'
<1> DEFINE c == Head(batch)
<1>1. /\ TypeOK
      /\ calls \in Seq(Calls) /\ batch \in Seq(Calls) /\ batch # <<>>
      /\ stage \in [Calls -> Stages] /\ js \in [Calls -> PromiseStates]
      /\ held \in SUBSET SyncCalls /\ result \in [Calls -> Results]
  BY DEF IInv, TypeOK, InvokeHead
<1>2. c \in Calls /\ Tail(batch) \in Seq(Calls)
  BY <1>1, HeadTailProperties
<1>3. ToSet(batch) = {c} \cup ToSet(Tail(batch))
  BY <1>1, ToSetHeadTail
<1>4. IsInjective(Tail(batch)) /\ c \notin ToSet(Tail(batch))
  BY <1>1, DistinctTail DEF IInv, ListInv
<1>5. /\ batch' = Tail(batch)
      /\ stage' = [stage EXCEPT ![c] = "invoked"]
      /\ UNCHANGED <<initialized, calls, wake, node, pc, current>>
  BY DEF InvokeHead, queueVars, threadVars
<1>6. stage[c] = "queued" /\ result[c] = "none" /\ js[c] = "none" /\ c \notin held
  BY <1>2, <1>3 DEF IInv, ListInv, AnswerInv
<1>7. /\ js' \in [Calls -> PromiseStates]
      /\ held' \in SUBSET SyncCalls
      /\ result' \in [Calls -> Results]
      /\ \A d \in Calls : d # c =>
            js'[d] = js[d] /\ result'[d] = result[d] /\ (d \in held' <=> d \in held)
      /\ c \in held' => result'[c] = "none" /\ js'[c] = "pending"
      /\ c \in SyncCalls => c \in held' \/ result'[c] # "none"
  <2>1. CASE AttachPromise(c)
    BY <2>1, <1>1, <1>2, <1>6 DEF AttachPromise, PromiseStates
  <2>2. CASE (\E o \in Outcomes \ {"promise"} : Settle(c, o)) /\ UNCHANGED <<js, held>>
    BY <2>2, <1>1, <1>2, <1>6, SettleResult
  <2> QED BY <2>1, <2>2 DEF InvokeHead
<1>8. TypeOK'
  BY <1>1, <1>2, <1>5, <1>7 DEF TypeOK, Stages
<1>9. BootInv'
  BY <1>5 DEF IInv, BootInv, InvokeHead
<1>10. ListInv'
  <2>1. ToSet(calls)' = ToSet(calls) /\ IsInjective(calls)' = IsInjective(calls)
    BY <1>5 DEF ToSet, IsInjective
  <2>2. ToSet(batch') = ToSet(batch) \ {c} /\ IsInjective(batch')
    BY <1>3, <1>4, <1>5
  <2> QED BY <2>1, <2>2, <1>1, <1>2, <1>3, <1>5 DEF IInv, ListInv, ToSet, IsInjective
<1>11. ThreadInv'
  BY <1>1, <1>2, <1>5, <1>6, CallQueueAssumption DEF IInv, ThreadInv, TypeOK
<1>12. AnswerInv'
  BY <1>1, <1>2, <1>5, <1>7, CallQueueAssumption DEF IInv, AnswerInv
<1>13. NoLostWakeup' /\ NoWaiterLeftBehind'
  BY <1>5 DEF IInv, NoLostWakeup, NoWaiterLeftBehind
<1> QED BY <1>8, <1>9, <1>10, <1>11, <1>12, <1>13 DEF IInv

(* The rest of the steps of the event loop, and those of the Java threads,
   leave the two lists alone or only move one into the other. *)
LEMMA NextIInv == IInv /\ [Next]_vars => IInv'
<1> SUFFICES ASSUME IInv, [Next]_vars PROVE IInv'
  OBVIOUS
<1> USE CallQueueAssumption
<1>1. ASSUME UNCHANGED <<calls, batch, stage>> PROVE ListInv'
  BY <1>1 DEF IInv, ListInv
<1>2. CASE UNCHANGED vars
  BY <1>1, <1>2 DEF IInv, TypeOK, BootInv, ThreadInv, AnswerInv, NoLostWakeup,
     NoWaiterLeftBehind, vars, queueVars, nodeVars, threadVars, callVars
<1>3. CASE InitQueue
  BY <1>1, <1>3 DEF InitQueue, IInv, TypeOK, BootInv, ThreadInv, AnswerInv, NoLostWakeup,
     NoWaiterLeftBehind, queueVars, threadVars, callVars, NodeStates
<1>4. CASE SetNodeReceiver
  <2>1. TypeOK'
    BY <1>4 DEF SetNodeReceiver, NotifyAll, IInv, TypeOK, callVars, NodeStates, ThreadStates
  <2>2. BootInv' /\ ThreadInv' /\ AnswerInv' /\ NoLostWakeup' /\ NoWaiterLeftBehind'
    BY <1>4 DEF SetNodeReceiver, NotifyAll, IInv, TypeOK, BootInv, ThreadInv, AnswerInv,
       NoLostWakeup, NoWaiterLeftBehind, callVars
  <2> QED BY <2>1, <2>2, <1>1, <1>4 DEF IInv, SetNodeReceiver, callVars
<1>5. CASE LoopEvent
  BY <1>1, <1>5 DEF LoopEvent, IInv, TypeOK, BootInv, ThreadInv, AnswerInv, NoLostWakeup,
     NoWaiterLeftBehind, queueVars, threadVars, callVars, NodeStates
<1>6. CASE WakeUp
  BY <1>1, <1>6 DEF WakeUp, IInv, TypeOK, BootInv, ThreadInv, AnswerInv, NoLostWakeup,
     NoWaiterLeftBehind, queueVars, threadVars, callVars, NodeStates
<1>7. CASE Drain
  <2>1. batch = <<>>
    BY <1>7 DEF Drain, IInv, BootInv
  <2>2. /\ batch' = calls /\ calls' = <<>>
        /\ UNCHANGED <<initialized, wake, pc, current, stage, js, held, result>>
        /\ node = "woken" /\ node' = "busy"
    BY <1>7 DEF Drain, threadVars, callVars
  <2>3. TypeOK'
    BY <2>2, EmptySeq DEF IInv, TypeOK, NodeStates
  <2>4. ToSet(batch') = ToSet(calls) /\ IsInjective(batch') = IsInjective(calls)
    BY <2>2
  <2>5. ToSet(calls') = {} /\ IsInjective(calls') /\ ToSet(batch) = {}
    BY <2>1, <2>2, EmptyList
  <2>6. ListInv'
    BY <2>2, <2>4, <2>5 DEF IInv, ListInv
  <2>7. BootInv' /\ ThreadInv' /\ AnswerInv' /\ NoLostWakeup' /\ NoWaiterLeftBehind'
    BY <2>2 DEF IInv, BootInv, ThreadInv, AnswerInv, NoLostWakeup, NoWaiterLeftBehind
  <2> QED BY <2>3, <2>6, <2>7 DEF IInv
<1>8. CASE InvokeHead
  BY <1>8, InvokeHeadStep
<1>9. CASE EndTurn
  BY <1>1, <1>9 DEF EndTurn, IInv, TypeOK, BootInv, ThreadInv, AnswerInv, NoLostWakeup,
     NoWaiterLeftBehind, queueVars, threadVars, callVars, NodeStates
<1>10. ASSUME NEW c \in Calls, SettlePromise(c) PROVE IInv'
  <2>1. TypeOK' /\ AnswerInv'
    BY <1>10 DEF SettlePromise, IInv, TypeOK, AnswerInv, queueVars, nodeVars, threadVars,
       PromiseStates
  <2>2. BootInv' /\ ThreadInv' /\ NoLostWakeup' /\ NoWaiterLeftBehind'
    BY <1>10 DEF SettlePromise, IInv, BootInv, ThreadInv, NoLostWakeup,
       NoWaiterLeftBehind, queueVars, nodeVars, threadVars
  <2> QED BY <2>1, <2>2, <1>1, <1>10 DEF IInv, SettlePromise, queueVars, nodeVars
<1>11. ASSUME NEW c \in Calls, React(c) PROVE IInv'
  <2>1. TypeOK /\ UNCHANGED <<queueVars, nodeVars, threadVars, stage>>
    BY <1>11 DEF React, IInv
  <2>2. /\ result' \in [Calls -> Results]
        /\ c \in held => result'[c] # "none"
        /\ c \notin held => result' = result
        /\ \A d \in Calls : d # c => result'[d] = result[d]
    <3>1. CASE c \in held
      BY <3>1, <1>11, <2>1, SettleResult DEF React, TypeOK
    <3>2. CASE c \notin held
      BY <3>2, <1>11, <2>1 DEF React, TypeOK
    <3> QED BY <3>1, <3>2
  <2>3. stage[c] = "invoked"
    BY <1>11 DEF React, IInv, AnswerInv
  <2>4. TypeOK' /\ AnswerInv'
    BY <1>11, <2>1, <2>2, <2>3 DEF React, IInv, TypeOK, AnswerInv, queueVars, nodeVars,
       threadVars, PromiseStates
  <2>5. BootInv' /\ ThreadInv' /\ NoLostWakeup' /\ NoWaiterLeftBehind'
    BY <2>1 DEF IInv, BootInv, ThreadInv, NoLostWakeup, NoWaiterLeftBehind,
       queueVars, nodeVars, threadVars
  <2> QED BY <2>1, <2>4, <2>5, <1>1 DEF IInv, queueVars, nodeVars
<1>12. ASSUME NEW c \in Calls, Reenter(c) PROVE IInv'
  <2>1. TypeOK /\ stage[c] = "new" /\ Push(c) /\ initialized
        /\ stage' = [stage EXCEPT ![c] = "queued"]
        /\ UNCHANGED <<initialized, nodeVars, threadVars, js, held, result>>
    BY <1>12 DEF Reenter, IInv
  <2>2. ListInv' /\ calls' \in Seq(Calls) /\ NoLostWakeup'
    BY <2>1, PushList DEF IInv, nodeVars
  <2>3. TypeOK'
    BY <2>1, <2>2 DEF TypeOK, nodeVars, threadVars, Push, Stages
  <2>4. BootInv' /\ ThreadInv' /\ AnswerInv' /\ NoWaiterLeftBehind'
    BY <2>1 DEF IInv, TypeOK, BootInv, ThreadInv, AnswerInv, NoWaiterLeftBehind,
       nodeVars, threadVars
  <2> QED BY <2>2, <2>3, <2>4 DEF IInv
<1>13. ASSUME NEW t \in Threads, Resume(t) PROVE IInv'
  <2>1. current[t] \in Calls /\ stage[current[t]] = "calling"
    BY <1>13 DEF Resume, IInv, ThreadInv
  <2>2. \A u \in Threads \ {t} :
          pc[u] \in {"waiting", "notified"} => current[u] # current[t]
    BY <1>13 DEF Resume, IInv, ThreadInv
  <2> QED BY <2>1, <2>2, <1>13, EnqueueStep DEF Resume
<1>14. ASSUME NEW t \in Threads, Return(t) PROVE IInv'
  BY <1>1, <1>14 DEF Return, IInv, TypeOK, BootInv, ThreadInv, AnswerInv, NoLostWakeup,
     NoWaiterLeftBehind, queueVars, nodeVars, callVars, ThreadStates
<1>15. ASSUME NEW t \in Threads, NEW c \in Calls, Refuse(t, c) PROVE IInv'
  <2>1. ListInv'
    BY <1>15, ListFrame DEF Refuse, IInv, queueVars, nodeVars
  <2>2. TypeOK' /\ BootInv' /\ ThreadInv' /\ AnswerInv' /\ NoLostWakeup' /\ NoWaiterLeftBehind'
    BY <1>15 DEF Refuse, IInv, TypeOK, BootInv, ThreadInv, AnswerInv, NoLostWakeup,
       NoWaiterLeftBehind, queueVars, nodeVars, threadVars, Stages
  <2> QED BY <2>1, <2>2 DEF IInv
<1>16. ASSUME NEW t \in Threads, NEW c \in Calls, Invoke(t, c) PROVE IInv'
  <2>1. \A u \in Threads \ {t} :
          pc[u] \in {"waiting", "notified"} => current[u] # c
    BY <1>16 DEF Invoke, IInv, ThreadInv
  <2> QED BY <2>1, <1>16, EnqueueStep DEF Invoke
<1>17. ASSUME NEW t \in Threads, NEW c \in Calls, WaitForReceiver(t, c) PROVE IInv'
  <2>1. ListInv'
    BY <1>17, ListFrame DEF WaitForReceiver, IInv, queueVars, nodeVars
  <2>2. TypeOK' /\ BootInv' /\ AnswerInv' /\ NoLostWakeup' /\ NoWaiterLeftBehind'
    BY <1>17 DEF WaitForReceiver, IInv, TypeOK, BootInv, AnswerInv, NoLostWakeup,
       NoWaiterLeftBehind, queueVars, nodeVars, Stages, ThreadStates
  <2>3. ThreadInv'
    BY <1>17 DEF WaitForReceiver, IInv, TypeOK, ThreadInv
  <2> QED BY <2>1, <2>2, <2>3 DEF IInv
<1> QED
  BY <1>2, <1>3, <1>4, <1>5, <1>6, <1>7, <1>8, <1>9, <1>10, <1>11, <1>12, <1>13, <1>14,
     <1>15, <1>16, <1>17 DEF Next, EventLoop, JavaThread

(* The state of the queue hangs together as IInv says, for any number of
   threads and calls: run_all_asyncs, InvokeSync, InvokeAsync and Invoke of
   node-launcher.cpp each preserve it. *)
THEOREM InvariantHolds == Spec => []IInv
<1> QED BY InitIInv, NextIInv, PTL DEF Spec

(* Type correctness of the queue. *)
THEOREM TypeCorrect == Spec => []TypeOK
<1>1. IInv => TypeOK
  BY DEF IInv
<1> QED BY <1>1, InitIInv, NextIInv, PTL DEF Spec

(* No wake-up is lost, and no caller is left on the condition variable. *)
THEOREM WakeUpsReach == Spec => [](NoLostWakeup /\ NoWaiterLeftBehind)
<1>1. IInv => NoLostWakeup /\ NoWaiterLeftBehind
  BY DEF IInv
<1> QED BY <1>1, InitIInv, NextIInv, PTL DEF Spec

(* Whoever blocks in invokeSync has a promise that somebody still owns, or an
   answer already. *)
THEOREM CallersNeverAbandoned == Spec => []BlockedCallerHasOwner
<1>1. IInv => BlockedCallerHasOwner
  BY CallQueueAssumption
     DEF IInv, TypeOK, ListInv, ThreadInv, AnswerInv, BlockedCallerHasOwner, Owned
<1> QED BY <1>1, InitIInv, NextIInv, PTL DEF Spec

(* No promise is settled while somebody will settle it again. *)
THEOREM NeverSettledTwice == Spec => []OwnedMeansUnsettled
<1>1. IInv => OwnedMeansUnsettled
  BY DEF IInv, ListInv, AnswerInv, OwnedMeansUnsettled, Owned
<1> QED BY <1>1, InitIInv, NextIInv, PTL DEF Spec

-----------------------------------------------------------------------------
(* The queue implements the FIFO channel of NodeCalls *)

Channel == batch \o calls
Done == {c \in Calls : stage[c] = "invoked"}

(* Entering the list is entering the channel. *)
LEMMA PushIsSend ==
  ASSUME IInv, NEW c \in Calls, stage[c] \notin {"queued", "invoked"}, Push(c),
         UNCHANGED <<batch, result>>, stage' = [stage EXCEPT ![c] = "queued"]
  PROVE  NC!Send(c)
<1>1. calls \in Seq(Calls) /\ batch \in Seq(Calls) /\ stage \in [Calls -> Stages]
  BY DEF IInv, TypeOK
<1>2. Channel' = Append(Channel, c)
  BY <1>1, ConcatAppend DEF Push, Channel
<1>3. Done' = Done
  BY <1>1 DEF Done
<1>4. c \notin ToSet(Channel) /\ c \notin Done
  BY <1>1, ToSetConcat DEF IInv, ListInv, Channel, Done
<1> QED BY <1>2, <1>3, <1>4 DEF NC!Send, NC!ToSet, Channel, Done, ToSet

(* Settling a synchronous call that has no answer is answering it. *)
LEMMA SettleIsAnswer ==
  ASSUME TypeOK, NEW c \in Calls, result[c] = "none", NEW o, Settle(c, o)
  PROVE  (c \in SyncCalls /\ NC!Answer(c)) \/ (c \notin SyncCalls /\ result' = result)
  BY DEF TypeOK, Settle, SetResult, NC!Answer

(* Running the head of the batch is running the head of the channel. *)
LEMMA InvokeHeadIsRun ==
  ASSUME IInv, InvokeHead
  PROVE  NC!Run
<1> DEFINE c == Head(batch)
<1>1. /\ TypeOK /\ calls \in Seq(Calls) /\ batch \in Seq(Calls) /\ batch # <<>>
      /\ stage \in [Calls -> Stages]
      /\ batch' = Tail(batch) /\ calls' = calls
      /\ stage' = [stage EXCEPT ![c] = "invoked"]
  BY DEF IInv, TypeOK, InvokeHead, queueVars
<1>2. c \in Calls
  BY <1>1, HeadTailProperties
<1>3. Channel # <<>> /\ Channel' = Tail(Channel) /\ Head(Channel) = c
  BY <1>1, ConcatTail DEF Channel
<1>4. Done' = Done \cup {c}
  BY <1>1, <1>2 DEF Done
<1>5. result[c] = "none"
  BY <1>1, <1>2, ToSetHeadTail DEF IInv, ListInv, AnswerInv
<1>6. NC!Answer(c) \/ result' = result
  BY <1>1, <1>2, <1>5, SettleIsAnswer DEF InvokeHead, AttachPromise
<1> QED BY <1>3, <1>4, <1>6 DEF NC!Run, Channel, Done

(* A step of the queue is a step of the channel or leaves it as it is. *)
LEMMA StepSimulation == IInv /\ [Next]_vars => [NC!Next]_(NC!vars)
<1> SUFFICES ASSUME IInv, [Next]_vars PROVE [NC!Next]_(NC!vars)
  OBVIOUS
<1>1. ASSUME UNCHANGED <<calls, batch, stage, result>> PROVE UNCHANGED NC!vars
  BY <1>1 DEF NC!vars
<1>2. CASE UNCHANGED vars
  BY <1>1, <1>2 DEF vars, queueVars, nodeVars, callVars
<1>3. CASE InitQueue \/ SetNodeReceiver \/ LoopEvent \/ WakeUp \/ EndTurn
  BY <1>1, <1>3 DEF InitQueue, SetNodeReceiver, LoopEvent, WakeUp, EndTurn,
     queueVars, callVars
<1>4. CASE Drain
  <2>1. batch = <<>> /\ batch' = calls /\ calls' = <<>> /\ calls \in Seq(Calls)
    BY <1>4 DEF Drain, IInv, BootInv, TypeOK
  <2>2. (batch \o calls)' = batch \o calls
    BY <2>1, ConcatEmptySeq
  <2> QED BY <2>2, <1>4 DEF Drain, callVars, NC!vars
<1>5. CASE InvokeHead
  BY <1>5, InvokeHeadIsRun DEF NC!Next
<1>6. ASSUME NEW c \in Calls, SettlePromise(c) PROVE [NC!Next]_(NC!vars)
  BY <1>1, <1>6 DEF SettlePromise, queueVars, nodeVars
<1>7. ASSUME NEW c \in Calls, React(c) PROVE [NC!Next]_(NC!vars)
  <2>1. UNCHANGED <<calls, batch, stage>> /\ TypeOK
    BY <1>7 DEF React, queueVars, nodeVars, IInv
  <2>2. CASE c \notin held
    BY <1>1, <1>7, <2>1, <2>2 DEF React
  <2>3. CASE c \in held
    <3>1. result[c] = "none" /\ stage[c] = "invoked" /\ c \in SyncCalls
      BY <2>1, <2>3 DEF IInv, AnswerInv, TypeOK
    <3>2. NC!Answer(c)
      BY <2>1, <2>3, <3>1, <1>7, SettleIsAnswer DEF React
    <3>3. NC!LateAnswer(c)
      BY <2>1, <3>1, <3>2 DEF NC!LateAnswer
    <3> QED BY <3>3 DEF NC!Next
  <2> QED BY <2>2, <2>3
<1>8. ASSUME NEW c \in Calls, Reenter(c) PROVE [NC!Next]_(NC!vars)
  BY <1>8, PushIsSend DEF Reenter, nodeVars, NC!Next
<1>9. ASSUME NEW t \in Threads, NEW c \in Calls, stage[c] \in {"new", "calling"},
             Enqueue(t, c)
      PROVE  [NC!Next]_(NC!vars)
  BY <1>9, PushIsSend DEF Enqueue, nodeVars, NC!Next
<1>10. ASSUME NEW t \in Threads, Resume(t) PROVE [NC!Next]_(NC!vars)
  BY <1>9, <1>10 DEF Resume, IInv, ThreadInv
<1>11. ASSUME NEW t \in Threads, Return(t) PROVE [NC!Next]_(NC!vars)
  BY <1>1, <1>11 DEF Return, queueVars, nodeVars, callVars
<1>12. ASSUME NEW t \in Threads, NEW c \in Calls, Invoke(t, c)
       PROVE  [NC!Next]_(NC!vars)
  BY <1>9, <1>12 DEF Invoke
<1>13. ASSUME NEW t \in Threads, NEW c \in Calls, Refuse(t, c) \/ WaitForReceiver(t, c)
       PROVE  [NC!Next]_(NC!vars)
  <2>1. UNCHANGED <<calls, batch, result>>
    BY <1>13 DEF Refuse, WaitForReceiver, queueVars, nodeVars
  <2>2. Done' = Done
    BY <1>13 DEF Refuse, WaitForReceiver, Done, IInv, TypeOK
  <2> QED BY <2>1, <2>2 DEF NC!vars, Done
<1> QED
  BY <1>2, <1>3, <1>4, <1>5, <1>6, <1>7, <1>8, <1>10, <1>11, <1>12, <1>13
     DEF Next, EventLoop, JavaThread

(* The queue, with its mutex, its coalescing wake-ups and its two lists, is
   one FIFO channel that answers each call at most once. *)
THEOREM ImplementsChannel == Spec => ImplementsNodeCalls
<1>1. Init => NC!Init
  BY ConcatEmptySeq, EmptySeq DEF Init, NC!Init
<1> QED BY <1>1, InitIInv, NextIInv, StepSimulation, PTL DEF Spec, ImplementsNodeCalls, NC!Spec

-----------------------------------------------------------------------------
(* The life of the engine *)

LEMMA InitLifeInv == LifeInit => LifeInv
<1> SUFFICES ASSUME LifeInit PROVE LifeInv
  OBVIOUS
<1>1. LifeTypeOK
  BY EmptySeq DEF LifeInit, LifeTypeOK
<1>2. QueueInv
  BY EmptyList DEF LifeInit, QueueInv
<1>3. OpenInv /\ WaitersInv /\ QueriesWaitForOpen
  BY DEF LifeInit, OpenInv, WaitersInv, QueriesWaitForOpen, AllCalls
<1> QED BY <1>1, <1>2, <1>3 DEF LifeInv

(* A call that has not been made joins the queue behind the others. *)
LEMMA MadeCallIsQueued ==
  ASSUME LifeTypeOK, QueueInv, NEW c \in AllCalls, MakeCall(c)
  PROVE  QueueInv' /\ queue' \in Seq(AllCalls)
<1>1. queue \in Seq(AllCalls) /\ queue' = Append(queue, c) /\ c \notin ToSet(queue)
  BY DEF LifeTypeOK, QueueInv, MakeCall
<1>2. queue' \in Seq(AllCalls) /\ ToSet(queue') = ToSet(queue) \cup {c}
  BY <1>1, ToSetAppend, AppendProperties
<1>3. IsInjective(queue')
  BY <1>1, DistinctAppend DEF QueueInv
<1>4. \A d \in AllCalls : outcome'[d] = "sent" <=> d \in ToSet(queue')
  BY <1>2 DEF MakeCall, LifeTypeOK, QueueInv
<1> QED BY <1>2, <1>3, <1>4 DEF QueueInv

(* The call that arrives was sent, and leaves the queue with its answer. *)
LEMMA AnsweredCallIsGone ==
  ASSUME LifeTypeOK, QueueInv, NEW c \in AllCalls, Arrived(c),
         NEW r \in {"waiting", "ok", "error"}, AnswerCall(c, r)
  PROVE  QueueInv' /\ queue' \in Seq(AllCalls) /\ outcome[c] = "sent"
<1>1. queue \in Seq(AllCalls) /\ queue # <<>> /\ Head(queue) = c /\ queue' = Tail(queue)
  BY DEF LifeTypeOK, Arrived, AnswerCall
<1>2. queue' \in Seq(AllCalls)
  BY <1>1, HeadTailProperties
<1>3. ToSet(queue) = {c} \cup ToSet(queue')
  BY <1>1, ToSetHeadTail
<1>4. IsInjective(queue') /\ c \notin ToSet(queue')
  BY <1>1, DistinctTail DEF QueueInv
<1>5. \A d \in AllCalls : outcome'[d] = "sent" <=> d \in ToSet(queue')
  BY <1>3, <1>4 DEF AnswerCall, LifeTypeOK, QueueInv
<1> QED BY <1>2, <1>3, <1>4, <1>5 DEF QueueInv

(* What an answer to the call that arrived leaves of the invariant. *)
LEMMA AnswerKeepsLifeInv ==
  ASSUME LifeInv, NEW c \in UICalls, Arrived(c), NEW r \in {"waiting", "ok", "error"},
         AnswerCall(c, r), r = "waiting" => main = "opening", UNCHANGED jsVars,
         adVars' \in BOOLEAN \X BOOLEAN \X BOOLEAN, early' \subseteq UICalls, QueriesWaitForOpen'
  PROVE  LifeInv'
<1>1. c \in AllCalls /\ c # OnDestroy
  BY EngineLifeAssumption DEF AllCalls
<1>2. QueueInv' /\ queue' \in Seq(AllCalls)
  BY <1>1, AnsweredCallIsGone DEF LifeInv
<1>3. /\ outcome' = [outcome EXCEPT ![c] = r]
      /\ outcome' \in [AllCalls -> {"unmade", "sent", "waiting", "ok", "error"}]
      /\ outcome'[OnDestroy] = outcome[OnDestroy]
  BY <1>1 DEF AnswerCall, LifeInv, LifeTypeOK, AllCalls
<1>4. LifeTypeOK'
  BY <1>2, <1>3 DEF LifeInv, LifeTypeOK, AnswerCall, jsVars, adVars
<1>5. OpenInv'
  BY <1>3 DEF LifeInv, OpenInv, jsVars
<1>6. WaitersInv'
  BY <1>1, <1>3 DEF LifeInv, WaitersInv, jsVars, LifeTypeOK
<1> QED BY <1>2, <1>4, <1>5, <1>6 DEF LifeInv

LEMMA NextLifeInv == LifeInv /\ [LifeNext]_lifeVars => LifeInv'
<1> SUFFICES ASSUME LifeInv, [LifeNext]_lifeVars PROVE LifeInv'
  OBVIOUS
<1> USE DEF LifeInv
<1>1. CASE Start
  BY <1>1 DEF Start, LifeTypeOK, QueueInv, OpenInv, WaitersInv, QueriesWaitForOpen,
              jsVars, adVars
<1>2. ASSUME NEW c \in AllCalls, MakeCall(c), service' \in {"none", "up", "destroyed"},
             UNCHANGED <<jsVars, adVars, early>>
      PROVE  LifeInv'
  <2>1. QueueInv' /\ queue' \in Seq(AllCalls)
    BY <1>2, MadeCallIsQueued
  <2>2. /\ outcome' \in [AllCalls -> {"unmade", "sent", "waiting", "ok", "error"}]
        /\ \A d \in AllCalls : outcome'[d] \in {"waiting", "ok"} => outcome[d] = outcome'[d]
    BY <1>2 DEF MakeCall, LifeTypeOK
  <2>3. LifeTypeOK'
    BY <1>2, <2>1, <2>2 DEF LifeTypeOK, jsVars, adVars
  <2>4. OpenInv' /\ WaitersInv' /\ QueriesWaitForOpen'
    BY <1>2, <2>2
       DEF OpenInv, WaitersInv, QueriesWaitForOpen, jsVars, adVars, AllCalls
  <2> QED BY <2>1, <2>3, <2>4
<1>3. ASSUME NEW c \in UICalls, UICall(c) PROVE LifeInv'
  BY <1>2, <1>3 DEF UICall, AllCalls, LifeTypeOK
<1>4. CASE Destroy
  BY <1>2, <1>4 DEF Destroy, AllCalls
<1>5. CASE Boot
  BY <1>5 DEF Boot, LifeTypeOK, QueueInv, OpenInv, WaitersInv, QueriesWaitForOpen, adVars
<1>6. ASSUME NEW ok \in BOOLEAN, Opened(ok) PROVE LifeInv'
  <2>1. /\ main = "opening" /\ open' \in {"resolved", "rejected"}
        /\ main' = "running" /\ UNCHANGED <<service, queue, early>>
    BY <1>6 DEF Opened
  <2>2. /\ outcome' \in [AllCalls -> {"unmade", "sent", "ok", "error"}]
        /\ \A d \in AllCalls : outcome[d] # "waiting" => outcome'[d] = outcome[d]
        /\ \A d \in AllCalls : outcome[d] = "waiting" => outcome'[d] \in {"ok", "error"}
    BY <1>6 DEF Opened, LifeTypeOK
  <2>3. engineReady' \in BOOLEAN /\ uiReady' \in BOOLEAN /\ conversation' \in BOOLEAN
    BY <1>6 DEF Opened, Ready, Greet, LifeTypeOK
  <2>4. LifeTypeOK'
    BY <2>1, <2>2, <2>3 DEF LifeTypeOK
  <2>5. QueueInv'
    BY <2>1, <2>2 DEF QueueInv
  <2>6. outcome'[OnDestroy] = outcome[OnDestroy]
    BY <2>2 DEF WaitersInv, AllCalls
  <2>7. OpenInv' /\ WaitersInv' /\ QueriesWaitForOpen'
    BY <2>1, <2>2, <2>6
       DEF OpenInv, WaitersInv, QueriesWaitForOpen, LifeTypeOK, AllCalls
  <2> QED BY <2>4, <2>5, <2>7
<1>7. CASE RunEnds
  BY <1>7 DEF RunEnds, LifeTypeOK, QueueInv, OpenInv, WaitersInv, QueriesWaitForOpen,
              adVars
<1>8. CASE Close
  BY <1>8 DEF Close, LifeTypeOK, QueueInv, OpenInv, WaitersInv, QueriesWaitForOpen,
              adVars
<1>9. CASE Notify
  BY <1>9 DEF Notify, LifeTypeOK, QueueInv, OpenInv, WaitersInv, QueriesWaitForOpen,
              jsVars
<1>10. ASSUME NEW c \in AllCalls, NoSuchCallback(c) PROVE LifeInv'
  <2>1. QueueInv' /\ queue' \in Seq(AllCalls) /\ outcome[c] = "sent"
    BY <1>10, AnsweredCallIsGone DEF NoSuchCallback
  <2>2. /\ outcome' = [outcome EXCEPT ![c] = "error"]
        /\ outcome' \in [AllCalls -> {"unmade", "sent", "waiting", "ok", "error"}]
    BY <1>10 DEF NoSuchCallback, AnswerCall, LifeTypeOK
  <2>3. LifeTypeOK'
    BY <1>10, <2>1, <2>2 DEF LifeTypeOK, NoSuchCallback, AnswerCall, jsVars, adVars
  <2>4. OpenInv' /\ WaitersInv' /\ QueriesWaitForOpen'
    BY <1>10, <2>2
       DEF NoSuchCallback, OpenInv, WaitersInv, QueriesWaitForOpen, LifeTypeOK, jsVars
  <2> QED BY <2>1, <2>3, <2>4
<1>11. ASSUME NEW c \in UICalls, HandleQuery(c) PROVE LifeInv'
  <2> DEFINE r == IF main = "failed" THEN "error"
                  ELSE CASE open = "pending" -> "waiting"
                         [] open = "resolved" -> "ok"
                         [] open = "rejected" -> "error"
  <2>1. r \in {"waiting", "ok", "error"}
    BY DEF LifeTypeOK
  <2>2. r = "waiting" => main = "opening"
    BY <1>11 DEF HandleQuery, Arrived, LifeTypeOK, OpenInv
  <2>3. AnswerCall(c, r) /\ UNCHANGED early
    BY <1>11 DEF HandleQuery, Query
  <2>4. /\ Arrived(c) /\ UNCHANGED <<jsVars, adVars>>
        /\ adVars' \in BOOLEAN \X BOOLEAN \X BOOLEAN
        /\ early' \subseteq UICalls /\ QueriesWaitForOpen'
    BY <1>11, <2>3 DEF HandleQuery, adVars, LifeTypeOK, QueriesWaitForOpen
  <2> HIDE DEF r
  <2> QED BY <2>1, <2>2, <2>3, <2>4, AnswerKeepsLifeInv
<1>12. ASSUME NEW c \in UICalls, HandleDirect(c) PROVE LifeInv'
  <2>1. PICK r \in {"ok", "error"} : AnswerCall(c, r)
    BY <1>12 DEF HandleDirect
  <2>2. /\ Arrived(c) /\ UNCHANGED jsVars
        /\ adVars' \in BOOLEAN \X BOOLEAN \X BOOLEAN
        /\ early' \subseteq UICalls /\ QueriesWaitForOpen'
    BY <1>12 DEF HandleDirect, adVars, LifeTypeOK, QueriesWaitForOpen
  <2> QED BY <2>1, <2>2, AnswerKeepsLifeInv
<1>13. ASSUME NEW c \in UICalls, HandleReady(c) \/ HandleCommand(c) PROVE LifeInv'
  <2>1. /\ Arrived(c) /\ AnswerCall(c, "ok") /\ UNCHANGED <<jsVars, early>>
        /\ adVars' \in BOOLEAN \X BOOLEAN \X BOOLEAN
    BY <1>13 DEF HandleReady, HandleCommand, Greet, adVars, LifeTypeOK
  <2>2. early' \subseteq UICalls /\ QueriesWaitForOpen'
    BY <2>1 DEF LifeTypeOK, QueriesWaitForOpen
  <2> QED BY <2>1, <2>2, AnswerKeepsLifeInv
<1>14. CASE UNCHANGED lifeVars
  BY <1>14 DEF lifeVars, jsVars, adVars, LifeTypeOK, QueueInv, OpenInv, WaitersInv,
               QueriesWaitForOpen
<1> QED
  BY <1>1, <1>3, <1>4, <1>5, <1>6, <1>7, <1>8, <1>9, <1>10, <1>11, <1>12, <1>13,
     <1>14
     DEF LifeNext, Handle

(* Whatever the order of calls, opening, closing and the end of the service,
   no query reaches an engine that is not open, and a call waits only for a
   main that will answer it. *)
THEOREM LifeInvHolds == LifeSpec => []LifeInv
BY InitLifeInv, NextLifeInv, PTL DEF LifeSpec

(* Neither order of the engine's open and the interface's onready leaves both
   waiting: whichever is ready last starts the conversation. *)
THEOREM ConversationBegins == LifeSpec => []GreetedWhenBothReady
<1>1. LifeInit => GreetedWhenBothReady
  BY DEF LifeInit, GreetedWhenBothReady
<1>2. LifeInv /\ GreetedWhenBothReady /\ [LifeNext]_lifeVars => GreetedWhenBothReady'
  <2> SUFFICES ASSUME LifeInv, GreetedWhenBothReady, [LifeNext]_lifeVars
               PROVE  GreetedWhenBothReady'
    OBVIOUS
  <2>1. CASE UNCHANGED adVars
    BY <2>1 DEF adVars, GreetedWhenBothReady
  <2>2. ASSUME NEW ok \in BOOLEAN, Opened(ok) PROVE GreetedWhenBothReady'
    BY <2>2 DEF Opened, Ready, Greet, GreetedWhenBothReady
  <2>3. ASSUME NEW c \in UICalls, HandleReady(c) \/ HandleCommand(c)
        PROVE  GreetedWhenBothReady'
    BY <2>3 DEF HandleReady, HandleCommand, Greet, GreetedWhenBothReady
  <2>4. CASE Notify
    BY <2>4 DEF Notify, GreetedWhenBothReady
  <2> QED
    BY <2>1, <2>2, <2>3, <2>4
       DEF LifeNext, Start, Destroy, UICall, Boot, RunEnds, Close, Handle,
           NoSuchCallback, HandleQuery, HandleDirect, lifeVars
<1> QED BY <1>1, <1>2, InitLifeInv, NextLifeInv, PTL DEF LifeSpec

(* A call of the interface is answered once: whatever becomes of the engine
   later, its answer stays. *)
THEOREM AnswersStay ==
  LifeSpec => [][\A c \in AllCalls : outcome[c] \in {"ok", "error"}
                                       => outcome'[c] = outcome[c]]_lifeVars
<1> DEFINE Stays == \A c \in AllCalls : outcome[c] \in {"ok", "error"}
                                          => outcome'[c] = outcome[c]
<1>1. ASSUME LifeInv, [LifeNext]_lifeVars PROVE Stays
  <2> USE DEF LifeInv
  <2>1. CASE UNCHANGED outcome
    BY <2>1
  <2>2. ASSUME NEW c \in AllCalls, MakeCall(c) PROVE Stays
    BY <2>2 DEF MakeCall, LifeTypeOK
  <2>3. ASSUME NEW ok \in BOOLEAN, Opened(ok) PROVE Stays
    BY <2>3 DEF Opened
  <2>4. ASSUME NEW c \in AllCalls, Arrived(c), NEW r, AnswerCall(c, r) PROVE Stays
    <3>1. queue \in Seq(AllCalls) /\ queue # <<>> /\ c = Head(queue)
      BY <1>1, <2>4 DEF Arrived, LifeTypeOK
    <3>2. c \in ToSet(queue)
      BY <3>1, ToSetHeadTail
    <3>3. outcome[c] = "sent"
      BY <1>1, <2>4, <3>2 DEF QueueInv
    <3> QED BY <1>1, <2>4, <3>3 DEF AnswerCall, LifeTypeOK
  <2>5. CASE Handle
    BY <2>4, <2>5
       DEF Handle, NoSuchCallback, HandleQuery, Query, HandleDirect,
           HandleReady, HandleCommand, AllCalls
  <2>6. CASE Destroy \/ \E c \in UICalls : UICall(c)
    BY <2>2, <2>6 DEF Destroy, UICall, AllCalls
  <2>7. CASE Start \/ Boot \/ RunEnds \/ Close \/ Notify \/ UNCHANGED lifeVars
    BY <2>1, <2>7 DEF Start, Boot, RunEnds, Close, Notify, lifeVars
  <2> QED
    BY <1>1, <2>3, <2>5, <2>6, <2>7 DEF LifeNext
<1> QED BY <1>1, InitLifeInv, NextLifeInv, PTL DEF LifeSpec
=============================================================================
