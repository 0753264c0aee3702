----------------------------- MODULE CallQueue -----------------------------
(***************************************************************************)
(* The queue by which Java threads call into NodeJS: CallQueue and         *)
(* PackagedNodeCall of app/src/main/jni, and the JavaScript receiver of    *)
(* jsapp/launcher.js.                                                      *)
(*                                                                         *)
(* Any Java thread (UI thread, executor threads, binder threads) appends a *)
(* packaged call to a list under a mutex and signals a libuv async handle; *)
(* signals coalesce.  The one thread that runs the NodeJS event loop moves *)
(* the whole list aside and invokes the calls in order.  invokeSync blocks *)
(* its caller on a std::future until JavaScript returns, throws, or the    *)
(* promise that it returned settles.  Before JavaScript has installed its  *)
(* receiver every caller blocks on a condition variable.                   *)
(***************************************************************************)
EXTENDS Naturals, SequencesExt

CONSTANTS Threads,    \* Java threads that call into NodeJS
          Calls,      \* identities of the calls, each made at most once
          SyncCalls,  \* calls made with invokeSync
          NoCall      \* no call in progress

ASSUME CallQueueAssumption ==
    /\ SyncCalls \subseteq Calls
    /\ NoCall \notin Calls

VARIABLES
    initialized,  \* CallQueue::initialized: JavaScript has set its receiver
    calls,        \* CallQueue::calls, the list under the mutex
    wake,         \* the uv_async_t has been sent and not yet dispatched
    batch,        \* the list tmp of run_all_asyncs, the calls not yet invoked
    node,         \* what the event loop thread is doing
    pc,           \* what each Java thread is doing
    current,      \* the call each Java thread is making
    stage,        \* how far each call has got
    js,           \* the JavaScript promise a call returned, if it did
    held,         \* calls whose std::promise sits in a non-null holder
    result        \* the shared state behind the std::future of a call

queueVars == <<initialized, calls, wake>>
nodeVars == <<batch, node>>
threadVars == <<pc, current>>
callVars == <<stage, js, held, result>>
vars == <<queueVars, nodeVars, threadVars, callVars>>

NodeStates == {"boot", "loaded", "idle", "woken", "busy"}
ThreadStates == {"idle", "waiting", "notified", "blocked"}
Stages == {"new", "calling", "refused", "queued", "invoked"}
PromiseStates == {"none", "pending", "fulfilled", "rejected", "done"}
Results == {"none", "value", "error"}

(* What one call of the JavaScript receiver can do: return a plain value,
   return something that cannot be marshalled, return a native promise, or
   throw (launcher.js throws for a name without callback). *)
Outcomes == {"value", "unmarshallable", "promise", "throw"}

TypeOK ==
    /\ initialized \in BOOLEAN
    /\ calls \in Seq(Calls)
    /\ wake \in BOOLEAN
    /\ batch \in Seq(Calls)
    /\ node \in NodeStates
    /\ pc \in [Threads -> ThreadStates]
    /\ current \in [Threads -> Calls \cup {NoCall}]
    /\ stage \in [Calls -> Stages]
    /\ js \in [Calls -> PromiseStates]
    /\ held \in SUBSET SyncCalls
    /\ result \in [Calls -> Results]

Init ==
    /\ initialized = FALSE
    /\ calls = <<>>
    /\ wake = FALSE
    /\ batch = <<>>
    /\ node = "boot"
    /\ pc = [t \in Threads |-> "idle"]
    /\ current = [t \in Threads |-> NoCall]
    /\ stage = [c \in Calls |-> "new"]
    /\ js = [c \in Calls |-> "none"]
    /\ held = {}
    /\ result = [c \in Calls |-> "none"]

-----------------------------------------------------------------------------
(* The event loop thread starts: the bootstrap line runs __launcher.init(),
   which registers the async handle, then app.js loads launcher.js. *)

InitQueue ==
    /\ node = "boot"
    /\ node' = "loaded"
    /\ UNCHANGED <<queueVars, batch, threadVars, callVars>>

(* notify_one in place of notify_all *)
NotifyOne ==
    IF \E t \in Threads : pc[t] = "waiting"
    THEN \E t \in Threads : pc[t] = "waiting" /\ pc' = [pc EXCEPT ![t] = "notified"]
    ELSE UNCHANGED pc

NotifyAll ==
    pc' = [t \in Threads |-> IF pc[t] = "waiting" THEN "notified" ELSE pc[t]]

SetNodeReceiver ==
    /\ node = "loaded"
    /\ node' = "busy"       \* the rest of app.js is still running
    /\ initialized' = TRUE
    /\ NotifyAll
    /\ UNCHANGED <<calls, wake, batch, current, callVars>>

-----------------------------------------------------------------------------
(* Java threads *)

(* emplace_front in place of emplace_back *)
PushFront(c) ==
    /\ calls' = <<c>> \o calls
    /\ wake' = TRUE

(* emplace_back and uv_async_send, both under the mutex *)
Push(c) ==
    /\ calls' = Append(calls, c)
    /\ wake' = TRUE

(* The part of InvokeAsync and InvokeSync after the wait: a synchronous
   caller goes on to future.get(). *)
Enqueue(t, c) ==
    /\ Push(c)
    /\ stage' = [stage EXCEPT ![c] = "queued"]
    /\ pc' = [pc EXCEPT ![t] = IF c \in SyncCalls THEN "blocked" ELSE "idle"]
    /\ current' = [current EXCEPT ![t] = IF c \in SyncCalls THEN c ELSE NoCall]
    /\ UNCHANGED <<initialized, nodeVars, js, held, result>>

(* invokeAsync or invokeSync of NodeJSLauncher.  An argument that cannot be
   marshalled raises IllegalArgumentException before the queue is touched. *)
Refuse(t, c) ==
    /\ pc[t] = "idle"
    /\ stage[c] = "new"
    /\ stage' = [stage EXCEPT ![c] = "refused"]
    /\ UNCHANGED <<queueVars, nodeVars, threadVars, js, held, result>>

Invoke(t, c) ==
    /\ pc[t] = "idle"
    /\ stage[c] = "new"
    /\ initialized
    /\ Enqueue(t, c)

(* while (!initialized) init_cond.wait(lock) *)
WaitForReceiver(t, c) ==
    /\ pc[t] = "idle"
    /\ stage[c] = "new"
    /\ ~initialized
    /\ pc' = [pc EXCEPT ![t] = "waiting"]
    /\ current' = [current EXCEPT ![t] = c]
    /\ stage' = [stage EXCEPT ![c] = "calling"]
    /\ UNCHANGED <<queueVars, nodeVars, js, held, result>>

Resume(t) ==
    /\ pc[t] = "notified"
    /\ initialized
    /\ Enqueue(t, current[t])

(* future.get() returns the value or rethrows the error *)
Return(t) ==
    /\ pc[t] = "blocked"
    /\ result[current[t]] # "none"
    /\ pc' = [pc EXCEPT ![t] = "idle"]
    /\ current' = [current EXCEPT ![t] = NoCall]
    /\ UNCHANGED <<queueVars, nodeVars, callVars>>

-----------------------------------------------------------------------------
(* The event loop thread *)

(* A handle other than ours fires: a timer, a socket, a completed Java call. *)
LoopEvent ==
    /\ node = "idle"
    /\ node' = "busy"
    /\ UNCHANGED <<queueVars, batch, threadVars, callVars>>

(* libuv clears the pending flag, then calls run_all_asyncs *)
WakeUp ==
    /\ node = "idle"
    /\ wake
    /\ wake' = FALSE
    /\ node' = "woken"
    /\ UNCHANGED <<initialized, calls, batch, threadVars, callVars>>

(* one call per wake-up, forgetting that signals coalesce *)
DrainOne ==
    /\ node = "woken"
    /\ node' = "busy"
    /\ batch' = IF calls = <<>> THEN <<>> ELSE <<Head(calls)>>
    /\ calls' = IF calls = <<>> THEN <<>> ELSE Tail(calls)
    /\ UNCHANGED <<initialized, wake, threadVars, callVars>>

(* run_all_asyncs takes the whole list under the mutex *)
Drain ==
    /\ node = "woken"
    /\ node' = "busy"
    /\ batch' = calls
    /\ calls' = <<>>
    /\ UNCHANGED <<initialized, wake, threadVars, callVars>>

(* set_value or set_exception, if the caller asked for the future *)
SetResult(c, r) ==
    result' = IF c \in SyncCalls THEN [result EXCEPT ![c] = r] ELSE result

(* an unmarshallable value is dropped instead of reported *)
SettleDropping(c, o) ==
    IF o = "unmarshallable" THEN UNCHANGED result
    ELSE SetResult(c, IF o = "value" THEN "value" ELSE "error")

(* SetReturn and SetException *)
Settle(c, o) ==
    SetResult(c, IF o = "value" THEN "value" ELSE "error")

(* the std::promise of the call is not moved into the holder *)
AttachUnheld(c) ==
    /\ js' = [js EXCEPT ![c] = "pending"]
    /\ UNCHANGED <<held, result>>

(* The call returned a promise: the std::promise moves to the heap, into a
   holder that the then and the catch callbacks share.  An asynchronous call
   gets only a catch, with a null holder. *)
AttachPromise(c) ==
    /\ js' = [js EXCEPT ![c] = "pending"]
    /\ held' = held \cup ({c} \cap SyncCalls)
    /\ UNCHANGED result

(* PackagedNodeCall::Invoke on the next call of the batch *)
InvokeHead ==
    LET c == Head(batch) IN
    /\ node = "busy"
    /\ batch # <<>>
    /\ batch' = Tail(batch)
    /\ stage' = [stage EXCEPT ![c] = "invoked"]
    /\ \/ AttachPromise(c)
       \/ /\ \E o \in Outcomes \ {"promise"} : Settle(c, o)
          /\ UNCHANGED <<js, held>>
    /\ UNCHANGED <<queueVars, node, threadVars>>

(* JavaScript settles a promise that a call returned.  It may do so whenever
   it runs: in a callback of the batch or in any other event of the loop. *)
SettlePromise(c) ==
    /\ node = "busy"
    /\ js[c] = "pending"
    /\ \E s \in {"fulfilled", "rejected"} : js' = [js EXCEPT ![c] = s]
    /\ UNCHANGED <<queueVars, nodeVars, threadVars, stage, held, result>>

(* the holder is not nulled *)
ReactKeeping(c) ==
    /\ node = "busy"
    /\ js[c] \in {"fulfilled", "rejected"}
    /\ js' = [js EXCEPT ![c] = "done"]
    /\ UNCHANGED held
    /\ IF c \in held
       THEN \E o \in IF js[c] = "fulfilled" THEN {"value", "unmarshallable"}
                                            ELSE {"throw"} : Settle(c, o)
       ELSE UNCHANGED result
    /\ UNCHANGED <<queueVars, nodeVars, threadVars, stage>>

(* then_promise and catch_promise: use the holder once, then null it *)
React(c) ==
    /\ node = "busy"
    /\ js[c] \in {"fulfilled", "rejected"}
    /\ js' = [js EXCEPT ![c] = "done"]
    /\ held' = held \ {c}
    /\ IF c \in held
       THEN \E o \in IF js[c] = "fulfilled" THEN {"value", "unmarshallable"}
                                            ELSE {"throw"} : Settle(c, o)
       ELSE UNCHANGED result
    /\ UNCHANGED <<queueVars, nodeVars, threadVars, stage>>

(* JavaScript called Java synchronously, and that Java code makes an
   asynchronous call on the event loop thread itself. *)
Reenter(c) ==
    /\ node = "busy"
    /\ initialized
    /\ c \notin SyncCalls
    /\ stage[c] = "new"
    /\ Push(c)
    /\ stage' = [stage EXCEPT ![c] = "queued"]
    /\ UNCHANGED <<initialized, nodeVars, threadVars, js, held, result>>

(* RunMicrotasks has run every reaction that is ready; back to the loop. *)
EndTurn ==
    /\ node = "busy"
    /\ batch = <<>>
    /\ \A c \in Calls : js[c] \notin {"fulfilled", "rejected"}
    /\ node' = "idle"
    /\ UNCHANGED <<queueVars, batch, threadVars, callVars>>

-----------------------------------------------------------------------------
JavaThread(t) ==
    \/ Resume(t)
    \/ Return(t)
    \/ \E c \in Calls : Refuse(t, c) \/ Invoke(t, c) \/ WaitForReceiver(t, c)

EventLoop ==
    \/ InitQueue
    \/ SetNodeReceiver
    \/ LoopEvent
    \/ WakeUp
    \/ Drain
    \/ InvokeHead
    \/ EndTurn
    \/ \E c \in Calls : SettlePromise(c) \/ React(c) \/ Reenter(c)

Next == EventLoop \/ \E t \in Threads : JavaThread(t)

Spec == Init /\ [][Next]_vars

(* The event loop thread keeps running and polls the async handle in every
   iteration of the loop, whatever else it dispatches (hence strong fairness
   of WakeUp); a notified or answered Java thread is scheduled.  Nothing
   makes Java call, JavaScript settle a promise or another event arrive. *)
Fairness ==
    /\ WF_vars(InitQueue) /\ WF_vars(SetNodeReceiver)
    /\ SF_vars(WakeUp)
    /\ WF_vars(Drain) /\ WF_vars(InvokeHead) /\ WF_vars(EndTurn)
    /\ \A c \in Calls : WF_vars(React(c))
    /\ \A t \in Threads : WF_vars(Resume(t)) /\ WF_vars(Return(t))

FairSpec == Spec /\ Fairness

-----------------------------------------------------------------------------
(* Safety *)

(* A call in the list is never stranded: the async handle is pending, or the
   loop has been woken and is about to take the list.  Several sends may
   collapse into one wake-up (uv_async_send coalesces), so this is what makes
   taking the whole list necessary. *)
NoLostWakeup == calls # <<>> => wake \/ node = "woken"

(* Once the receiver is installed nobody is left in init_cond.wait: the
   check of initialized and the wait are under the mutex, and the
   notification reaches every waiter. *)
NoWaiterLeftBehind == initialized => \A t \in Threads : pc[t] # "waiting"

(* The places where the std::promise of a synchronous call can be. *)
Owned(c) == c \in ToSet(calls) \cup ToSet(batch) \cup held

(* A Java thread blocked in future.get() is never abandoned by the bridge:
   its promise is settled, or an owner that will settle it still has it: the
   packaged call in the list or in the batch, or the holder.  (That no two of
   them have it is part of IInv.) *)
BlockedCallerHasOwner ==
    \A t \in Threads : pc[t] = "blocked" =>
        \/ result[current[t]] # "none"
        \/ Owned(current[t])

(* A promise with an owner has not been settled: so that set_value is never
   called twice (it would throw std::future_error in the event loop) and the
   heap copy is never deleted twice. *)
OwnedMeansUnsettled == \A c \in Calls : Owned(c) => result[c] = "none"

-----------------------------------------------------------------------------
(* The inductive invariant behind the safety properties, by named parts. *)

(* The receiver is installed by the event loop thread, and nothing is queued,
   woken or notified before that. *)
BootInv ==
    /\ initialized <=> node \notin {"boot", "loaded"}
    /\ ~initialized => calls = <<>> /\ \A t \in Threads : pc[t] # "notified"
    /\ batch # <<>> => node = "busy"

(* The two lists hold each queued call exactly once. *)
ListInv ==
    /\ IsInjective(calls) /\ IsInjective(batch)
    /\ ToSet(calls) \cap ToSet(batch) = {}
    /\ \A c \in Calls : stage[c] = "queued" <=> c \in ToSet(calls) \cup ToSet(batch)

(* A call that is being made belongs to one thread, and a blocked thread has
   handed over a synchronous call. *)
ThreadInv ==
    /\ \A t \in Threads : pc[t] \in {"waiting", "notified"} =>
          current[t] \in Calls /\ stage[current[t]] = "calling"
    /\ \A t, u \in Threads :
          /\ pc[t] \in {"waiting", "notified"}
          /\ pc[u] \in {"waiting", "notified"}
          /\ current[t] = current[u]
          => t = u
    /\ \A t \in Threads : pc[t] = "blocked" =>
          /\ current[t] \in SyncCalls
          /\ stage[current[t]] \in {"queued", "invoked"}

(* A call has no answer before it is invoked, and afterwards a synchronous
   call either has its answer or is held by the reactions of a live promise. *)
AnswerInv ==
    /\ \A c \in Calls : stage[c] # "invoked" => result[c] = "none" /\ js[c] = "none"
    /\ \A c \in held :
          /\ stage[c] = "invoked"
          /\ result[c] = "none"
          /\ js[c] \in {"pending", "fulfilled", "rejected"}
    /\ \A c \in SyncCalls : stage[c] = "invoked" => result[c] # "none" \/ c \in held

IInv ==
    /\ TypeOK
    /\ BootInv
    /\ ListInv
    /\ ThreadInv
    /\ AnswerInv
    /\ NoLostWakeup
    /\ NoWaiterLeftBehind

-----------------------------------------------------------------------------
(* The abstract channel: what is in the batch is ahead of what is in the list. *)

NC == INSTANCE NodeCalls WITH
          channel <- batch \o calls,
          done <- {c \in Calls : stage[c] = "invoked"},
          answer <- result

(* The two-level queue is one FIFO channel: no call is lost, duplicated or
   overtaken, and an answer is given once, after the call has run. *)
ImplementsNodeCalls == NC!Spec

-----------------------------------------------------------------------------
(* Liveness *)

(* Every call that entered the bridge, even before JavaScript was ready, is
   eventually run by JavaScript. *)
EveryCallRuns ==
    \A c \in Calls : stage[c] \in {"calling", "queued"} ~> stage[c] = "invoked"

(* A thread blocked in invokeSync gets its answer unless the promise that
   JavaScript returned stays pending: the bridge itself never holds it up. *)
SyncCallerReturns ==
    \A t \in Threads : \A c \in SyncCalls :
        []<>(~(pc[t] = "blocked" /\ current[t] = c) \/ js[c] = "pending")
=============================================================================
