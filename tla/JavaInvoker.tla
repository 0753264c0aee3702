---------------------------- MODULE JavaInvoker ----------------------------
(***************************************************************************)
(* The bridge from NodeJS into Java: JavaInvoker, NativeCallQueue and the  *)
(* JNI entry points of node-launcher.cpp, with NodeJSLauncher.asyncCallback*)
(* on the Java side.                                                       *)
(*                                                                         *)
(* callJavaAsync runs on the event loop thread: it stores the resolver of  *)
(* a fresh JavaScript promise under a fresh number, and hands the Java     *)
(* callback to a cached thread pool.  The pool thread runs the callback    *)
(* and queues the outcome on the native queue; the event loop takes the    *)
(* whole queue, looks each number up and settles the promise.              *)
(* callJavaSync runs the Java callback on the event loop thread itself.    *)
(***************************************************************************)
EXTENDS Naturals, SequencesExt

CONSTANTS Promises,   \* the promises that callJavaAsync hands to JavaScript
          Methods     \* names of Java methods JavaScript may call

VARIABLES
    methods,      \* JavaInvoker::methods, the names registered so far
    nextId,       \* next_promise_id
    callbacks,    \* JavaInvoker::callbacks, a set of entries id -> promise
    tasks,        \* entries whose Java callback the pool is running
    natives,      \* NativeCallQueue::calls
    wake,         \* the native queue's uv_async_t has been sent
    batch,        \* the list tmp of run_all_asyncs, what is left of it
    node,         \* what the event loop thread is doing
    state,        \* the JavaScript promises
    outcome,      \* what became of the Java side of each promise
    alive         \* the process has not been killed by an uncaught throwable

loopVars == <<natives, wake, batch, node>>
callVars == <<nextId, callbacks, tasks, state, outcome>>
vars == <<methods, loopVars, callVars, alive>>

Entries == [id : Nat, promise : Promises]
Completions == [id : Nat, outcome : {"ok", "error"}]
PromiseStates == {"unused", "undefined", "pending", "fulfilled", "rejected"}

TypeOK ==
    /\ methods \in SUBSET Methods
    /\ nextId \in Nat
    /\ callbacks \in SUBSET Entries
    /\ tasks \in SUBSET Entries
    /\ natives \in Seq(Completions)
    /\ wake \in BOOLEAN
    /\ batch \in Seq(Completions)
    /\ node \in {"idle", "woken", "busy", "java"}
    /\ state \in [Promises -> PromiseStates]
    /\ outcome \in [Promises -> {"none", "ok", "error", "refused"}]
    /\ alive \in BOOLEAN
    /\ batch # <<>> => node \in {"busy", "java"}

Init ==
    /\ methods = {}
    /\ nextId = 1
    /\ callbacks = {}
    /\ tasks = {}
    /\ natives = <<>>
    /\ wake = FALSE
    /\ batch = <<>>
    /\ node = "busy"            \* the first script is running
    /\ state = [p \in Promises |-> "unused"]
    /\ outcome = [p \in Promises |-> "none"]
    /\ alive = TRUE

-----------------------------------------------------------------------------
(* Java threads *)

(* registerJavaCall *)
Register(m) ==
    /\ alive
    /\ m \notin methods
    /\ methods' = methods \cup {m}
    /\ UNCHANGED <<loopVars, callVars, alive>>

(* completePromise: append to the native queue and signal it *)
Complete(e, o) ==
    /\ natives' = Append(natives, [id |-> e.id, outcome |-> o])
    /\ wake' = TRUE
    /\ outcome' = [outcome EXCEPT ![e.promise] = o]

(* The Java callback returns a value that can be marshalled, or throws an
   Exception that has a message. *)
TaskDone(e) ==
    /\ alive
    /\ e \in tasks
    /\ tasks' = tasks \ {e}
    /\ \E o \in {"ok", "error"} : Complete(e, o)
    /\ UNCHANGED <<methods, batch, node, nextId, callbacks, state, alive>>

(* The callback throws an Error, which asyncCallback does not catch; or an
   exception without a message, whose null string is dereferenced in native
   code; or returns a value that cannot be marshalled, for which
   completePromise throws on the pool thread.  Each is fatal to the process. *)
TaskFatal(e) ==
    /\ alive
    /\ e \in tasks
    /\ tasks' = tasks \ {e}
    /\ alive' = FALSE
    /\ UNCHANGED <<methods, loopVars, nextId, callbacks, state, outcome>>

(* An uncaught throwable on any other thread ends the process too. *)
Killed ==
    /\ alive
    /\ alive' = FALSE
    /\ UNCHANGED <<methods, loopVars, callVars>>

-----------------------------------------------------------------------------
(* JavaScript, on the event loop thread *)

(* the number of the last promise is used again *)
FreshReused(p) == [id |-> IF nextId > 1 THEN nextId - 1 ELSE nextId, promise |-> p]

(* promise_id = next_promise_id++ *)
Fresh(p) == [id |-> nextId, promise |-> p]

(* the number of a call that the executor refused stays in the map *)
RefusedKept(p) ==
    /\ state' = [state EXCEPT ![p] = "rejected"]
    /\ outcome' = [outcome EXCEPT ![p] = "refused"]
    /\ nextId' = nextId + 1
    /\ callbacks' = callbacks \cup {Fresh(p)}
    /\ UNCHANGED tasks

(* ExecutorService.execute throws: the promise is rejected, the entry erased *)
Refused(p) ==
    /\ state' = [state EXCEPT ![p] = "rejected"]
    /\ outcome' = [outcome EXCEPT ![p] = "refused"]
    /\ nextId' = nextId + 1
    /\ UNCHANGED <<callbacks, tasks>>

Accepted(p) ==
    /\ state' = [state EXCEPT ![p] = "pending"]
    /\ nextId' = nextId + 1
    /\ callbacks' = callbacks \cup {Fresh(p)}
    /\ tasks' = tasks \cup {Fresh(p)}
    /\ UNCHANGED outcome

NoSuchFunction(p) ==
    /\ state' = [state EXCEPT ![p] = "rejected"]
    /\ outcome' = [outcome EXCEPT ![p] = "refused"]
    /\ UNCHANGED <<nextId, callbacks, tasks>>

(* an argument cannot be marshalled: callJavaAsync returns undefined *)
NotMarshalled(p) ==
    /\ state' = [state EXCEPT ![p] = "undefined"]
    /\ UNCHANGED <<nextId, callbacks, tasks, outcome>>

(* callJavaAsync *)
InvokeAsync(p, m) ==
    /\ alive
    /\ node = "busy"
    /\ state[p] = "unused"
    /\ \/ NotMarshalled(p)
       \/ m \notin methods /\ NoSuchFunction(p)
       \/ m \in methods /\ (Accepted(p) \/ Refused(p))
    /\ UNCHANGED <<methods, loopVars, alive>>

(* callJavaSync: the loop is stopped while the Java callback runs *)
InvokeSync(m) ==
    /\ alive
    /\ node = "busy"
    /\ m \in methods
    /\ node' = "java"
    /\ UNCHANGED <<methods, natives, wake, batch, callVars, alive>>

SyncReturn ==
    /\ alive
    /\ node = "java"
    /\ node' = "busy"
    /\ UNCHANGED <<methods, natives, wake, batch, callVars, alive>>

-----------------------------------------------------------------------------
(* The event loop *)

(* a handle other than the native queue fires *)
LoopEvent ==
    /\ alive
    /\ node = "idle"
    /\ node' = "busy"
    /\ UNCHANGED <<methods, natives, wake, batch, callVars, alive>>

WakeUp ==
    /\ alive
    /\ node = "idle"
    /\ wake
    /\ wake' = FALSE
    /\ node' = "woken"
    /\ UNCHANGED <<methods, natives, batch, callVars, alive>>

(* one completion per wake-up *)
DrainOne ==
    /\ alive
    /\ node = "woken"
    /\ node' = "busy"
    /\ batch' = IF natives = <<>> THEN <<>> ELSE <<Head(natives)>>
    /\ natives' = IF natives = <<>> THEN <<>> ELSE Tail(natives)
    /\ UNCHANGED <<methods, wake, callVars, alive>>

Drain ==
    /\ alive
    /\ node = "woken"
    /\ node' = "busy"
    /\ batch' = natives
    /\ natives' = <<>>
    /\ UNCHANGED <<methods, wake, callVars, alive>>

Found(id) == {e \in callbacks : e.id = id}

(* CompletePromise: look the number up, erase the entry, settle the promise;
   a number that is not in the map is ignored. *)
Settle(c) ==
    /\ state' = [p \in Promises |->
                    IF \E e \in Found(c.id) : e.promise = p
                    THEN IF c.outcome = "ok" THEN "fulfilled" ELSE "rejected"
                    ELSE state[p]]
    /\ callbacks' = callbacks \ Found(c.id)

CompletePromise ==
    /\ alive
    /\ node = "busy"
    /\ batch # <<>>
    /\ batch' = Tail(batch)
    /\ Settle(Head(batch))
    /\ UNCHANGED <<methods, natives, wake, node, nextId, tasks, outcome, alive>>

EndTurn ==
    /\ alive
    /\ node = "busy"
    /\ batch = <<>>
    /\ node' = "idle"
    /\ UNCHANGED <<methods, natives, wake, batch, callVars, alive>>

-----------------------------------------------------------------------------
Next ==
    \/ \E m \in Methods : Register(m) \/ InvokeSync(m)
    \/ \E p \in Promises, m \in Methods : InvokeAsync(p, m)
    \/ \E e \in tasks : TaskDone(e) \/ TaskFatal(e)
    \/ SyncReturn \/ LoopEvent \/ WakeUp \/ Drain \/ CompletePromise \/ EndTurn
    \/ Killed

Spec == Init /\ [][Next]_vars

(* The event loop polls its handles in every iteration; a turn of JavaScript
   makes finitely many synchronous calls (hence strong fairness of what
   follows them); and a synchronous Java method returns, as none of those
   registered for synchronous use waits for anything.  An asynchronous Java
   callback may block for ever, so nothing is assumed of TaskDone. *)
Fairness ==
    /\ SF_vars(WakeUp) /\ SF_vars(CompletePromise) /\ SF_vars(EndTurn)
    /\ WF_vars(Drain) /\ WF_vars(SyncReturn)

FairSpec == Spec /\ Fairness

-----------------------------------------------------------------------------
(* Safety *)

(* A promise is settled by its own Java call: fulfilled only if that call
   returned, rejected only if it threw or was refused.  The number that
   travels through the pool and the native queue never names another promise. *)
SettledByOwnCall ==
    \A p \in Promises :
        /\ state[p] = "fulfilled" => outcome[p] = "ok"
        /\ state[p] = "rejected" => outcome[p] \in {"error", "refused"}

(* The completions on their way, and those of them that the entry e awaits. *)
UnderWay == ToSet(natives) \cup ToSet(batch)
OnTheWay(e) == {c \in UnderWay : c.id = e.id}

(* The map holds exactly the pending promises, each under one number, and
   while the process lives each of them has exactly one party that will
   complete it: a pool thread or a queued completion.  So a promise is never
   orphaned, and no resolver is kept after its promise is settled. *)
PendingIsTracked ==
    /\ \A e, f \in callbacks : e.id = f.id <=> e.promise = f.promise
    /\ \A p \in Promises :
          state[p] = "pending" <=> \E e \in callbacks : e.promise = p
    /\ alive => \A e \in callbacks : e \in tasks <=> OnTheWay(e) = {}

(* A queued completion is never stranded by the coalescing of wake-ups. *)
NoLostWakeup == natives # <<>> => wake \/ node = "woken"

-----------------------------------------------------------------------------
(* The inductive invariant behind the safety properties, by named parts. *)

(* A number is given out once; what runs is in the map and has no outcome. *)
EntryInv ==
    /\ \A e \in callbacks : e.id < nextId
    /\ tasks \subseteq callbacks
    /\ \A e \in tasks : outcome[e.promise] = "none"
    /\ \A p \in Promises : state[p] = "unused" => outcome[p] = "none"

(* A completion is queued once, for an entry whose callback has ended so. *)
CompletionInv ==
    /\ IsInjective(natives) /\ IsInjective(batch)
    /\ ToSet(natives) \cap ToSet(batch) = {}
    /\ \A c, d \in UnderWay : c.id = d.id => c = d
    /\ \A c \in UnderWay :
          \E e \in callbacks \ tasks : e.id = c.id /\ outcome[e.promise] = c.outcome

IInv ==
    /\ TypeOK
    /\ EntryInv
    /\ CompletionInv
    /\ PendingIsTracked
    /\ NoLostWakeup
    /\ SettledByOwnCall

-----------------------------------------------------------------------------
(* Liveness *)

(* Once the Java call behind a promise has finished, the promise settles,
   unless the process dies. *)
FinishedCallSettles ==
    \A p \in Promises :
        state[p] = "pending" /\ outcome[p] # "none"
            ~> state[p] \in {"fulfilled", "rejected"} \/ ~alive
=============================================================================
