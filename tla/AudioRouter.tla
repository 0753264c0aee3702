---------------------------- MODULE AudioRouter ----------------------------
(***************************************************************************)
(* AudioRouterAPI.java: a reference-counted Bluetooth A2DP proxy shared by *)
(* the threads that route audio.  The first user asks the Bluetooth        *)
(* adapter for a proxy, which arrives later on the main thread; users wait *)
(* for it on the monitor of the object; the last one gives it back.        *)
(* The counter is atomic, but counting and acting on the count are not one *)
(* step.                                                                   *)
(***************************************************************************)
EXTENDS Naturals, FiniteSets

CONSTANTS Users,        \* executor threads in set/isAudioRouteBluetooth
          Script,       \* the event loop thread, in start and stop
          Proxies,      \* proxy objects the adapter can hand out
          NoProxy,
          MaxSessions   \* bound on the sessions of one thread

Threads == Users \cup {Script}

ASSUME AudioRouterAssumption ==
    /\ Script \notin Users /\ IsFiniteSet(Users)
    /\ NoProxy \notin Proxies
    /\ MaxSessions \in Nat

VARIABLES
    refCount,   \* AudioRouterAPI.refCount
    ad2p,       \* AudioRouterAPI.ad2p
    proxy,      \* each proxy object, as the Bluetooth service sees it
    pc,         \* what each thread is doing
    mine,       \* the proxy a thread read (currentAd2p) or took (oldA2dp)
    sessions,   \* sessions each thread has begun
    raced       \* history: one of the two races described below has happened

threadVars == <<pc, mine, sessions>>
vars == <<refCount, ad2p, proxy, threadVars, raced>>

ThreadStates == {"idle", "first", "check", "waiting", "notified", "using", "started",
                 "stopping", "last", "closing"}

TypeOK ==
    /\ refCount \in 0 .. Cardinality(Threads)
    /\ ad2p \in Proxies \cup {NoProxy}
    /\ proxy \in [Proxies -> {"free", "binding", "bound", "closed"}]
    /\ pc \in [Threads -> ThreadStates]
    /\ mine \in [Threads -> Proxies \cup {NoProxy}]
    /\ sessions \in [Threads -> 0 .. MaxSessions]
    /\ raced \in BOOLEAN
    /\ ad2p # NoProxy => proxy[ad2p] \in {"bound", "closed"}

Init ==
    /\ refCount = 0
    /\ ad2p = NoProxy
    /\ proxy = [x \in Proxies |-> "free"]
    /\ pc = [t \in Threads |-> "idle"]
    /\ mine = [t \in Threads |-> NoProxy]
    /\ sessions = [t \in Threads |-> 0]
    /\ raced = FALSE

Goto(t, where) == pc' = [pc EXCEPT ![t] = where]

(* where a thread goes when start() is done *)
Entered(t) == IF t = Script THEN "started" ELSE "check"

(* notifyAll() while t goes on to where *)
NotifyAllAnd(t, where) ==
    pc' = [u \in Threads |-> IF u = t THEN where
                             ELSE IF pc[u] = "waiting" THEN "notified" ELSE pc[u]]

-----------------------------------------------------------------------------
(* start() *)

(* refCount.incrementAndGet() == 1 *)
Count(t) ==
    /\ pc[t] = "idle"
    /\ sessions[t] < MaxSessions
    /\ refCount' = refCount + 1
    /\ sessions' = [sessions EXCEPT ![t] = @ + 1]
    /\ Goto(t, IF refCount = 0 THEN "first" ELSE Entered(t))
    /\ UNCHANGED <<ad2p, proxy, mine, raced>>

(* getProfileProxy: the adapter starts binding a new proxy, or refuses *)
Acquire(t) ==
    /\ pc[t] = "first"
    /\ \/ \E x \in Proxies : /\ proxy[x] = "free"
                             /\ proxy' = [proxy EXCEPT ![x] = "binding"]
       \/ UNCHANGED proxy
    /\ Goto(t, Entered(t))
    /\ UNCHANGED <<refCount, ad2p, mine, sessions, raced>>

-----------------------------------------------------------------------------
(* set/isAudioRouteBluetooth between start() and stop() *)

(* while (currentAd2p == null) wait(5000), under the monitor *)
Check(t) ==
    /\ pc[t] \in {"check", "notified"}
    /\ IF ad2p = NoProxy
       THEN /\ Goto(t, "waiting")
            /\ UNCHANGED mine
       ELSE /\ Goto(t, "using")
            /\ mine' = [mine EXCEPT ![t] = ad2p]
    /\ UNCHANGED <<refCount, ad2p, proxy, sessions, raced>>

(* five seconds have passed; the loop reads ad2p and waits again *)
Timeout(t) ==
    /\ pc[t] = "waiting"
    /\ Goto(t, "notified")
    /\ UNCHANGED <<refCount, ad2p, proxy, mine, sessions, raced>>

(* the proxy is used, and finally { stop(); } begins *)
Use(t) ==
    /\ pc[t] = "using"
    /\ Goto(t, "stopping")
    /\ mine' = [mine EXCEPT ![t] = NoProxy]
    /\ UNCHANGED <<refCount, ad2p, proxy, sessions, raced>>

(* JavaScript calls stop *)
ScriptStop ==
    /\ pc[Script] = "started"
    /\ Goto(Script, "stopping")
    /\ UNCHANGED <<refCount, ad2p, proxy, mine, sessions, raced>>

-----------------------------------------------------------------------------
(* stop() *)

(* the counter is not decremented by the last user *)
DiscountNotLast(t) ==
    /\ pc[t] = "stopping"
    /\ refCount' = IF refCount > 1 THEN refCount - 1 ELSE refCount
    /\ Goto(t, IF refCount > 1 THEN "idle" ELSE "last")
    /\ UNCHANGED <<ad2p, proxy, mine, sessions, raced>>

(* refCount.decrementAndGet() > 0 *)
Discount(t) ==
    /\ pc[t] = "stopping"
    /\ refCount' = refCount - 1
    /\ Goto(t, IF refCount > 1 THEN "idle" ELSE "last")
    /\ UNCHANGED <<ad2p, proxy, mine, sessions, raced>>

(* the synchronized block does not clear the field *)
TakeKeeping(t) ==
    /\ pc[t] = "last"
    /\ mine' = [mine EXCEPT ![t] = ad2p]
    /\ raced' = (raced \/ refCount > 0)
    /\ NotifyAllAnd(t, "closing")
    /\ UNCHANGED <<refCount, ad2p, proxy, sessions>>

(* synchronized: take ad2p, clear it, notify *)
Take(t) ==
    /\ pc[t] = "last"
    /\ mine' = [mine EXCEPT ![t] = ad2p]
    /\ ad2p' = NoProxy
    /\ raced' = (raced \/ refCount > 0)
    /\ NotifyAllAnd(t, "closing")
    /\ UNCHANGED <<refCount, proxy, sessions>>

(* closeProfileProxy, which ignores null *)
Close(t) ==
    /\ pc[t] = "closing"
    /\ proxy' = [x \in Proxies |-> IF x = mine[t] THEN "closed" ELSE proxy[x]]
    /\ mine' = [mine EXCEPT ![t] = NoProxy]
    /\ Goto(t, "idle")
    /\ UNCHANGED <<refCount, ad2p, sessions, raced>>

-----------------------------------------------------------------------------
(* The main thread: callbacks of the Bluetooth service *)

Closing(x) == \E t \in Threads : pc[t] = "closing" /\ mine[t] = x

(* onProxyAcquired without notifyAll *)
ConnectedSilently(x) ==
    /\ proxy[x] = "binding"
    /\ proxy' = [proxy EXCEPT ![x] = "bound"]
    /\ ad2p' = x
    /\ raced' = (raced \/ Closing(x))
    /\ UNCHANGED <<refCount, threadVars>>

(* onServiceConnected: onProxyAcquired *)
Connected(x) ==
    /\ proxy[x] = "binding"
    /\ proxy' = [proxy EXCEPT ![x] = "bound"]
    /\ ad2p' = x
    /\ raced' = (raced \/ Closing(x))
    /\ pc' = [u \in Threads |-> IF pc[u] = "waiting" THEN "notified" ELSE pc[u]]
    /\ UNCHANGED <<refCount, mine, sessions>>

(* onProxyLost keeps the field *)
DisconnectedKeeping(x) ==
    /\ proxy[x] = "bound"
    /\ proxy' = [proxy EXCEPT ![x] = "binding"]
    /\ pc' = [u \in Threads |-> IF pc[u] = "waiting" THEN "notified" ELSE pc[u]]
    /\ UNCHANGED <<refCount, ad2p, mine, sessions, raced>>

(* onServiceDisconnected: onProxyLost; the service will connect again *)
Disconnected(x) ==
    /\ proxy[x] = "bound"
    /\ proxy' = [proxy EXCEPT ![x] = "binding"]
    /\ ad2p' = NoProxy
    /\ pc' = [u \in Threads |-> IF pc[u] = "waiting" THEN "notified" ELSE pc[u]]
    /\ UNCHANGED <<refCount, mine, sessions, raced>>

-----------------------------------------------------------------------------
Next ==
    \/ \E t \in Threads : Count(t) \/ Acquire(t) \/ Discount(t) \/ Take(t) \/ Close(t)
    \/ \E t \in Users : Check(t) \/ Timeout(t) \/ Use(t)
    \/ ScriptStop
    \/ \E x \in Proxies : Connected(x) \/ Disconnected(x)

Spec == Init /\ [][Next]_vars

-----------------------------------------------------------------------------
(* Safety *)

(* The counter counts the threads between start and stop, so that it reaches
   zero exactly when nobody needs the proxy. *)
Counted == {t \in Threads : pc[t] \notin {"idle", "last", "closing"}}

CountIsUsers == refCount = Cardinality(Counted)

(* No thread sleeps on the monitor while a proxy is there. *)
NobodySleepsBesideProxy == ad2p # NoProxy => \A t \in Threads : pc[t] # "waiting"

(* The two races of this class, recorded in raced.  Counting and clearing are
   separate steps of stop(): a thread that counts itself in between them can
   read the proxy that is about to be closed.  And clearing and closing are
   separate steps: the service can announce again a proxy that is about to
   be closed.  Without them a proxy is given back by one thread only, which
   has made sure that nobody can still find it, and nobody uses a closed one. *)
ClosedOnceUnlessRaced ==
    raced \/
        /\ \A t \in Threads : pc[t] = "closing" /\ mine[t] # NoProxy =>
              ad2p # mine[t] /\ \A u \in Threads \ {t} : mine[u] # mine[t]
        /\ \A t \in Users : pc[t] = "using" => proxy[mine[t]] # "closed"

-----------------------------------------------------------------------------
(* The inductive invariant behind the safety properties, by named parts. *)

(* A thread has a proxy while it uses it or gives it back, and not otherwise. *)
MineInv ==
    \A t \in Threads :
        /\ pc[t] = "using" => mine[t] # NoProxy
        /\ mine[t] # NoProxy => pc[t] \in {"using", "closing"}

(* The proxy to be found is open. *)
ProxyInv == raced \/ ad2p = NoProxy \/ proxy[ad2p] = "bound"

IInv ==
    /\ TypeOK
    /\ CountIsUsers
    /\ NobodySleepsBesideProxy
    /\ MineInv
    /\ ProxyInv
    /\ ClosedOnceUnlessRaced
=============================================================================
