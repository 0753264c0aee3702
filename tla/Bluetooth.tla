----------------------------- MODULE Bluetooth -----------------------------
(***************************************************************************)
(* BluetoothAPI.java.  pairDevice and readUUIDs run on executor threads    *)
(* and wait on the monitor of the one API object for broadcasts about a    *)
(* device, which arrive on the engine's worker thread.  A thread that      *)
(* finds no entry for its device makes one and starts the operation; one   *)
(* that finds one looks at the device; whoever leaves removes the entry,   *)
(* whoever made it.  startDiscovery posts a call of stopDiscovery to the   *)
(* worker, asks the user to switch the adapter on if it must, and holds no *)
(* lock while it does: the worker can be faster at any of its steps.       *)
(*                                                                         *)
(* The maps are keyed by address, as the caller spells it; broadcasts look *)
(* entries up by the address in lower case.  A BluetoothDevice is a handle *)
(* on the state of the adapter, so the maps are modelled by their keys.    *)
(* Whether the adapter is discovering at the moment is left out: it ends   *)
(* that by itself, and nothing here reads it; what onStateChanged does is  *)
(* to start it again while the field discovering is set.  There is an      *)
(* adapter: without one each operation throws at its first statement.      *)
(***************************************************************************)
EXTENDS Naturals, Sequences

CONSTANTS Threads,      \* executor threads, one call each
          Devices,      \* each is named by its address in lower case
          Addresses,    \* what callers pass: these and other spellings
          DeviceAt,     \* [Addresses -> Devices]: getRemoteDevice
          Named,        \* devices whose name the adapter knows from before
          NoAddress,
          Timeout,      \* FETCH_UUID_TIMEOUT
          MaxEvents     \* bound on what user, devices and other apps do

ASSUME BluetoothAssumption ==
    /\ Named \subseteq Devices /\ Devices \subseteq Addresses /\ NoAddress \notin Addresses
    /\ DeviceAt \in [Addresses -> Devices] /\ \A d \in Devices : DeviceAt[d] = d
    /\ Timeout \in Nat \ {0} /\ MaxEvents \in Nat

VARIABLES
    pairing, fetching,  \* keys of pairing and fetchingUuids
    fetched,            \* keys of fetchedUUIDs; a list in it is never empty
    discovering,        \* the field of that name
    timers,             \* calls of startDiscovery whose stopDiscovery is still posted
    pc, address,        \* of each thread: its position or outcome, its argument
    elapsed,            \* time since readUUIDs began, up to Timeout + 1
    bond,               \* of each device: its bond; asked when createBond began
    known, named,       \* devices whose UUIDs, whose name the adapter knows
    probes,             \* devices asked for their UUIDs
    on,                 \* the adapter is on
    broadcasts,         \* for the worker thread
    events,             \* what the environment has done, see MaxEvents
    spoiled,            \* history: addresses whose pairing was disturbed, see below
    heard, robbed,      \* history: threads, see ProbesAreNotLost
    endless             \* history: discovering was set after its own timer had gone off

mapVars == <<pairing, fetching, fetched>>
callVars == <<pc, address, elapsed>>
bondVars == <<bond, named>>
uuidVars == <<known, probes>>
scanVars == <<discovering, timers, endless>>
historyVars == <<spoiled, heard, robbed>>
vars == <<mapVars, callVars, bondVars, uuidVars, scanVars, on, broadcasts, events,
          historyVars>>

Outcomes == {"cancelled", "timeout", "done"}   \* done: an answer or another error
InPair == {"pair", "pairWaiting", "pairWoken"}
InRead == {"read", "readWaiting", "readWoken"}
InDiscovery == {"start", "asking", "startAgain", "started"}
Broadcasts == {"changed", "uuids"} \X Devices

ThreadTypes ==
    /\ pc \in [Threads -> {"idle"} \cup Outcomes \cup InPair \cup InRead \cup InDiscovery]
    /\ address \in [Threads -> Addresses \cup {NoAddress}]
    /\ \A t \in Threads : pc[t] \in InPair \cup InRead => address[t] \in Addresses
    /\ elapsed \in [Threads -> 0 .. Timeout + 1]

SetTypes ==
    /\ pairing \in SUBSET Addresses /\ fetching \in SUBSET Addresses
    /\ fetched \in SUBSET Devices
    /\ known \in SUBSET Devices /\ named \in SUBSET Devices /\ probes \in SUBSET Devices
    /\ spoiled \in SUBSET Addresses /\ heard \in SUBSET Threads /\ robbed \in SUBSET Threads
    /\ timers \in SUBSET Threads

FlagTypes == discovering \in BOOLEAN /\ on \in BOOLEAN /\ endless \in BOOLEAN

TypeOK ==
    /\ ThreadTypes
    /\ SetTypes
    /\ FlagTypes
    /\ bond \in [Devices -> {"none", "asked", "bonding", "bonded"}]
    /\ events \in 0 .. MaxEvents
    /\ broadcasts \in Seq(Broadcasts)

Init ==
    /\ pairing = {} /\ fetching = {} /\ fetched = {}
    /\ discovering = FALSE /\ timers = {} /\ endless = FALSE
    /\ pc = [t \in Threads |-> "idle"]
    /\ address = [t \in Threads |-> NoAddress]
    /\ elapsed = [t \in Threads |-> 0]
    /\ bond = [d \in Devices |-> "none"]
    /\ known = {} /\ named = Named /\ probes = {}
    /\ on = TRUE
    /\ broadcasts = <<>> /\ events = 0
    /\ spoiled = {} /\ heard = {} /\ robbed = {}

-----------------------------------------------------------------------------
Goto(t, where) == pc' = [pc EXCEPT ![t] = where] /\ UNCHANGED <<address, elapsed>>
Call(t, a, where) ==
    /\ pc' = [pc EXCEPT ![t] = where]
    /\ address' = [address EXCEPT ![t] = a]
    /\ UNCHANGED elapsed
Return(t, outcome) ==
    /\ pc' = [pc EXCEPT ![t] = outcome]
    /\ address' = [address EXCEPT ![t] = NoAddress]
    /\ elapsed' = [elapsed EXCEPT ![t] = 0]

Changed(d) == <<"changed", d>>
Uuids(d) == <<"uuids", d>>
Announce(b) == broadcasts' = Append(broadcasts, b)
Announced(b) == \E i \in DOMAIN broadcasts : broadcasts[i] = b

SameDevice(a, b) == DeviceAt[a] = DeviceAt[b]

(* pairDevice, before the monitor is entered *)
PairDevice(t, a) ==
    /\ pc[t] = "idle"
    /\ IF bond[DeviceAt[a]] = "bonded" THEN Return(t, "done") ELSE Call(t, a, "pair")
    /\ spoiled' = IF \E u \in Threads : pc[u] \in InPair /\ SameDevice(address[u], a)
                  THEN spoiled \cup {x \in Addresses : SameDevice(x, a)} ELSE spoiled
    /\ UNCHANGED <<mapVars, bondVars, uuidVars, scanVars, on, broadcasts, events,
                   heard, robbed>>

(* createBond, whose result is not looked at *)
CreateBond(a) ==
    LET d == DeviceAt[a] IN
    \/ /\ on /\ bond[d] = "none"
       /\ bond' = [bond EXCEPT ![d] = "asked"]
       /\ UNCHANGED spoiled
    \/ /\ spoiled' = IF bond[d] \in {"asked", "bonding"} \/ Announced(Changed(d))
                     THEN spoiled ELSE spoiled \cup {a}
       /\ UNCHANGED bond

(* altered: the entry stays *)
LeavePairingOpen(a) == UNCHANGED pairing

(* finally, of pairDevice *)
LeavePairing(a) == pairing' = pairing \ {a}

Begin(t) ==
    /\ address[t] \notin pairing
    /\ pairing' = pairing \cup {address[t]}
    /\ CreateBond(address[t])
    /\ Goto(t, "pairWaiting")

Finish(t) ==
    /\ Return(t, IF bond[DeviceAt[address[t]]] = "bonded" THEN "done" ELSE "cancelled")
    /\ LeavePairing(address[t])
    /\ UNCHANGED <<bond, spoiled>>

(* altered: whoever is woken finds the device bonded or gives up *)
PairRoundImpatient(t) ==
    /\ pc[t] \in {"pair", "pairWoken"}
    /\ \/ Begin(t)
       \/ address[t] \in pairing /\ Finish(t)
    /\ UNCHANGED <<fetching, fetched, named, uuidVars, scanVars, on, broadcasts,
                   events, heard, robbed>>

(* One round of the loop of pairDevice, under the monitor. *)
PairRound(t) ==
    /\ pc[t] \in {"pair", "pairWoken"}
    /\ \/ Begin(t)
       \/ /\ address[t] \in pairing /\ bond[DeviceAt[address[t]]] = "bonding"
          /\ Goto(t, "pairWaiting")
          /\ UNCHANGED <<pairing, bond, spoiled>>
       \/ address[t] \in pairing /\ bond[DeviceAt[address[t]]] # "bonding" /\ Finish(t)
    /\ UNCHANGED <<fetching, fetched, named, uuidVars, scanVars, on, broadcasts,
                   events, heard, robbed>>

-----------------------------------------------------------------------------
(* readUUIDs: the time is taken before the monitor is entered *)
ReadUUIDs(t, a) ==
    /\ pc[t] = "idle"
    /\ Call(t, a, "read")
    /\ UNCHANGED <<mapVars, bondVars, uuidVars, scanVars, on, broadcasts,
                   events, historyVars>>

(* finally, of readUUIDs *)
LeaveReading(t) ==
    /\ fetching' = fetching \ {address[t]}
    /\ fetched' = fetched \ {address[t]}
    /\ heard' = heard \ {t}
    /\ robbed' = {u \in Threads \ {t} :
                      u \in robbed \/ (pc[u] \in InRead /\ address[u] = address[t])}

(* getFetchedUUIDorTimeout *)
FetchedOrTimeout(t) ==
    /\ Return(t, IF address[t] \in fetched THEN "done" ELSE "timeout")
    /\ LeaveReading(t)

(* FETCH_UUID_TIMEOUT - (now - startTime) < 1, or else wait for that long *)
WaitOrTimeout(t) ==
    IF elapsed[t] >= Timeout
    THEN FetchedOrTimeout(t)
    ELSE /\ Goto(t, "readWaiting")
         /\ fetching' = fetching \cup {address[t]}
         /\ UNCHANGED <<fetched, heard, robbed>>

(* One round of the loop of readUUIDs, under the monitor; the check after the
   wait comes first, and only it asks for more than the timeout. *)
ReadRound(t) ==
    LET a == address[t]
        d == DeviceAt[a]
        overdue == pc[t] = "readWoken" /\ elapsed[t] > Timeout
    IN
    /\ pc[t] \in {"read", "readWoken"}
    /\ \/ /\ overdue
          /\ FetchedOrTimeout(t)
          /\ UNCHANGED probes
       \/ /\ ~overdue /\ a \notin fetching      \* fetchUuidsWithSdp fails
          /\ Return(t, "done") /\ LeaveReading(t)
          /\ UNCHANGED probes
       \/ /\ ~overdue /\ a \notin fetching      \* ... or starts
          /\ probes' = probes \cup {d}
          /\ WaitOrTimeout(t)
       \/ /\ ~overdue /\ a \in fetching /\ d \in known
          /\ Return(t, "done") /\ LeaveReading(t)
          /\ UNCHANGED probes
       \/ /\ ~overdue /\ a \in fetching /\ d \notin known
          /\ WaitOrTimeout(t)
          /\ UNCHANGED probes
    /\ UNCHANGED <<pairing, bondVars, known, scanVars, on, broadcasts, events, spoiled>>

(* wait(FETCH_UUID_TIMEOUT - (now - startTime)) ends by itself *)
WaitEnds(t) ==
    /\ pc[t] = "readWaiting"
    /\ elapsed[t] >= Timeout
    /\ Goto(t, "readWoken")
    /\ UNCHANGED <<mapVars, bondVars, uuidVars, scanVars, on, broadcasts,
                   events, historyVars>>

Tick ==
    /\ \E t \in Threads : pc[t] \in InRead /\ elapsed[t] <= Timeout
    /\ elapsed' = [t \in Threads |-> IF pc[t] \in InRead /\ elapsed[t] <= Timeout
                                     THEN elapsed[t] + 1 ELSE elapsed[t]]
    /\ UNCHANGED <<mapVars, pc, address, bondVars, uuidVars, scanVars, on, broadcasts,
                   events, historyVars>>

-----------------------------------------------------------------------------
(* startDiscovery posts the end of the discovery before it begins *)
StartDiscovery(t) ==
    /\ pc[t] = "idle"
    /\ timers' = timers \cup {t}
    /\ Goto(t, "start")
    /\ UNCHANGED <<mapVars, discovering, endless, bondVars, uuidVars, on, broadcasts,
                   events, historyVars>>

(* adapter.startDiscovery(), which can also refuse when the adapter is on; the
   first time the user is asked then, if there is an interaction callback *)
TryDiscovery(t) ==
    /\ pc[t] \in {"start", "startAgain"}
    /\ \/ on /\ Goto(t, "started")
       \/ Return(t, "done")
       \/ pc[t] = "start" /\ Goto(t, "asking")
    /\ UNCHANGED <<mapVars, bondVars, uuidVars, scanVars, on, broadcasts, events,
                   historyVars>>

(* startActivity returns: the user has refused, or has switched the adapter on *)
AfterAsking(t) ==
    /\ pc[t] = "asking"
    /\ \/ Return(t, "done") /\ UNCHANGED on
       \/ Goto(t, "startAgain") /\ on' = TRUE
    /\ UNCHANGED <<mapVars, bondVars, uuidVars, scanVars, broadcasts, events,
                   historyVars>>

(* discovering = true, and the call returns *)
SetDiscovering(t) ==
    /\ pc[t] = "started"
    /\ discovering' = TRUE
    /\ endless' = (t \notin timers)
    /\ Return(t, "done")
    /\ UNCHANGED <<mapVars, timers, bondVars, uuidVars, on, broadcasts, events,
                   historyVars>>

(* altered: only the adapter is told *)
StopDiscoveryHalf == UNCHANGED <<discovering, endless>>

(* stopDiscovery *)
StopDiscovery == discovering' = FALSE /\ endless' = FALSE

(* The delay is any number that JavaScript passes, so its end may come at any
   time, also while the call that set it is still under way. *)
TimerFires(t) ==
    /\ t \in timers
    /\ timers' = timers \ {t}
    /\ StopDiscovery
    /\ UNCHANGED <<mapVars, callVars, bondVars, uuidVars, on, broadcasts, events,
                   historyVars>>

ScriptStops ==
    /\ events < MaxEvents
    /\ events' = events + 1
    /\ StopDiscovery
    /\ UNCHANGED <<mapVars, callVars, timers, bondVars, uuidVars, on, broadcasts,
                   historyVars>>

-----------------------------------------------------------------------------
(* The worker thread *)

(* notifyAll() on the monitor that all waits share *)
NotifyAll ==
    pc' = [t \in Threads |-> CASE pc[t] = "pairWaiting" -> "pairWoken"
                               [] pc[t] = "readWaiting" -> "readWoken"
                               [] OTHER -> pc[t]]

(* altered: those who pair are not notified *)
OnDeviceChangedQuietly(d) ==
    /\ IF d \in named /\ d \in fetching /\ d \in known
       THEN /\ NotifyAll
            /\ spoiled' = spoiled \cup {x \in pairing : bond[DeviceAt[x]] = "asked"}
       ELSE /\ spoiled' = IF d \in named THEN spoiled ELSE spoiled \cup {d}
            /\ UNCHANGED pc
    /\ UNCHANGED <<fetched, heard>>

(* onDeviceChanged: a device without a name is passed over *)
OnDeviceChanged(d) ==
    /\ IF d \in named /\ (d \in pairing \/ (d \in fetching /\ d \in known))
       THEN /\ NotifyAll
            /\ spoiled' = spoiled \cup {x \in pairing : bond[DeviceAt[x]] = "asked"}
       ELSE /\ spoiled' = IF d \in named THEN spoiled ELSE spoiled \cup {d}
            /\ UNCHANGED pc
    /\ UNCHANGED <<fetched, heard>>

(* altered: only while there is an entry of fetchingUuids *)
OnUUIDProbedEntered(d) ==
    /\ fetched' = IF d \in fetching THEN fetched \cup {d} ELSE fetched
    /\ heard' = heard \cup {t \in Threads : pc[t] \in InRead /\ DeviceAt[address[t]] = d}
    /\ UNCHANGED <<pc, spoiled>>

(* onUUIDProbed wakes nobody *)
OnUUIDProbed(d) ==
    /\ fetched' = fetched \cup {d}
    /\ heard' = heard \cup {t \in Threads : pc[t] \in InRead /\ DeviceAt[address[t]] = d}
    /\ UNCHANGED <<pc, spoiled>>

Receive ==
    /\ broadcasts # <<>>
    /\ broadcasts' = Tail(broadcasts)
    /\ \E d \in Devices : \/ Head(broadcasts) = Changed(d) /\ OnDeviceChanged(d)
                          \/ Head(broadcasts) = Uuids(d) /\ OnUUIDProbed(d)
    /\ UNCHANGED <<pairing, fetching, address, elapsed, bondVars, uuidVars, scanVars,
                   on, events, robbed>>

-----------------------------------------------------------------------------
(* The adapter, the user and the devices *)

(* the bonding that was asked for begins *)
BondingBegins(d) ==
    /\ bond[d] = "asked"
    /\ bond' = [bond EXCEPT ![d] = "bonding"]
    /\ Announce(Changed(d))
    /\ UNCHANGED <<mapVars, callVars, named, uuidVars, scanVars, on, events, historyVars>>

(* the user accepts or cancels, or nobody answers *)
BondingEnds(d) ==
    /\ bond[d] = "bonding"
    /\ \E b \in {"none", "bonded"} : bond' = [bond EXCEPT ![d] = b]
    /\ Announce(Changed(d))
    /\ UNCHANGED <<mapVars, callVars, named, uuidVars, scanVars, on, events, historyVars>>

(* the answer to fetchUuidsWithSdp; an empty one is passed over *)
ProbeEnds(d) ==
    /\ d \in probes
    /\ probes' = probes \ {d}
    /\ \/ known' = known \cup {d} /\ Announce(Uuids(d))
       \/ UNCHANGED <<known, broadcasts>>
    /\ UNCHANGED <<mapVars, callVars, bondVars, scanVars, on, events, historyVars>>

(* What other apps, the settings and the devices do by themselves. *)
Environment ==
    /\ events < MaxEvents
    /\ events' = events + 1
    /\ \/ \E d \in Devices :
             \/ /\ bond[d] \in {"none", "bonded"}  \* paired or forgotten in the settings
                /\ bond' = [bond EXCEPT ![d] = IF @ = "none" THEN "bonding" ELSE "none"]
                /\ Announce(Changed(d))
                /\ UNCHANGED <<named, known, on>>
             \/ /\ named' = named \cup {d}              \* its name or class changes
                /\ Announce(Changed(d))
                /\ UNCHANGED <<bond, known, on>>
             \/ /\ known' = known \cup {d}              \* probed for another app
                /\ Announce(Uuids(d))
                /\ UNCHANGED <<bond, named, on>>
       \/ /\ on' = ~on
          /\ UNCHANGED <<bond, named, known, broadcasts>>
    /\ UNCHANGED <<mapVars, callVars, probes, scanVars, historyVars>>

-----------------------------------------------------------------------------
Next ==
    \/ \E t \in Threads, a \in Addresses : PairDevice(t, a) \/ ReadUUIDs(t, a)
    \/ \E t \in Threads : \/ PairRound(t) \/ ReadRound(t) \/ WaitEnds(t)
                          \/ StartDiscovery(t) \/ TryDiscovery(t) \/ AfterAsking(t)
                          \/ SetDiscovering(t) \/ TimerFires(t)
    \/ Tick \/ ScriptStops \/ Receive
    \/ \E d \in Devices : BondingBegins(d) \/ BondingEnds(d) \/ ProbeEnds(d)
    \/ Environment

Spec == Init /\ [][Next]_vars

(* Threads that can run do, timers fire and time passes, the worker thread
   empties its queue; the adapter begins what it accepted, and a bonding ends
   one way or the other (the adapter gives it up when nobody answers).  No
   thread or device needs a condition of its own: there are finitely many such
   steps to take, so that none can keep another waiting for ever. *)
Work(t) == \/ PairRound(t) \/ ReadRound(t) \/ WaitEnds(t)
           \/ TryDiscovery(t) \/ SetDiscovering(t)

Fairness ==
    WF_vars(\/ \E t \in Threads : Work(t) \/ TimerFires(t)
            \/ Tick \/ Receive
            \/ \E d \in Devices : BondingBegins(d) \/ BondingEnds(d))

FairSpec == Spec /\ Fairness

-----------------------------------------------------------------------------
(* An entry of pairing or fetchingUuids belongs to a call that will remove
   it: a leftover entry would make the next caller look at a device instead
   of starting the operation. *)
EntriesHaveOwner ==
    /\ \A a \in pairing : \E t \in Threads :
          pc[t] \in {"pairWaiting", "pairWoken"} /\ address[t] = a
    /\ \A a \in fetching : \E t \in Threads :
          pc[t] \in {"readWaiting", "readWoken"} /\ address[t] = a

(* A thread that waits in pairDevice has an entry, and an event to come that
   notifies it if its address is in lower case, unless its pairing is spoiled:
   by a second call for the same device, a createBond that does nothing (an
   adapter that is off, a device that was bonded since it was looked at), a
   device without a name, a broadcast about any device between createBond and
   the beginning of the bonding.  The wait has no timeout: without such an
   event it may never end. *)
PairerWillBeWoken ==
    \A t \in Threads : pc[t] = "pairWaiting" /\ address[t] \notin spoiled =>
        /\ address[t] \in pairing
        /\ \/ address[t] \notin Devices
           \/ bond[address[t]] \in {"asked", "bonding"}
           \/ Announced(Changed(address[t]))

(* While a discovery is wanted -- so that it begins again whenever the adapter
   is switched on -- a call of stopDiscovery is posted, with one exception: the
   call of startDiscovery that set the flag was overtaken by its own timer, be
   it that the user took longer to answer, or that the worker ran between two
   of its statements. *)
DiscoveryWillStop == discovering => timers # {} \/ endless

(* What makes these inductive: two calls for one device spoil it; who is
   woken before the bonding began is spoiled; what was announced to a reader is
   there until it or another reader leaves, if its address is in lower case;
   only a discovery that is wanted is endless. *)
OverlapsSpoil ==
    \A t, u \in Threads :
        t # u /\ pc[t] \in InPair /\ pc[u] \in InPair
            /\ SameDevice(address[t], address[u])
            => address[t] \in spoiled
HasteSpoils ==
    \A t \in Threads :
        pc[t] = "pairWoken" /\ bond[DeviceAt[address[t]]] = "asked"
            => address[t] \in spoiled
HeardIsFetched ==
    \A t \in heard :
        /\ pc[t] \in InRead
        /\ t \in robbed \/ address[t] \notin Devices \/ address[t] \in fetched
EndlessIsWanted == endless => discovering

IInv ==
    /\ TypeOK
    /\ EntriesHaveOwner
    /\ PairerWillBeWoken
    /\ DiscoveryWillStop
    /\ OverlapsSpoil /\ HasteSpoils /\ HeardIsFetched /\ EndlessIsWanted

(* pairDevice says that the user cancelled only when the device is not bonded
   and no bonding is under way, unless the pairing was spoiled. *)
CancelledMeansIt ==
    [][\A t \in Threads : pc[t] # "cancelled" /\ pc'[t] = "cancelled"
          => bond[DeviceAt[address[t]]] = "none" \/ address[t] \in spoiled]_vars

(* readUUIDs reports a timeout only if no UUIDs of its device were announced
   during the call -- or if another call for the address took them with it
   when it left, or the address is not in lower case, under which they are
   kept. *)
ProbesAreNotLost ==
    [][\A t \in Threads : pc[t] # "timeout" /\ pc'[t] = "timeout"
          => t \notin heard \/ t \in robbed \/ address[t] \notin Devices]_vars

(* Every call of readUUIDs returns, and every call of pairDevice unless its
   address is not in lower case or was spoiled: no thread stays in a call. *)
Answerable(a) == a \in Devices /\ a \notin spoiled

CallsReturn == \A t \in Threads :
    []<>(pc[t] \in InPair \cup InRead => pc[t] \in InPair /\ ~Answerable(address[t]))

(* No discovery stays wanted for ever, whatever starts and stops cross each
   other on the script's, the executor's and the worker's threads -- unless its
   own timer had gone off before it was wanted. *)
DiscoveryEnds == []<>(discovering => endless)
=============================================================================
