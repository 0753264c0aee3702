------------------------------ MODULE Location ------------------------------
(***************************************************************************)
(* The calls that use module Interaction, on threads of the executor.      *)
(*                                                                         *)
(* The calls of GpsAPI.java share one client of the location service.      *)
(* start and getCurrentLocation connect it, ask for the permission, have   *)
(* the settings of the phone checked and put right, and only then register *)
(* for updates or read a location; stop disconnects the client, whoever    *)
(* else uses it.  The other calls (messages, contacts, telephone,          *)
(* Bluetooth) ask at most one question and end.                            *)
(***************************************************************************)
EXTENDS Interaction

CONSTANTS
    RequestGps,     \* InteractionCallback.REQUEST_GPS
    EnableGps,      \* InteractionCallback.ENABLE_GPS
    MaxCalls        \* bound on the calls of a run

ASSUME LocationAssumption ==
    /\ {RequestGps, EnableGps} \subseteq Codes
    /\ MaxCalls \in Nat

VARIABLES
    step,       \* [Requesters -> ...]: where the call of a thread is
    connected,  \* mGoogleApiClient.isConnected()
    updates,    \* the callback is registered for location updates
    calls,      \* calls begun
    promised    \* history: a start has succeeded and no stop has begun since

gpsVars == <<step, connected, updates, calls, promised>>
locationVars == <<vars, gpsVars>>

LocationTypeOK ==
    /\ step \in [Requesters -> {"idle", "permission", "asking", "settings",
                                "resolving", "ready", "removed", "other"}]
    /\ connected \in BOOLEAN /\ updates \in BOOLEAN /\ promised \in BOOLEAN
    /\ calls \in 0 .. MaxCalls

LocationInit ==
    /\ Init
    /\ step = [t \in Requesters |-> "idle"]
    /\ connected = FALSE /\ updates = FALSE /\ promised = FALSE
    /\ calls = 0

Goto(t, where) == step' = [step EXCEPT ![t] = where]

Called ==
    /\ calls < MaxCalls
    /\ calls' = calls + 1

-----------------------------------------------------------------------------
(* start and getCurrentLocation, which differ only in their last step *)

(* blockingConnect succeeds (at once, if another call has connected the
   client), or fails and the call throws *)
Begin(t) ==
    /\ step[t] = "idle"
    /\ Called
    /\ \/ connected' = TRUE /\ Goto(t, "permission")
       \/ ~connected /\ UNCHANGED <<step, connected>>
    /\ UNCHANGED <<vars, updates, promised>>

(* checkSelfPermission, and requestPermission if need be, which does nothing
   without an interaction callback *)
CheckPermission(t) ==
    /\ step[t] = "permission"
    /\ \/ Goto(t, "settings") /\ UNCHANGED vars
       \/ Goto(t, "asking") /\ Choose(t, RequestGps)
    /\ UNCHANGED <<connected, updates, calls, promised>>

(* nobody looks at the answer *)
PermissionAnswered(t) ==
    /\ step[t] = "asking"
    /\ Return(t)
    /\ Goto(t, "settings")
    /\ UNCHANGED <<connected, updates, calls, promised>>

(* requestLocationSync: the settings are right; or the user can be asked to
   put them right; or the call throws, for any other status, because nobody
   can be asked, or because the client has been disconnected meanwhile *)
CheckSettings(t) ==
    /\ step[t] = "settings"
    /\ \/ connected /\ Goto(t, "ready") /\ UNCHANGED vars
       \/ connected /\ Goto(t, "resolving") /\ Choose(t, EnableGps)
       \/ Goto(t, "idle") /\ UNCHANGED vars
    /\ UNCHANGED <<connected, updates, calls, promised>>

(* if the user refuses, the call throws *)
SettingsResolved(t) ==
    /\ step[t] = "resolving"
    /\ Return(t)
    /\ Goto(t, IF result[t] = "granted" THEN "ready" ELSE "idle")
    /\ UNCHANGED <<connected, updates, calls, promised>>

(* the location service throws without a permission or a connection *)
Fail(t) ==
    /\ step[t] = "ready"
    /\ Goto(t, "idle")
    /\ UNCHANGED <<vars, connected, updates, calls, promised>>

Stopping == \E u \in Requesters : step[u] = "removed"

(* requestLocationUpdates; its PendingResult is ignored, so a request that is
   refused later, which nobody would hear of, counts as one that succeeded *)
StartUpdates(t) ==
    /\ step[t] = "ready"
    /\ connected
    /\ updates' = TRUE
    /\ promised' = (promised \/ ~Stopping)
    /\ Goto(t, "idle")
    /\ UNCHANGED <<vars, connected, calls>>

(* altered: a call that is done with the client disconnects it *)
ReadLocationTidily(t) ==
    /\ step[t] = "ready"
    /\ connected
    /\ connected' = FALSE /\ updates' = FALSE
    /\ Goto(t, "idle")
    /\ UNCHANGED <<vars, calls, promised>>

(* getLastLocation *)
ReadLocation(t) ==
    /\ step[t] = "ready"
    /\ connected
    /\ Goto(t, "idle")
    /\ UNCHANGED <<vars, connected, updates, calls, promised>>

-----------------------------------------------------------------------------
(* stop *)

(* nothing without a connection; else removeLocationUpdates ... *)
Stop(t) ==
    /\ step[t] = "idle"
    /\ Called
    /\ IF connected THEN updates' = FALSE /\ Goto(t, "removed")
                    ELSE UNCHANGED <<updates, step>>
    /\ promised' = FALSE
    /\ UNCHANGED <<vars, connected>>

(* ... and then disconnect, with which the service ends all updates *)
Disconnect(t) ==
    /\ step[t] = "removed"
    /\ connected' = FALSE /\ updates' = FALSE
    /\ Goto(t, "idle")
    /\ UNCHANGED <<vars, calls, promised>>

-----------------------------------------------------------------------------
(* requestPermission in SmsAPI, ContactAPI and TelephoneAPI, enableBluetooth in
   BluetoothAPI *)
OtherAsks(t, c) ==
    /\ step[t] = "idle"
    /\ Called
    /\ Choose(t, c)
    /\ Goto(t, "other")
    /\ UNCHANGED <<connected, updates, promised>>

(* the answer decides how the call ends *)
OtherAnswered(t) ==
    /\ step[t] = "other"
    /\ Return(t)
    /\ Goto(t, "idle")
    /\ UNCHANGED <<connected, updates, calls, promised>>

(* steps of the interaction itself *)
EnterRequest(r) == Enter(r) /\ UNCHANGED gpsVars
PostRequest(r) == Post(r) /\ UNCHANGED gpsVars
ServeRequest == HandleMessage /\ UNCHANGED gpsVars
UserAnswers(a, c) == DialogEnds(a, c) /\ UNCHANGED gpsVars
ActivityComesAndGoes(a) ==
    /\ Resume(a) \/ Connected(a) \/ Pause(a) \/ DestroyActivity(a)
    /\ UNCHANGED gpsVars

LocationNext ==
    \/ \E t \in Requesters :
           \/ Begin(t) \/ CheckPermission(t) \/ PermissionAnswered(t)
           \/ CheckSettings(t) \/ SettingsResolved(t)
           \/ Fail(t) \/ StartUpdates(t) \/ ReadLocation(t)
           \/ Stop(t) \/ Disconnect(t)
           \/ \E c \in Codes \ {RequestGps, EnableGps} : OtherAsks(t, c)
           \/ OtherAnswered(t)
           \/ EnterRequest(t) \/ PostRequest(t)
    \/ ServeRequest
    \/ \E a \in Activities, c \in Codes : UserAnswers(a, c)
    \/ \E a \in Activities : ActivityComesAndGoes(a)

LocationSpec == LocationInit /\ [][LocationNext]_locationVars

(* Threads run, the main thread handles its messages, and the user answers a
   dialog that stays. *)
LocationFairness ==
    /\ \A t \in Requesters :
           /\ WF_locationVars(CheckPermission(t)) /\ WF_locationVars(PermissionAnswered(t))
           /\ WF_locationVars(CheckSettings(t)) /\ WF_locationVars(SettingsResolved(t))
           /\ WF_locationVars(Fail(t)) /\ WF_locationVars(Disconnect(t))
           /\ WF_locationVars(OtherAnswered(t))
           /\ WF_locationVars(EnterRequest(t)) /\ WF_locationVars(PostRequest(t))
    /\ WF_locationVars(ServeRequest)
    /\ \A a \in Activities, c \in Codes : WF_locationVars(UserAnswers(a, c))

FairLocationSpec == LocationSpec /\ LocationFairness

-----------------------------------------------------------------------------
(* A thread is in the middle of a request exactly while its call waits for an
   answer, and the request has the code of the question the call asks. *)
AsksOneQuestion ==
    \A t \in Requesters :
        /\ pc[t] # "idle" <=> step[t] \in {"asking", "resolving", "other"}
        /\ step[t] = "asking" => code[t] = RequestGps
        /\ step[t] = "resolving" => code[t] = EnableGps

(* Between a start that succeeded and the next stop JavaScript gets its
   updates: no other call, however it overlaps with them, takes the shared
   client away. *)
UpdatesLast == promised => connected /\ updates

(* The inductive invariant behind them: no stop is half done meanwhile. *)
LocationInv ==
    /\ IInv
    /\ LocationTypeOK
    /\ AsksOneQuestion
    /\ UpdatesLast
    /\ promised => ~Stopping

(* Every call returns, whatever the user does with its up to two questions,
   unless its request was lost. *)
CallsReturn ==
    \A t \in Requesters : step[t] # "idle" ~> step[t] = "idle" \/ t \in lost
=============================================================================
