---------------------------- MODULE Interaction ----------------------------
(***************************************************************************)
(* How a call of the engine asks the user for something: a permission, a   *)
(* setting, another activity (MainServiceConnection, and its callers in    *)
(* GpsAPI, SmsAPI, ContactAPI, TelephoneAPI and BluetoothAPI).             *)
(*                                                                         *)
(* A requester is a thread of the executor that runs calls of JavaScript.  *)
(* It reads the service's interaction callback, which is the connection of *)
(* the activity in front, if any; enters its state under a request code    *)
(* that belongs to the kind of request; posts a message to the main thread *)
(* and waits.  The main thread shows the dialog if the activity is in      *)
(* front, and Android reports the result to the activity, or to its        *)
(* successor when the activity was recreated meanwhile.                    *)
(***************************************************************************)
EXTENDS Naturals, Sequences, SequencesExt

CONSTANTS
    Requesters,
    Codes,          \* request codes, one for each kind of request
    Resolutions,    \* codes of resolveResult: their dialog can fail to start
    Activities,     \* instances of MainActivity, each with a connection
    None,
    Stale           \* a state in the map that its requester has left

ASSUME InteractionAssumption ==
    /\ Resolutions \subseteq Codes
    /\ None \notin Activities \cup Requesters
    /\ Stale \notin Requesters \cup {None}

VARIABLES
    activity,   \* [Activities -> "unborn", "front", "back" or "dead"]
    parent,     \* [Activities -> BOOLEAN]: the connection's parent is set
    bound,      \* activities whose connection has a binder
    callback,   \* EngineService.callback
    table,      \* [Activities -> [Codes -> ...]]: interacting
    looper,     \* messages of the main thread: <<connection, code>>
    dialogs,    \* [Activities -> [Codes -> Nat]]: shown and not reported
    pc,         \* of each requester
    conn, code, \* the connection it uses, and the code of its request
    result,     \* [Requesters -> ...]: what complete() left in its state
    lost        \* history: waiting requesters whose state went out of the map,
                \* or whose dialog went to another activity

uiVars == <<activity, parent, bound, callback>>
stateVars == <<table, looper, dialogs>>
reqVars == <<pc, conn, code, result>>
vars == <<uiVars, stateVars, reqVars, lost>>

Incomplete == "incomplete"
Answers == {"granted", "refused"}

Waiting(r) == pc[r] \in {"entered", "waiting"} /\ result[r] = Incomplete
Posted(a, c) == <<a, c>> \in ToSet(looper)

TypeOK ==
    /\ activity \in [Activities -> {"unborn", "front", "back", "dead"}]
    /\ parent \in [Activities -> BOOLEAN]
    /\ bound \subseteq Activities
    /\ callback \in bound \cup {None}
    /\ table \in [Activities -> [Codes -> Requesters \cup {None, Stale}]]
    /\ looper \in Seq(Activities \X Codes)
    /\ dialogs \in [Activities -> [Codes -> Nat]]
    /\ pc \in [Requesters -> {"idle", "chosen", "entered", "waiting"}]
    /\ conn \in [Requesters -> Activities \cup {None}]
    /\ result \in [Requesters -> {Incomplete} \cup Answers]
    /\ code \in [Requesters -> Codes \cup {None}]
    /\ lost \subseteq Requesters
    /\ \A a, b \in Activities : activity[a] = "front" /\ activity[b] = "front" => a = b

Init ==
    /\ activity = [a \in Activities |-> "unborn"]
    /\ parent = [a \in Activities |-> FALSE]
    /\ bound = {} /\ callback = None
    /\ table = [a \in Activities |-> [c \in Codes |-> None]]
    /\ looper = <<>>
    /\ dialogs = [a \in Activities |-> [c \in Codes |-> 0]]
    /\ pc = [r \in Requesters |-> "idle"]
    /\ conn = [r \in Requesters |-> None]
    /\ result = [r \in Requesters |-> Incomplete]
    /\ code = [r \in Requesters |-> None]
    /\ lost = {}

-----------------------------------------------------------------------------
(* getInteractionCallback: without one the caller gives up (and goes on, or
   throws, in its own way) *)
Choose(r, c) ==
    /\ pc[r] = "idle"
    /\ callback # None
    /\ pc' = [pc EXCEPT ![r] = "chosen"]
    /\ conn' = [conn EXCEPT ![r] = callback]
    /\ code' = [code EXCEPT ![r] = c]
    /\ lost' = lost \ {r}
    /\ UNCHANGED <<uiVars, stateVars, result>>

(* interacting.put: whoever was under this code is out of the map *)
Enter(r) ==
    LET a == conn[r]
        c == code[r]
    IN  /\ pc[r] = "chosen"
        /\ pc' = [pc EXCEPT ![r] = "entered"]
        /\ table' = [table EXCEPT ![a][c] = r]
        /\ lost' = lost \cup {q \in Requesters : table[a][c] = q /\ result[q] = Incomplete}
        /\ UNCHANGED <<uiVars, looper, dialogs, conn, code, result>>

(* sendToTarget *)
Post(r) ==
    /\ pc[r] = "entered"
    /\ pc' = [pc EXCEPT ![r] = "waiting"]
    /\ looper' = Append(looper, <<conn[r], code[r]>>)
    /\ UNCHANGED <<uiVars, table, dialogs, conn, code, result, lost>>

(* state.get() returns what the state holds now; if the state is still in the
   map, nobody waits for it any more *)
Return(r) ==
    /\ pc[r] = "waiting"
    /\ result[r] # Incomplete
    /\ pc' = [pc EXCEPT ![r] = "idle"]
    /\ table' = [table EXCEPT ![conn[r]][code[r]] = IF @ = r THEN Stale ELSE @]
    /\ conn' = [conn EXCEPT ![r] = None]
    /\ code' = [code EXCEPT ![r] = None]
    /\ result' = [result EXCEPT ![r] = Incomplete]
    /\ UNCHANGED <<uiVars, looper, dialogs, lost>>

-----------------------------------------------------------------------------
Complete(r, answer) ==
    result' = IF r \in Requesters THEN [result EXCEPT ![r] = answer] ELSE result

(* state.complete(false) in a handler: the state stays in the map *)
Refuse(a, c) ==
    /\ Complete(table[a][c], "refused")
    /\ UNCHANGED <<table, dialogs>>

Show(a, c) ==
    /\ dialogs' = [dialogs EXCEPT ![a][c] = @ + 1]
    /\ UNCHANGED <<table, result>>

(* altered: nothing happens when there is no activity in front *)
ServeQuietly(a, c) ==
    IF table[a][c] = None \/ ~parent[a] THEN UNCHANGED <<table, dialogs, result>>
    ELSE Show(a, c) \/ (c \in Resolutions /\ Refuse(a, c))

(* doResolveResult, doStartActivity and doRequestPermission *)
Serve(a, c) ==
    IF table[a][c] = None THEN UNCHANGED <<table, dialogs, result>>
    ELSE IF ~parent[a] THEN Refuse(a, c)
    ELSE Show(a, c) \/ (c \in Resolutions /\ Refuse(a, c))

HandleMessage ==
    /\ looper # <<>>
    /\ LET m == Head(looper) IN Serve(m[1], m[2])
    /\ looper' = Tail(looper)
    /\ UNCHANGED <<uiVars, pc, conn, code, lost>>

(* interacting.remove, and complete what was there *)
Report(a, c, answer) ==
    /\ Complete(table[a][c], answer)
    /\ table' = [table EXCEPT ![a][c] = None]

(* onActivityResult, onRequestPermissionsResult.  Android reports before the
   activity is resumed, and to a recreated one as well. *)
DialogEnds(a, c) ==
    /\ activity[a] \in {"front", "back"}
    /\ dialogs[a][c] > 0
    /\ dialogs' = [dialogs EXCEPT ![a][c] = @ - 1]
    /\ \E answer \in Answers : Report(a, c, answer)
    /\ UNCHANGED <<uiVars, looper, pc, conn, code, lost>>

-----------------------------------------------------------------------------
(* onResume: parent is set and the service bound again *)
Resume(a) ==
    /\ activity[a] \in {"unborn", "back"}
    /\ \A b \in Activities : activity[b] # "front"
    /\ activity' = [activity EXCEPT ![a] = "front"]
    /\ parent' = [parent EXCEPT ![a] = TRUE]
    /\ UNCHANGED <<bound, callback, stateVars, reqVars, lost>>

(* altered: the connection does not keep the binder *)
ConnectedUnbound(a) ==
    /\ activity[a] = "front"
    /\ callback # a
    /\ callback' = a
    /\ UNCHANGED <<activity, parent, bound, stateVars, reqVars, lost>>

(* onServiceConnected, of a connection that is bound *)
Connected(a) ==
    /\ activity[a] = "front"
    /\ callback # a
    /\ bound' = bound \cup {a}
    /\ callback' = a
    /\ UNCHANGED <<activity, parent, stateVars, reqVars, lost>>

(* onPause: stop.  The binder, once there, is kept. *)
Pause(a) ==
    /\ activity[a] = "front"
    /\ activity' = [activity EXCEPT ![a] = "back"]
    /\ parent' = [parent EXCEPT ![a] = FALSE]
    /\ callback' = IF a \in bound THEN None ELSE callback
    /\ UNCHANGED <<bound, stateVars, reqVars, lost>>

(* The activity is destroyed.  Android recreates it, with the dialogs it
   waits for, in a new instance; or it is finished, and they end unseen. *)
DestroyActivity(a) ==
    /\ activity[a] = "back"
    /\ \/ \E b \in Activities :
              /\ activity[b] = "unborn"
              /\ activity' = [activity EXCEPT ![a] = "dead", ![b] = "back"]
              /\ dialogs' = [dialogs EXCEPT ![b] = dialogs[a], ![a] = [c \in Codes |-> 0]]
       \/ /\ activity' = [activity EXCEPT ![a] = "dead"]
          /\ dialogs' = [dialogs EXCEPT ![a] = [c \in Codes |-> 0]]
    /\ lost' = lost \cup {r \in Requesters : Waiting(r) /\ conn[r] = a /\ pc[r] = "waiting"
                                             /\ ~Posted(a, code[r])}
    /\ UNCHANGED <<parent, bound, callback, table, looper, reqVars>>

Next ==
    \/ \E r \in Requesters : \/ \E c \in Codes : Choose(r, c)
                            \/ Enter(r) \/ Post(r) \/ Return(r)
    \/ HandleMessage
    \/ \E a \in Activities, c \in Codes : DialogEnds(a, c)
    \/ \E a \in Activities :
           Resume(a) \/ Connected(a) \/ Pause(a) \/ DestroyActivity(a)

Spec == Init /\ [][Next]_vars

-----------------------------------------------------------------------------
(* A requester that waits is under its code in the map of its connection, and
   something will complete it: its message is on its way or a dialog with its
   code is open.  The two ways out are the history variable lost: another
   request with the same code took its place, or its activity was destroyed
   while the dialog was open. *)
WaiterWillBeAnswered ==
    \A r \in Requesters :
        pc[r] = "waiting" /\ result[r] = Incomplete /\ r \notin lost
        => /\ table[conn[r]][code[r]] = r
           /\ Posted(conn[r], code[r]) \/ dialogs[conn[r]][code[r]] > 0

(* The interaction callback is an activity in front whose connection has a
   parent: what reads it can show a dialog unless the user leaves. *)
CallbackIsInFront ==
    callback # None => activity[callback] = "front" /\ parent[callback]

-----------------------------------------------------------------------------
(* The inductive invariant behind the safety properties, by named parts. *)

Entered(r) == pc[r] \in {"entered", "waiting"}

(* What is in a map is the state of a thread that asked there, by that code. *)
TableInv ==
    \A a \in Activities, c \in Codes, r \in Requesters :
        table[a][c] = r => Entered(r) /\ conn[r] = a /\ code[r] = c

(* Who asks has a connection with a binder, of an activity that was shown; the
   connection of the activity in front has its parent. *)
ConnectionInv ==
    /\ \A r \in Requesters : pc[r] # "idle" => conn[r] \in bound /\ code[r] \in Codes
    /\ \A a \in bound : activity[a] # "unborn"
    /\ \A a \in Activities : activity[a] = "front" => parent[a]

(* Whose answer is still to come is in the map from the moment it entered. *)
EnteredInv ==
    \A r \in Requesters :
        Entered(r) /\ result[r] = Incomplete /\ r \notin lost
        => table[conn[r]][code[r]] = r

IInv ==
    /\ TypeOK
    /\ CallbackIsInFront
    /\ TableInv
    /\ ConnectionInv
    /\ EnteredInv
    /\ WaiterWillBeAnswered
=============================================================================
