----------------------------- MODULE EngineLife -----------------------------
(***************************************************************************)
(* The life of the engine: the Android service that starts it and is       *)
(* destroyed (EngineService), the function main of app.js that opens, runs *)
(* and closes it, and the control calls and events of the user interface   *)
(* that JavaScript receives meanwhile (control.js, assistant.js).          *)
(*                                                                         *)
(* Calls arrive in the order they were made (module CallQueue), one turn   *)
(* of the event loop each; main goes on in turns of its own.  One service  *)
(* is created and destroyed once: what a second launch of Node in the same *)
(* process does to the first is not defined by the code.                   *)
(*                                                                         *)
(* control.js registers the function stop of app.js as "Control_stop", a   *)
(* name that no call of the Java side makes: what it would do, and the     *)
(* field _stopped that only it sets, are left out as unreachable.          *)
(***************************************************************************)
EXTENDS Naturals, Sequences, SequencesExt

CONSTANTS
    UICalls,    \* calls of the user interface
    NameOf      \* [UICalls -> UINames]

UINames == {"Control_getDeviceInfos", "Control_createDevice",
            "Assistant_onready", "Assistant_onhandlecommand"}

OnDestroy == "onDestroy"    \* the call that onDestroy makes

ASSUME EngineLifeAssumption ==
    /\ OnDestroy \notin UICalls
    /\ NameOf \in [UICalls -> UINames]

AllCalls == UICalls \cup {OnDestroy}
Name(c) == IF c = OnDestroy THEN "stop" ELSE NameOf[c]

VARIABLES
    service,    \* "none", "up" or "destroyed"
    queue,      \* calls on their way to JavaScript
    outcome,    \* [AllCalls -> ...]: what became of each call
    main,       \* where main is
    open,       \* _waitReady: "pending", "resolved" or "rejected"
    engineReady, uiReady, conversation,     \* fields of assistant.js
    early       \* history: calls that touched an engine not yet open

jsVars == <<main, open>>
adVars == <<engineReady, uiReady, conversation>>
lifeVars == <<service, queue, outcome, jsVars, adVars, early>>

LifeTypeOK ==
    /\ service \in {"none", "up", "destroyed"}
    /\ queue \in Seq(AllCalls)
    /\ outcome \in [AllCalls -> {"unmade", "sent", "waiting", "ok", "error"}]
    /\ main \in {"unborn", "opening", "running", "closing", "ended", "failed"}
    /\ open \in {"pending", "resolved", "rejected"}
    /\ engineReady \in BOOLEAN /\ uiReady \in BOOLEAN /\ conversation \in BOOLEAN
    /\ early \subseteq UICalls

LifeInit ==
    /\ service = "none" /\ queue = <<>>
    /\ outcome = [c \in AllCalls |-> "unmade"]
    /\ main = "unborn" /\ open = "pending"
    /\ engineReady = FALSE /\ uiReady = FALSE /\ conversation = FALSE
    /\ early = {}

-----------------------------------------------------------------------------
MakeCall(c) ==
    /\ outcome[c] = "unmade"
    /\ queue' = Append(queue, c)
    /\ outcome' = [outcome EXCEPT ![c] = "sent"]

(* onStartCommand or onBind: doStart launches Node, once *)
Start ==
    /\ service = "none"
    /\ service' = "up"
    /\ UNCHANGED <<queue, outcome, jsVars, adVars, early>>

(* ControlBinder and AssistantAPI *)
UICall(c) ==
    /\ service = "up"
    /\ MakeCall(c)
    /\ UNCHANGED <<service, jsVars, adVars, early>>

(* onDestroy invokes "stop" *)
Destroy ==
    /\ service = "up"
    /\ service' = "destroyed"
    /\ MakeCall(OnDestroy)
    /\ UNCHANGED <<jsVars, adVars, early>>

-----------------------------------------------------------------------------
(* The first turn of main: it registers the control calls, creates the engine
   and the dispatcher, calls engine.open() and starts the dispatcher.  When it
   throws, in a constructor, main is over; the control calls stay. *)
Boot ==
    /\ service # "none"
    /\ main = "unborn"
    /\ main' \in {"opening", "failed"}
    /\ UNCHANGED <<service, queue, outcome, open, adVars, early>>

(* _ensureConversation at the end of engineReady and _onUIReady *)
Greet(e, u) == conversation' = (conversation \/ (e /\ u))

(* altered: only the user interface looks at whether both are ready *)
ReadyAloof(ok) ==
    /\ engineReady' = (engineReady \/ ok)
    /\ UNCHANGED <<uiReady, conversation>>

(* engineReady, or earlyError when open was rejected *)
Ready(ok) ==
    /\ engineReady' = (engineReady \/ ok)
    /\ Greet(engineReady', uiReady)
    /\ UNCHANGED uiReady

(* _waitReady settles: the calls that wait for it are answered, and main runs
   the engine, also when open failed.  A call that waited finds the engine closed
   or not; it is answered. *)
Opened(ok) ==
    /\ main = "opening"
    /\ open' = IF ok THEN "resolved" ELSE "rejected"
    /\ Ready(ok)
    /\ main' = "running"
    /\ outcome' = [c \in AllCalls |->
                      IF outcome[c] # "waiting" THEN outcome[c]
                      ELSE IF ok THEN "ok" ELSE "error"]
    /\ UNCHANGED <<service, queue, early>>

(* engine.run() returns or throws *)
RunEnds ==
    /\ main = "running"
    /\ main' = "closing"
    /\ UNCHANGED <<service, queue, outcome, open, adVars, early>>

(* the finally block: the dispatcher is stopped and the engine closed *)
Close ==
    /\ main = "closing"
    /\ main' = "ended"
    /\ UNCHANGED <<service, queue, outcome, open, adVars, early>>

-----------------------------------------------------------------------------
(* launcher.js: what is registered when a call arrives *)
Registered(name) ==
    CASE name = "stop" -> FALSE
      [] name \in {"Assistant_onready", "Assistant_onhandlecommand"} ->
             main \in {"opening", "running", "closing"}
      [] OTHER -> TRUE

AnswerCall(c, result) ==
    /\ queue' = Tail(queue)
    /\ outcome' = [outcome EXCEPT ![c] = result]
    /\ UNCHANGED service

(* altered: once the engine is closed nobody receives calls *)
ArrivedAlive(c) == main \notin {"unborn", "ended"} /\ queue # <<>> /\ Head(queue) = c

Arrived(c) == main # "unborn" /\ queue # <<>> /\ Head(queue) = c

(* "No such callback": the caller, if it waits at all, gets an exception *)
NoSuchCallback(c) ==
    /\ Arrived(c) /\ ~Registered(Name(c))
    /\ AnswerCall(c, "error")
    /\ UNCHANGED <<jsVars, adVars, early>>

(* altered: the engine is asked at once *)
QueryAtOnce(c) ==
    /\ AnswerCall(c, "ok")
    /\ early' = IF open = "resolved" THEN early ELSE early \cup {c}

(* getDeviceInfos and the others that go through _waitReady, which does not
   exist if main failed *)
Query(c) ==
    /\ AnswerCall(c, IF main = "failed" THEN "error"
                     ELSE CASE open = "pending" -> "waiting"
                            [] open = "resolved" -> "ok"
                            [] open = "rejected" -> "error")
    /\ UNCHANGED early

HandleQuery(c) ==
    /\ Arrived(c) /\ Name(c) = "Control_getDeviceInfos"
    /\ Query(c)
    /\ UNCHANGED <<jsVars, adVars>>

(* createDevice, getAllPermissions and the others that go to the engine at
   once, open or not *)
HandleDirect(c) ==
    /\ Arrived(c) /\ Name(c) = "Control_createDevice"
    /\ \E r \in {"ok", "error"} : AnswerCall(c, r)
    /\ early' = IF open = "resolved" THEN early ELSE early \cup {c}
    /\ UNCHANGED <<jsVars, adVars>>

(* _onUIReady *)
HandleReady(c) ==
    /\ Arrived(c) /\ Name(c) = "Assistant_onready" /\ Registered(Name(c))
    /\ uiReady' = TRUE
    /\ Greet(engineReady, TRUE)
    /\ AnswerCall(c, "ok")
    /\ UNCHANGED <<jsVars, engineReady, early>>

(* _onHandleCommand and its like: a conversation there must be *)
HandleCommand(c) ==
    /\ Arrived(c) /\ Name(c) = "Assistant_onhandlecommand" /\ Registered(Name(c))
    /\ conversation' = TRUE
    /\ AnswerCall(c, "ok")
    /\ UNCHANGED <<jsVars, engineReady, uiReady, early>>

(* notifyAll and its like: the engine has something to tell the user *)
Notify ==
    /\ main \in {"opening", "running", "closing"}
    /\ conversation' = TRUE
    /\ UNCHANGED <<service, queue, outcome, jsVars, engineReady, uiReady, early>>

Handle ==
    \/ \E c \in AllCalls : NoSuchCallback(c)
    \/ \E c \in UICalls :
           HandleQuery(c) \/ HandleDirect(c) \/ HandleReady(c) \/ HandleCommand(c)

LifeNext ==
    \/ Start \/ Destroy \/ \E c \in UICalls : UICall(c)
    \/ Boot \/ (\E ok \in BOOLEAN : Opened(ok)) \/ RunEnds \/ Close
    \/ Notify \/ Handle

LifeSpec == LifeInit /\ [][LifeNext]_lifeVars

(* The event loop turns, and open and close settle.  Nothing says that run
   ends: engine.stop() would end it, which nobody calls. *)
FairLifeSpec ==
    /\ LifeSpec
    /\ WF_lifeVars(Boot) /\ WF_lifeVars(\E ok \in BOOLEAN : Opened(ok))
    /\ WF_lifeVars(Close)
    /\ WF_lifeVars(Handle)

-----------------------------------------------------------------------------
(* Whichever of the two is ready last starts the conversation: neither order
   of the engine's open and the interface's onready leaves both waiting. *)
GreetedWhenBothReady == engineReady /\ uiReady => conversation

(* No query for devices or apps reaches an engine that is not open, although
   the interface may ask as soon as it is bound.  (Permissions, like whatever
   else HandleDirect stands for, are asked for without waiting.) *)
QueriesWaitForOpen ==
    \A c \in early : Name(c) # "Control_getDeviceInfos"

(* The inductive invariant: calls on their way are those that were sent, each
   once; _waitReady is pending until main has gone past it; and a call waits
   only while main is going to answer it.  "stop" finds no callback. *)
QueueInv ==
    /\ IsInjective(queue)
    /\ \A c \in AllCalls : outcome[c] = "sent" <=> c \in ToSet(queue)

OpenInv == open = "pending" <=> main \in {"unborn", "opening", "failed"}

WaitersInv == \A c \in AllCalls : outcome[c] = "waiting" => main = "opening" /\ c # OnDestroy

LifeInv == LifeTypeOK /\ QueueInv /\ OpenInv /\ WaitersInv /\ QueriesWaitForOpen

(* Every call of the interface is answered, whatever main is doing: before the
   engine is open, after open failed, and after the engine is closed. *)
CallsAreAnswered ==
    \A c \in UICalls : outcome[c] \in {"sent", "waiting"} ~> outcome[c] \in {"ok", "error"}

(* Once the service is destroyed the engine ends: it is closed, or it never
   came to life.  That is what onDestroy asks for; app.js:34-40 has stop among
   the "control methods". *)
DestroyEndsEngine == service = "destroyed" ~> main \in {"ended", "failed"}
=============================================================================
