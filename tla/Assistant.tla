----------------------------- MODULE Assistant -----------------------------
(***************************************************************************)
(* The conversation between the user and the engine on the Java side:      *)
(* AssistantDispatcher with its history and its list of messages to notify,*)
(* the single thread that carries commands to JavaScript, the main thread  *)
(* on which messages come back, and the chat activity, which leaves and    *)
(* returns meanwhile (MainActivity).                                       *)
(***************************************************************************)
EXTENDS Naturals, Sequences, SequencesExt

CONSTANTS
    MaxMessages,    \* bound on the messages of the engine
    MaxCommands,    \* bound on the commands of the user
    MaxReady        \* bound on the times the activity connects

ASSUME AssistantAssumption == MaxMessages \in Nat /\ MaxCommands \in Nat /\ MaxReady \in Nat

(* The types of AssistantMessage, up to what is told apart here: of the things
   to ask for, yesno stands for the choosers, which are shown in the chat. *)
Asks == {"yesno", "password", "null"}
FromEngine == {"text", "button"} \cup Asks
FromUser == "user"
IsInteraction(m) == m = "button" \/ m \in Asks
IsFiltered(m) == m \in Asks \ {"yesno"}
ShouldNotify(m) == m \notin Asks \ {"yesno"}

(* The commands: say stands for those that add what the user said to the
   history; example and help do not. *)
Kinds == {"say", "help", "clear"}

VARIABLES
    history,        \* AssistantHistoryModel.store
    notifications,  \* notificationMessages
    asking,         \* the last AskSpecial, or "none"
    output,         \* output and callbacks are set (to the activity in front)
    mainLooper,     \* the main thread's messages
    async,          \* tasks of the single thread executor: <<number, kind>>
    running,        \* the task it runs, or <<>>
    received,       \* history: what JavaScript received, by number
    counts,         \* [messages, commands, ready]: so far
    front, hasBinder,   \* of the activity: it is in front; its engine has a binder
    uiAsk,          \* what the input field is set up for
    inCommand,      \* mInCommand
    missed          \* history: onAfterCommand was due while nobody was there

engineVars == <<history, notifications, asking, output>>
threadVars == <<mainLooper, async, running, received>>
chatUIVars == <<front, hasBinder, uiAsk, inCommand>>
chatVars == <<engineVars, threadVars, counts, chatUIVars, missed>>

Task == Nat \X (Kinds \cup {"ready"})
IsCommand(t) == t[2] # "ready"

ChatTypeOK ==
    /\ history \in Seq(FromEngine \cup {FromUser})
    /\ \A i \in DOMAIN history : ~IsFiltered(history[i])
    /\ notifications \in Seq(FromEngine)
    /\ asking \in Asks \cup {"none"}
    /\ output \in BOOLEAN
    /\ mainLooper \in Seq(FromEngine \cup {"after", "clear"})
    /\ async \in Seq(Task) /\ running \in Task \cup {<<>>}
    /\ received \in Seq(Nat)
    /\ counts \in [messages : 0 .. MaxMessages, commands : 0 .. MaxCommands,
                   ready : 0 .. MaxReady]
    /\ front \in BOOLEAN /\ hasBinder \in BOOLEAN
    /\ uiAsk \in Asks \cup {"none"}
    /\ inCommand \in BOOLEAN /\ missed \in BOOLEAN

ChatInit ==
    /\ history = <<>> /\ notifications = <<>> /\ asking = "none" /\ output = FALSE
    /\ mainLooper = <<>> /\ async = <<>> /\ running = <<>> /\ received = <<>>
    /\ counts = [messages |-> 0, commands |-> 0, ready |-> 0]
    /\ front = FALSE /\ hasBinder = FALSE /\ uiAsk = "none" /\ inCommand = FALSE
    /\ missed = FALSE

-----------------------------------------------------------------------------
(* removeButtons: the interactions at the end of the history go *)
WithoutButtons(h) ==
    LET others == {i \in DOMAIN h : ~IsInteraction(h[i])}
        last == IF others = {} THEN 0 ELSE CHOOSE i \in others : \A j \in others : j <= i
    IN  SubSeq(h, 1, last)

(* add *)
Added(h, m) == IF IsFiltered(m) THEN h ELSE Append(h, m)

(* altered: the buttons are removed after the answer was added *)
AfterCommandLate(kind) ==
    CASE kind = "say"   -> WithoutButtons(Added(history, FromUser))
      [] kind = "help"  -> WithoutButtons(history)
      [] kind = "clear" -> history

(* what a command does to the history in the turn in which it is given *)
AfterCommand(kind) ==
    CASE kind = "say"   -> Added(WithoutButtons(history), FromUser)
      [] kind = "help"  -> WithoutButtons(history)
      [] kind = "clear" -> history

(* handleCommand and the other commands of the user: onPreExecute, a task for
   the executor, and the history.  Commands come from the activity in front,
   or from a result that it gets before it is in front again. *)
Command(kind) ==
    /\ hasBinder
    /\ counts.commands < MaxCommands
    /\ counts' = [counts EXCEPT !.commands = @ + 1]
    /\ inCommand' = (inCommand \/ output)
    /\ async' = Append(async, <<counts.commands + 1, kind>>)
    /\ history' = AfterCommand(kind)
    /\ UNCHANGED <<notifications, asking, output, mainLooper, running, received,
                   front, hasBinder, uiAsk, missed>>

(* altered: the executor has several threads *)
TakeAny ==
    \E i \in DOMAIN async :
        /\ running' = async[i]
        /\ async' = RemoveAt(async, i)

Take ==
    /\ async # <<>>
    /\ running' = Head(async)
    /\ async' = Tail(async)

(* doInBackground: the command is queued for JavaScript *)
Run ==
    /\ running = <<>>
    /\ Take
    /\ received' = IF IsCommand(running') THEN Append(received, running'[1]) ELSE received
    /\ UNCHANGED <<engineVars, mainLooper, counts, chatUIVars, missed>>

(* altered: handleClear does not post onPostExecute *)
FinishSilently ==
    /\ running # <<>>
    /\ running' = <<>>
    /\ mainLooper' = IF running[2] \in {"ready", "clear"} THEN mainLooper
                     ELSE Append(mainLooper, "after")
    /\ UNCHANGED <<engineVars, async, received, counts, chatUIVars, missed>>

(* the task ends, and posts onPostExecute if it is an AsyncTask *)
Finish ==
    /\ running # <<>>
    /\ running' = <<>>
    /\ mainLooper' = CASE running[2] = "ready" -> mainLooper
                       [] running[2] = "clear" -> Append(mainLooper, "clear")
                       [] OTHER                -> Append(mainLooper, "after")
    /\ UNCHANGED <<engineVars, async, received, counts, chatUIVars, missed>>

(* dispatch, which calls of JavaScript (AssistantAPI) reach at any time *)
Dispatch(m) ==
    /\ counts.messages < MaxMessages
    /\ counts' = [counts EXCEPT !.messages = @ + 1]
    /\ mainLooper' = Append(mainLooper, m)
    /\ UNCHANGED <<engineVars, async, running, received, chatUIVars, missed>>

-----------------------------------------------------------------------------
(* altered: a message that finds the activity gone is only added to the chat *)
InformQuietly(m) ==
    /\ uiAsk' = IF output /\ m \in Asks THEN m ELSE uiAsk
    /\ UNCHANGED notifications

(* maybeInformUI, or else maybeNotify *)
Inform(m) ==
    IF output
    THEN /\ uiAsk' = IF m \in Asks THEN m ELSE uiAsk
         /\ UNCHANGED notifications
    ELSE /\ notifications' = IF ShouldNotify(m) THEN Append(notifications, m)
                             ELSE notifications
         /\ UNCHANGED uiAsk

(* handleMessage *)
HandleDispatched ==
    /\ mainLooper # <<>>
    /\ LET m == Head(mainLooper)
       IN  /\ m \in FromEngine
           /\ history' = Added(history, m)
           /\ asking' = IF m \in Asks THEN m ELSE asking
           /\ Inform(m)
    /\ mainLooper' = Tail(mainLooper)
    /\ UNCHANGED <<output, async, running, received, counts, front, hasBinder,
                   inCommand, missed>>

(* onPostExecute; handleClear forgets the history only now *)
HandlePost ==
    /\ mainLooper # <<>>
    /\ Head(mainLooper) \in {"after", "clear"}
    /\ history' = IF Head(mainLooper) = "clear" THEN <<>> ELSE history
    /\ inCommand' = (inCommand /\ ~output)
    /\ missed' = ~output
    /\ mainLooper' = Tail(mainLooper)
    /\ UNCHANGED <<notifications, asking, output, async, running, received, counts,
                   front, hasBinder, uiAsk>>

-----------------------------------------------------------------------------
OnResume ==
    /\ ~front
    /\ front' = TRUE
    /\ UNCHANGED <<engineVars, threadVars, counts, hasBinder, uiAsk, inCommand, missed>>

(* altered: the question that is open is not shown to a new interface *)
SetOutputMute ==
    /\ output' = TRUE
    /\ notifications' = <<>>
    /\ UNCHANGED uiAsk

(* setAssistantOutput *)
SetOutput ==
    /\ output' = TRUE
    /\ notifications' = <<>>
    /\ uiAsk' = IF asking # "none" THEN asking ELSE uiAsk

(* mReadyCallback, when the activity resumes with a binder or gets one *)
Ready ==
    /\ front
    /\ counts.ready < MaxReady
    /\ counts' = [counts EXCEPT !.ready = @ + 1]
    /\ hasBinder' = TRUE
    /\ SetOutput
    /\ async' = Append(async, <<0, "ready">>)
    /\ UNCHANGED <<history, asking, mainLooper, running, received, front, inCommand,
                   missed>>

(* onPause *)
OnPause ==
    /\ front
    /\ front' = FALSE
    /\ output' = FALSE
    /\ UNCHANGED <<history, notifications, asking, threadVars, counts, hasBinder, uiAsk,
                   inCommand, missed>>

(* the activity is destroyed, and there is another, with fields of its own *)
Recreate ==
    /\ ~front
    /\ hasBinder' = FALSE /\ uiAsk' = "none" /\ inCommand' = FALSE
    /\ UNCHANGED <<engineVars, threadVars, counts, front, missed>>

ChatNext ==
    \/ \E kind \in Kinds : Command(kind)
    \/ Run \/ Finish
    \/ \E m \in FromEngine : Dispatch(m)
    \/ HandleDispatched \/ HandlePost
    \/ OnResume \/ Ready \/ OnPause \/ Recreate

ChatSpec == ChatInit /\ [][ChatNext]_chatVars

(* The executor and the main thread go on with what they have been given. *)
Fairness ==
    /\ WF_chatVars(Run) /\ WF_chatVars(Finish)
    /\ WF_chatVars(HandleDispatched) /\ WF_chatVars(HandlePost)

FairChatSpec == ChatSpec /\ Fairness

-----------------------------------------------------------------------------
(* Commands reach JavaScript in the order the user gave them. *)
CommandsInOrder == \A i \in DOMAIN received : received[i] = i

Pending ==
    \/ \E i \in DOMAIN async : IsCommand(async[i])
    \/ running # <<>> /\ IsCommand(running)
    \/ \E i \in DOMAIN mainLooper : mainLooper[i] \in {"after", "clear"}

(* The progress bar of a command goes away with the command -- unless the
   activity was away when the command ended: then nobody takes it away. *)
ProgressEnds == inCommand /\ ~missed => Pending

(* What makes the order inductive: the commands that JavaScript has not yet
   received are in the executor's queue, each once and in their order. *)
TasksInOrder ==
    /\ \A i \in DOMAIN async : IsCommand(async[i])
           => Len(received) < async[i][1] /\ async[i][1] <= counts.commands
    /\ \A i, j \in DOMAIN async : IsCommand(async[i]) /\ IsCommand(async[j]) /\ i < j
           => async[i][1] < async[j][1]
    /\ \A n \in Len(received) + 1 .. counts.commands :
           \E i \in DOMAIN async : IsCommand(async[i]) /\ async[i][1] = n
    /\ Len(received) <= counts.commands

(* A field is set up only for a question; only an activity in front is
   connected, and while it is nothing waits for a notification. *)
ConnectedInv ==
    /\ asking = "none" => uiAsk = "none"
    /\ output => front
    /\ output => notifications = <<>>

ChatInv ==
    ChatTypeOK /\ CommandsInOrder /\ TasksInOrder /\ ProgressEnds /\ ConnectedInv

(* While the activity is connected its input field is set up for what the
   engine asked for last, also when the question came while the activity was
   away or has been recreated: a password is not typed into a plain field. *)
FieldMatchesQuestion == output => uiAsk = asking

(* The prompts that an answer of the user replaces are gone: no interaction
   (a button, a choice, a question) is the item right before what the user
   said.  Only the end of the history is cleaned: a link stays, and so does a
   button that a text of the engine already followed. *)
NoButtonsBeforeAnswer ==
    \A i \in 1 .. Len(history) - 1 : history[i + 1] = FromUser => ~IsInteraction(history[i])

(* The progress bar does go away, whatever the engine says meanwhile, although
   the activity leaves and comes back -- unless a command ended while it was
   away: the bar then stays until the next command that ends in front of the
   connected activity. *)
ProgressGoes == inCommand ~> ~inCommand \/ missed

(* What arrives while the activity is away is kept for the notification until
   it is back, and is not kept when it was shown in the chat. *)
NotifiedWhileAway ==
    [][/\ output' => notifications' = <<>>
       /\ ~output /\ ~output' => IsPrefix(notifications, notifications')
       /\ ~output /\ Len(history') > Len(history) /\ Last(history') # FromUser
            => notifications' = Append(notifications, Last(history'))]_chatVars
=============================================================================
