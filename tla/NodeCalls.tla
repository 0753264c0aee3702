----------------------------- MODULE NodeCalls -----------------------------
(***************************************************************************)
(* What the Java side of Almond is promised by the bridge into NodeJS,     *)
(* whatever queues, locks and wake-ups implement it: the calls are one     *)
(* FIFO channel, JavaScript runs each call once and in the order in which  *)
(* the calls entered the channel, and a call made with invokeSync is       *)
(* answered at most once, by a value or by an error, and only after        *)
(* JavaScript has run it.                                                  *)
(* CallQueue is the implementation and is shown to refine this module.     *)
(***************************************************************************)
EXTENDS Naturals, SequencesExt

CONSTANTS Calls,      \* identities of the calls made from Java
          SyncCalls   \* those of them whose caller waits for an answer

VARIABLES channel,    \* calls accepted and not yet run, oldest first
          done,       \* calls JavaScript has run
          answer      \* what the caller of a synchronous call is told

vars == <<channel, done, answer>>

Answers == {"none", "value", "error"}

Init ==
    /\ channel = <<>>
    /\ done = {}
    /\ answer = [c \in Calls |-> "none"]

(* A call enters the channel, once in its life. *)
Send(c) ==
    /\ c \notin done \cup ToSet(channel)
    /\ channel' = Append(channel, c)
    /\ UNCHANGED <<done, answer>>

(* An answer for a synchronous call that has none. *)
Answer(c) ==
    /\ c \in SyncCalls
    /\ answer[c] = "none"
    /\ \E a \in {"value", "error"} : answer' = [answer EXCEPT ![c] = a]

(* JavaScript runs the oldest call, and may answer it at once. *)
Run ==
    /\ channel # <<>>
    /\ channel' = Tail(channel)
    /\ done' = done \cup {Head(channel)}
    /\ Answer(Head(channel)) \/ UNCHANGED answer

(* The promise that JavaScript returned settles later. *)
LateAnswer(c) ==
    /\ c \in done
    /\ Answer(c)
    /\ UNCHANGED <<channel, done>>

Next ==
    \/ Run
    \/ \E c \in Calls : Send(c) \/ LateAnswer(c)

Spec == Init /\ [][Next]_vars
=============================================================================
