---------------------------- MODULE SharedPrefs ----------------------------
(***************************************************************************)
(* Preferences of the engine: AndroidSharedPreferences in platform.js and  *)
(* SharedPreferencesAPI.java.                                              *)
(*                                                                         *)
(* JavaScript collects writes in memory and hands them over to Java in one *)
(* batch, when a timer of thirty seconds fires or before a read.  Java     *)
(* applies a batch to the preferences of the process at once and to the    *)
(* disk later (Editor.apply).  The process can be killed at any moment.    *)
(***************************************************************************)
EXTENDS Naturals, Sequences

CONSTANTS Keys, Values,
          Absent,     \* no preference of this name
          MaxSets     \* bound on the calls of set that a run remembers

ASSUME SharedPrefsAssumption ==
    /\ Absent \notin Values
    /\ MaxSets \in Nat

VARIABLES
    writes,     \* _writes
    scheduled,  \* _scheduledWrite
    armed,      \* a timer is running
    prefs,      \* the preferences as the Java process sees them
    dirty,      \* applied batches that are not on the disk yet, oldest first
    disk,       \* what is on the disk
    answer,     \* what get returned
    log,        \* history: the writes Java accepted or has yet to see
    wanted,     \* history: the value of each preference last given to set
    lost        \* history: names whose last write went with a lost batch

jsVars == <<writes, scheduled, armed>>
javaVars == <<prefs, dirty, disk>>
ghostVars == <<log, wanted, lost>>
vars == <<jsVars, javaVars, answer, ghostVars>>

Write == [key : Keys, value : Values]
Prefs == [Keys -> Values \cup {Absent}]
Nothing == [k \in Keys |-> Absent]

(* editor.putString for every write of a batch, in order *)
Applied(ws, p) ==
    [k \in Keys |->
        LET hits == {i \in 1 .. Len(ws) : ws[i].key = k}
        IN  IF hits = {} THEN p[k]
            ELSE ws[CHOOSE i \in hits : \A j \in hits : j <= i].value]

(* the preferences after the first n writes of the log *)
Upto(n) == Applied(SubSeq(log, 1, n), Nothing)

TypeOK ==
    /\ writes \in Seq(Write)
    /\ scheduled \in BOOLEAN /\ armed = scheduled
    /\ prefs \in Prefs /\ disk \in Prefs
    /\ dirty \in Seq(Seq(Write))
    /\ answer \in Values \cup {Absent}
    /\ log \in Seq(Write) /\ wanted \in Prefs /\ lost \subseteq Keys

Init ==
    /\ writes = <<>> /\ scheduled = FALSE /\ armed = FALSE
    /\ prefs = Nothing /\ dirty = <<>> /\ disk = Nothing
    /\ answer = Absent
    /\ log = <<>> /\ wanted = Nothing /\ lost = {}

-----------------------------------------------------------------------------
Batch(ws) ==
    /\ prefs' = Applied(ws, prefs)
    /\ dirty' = IF ws = <<>> THEN dirty ELSE Append(dirty, ws)
    /\ UNCHANGED <<log, lost>>

(* Java throws: the batch is in neither place any more *)
LoseBatch ==
    /\ writes # <<>>
    /\ lost' = lost \cup {writes[i].key : i \in 1 .. Len(writes)}
    /\ log' = SubSeq(log, 1, Len(log) - Len(writes))
    /\ UNCHANGED <<prefs, dirty>>

(* altered: the newest write of a batch is applied first *)
FlushNewest ==
    /\ writes' = <<>>
    /\ Batch([i \in 1 .. Len(writes) |-> writes[Len(writes) + 1 - i]])

(* _flushWrites: the writes are taken out before Java is called, and an error
   of Java is logged and forgotten *)
Flush ==
    /\ writes' = <<>>
    /\ Batch(writes) \/ LoseBatch

(* set: push the write, and start a timer unless one is scheduled *)
Set(k, v) ==
    /\ Len(log) < MaxSets
    /\ LET w == [key |-> k, value |-> v]
       IN writes' = Append(writes, w) /\ log' = Append(log, w)
    /\ scheduled' = TRUE
    /\ armed' = (armed \/ ~scheduled)
    /\ wanted' = [wanted EXCEPT ![k] = v]
    /\ lost' = lost \ {k}
    /\ UNCHANGED <<javaVars, answer>>

(* get: flush, then read what Java has now *)
Get(k) ==
    /\ Flush
    /\ answer' = prefs'[k]
    /\ UNCHANGED <<scheduled, armed, disk, wanted>>

(* altered: the callback leaves _scheduledWrite as it is *)
TimerForgetful ==
    /\ armed
    /\ armed' = FALSE
    /\ Flush
    /\ UNCHANGED <<scheduled, disk, answer, wanted>>

(* the timer callback *)
Timer ==
    /\ armed
    /\ armed' = FALSE
    /\ Flush
    /\ scheduled' = FALSE
    /\ UNCHANGED <<disk, answer, wanted>>

(* altered: the disk gets the batches in any order *)
CommitAny ==
    \E i \in 1 .. Len(dirty) :
        /\ disk' = Applied(dirty[i], disk)
        /\ dirty' = SubSeq(dirty, 1, i - 1) \o SubSeq(dirty, i + 1, Len(dirty))
        /\ UNCHANGED <<jsVars, prefs, answer, ghostVars>>

(* Android writes the oldest applied batch to the disk. *)
Commit ==
    /\ dirty # <<>>
    /\ disk' = Applied(Head(dirty), disk)
    /\ dirty' = Tail(dirty)
    /\ UNCHANGED <<jsVars, prefs, answer, ghostVars>>

(* The process is killed and started again: all that the new one has is the
   disk, so what was set and not committed never happened. *)
Restart ==
    /\ writes' = <<>> /\ scheduled' = FALSE /\ armed' = FALSE
    /\ prefs' = disk /\ dirty' = <<>> /\ answer' = Absent
    /\ \E n \in 0 .. Len(log) : disk = Upto(n) /\ log' = SubSeq(log, 1, n)
    /\ wanted' = disk /\ lost' = {}
    /\ UNCHANGED disk

Next ==
    \/ \E k \in Keys, v \in Values : Set(k, v)
    \/ \E k \in Keys : Get(k)
    \/ Timer \/ Commit \/ Restart

Spec == Init /\ [][Next]_vars

(* Node runs timers that are due. *)
FairSpec == Spec /\ WF_vars(Timer)

-----------------------------------------------------------------------------
(* What is on the disk is what the engine had set up to some earlier moment:
   a kill loses the latest writes, it never leaves a later write without an
   earlier one (a batch that Java refused is lost as a whole). *)
DiskIsPrefix == \E n \in 0 .. Len(log) : disk = Upto(n)

-----------------------------------------------------------------------------
(* The inductive invariant behind the safety properties, by named parts. *)

(* The writes ws are the part of the log that begins behind its first n. *)
PartOfLog(ws, n) ==
    /\ n + Len(ws) <= Len(log)
    /\ \A j \in 1 .. Len(ws) : ws[j] = log[n + j]

(* The log is, in this order, what is on the disk, the batches that are not,
   and _writes; cut has the places where they meet. *)
CutInv(cut) ==
    LET last == Len(dirty) + 1
    IN  /\ \A i \in 1 .. Len(dirty) :
               PartOfLog(dirty[i], cut[i]) /\ cut[i + 1] = cut[i] + Len(dirty[i])
        /\ \A i \in 1 .. last : cut[i] <= cut[last]
        /\ PartOfLog(writes, cut[last]) /\ Len(log) = cut[last] + Len(writes)
        /\ disk = Upto(cut[1])
        /\ prefs = Upto(cut[last])

LogInv == \E cut \in [1 .. Len(dirty) + 1 -> 0 .. Len(log)] : CutInv(cut)

(* What was last given to set is what the log comes to. *)
WantedInv == \A k \in Keys : k \in lost \/ wanted[k] = Upto(Len(log))[k]

IInv ==
    /\ TypeOK
    /\ LogInv
    /\ WantedInv
    /\ DiskIsPrefix

-----------------------------------------------------------------------------

(* get returns the value last given to set, whether that write is still in
   _writes, in a batch that is not on the disk, or on the disk -- unless the
   batch of that write was lost to an error, which set has no way to report. *)
ReadYourWrites ==
    [][\A k \in Keys : Get(k) /\ k \notin lost' => answer' = wanted[k]]_vars

(* A write does not stay in _writes for ever: whatever the order of set, get
   and the timer, a timer is running whenever there is one. *)
WritesAreHandedOver == writes # <<>> ~> writes = <<>>
=============================================================================
