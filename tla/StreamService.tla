--------------------------- MODULE StreamService ---------------------------
(***************************************************************************)
(* The two halves of a stream put together: the threads and pipes of       *)
(* module StreamPool do the forwarding of module Streams.  A stream exists *)
(* in both from the call that makes it; the blocks read from its input or  *)
(* its pipe are the chunks pushed to JavaScript; and the pool thread of a  *)
(* content stream is free again once the input is closed.                  *)
(***************************************************************************)
EXTENDS Streams, FiniteSets

CONSTANTS PoolSize,   \* threads of the pool (6 in the code)
          PipeSize    \* blocks that fit into a pipe

ASSUME StreamServiceAssumption ==
    /\ PoolSize \in Nat \ {0}
    /\ PipeSize \in Nat \ {0}

VARIABLES queue, running, connected, written    \* as in StreamPool

poolVars == <<queue, running, connected, written>>
serviceVars == <<vars, poolVars>>

(* the streams that were opened, whatever became of them since *)
Opened == {s \in Streams : source[s] \notin {"none", "failed"}}

Pool == INSTANCE StreamPool WITH
            Contents <- Streams \ Images, Chunks <- MaxChunks,
            requested <- Opened, read <- sent

ServiceInit == Init /\ Pool!Init

-----------------------------------------------------------------------------
(* The URL is opened on the executor thread; only then is there something
   for the pool to do. *)
OpenContent(s) ==
    /\ GetStream(s)
    /\ IF source'[s] = "open" THEN Pool!GetStream(s) ELSE UNCHANGED poolVars

StreamImage(s) == ImageToStream(s) /\ Pool!ToStream(s)

(* the pool thread hands the end over and has yet to close the input *)
PushEnd(s) ==
    /\ Pool!Task("content", s) \in running
    /\ source'[s] = "closing"
    /\ UNCHANGED poolVars

ForwardNext(s) ==
    Forward(s) /\ (Pool!PushContent(s) \/ Pool!ForwardImage(s) \/ PushEnd(s))

Finish(s) == CloseInput(s) /\ Pool!EndContent(s)

StartTask == UNCHANGED vars /\ Pool!Start
ConnectPipe(s) == UNCHANGED vars /\ Pool!Connect(s)
CompressBlock(s) == UNCHANGED vars /\ Pool!Compress(s)

GiveToken(s) == ReturnToken(s) /\ UNCHANGED poolVars
MakeReadable(s) == CreateStream(s) /\ UNCHANGED poolVars
TakeToken == ResolveToken /\ UNCHANGED poolVars
TakeEvent == Receive /\ UNCHANGED poolVars

ServiceNext ==
    \/ \E s \in Streams : \/ OpenContent(s) \/ GiveToken(s)
                          \/ ForwardNext(s) \/ Finish(s) \/ MakeReadable(s)
    \/ \E s \in Images : StreamImage(s) \/ ConnectPipe(s) \/ CompressBlock(s)
    \/ StartTask \/ TakeToken \/ TakeEvent

ServiceSpec == ServiceInit /\ [][ServiceNext]_serviceVars

(* The event loop empties both queues and runs its promise callbacks, pool
   threads run, and an input is read until it ends or fails. *)
ServiceFairness ==
    /\ WF_serviceVars(TakeEvent) /\ WF_serviceVars(TakeToken)
    /\ WF_serviceVars(StartTask)
    /\ \A s \in Streams : /\ WF_serviceVars(GiveToken(s))
                          /\ WF_serviceVars(ForwardNext(s))
                          /\ WF_serviceVars(Finish(s))
                          /\ WF_serviceVars(MakeReadable(s))
    /\ \A s \in Images : /\ WF_serviceVars(ConnectPipe(s))
                         /\ WF_serviceVars(CompressBlock(s))

FairServiceSpec == ServiceSpec /\ ServiceFairness

-----------------------------------------------------------------------------
(* Safety *)

ForwarderOf(s) ==
    Pool!Task(IF s \in Images THEN "forward" ELSE "content", s)

(* from the call that makes the stream, or the pipe, until the input is closed *)
Due(s) ==
    IF s \in Images THEN s \in connected ELSE source[s] \in {"open", "closing"}

(* A stream is forwarded by one pool thread from the call that made it until
   its input is closed: it has exactly one task then and none after, so no
   chunk is pushed twice and none behind the end. *)
OneForwarder ==
    \A s \in Streams :
        LET held == ForwarderOf(s) \in running
            waits == {i \in 1 .. Len(queue) : queue[i] = ForwarderOf(s)}
        IN  Cardinality(waits) + (IF held THEN 1 ELSE 0) = IF Due(s) THEN 1 ELSE 0

(* What makes this inductive: a task is in one place of the pool, waiting or
   running; the forwarder of a stream is there exactly while it is due, and
   compressing starts only for an image that was asked for. *)
Waits(t) == \E i \in 1 .. Len(queue) : queue[i] = t
InPool(t) == Waits(t) \/ t \in running

InOnePlace ==
    /\ \A i, j \in 1 .. Len(queue) : queue[i] = queue[j] => i = j
    /\ \A i \in 1 .. Len(queue) : queue[i] \notin running

ForwarderWhileDue == \A s \in Streams : InPool(ForwarderOf(s)) <=> Due(s)

CompressedWhenOpened == \A s \in Images : InPool(Pool!Task("compress", s)) => s \in Opened

PoolInv ==
    /\ Pool!TypeOK
    /\ IsFiniteSet(running)
    /\ InOnePlace
    /\ ForwarderWhileDue
    /\ CompressedWhenOpened

(* A task that holds its thread and waits for another task of its image: the
   pipe is full, or it is empty. *)
Stuck ==
    {t \in running :
        \/ /\ t.kind = "compress" /\ t.of \in connected
           /\ written[t.of] < MaxChunks /\ written[t.of] - sent[t.of] >= PipeSize
        \/ t.kind = "forward" /\ sent[t.of] >= written[t.of]}

OpenedInv == IsFiniteSet(Opened \cap Images) /\ connected \subseteq Opened

(* The tasks of images, which wait for each other on threads of one pool, do
   not block the pool while there are fewer images than threads: a thread is
   free, or one of the tasks that run goes on. *)
PoolGoesOn ==
    Cardinality(Opened \cap Images) < PoolSize =>
        Cardinality(running) < PoolSize \/ Stuck # running

ServiceInv == IInv /\ PoolInv /\ OneForwarder /\ OpenedInv /\ PoolGoesOn

-----------------------------------------------------------------------------
(* Liveness *)

(* Every stream that was opened is forwarded, content to its end and an image
   to its last block, as long as fewer images than the pool has threads are
   ever streamed: while there are fewer, the tasks of an image that wait for
   each other leave a thread that makes progress.  Each image takes a thread
   for ever, so the limit is over the life of the process and not only on
   images streamed at the same time. *)
AllForwarded ==
    \A s \in Streams :
        source[s] = "open" ~>
            \/ source[s] = "closed"
            \/ s \in Images /\ sent[s] = MaxChunks
            \/ Cardinality(Opened \cap Images) >= PoolSize
=============================================================================
