----------------------------- MODULE StreamPool -----------------------------
(***************************************************************************)
(* The fixed thread pool of StreamAPI.java and the two kinds of work put   *)
(* on it: ContentAPI forwards an input stream; ImageAPI.toStream, on one   *)
(* pool thread, connects a pipe, submits the reading end to the SAME pool  *)
(* and compresses the bitmap into the writing end, which it never closes.  *)
(*                                                                         *)
(* A java.io pipe holds a bounded number of bytes; the writer waits while  *)
(* it is full, the reader while it is empty, and the reader sees the end   *)
(* of an unclosed pipe only when the writing thread has died, which a      *)
(* thread of a fixed pool does not.                                        *)
(***************************************************************************)
EXTENDS Naturals, Sequences, FiniteSets

CONSTANTS Contents,   \* content streams to forward
          Images,     \* images to stream, none of them a content stream
          PoolSize,   \* threads of the pool (6 in the code)
          Chunks,     \* blocks of a compressed image, of an input stream
          PipeSize    \* blocks that fit into a pipe

VARIABLES
    queue,      \* tasks submitted and not yet started, oldest first
    running,    \* tasks that hold a pool thread
    requested,  \* streams asked for so far
    connected,  \* images whose pipe is made and whose forwarding is submitted
    written,    \* blocks compress has written into the pipe of an image
    read        \* blocks pushed to JavaScript from a pipe or an input stream

vars == <<queue, running, requested, connected, written, read>>

Tasks == [kind : {"content"}, of : Contents]
             \cup [kind : {"compress", "forward"}, of : Images]
Task(k, x) == [kind |-> k, of |-> x]

TypeOK ==
    /\ queue \in Seq(Tasks)
    /\ running \in SUBSET Tasks
    /\ requested \in SUBSET (Contents \cup Images)
    /\ connected \in SUBSET Images
    /\ written \in [Images -> 0 .. Chunks]
    /\ read \in [Contents \cup Images -> 0 .. Chunks]
    /\ Cardinality(running) <= PoolSize
    /\ \A x \in Images : read[x] <= written[x] /\ written[x] - read[x] <= PipeSize

Init ==
    /\ queue = <<>>
    /\ running = {}
    /\ requested = {}
    /\ connected = {}
    /\ written = [x \in Images |-> 0]
    /\ read = [x \in Contents \cup Images |-> 0]

-----------------------------------------------------------------------------
(* Executor.execute *)

GetStream(x) ==
    /\ x \in Contents \ requested
    /\ requested' = requested \cup {x}
    /\ queue' = Append(queue, Task("content", x))
    /\ UNCHANGED <<running, connected, written, read>>

ToStream(x) ==
    /\ x \in Images \ requested
    /\ requested' = requested \cup {x}
    /\ queue' = Append(queue, Task("compress", x))
    /\ UNCHANGED <<running, connected, written, read>>

(* A thread is free and takes the oldest task. *)
Start ==
    /\ queue # <<>>
    /\ Cardinality(running) < PoolSize
    /\ running' = running \cup {Head(queue)}
    /\ queue' = Tail(queue)
    /\ UNCHANGED <<requested, connected, written, read>>

-----------------------------------------------------------------------------
(* forwardSync of a content stream: the next block ... *)
PushContent(x) ==
    /\ Task("content", x) \in running
    /\ read[x] < Chunks
    /\ read' = [read EXCEPT ![x] = @ + 1]
    /\ UNCHANGED <<queue, running, requested, connected, written>>

(* ... until the task is over and its thread is free for another. *)
EndContent(x) ==
    /\ Task("content", x) \in running
    /\ running' = running \ {Task("content", x)}
    /\ UNCHANGED <<queue, requested, connected, written, read>>

(* output.connect(input); stream.forward(input) *)
Connect(x) ==
    /\ Task("compress", x) \in running
    /\ x \notin connected
    /\ connected' = connected \cup {x}
    /\ queue' = Append(queue, Task("forward", x))
    /\ UNCHANGED <<running, requested, written, read>>

(* compressing ends only when the other thread has read everything and left *)
CompressJoining(x) ==
    /\ Task("compress", x) \in running
    /\ x \in connected
    /\ written[x] < Chunks
    /\ written[x] - read[x] < PipeSize
    /\ written' = [written EXCEPT ![x] = @ + 1]
    /\ UNCHANGED <<queue, running, requested, connected, read>>

(* bitmap.compress into the pipe, blocked while the pipe is full *)
Compress(x) ==
    /\ Task("compress", x) \in running
    /\ x \in connected
    /\ \/ /\ written[x] < Chunks
          /\ written[x] - read[x] < PipeSize
          /\ written' = [written EXCEPT ![x] = @ + 1]
          /\ UNCHANGED running
       \/ /\ written[x] = Chunks
          /\ running' = running \ {Task("compress", x)}
          /\ UNCHANGED written
    /\ UNCHANGED <<queue, requested, connected, read>>

(* forwardSync of the pipe: it pushes what is there and otherwise waits; it
   is never told that the image is complete, so it never gives up its thread. *)
ForwardImage(x) ==
    /\ Task("forward", x) \in running
    /\ read[x] < written[x]
    /\ read' = [read EXCEPT ![x] = @ + 1]
    /\ UNCHANGED <<queue, running, requested, connected, written>>

-----------------------------------------------------------------------------
Next ==
    \/ \E x \in Contents : GetStream(x) \/ PushContent(x) \/ EndContent(x)
    \/ \E x \in Images : ToStream(x) \/ Connect(x) \/ Compress(x) \/ ForwardImage(x)
    \/ Start

Spec == Init /\ [][Next]_vars
=============================================================================
