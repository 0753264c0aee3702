------------------------------ MODULE Streams ------------------------------
(***************************************************************************)
(* Streams of bytes from Java to JavaScript: StreamAPI.java and            *)
(* ContentAPI.java, ImageAPI.toStream, jsapp/streams.js and the users of   *)
(* createStream in platform.js and graphics.js.                            *)
(*                                                                         *)
(* A stream is a number, its token.  A pool thread pushes the chunks and   *)
(* the end through the call queue (module CallQueue), while the token      *)
(* itself travels to JavaScript as the outcome of a Java call: through the *)
(* native queue (module JavaInvoker) for Content.getStream, directly for   *)
(* Image.imageToStream.  JavaScript makes the Readable when the token      *)
(* arrives and ignores what is addressed to a token it does not know.  The *)
(* two queues are not ordered with respect to each other, so chunks can    *)
(* overtake the token.                                                     *)
(***************************************************************************)
EXTENDS Naturals, Sequences

CONSTANTS Streams,      \* identities of the streams, each made once
          Images,       \* those made by Image.imageToStream
          MaxChunks     \* bound on the chunks of one stream

ASSUME StreamsAssumption ==
    /\ Images \subseteq Streams
    /\ MaxChunks \in Nat

VARIABLES
    source,     \* the Java side of each stream
    returned,   \* content streams whose token getStream has returned
    sent,       \* how many chunks have been pushed
    channel,    \* the call queue: a FIFO channel (CallQueueProofs)
    tokens,     \* the native queue: tokens that getStream has returned
    resolved,   \* tokens that a promise callback will pass to createStream
    readable,   \* the JavaScript Readable: live while it is in _streams
    got,        \* the chunks pushed into the Readable
    early       \* how many events were ignored for want of a Readable

javaVars == <<source, returned, sent>>
jsVars == <<resolved, readable, got, early>>
vars == <<javaVars, channel, tokens, jsVars>>

Kinds == {"data", "end", "error"}
Events == [stream : Streams, kind : Kinds, chunk : 0 .. MaxChunks]

TypeOK ==
    /\ source \in [Streams -> {"none", "failed", "open", "closing", "closed"}]
    /\ returned \in SUBSET (Streams \ Images)
    /\ sent \in [Streams -> 0 .. MaxChunks]
    /\ channel \in Seq(Events)
    /\ tokens \in Seq(Streams)
    /\ resolved \in SUBSET Streams
    /\ readable \in [Streams -> {"absent", "live", "ended", "failed"}]
    /\ got \in [Streams -> Seq(1 .. MaxChunks)]
    /\ early \in [Streams -> Nat]
    /\ \A s \in returned : source[s] \notin {"none", "failed"}

Init ==
    /\ source = [s \in Streams |-> "none"]
    /\ returned = {}
    /\ sent = [s \in Streams |-> 0]
    /\ channel = <<>>
    /\ tokens = <<>>
    /\ resolved = {}
    /\ readable = [s \in Streams |-> "absent"]
    /\ got = [s \in Streams |-> <<>>]
    /\ early = [s \in Streams |-> 0]

-----------------------------------------------------------------------------
(* Java *)

(* the newest call is the first to be run *)
PostFront(s, kind, chunk) ==
    channel' = <<[stream |-> s, kind |-> kind, chunk |-> chunk]>> \o channel

(* sendChunk, sendError, sendEnd: through invokeAsync of the call queue *)
Post(s, kind, chunk) ==
    channel' = Append(channel, [stream |-> s, kind |-> kind, chunk |-> chunk])

(* Content.getStream on an executor thread: the stream object is made, the
   URL opened, and the forwarding handed to the pool ... *)
GetStream(s) ==
    /\ s \notin Images
    /\ source[s] = "none"
    /\ \E r \in {"open", "failed"} : source' = [source EXCEPT ![s] = r]
    /\ UNCHANGED <<returned, sent, channel, tokens, jsVars>>

(* ... and then the token is returned, while the pool is already pushing. *)
ReturnToken(s) ==
    /\ s \notin Images \cup returned
    /\ source[s] \in {"open", "closing", "closed"}
    /\ returned' = returned \cup {s}
    /\ tokens' = Append(tokens, s)
    /\ UNCHANGED <<source, sent, channel, jsVars>>

(* Image.imageToStream runs on the event loop thread and returns the token
   to a promise callback, which passes it on to the next callback. *)
ImageToStream(s) ==
    /\ s \in Images
    /\ source[s] = "none"
    /\ source' = [source EXCEPT ![s] = "open"]
    /\ resolved' = resolved \cup {s}
    /\ UNCHANGED <<returned, sent, channel, tokens, readable, got, early>>

(* the end overtakes the last chunk *)
ForwardEndFirst(s) ==
    /\ source[s] = "open"
    /\ \/ /\ sent[s] < MaxChunks
          /\ sent' = [sent EXCEPT ![s] = @ + 1]
          /\ Post(s, "data", sent[s] + 1)
          /\ UNCHANGED source
       \/ /\ s \notin Images
          /\ sent[s] < MaxChunks
          /\ sent' = [sent EXCEPT ![s] = @ + 1]
          /\ channel' = channel \o
                <<[stream |-> s, kind |-> "end", chunk |-> 0],
                  [stream |-> s, kind |-> "data", chunk |-> sent[s] + 1]>>
          /\ source' = [source EXCEPT ![s] = "closing"]
    /\ UNCHANGED <<returned, tokens, jsVars>>

(* Stream.forwardSync on a pool thread: the next chunk, the end, or an
   IOException.  The pipe that feeds an image stream is never closed by its
   writer, so such a stream has no end. *)
Forward(s) ==
    /\ source[s] = "open"
    /\ \/ /\ sent[s] < MaxChunks
          /\ sent' = [sent EXCEPT ![s] = @ + 1]
          /\ Post(s, "data", sent[s] + 1)
          /\ UNCHANGED source
       \/ /\ s \notin Images
          /\ \E kind \in {"end", "error"} : Post(s, kind, 0)
          /\ source' = [source EXCEPT ![s] = "closing"]
          /\ UNCHANGED sent
    /\ UNCHANGED <<returned, tokens, jsVars>>

(* ContentAPI closes the input stream; if that throws, it reports an error on
   a stream that has already ended. *)
CloseInput(s) ==
    /\ source[s] = "closing"
    /\ source' = [source EXCEPT ![s] = "closed"]
    /\ Post(s, "error", 0) \/ UNCHANGED channel
    /\ UNCHANGED <<returned, sent, tokens, jsVars>>

-----------------------------------------------------------------------------
(* JavaScript *)

(* the promise of Content.getStream is fulfilled *)
ResolveToken ==
    /\ tokens # <<>>
    /\ tokens' = Tail(tokens)
    /\ resolved' = resolved \cup {Head(tokens)}
    /\ UNCHANGED <<javaVars, channel, readable, got, early>>

(* .then((token) => createStream(token)), in a later turn *)
CreateStream(s) ==
    /\ s \in resolved
    /\ resolved' = resolved \ {s}
    /\ readable' = [readable EXCEPT ![s] = "live"]
    /\ UNCHANGED <<javaVars, channel, tokens, got, early>>

(* the Readable stays in _streams after an error *)
DeliverKeeping(e) ==
    CASE e.kind = "data" -> /\ got' = [got EXCEPT ![e.stream] = Append(@, e.chunk)]
                            /\ UNCHANGED readable
      [] e.kind = "end" -> /\ readable' = [readable EXCEPT ![e.stream] = "ended"]
                           /\ UNCHANGED got
      [] OTHER -> UNCHANGED <<readable, got>>

(* _onStreamData, _onStreamEnd and _onStreamError for a Readable that is in
   _streams; the last two take it out. *)
Deliver(e) ==
    CASE e.kind = "data" -> /\ got' = [got EXCEPT ![e.stream] = Append(@, e.chunk)]
                            /\ UNCHANGED readable
      [] e.kind = "end" -> /\ readable' = [readable EXCEPT ![e.stream] = "ended"]
                           /\ UNCHANGED got
      [] OTHER -> /\ readable' = [readable EXCEPT ![e.stream] = "failed"]
                  /\ UNCHANGED got

(* _streams keeps a Readable that has ended or failed *)
ReceiveLate ==
    LET e == Head(channel) IN
    /\ channel # <<>>
    /\ channel' = Tail(channel)
    /\ IF readable[e.stream] # "absent"
       THEN Deliver(e) /\ UNCHANGED early
       ELSE /\ early' = [early EXCEPT ![e.stream] = @ + 1]
            /\ UNCHANGED <<readable, got>>
    /\ UNCHANGED <<javaVars, tokens, resolved>>

(* the next call of the call queue *)
Receive ==
    LET e == Head(channel) IN
    /\ channel # <<>>
    /\ channel' = Tail(channel)
    /\ IF readable[e.stream] = "live"
       THEN Deliver(e) /\ UNCHANGED early
       ELSE /\ early' = [early EXCEPT ![e.stream] =
                            IF readable[e.stream] = "absent" THEN @ + 1 ELSE @]
            /\ UNCHANGED <<readable, got>>
    /\ UNCHANGED <<javaVars, tokens, resolved>>

-----------------------------------------------------------------------------
Next ==
    \/ \E s \in Streams : \/ GetStream(s) \/ ReturnToken(s) \/ ImageToStream(s)
                          \/ Forward(s) \/ CloseInput(s) \/ CreateStream(s)
    \/ ResolveToken
    \/ Receive

Spec == Init /\ [][Next]_vars

(* The event loop empties both queues and runs its promise callbacks, and
   getStream returns once it has started the forwarding.  Nothing makes the
   input produce another chunk or end. *)
Fairness ==
    /\ WF_vars(Receive) /\ WF_vars(ResolveToken)
    /\ \A s \in Streams : WF_vars(CreateStream(s)) /\ WF_vars(ReturnToken(s))
                          /\ WF_vars(CloseInput(s))

FairSpec == Spec /\ Fairness

-----------------------------------------------------------------------------
(* Safety *)

(* What reaches a Readable is a run of consecutive chunks, in order and
   without repetition, whatever the interleaving of the two queues; and what
   it misses is exactly what was ignored before it existed. *)
OnlyFrontMissing ==
    \A s \in Streams : \A i \in 1 .. Len(got[s]) : got[s][i] = early[s] + i

(* What makes this inductive.  The chunks of a stream are handled in the order
   in which they were pushed: those in the channel are the ones between what
   has been seen and what has been sent, in ascending order. *)
IsData(i, s) == channel[i].stream = s /\ channel[i].kind = "data"
IsTerminal(i, s) == channel[i].stream = s /\ channel[i].kind # "data"
Seen(s) == early[s] + Len(got[s])

ChunksInOrder(s) ==
    /\ \A i, j \in 1 .. Len(channel) :
          i < j /\ IsData(i, s) /\ IsData(j, s) => channel[i].chunk < channel[j].chunk
    /\ \A i \in 1 .. Len(channel) :
          IsData(i, s) => Seen(s) < channel[i].chunk /\ channel[i].chunk <= sent[s]
    /\ \A c \in Seen(s) + 1 .. sent[s] :
          \E i \in 1 .. Len(channel) : IsData(i, s) /\ channel[i].chunk = c
    /\ source[s] \in {"none", "failed", "open"} \/ got[s] # <<>> => Seen(s) <= sent[s]

(* No chunk follows the end or an error. *)
TerminalLast(s) ==
    /\ source[s] \in {"none", "failed", "open"} =>
          /\ readable[s] \in {"absent", "live"}
          /\ \A i \in 1 .. Len(channel) : ~IsTerminal(i, s)
    /\ \A i, j \in 1 .. Len(channel) : i < j /\ IsTerminal(i, s) => ~IsData(j, s)
    /\ readable[s] \in {"ended", "failed"} => \A i \in 1 .. Len(channel) : ~IsData(i, s)

(* A token is in one place at a time, and only then the Readable is made. *)
TokenTravelsOnce(s) ==
    /\ readable[s] = "absent" => got[s] = <<>>
    /\ \A i \in 1 .. Len(tokens) : tokens[i] = s =>
          /\ readable[s] = "absent" /\ s \notin resolved
          /\ \A j \in 1 .. Len(tokens) : tokens[j] = s => i = j
    /\ s \in resolved => readable[s] = "absent"
    /\ (IF s \in Images THEN source[s] = "none" ELSE s \notin returned) =>
          /\ readable[s] = "absent" /\ s \notin resolved
          /\ \A i \in 1 .. Len(tokens) : tokens[i] # s
    /\ s \in Images => \A i \in 1 .. Len(tokens) : tokens[i] # s

IInv ==
    /\ TypeOK
    /\ OnlyFrontMissing
    /\ \A s \in Streams : ChunksInOrder(s) /\ TerminalLast(s) /\ TokenTravelsOnce(s)

(* Chunks are lost at the front only: if nothing was ignored before the
   Readable existed, an ended Readable has every chunk that was pushed. *)
CompleteUnlessOvertaken ==
    \A s \in Streams :
        readable[s] = "ended" /\ early[s] = 0 =>
            Len(got[s]) = sent[s] /\ source[s] \in {"closing", "closed"}

(* A Readable that has ended or failed receives nothing more, although an
   error may follow the end: a consumer sees one terminal event. *)
TerminalForGood ==
    [][\A s \in Streams : readable[s] \in {"ended", "failed"} =>
          readable'[s] = readable[s] /\ got'[s] = got[s]]_vars

-----------------------------------------------------------------------------
(* Liveness *)

(* A stream whose forwarding finishes leaves no Readable dangling, unless
   events overtook the token: then the end may be lost and the consumer waits
   for ever.  (An image stream never finishes.) *)
FinishedUnlessOvertaken ==
    \A s \in Streams :
        source[s] = "closed" ~> readable[s] \in {"ended", "failed"} \/ early[s] > 0
=============================================================================
