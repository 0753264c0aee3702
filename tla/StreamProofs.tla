---------------------------- MODULE StreamProofs ----------------------------
(***************************************************************************)
(* The safety properties of module Streams for every number of streams and *)
(* chunks, their validity for the composed StreamService, whose steps are  *)
(* steps of Streams, and what StreamService adds to them: the tasks of the *)
(* pool, its threads and the pipes, for every size of the pool.            *)
(***************************************************************************)
EXTENDS StreamService, ListLemmas, FiniteSetTheorems

LEMMA InitStreams == Init => IInv
<1> SUFFICES ASSUME Init PROVE IInv
    OBVIOUS
<1>1. TypeOK
    BY StreamsAssumption DEF Init, TypeOK
<1>2. /\ Len(channel) = 0 /\ Len(tokens) = 0
      /\ \A s \in Streams : got[s] = <<>> /\ Len(got[s]) = 0
    BY DEF Init
<1>3. OnlyFrontMissing
    BY <1>2 DEF OnlyFrontMissing
<1>4. ASSUME NEW s \in Streams
      PROVE  ChunksInOrder(s) /\ TerminalLast(s) /\ TokenTravelsOnce(s)
    <2>1. Seen(s) = 0 /\ sent[s] = 0
        BY <1>2 DEF Init, Seen
    <2> QED BY <1>2, <2>1 DEF Init, ChunksInOrder, TerminalLast, TokenTravelsOnce
<1> QED BY <1>1, <1>3, <1>4 DEF IInv

-----------------------------------------------------------------------------
(* The channel after a push and after a delivery. *)

LEMMA ChannelEvents ==
    ASSUME TypeOK
    PROVE  /\ Len(channel) \in Nat
           /\ \A i \in 1 .. Len(channel) : channel[i] \in Events /\ channel[i].chunk \in Nat
<1>1. channel \in Seq(Events)
    BY DEF TypeOK
<1>2. Len(channel) \in Nat /\ \A i \in 1 .. Len(channel) : channel[i] \in Events
    BY <1>1
<1> QED BY <1>2, StreamsAssumption DEF Events

LEMMA PostAppends ==
    ASSUME TypeOK, NEW s \in Streams, NEW k \in Kinds, NEW c \in 0 .. MaxChunks,
           Post(s, k, c)
    PROVE  /\ channel' \in Seq(Events)
           /\ Len(channel') = Len(channel) + 1
           /\ Len(channel) \in Nat
           /\ \A i \in 1 .. Len(channel) : channel'[i] = channel[i]
           /\ channel'[Len(channel) + 1] = [stream |-> s, kind |-> k, chunk |-> c]
<1> DEFINE e == [stream |-> s, kind |-> k, chunk |-> c]
<1>1. e \in Events
    BY DEF Events
<1>2. channel \in Seq(Events) /\ channel' = Append(channel, e)
    BY DEF TypeOK, Post
<1> HIDE DEF e
<1>3. /\ Append(channel, e) \in Seq(Events)
      /\ Len(Append(channel, e)) = Len(channel) + 1
      /\ \A i \in 1 .. Len(channel) : Append(channel, e)[i] = channel[i]
      /\ Append(channel, e)[Len(channel) + 1] = e
      /\ Len(channel) \in Nat
    BY <1>1, <1>2
<1> QED BY <1>2, <1>3 DEF e

LEMMA ReceiveTail ==
    ASSUME TypeOK, Receive
    PROVE  /\ channel' \in Seq(Events)
           /\ Len(channel) \in Nat /\ Len(channel) >= 1
           /\ Len(channel') = Len(channel) - 1
           /\ \A i \in 1 .. Len(channel') : channel'[i] = channel[i + 1]
           /\ Head(channel) = channel[1] /\ channel[1] \in Events
BY DEF TypeOK, Receive

(* A chunk or a terminal event for a live Readable, or one that is ignored. *)
TakeChunk(e) ==
    /\ readable[e.stream] = "live" /\ e.kind = "data"
    /\ got' = [got EXCEPT ![e.stream] = Append(@, e.chunk)]
    /\ UNCHANGED <<readable, early>>
TakeTerminal(e) ==
    /\ readable[e.stream] = "live" /\ e.kind # "data"
    /\ \E r \in {"ended", "failed"} : readable' = [readable EXCEPT ![e.stream] = r]
    /\ UNCHANGED <<got, early>>
Ignore(e) ==
    /\ readable[e.stream] # "live"
    /\ early' = [early EXCEPT ![e.stream] =
                    IF readable[e.stream] = "absent" THEN @ + 1 ELSE @]
    /\ UNCHANGED <<readable, got>>

LEMMA ReceiveCases ==
    ASSUME TypeOK, Receive
    PROVE  TakeChunk(channel[1]) \/ TakeTerminal(channel[1]) \/ Ignore(channel[1])
<1> DEFINE e == channel[1]
<1>1. Head(channel) = e
    BY ReceiveTail
<1> HIDE DEF e
<1>2. IF readable[e.stream] = "live"
      THEN Deliver(e) /\ UNCHANGED early
      ELSE Ignore(e)
    BY <1>1 DEF Receive, Ignore
<1>3. CASE readable[e.stream] # "live"
    BY <1>2, <1>3 DEF e
<1>4. CASE readable[e.stream] = "live" /\ e.kind = "data"
    <2>1. TakeChunk(e)
        BY <1>2, <1>4 DEF Deliver, TakeChunk
    <2> QED BY <2>1 DEF e
<1>5. CASE readable[e.stream] = "live" /\ e.kind # "data"
    <2>1. TakeTerminal(e)
        BY <1>2, <1>5 DEF Deliver, TakeTerminal
    <2> QED BY <2>1 DEF e
<1> QED BY <1>3, <1>4, <1>5

-----------------------------------------------------------------------------
(* Type correctness, action by action. *)

LEMMA TypeSource ==
    ASSUME TypeOK, NEW s \in Streams, GetStream(s) \/ ImageToStream(s)
    PROVE  TypeOK'
BY StreamsAssumption DEF TypeOK, GetStream, ImageToStream, javaVars, jsVars

LEMMA TypeReturnToken ==
    ASSUME TypeOK, NEW s \in Streams, ReturnToken(s)
    PROVE  TypeOK'
BY DEF TypeOK, ReturnToken, javaVars, jsVars

LEMMA TypePost ==
    ASSUME TypeOK, NEW s \in Streams, Forward(s) \/ CloseInput(s)
    PROVE  TypeOK'
<1>1. CASE Forward(s)
    <2>1. CASE /\ sent[s] < MaxChunks
               /\ sent' = [sent EXCEPT ![s] = @ + 1]
               /\ Post(s, "data", sent[s] + 1)
               /\ UNCHANGED source
        <3>1. sent[s] + 1 \in 0 .. MaxChunks
            BY <2>1, StreamsAssumption DEF TypeOK
        <3>2. channel' \in Seq(Events)
            BY <2>1, <3>1, PostAppends DEF Kinds
        <3> QED BY <1>1, <2>1, <3>1, <3>2 DEF TypeOK, Forward, jsVars
    <2>2. CASE /\ s \notin Images
               /\ \E kind \in {"end", "error"} : Post(s, kind, 0)
               /\ source' = [source EXCEPT ![s] = "closing"]
               /\ UNCHANGED sent
        <3>1. PICK kind \in {"end", "error"} : Post(s, kind, 0)
            BY <2>2
        <3>2. kind \in Kinds /\ 0 \in 0 .. MaxChunks
            BY StreamsAssumption DEF Kinds
        <3>3. channel' \in Seq(Events)
            BY <3>1, <3>2, PostAppends
        <3> QED BY <1>1, <2>2, <3>3 DEF TypeOK, Forward, jsVars
    <2> QED BY <1>1, <2>1, <2>2 DEF Forward
<1>2. CASE CloseInput(s)
    <2> "error" \in Kinds /\ 0 \in 0 .. MaxChunks
        BY StreamsAssumption DEF Kinds
    <2>1. channel' \in Seq(Events)
        <3>1. CASE Post(s, "error", 0)
            BY <3>1, PostAppends
        <3> QED BY <1>2, <3>1 DEF TypeOK, CloseInput
    <2> QED BY <1>2, <2>1 DEF TypeOK, CloseInput, jsVars
<1> QED BY <1>1, <1>2

LEMMA TypeTokens ==
    ASSUME TypeOK, ResolveToken \/ \E s \in Streams : CreateStream(s)
    PROVE  TypeOK'
<1>1. CASE ResolveToken
    BY <1>1 DEF TypeOK, ResolveToken, javaVars, jsVars
<1>2. ASSUME NEW s \in Streams, CreateStream(s) PROVE TypeOK'
    BY <1>2 DEF TypeOK, CreateStream, javaVars, jsVars
<1> QED BY <1>1, <1>2

LEMMA TypeReceive ==
    ASSUME TypeOK, Receive, \A s \in Streams : ChunksInOrder(s)
    PROVE  TypeOK'
<1> DEFINE e == channel[1]
<1>1. /\ e \in Events /\ Head(channel) = e /\ 1 \in 1 .. Len(channel)
      /\ channel' \in Seq(Events)
    BY ReceiveTail
<1>2. ASSUME e.kind = "data" PROVE e.chunk \in 1 .. MaxChunks
    <2>1. e.stream \in Streams /\ e.chunk \in 0 .. MaxChunks
        BY <1>1 DEF Events
    <2>2. Seen(e.stream) \in Nat
        BY <2>1 DEF TypeOK, Seen
    <2>3. Seen(e.stream) < e.chunk
        BY <1>1, <1>2, <2>1 DEF ChunksInOrder, IsData
    <2> QED BY <2>1, <2>2, <2>3, StreamsAssumption
<1>3. e.stream \in Streams /\ e.kind \in Kinds
    BY <1>1 DEF Events
<1> HIDE DEF e
<1>4. TakeChunk(e) \/ TakeTerminal(e) \/ Ignore(e)
    BY ReceiveCases DEF e
<1>5. got' \in [Streams -> Seq(1 .. MaxChunks)]
    <2>1. got[e.stream] \in Seq(1 .. MaxChunks)
        BY <1>3 DEF TypeOK
    <2>2. e.kind = "data" => Append(got[e.stream], e.chunk) \in Seq(1 .. MaxChunks)
        BY <1>2, <2>1
    <2> QED BY <1>3, <1>4, <2>2 DEF TypeOK, TakeChunk, TakeTerminal, Ignore
<1>6. readable' \in [Streams -> {"absent", "live", "ended", "failed"}]
    BY <1>3, <1>4 DEF TypeOK, TakeChunk, TakeTerminal, Ignore
<1>7. early' \in [Streams -> Nat]
    <2>1. early[e.stream] \in Nat /\ early[e.stream] + 1 \in Nat
        BY <1>3 DEF TypeOK
    <2> QED BY <2>1, <1>3, <1>4 DEF TypeOK, TakeChunk, TakeTerminal, Ignore
<1> QED BY <1>1, <1>5, <1>6, <1>7 DEF TypeOK, Receive, javaVars

-----------------------------------------------------------------------------
(* The steps that leave the channel and the chunks alone. *)

LEMMA ChunksKept ==
    ASSUME NEW q \in Streams, ChunksInOrder(q),
           UNCHANGED <<channel, sent, early, got>>,
           source'[q] \in {"none", "failed", "open"}
               => source[q] \in {"none", "failed", "open"}
    PROVE  ChunksInOrder(q)'
BY DEF ChunksInOrder, IsData, Seen

LEMMA GetStreamStep ==
    ASSUME IInv, NEW s \in Streams, GetStream(s)
    PROVE  IInv'
<1>1. TypeOK'
    BY TypeSource DEF IInv
<1>2. OnlyFrontMissing'
    BY DEF IInv, GetStream, OnlyFrontMissing, jsVars
<1>3. ASSUME NEW q \in Streams
      PROVE  ChunksInOrder(q)' /\ TerminalLast(q)' /\ TokenTravelsOnce(q)'
    <2>1. ChunksInOrder(q) /\ TerminalLast(q) /\ TokenTravelsOnce(q)
        BY DEF IInv
    <2>2. ChunksInOrder(q)'
        BY <2>1, ChunksKept DEF GetStream, jsVars, IInv, TypeOK
    <2>3. TerminalLast(q)'
        BY <2>1 DEF GetStream, jsVars, IInv, TypeOK, TerminalLast, IsData, IsTerminal
    <2>4. TokenTravelsOnce(q)'
        <3>1. UNCHANGED <<returned, tokens, resolved, readable, got>>
            BY DEF GetStream, jsVars
        <3>2. q \in Images => source'[q] = source[q]
            BY DEF GetStream, IInv, TypeOK
        <3> QED BY <2>1, <3>1, <3>2 DEF TokenTravelsOnce
    <2> QED BY <2>2, <2>3, <2>4
<1> QED BY <1>1, <1>2, <1>3 DEF IInv

LEMMA ImageToStreamStep ==
    ASSUME IInv, NEW s \in Streams, ImageToStream(s)
    PROVE  IInv'
<1>1. TypeOK'
    BY TypeSource DEF IInv
<1>2. OnlyFrontMissing'
    BY DEF IInv, ImageToStream, OnlyFrontMissing
<1>3. ASSUME NEW q \in Streams
      PROVE  ChunksInOrder(q)' /\ TerminalLast(q)' /\ TokenTravelsOnce(q)'
    <2>1. ChunksInOrder(q) /\ TerminalLast(q) /\ TokenTravelsOnce(q)
        BY DEF IInv
    <2>2. ChunksInOrder(q)'
        BY <2>1, ChunksKept DEF ImageToStream, IInv, TypeOK
    <2>3. TerminalLast(q)'
        BY <2>1 DEF ImageToStream, IInv, TypeOK, TerminalLast, IsData, IsTerminal
    <2>4. TokenTravelsOnce(q)'
        <3>1. /\ UNCHANGED <<returned, tokens, readable, got>>
              /\ s \in Images /\ source[s] = "none" /\ source'[s] = "open"
              /\ resolved' = resolved \cup {s}
            BY DEF ImageToStream, IInv, TypeOK
        <3>2. q # s => source'[q] = source[q]
            BY DEF ImageToStream, IInv, TypeOK
        <3>3. CASE q = s
            BY <2>1, <3>1, <3>3 DEF TokenTravelsOnce
        <3>4. CASE q # s
            BY <2>1, <3>1, <3>2, <3>4 DEF TokenTravelsOnce
        <3> QED BY <3>3, <3>4
    <2> QED BY <2>2, <2>3, <2>4
<1> QED BY <1>1, <1>2, <1>3 DEF IInv

LEMMA ReturnTokenStep ==
    ASSUME IInv, NEW s \in Streams, ReturnToken(s)
    PROVE  IInv'
<1>1. TypeOK'
    BY TypeReturnToken DEF IInv
<1>2. OnlyFrontMissing'
    BY DEF IInv, ReturnToken, OnlyFrontMissing, jsVars
<1>3. /\ Len(tokens') = Len(tokens) + 1 /\ Len(tokens) \in Nat
      /\ \A i \in 1 .. Len(tokens) : tokens'[i] = tokens[i]
      /\ tokens'[Len(tokens) + 1] = s
    BY DEF IInv, TypeOK, ReturnToken
<1>4. ASSUME NEW q \in Streams
      PROVE  ChunksInOrder(q)' /\ TerminalLast(q)' /\ TokenTravelsOnce(q)'
    <2>1. ChunksInOrder(q) /\ TerminalLast(q) /\ TokenTravelsOnce(q)
        BY DEF IInv
    <2>2. ChunksInOrder(q)'
        BY <2>1, ChunksKept DEF ReturnToken, jsVars
    <2>3. TerminalLast(q)'
        BY <2>1 DEF ReturnToken, jsVars, TerminalLast, IsData, IsTerminal
    <2>4. TokenTravelsOnce(q)'
        BY <2>1, <1>3 DEF ReturnToken, jsVars, TokenTravelsOnce
    <2> QED BY <2>2, <2>3, <2>4
<1> QED BY <1>1, <1>2, <1>4 DEF IInv

LEMMA ResolveTokenStep ==
    ASSUME IInv, ResolveToken
    PROVE  IInv'
<1>1. TypeOK'
    BY TypeTokens DEF IInv
<1>2. OnlyFrontMissing'
    BY DEF IInv, ResolveToken, OnlyFrontMissing
<1>3. /\ Len(tokens') = Len(tokens) - 1 /\ Len(tokens) \in Nat /\ Len(tokens) >= 1
      /\ \A i \in 1 .. Len(tokens') : tokens'[i] = tokens[i + 1]
      /\ resolved' = resolved \cup {tokens[1]}
    BY DEF IInv, TypeOK, ResolveToken
<1>4. ASSUME NEW q \in Streams
      PROVE  ChunksInOrder(q)' /\ TerminalLast(q)' /\ TokenTravelsOnce(q)'
    <2>1. ChunksInOrder(q) /\ TerminalLast(q) /\ TokenTravelsOnce(q)
        BY DEF IInv
    <2>2. ChunksInOrder(q)'
        BY <2>1, ChunksKept DEF ResolveToken, javaVars
    <2>3. TerminalLast(q)'
        BY <2>1 DEF ResolveToken, javaVars, TerminalLast, IsData, IsTerminal
    <2>4. TokenTravelsOnce(q)'
        BY <2>1, <1>3 DEF ResolveToken, javaVars, TokenTravelsOnce
    <2> QED BY <2>2, <2>3, <2>4
<1> QED BY <1>1, <1>2, <1>4 DEF IInv

LEMMA CreateStreamStep ==
    ASSUME IInv, NEW s \in Streams, CreateStream(s)
    PROVE  IInv'
<1>1. TypeOK'
    BY TypeTokens DEF IInv
<1>2. OnlyFrontMissing'
    BY DEF IInv, CreateStream, OnlyFrontMissing
<1>3. ASSUME NEW q \in Streams
      PROVE  ChunksInOrder(q)' /\ TerminalLast(q)' /\ TokenTravelsOnce(q)'
    <2>1. ChunksInOrder(q) /\ TerminalLast(q) /\ TokenTravelsOnce(q)
        BY DEF IInv
    <2>2. ChunksInOrder(q)'
        BY <2>1, ChunksKept DEF CreateStream, javaVars
    <2>3. TerminalLast(q)'
        BY <2>1 DEF CreateStream, javaVars, IInv, TypeOK, TerminalLast, IsData, IsTerminal
    <2>4. TokenTravelsOnce(q)'
        <3>1. CASE q = s
            BY <2>1, <3>1 DEF CreateStream, javaVars, IInv, TypeOK, TokenTravelsOnce
        <3>2. CASE q # s
            <4>1. readable'[q] = readable[q] /\ (q \in resolved' <=> q \in resolved)
                BY <3>2 DEF CreateStream, IInv, TypeOK
            <4> QED BY <2>1, <4>1 DEF CreateStream, javaVars, TokenTravelsOnce
        <3> QED BY <3>1, <3>2
    <2> QED BY <2>2, <2>3, <2>4
<1> QED BY <1>1, <1>2, <1>3 DEF IInv

-----------------------------------------------------------------------------
(* The steps of a pool thread. *)

LEMMA PushDataStep ==
    ASSUME IInv, NEW s \in Streams, source[s] = "open", sent[s] < MaxChunks,
           sent' = [sent EXCEPT ![s] = @ + 1],
           Post(s, "data", sent[s] + 1),
           UNCHANGED <<source, returned, tokens, jsVars>>
    PROVE  IInv'
<1> DEFINE n == Len(channel)
<1>1. /\ n \in Nat /\ Len(channel') = n + 1
      /\ \A i \in 1 .. n : channel'[i] = channel[i]
      /\ channel'[n + 1].stream = s
      /\ channel'[n + 1].kind = "data"
      /\ channel'[n + 1].chunk = sent[s] + 1
      /\ channel' \in Seq(Events)
    <2>1. sent[s] + 1 \in 0 .. MaxChunks
        BY StreamsAssumption DEF IInv, TypeOK
    <2>2. "data" \in Kinds
        BY DEF Kinds
    <2>3. /\ Len(channel') = n + 1 /\ n \in Nat /\ channel' \in Seq(Events)
          /\ \A i \in 1 .. n : channel'[i] = channel[i]
          /\ channel'[n + 1] = [stream |-> s, kind |-> "data", chunk |-> sent[s] + 1]
        BY <2>1, <2>2, PostAppends DEF IInv
    <2> QED BY <2>3
<1> HIDE DEF n
<1>2. TypeOK'
    <2>1. sent[s] + 1 \in 0 .. MaxChunks
        BY StreamsAssumption DEF IInv, TypeOK
    <2> QED BY <1>1, <2>1 DEF IInv, TypeOK, jsVars
<1>3. OnlyFrontMissing'
    BY DEF IInv, OnlyFrontMissing, jsVars
<1>4. ASSUME NEW q \in Streams
      PROVE  ChunksInOrder(q)' /\ TerminalLast(q)' /\ TokenTravelsOnce(q)'
    <2>1. ChunksInOrder(q) /\ TerminalLast(q) /\ TokenTravelsOnce(q)
        BY DEF IInv
    <2>2. ChunksInOrder(q)'
        <3>1. /\ Seen(q)' = Seen(q) /\ Seen(q) \in Nat
              /\ sent[q] \in Nat /\ sent'[q] = IF q = s THEN sent[q] + 1 ELSE sent[q]
              /\ got'[q] = got[q] /\ source'[q] = source[q]
            BY StreamsAssumption DEF Seen, jsVars, IInv, TypeOK
        <3>2. \A i \in 1 .. n : channel[i].chunk \in Nat
            BY ChannelEvents DEF n, IInv
        <3>3. \A i \in 1 .. n + 1 : i \in 1 .. n \/ i = n + 1
            BY <1>1
        <3>4. \A i, j \in 1 .. n + 1 :
                  i < j /\ IsData(i, q)' /\ IsData(j, q)'
                      => channel'[i].chunk < channel'[j].chunk
            BY <1>1, <2>1, <3>1, <3>2, <3>3 DEF ChunksInOrder, IsData, n
        <3>5. \A i \in 1 .. n + 1 :
                  IsData(i, q)' => Seen(q) < channel'[i].chunk /\ channel'[i].chunk <= sent'[q]
            BY <1>1, <2>1, <3>1, <3>2, <3>3 DEF ChunksInOrder, IsData, n
        <3>6. ASSUME NEW c \in Seen(q) + 1 .. sent'[q]
              PROVE  \E i \in 1 .. n + 1 : IsData(i, q)' /\ channel'[i].chunk = c
            <4>1. CASE c \in Seen(q) + 1 .. sent[q]
                <5>1. PICK i \in 1 .. n : IsData(i, q) /\ channel[i].chunk = c
                    BY <2>1, <4>1 DEF ChunksInOrder, n
                <5> QED BY <5>1, <1>1 DEF IsData
            <4>2. CASE q = s /\ c = sent[s] + 1
                BY <4>2, <1>1 DEF IsData
            <4> QED BY <4>1, <4>2, <3>1
        <3> QED BY <1>1, <2>1, <3>1, <3>4, <3>5, <3>6 DEF ChunksInOrder
    <2>3. TerminalLast(q)'
        BY <1>1, <2>1 DEF jsVars, TerminalLast, IsData, IsTerminal, n
    <2>4. TokenTravelsOnce(q)'
        BY <2>1 DEF jsVars, TokenTravelsOnce
    <2> QED BY <2>2, <2>3, <2>4
<1> QED BY <1>2, <1>3, <1>4 DEF IInv

LEMMA PushTerminalStep ==
    ASSUME IInv, NEW s \in Streams, NEW kind \in {"end", "error"},
           Post(s, kind, 0),
           \/ source[s] = "open" /\ source' = [source EXCEPT ![s] = "closing"]
           \/ source[s] = "closing" /\ source' = [source EXCEPT ![s] = "closed"],
           UNCHANGED <<returned, sent, tokens, jsVars>>
    PROVE  IInv'
<1> DEFINE n == Len(channel)
<1>1. /\ n \in Nat /\ Len(channel') = n + 1
      /\ \A i \in 1 .. n : channel'[i] = channel[i]
      /\ channel'[n + 1].stream = s
      /\ channel'[n + 1].kind # "data"
      /\ channel' \in Seq(Events)
    <2>1. kind \in Kinds /\ 0 \in 0 .. MaxChunks
        BY StreamsAssumption DEF Kinds
    <2>2. /\ Len(channel') = n + 1 /\ n \in Nat /\ channel' \in Seq(Events)
          /\ \A i \in 1 .. n : channel'[i] = channel[i]
          /\ channel'[n + 1] = [stream |-> s, kind |-> kind, chunk |-> 0]
        BY <2>1, PostAppends DEF IInv
    <2> QED BY <2>2
<1> HIDE DEF n
<1>2. TypeOK'
    BY <1>1 DEF IInv, TypeOK, jsVars
<1>3. OnlyFrontMissing'
    BY DEF IInv, OnlyFrontMissing, jsVars
<1>4. ASSUME NEW q \in Streams
      PROVE  ChunksInOrder(q)' /\ TerminalLast(q)' /\ TokenTravelsOnce(q)'
    <2>1. ChunksInOrder(q) /\ TerminalLast(q) /\ TokenTravelsOnce(q)
        BY DEF IInv
    <2> /\ source'[q] \in {"none", "failed", "open"} =>
              source[q] \in {"none", "failed", "open"} /\ q # s
        /\ source'[q] = "none" => source[q] = "none"
        BY DEF IInv, TypeOK
    <2>2. ChunksInOrder(q)'
        <3>1. Seen(q)' = Seen(q) /\ got'[q] = got[q] /\ sent'[q] = sent[q]
            BY DEF Seen, jsVars
        <3>2. \A i \in 1 .. n + 1 :
                  IsData(i, q)' => i \in 1 .. n /\ IsData(i, q)
            BY <1>1 DEF IsData
        <3>3. \A i \in 1 .. n : IsData(i, q) => i \in 1 .. n + 1 /\ IsData(i, q)'
            BY <1>1 DEF IsData
        <3> QED BY <1>1, <2>1, <3>1, <3>2, <3>3 DEF ChunksInOrder, n
    <2>3. TerminalLast(q)'
        BY <1>1, <2>1 DEF jsVars, TerminalLast, IsData, IsTerminal, n
    <2>4. TokenTravelsOnce(q)'
        BY <2>1 DEF jsVars, TokenTravelsOnce
    <2> QED BY <2>2, <2>3, <2>4
<1> QED BY <1>2, <1>3, <1>4 DEF IInv

LEMMA ForwardStep ==
    ASSUME IInv, NEW s \in Streams, Forward(s)
    PROVE  IInv'
BY PushDataStep, PushTerminalStep DEF Forward

LEMMA CloseInputStep ==
    ASSUME IInv, NEW s \in Streams, CloseInput(s)
    PROVE  IInv'
<1>1. CASE Post(s, "error", 0)
    BY <1>1, PushTerminalStep DEF CloseInput
<1>2. CASE UNCHANGED channel
    <2>1. TypeOK'
        BY <1>2, TypePost DEF IInv
    <2>2. OnlyFrontMissing'
        BY DEF IInv, OnlyFrontMissing, CloseInput, jsVars
    <2>3. ASSUME NEW q \in Streams
          PROVE  ChunksInOrder(q)' /\ TerminalLast(q)' /\ TokenTravelsOnce(q)'
        <3>1. ChunksInOrder(q) /\ TerminalLast(q) /\ TokenTravelsOnce(q)
            BY DEF IInv
        <3>2. ChunksInOrder(q)'
            BY <1>2, <3>1, ChunksKept DEF CloseInput, jsVars, IInv, TypeOK
        <3>3. TerminalLast(q)'
            BY <1>2, <3>1 DEF CloseInput, jsVars, IInv, TypeOK, TerminalLast, IsData, IsTerminal
        <3>4. TokenTravelsOnce(q)'
            BY <1>2, <3>1 DEF CloseInput, jsVars, IInv, TypeOK, TokenTravelsOnce
        <3> QED BY <3>2, <3>3, <3>4
    <2> QED BY <2>1, <2>2, <2>3 DEF IInv
<1> QED BY <1>1, <1>2 DEF CloseInput

-----------------------------------------------------------------------------
(* The step of the event loop. *)

(* The oldest chunk of a stream is the next one to be seen. *)
LEMMA NextChunk ==
    ASSUME TypeOK, NEW q \in Streams, ChunksInOrder(q),
           1 \in 1 .. Len(channel), IsData(1, q)
    PROVE  channel[1].chunk = Seen(q) + 1
<1>1. /\ Seen(q) \in Nat /\ sent[q] \in Nat
      /\ \A i \in 1 .. Len(channel) : channel[i].chunk \in Nat
    <2>1. got[q] \in Seq(1 .. MaxChunks) /\ early[q] \in Nat /\ sent[q] \in 0 .. MaxChunks
        BY DEF TypeOK
    <2>2. Seen(q) \in Nat
        BY <2>1 DEF Seen
    <2> QED BY <2>1, <2>2, ChannelEvents, StreamsAssumption
<1>2. Seen(q) < channel[1].chunk /\ channel[1].chunk <= sent[q]
    BY DEF ChunksInOrder
<1>3. PICK i \in 1 .. Len(channel) : IsData(i, q) /\ channel[i].chunk = Seen(q) + 1
    <2>1. channel[1].chunk \in Nat
        BY <1>1
    <2>2. Seen(q) + 1 \in Seen(q) + 1 .. sent[q]
        BY <1>1, <1>2, <2>1
    <2> QED BY <2>2 DEF ChunksInOrder
<1>4. i # 1 => channel[1].chunk < channel[i].chunk
    BY <1>3 DEF ChunksInOrder
<1> QED BY <1>1, <1>2, <1>3, <1>4

LEMMA ReceiveStep ==
    ASSUME IInv, Receive
    PROVE  IInv'
<1> DEFINE e == channel[1]
           n == Len(channel)
<1>1. /\ n \in Nat /\ n >= 1 /\ Len(channel') = n - 1
      /\ \A i \in 1 .. n - 1 : channel'[i] = channel[i + 1]
      /\ \A i \in 1 .. n - 1 : i + 1 \in 1 .. n
      /\ \A i \in 1 .. n : i = 1 \/ (i - 1 \in 1 .. n - 1 /\ (i - 1) + 1 = i)
      /\ \A i \in 1 .. n : channel[i].chunk \in Nat
      /\ e.stream \in Streams
    <2>1. \A i \in 1 .. n : channel[i] \in Events
        BY DEF IInv, TypeOK
    <2>2. \A i \in 1 .. n : channel[i].chunk \in Nat /\ channel[i].stream \in Streams
        BY <2>1, StreamsAssumption DEF Events
    <2>3. /\ n \in Nat /\ n >= 1 /\ Len(channel') = n - 1
          /\ \A i \in 1 .. n - 1 : channel'[i] = channel[i + 1]
        BY ReceiveTail DEF IInv
    <2> QED BY <2>2, <2>3
<1>2. TakeChunk(e) \/ TakeTerminal(e) \/ Ignore(e)
    BY ReceiveCases DEF IInv
<1>3. UNCHANGED <<javaVars, tokens, resolved>>
    BY DEF Receive
<1>4. ASSUME NEW q \in Streams
      PROVE  /\ \A i \in 1 .. n - 1 : IsData(i, q)' <=> IsData(i + 1, q)
             /\ \A i \in 1 .. n - 1 : IsTerminal(i, q)' <=> IsTerminal(i + 1, q)
    BY <1>1 DEF IsData, IsTerminal
<1>5. TypeOK'
    BY TypeReceive DEF IInv
<1>9. ASSUME NEW q \in Streams, TerminalLast(q)
      PROVE  /\ source'[q] \in {"none", "failed", "open"} =>
                    \A i \in 1 .. n - 1 : ~(IsTerminal(i, q)')
             /\ \A i, j \in 1 .. n - 1 : i < j /\ IsTerminal(i, q)' => ~(IsData(j, q)')
             /\ readable[q] \in {"ended", "failed"} => \A i \in 1 .. n - 1 : ~(IsData(i, q)')
    <2>1. source' = source
        BY <1>3 DEF javaVars
    <2>2. ASSUME NEW i \in 1 .. n - 1, NEW j \in 1 .. n - 1, i < j, IsTerminal(i, q)'
          PROVE  ~(IsData(j, q)')
        <3>1. i + 1 \in 1 .. n /\ j + 1 \in 1 .. n /\ i + 1 < j + 1 /\ IsTerminal(i + 1, q)
            BY <1>1, <1>4, <2>2
        <3> QED BY <1>4, <1>9, <3>1 DEF TerminalLast
    <2> QED BY <1>1, <1>4, <1>9, <2>1, <2>2 DEF TerminalLast
<1> HIDE DEF e, n
<1>6. ASSUME NEW q \in Streams, q # e.stream
      PROVE  ChunksInOrder(q)' /\ TerminalLast(q)' /\ TokenTravelsOnce(q)'
    <2>1. ChunksInOrder(q) /\ TerminalLast(q) /\ TokenTravelsOnce(q)
        BY DEF IInv
    <2>2. /\ got'[q] = got[q] /\ early'[q] = early[q] /\ readable'[q] = readable[q]
          /\ Seen(q)' = Seen(q)
        BY <1>1, <1>2, <1>6 DEF IInv, TypeOK, TakeChunk, TakeTerminal, Ignore, Seen
    <2>3. ~IsData(1, q) /\ ~IsTerminal(1, q)
        BY <1>6 DEF IsData, IsTerminal, e
    <2>4. ChunksInOrder(q)'
        <3>1. ASSUME NEW c \in Seen(q) + 1 .. sent[q]
              PROVE  \E i \in 1 .. n - 1 : IsData(i, q)' /\ channel'[i].chunk = c
            <4>1. PICK i \in 1 .. n : IsData(i, q) /\ channel[i].chunk = c
                BY <2>1 DEF ChunksInOrder, n
            <4>2. i - 1 \in 1 .. n - 1 /\ (i - 1) + 1 = i
                BY <1>1, <2>3, <4>1
            <4> QED BY <1>1, <1>4, <4>1, <4>2
        <3>2. ASSUME NEW i \in 1 .. n - 1, NEW j \in 1 .. n - 1, i < j,
                     IsData(i, q)', IsData(j, q)'
              PROVE  channel'[i].chunk < channel'[j].chunk
            <4>1. /\ i + 1 \in 1 .. n /\ j + 1 \in 1 .. n /\ i + 1 < j + 1
                  /\ IsData(i + 1, q) /\ IsData(j + 1, q)
                BY <1>1, <1>4, <3>2
            <4> QED BY <1>1, <2>1, <4>1 DEF ChunksInOrder, n
        <3>3. \A i \in 1 .. n - 1 :
                  IsData(i, q)' => Seen(q) < channel'[i].chunk /\ channel'[i].chunk <= sent[q]
            BY <1>1, <1>4, <2>1 DEF ChunksInOrder, n
        <3> QED BY <1>1, <1>3, <2>1, <2>2, <3>1, <3>2, <3>3 DEF ChunksInOrder, javaVars
    <2>5. TerminalLast(q)'
        BY <1>1, <1>3, <1>9, <2>1, <2>2 DEF TerminalLast, javaVars
    <2>6. TokenTravelsOnce(q)'
        BY <1>3, <2>1, <2>2 DEF TokenTravelsOnce, javaVars
    <2> QED BY <2>4, <2>5, <2>6
<1>7. ASSUME NEW q \in Streams, q = e.stream
      PROVE  /\ ChunksInOrder(q)' /\ TerminalLast(q)' /\ TokenTravelsOnce(q)'
             /\ \A i \in 1 .. Len(got'[q]) : got'[q][i] = early'[q] + i
    <2>1. /\ ChunksInOrder(q) /\ TerminalLast(q) /\ TokenTravelsOnce(q)
          /\ \A i \in 1 .. Len(got[q]) : got[q][i] = early[q] + i
        BY DEF IInv, OnlyFrontMissing
    <2>2. /\ Seen(q) \in Nat /\ sent[q] \in Nat /\ early[q] \in Nat
          /\ got[q] \in Seq(1 .. MaxChunks) /\ Len(got[q]) \in Nat
          /\ 1 \in 1 .. n
          /\ readable[q] \in {"absent", "live", "ended", "failed"}
        BY <1>1, StreamsAssumption DEF IInv, TypeOK, Seen
    <2>3. CASE IsData(1, q)
        <3>1. e.chunk = Seen(q) + 1 /\ e.kind = "data"
            BY <1>7, <2>1, <2>2, <2>3, NextChunk DEF IInv, e, n, IsData
        <3>2. readable[q] \in {"absent", "live"}
            BY <2>1, <2>2, <2>3 DEF TerminalLast, n
        <3>3. /\ readable'[q] = readable[q] /\ Seen(q)' = Seen(q) + 1
              /\ \/ /\ readable[q] = "absent" /\ got'[q] = <<>>
                    /\ got[q] = <<>> /\ early'[q] = early[q] + 1
                 \/ /\ got'[q] = Append(got[q], Seen(q) + 1)
                    /\ early'[q] = early[q] /\ readable[q] = "live"
            <4>1. CASE readable[q] = "absent"
                <5>1. got[q] = <<>> /\ Ignore(e)
                    BY <1>2, <1>7, <2>1, <4>1 DEF TokenTravelsOnce, TakeChunk, TakeTerminal
                <5> QED BY <1>7, <2>2, <4>1, <5>1 DEF Ignore, Seen, IInv, TypeOK
            <4>2. CASE readable[q] = "live"
                <5>1. TakeChunk(e)
                    BY <1>2, <1>7, <3>1, <4>2 DEF Ignore, TakeTerminal
                <5>2. got'[q] = Append(got[q], Seen(q) + 1) /\ UNCHANGED <<readable, early>>
                    BY <1>7, <3>1, <5>1 DEF TakeChunk, IInv, TypeOK
                <5>3. Len(got'[q]) = Len(got[q]) + 1
                    BY <2>2, <5>2
                <5> QED BY <2>2, <4>2, <5>2, <5>3 DEF Seen
            <4> QED BY <3>2, <4>1, <4>2
        <3>4. \A i \in 1 .. Len(got'[q]) : got'[q][i] = early'[q] + i
            <4>1. CASE got'[q] = <<>>
                BY <4>1
            <4>2. CASE got'[q] = Append(got[q], Seen(q) + 1) /\ early'[q] = early[q]
                <5>1. /\ Len(got'[q]) = Len(got[q]) + 1
                      /\ \A i \in 1 .. Len(got[q]) : got'[q][i] = got[q][i]
                      /\ got'[q][Len(got[q]) + 1] = early[q] + (Len(got[q]) + 1)
                    BY <2>2, <4>2 DEF Seen
                <5> QED BY <2>1, <2>2, <4>2, <5>1
            <4> QED BY <3>3, <4>1, <4>2
        <3>5. ChunksInOrder(q)'
            <4>1. ASSUME NEW c \in Seen(q) + 2 .. sent[q]
                  PROVE  \E i \in 1 .. n - 1 : IsData(i, q)' /\ channel'[i].chunk = c
                <5>1. PICK i \in 1 .. n : IsData(i, q) /\ channel[i].chunk = c
                    BY <2>1, <2>2 DEF ChunksInOrder, n
                <5>2. i # 1
                    BY <2>2, <3>1, <5>1 DEF e
                <5>3. i - 1 \in 1 .. n - 1 /\ (i - 1) + 1 = i
                    BY <1>1, <5>2
                <5> QED BY <1>1, <1>4, <5>1, <5>3
            <4>2. ASSUME NEW i \in 1 .. n - 1, NEW j \in 1 .. n - 1, i < j,
                         IsData(i, q)', IsData(j, q)'
                  PROVE  channel'[i].chunk < channel'[j].chunk
                <5>1. /\ i + 1 \in 1 .. n /\ j + 1 \in 1 .. n /\ i + 1 < j + 1
                      /\ IsData(i + 1, q) /\ IsData(j + 1, q)
                    BY <1>1, <1>4, <4>2
                <5> QED BY <1>1, <2>1, <5>1 DEF ChunksInOrder, n
            <4>3. ASSUME NEW i \in 1 .. n - 1, IsData(i, q)'
                  PROVE  Seen(q) + 1 < channel'[i].chunk /\ channel'[i].chunk <= sent[q]
                <5>1. IsData(i + 1, q) /\ channel'[i].chunk = channel[i + 1].chunk
                    BY <1>1, <1>4, <4>3
                <5>2. i + 1 \in 1 .. n /\ 1 < i + 1
                    BY <1>1
                <5> QED BY <2>1, <2>2, <2>3, <3>1, <5>1, <5>2 DEF ChunksInOrder, n, e
            <4>4. Seen(q) + 1 <= sent[q]
                BY <2>1, <2>2, <2>3, <3>1 DEF ChunksInOrder, n, e
            <4> QED BY <1>1, <1>3, <2>2, <3>3, <4>1, <4>2, <4>3, <4>4
                    DEF ChunksInOrder, javaVars
        <3>6. TerminalLast(q)'
            BY <1>1, <1>3, <1>9, <2>1, <3>2, <3>3 DEF TerminalLast, javaVars
        <3>7. TokenTravelsOnce(q)'
            BY <1>3, <2>1, <3>3 DEF TokenTravelsOnce, javaVars
        <3> QED BY <3>4, <3>5, <3>6, <3>7
    <2>4. CASE ~IsData(1, q)
        <3>1. IsTerminal(1, q) /\ e.kind # "data"
            BY <1>7, <2>4 DEF e, IsData, IsTerminal
        <3>2. /\ source[q] \notin {"none", "failed", "open"}
              /\ \A j \in 1 .. n : ~IsData(j, q)
            BY <1>1, <2>1, <2>2, <2>4, <3>1 DEF TerminalLast, n
        <3>3. /\ got'[q] = got[q]
              /\ \/ early'[q] = early[q] /\ readable'[q] \in {readable[q], "ended", "failed"}
                    /\ readable[q] # "absent"
                 \/ /\ early'[q] = early[q] + 1 /\ got[q] = <<>>
                    /\ readable[q] = "absent" /\ readable'[q] = "absent"
            <4>1. CASE TakeTerminal(e)
                BY <1>7, <4>1 DEF TakeTerminal, IInv, TypeOK
            <4>2. CASE Ignore(e)
                BY <1>7, <2>1, <4>2 DEF Ignore, TokenTravelsOnce, IInv, TypeOK
            <4> QED BY <1>2, <3>1, <4>1, <4>2 DEF TakeChunk
        <3>4. /\ Seen(q)' \in {Seen(q), Seen(q) + 1}
              /\ got'[q] # <<>> => Seen(q)' = Seen(q)
            BY <2>2, <3>3 DEF Seen
        <3>5. \A i \in 1 .. n - 1 : ~(IsData(i, q)')
            BY <1>1, <1>4, <3>2
        <3>6. \A c \in Seen(q)' + 1 .. sent[q] : FALSE
            <4>1. \A c \in Seen(q) + 1 .. sent[q] : FALSE
                BY <2>1, <3>2 DEF ChunksInOrder, n
            <4> QED BY <2>2, <3>4, <4>1
        <3>7. ChunksInOrder(q)'
            BY <1>1, <1>3, <2>1, <3>2, <3>3, <3>4, <3>5, <3>6 DEF ChunksInOrder, javaVars
        <3>8. TerminalLast(q)'
            BY <1>1, <1>3, <1>9, <2>1, <3>2, <3>3, <3>5 DEF TerminalLast, javaVars
        <3>9. TokenTravelsOnce(q)'
            BY <1>3, <2>1, <3>3 DEF TokenTravelsOnce, javaVars
        <3>10. \A i \in 1 .. Len(got'[q]) : got'[q][i] = early'[q] + i
            <4>1. CASE got[q] = <<>>
                BY <4>1, <3>3
            <4> QED BY <2>1, <3>3, <4>1
        <3> QED BY <3>7, <3>8, <3>9, <3>10
    <2> QED BY <2>3, <2>4
<1>8. OnlyFrontMissing'
    <2> SUFFICES ASSUME NEW q \in Streams
                 PROVE  \A i \in 1 .. Len(got'[q]) : got'[q][i] = early'[q] + i
        BY DEF OnlyFrontMissing
    <2>1. CASE q # e.stream
        <3>1. got'[q] = got[q] /\ early'[q] = early[q]
            BY <1>1, <1>2, <2>1 DEF IInv, TypeOK, TakeChunk, TakeTerminal, Ignore
        <3> QED BY <3>1 DEF IInv, OnlyFrontMissing
    <2>2. CASE q = e.stream
        BY <1>7, <2>2
    <2> QED BY <2>1, <2>2
<1> QED BY <1>5, <1>6, <1>7, <1>8 DEF IInv

-----------------------------------------------------------------------------
(* The theorems *)

LEMMA StepStreams == IInv /\ [Next]_vars => IInv'
<1> SUFFICES ASSUME IInv, [Next]_vars PROVE IInv'
    OBVIOUS
<1>1. ASSUME NEW s \in Streams, GetStream(s) PROVE IInv'
    BY <1>1, GetStreamStep
<1>2. ASSUME NEW s \in Streams, ReturnToken(s) PROVE IInv'
    BY <1>2, ReturnTokenStep
<1>3. ASSUME NEW s \in Streams, ImageToStream(s) PROVE IInv'
    BY <1>3, ImageToStreamStep
<1>4. ASSUME NEW s \in Streams, Forward(s) PROVE IInv'
    BY <1>4, ForwardStep
<1>5. ASSUME NEW s \in Streams, CloseInput(s) PROVE IInv'
    BY <1>5, CloseInputStep
<1>6. ASSUME NEW s \in Streams, CreateStream(s) PROVE IInv'
    BY <1>6, CreateStreamStep
<1>7. CASE ResolveToken
    BY <1>7, ResolveTokenStep
<1>8. CASE Receive
    BY <1>8, ReceiveStep
<1>9. CASE UNCHANGED vars
    <2>1. UNCHANGED <<source, returned, sent, channel, tokens, resolved, readable, got, early>>
        BY <1>9 DEF vars, javaVars, jsVars
    <2> QED BY <2>1 DEF IInv, TypeOK, OnlyFrontMissing, ChunksInOrder, TerminalLast,
                    TokenTravelsOnce, Seen, IsData, IsTerminal
<1> QED BY <1>1, <1>2, <1>3, <1>4, <1>5, <1>6, <1>7, <1>8, <1>9 DEF Next

(* Whatever the interleaving of the two queues, what reaches a Readable is a
   run of consecutive chunks, and the channel holds the rest in order. *)
THEOREM InvariantHolds == Spec => []IInv
BY InitStreams, StepStreams, PTL DEF Spec

(* A Readable that has ended and missed nothing has all that was pushed. *)
THEOREM CompleteUnlessOvertakenHolds == Spec => []CompleteUnlessOvertaken
<1>1. IInv => CompleteUnlessOvertaken
    <2> SUFFICES ASSUME IInv, NEW s \in Streams, readable[s] = "ended", early[s] = 0
                 PROVE  Len(got[s]) = sent[s] /\ source[s] \in {"closing", "closed"}
        BY DEF CompleteUnlessOvertaken
    <2>1. ChunksInOrder(s) /\ TerminalLast(s)
        BY DEF IInv
    <2>2. Seen(s) = Len(got[s]) /\ Len(got[s]) \in Nat /\ sent[s] \in Nat
        BY StreamsAssumption DEF IInv, TypeOK, Seen
    <2>3. \A c \in Seen(s) + 1 .. sent[s] : FALSE
        BY <2>1 DEF ChunksInOrder, TerminalLast
    <2>4. got[s] # <<>> => Len(got[s]) <= sent[s]
        BY <2>1, <2>2 DEF ChunksInOrder
    <2>5. got[s] = <<>> => Len(got[s]) = 0
        OBVIOUS
    <2>6. source[s] \in {"closing", "closed"}
        BY <2>1 DEF TerminalLast, IInv, TypeOK
    <2>7. Len(got[s]) <= sent[s]
        BY <2>2, <2>4, <2>5
    <2>8. ~(Len(got[s]) < sent[s])
        <3>1. Len(got[s]) < sent[s] => sent[s] \in Seen(s) + 1 .. sent[s]
            BY <2>2
        <3> QED BY <2>3, <3>1
    <2> QED BY <2>2, <2>6, <2>7, <2>8
<1> QED BY <1>1, InvariantHolds, PTL

(* A Readable that has ended or failed is never touched again. *)
THEOREM TerminalForGoodHolds == Spec => TerminalForGood
<1> DEFINE Untouched == \A s \in Streams : readable[s] \in {"ended", "failed"} =>
                            readable'[s] = readable[s] /\ got'[s] = got[s]
<1>1. IInv /\ [Next]_vars => [Untouched]_vars
    <2> SUFFICES ASSUME IInv, Next, NEW s \in Streams, readable[s] \in {"ended", "failed"}
                 PROVE  readable'[s] = readable[s] /\ got'[s] = got[s]
        OBVIOUS
    <2>1. CASE Receive
        <3>1. /\ TakeChunk(channel[1]) \/ TakeTerminal(channel[1]) \/ Ignore(channel[1])
              /\ channel[1].stream \in Streams
            BY <2>1, ReceiveCases, ReceiveTail DEF IInv, Events
        <3> QED BY <3>1 DEF TakeChunk, TakeTerminal, Ignore, IInv, TypeOK
    <2>2. ASSUME NEW q \in Streams, CreateStream(q)
          PROVE  readable'[s] = readable[s] /\ got'[s] = got[s]
        BY <2>2 DEF CreateStream, IInv, TypeOK, TokenTravelsOnce
    <2>3. CASE UNCHANGED <<readable, got>>
        BY <2>3
    <2> QED BY <2>1, <2>2, <2>3 DEF Next, GetStream, ReturnToken, ImageToStream, Forward,
                                    CloseInput, ResolveToken, javaVars, jsVars
<1> QED BY <1>1, InvariantHolds, PTL DEF Spec, TerminalForGood

(* Every step of the service is a step of Streams or leaves it alone. *)
LEMMA ServiceSteps == [ServiceNext]_serviceVars => [Next]_vars
<1> SUFFICES ASSUME [ServiceNext]_serviceVars PROVE [Next]_vars
    OBVIOUS
<1>1. ASSUME NEW s \in Streams,
             OpenContent(s) \/ GiveToken(s) \/ ForwardNext(s) \/ Finish(s) \/ MakeReadable(s)
      PROVE  Next
    BY <1>1 DEF Next, OpenContent, GiveToken, ForwardNext, Finish, MakeReadable
<1>2. ASSUME NEW s \in Images, StreamImage(s)
      PROVE  Next
    BY <1>2, StreamsAssumption DEF Next, StreamImage
<1>3. ASSUME NEW s \in Images, ConnectPipe(s) \/ CompressBlock(s)
      PROVE  UNCHANGED vars
    BY <1>3 DEF ConnectPipe, CompressBlock
<1>4. CASE StartTask
    BY <1>4 DEF StartTask
<1>5. CASE TakeToken \/ TakeEvent
    BY <1>5 DEF Next, TakeToken, TakeEvent
<1>6. CASE UNCHANGED serviceVars
    BY <1>6 DEF serviceVars
<1> QED BY <1>1, <1>2, <1>3, <1>4, <1>5, <1>6 DEF ServiceNext

(* With the threads and pipes of the pool in place, a stream behaves as
   module Streams says: all of the above holds of the service as well. *)
THEOREM ServiceImplementsStreams == ServiceSpec => Spec
<1>1. ServiceInit => Init
    BY DEF ServiceInit
<1> QED BY <1>1, ServiceSteps, PTL DEF ServiceSpec, Spec

(* So a Readable that ends unovertaken is complete, and ends for good, also
   with a pool of any size underneath. *)
THEOREM ServiceIsSafe ==
    ServiceSpec => [](IInv /\ CompleteUnlessOvertaken) /\ TerminalForGood
BY ServiceImplementsStreams, InvariantHolds, CompleteUnlessOvertakenHolds,
   TerminalForGoodHolds, PTL
-----------------------------------------------------------------------------
(* The pool: a task is appended, started and ended. *)

(* The instance has its own name for the number of elements. *)
LEMMA PoolCardinality == \A S : Pool!Cardinality(S) = Cardinality(S)
BY DEF Pool!Cardinality, Cardinality

LEMMA TaskForms ==
  ASSUME NEW x
  PROVE  /\ x \in Streams \ Images => Pool!Task("content", x) \in Pool!Tasks
         /\ x \in Images => /\ Pool!Task("compress", x) \in Pool!Tasks
                            /\ Pool!Task("forward", x) \in Pool!Tasks
         /\ Pool!Task("content", x) \in Pool!Tasks => x \in Streams \ Images
         /\ Pool!Task("forward", x) \in Pool!Tasks => x \in Images
         /\ Pool!Task("compress", x) \in Pool!Tasks => x \in Images
BY DEF Pool!Task, Pool!Tasks

LEMMA TasksDiffer ==
  ASSUME NEW x, NEW y
  PROVE  /\ Pool!Task("content", x) # Pool!Task("compress", y)
         /\ Pool!Task("content", x) # Pool!Task("forward", y)
         /\ Pool!Task("compress", x) # Pool!Task("forward", y)
         /\ Pool!Task("content", x) = Pool!Task("content", y) => x = y
         /\ Pool!Task("forward", x) = Pool!Task("forward", y) => x = y
         /\ Pool!Task("compress", x) = Pool!Task("compress", y) => x = y
<1>1. \A k, l : Pool!Task(k, x) = Pool!Task(l, y) => k = l /\ x = y
  BY DEF Pool!Task
<1> QED BY <1>1

(* A new task waits; where the others are is not disturbed. *)
LEMMA TaskAppended ==
  ASSUME PoolInv, NEW t \in Pool!Tasks, ~InPool(t),
         queue' = Append(queue, t), running' = running
  PROVE  /\ queue' \in Seq(Pool!Tasks)
         /\ InOnePlace'
         /\ \A u : InPool(u)' <=> InPool(u) \/ u = t
<1>1. queue \in Seq(Pool!Tasks)
  BY DEF PoolInv, Pool!TypeOK
<1>2. /\ queue' \in Seq(Pool!Tasks)
      /\ Len(queue) \in Nat /\ Len(queue') = Len(queue) + 1
      /\ \A i \in 1 .. Len(queue) : queue'[i] = queue[i]
      /\ queue'[Len(queue) + 1] = t
  BY <1>1, AppendPlaces
<1>3. \A i \in 1 .. Len(queue') : i \in 1 .. Len(queue) \/ i = Len(queue) + 1
  BY <1>2
<1>4. /\ \A i \in 1 .. Len(queue) : i \in 1 .. Len(queue')
      /\ Len(queue) + 1 \in 1 .. Len(queue')
  BY <1>2
<1>5. /\ t \notin running
      /\ \A i \in 1 .. Len(queue) : queue[i] # t /\ queue[i] \notin running
      /\ \A i, j \in 1 .. Len(queue) : queue[i] = queue[j] => i = j
  BY DEF PoolInv, InOnePlace, InPool, Waits
<1>6. InOnePlace'
  <2>1. ASSUME NEW i \in 1 .. Len(queue'), NEW j \in 1 .. Len(queue'), queue'[i] = queue'[j]
        PROVE  i = j
    BY <2>1, <1>2, <1>3, <1>5
  <2>2. ASSUME NEW i \in 1 .. Len(queue')
        PROVE  queue'[i] \notin running'
    BY <1>2, <1>3, <1>5
  <2> QED BY <2>1, <2>2 DEF InOnePlace
<1>7. ASSUME NEW u
      PROVE  InPool(u)' <=> InPool(u) \/ u = t
  <2>1. Waits(u)' <=> Waits(u) \/ u = t
    BY <1>2, <1>3, <1>4 DEF Waits
  <2> QED BY <2>1 DEF InPool
<1> QED BY <1>2, <1>6, <1>7

(* A thread that takes the oldest task takes it out of the queue. *)
LEMMA TaskStarted ==
  ASSUME PoolInv, Pool!Start
  PROVE  /\ queue' \in Seq(Pool!Tasks)
         /\ running' \in SUBSET Pool!Tasks /\ IsFiniteSet(running')
         /\ Cardinality(running') <= PoolSize
         /\ InOnePlace'
         /\ \A u : InPool(u)' <=> InPool(u)
<1>1. /\ queue \in Seq(Pool!Tasks) /\ running \in SUBSET Pool!Tasks
      /\ IsFiniteSet(running)
  BY DEF PoolInv, Pool!TypeOK
<1>2. /\ queue # <<>> /\ Cardinality(running) < PoolSize
      /\ running' = running \cup {Head(queue)} /\ queue' = Tail(queue)
  BY PoolCardinality DEF Pool!Start
<1>3. /\ queue' \in Seq(Pool!Tasks) /\ Head(queue) = queue[1] /\ Head(queue) \in Pool!Tasks
      /\ Len(queue) \in Nat \ {0} /\ Len(queue') = Len(queue) - 1
      /\ \A i \in 1 .. Len(queue) - 1 : queue'[i] = queue[i + 1]
      /\ \A i \in 2 .. Len(queue) : i - 1 \in 1 .. Len(queue) - 1 /\ queue'[i - 1] = queue[i]
  BY <1>1, <1>2, TailPlaces
<1>4. /\ IsFiniteSet(running') /\ Cardinality(running') <= PoolSize
  <2>1. Cardinality(running) \in Nat /\ PoolSize \in Nat
    BY <1>1, FS_CardinalityType, StreamServiceAssumption
  <2>2. /\ IsFiniteSet(running')
        /\ Cardinality(running') =
             IF Head(queue) \in running THEN Cardinality(running) ELSE Cardinality(running) + 1
    BY <1>1, <1>2, FS_AddElement
  <2> QED BY <1>2, <2>1, <2>2
<1>5. /\ \A i \in 1 .. Len(queue) : queue[i] \notin running
      /\ \A i, j \in 1 .. Len(queue) : queue[i] = queue[j] => i = j
  BY DEF PoolInv, InOnePlace
<1>6. \A i \in 1 .. Len(queue') : /\ i + 1 \in 2 .. Len(queue) /\ i + 1 \in 1 .. Len(queue)
                                  /\ i \in Nat /\ i + 1 # 1
                                  /\ queue'[i] = queue[i + 1]
  BY <1>3
<1>7. InOnePlace'
  <2>1. 1 \in 1 .. Len(queue)
    BY <1>3
  <2>2. ASSUME NEW i \in 1 .. Len(queue'), NEW j \in 1 .. Len(queue'), queue'[i] = queue'[j]
        PROVE  i = j
    <3>1. i + 1 = j + 1
      BY <2>2, <1>5, <1>6
    <3> QED BY <3>1, <1>6
  <2>3. ASSUME NEW i \in 1 .. Len(queue')
        PROVE  queue'[i] \notin running'
    <3>1. queue[i + 1] \notin running /\ queue[i + 1] # queue[1]
      BY <1>5, <1>6, <2>1
    <3> QED BY <3>1, <1>2, <1>3, <1>6
  <2> QED BY <2>2, <2>3 DEF InOnePlace
<1>8. ASSUME NEW u
      PROVE  InPool(u)' <=> InPool(u)
  <2>1. ASSUME Waits(u) PROVE Waits(u)' \/ u = Head(queue)
    <3>1. PICK i \in 1 .. Len(queue) : queue[i] = u
      BY <2>1 DEF Waits
    <3>2. CASE i = 1
      BY <3>1, <3>2, <1>3
    <3>3. CASE i # 1
      <4>1. i \in 2 .. Len(queue)
        BY <3>3, <1>3
      <4>2. i - 1 \in 1 .. Len(queue') /\ queue'[i - 1] = u
        BY <4>1, <3>1, <1>3
      <4> QED BY <4>2 DEF Waits
    <3> QED BY <3>2, <3>3
  <2>2. Waits(u)' => Waits(u)
    BY <1>6 DEF Waits
  <2>3. Waits(Head(queue))
    <3>1. 1 \in 1 .. Len(queue)
      BY <1>3
    <3> QED BY <3>1, <1>3 DEF Waits
  <2> QED BY <2>1, <2>2, <2>3, <1>2 DEF InPool
<1> QED BY <1>1, <1>2, <1>3, <1>4, <1>7, <1>8

(* A task that has ended is nowhere. *)
LEMMA TaskEnded ==
  ASSUME PoolInv, NEW t \in running, queue' = queue, running' = running \ {t}
  PROVE  /\ running' \in SUBSET Pool!Tasks /\ IsFiniteSet(running')
         /\ Cardinality(running') <= PoolSize
         /\ InOnePlace'
         /\ \A u : InPool(u)' <=> InPool(u) /\ u # t
<1>1. /\ running \in SUBSET Pool!Tasks /\ IsFiniteSet(running)
      /\ Cardinality(running) <= PoolSize
  BY PoolCardinality DEF PoolInv, Pool!TypeOK
<1>2. IsFiniteSet(running') /\ Cardinality(running') <= PoolSize
  <2>1. Cardinality(running) \in Nat /\ PoolSize \in Nat
    BY <1>1, FS_CardinalityType, StreamServiceAssumption
  <2>2. IsFiniteSet(running') /\ Cardinality(running') = Cardinality(running) - 1
    BY <1>1, FS_RemoveElement
  <2> QED BY <1>1, <2>1, <2>2
<1>3. /\ \A i \in 1 .. Len(queue) : queue[i] \notin running
      /\ \A i, j \in 1 .. Len(queue) : queue[i] = queue[j] => i = j
  BY DEF PoolInv, InOnePlace
<1>4. InOnePlace'
  BY <1>3 DEF InOnePlace
<1>5. ASSUME NEW u
      PROVE  InPool(u)' <=> InPool(u) /\ u # t
  <2>1. Waits(u)' <=> Waits(u)
    BY DEF Waits
  <2>2. Waits(u) => u # t
    BY <1>3 DEF Waits
  <2> QED BY <2>1, <2>2 DEF InPool
<1> QED BY <1>1, <1>2, <1>4, <1>5

(* Exactly one task forwards a stream that is due: what PoolInv says with two
   quantifiers is what OneForwarder counts. *)
LEMMA ForwardersCounted ==
  ASSUME PoolInv
  PROVE  OneForwarder
<1> SUFFICES ASSUME NEW s \in Streams
             PROVE  LET held == ForwarderOf(s) \in running
                        waits == {i \in 1 .. Len(queue) : queue[i] = ForwarderOf(s)}
                    IN  Cardinality(waits) + (IF held THEN 1 ELSE 0)
                            = IF Due(s) THEN 1 ELSE 0
  BY DEF OneForwarder
<1> DEFINE f == ForwarderOf(s)
           W == {i \in 1 .. Len(queue) : queue[i] = f}
<1>1. /\ \A i \in 1 .. Len(queue) : queue[i] \notin running
      /\ \A i, j \in 1 .. Len(queue) : queue[i] = queue[j] => i = j
      /\ InPool(f) <=> Due(s)
  BY DEF PoolInv, InOnePlace, ForwarderWhileDue
<1>2. CASE Waits(f)
  <2>1. PICK i \in 1 .. Len(queue) : queue[i] = f
    BY <1>2 DEF Waits
  <2>2. W = {i}
    BY <2>1, <1>1
  <2>3. Cardinality(W) = 1
    BY <2>2, FS_Singleton
  <2>4. f \notin running /\ Due(s)
    BY <1>1, <1>2, <2>1 DEF InPool
  <2> QED BY <2>3, <2>4
<1>3. CASE ~Waits(f)
  <2>1. W = {}
    BY <1>3 DEF Waits
  <2>2. Cardinality(W) = 0
    BY <2>1, FS_EmptySet
  <2>3. f \in running <=> Due(s)
    BY <1>1, <1>3 DEF InPool
  <2> QED BY <2>2, <2>3
<1> QED BY <1>2, <1>3

-----------------------------------------------------------------------------
(* Every step keeps PoolInv. *)

Pipes == \A s \in Images : sent[s] <= written[s] /\ written[s] - sent[s] <= PipeSize

LEMMA PoolInvFromParts ==
  ASSUME sent' \in [Streams -> 0 .. MaxChunks],
         queue' \in Seq(Pool!Tasks),
         running' \in SUBSET Pool!Tasks, IsFiniteSet(running'),
         Cardinality(running') <= PoolSize,
         connected' \in SUBSET Images, written' \in [Images -> 0 .. MaxChunks], Pipes',
         InOnePlace', ForwarderWhileDue', CompressedWhenOpened'
  PROVE  PoolInv'
<1>1. (Streams \ Images) \cup Images = Streams
  BY StreamsAssumption
<1>2. Opened' \in SUBSET Streams
  BY DEF Opened
<1>3. Pool!TypeOK'
  BY <1>1, <1>2, PoolCardinality DEF Pool!TypeOK, Pipes
<1> QED BY <1>3 DEF PoolInv

LEMMA PoolParts ==
  ASSUME PoolInv
  PROVE  /\ queue \in Seq(Pool!Tasks) /\ running \in SUBSET Pool!Tasks
         /\ IsFiniteSet(running) /\ Cardinality(running) <= PoolSize
         /\ connected \in SUBSET Images /\ written \in [Images -> 0 .. MaxChunks] /\ Pipes
         /\ InOnePlace /\ ForwarderWhileDue /\ CompressedWhenOpened
BY PoolCardinality DEF PoolInv, Pool!TypeOK, Pipes

(* The forwarder of a stream is never a compressing task. *)
LEMMA Forwarders ==
  ASSUME NEW s \in Streams, NEW q \in Streams
  PROVE  /\ ForwarderOf(s) # Pool!Task("compress", q)
         /\ ForwarderOf(s) = ForwarderOf(q) => s = q
         /\ s \in Images => ForwarderOf(s) = Pool!Task("forward", s)
         /\ s \notin Images => ForwarderOf(s) = Pool!Task("content", s)
BY TasksDiffer DEF ForwarderOf

(* A stream that leaves the pool alone is due as it was. *)
LEMMA PoolKept ==
  ASSUME PoolInv, UNCHANGED <<poolVars, sent>>, sent \in [Streams -> 0 .. MaxChunks],
         \A s \in Streams : \/ source'[s] = source[s]
                            \/ source[s] = "none" /\ source'[s] = "failed"
                            \/ source[s] = "open" /\ source'[s] = "closing"
  PROVE  PoolInv'
<1>1. UNCHANGED <<queue, running, connected, written>>
  BY DEF poolVars
<1>2. \A u : InPool(u)' <=> InPool(u)
  BY <1>1 DEF InPool, Waits
<1>3. \A s \in Streams : Due(s)' <=> Due(s)
  BY <1>1 DEF Due
<1>4. \A s \in Streams : s \in Opened => s \in Opened'
  BY DEF Opened
<1>5. ForwarderWhileDue'
  BY <1>2, <1>3, PoolParts DEF ForwarderWhileDue, ForwarderOf
<1>6. CompressedWhenOpened'
  BY <1>2, <1>4, PoolParts, StreamsAssumption DEF CompressedWhenOpened
<1>7. Pipes' /\ InOnePlace'
  BY <1>1, PoolParts DEF Pipes, InOnePlace
<1> QED BY <1>1, <1>5, <1>6, <1>7, PoolParts, PoolInvFromParts

LEMMA OpenContentPool ==
  ASSUME IInv, PoolInv, NEW s \in Streams, OpenContent(s)
  PROVE  PoolInv'
<1>1. /\ source \in [Streams -> {"none", "failed", "open", "closing", "closed"}]
      /\ sent \in [Streams -> 0 .. MaxChunks] /\ sent' = sent
      /\ s \notin Images /\ source[s] = "none"
      /\ \E r \in {"open", "failed"} : source' = [source EXCEPT ![s] = r]
  BY DEF IInv, TypeOK, OpenContent, GetStream
<1>2. CASE source'[s] = "open"
  <2>1. /\ queue' = Append(queue, Pool!Task("content", s))
        /\ UNCHANGED <<running, connected, written>>
    BY <1>2 DEF OpenContent, Pool!GetStream
  <2>2. ~InPool(Pool!Task("content", s)) /\ Pool!Task("content", s) \in Pool!Tasks
    BY <1>1, PoolParts, Forwarders, TaskForms DEF ForwarderWhileDue, Due
  <2>3. /\ queue' \in Seq(Pool!Tasks) /\ InOnePlace'
        /\ \A u : InPool(u)' <=> InPool(u) \/ u = Pool!Task("content", s)
    BY <2>1, <2>2, TaskAppended
  <2>4. source' = [source EXCEPT ![s] = "open"]
    BY <1>1, <1>2
  <2>5. ASSUME NEW q \in Streams
        PROVE  InPool(ForwarderOf(q))' <=> Due(q)'
    <3>1. Due(q)' <=> Due(q) \/ q = s
      BY <1>1, <2>1, <2>4 DEF Due
    <3>2. InPool(ForwarderOf(q)) <=> Due(q)
      BY PoolParts DEF ForwarderWhileDue
    <3>3. ForwarderOf(q) = Pool!Task("content", s) <=> q = s
      BY <1>1, Forwarders
    <3>4. ForwarderOf(q)' = ForwarderOf(q)
      BY DEF ForwarderOf
    <3> QED BY <2>3, <3>1, <3>2, <3>3, <3>4
  <2>6. ForwarderWhileDue'
    BY <2>5 DEF ForwarderWhileDue
  <2>7. CompressedWhenOpened'
    <3>1. \A q \in Images : InPool(Pool!Task("compress", q))' => q \in Opened
      BY <2>3, TasksDiffer, PoolParts DEF CompressedWhenOpened
    <3>2. \A q \in Opened : q \in Opened'
      BY <1>1, <2>4 DEF Opened
    <3> QED BY <3>1, <3>2 DEF CompressedWhenOpened
  <2>8. Pipes'
    BY <1>1, <2>1, PoolParts DEF Pipes
  <2> QED BY <1>1, <2>1, <2>3, <2>6, <2>7, <2>8, PoolParts, PoolInvFromParts
<1>3. CASE source'[s] # "open"
  <2>1. /\ UNCHANGED poolVars /\ source' = [source EXCEPT ![s] = "failed"]
    BY <1>1, <1>3 DEF OpenContent
  <2>2. \A q \in Streams : \/ source'[q] = source[q]
                           \/ source[q] = "none" /\ source'[q] = "failed"
                           \/ source[q] = "open" /\ source'[q] = "closing"
    BY <1>1, <2>1
  <2> QED BY <1>1, <2>1, <2>2, PoolKept
<1> QED BY <1>2, <1>3

LEMMA StreamImagePool ==
  ASSUME IInv, PoolInv, NEW s \in Images, StreamImage(s)
  PROVE  PoolInv'
<1> DEFINE t == Pool!Task("compress", s)
<1>1. /\ source \in [Streams -> {"none", "failed", "open", "closing", "closed"}]
      /\ sent \in [Streams -> 0 .. MaxChunks] /\ sent' = sent
      /\ source' = [source EXCEPT ![s] = "open"] /\ s \in Streams
  BY StreamsAssumption DEF IInv, TypeOK, StreamImage, ImageToStream
<1>2. /\ queue' = Append(queue, t) /\ s \notin Opened
      /\ UNCHANGED <<running, connected, written>>
  BY DEF StreamImage, Pool!ToStream
<1>3. ~InPool(t) /\ t \in Pool!Tasks
  BY <1>2, PoolParts, TaskForms DEF CompressedWhenOpened
<1>4. /\ queue' \in Seq(Pool!Tasks) /\ InOnePlace'
      /\ \A u : InPool(u)' <=> InPool(u) \/ u = t
  BY <1>2, <1>3, TaskAppended
<1>5. ASSUME NEW q \in Streams
      PROVE  InPool(ForwarderOf(q))' <=> Due(q)'
  <2>1. Due(q)' <=> Due(q)
    BY <1>1, <1>2 DEF Due
  <2>2. InPool(ForwarderOf(q)) <=> Due(q)
    BY PoolParts DEF ForwarderWhileDue
  <2>3. ForwarderOf(q) # t /\ ForwarderOf(q)' = ForwarderOf(q)
    BY <1>1, Forwarders DEF ForwarderOf
  <2> QED BY <1>4, <2>1, <2>2, <2>3
<1>6. ForwarderWhileDue'
  BY <1>5 DEF ForwarderWhileDue
<1>7. CompressedWhenOpened'
  <2>1. \A q \in Images : InPool(Pool!Task("compress", q))' => q \in Opened \/ q = s
    BY <1>4, TasksDiffer, PoolParts DEF CompressedWhenOpened
  <2>2. s \in Opened' /\ \A q \in Opened : q \in Opened'
    BY <1>1 DEF Opened
  <2> QED BY <2>1, <2>2 DEF CompressedWhenOpened
<1>8. Pipes'
  BY <1>1, <1>2, PoolParts DEF Pipes
<1> HIDE DEF t
<1> QED BY <1>1, <1>2, <1>4, <1>6, <1>7, <1>8, PoolParts, PoolInvFromParts

(* A chunk is read from a content stream or out of the pipe of an image. *)
LEMMA ForwardNextPool ==
  ASSUME IInv, IInv', PoolInv, NEW s \in Streams, ForwardNext(s)
  PROVE  PoolInv'
<1>1. /\ source \in [Streams -> {"none", "failed", "open", "closing", "closed"}]
      /\ sent \in [Streams -> 0 .. MaxChunks] /\ sent' \in [Streams -> 0 .. MaxChunks]
      /\ source[s] = "open"
      /\ \/ sent' = [sent EXCEPT ![s] = @ + 1] /\ source' = source
         \/ s \notin Images /\ source' = [source EXCEPT ![s] = "closing"] /\ sent' = sent
  BY DEF IInv, TypeOK, ForwardNext, Forward
<1>2. /\ \/ UNCHANGED poolVars
         \/ UNCHANGED <<queue, running, connected, written>>
      /\ s \in Images => Pool!ForwardImage(s) \/ PushEnd(s) \/ Pool!PushContent(s)
  BY DEF ForwardNext, PushEnd, Pool!PushContent, Pool!ForwardImage
<1>3. UNCHANGED <<queue, running, connected, written>>
  BY <1>2 DEF poolVars
<1>4. CASE sent' = sent /\ source' = [source EXCEPT ![s] = "closing"]
  <2>1. \A q \in Streams : \/ source'[q] = source[q]
                           \/ source[q] = "none" /\ source'[q] = "failed"
                           \/ source[q] = "open" /\ source'[q] = "closing"
    BY <1>1, <1>4
  <2> QED BY <1>1, <1>3, <1>4, <2>1, PoolKept DEF poolVars
<1>5. CASE sent' = [sent EXCEPT ![s] = @ + 1] /\ source' = source
  <2>1. \A u : InPool(u)' <=> InPool(u)
    BY <1>3 DEF InPool, Waits
  <2>2. ForwarderWhileDue'
    BY <1>3, <1>5, <2>1, PoolParts DEF ForwarderWhileDue, ForwarderOf, Due
  <2>3. CompressedWhenOpened'
    BY <1>5, <2>1, PoolParts DEF CompressedWhenOpened, Opened
  <2>4. InOnePlace'
    BY <1>3, PoolParts DEF InOnePlace
  <2>5. Pipes'
    <3>1. s \in Images => sent[s] < written[s]
      <4>1. ~PushEnd(s)
        BY <1>1, <1>5 DEF PushEnd
      <4>2. s \in Images => ~Pool!PushContent(s)
        BY PoolParts, TaskForms DEF Pool!PushContent
      <4> QED BY <4>1, <4>2, <1>2 DEF Pool!ForwardImage
    <3>2. ASSUME NEW q \in Images
          PROVE  sent'[q] <= written'[q] /\ written'[q] - sent'[q] <= PipeSize
      <4>1. /\ q \in Streams /\ sent[q] \in Nat /\ written[q] \in Nat /\ PipeSize \in Nat
            /\ sent[q] <= written[q] /\ written[q] - sent[q] <= PipeSize
        BY <1>1, PoolParts, StreamsAssumption, StreamServiceAssumption DEF Pipes
      <4>2. sent'[q] = IF q = s THEN sent[q] + 1 ELSE sent[q]
        BY <1>1, <1>5, <4>1
      <4> QED BY <3>1, <4>1, <4>2, <1>3
    <3> QED BY <3>2 DEF Pipes
  <2> QED BY <1>1, <1>3, <2>2, <2>3, <2>4, <2>5, PoolParts, PoolInvFromParts
<1> QED BY <1>1, <1>4, <1>5

(* The thread of a content stream is free again once its input is closed. *)
LEMMA FinishPool ==
  ASSUME IInv, PoolInv, NEW s \in Streams, Finish(s)
  PROVE  PoolInv'
<1> DEFINE t == Pool!Task("content", s)
<1>1. /\ source \in [Streams -> {"none", "failed", "open", "closing", "closed"}]
      /\ sent \in [Streams -> 0 .. MaxChunks] /\ sent' = sent
      /\ source' = [source EXCEPT ![s] = "closed"] /\ source[s] = "closing"
  BY DEF IInv, TypeOK, Finish, CloseInput
<1>2. /\ t \in running /\ running' = running \ {t}
      /\ UNCHANGED <<queue, connected, written>>
  BY DEF Finish, Pool!EndContent
<1>3. s \notin Images
  BY <1>2, PoolParts, TaskForms
<1>4. /\ running' \in SUBSET Pool!Tasks /\ IsFiniteSet(running')
      /\ Cardinality(running') <= PoolSize
      /\ InOnePlace'
      /\ \A u : InPool(u)' <=> InPool(u) /\ u # t
  BY <1>2, TaskEnded
<1>5. ASSUME NEW q \in Streams
      PROVE  InPool(ForwarderOf(q))' <=> Due(q)'
  <2>1. Due(q)' <=> Due(q) /\ q # s
    BY <1>1, <1>2, <1>3 DEF Due
  <2>2. InPool(ForwarderOf(q)) <=> Due(q)
    BY PoolParts DEF ForwarderWhileDue
  <2>3. (ForwarderOf(q) = t <=> q = s) /\ ForwarderOf(q)' = ForwarderOf(q)
    BY <1>3, Forwarders DEF ForwarderOf
  <2> QED BY <1>4, <2>1, <2>2, <2>3
<1>6. ForwarderWhileDue'
  BY <1>5 DEF ForwarderWhileDue
<1>7. CompressedWhenOpened'
  <2>1. \A q \in Images : InPool(Pool!Task("compress", q))' => q \in Opened
    BY <1>4, PoolParts DEF CompressedWhenOpened
  <2>2. \A q \in Opened : q \in Opened'
    BY <1>1 DEF Opened
  <2> QED BY <2>1, <2>2 DEF CompressedWhenOpened
<1>8. Pipes'
  BY <1>1, <1>2, PoolParts DEF Pipes
<1> HIDE DEF t
<1> QED BY <1>1, <1>2, <1>4, <1>6, <1>7, <1>8, PoolParts, PoolInvFromParts

LEMMA StartTaskPool ==
  ASSUME IInv, PoolInv, StartTask
  PROVE  PoolInv'
<1>1. /\ UNCHANGED <<source, sent, connected, written>> /\ Pool!Start
      /\ sent \in [Streams -> 0 .. MaxChunks]
  BY DEF IInv, TypeOK, StartTask, vars, javaVars, Pool!Start
<1>2. /\ queue' \in Seq(Pool!Tasks)
      /\ running' \in SUBSET Pool!Tasks /\ IsFiniteSet(running')
      /\ Cardinality(running') <= PoolSize
      /\ InOnePlace'
      /\ \A u : InPool(u)' <=> InPool(u)
  BY <1>1, TaskStarted
<1>3. ForwarderWhileDue'
  BY <1>1, <1>2, PoolParts DEF ForwarderWhileDue, ForwarderOf, Due
<1>4. CompressedWhenOpened'
  BY <1>1, <1>2, PoolParts DEF CompressedWhenOpened, Opened
<1>5. Pipes'
  BY <1>1, PoolParts DEF Pipes
<1> QED BY <1>1, <1>2, <1>3, <1>4, <1>5, PoolParts, PoolInvFromParts

LEMMA ConnectPipePool ==
  ASSUME IInv, PoolInv, NEW s \in Images, ConnectPipe(s)
  PROVE  PoolInv'
<1> DEFINE t == Pool!Task("forward", s)
<1>1. /\ UNCHANGED <<source, sent>> /\ s \in Streams
      /\ sent \in [Streams -> 0 .. MaxChunks]
  BY StreamsAssumption DEF IInv, TypeOK, ConnectPipe, vars, javaVars
<1>2. /\ queue' = Append(queue, t) /\ s \notin connected
      /\ connected' = connected \cup {s}
      /\ UNCHANGED <<running, written>>
  BY DEF ConnectPipe, Pool!Connect
<1>3. ~InPool(t) /\ t \in Pool!Tasks
  BY <1>1, <1>2, PoolParts, TaskForms, Forwarders DEF ForwarderWhileDue, Due
<1>4. /\ queue' \in Seq(Pool!Tasks) /\ InOnePlace'
      /\ \A u : InPool(u)' <=> InPool(u) \/ u = t
  BY <1>2, <1>3, TaskAppended
<1>5. ASSUME NEW q \in Streams
      PROVE  InPool(ForwarderOf(q))' <=> Due(q)'
  <2>1. Due(q)' <=> Due(q) \/ q = s
    BY <1>1, <1>2 DEF Due
  <2>2. InPool(ForwarderOf(q)) <=> Due(q)
    BY PoolParts DEF ForwarderWhileDue
  <2>3. (ForwarderOf(q) = t <=> q = s) /\ ForwarderOf(q)' = ForwarderOf(q)
    BY <1>1, Forwarders DEF ForwarderOf
  <2> QED BY <1>4, <2>1, <2>2, <2>3
<1>6. ForwarderWhileDue'
  BY <1>5 DEF ForwarderWhileDue
<1>7. CompressedWhenOpened'
  BY <1>1, <1>4, TasksDiffer, PoolParts DEF CompressedWhenOpened, Opened
<1>8. Pipes'
  BY <1>1, <1>2, PoolParts DEF Pipes
<1>9. connected' \in SUBSET Images
  BY <1>2, PoolParts
<1> HIDE DEF t
<1> QED BY <1>1, <1>2, <1>4, <1>6, <1>7, <1>8, <1>9, PoolParts, PoolInvFromParts

LEMMA CompressBlockPool ==
  ASSUME IInv, PoolInv, NEW s \in Images, CompressBlock(s)
  PROVE  PoolInv'
<1> DEFINE t == Pool!Task("compress", s)
<1>1. /\ UNCHANGED <<source, sent, queue, connected>> /\ s \in Streams
      /\ sent \in [Streams -> 0 .. MaxChunks]
  BY StreamsAssumption DEF IInv, TypeOK, CompressBlock, vars, javaVars, Pool!Compress
<1>2. /\ t \in running
      /\ \/ /\ written[s] < MaxChunks
            /\ written[s] - sent[s] < PipeSize
            /\ written' = [written EXCEPT ![s] = @ + 1]
            /\ running' = running
         \/ running' = running \ {t} /\ written' = written
  BY DEF CompressBlock, Pool!Compress
<1>3. CASE /\ written[s] < MaxChunks
           /\ written[s] - sent[s] < PipeSize
           /\ written' = [written EXCEPT ![s] = @ + 1]
           /\ running' = running
  <2>1. \A u : InPool(u)' <=> InPool(u)
    BY <1>1, <1>3 DEF InPool, Waits
  <2>2. ForwarderWhileDue'
    BY <1>1, <2>1, PoolParts DEF ForwarderWhileDue, ForwarderOf, Due
  <2>3. CompressedWhenOpened'
    BY <1>1, <2>1, PoolParts DEF CompressedWhenOpened, Opened
  <2>4. InOnePlace'
    BY <1>1, <1>3, PoolParts DEF InOnePlace
  <2>5. ASSUME NEW q \in Images
        PROVE  /\ written'[q] \in 0 .. MaxChunks
               /\ sent'[q] <= written'[q] /\ written'[q] - sent'[q] <= PipeSize
    <3>1. /\ q \in Streams /\ sent[q] \in Nat /\ written[q] \in 0 .. MaxChunks
          /\ PipeSize \in Nat /\ MaxChunks \in Nat
          /\ sent[q] <= written[q] /\ written[q] - sent[q] <= PipeSize
      BY <1>1, PoolParts, StreamsAssumption, StreamServiceAssumption DEF Pipes
    <3>2. written'[q] = IF q = s THEN written[q] + 1 ELSE written[q]
      BY <1>3, <3>1, PoolParts
    <3> QED BY <3>1, <3>2, <1>1, <1>3
  <2>6. Pipes'
    BY <2>5 DEF Pipes
  <2>7. written' \in [Images -> 0 .. MaxChunks]
    BY <1>3, <2>5, PoolParts
  <2> HIDE DEF t
  <2> QED BY <1>1, <1>3, <2>2, <2>3, <2>4, <2>6, <2>7, PoolParts, PoolInvFromParts
<1>4. CASE running' = running \ {t} /\ written' = written
  <2>1. /\ running' \in SUBSET Pool!Tasks /\ IsFiniteSet(running')
        /\ Cardinality(running') <= PoolSize
        /\ InOnePlace'
        /\ \A u : InPool(u)' <=> InPool(u) /\ u # t
    BY <1>1, <1>2, <1>4, TaskEnded
  <2>2. \A q \in Streams : ForwarderOf(q) # t /\ ForwarderOf(q)' = ForwarderOf(q)
    BY <1>1, Forwarders DEF ForwarderOf
  <2>3. ForwarderWhileDue'
    BY <1>1, <2>1, <2>2, PoolParts DEF ForwarderWhileDue, Due
  <2>4. CompressedWhenOpened'
    BY <1>1, <2>1, PoolParts DEF CompressedWhenOpened, Opened
  <2>5. Pipes'
    BY <1>1, <1>4, PoolParts DEF Pipes
  <2> HIDE DEF t
  <2> QED BY <1>1, <1>4, <2>1, <2>3, <2>4, <2>5, PoolParts, PoolInvFromParts
<1> QED BY <1>2, <1>3, <1>4

LEMMA InitService == ServiceInit => IInv /\ PoolInv
<1> SUFFICES ASSUME ServiceInit PROVE IInv /\ PoolInv
  OBVIOUS
<1>1. /\ IInv /\ Init /\ (Streams \ Images) \cup Images = Streams
      /\ queue = <<>> /\ running = {} /\ connected = {}
      /\ written = [x \in Images |-> 0] /\ sent = [s \in Streams |-> 0]
  BY InitStreams, StreamsAssumption DEF ServiceInit, Pool!Init, Init
<1>2. queue \in Seq(Pool!Tasks) /\ Len(queue) = 0
  BY <1>1
<1>3. IsFiniteSet(running) /\ Cardinality(running) <= PoolSize
  <2>1. Cardinality(running) = 0 /\ IsFiniteSet(running)
    BY <1>1, FS_EmptySet
  <2> QED BY <2>1, StreamServiceAssumption
<1>4. /\ written \in [Images -> 0 .. MaxChunks] /\ sent \in [Streams -> 0 .. MaxChunks]
      /\ \A x \in Images : sent[x] <= written[x] /\ written[x] - sent[x] <= PipeSize
  BY <1>1, StreamsAssumption, StreamServiceAssumption
<1>5. Opened \in SUBSET Streams /\ connected \in SUBSET Images
  BY <1>1 DEF Opened
<1>6. Pool!TypeOK
  BY <1>1, <1>2, <1>3, <1>4, <1>5, PoolCardinality DEF Pool!TypeOK
<1>7. \A u : ~InPool(u)
  BY <1>1, <1>2 DEF InPool, Waits
<1>8. InOnePlace /\ ForwarderWhileDue /\ CompressedWhenOpened
  BY <1>1, <1>2, <1>7 DEF InOnePlace, ForwarderWhileDue, CompressedWhenOpened, Due, Init
<1> QED BY <1>1, <1>3, <1>6, <1>8 DEF PoolInv

LEMMA StepService ==
  IInv /\ PoolInv /\ [ServiceNext]_serviceVars => IInv' /\ PoolInv'
<1> SUFFICES ASSUME IInv, PoolInv, [ServiceNext]_serviceVars PROVE IInv' /\ PoolInv'
  OBVIOUS
<1>1. IInv'
  BY ServiceSteps, StepStreams
<1>2. sent \in [Streams -> 0 .. MaxChunks]
  BY DEF IInv, TypeOK
<1>3. ASSUME UNCHANGED poolVars, source' = source, sent' = sent PROVE PoolInv'
  BY <1>2, <1>3, PoolKept
<1>4. ASSUME NEW s \in Streams, OpenContent(s) PROVE PoolInv'
  BY <1>4, OpenContentPool
<1>5. ASSUME NEW s \in Streams, ForwardNext(s) PROVE PoolInv'
  BY <1>1, <1>5, ForwardNextPool
<1>6. ASSUME NEW s \in Streams, Finish(s) PROVE PoolInv'
  BY <1>6, FinishPool
<1>7. ASSUME NEW s \in Streams, GiveToken(s) \/ MakeReadable(s) PROVE PoolInv'
  BY <1>3, <1>7 DEF GiveToken, MakeReadable, ReturnToken, CreateStream, javaVars
<1>8. ASSUME NEW s \in Images, StreamImage(s) \/ ConnectPipe(s) \/ CompressBlock(s)
      PROVE  PoolInv'
  BY <1>8, StreamImagePool, ConnectPipePool, CompressBlockPool
<1>9. ASSUME StartTask PROVE PoolInv'
  BY <1>9, StartTaskPool
<1>10. ASSUME TakeToken \/ TakeEvent PROVE PoolInv'
  BY <1>3, <1>10 DEF TakeToken, TakeEvent, ResolveToken, Receive, javaVars
<1>11. ASSUME UNCHANGED serviceVars PROVE PoolInv'
  BY <1>3, <1>11 DEF serviceVars, vars, javaVars
<1> QED BY <1>1, <1>4, <1>5, <1>6, <1>7, <1>8, <1>9, <1>10, <1>11 DEF ServiceNext

-----------------------------------------------------------------------------
(* Why the pool goes on: each image holds up one thread at most. *)

LEMMA OpenedStays ==
  ASSUME IInv, [ServiceNext]_serviceVars
  PROVE  /\ \A s \in Opened : s \in Opened'
         /\ \/ (Opened \cap Images)' = Opened \cap Images
            \/ \E s \in Images : (Opened \cap Images)' = (Opened \cap Images) \cup {s}
<1> USE DEF Opened
<1>1. source \in [Streams -> {"none", "failed", "open", "closing", "closed"}]
  BY DEF IInv, TypeOK
<1>2. [Next]_vars
  BY ServiceSteps
<1>3. CASE UNCHANGED source
  BY <1>3
<1>4. ASSUME NEW s \in Streams,
             \/ GetStream(s)
             \/ source[s] = "open" /\ source' = [source EXCEPT ![s] = "closing"]
             \/ CloseInput(s)
      PROVE  /\ \A q \in Opened : q \in Opened'
             /\ (Opened \cap Images)' = Opened \cap Images \/ s \in Images
             /\ s \in Images => (Opened \cap Images)' = (Opened \cap Images) \cup {s}
  <2>1. CASE GetStream(s)
    <3>1. PICK r \in {"open", "failed"} : source' = [source EXCEPT ![s] = r]
      BY <2>1 DEF GetStream
    <3>2. s \notin Images /\ source[s] = "none"
      BY <2>1 DEF GetStream
    <3>3. \A q \in Streams : q # s => source'[q] = source[q]
      BY <1>1, <3>1
    <3> QED BY <3>2, <3>3
  <2>2. CASE \/ source[s] = "open" /\ source' = [source EXCEPT ![s] = "closing"]
             \/ CloseInput(s)
    <3>1. /\ source[s] \notin {"none", "failed"} /\ source'[s] \notin {"none", "failed"}
          /\ \A q \in Streams : q # s => source'[q] = source[q]
      BY <1>1, <2>2 DEF CloseInput
    <3>2. Opened' = Opened /\ s \in Opened
      BY <3>1
    <3> HIDE DEF Opened
    <3> QED BY <3>2
  <2> QED BY <1>4, <2>1, <2>2
<1>5. ASSUME NEW s \in Streams, Forward(s)
      PROVE  \/ source' = source
             \/ source[s] = "open" /\ source' = [source EXCEPT ![s] = "closing"]
  <2>1. source[s] = "open"
    BY <1>5 DEF Forward
  <2>2. source' = source \/ source' = [source EXCEPT ![s] = "closing"]
    BY <1>5 DEF Forward
  <2> QED BY <2>1, <2>2
<1>6. ASSUME NEW s \in Streams, ImageToStream(s)
      PROVE  /\ \A q \in Opened : q \in Opened'
             /\ s \in Images
             /\ (Opened \cap Images)' = (Opened \cap Images) \cup {s}
  <2>1. /\ s \in Images /\ source'[s] = "open"
        /\ \A q \in Streams : q # s => source'[q] = source[q]
    BY <1>1, <1>6 DEF ImageToStream
  <2> QED BY <2>1
<1> HIDE DEF Opened
<1>7. ASSUME NEW s \in Streams, ReturnToken(s) \/ CreateStream(s) PROVE UNCHANGED source
  BY <1>7 DEF ReturnToken, CreateStream, javaVars
<1>8. ASSUME ResolveToken \/ Receive \/ UNCHANGED vars PROVE UNCHANGED source
  BY <1>8 DEF ResolveToken, Receive, vars, javaVars
<1> QED BY <1>2, <1>3, <1>4, <1>5, <1>6, <1>7, <1>8 DEF Next

LEMMA StepOpened ==
  ASSUME IInv, PoolInv, OpenedInv, [ServiceNext]_serviceVars
  PROVE  OpenedInv'
<1>1. IsFiniteSet((Opened \cap Images)')
  <2>1. IsFiniteSet(Opened \cap Images)
    BY DEF OpenedInv
  <2>2. \A s : IsFiniteSet((Opened \cap Images) \cup {s})
    BY <2>1, FS_AddElement
  <2> QED BY <2>1, <2>2, OpenedStays
<1>2. connected' \subseteq Opened
  <2>1. connected \subseteq Opened
    BY DEF OpenedInv
  <2>2. ASSUME NEW s \in Images, ConnectPipe(s)
        PROVE  connected' \subseteq Opened
    <3>1. Pool!Task("compress", s) \in running /\ connected' = connected \cup {s}
      BY <2>2 DEF ConnectPipe, Pool!Connect
    <3>2. s \in Opened
      BY <3>1, PoolParts DEF CompressedWhenOpened, InPool
    <3> QED BY <2>1, <3>1, <3>2
  <2>3. ASSUME NEW s \in Streams, OpenContent(s) \/ ForwardNext(s) \/ Finish(s)
        PROVE  connected' = connected
    BY <2>3 DEF OpenContent, ForwardNext, Finish, PushEnd, poolVars, Pool!GetStream,
                Pool!PushContent, Pool!ForwardImage, Pool!EndContent
  <2>4. ASSUME NEW s \in Streams, GiveToken(s) \/ MakeReadable(s)
        PROVE  connected' = connected
    BY <2>4 DEF GiveToken, MakeReadable, poolVars
  <2>5. ASSUME NEW s \in Images, StreamImage(s) \/ CompressBlock(s)
        PROVE  connected' = connected
    BY <2>5 DEF StreamImage, CompressBlock, Pool!ToStream, Pool!Compress
  <2>6. ASSUME StartTask \/ TakeToken \/ TakeEvent \/ UNCHANGED serviceVars
        PROVE  connected' = connected
    BY <2>6 DEF StartTask, TakeToken, TakeEvent, Pool!Start, poolVars, serviceVars
  <2> QED BY <2>1, <2>2, <2>3, <2>4, <2>5, <2>6 DEF ServiceNext
<1>3. connected' \subseteq Opened'
  BY <1>2, OpenedStays
<1> QED BY <1>1, <1>3 DEF OpenedInv

(* Two tasks of one image are never stuck at the same time: that would take a
   pipe both full and empty.  So a pool in which every thread is stuck has as
   many images as threads. *)
LEMMA StuckOnImages ==
  ASSUME PoolInv, OpenedInv
  PROVE  PoolGoesOn
<1> DEFINE T == Opened \cap Images
           f == [t \in Stuck |-> t.of]
<1>1. /\ IsFiniteSet(T) /\ connected \subseteq Opened
      /\ IsFiniteSet(running) /\ running \subseteq Pool!Tasks /\ Stuck \subseteq running
  BY PoolParts DEF OpenedInv, Stuck
<1>2. IsFiniteSet(Stuck)
  BY <1>1, FS_Subset
<1>3. Cardinality(Stuck) \in Nat /\ Cardinality(T) \in Nat /\ Cardinality(running) \in Nat
      /\ PoolSize \in Nat /\ Cardinality(running) <= PoolSize
  BY <1>1, <1>2, FS_CardinalityType, StreamServiceAssumption, PoolParts
<1>4. ASSUME NEW t \in Stuck
      PROVE  /\ t.of \in T
             /\ t = Pool!Task(t.kind, t.of) /\ t.kind \in {"compress", "forward"}
             /\ t.kind = "compress" => written[t.of] - sent[t.of] >= PipeSize
             /\ t.kind = "forward" => sent[t.of] >= written[t.of]
  <2>1. /\ t \in running /\ t \in Pool!Tasks
        /\ \/ t.kind = "compress" /\ t.of \in connected
              /\ written[t.of] - sent[t.of] >= PipeSize
           \/ t.kind = "forward" /\ sent[t.of] >= written[t.of]
    BY <1>1 DEF Stuck
  <2>2. t = Pool!Task(t.kind, t.of) /\ t.of \in Images
    BY <2>1 DEF Pool!Tasks, Pool!Task
  <2>3. CASE t.kind = "compress"
    BY <1>1, <2>1, <2>2, <2>3
  <2>4. CASE t.kind = "forward"
    <3>1. t.of \in Streams
      BY <2>2, StreamsAssumption
    <3>2. InPool(ForwarderOf(t.of))
      BY <2>1, <2>2, <2>4, <3>1, Forwarders DEF InPool
    <3>3. t.of \in connected
      BY <2>2, <3>1, <3>2, PoolParts DEF ForwarderWhileDue, Due
    <3> QED BY <1>1, <2>1, <2>2, <2>4, <3>3
  <2> QED BY <2>1, <2>3, <2>4
<1>5. \A t, u \in Stuck : f[t] = f[u] => t = u
  <2> SUFFICES ASSUME NEW t \in Stuck, NEW u \in Stuck, t.of = u.of PROVE t = u
    OBVIOUS
  <2>1. CASE t.kind = u.kind
    BY <1>4, <2>1
  <2>2. CASE t.kind # u.kind
    <3>1. written[t.of] - sent[t.of] >= PipeSize /\ sent[t.of] >= written[t.of]
      BY <1>4, <2>2
    <3>2. t.of \in Images /\ t.of \in Streams
      BY <1>4, StreamsAssumption
    <3>3. written[t.of] \in Nat /\ sent[t.of] <= written[t.of] /\ PipeSize \in Nat \ {0}
      BY <3>2, PoolParts, StreamServiceAssumption, StreamsAssumption DEF Pipes
    <3>4. sent[t.of] \in Nat
      BY <3>2, StreamsAssumption DEF PoolInv, Pool!TypeOK
    <3> QED BY <3>1, <3>3, <3>4
  <2> QED BY <2>1, <2>2
<1>6. f \in [Stuck -> T]
  BY <1>4
<1>7. Cardinality(Stuck) <= Cardinality(T)
  <2> SUFFICES ASSUME Cardinality(T) < Cardinality(Stuck) PROVE FALSE
    BY <1>3
  <2> HIDE DEF f, T
  <2>1. \E t, u \in Stuck : t # u /\ f[t] = f[u]
    BY <1>1, <1>2, <1>6, FS_PigeonHole DEF T
  <2> QED BY <1>5, <2>1
<1> QED BY <1>3, <1>7 DEF PoolGoesOn

(* No thread is used twice and no pipe overfilled, every task is in one place,
   and exactly one task forwards a stream from the call that makes it until
   its input is closed: no chunk is pushed twice and none behind the end. *)
THEOREM ServiceInvHolds == ServiceSpec => []ServiceInv
<1>1. IInv /\ PoolInv /\ OpenedInv => ServiceInv
  BY ForwardersCounted, StuckOnImages DEF ServiceInv
<1>2. ServiceInit => OpenedInv
  <2> SUFFICES ASSUME ServiceInit PROVE OpenedInv
    OBVIOUS
  <2>1. Opened = {} /\ connected = {}
    BY DEF ServiceInit, Init, Opened, Pool!Init
  <2>2. Opened \cap Images = {}
    BY <2>1
  <2> QED BY <2>1, <2>2, FS_EmptySet DEF OpenedInv
<1>3. IInv /\ PoolInv /\ OpenedInv /\ [ServiceNext]_serviceVars => OpenedInv'
  BY StepOpened
<1> QED BY <1>1, <1>2, <1>3, InitService, StepService, PTL DEF ServiceSpec

(* ToStream runs on the pool and submits its other half to the same pool; this
   does not block the pool while fewer images than threads are streamed. *)
THEOREM PoolIsNotBlocked == ServiceSpec => []PoolGoesOn
<1>1. ServiceInv => PoolGoesOn
  BY DEF ServiceInv
<1> QED BY <1>1, ServiceInvHolds, PTL
=============================================================================
