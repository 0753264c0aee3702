------------------------------- MODULE Images -------------------------------
(***************************************************************************)
(* Images: graphics.js on the side of JavaScript and ImageAPI.java, which  *)
(* keeps the bitmaps in a map by token.  What JavaScript asks of an image  *)
(* hangs on one promise: creating and resizing are asynchronous Java calls *)
(* (module JavaInvoker) that replace it, the other operations are          *)
(* synchronous calls made when it is fulfilled, and use the token up.      *)
(* There is a token for each image and no other, so it is the image here.  *)
(***************************************************************************)
EXTENDS JavaInvoker

CONSTANTS Pictures,   \* the Image objects of graphics.js
          NoPromise,
          MaxOps,     \* bound on what is asked of one image
          MaxOthers   \* bound on the asynchronous calls of other modules

ASSUME ImagesAssumption == NoPromise \notin Promises /\ MaxOps \in Nat /\ MaxOthers \in Nat

VARIABLES
    ops,        \* [Pictures -> Seq(...)]: what JavaScript asked, in order
    images,     \* ImageAPI.images
    bitmap,     \* Image.bitmap: not there yet, null, or decoded
    scaled,     \* operations that resized the bitmap, in order
    saw         \* history: what scaled was when an image was used

imageVars == <<ops, images, bitmap, scaled, saw>>
allVars == <<vars, imageVars>>

(* Those that replace the promise, and those that use up the token. *)
Chained == {"create", "resizeFit"}
Uses == {"getSize", "toBuffer", "stream"}

Operation == [kind : Chained \cup Uses,
              at : {"waiting", "called", "done", "failed"},
              promise : Promises \cup {NoPromise}]

ImagesTypeOK ==
    /\ ops \in [Pictures -> Seq(Operation)]
    /\ images \in SUBSET Pictures
    /\ bitmap \in [Pictures -> {"none", "null", "decoded"}]
    /\ scaled \in [Pictures -> Seq(Nat)]
    /\ saw \in [Pictures -> Seq(Nat)]

ImagesInit ==
    /\ Init
    /\ ops = [i \in Pictures |-> <<>>]
    /\ images = {}
    /\ bitmap = [i \in Pictures |-> "none"]
    /\ scaled = [i \in Pictures |-> <<>>]
    /\ saw = [i \in Pictures |-> <<>>]

-----------------------------------------------------------------------------
(* The promises of an image *)

Op(kind, at, p) == [kind |-> kind, at |-> at, promise |-> p]
Now(i, k, at, p) == ops' = [ops EXCEPT ![i][k] = Op(ops[i][k].kind, at, p)]

(* altered: resizeFit does not replace the promise *)
AwaitsCreation(i, k) == 1

(* _promise when operation k was asked for: that of the last one before it
   that replaced it *)
Awaits(i, k) ==
    CHOOSE j \in 1 .. k - 1 :
        /\ ops[i][j].kind \in Chained
        /\ \A h \in j + 1 .. k - 1 : ops[i][h].kind \notin Chained

Settled(i, j, s) == ops[i][j].promise # NoPromise /\ state[ops[i][j].promise] = s
Fulfilled(i, j) == Settled(i, j, "fulfilled")
Rejected(i, j) == ops[i][j].at = "failed" \/ Settled(i, j, "rejected")

(* Reactions of one promise (of the library Q) run in the order in which they
   were added, not always in the turn in which it was fulfilled. *)
Due(i, k) ==
    /\ alive /\ node = "busy"
    /\ ops[i][k].at = "waiting"
    /\ \A j \in 2 .. k - 1 : Awaits(i, j) = Awaits(i, k) => ops[i][j].at # "waiting"

-----------------------------------------------------------------------------
(* JavaScript *)

(* The promise that the next callJavaAsync hands out.  One is as good as
   another. *)
Unused == {p \in Promises : state[p] = "unused"}
IsNext(p) == p \in Unused /\ p = CHOOSE q \in Unused : TRUE

(* callJavaAsync, with arguments that can be marshalled *)
CallJava(p) ==
    /\ IsNext(p)
    /\ \E m \in Methods : InvokeAsync(p, m)
    /\ state'[p] # "undefined"

(* new Image *)
Create(i, p) ==
    /\ ops[i] = <<>>
    /\ CallJava(p)
    /\ ops' = [ops EXCEPT ![i] = <<Op("create", "called", p)>>]
    /\ UNCHANGED <<images, bitmap, scaled, saw>>

(* getSize, resizeFit, toBuffer, stream: another reaction of the promise *)
Ask(i, kind) ==
    /\ alive /\ node = "busy"
    /\ Len(ops[i]) \in 1 .. MaxOps - 1
    /\ ops' = [ops EXCEPT ![i] = Append(@, Op(kind, "waiting", NoPromise))]
    /\ UNCHANGED <<vars, images, bitmap, scaled, saw>>

(* the promise is rejected: so is what hangs on it *)
GiveUp(i, k) ==
    /\ Due(i, k)
    /\ Rejected(i, Awaits(i, k))
    /\ Now(i, k, "failed", NoPromise)
    /\ UNCHANGED <<vars, images, bitmap, scaled, saw>>

CallResize(i, k, p) ==
    /\ Due(i, k)
    /\ ops[i][k].kind = "resizeFit"
    /\ Fulfilled(i, Awaits(i, k))
    /\ CallJava(p)
    /\ Now(i, k, "called", p)
    /\ UNCHANGED <<images, bitmap, scaled, saw>>

(* the synchronous call; getSize makes three, one after the other *)
BeginUse(i, k) ==
    /\ Due(i, k)
    /\ ops[i][k].kind \in Uses
    /\ Fulfilled(i, Awaits(i, k))
    /\ \E m \in Methods : InvokeSync(m)
    /\ Now(i, k, "called", NoPromise)
    /\ UNCHANGED <<images, bitmap, scaled, saw>>

(* altered: getSize keeps the token *)
TokenGoesKept(i, kind) == kind # "getSize"

(* Whether the token leaves the map: toBuffer and toStream take it out first;
   getSize disposes of it at the end, which it does not reach when there is no
   bitmap to ask for its size. *)
TokenGoes(i, kind) == kind # "getSize" \/ bitmap[i] = "decoded"

(* An invalid token throws.  Without a bitmap all but stream throw, which has
   another thread do the work.  toBuffer throws as well when it does not know
   the format. *)
EndUse(i, k) ==
    LET kind == ops[i][k].kind
        fine == i \in images /\ (kind = "stream" \/ bitmap[i] = "decoded")
    IN  /\ ops[i][k].at = "called" /\ kind \in Uses
        /\ SyncReturn
        /\ \/ fine /\ Now(i, k, "done", NoPromise) /\ saw' = [saw EXCEPT ![i] = scaled[i]]
           \/ /\ ~fine \/ kind = "toBuffer"
              /\ Now(i, k, "failed", NoPromise) /\ UNCHANGED saw
        /\ images' = IF i \in images /\ TokenGoes(i, kind) THEN images \ {i} ELSE images
        /\ UNCHANGED <<bitmap, scaled>>

-----------------------------------------------------------------------------
(* ImageAPI, on threads of the pool *)

(* createImage: the image is put into the map, with no bitmap if its data
   cannot be decoded, or the call throws *)
CreateImage(i, e) ==
    /\ ops[i] # <<>> /\ ops[i][1].promise = e.promise
    /\ TaskDone(e)
    /\ IF outcome'[e.promise] = "ok"
       THEN /\ images' = images \cup {i}
            /\ \E b \in {"null", "decoded"} : bitmap' = [bitmap EXCEPT ![i] = b]
       ELSE UNCHANGED <<images, bitmap>>
    /\ UNCHANGED <<ops, scaled, saw>>

(* resizeFit throws when there is no such token, no bitmap, or nothing left of
   the size *)
ResizeFit(i, k, e) ==
    /\ k \in 2 .. Len(ops[i]) /\ ops[i][k].promise = e.promise
    /\ TaskDone(e)
    /\ IF outcome'[e.promise] = "ok"
       THEN /\ i \in images /\ bitmap[i] = "decoded"
            /\ scaled' = [scaled EXCEPT ![i] = Append(@, k)]
       ELSE UNCHANGED scaled
    /\ UNCHANGED <<ops, images, bitmap, saw>>

(* toStream has given the work to a pool thread, where what compress throws,
   without a bitmap or of a format that it does not know, is caught by nobody *)
CompressFatal(i) ==
    /\ Killed
    /\ \E k \in 1 .. Len(ops[i]) : ops[i][k].kind = "stream" /\ ops[i][k].at = "done"
    /\ UNCHANGED imageVars

-----------------------------------------------------------------------------
(* What is not the images' own: the bridge, and the calls of other modules *)
OfImage(p) == \E i \in Pictures : \E k \in 1 .. Len(ops[i]) : ops[i][k].promise = p

Others ==
    /\ \/ \E m \in Methods : Register(m)
       \/ /\ Cardinality({q \in Promises : state[q] # "unused" /\ ~OfImage(q)}) < MaxOthers
          /\ \E p \in Promises, m \in Methods : IsNext(p) /\ InvokeAsync(p, m)
       \/ \E e \in tasks : ~OfImage(e.promise) /\ TaskDone(e)
       \/ \E e \in tasks : TaskFatal(e)
       \/ LoopEvent \/ WakeUp \/ Drain \/ CompletePromise \/ EndTurn
    /\ UNCHANGED imageVars

ImagesNext ==
    \/ Others
    \/ \E i \in Pictures :
          \/ \E p \in Promises : Create(i, p)
          \/ \E kind \in Uses \cup {"resizeFit"} : Ask(i, kind)
          \/ \E k \in 2 .. Len(ops[i]) :
                \/ GiveUp(i, k) \/ BeginUse(i, k) \/ EndUse(i, k)
                \/ \E p \in Promises : CallResize(i, k, p)
                \/ \E e \in tasks : ResizeFit(i, k, e)
          \/ \E e \in tasks : CreateImage(i, e)
          \/ CompressFatal(i)

ImagesSpec == ImagesInit /\ [][ImagesNext]_allVars

ImagesFairness ==
    /\ SF_allVars(WakeUp /\ UNCHANGED imageVars)
    /\ SF_allVars(CompletePromise /\ UNCHANGED imageVars)
    /\ SF_allVars(EndTurn /\ UNCHANGED imageVars)
    /\ WF_allVars(Drain /\ UNCHANGED imageVars)
    /\ WF_allVars(\E i \in Pictures : \E k \in 2 .. Len(ops[i]) : EndUse(i, k))

FairImagesSpec == ImagesSpec /\ ImagesFairness

-----------------------------------------------------------------------------
(* Safety *)

Used(i, k) == ops[i][k].kind \in Uses /\ ops[i][k].at = "done"

InOrder(s) == \A m, n \in DOMAIN s : m < n => s[m] < s[n]

(* An image is used once: what JavaScript asked after it fails.  And it is
   used as JavaScript wrote it down: with every resizeFit before it, in order,
   and none of those after it, although each runs on a thread of its own and
   nobody waits for it. *)
UsedAsWritten ==
    \A i \in Pictures : \A k \in 2 .. Len(ops[i]) : Used(i, k) =>
        /\ InOrder(saw[i])
        /\ ToSet(saw[i]) = {j \in 1 .. k - 1 : ops[i][j].kind = "resizeFit"}
        /\ \A j \in k + 1 .. Len(ops[i]) : ~Used(i, j) /\ ~Fulfilled(i, j)

(* A token whose image was used, or was to be used, is not left in the map --
   unless there is no bitmap, or an operation on the way failed: graphics.js
   has nothing that would dispose of it then. *)
TokenIsGivenBack ==
    \A i \in images : \A k \in 2 .. Len(ops[i]) :
        ops[i][k].kind \in Uses /\ ops[i][k].at \in {"done", "failed"} =>
            bitmap[i] = "null" \/ \E j \in 2 .. k - 1 : Rejected(i, j)

-----------------------------------------------------------------------------
(* The inductive invariant behind the safety properties, by named parts. *)

(* The first operation is the creation; a promise of its own has an operation
   that is a Java call under way or over. *)
OpsInv ==
    \A i \in Pictures :
        /\ ops[i] # <<>> => /\ ops[i][1].kind = "create" /\ ops[i][1].at = "called"
                            /\ ops[i][1].promise # NoPromise
        /\ \A k \in 2 .. Len(ops[i]) :
              /\ ops[i][k].kind # "create"
              /\ ops[i][k].promise # NoPromise
                    <=> ops[i][k].kind = "resizeFit" /\ ops[i][k].at = "called"
              /\ ops[i][k].at = "done" => ops[i][k].kind \in Uses

(* No promise is handed out twice. *)
PromiseInv ==
    \A i \in Pictures : \A k \in 1 .. Len(ops[i]) : ops[i][k].promise # NoPromise =>
        /\ state[ops[i][k].promise] \notin {"unused", "undefined"}
        /\ \A h \in Pictures : \A m \in 1 .. Len(ops[h]) :
              ops[h][m].promise = ops[i][k].promise => h = i /\ m = k

(* Operations leave the wait in their order.  One that was called found every
   image before it made; one that failed did so too, or something failed
   before it. *)
OrderInv ==
    \A i \in Pictures : \A k \in 2 .. Len(ops[i]) :
        /\ ops[i][k].at # "waiting" => \A j \in 2 .. k - 1 : ops[i][j].at # "waiting"
        /\ ops[i][k].at \in {"called", "done"} =>
              \A j \in 1 .. k - 1 : ops[i][j].kind \in Chained => Fulfilled(i, j)
        /\ ops[i][k].at = "failed" =>
              \/ \A j \in 1 .. k - 1 : ops[i][j].kind \in Chained => Fulfilled(i, j)
              \/ \E j \in 1 .. k - 1 : Rejected(i, j)

(* A use is a synchronous call: there is one at a time, and what was asked
   after it waits. *)
InUse(i, k) == ops[i][k].kind \in Uses /\ ops[i][k].at = "called"

UseInv ==
    \A i \in Pictures : \A k \in 2 .. Len(ops[i]) : InUse(i, k) =>
        /\ node = "java"
        /\ \A j \in k + 1 .. Len(ops[i]) : ops[i][j].at = "waiting"
        /\ \A h \in Pictures : \A m \in 2 .. Len(ops[h]) : InUse(h, m) => h = i

(* The bitmap is there once its creation has returned, and the token no sooner. *)
BitmapInv ==
    \A i \in Pictures :
        /\ bitmap[i] # "none" <=> ops[i] # <<>> /\ outcome[ops[i][1].promise] = "ok"
        /\ i \in images => bitmap[i] # "none"

(* The bitmap was resized by the calls that returned, in order. *)
Resized(i) ==
    {k \in 2 .. Len(ops[i]) :
        ops[i][k].promise # NoPromise /\ outcome[ops[i][k].promise] = "ok"}

ScaledInv == \A i \in Pictures : InOrder(scaled[i]) /\ ToSet(scaled[i]) = Resized(i)

(* The token is gone with the use, so that nothing happens to the image after. *)
UsedInv ==
    \A i \in Pictures : \A k \in 2 .. Len(ops[i]) : Used(i, k) =>
        /\ i \notin images
        /\ saw[i] = scaled[i] /\ Resized(i) \subseteq 1 .. k - 1
        /\ \A j \in 2 .. Len(ops[i]) : Used(i, j) => j = k

ImagesInv ==
    /\ IInv
    /\ ImagesTypeOK
    /\ OpsInv /\ PromiseInv /\ OrderInv /\ UseInv
    /\ BitmapInv /\ ScaledInv /\ UsedInv
    /\ TokenIsGivenBack
=============================================================================
