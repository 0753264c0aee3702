# Almond for Android: specifications, checks and proofs

Almond for Android runs a JavaScript engine (Node, `jsapp/`) inside an Android service,
behind a bridge written in C++ (`app/src/main/jni/node-launcher*`), next to Java code that
gives the engine its platform (`engine/jsapi`), keeps the conversation with the user
(`engine/service`) and shows it (`engine/ui`).  The repository has no tests to speak of, and
what is hard in it is hard to test: four kinds of threads (the UI thread, executor threads,
the event loop of Node, binder threads), two queues in opposite directions, activities that
come and go.

Paths below are relative to the root of the repository; `engine/` stands for
`app/src/main/java/edu/stanford/thingengine/engine/` and `jni/` for `app/src/main/jni/`.

## 1. Inventory

| Part | Code | State | Operations | What is hard | Correct means |
|---|---|---|---|---|---|
| Call queue into Node | `jni/node-launcher.cpp`, `-marshal.cpp`, `jsapp/launcher.js` | list of calls, mutex, condition, async handle, one `std::promise` per call | invokeSync, invokeAsync, boot, wake-up, batch, promise reactions | coalescing wake-ups, callers blocked before boot, ownership of the promise | FIFO, nothing lost, every blocked caller owed an answer by an owner |
| Java calls from Node | `jni/node-launcher.cpp`, `nodejs/NodeJSLauncher.java` | methods, next number, resolvers by number, native queue | callJavaAsync, callJavaSync, completePromise, registerJavaCall | completion races the call, numbers through two queues, uncaught throwables | a promise is settled once, by its own call |
| Streams | `engine/jsapi/StreamAPI`, `ContentAPI`, `ImageAPI`, `jsapp/streams.js` | tokens, pool of six threads, pipes, Readables | getStream, toStream, push, end, error, createStream | chunks overtake the token; tasks of one pool wait for each other | chunks in order, one end, every stream delivered |
| Audio router | `engine/jsapi/AudioRouterAPI` | counter, proxy | start, stop, set/isAudioRouteBluetooth, proxy callbacks | counting and acting are not one step | the count is the number of users; a closed proxy is not used |
| Preferences | `jsapp/platform.js`, `engine/jsapi/SharedPreferencesAPI` | writes held back, flag, prefs, disk | get, set, timer, commit, kill | three places a write can be in, kills | read your writes; the disk is a prefix |
| Icons | `engine/ui/GenericObjectCache`, `LoadImageTask` | buckets, tasks, views | hit, store, clear, load | collector, expiry, views used again | a hit is good; a view shows the icon it was asked for |
| Engine life cycle | `engine/service/EngineService`, `ControlBinder`, `jsapp/app.js`, `control.js`, `assistant.js` | service, main's progress, readiness flags | start, destroy, open, run, close, control calls | calls at any moment of opening and closing | all calls answered, user is greeted; the engine should end with the service, and does not (section 5) |
| User interaction | `engine/ui/MainServiceConnection`, `EngineServiceConnection` | callback, map code -> state, dialogs | requestPermission, startActivity, resolveResult, results, resume, pause | activity leaves or is recreated while a thread waits | who waits will be answered |
| Conversation | `engine/service/AssistantDispatcher`, history, messages, `engine/ui/MainActivity` | history, notifications, last question, output, executor | commands, messages, connect, pause | messages, commands and the activity in any order | order of commands, fitting input field, nothing unseen lost |
| Bluetooth | `engine/jsapi/BluetoothAPI` | pairing, fetchingUuids, fetchedUUIDs, discovery and its timer | pairDevice, readUUIDs, start/stopDiscovery, broadcasts | two callers for one device, an address spelled in two ways, deadlines on a shared monitor, a timer that goes off between any two steps of the call that set it | each caller gets a true answer for its device; a discovery ends |
| Location, SMS, contacts, telephone | `engine/jsapi/GpsAPI`, `SmsAPI`, `ContactAPI`, `TelephoneAPI` | one client of the location service | start, stop, getCurrentLocation, permissions | two questions in the middle of a call, while other calls use and disconnect the same client | calls return; updates last from start to stop |
| Images | `engine/jsapi/ImageAPI`, `jsapp/graphics.js` | bitmaps by token | createImage, resizeFit, imageToBuffer, imageToStream, getSize | resizing is asynchronous and gives back nothing to wait for; a token nobody uses up stays; streaming takes two threads of the pool | an image is used once, as written; its token is given back |
| Datagram socket | `jsapp/json_datagram_socket.js` | bytes read so far | data, end, write | messages in pieces | used by nothing in the repository |
| Device configuration, lists, other activities | `engine/ui/*` | none beyond one call | one control call each | - | - |
| Small platform calls | `engine/jsapi/AudioManagerAPI`, `NotifyAPI`, `PlatformAPI`, `SystemAppsAPI`, `UnzipAPI` | none | one stateless call each | - | - |

How they interact: `ControlBinder` and `AssistantAPI` call into Node through the call queue;
`java_api.js` calls Java through the Java invoker; the outcome of an asynchronous Java call
comes back through the native queue.  Streams use both directions at once.  The engine asks
the user for something through the interaction callback, which is the connection of the
activity in front.

## 2. Modules

| Module | Models | State in the code |
|---|---|---|
| `NodeCalls` | what the bridge promises: one FIFO channel, one answer per call | abstract |
| `CallQueue` | the call queue, refining `NodeCalls` | `calls`, `initialized`, `wake` (the async handle), `batch` (the local list of `run_all_asyncs`), `held` (the promise is in a holder), `result` (the shared state of the future) |
| `JavaInvoker` | calls of Java by JavaScript | `callbacks`, `methods`, `nextId`, `natives`, `batch`; `tasks` are entries whose callback a pool thread runs |
| `Images` | extends `JavaInvoker` with `graphics.js` and `ImageAPI` | `ops` (what hangs on `_promise`, in order), `images`, `bitmap`; `scaled` stands for the pixels |
| `Streams` | a stream's chunks and its token on two ways; `channel` is what `CallQueue` implements | `readable` is `_streams` |
| `StreamPool` | the pool and the pipes on the Java side; used through `INSTANCE` | `queue`, `running` of the executor |
| `StreamService` | extends `Streams` and puts `StreamPool` under it: the forwarding of the one is done by the threads of the other | both |
| `Bluetooth` | `BluetoothAPI`, with the adapter and its broadcasts | `pairing`, `fetching`, `fetched` (keys of the maps), `discovering`, `timers` (the calls of `stopDiscovery` still posted); a `pc` and an `address` per thread |
| `AudioRouter` | `AudioRouterAPI` | `refCount`, `ad2p`; a `pc` per thread |
| `SharedPrefs` | `AndroidSharedPreferences` and the Java side | `writes`, `scheduled`, `prefs`, `dirty`, `disk` |
| `ObjectCache` | one bucket of `GenericObjectCache` | `bucket` |
| `LoadImage` | extends `ObjectCache` with tasks and views | `task`, `shows` |
| `EngineLife` | service, `main`, control calls, dispatcher of `assistant.js` | `main` (how far the function is), `open` (`_waitReady`), `engineReady`, `uiReady`, `conversation` |
| `Interaction` | `MainServiceConnection` and how it is called: a request is chosen, entered, posted, served, answered | `table` (`interacting`), `callback`, `looper`, `parent`; `code` is the request code of a caller |
| `Location` | extends `Interaction` with its callers: all of `GpsAPI`, and the question of each of the other APIs | `connected` and `updates` are the client's; `step` is a `pc` per thread |
| `Assistant` | `AssistantDispatcher`, history model, chat activity | `history`, `notifications`, `asking`, `output`, `uiAsk` |
| `ListLemmas` | facts on sequences and on least places used by the proofs | - |
| `CallQueueProofs` | theorems and proofs of `CallQueue` and `EngineLife` | - |
| `JavaInvokerProofs` | of `JavaInvoker` and `Images` | - |
| `StreamProofs` | of `Streams` and `StreamService` with its pool | - |
| `BluetoothProofs`, `AudioRouterProofs` | of these two | - |
| `SharedPrefsProofs` | of what the application stores: `SharedPrefs`, `ObjectCache` and `LoadImage` | - |
| `InteractionProofs` | of what the user sees: `Interaction`, `Location` and `Assistant` | - |

`MC*.tla` and `MC*.cfg` give the constants their values.  One action stands for one handler,
or for the part of it that runs under one lock or in one turn of the event loop.  A
definition whose comment says "altered", or that is described as the opposite of the one
that follows it (`DrainOne`, `PushFront`, ...), is not part of the model: it is a plausible
error, with which the property named in `PROJECT.json` must fail.

What the modules abstract: strings, JSON and base64 (a value is itself, except that it can
be impossible to marshal where the code can refuse it), logging, the look of dialogs.  Libuv
is modelled by what its documentation promises for `uv_async_send`: one callback at least
after the last send.  JavaScript promises are modelled by reactions that run before the loop
is entered again.

Composition.  `CallQueue` refines `NodeCalls`, and `Streams` and `EngineLife` use only that:
a FIFO channel.  `StreamService` is `Streams` with an instance of `StreamPool`: an action of
the service is an action of the one together with the action of the other that it is in the
code (reading a block from an input or a pipe and pushing the chunk), and the streams that
were opened and the blocks that were read are the same variables in both.  `Location` is
`Interaction` with its callers: it adds where each call stands and the client the calls
share, and leaves every step of the request itself to `Interaction`.  `Images` is
`JavaInvoker` with one of its users in full and the others as calls that may come at any
time.  `LoadImage` is `ObjectCache` with its user.  These four implement what they extend,
and this is proved.  The other modules meet at calls whose order `CallQueue` and
`JavaInvoker` fix.

## 3. What is checked

| Run | Bounds | Properties | What it shows |
|---|---|---|---|
| `callQueue` | 2 threads, 2 sync and 1 async call | `IInv`, `BlockedCallerHasOwner`, `OwnedMeansUnsettled`, `ImplementsNodeCalls`, `EveryCallRuns`, `SyncCallerReturns` | boot, coalescing, batches and promise reactions in all orders |
| `images` | 1 image with 4 operations, 3 promises, 1 asynchronous call of another module | `ImagesInv`, `SettledByOwnCall`, `UsedAsWritten`, `FinishedCallSettles` | no promise orphaned or settled by another call; a used image has the resizes before it and no others |
| `streamService` | 1 content stream, 2 image streams, 2 chunks each, a pool of 2 threads, pipes of 1 block | `ServiceInv`, `CompleteUnlessOvertaken`, `TerminalForGood`, `FinishedUnlessOvertaken`, `AllForwarded` | what overtakes the token is the only loss; one thread forwards each stream; no deadlock of the pool below its size in images |
| `bluetooth` | 2 threads, 2 devices of which 1 has a name, 1 of them spelled in two ways, a deadline of 1, 1 event of the environment | `IInv`, `CancelledMeansIt`, `ProbesAreNotLost`, `CallsReturn`, `DiscoveryEnds` | answers are true, calls return and discoveries end outside the disturbances that are named |
| `audioRouter` | 2 executor threads and the script, 2 sessions each, 3 proxies | `IInv`, `ClosedOnceUnlessRaced` | the two races of the class are the only ones |
| `sharedPrefs` | 2 names, 2 values, 3 writes | `IInv`, `ReadYourWrites`, `WritesAreHandedOver` | a kill at any point leaves a prefix |
| `loadImage` | 3 urls in one bucket, 2 tasks, 1 view, times 1 to 3, bucket size 1 | `LoadInv`, `HitIsGood`, `ShowsWanted` | hits are good through expiry, collection, clearing and freshening |
| `engineLife` | 5 calls: a query, a direct call, two onready, a command | `LifeInv`, `GreetedWhenBothReady`, `CallsAreAnswered` | a call made at any moment of opening, running, closing and destruction is answered; both orders of readiness |
| `engineLifeStop` | the same | `DestroyEndsEngine` (violated) | the engine outlives its service |
| `location` | 2 threads, 2 calls, 3 codes, 2 activities | `LocationInv`, `WaiterWillBeAnswered`, `UpdatesLast`, `CallsReturn` | the two ways to lose a request are the only ones; no other call ends the updates |
| `assistant` | 2 messages, 2 commands, 2 connections | `ChatInv`, `FieldMatchesQuestion`, `NoButtonsBeforeAnswer`, `ProgressGoes`, `NotifiedWhileAway` | the conversation with an activity that comes and goes |
| `cachePolicy` | 3 keys, 2 values, bucket size 1 | `PurgesFirstExpiring` (violated) | the purge does not follow its comment |

**The bounds.**  Each property relates at most two actors of a kind and one that disturbs
them, and the bounds are chosen so that such a situation occurs: a batch of two and a call
that arrives during it; a full pool and a task that waits for it; two requests with one
code; a full bucket and a third key; two readers of one device and a timeout; a pool of two
threads, of which one image takes both; two resizes and then a use of the result; a location
call between two questions while another thread stops the client.  `Max...` constants bound
how often the environment acts (sets, sessions, messages, requests, chunks); they guard the
environment's actions only and never cut off what the code does in response.  The size of a
bucket is 3 in the code and the pool has 6 threads; nothing in either class depends on the
number.  The clock of `ObjectCache` stops before the last expiry time, so that some items
never expire.

**Properties with an escape.**  Some properties hold only outside situations that the code
does not handle.  They are recorded in a history variable and named in the property, so that
the run shows that nothing *else* goes wrong: `early` (chunks overtook the token), `raced`
(the two races of the audio router), `lost` in `SharedPrefs` (Java refused a batch), `lost`
in `Interaction` (same code, or activity recreated), `spoiled` in `Bluetooth` (two calls
pair one device; the device has no name, or was bonded since it was looked at; the adapter
is off; a broadcast comes before the bonding has begun), `robbed` (another reader took the
UUIDs that had arrived), `endless` (`discovering` was set after the call's own timer had
gone off, because the user took longer to answer or because the worker thread ran between
two statements of `startDiscovery`), `overtaken` (overlapping loads of one view), `missed`
(the activity was away when a command ended; until a command ends while it is in front),
`alive` (an uncaught throwable).  The properties of `Bluetooth` also except an address that
is not in lower case, which `pairDevice` and `readUUIDs` enter as it is and the broadcasts
never find.  For the hazard behind each of these the run does not say that the code handles
it; it says that the loss described is the only one.

**Fairness.** The event loop thread goes on: its handlers have weak fairness, and the async
handle, which competes with other events of the loop, strong fairness, because libuv polls
every handle in each iteration. Threads that can run do run (weak fairness of each step of a
call, of `StartTask` of the pool, of `Run` and `Finish` of the executor), and the main
thread handles its messages. Timers fire, those of a discovery too, and time passes
(`Tick`). An input that is read ends or fails at some time (`ForwardNext`). A synchronous
Java call returns (`EndUse`). The adapter begins and ends a bonding it was asked for. (In
`Bluetooth` one weak condition over all these steps is enough.) The user answers a dialog
that stays open (`UserAnswers`). Nothing is assumed of what need not happen: no call is
made, no promise of JavaScript settles, no asynchronous Java callback returns, no activity
comes to the front. `engine.run()` may end and need not: nobody calls `engine.stop()`.

**Deadlock** is checked in `callQueue`, where the event loop always has another event, in
`sharedPrefs` and in `loadImage`; the other systems may come to rest when the bounds of
their environment are used up.

## 4. What is proved

The theorems hold for every value of the constants that the assumptions named in the modules
admit; the bounds of section 3 play no part in them.  Every invariant and every action
property that a passing run checks is the statement of a theorem.  In each module the safety
properties are not inductive by themselves; `IInv` (`ImagesInv`, `LocationInv`, `LoadInv`,
`LifeInv`, `ChatInv`, `ServiceInv` in modules that share a proof module with another) is the
conjunction of named parts that is, and TLC checks the same conjunction in the run of the
module.  Each proof has a lemma for the initial states and one for every action.

*The call queue*, in `CallQueueProofs` (`CallQueueAssumption`: the synchronous calls are
calls and `NoCall` is none).  That a blocked caller has an owner depends on where its call
is.  `IInv` adds that the list and the batch have each queued call once and are disjoint
(`ListInv`), that a call belongs to one thread (`ThreadInv`), that nothing is queued before
the receiver is set (`BootInv`), and that an invoked synchronous call has an answer or is
held by a live promise (`AnswerInv`).  `InvariantHolds`, and from it `TypeCorrect`,
`WakeUpsReach`, `CallersNeverAbandoned` and `NeverSettledTwice`.  `ImplementsChannel` proves
that every step of `CallQueue` is a step of `NodeCalls` or leaves its variables alone, with
the channel mapped to the batch followed by the list.

*The life of the engine*, in `CallQueueProofs` too (`EngineLifeAssumption`: a call of the
interface has the name of a control call or of an event of the chat, and is not the one that
`onDestroy` makes).  `LifeInv` says that a call is in the queue exactly while it is sent and
unanswered (`QueueInv`), that `_waitReady` is pending until `main` is past it (`OpenInv`),
that a call waits only while `main` is going to answer it (`WaitersInv`), and that no query
reaches an engine that is not open.
`ConversationBegins` has the two orders of `engineReady` and `_onUIReady`; `AnswersStay` is
an action property of the answers: what closes or fails later does not settle a call again.

*Java calls*, in `JavaInvokerProofs`.  `IInv` says that numbers are fresh and what runs is
in the map (`EntryInv`), that a completion is queued once and for an entry of the map whose
callback ended that way (`CompletionInv`), and that the map is exactly the set of pending
promises (`PendingIsTracked`).  From it: `SettledByOwnCallHolds`, and the action property
`SettledForGood`.

*The images*, in `JavaInvokerProofs` too (`ImagesAssumption`: `NoPromise` is none, and the
bounds are numbers).  `ImagesImplementInvoker`: every step of the images is a step of the
bridge or leaves it alone; so `ImagesKeepInvoker` carries the two over to them.
`ImagesInvHolds` is about what hangs on the promise of an image.  No promise is handed out
twice (`PromiseInv`); operations leave the wait in the order in which the script wrote them,
and one that was called found everything before it fulfilled (`OrderInv`); one use runs at a
time and what was asked after it waits (`UseInv`); the bitmap is there once its creation has
returned (`BitmapInv`), and was resized by exactly the calls that returned, in ascending
order (`ScaledInv`); after the use the token is gone (`UsedInv`).  `UsedAsWrittenHolds`
follows: the resizes run on threads of a pool, but they are chained, so that the image that
is used is the one the script describes.  `TokensGoBack` has the two ways in which a token
is lost as its only exceptions.

*The streams*, in `StreamProofs`.  The invariant follows each chunk: what has arrived, what
is on its way and what is still to be read make up one run of chunks, with the terminal
event last.  From it `CompleteUnlessOvertakenHolds` and the action property
`TerminalForGoodHolds`.  `ServiceImplementsStreams`: every step of the service with its pool
and pipes is a step of `Streams` or leaves it alone; so `ServiceIsSafe` carries the three
over to it.

*The pool under the streams*, in `StreamProofs` too (`StreamServiceAssumption`: the pool has
a thread and a pipe has room for a block).  `PoolInv` says where the tasks are: each in one
place, waiting or running (`InOnePlace`); the forwarding task of a stream in the pool
exactly while it is due (`ForwarderWhileDue`); a compressing task only of an image that was
opened.  That the number of running tasks stays within the pool and that there is exactly
one forwarder (`OneForwarder`) are then statements about cardinalities.  `PoolIsNotBlocked`
is the safety half of `AllForwarded`: a task that is stuck waits for the other task of its
image, two tasks of one image are not stuck together since a pipe is not full and empty, so
a pool all of whose threads are stuck would map its threads one to one into the images that
were opened.  `StuckOnImages` makes this argument with the pigeonhole principle.

*Bluetooth*, in `BluetoothProofs`. The invariant relates the maps to the threads: an entry
has an owner among the calls, who removes it; a thread that waits for a bonding that was not
spoiled has a bonding under way, or a broadcast on its way; overlaps and a device bonded in
between are recorded as spoiled; UUIDs that a reader has heard of are in the map unless
another took them. A discovery that is wanted has a timer to come, or was set after its own
timer had gone off (`DiscoveryWillStop`): a call of `startDiscovery` that has not come to
its end yet may or may not still have its timer, and only the last step looks.
`CancelledMeansItHolds` and `ProbesAreNotLostHolds` follow.

*Questions to the user*, in `InteractionProofs`.  `InteractionInvariant` adds to the two
properties what the map of a connection says of the threads (`TableInv`, `EnteredInv`) and
that a connection in use has a binder (`ConnectionInv`).  `WaiterWillBeAnsweredHolds`
follows.  `LocationImplementsInteraction` and `LocationInvariant` carry this over to the
calls that use it, and `UpdatesLastHolds` is the property of the client they share.

*The conversation*, in `InteractionProofs` too (`AssistantAssumption`: the bounds are
numbers).  `ChatInv` has the order of the commands (`CommandsInOrder`), which is inductive
with `TasksInOrder`: the commands that JavaScript has yet to receive are in the queue of the
executor, each once and in ascending order, so the one taken next is the next one.
`ProgressEnds` names who will take the progress bar away: a command in the queue or running,
or a message on its way to the main thread; or nobody, if the activity missed the end of a
command.  `FieldIsRight` and `ButtonsAreGone` are kept by every step that `ChatInv` allows;
`KeptWhileAway` is the action property of the notifications.

*The audio router*, in `AudioRouterProofs` (`AudioRouterAssumption`: finitely many users).
`IInv` adds that a thread has a proxy exactly while it uses it or gives it back (`MineInv`)
and that a proxy to be found is open outside the races (`ProxyInv`).  The central argument
is about the cardinality of the set of threads between start and stop; the two races appear
as the two places where `raced` must be set for the step to keep `ClosedOnceUnlessRaced`.

*The preferences*, in `SharedPrefsProofs`.  `DiskIsPrefix` is kept by a commit only because
the batches on their way and the writes held back are, in this order, the rest of the log.
`IInv` says so with a function from batches to positions of the log (`LogInv`), and that
what was set is what the log comes to (`WantedInv`).  The lemma behind each step is
`AppliedInTurn`: applying a prefix of the log and then the batch behind it is applying the
longer prefix; it rests on the existence of a last write to a name, which is the
well-foundedness of `<` on the naturals.  `ReadYourWritesHolds` follows.

*The cache and its loader*, in `SharedPrefsProofs` too (`ObjectCacheAssumption`: `None` is
no value; `LoadImageAssumption`: nor a view nor the mark of a task that runs, and icons are
values).  The bucket has one good item per key, and every good item of it is among those
stored and still good (`StoredInv`); the finder of a hit looks for a least place, and a
purge leaves a subsequence of the list, which is what the lemmas on `Subsequence` in
`ListLemmas` are for.  `CacheIsRight` follows for any use of the cache.
`LoadImplementsCache` shows that the loader is such a use, so `LoadHitsAreGood`.
`LoadInvHolds` adds that the icons in the cache are some their url can yield (`IconsInv`)
and that a view whose loads never overlapped has one task at most, for the url it wants
(`ViewInv`), from which `ViewsShowWanted`.

*`ListLemmas`* has what several need of sequences: members and distinctness of `Append`,
`Tail` and concatenation, the places of elements after them, least and greatest places, and
subsequences.

Only model-checked: liveness under fairness in all modules, which is out of the prover's
reach (`EveryCallRuns`, `SyncCallerReturns`, `FinishedCallSettles`,
`FinishedUnlessOvertaken`, `AllForwarded`, `CallsReturn`, `DiscoveryEnds`,
`WritesAreHandedOver`, `CallsAreAnswered`, `ProgressGoes`), and the violations of section 5.

## 5. Where the code and its words differ

* `EngineService.java:107` invokes `stop`; `control.js:19` registers `Control_stop`.  The
  missing method is logged and the engine is never told to stop.  Run `engineLifeStop`.
* `GenericObjectCache.java:118` says the item that expires first is purged; the last one in
  the list is.  Run `cachePolicy`.

Seen and not given a run: the wait of "at most 5 seconds" of `AudioRouterAPI.java:132,166`
is repeated for ever; the check whether "the notification is still there"
(`AssistantDispatcher.java:450`) looks at the time only; `getCurrentLocation` leaves the
shared client connected, and only a `stop` of somebody else disconnects it;
`LoadImageTask.java:52` stores with the absolute time 1000*3600, an hour after 1970, so on a
phone with a set clock no icon is ever found in the cache (the run gives `Expiry` a time the
clock has yet to reach, so that the cache is exercised, and lets the rest of the interface
of the cache, `clear` and other expiry times, run beside the tasks); an image whose data
cannot be decoded has no bitmap, so `getSize` in `graphics.js:27` fails before it gives the
token back, and the token stays in `ImageAPI.images` (`TokenIsGivenBack` names this case,
and the one in which a resize on the way failed).

## 6. Not modelled

- Layout, web pages, forms, lists that show the answer of one control call, and single
  platform calls (`NotifyAPI`, `AudioManagerAPI`, `PlatformAPI`, `SystemAppsAPI`,
  `UnzipAPI`): they keep no state of their own between two steps.
- The conversion of values in `jni/node-launcher-marshal.*`, except that it can be refused:
  the rest is a case distinction over types.
- Pixels, decoding and encoding of images: they are data, and only whether they fail is
  modelled.
- `BluetoothAPI`: start and stop, which register and unregister the receiver; devices that
  were found, which are passed on to JavaScript and change nothing; whether the adapter is
  discovering at the moment, which nothing reads, and with it the restart in
  `onStateChanged` while `discovering` is set.  `SmsAPI`: the receiver, which passes
  messages on.
- The function `stop` of `app.js` and its `_stopped`: it is registered under a name that
  nobody calls.
- `GpsAPI.java:164` ignores the result of `requestLocationUpdates`, so a failure that the
  service reports later is seen by nobody; in `Location` updates that were requested last.
- `GenericObjectCache.java:51,97` read the clock before the monitor: `now` in `ObjectCache`
  is what an operation has read, so a hit can have expired while its thread waited.
- `JavaInvoker::Deinit`, which runs after the event loop has ended; a second launch of Node
  in one process, which the code leaves undefined; the memory effects of
  `EngineService.callback`, a field that is read by other threads without synchronisation.
- The sound of a notification, autocompletion, and the results of the choosers in
  `MainActivity`, which become commands like those modelled.
- `jsapp/json_datagram_socket.js`, which nothing in the repository uses, and
  `smtsolver-http.js`, one HTTP request.
- `thingengine-core` and `almond-dialog-agent`, which are not in the repository and appear
  as what they may do (open succeeds or fails, run ends or goes on).
- The vendored libraries under `jni/`: SQLite, the headers of V8, Node, OpenSSL and GMP.
  They are nearly all of the C and C++ in the repository (some 280 000 lines); the program's
  own C++ is the seven files `node-launcher*`, about 1 500 lines, and the rest of the
  program is Java and JavaScript.

## 7. What could follow

1. The conversation with a clock: the silence after a notification.
2. The life cycle with the device screens as callers of control calls.
3. Proofs: that the answers of `EngineLife` are those of its calls in the order of
   `NodeCalls`, as a refinement; the steps behind the liveness properties, of the kind of
   `PoolIsNotBlocked`: whoever waits is waited for by a step that is possible.
