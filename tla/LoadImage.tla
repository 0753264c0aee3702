----------------------------- MODULE LoadImage -----------------------------
(***************************************************************************)
(* LoadImageTask: the icons of a list whose views are used again for other *)
(* rows.  The UI thread asks the cache and starts a task of the pool when  *)
(* it misses; tasks fetch at their own pace, store what they got, and set  *)
(* the icon of their view back in the UI thread.                           *)
(***************************************************************************)
EXTENDS ObjectCache

CONSTANTS
    Views,      \* ImageViews; the keys of the cache are the urls
    Tasks,      \* tasks that may be in the pool at the same time (a bound)
    Undecodable,\* what createFromStream makes of bytes that are no image: null
    Drawable,   \* [CacheKeys -> SUBSET CacheValues]: what a url can yield, now or later
    Expiry,     \* the third argument of cache.store
    NoImage,    \* what a view shows before its first icon
    Broken      \* stat_notify_error

Pending == "pending"

ASSUME LoadImageAssumption ==
    /\ None \notin Views \cup {Pending}
    /\ Undecodable \in CacheValues
    /\ Drawable \in [CacheKeys -> SUBSET CacheValues]
    /\ Expiry \in Times \ {0}

VARIABLES
    task,       \* [Tasks -> [view, url, image]]; view is None when unused
    shows,      \* the drawable of each view
    wants,      \* history: the url load was last called with, for each view
    overtaken   \* history: views with a load that began before the last ended

taskVars == <<task, shows, wants, overtaken>>
allVars == <<cacheVars, taskVars>>

Idle == [view |-> None, url |-> None, image |-> None]

LTypeOK ==
    /\ CacheTypeOK
    /\ task \in [Tasks -> [view : Views \cup {None}, url : CacheKeys \cup {None},
                           image : CacheValues \cup {None, Pending, Broken}]]
    /\ shows \in [Views -> (CacheValues \ {Undecodable}) \cup {NoImage, Broken}]
    /\ wants \in [Views -> CacheKeys \cup {None}]
    /\ overtaken \subseteq Views

LInit ==
    /\ CacheInit
    /\ task = [t \in Tasks |-> Idle]
    /\ shows = [w \in Views |-> NoImage]
    /\ wants = [w \in Views |-> None]
    /\ overtaken = {}

TasksOf(w) == {t \in Tasks : task[t].view = w}

-----------------------------------------------------------------------------
(* load, when the cache has the image: it is set at once *)
LoadHit(w, u) ==
    /\ HitValue(u) \notin {None, Undecodable}
    /\ Hit(u)
    /\ shows' = [shows EXCEPT ![w] = HitValue(u)]
    /\ wants' = [wants EXCEPT ![w] = u]
    /\ overtaken' = IF TasksOf(w) = {} THEN overtaken \ {w} ELSE overtaken \cup {w}
    /\ UNCHANGED task

(* load, when it has not: a task is given to the pool, and the view keeps
   what it shows meanwhile *)
LoadMiss(w, u, t) ==
    /\ HitValue(u) \in {None, Undecodable}
    /\ Hit(u)
    /\ task[t] = Idle
    /\ task' = [task EXCEPT ![t] = [view |-> w, url |-> u, image |-> Pending]]
    /\ wants' = [wants EXCEPT ![w] = u]
    /\ overtaken' = IF TasksOf(w) = {} THEN overtaken \ {w} ELSE overtaken \cup {w}
    /\ UNCHANGED shows

(* doInBackground, to its end: the image is stored and returned *)
Fetched(t) ==
    /\ task[t].image = Pending
    /\ \E d \in Drawable[task[t].url] :
           /\ Store(task[t].url, d, Expiry)
           /\ task' = [task EXCEPT ![t].image = d]
    /\ UNCHANGED <<shows, wants, overtaken>>

(* doInBackground, when the url cannot be read *)
FetchFailed(t) ==
    /\ task[t].image = Pending
    /\ task' = [task EXCEPT ![t].image = Broken]
    /\ UNCHANGED <<cacheVars, shows, wants, overtaken>>

Done(t) == task[t].image \notin {Pending, None}

(* altered: the icon of a view is left alone when there is no image *)
PostQuietly(t) ==
    /\ Done(t)
    /\ shows' = IF task[t].image \in {Undecodable, Broken} THEN shows
                ELSE [shows EXCEPT ![task[t].view] = task[t].image]
    /\ task' = [task EXCEPT ![t] = Idle]
    /\ UNCHANGED <<cacheVars, wants, overtaken>>

(* altered: no look at what the task returned *)
PostRaw(t) ==
    /\ Done(t)
    /\ shows' = [shows EXCEPT ![task[t].view] = task[t].image]
    /\ task' = [task EXCEPT ![t] = Idle]
    /\ UNCHANGED <<cacheVars, wants, overtaken>>

(* onPostExecute: an error icon for a null drawable *)
Post(t) ==
    /\ Done(t)
    /\ shows' = [shows EXCEPT ![task[t].view] =
                    IF task[t].image = Undecodable THEN Broken ELSE task[t].image]
    /\ task' = [task EXCEPT ![t] = Idle]
    /\ UNCHANGED <<cacheVars, wants, overtaken>>

LNext ==
    \/ \E w \in Views, u \in CacheKeys :
           LoadHit(w, u) \/ \E t \in Tasks : LoadMiss(w, u, t)
    \/ \E t \in Tasks : Fetched(t) \/ FetchFailed(t) \/ Post(t)
    \/ /\ \/ Collect \/ Tick \/ Clear
          \/ \E u \in CacheKeys : ClearKey(u)
          \/ \E u \in CacheKeys, e \in Times : \E d \in Drawable[u] : Store(u, d, e)
       /\ UNCHANGED taskVars

(* Beside the tasks run the collector and the clock.  The last line is the rest
   of the cache's interface, which LoadImageTask itself does not use: clearing,
   and storing with other expiry times what a url yielded. *)
LSpec == LInit /\ [][LNext]_allVars

-----------------------------------------------------------------------------
(* When the loads of a view are over, the view shows the icon of the last url
   it was given, or the error icon -- never the icon of the row it was used
   for before -- provided no load of it began while another was running.  (When
   one did, the tasks end in any order and the last to end wins.) *)
ShowsWanted ==
    \A w \in Views :
        wants[w] # None /\ TasksOf(w) = {} /\ w \notin overtaken
        => shows[w] \in (Drawable[wants[w]] \ {Undecodable}) \cup {Broken}

-----------------------------------------------------------------------------
(* The inductive invariant behind the safety properties, by named parts. *)

(* An icon of the cache is one that its url can yield. *)
IconsInv ==
    \A x \in ToSet(bucket) : x # Cleared => x.value \in Drawable[x.key]

(* A task of the pool has a view, a url and, when it has ended, what it got. *)
TaskInv ==
    \A t \in Tasks :
        IF task[t].view = None THEN task[t] = Idle
        ELSE /\ task[t].url \in CacheKeys
             /\ task[t].image \in Drawable[task[t].url] \cup {Pending, Broken}

(* A view whose loads did not overlap has one task at most, for the url it wants. *)
ViewInv ==
    \A t \in Tasks : task[t].view \in Views \ overtaken =>
        /\ task[t].url = wants[task[t].view]
        /\ TasksOf(task[t].view) = {t}

LoadInv ==
    /\ LTypeOK
    /\ OneItemPerKey /\ StoredInv
    /\ IconsInv /\ TaskInv /\ ViewInv
    /\ ShowsWanted
=============================================================================
