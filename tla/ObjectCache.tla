---------------------------- MODULE ObjectCache ----------------------------
(***************************************************************************)
(* GenericObjectCache, the cache of icons of the user interface: one       *)
(* bucket of it, since the buckets share nothing.  Every operation holds   *)
(* the bucket's monitor from its first to its last step, so each is one    *)
(* action here; what runs beside it is the collector, which may clear the  *)
(* SoftReference of an item at any moment, and the clock.  hit and store   *)
(* read the clock just before they enter the monitor: now is the time an   *)
(* operation has read, so with a wait for the monitor between the two a    *)
(* hit can return an item that expired during that wait.                   *)
(***************************************************************************)
EXTENDS Naturals, SequencesExt

CONSTANTS CacheKeys, CacheValues,
          None,             \* null
          MaxBucketSize,    \* maxBucketSize
          Times,            \* the expiry times; the clock stops before the last
          MaxStored         \* bound on the good items a run remembers having stored

ASSUME ObjectCacheAssumption ==
    /\ None \notin CacheValues
    /\ MaxBucketSize \in Nat \ {0}
    /\ Times \subseteq Nat
    /\ MaxStored \in Nat

VARIABLES
    bucket,     \* ListBucket: items, and Cleared where the collector came by
    now,        \* System.currentTimeMillis()
    stored      \* history: the items stored, not cleared by key and still good

cacheVars == <<bucket, now, stored>>

Item == [key : CacheKeys, value : CacheValues, expires : Times]
Cleared == [key |-> None, value |-> None, expires |-> 0]

CacheTypeOK ==
    /\ bucket \in Seq(Item \cup {Cleared})
    /\ now \in Nat
    /\ stored \subseteq Item
    /\ Len(bucket) <= MaxBucketSize + 1

CacheInit == bucket = <<>> /\ now = 1 /\ stored = {}

-----------------------------------------------------------------------------
(* other == null || other.expires <= now *)
Gone(x) == x = Cleared \/ x.expires <= now

(* Iterator.remove in a loop: the elements of s that are in S, in their order *)
Kept(s, S) ==
    LET F[n \in 0 .. Len(s)] ==
            IF n = 0 THEN <<>>
            ELSE IF s[n] \in S THEN Append(F[n - 1], s[n]) ELSE F[n - 1]
    IN  F[Len(s)]

Purged(s) == Kept(s, {x \in Item : ~Gone(x)})

(* the place of the first good item with this key; 0 if there is none *)
Find(k) ==
    LET hits == {i \in DOMAIN bucket : bucket[i].key = k /\ ~Gone(bucket[i])}
    IN  IF hits = {} THEN 0 ELSE CHOOSE i \in hits : \A j \in hits : i <= j

(* the iteration stops at the item it finds, and has purged what is before *)
PurgedUpTo(s, i) == Purged(SubSeq(s, 1, i)) \o SubSeq(s, i + 1, Len(s))

HitValue(k) == IF Find(k) = 0 THEN None ELSE bucket[Find(k)].value

(* hit, which returns HitValue *)
Hit(k) ==
    LET i == Find(k)
    IN  /\ bucket' = IF i = 0 THEN Purged(bucket) ELSE PurgedUpTo(bucket, i)
        /\ UNCHANGED <<now, stored>>

(* clear(): the whole bucket *)
Clear ==
    /\ bucket' = <<>>
    /\ stored' = {}
    /\ UNCHANGED now

(* clear(key) *)
ClearKey(k) ==
    /\ bucket' = Kept(bucket, {x \in Item : x.key # k})
    /\ stored' = {s \in stored : s.key # k}
    /\ UNCHANGED now

(* altered: only the expiry is freshened *)
FreshenTime(old, item) ==
    IF item.expires > old.expires THEN [old EXCEPT !.expires = item.expires] ELSE old

(* some other thread added it: possibly freshen it *)
Freshen(old, item) == IF item.expires > old.expires THEN item ELSE old

(* What a full bucket gives up: toRemove is replaced at every live item, as
   minExpire stays at Long.MAX_VALUE, until one is found that the collector
   has cleared since the purge, and then only by another such. *)
Room(s) ==
    LET cleared == {i \in DOMAIN s : s[i] = Cleared}
        toRemove == IF cleared = {} THEN Len(s)
                    ELSE CHOOSE i \in cleared : \A j \in cleared : j <= i
    IN  IF Len(s) > MaxBucketSize THEN RemoveAt(s, toRemove) ELSE s

(* The collector clears any of the items, also while a store is running. *)
Collected(s) ==
    {[i \in DOMAIN s |-> IF i \in C THEN Cleared ELSE s[i]] : C \in SUBSET DOMAIN s}

Remember(item) ==
    /\ stored' = IF Gone(item) THEN stored ELSE stored \cup {item}
    /\ Cardinality(stored') <= MaxStored

(* store, of an item that is cacheable (expires # 0) *)
Store(k, v, e) ==
    LET item == [key |-> k, value |-> v, expires |-> e]
        i == Find(k)
    IN  /\ e # 0
        /\ IF i # 0
           THEN bucket' = PurgedUpTo([bucket EXCEPT ![i] = Freshen(@, item)], i)
           ELSE \E s \in Collected(Purged(bucket)) : bucket' = Append(Room(s), item)
        /\ Remember(item)
        /\ UNCHANGED now

Collect ==
    /\ bucket' \in Collected(bucket)
    /\ UNCHANGED <<now, stored>>

Tick ==
    /\ \E t \in Times : now + 1 < t
    /\ now' = now + 1
    /\ stored' = {x \in stored : x.expires > now'}
    /\ UNCHANGED bucket

CacheNext ==
    \/ \E k \in CacheKeys : Hit(k) \/ ClearKey(k)
    \/ \E k \in CacheKeys, v \in CacheValues, e \in Times : Store(k, v, e)
    \/ Clear \/ Collect \/ Tick

CacheSpec == CacheInit /\ [][CacheNext]_cacheVars

-----------------------------------------------------------------------------
(* However stores, hits, clears, expiry and the collector follow each other,
   a bucket has no two good items with the same key, so that a hit does not
   depend on their order and clear(key) leaves nothing behind. *)
OneItemPerKey ==
    \A i, j \in DOMAIN bucket :
        /\ bucket[i] # Cleared /\ bucket[j] # Cleared
        /\ bucket[i].key = bucket[j].key
        => i = j

(* A hit returns a value that was stored under its key since that key was last
   cleared, and that is good for some time yet: freshening an item never lends
   the expiry of one value to another. *)
HitIsGood ==
    \A k \in CacheKeys : HitValue(k) # None =>
        \E x \in stored : x.key = k /\ x.value = HitValue(k) /\ x.expires > now

(* What is remembered as stored is good, and so is every item of the bucket
   that is good among it. *)
StoredInv ==
    /\ \A x \in stored : x.expires > now
    /\ \A x \in ToSet(bucket) : Gone(x) \/ x \in stored

(* "too many items in this bucket, policy: purge the one expiring first"
   (GenericObjectCache.java:118): an item that a store of another key puts out
   while it is good expires no later than the good ones it leaves. *)
PurgesFirstExpiring ==
    [][\A k \in CacheKeys, v \in CacheValues, e \in Times : Store(k, v, e) =>
          \A x, y \in ToSet(bucket) :
              ~Gone(x) /\ ~Gone(y) /\ x.key # k
                /\ ~(\E i \in DOMAIN bucket' : bucket'[i].key = x.key)
                /\ ~(\E i \in DOMAIN bucket' : bucket'[i] = Cleared)
                /\ y \in ToSet(bucket')
              => x.expires <= y.expires]_cacheVars
=============================================================================
