-------------------------------- MODULE Cache --------------------------------
(***************************************************************************)
(* One key of a cache and the calls that go through it: StateCache, an     *)
(* entry of the persisted state, behind useCacheUntil, or InMemoryCache    *)
(* behind either wrapper. A call ends a step where the code awaits.        *)
(***************************************************************************)
EXTENDS Integers

CONSTANTS
    Callers,    \* calls of the wrapped function
    MaxTime,    \* bound of the clock
    Ttl,        \* ttlMilliseconds of useCache
    Nothing     \* no entry, no known expiry

CacheAssumption ==
    /\ MaxTime \in Nat
    /\ Ttl \in Nat
    /\ Nothing \notin Int
    /\ Nothing \notin [exp : Int, good : Int, took : Int]

VARIABLES
    clock,      \* Date.now()
    store,      \* where entries are kept: "state" or "memory"
    wrapper,    \* "useCache" or "useCacheUntil"
    entry,      \* the entry: exp is expiresAt; good and took only remember until when its
                \* value was meant to be used (or when it was asked for, if that is
                \* later) and how long it was under way
    expiryMap,  \* useCacheUntil: the expiry the wrapper remembers
    call        \* what each call knows: when it looked at the clock, the entry it
                \* saw, the new one and its expiry (until)

cacheVars == <<clock, store, wrapper, entry, expiryMap, call>>

Time   == 0..MaxTime
Entry  == [exp : 0..(2 * MaxTime + Ttl), good : 0..(MaxTime + Ttl), took : Time]
NoCall == [pc |-> "idle", looked |-> 0, seen |-> Nothing, new |-> Nothing, until |-> 0]
Call   == [pc : {"idle", "read", "clean", "keep", "test", "memory", "fetch", "set", "publish", "hit"},
           looked : Time, seen : Entry \cup {Nothing}, new : Entry \cup {Nothing},
           until : 0..(MaxTime + Ttl)]

TypeOK ==
    /\ clock \in Time
    /\ store \in {"state", "memory"}
    /\ wrapper \in {"useCache", "useCacheUntil"}
    /\ entry \in Entry \cup {Nothing}
    /\ expiryMap \in 0..(MaxTime + Ttl) \cup {Nothing}
    /\ call \in [Callers -> Call]

MaxOf(a, b) == IF a >= b THEN a ELSE b

Expired(e) == e # Nothing /\ e.exp < clock

Init ==
    /\ clock = 0
    /\ store \in {"state", "memory"}
    /\ wrapper \in {"useCache", "useCacheUntil"}
    /\ store = "state" => wrapper = "useCacheUntil"
    /\ entry = Nothing
    /\ expiryMap = Nothing
    /\ call = [c \in Callers |-> NoCall]

\* A call of the wrapped function. Unless it was built with refreshCache, or the
\* wrapper knows that the entry is past its time, it asks the cache; the
\* cache in memory removes what has expired before the first await of get.
Ask(c, refresh) ==
    LET asks == ~refresh /\ (wrapper = "useCache" \/ expiryMap = Nothing \/ clock < expiryMap)
    IN  /\ call[c].pc \in {"idle", "hit"}
        /\ call' = [call EXCEPT ![c] = [NoCall EXCEPT
                        !.pc = IF ~asks THEN "fetch" ELSE IF store = "state" THEN "read" ELSE "memory",
                        !.looked = clock]]
        /\ entry' = IF asks /\ store = "memory" /\ Expired(entry) THEN Nothing ELSE entry
        /\ UNCHANGED <<clock, store, wrapper, expiryMap>>

\* InMemoryCache.mget after its clean-up: what is there is answered.
ReadMemory(c) ==
    /\ call[c].pc = "memory"
    /\ call' = [call EXCEPT ![c].pc = IF entry = Nothing THEN "fetch" ELSE "hit",
                            ![c].seen = entry]
    /\ UNCHANGED <<clock, store, wrapper, entry, expiryMap>>

\* StateCache.mget: a snapshot of the entries; what has expired by now is deleted
\* by an update of the state, which is awaited also when there is nothing to delete.
ReadState(c) ==
    /\ call[c].pc = "read"
    /\ call' = [call EXCEPT ![c].pc = IF Expired(entry) THEN "clean" ELSE "keep",
                            ![c].seen = entry]
    /\ UNCHANGED <<clock, store, wrapper, entry, expiryMap>>

\* StateCache.mdelete, by key: whatever is there now goes.
CleanState(c) ==
    /\ call[c].pc = "clean"
    /\ entry' = Nothing
    /\ call' = [call EXCEPT ![c].pc = "test"]
    /\ UNCHANGED <<clock, store, wrapper, expiryMap>>

\* The rest of mget: the entry of the snapshot is tested again and answered.
Test(c) ==
    LET miss == call[c].seen = Nothing \/ Expired(call[c].seen)
    IN  /\ call[c].pc \in {"keep", "test"}
        /\ call' = IF miss THEN [call EXCEPT ![c].pc = "fetch", ![c].seen = Nothing]
                   ELSE [call EXCEPT ![c].pc = "hit", ![c].looked = clock]
        /\ UNCHANGED <<clock, store, wrapper, entry, expiryMap>>

\* Reading or cleaning up the state fails: the wrapper logs it and fetches.
GetFails(c) ==
    /\ call[c].pc \in {"read", "clean", "keep"}
    /\ call' = [call EXCEPT ![c].pc = "fetch", ![c].seen = Nothing]
    /\ UNCHANGED <<clock, store, wrapper, entry, expiryMap>>

\* The wrapped function answers; its result is good until a time it names (of the
\* past too), or for the fixed time to live. The time to live of useCacheUntil
\* is counted from the start of the call and the entry expires that long after now.
Fetched(c, good) ==
    LET until == IF wrapper = "useCache" THEN clock + Ttl ELSE good
        new   == [exp  |-> clock + (IF wrapper = "useCache" THEN Ttl
                                    ELSE MaxOf(0, until - call[c].looked)),
                  good |-> MaxOf(until, call[c].looked),
                  took |-> IF wrapper = "useCache" THEN 0 ELSE clock - call[c].looked]
    IN  /\ call[c].pc = "fetch"
        /\ entry' = IF store = "memory" THEN new ELSE entry
        /\ call' = [call EXCEPT ![c] =
               IF wrapper = "useCache" THEN NoCall
               ELSE [NoCall EXCEPT !.pc = IF store = "memory" THEN "publish" ELSE "set",
                                   !.new = IF store = "memory" THEN Nothing ELSE new,
                                   !.until = until]]
        /\ UNCHANGED <<clock, store, wrapper, expiryMap>>

FetchFails(c) ==
    /\ call[c].pc = "fetch"
    /\ call' = [call EXCEPT ![c] = NoCall]
    /\ UNCHANGED <<clock, store, wrapper, entry, expiryMap>>

\* StateCache.set: the entry made when set was called reaches the state.
SetState(c) ==
    /\ call[c].pc = "set"
    /\ entry' = call[c].new
    /\ call' = [call EXCEPT ![c].pc = "publish", ![c].new = Nothing]
    /\ UNCHANGED <<clock, store, wrapper, expiryMap>>

SetFails(c) ==
    /\ call[c].pc = "set"
    /\ call' = [call EXCEPT ![c].pc = "publish", ![c].new = Nothing]
    /\ UNCHANGED <<clock, store, wrapper, entry, expiryMap>>

\* useCacheUntil remembers the expiry and returns.
Publish(c) ==
    /\ call[c].pc = "publish"
    /\ expiryMap' = call[c].until
    /\ call' = [call EXCEPT ![c] = NoCall]
    /\ UNCHANGED <<clock, store, wrapper, entry>>

\* delete and clear by others.
Delete ==
    /\ entry # Nothing
    /\ entry' = Nothing
    /\ UNCHANGED <<clock, store, wrapper, expiryMap, call>>

Tick ==
    /\ clock < MaxTime
    /\ clock' = clock + 1
    /\ UNCHANGED <<store, wrapper, entry, expiryMap, call>>

\* The snap is stopped: only the state survives.
Restart ==
    /\ call' = [c \in Callers |-> NoCall]
    /\ expiryMap' = Nothing
    /\ entry' = IF store = "memory" THEN Nothing ELSE entry
    /\ UNCHANGED <<clock, store, wrapper>>

Work(c) ==
    \/ Ask(c, FALSE)
    \/ ReadMemory(c)
    \/ ReadState(c)
    \/ CleanState(c)
    \/ Test(c)
    \/ \E good \in clock..MaxTime : Fetched(c, good)
    \/ SetState(c)
    \/ Publish(c)

Trouble(c) ==
    \/ Ask(c, TRUE)
    \/ \E good \in 0..(clock - 1) : Fetched(c, good)
    \/ GetFails(c)
    \/ FetchFails(c)
    \/ SetFails(c)

Next ==
    \/ \E c \in Callers : Work(c) \/ Trouble(c)
    \/ Delete
    \/ Tick
    \/ Restart

Spec == Init /\ [][Next]_cacheVars

------------------------------------------------------------------------------
\* How late a cached value is answered. useCacheUntil is told until when a value is
\* good, but StateCache counts the time to live from when it is written, and a
\* restart or an expiry not yet remembered lets such a value through: it is
\* late by no more than the time its own fetch took.
StaleBounded ==
    \A c \in Callers :
        call[c].pc = "hit" => call[c].looked <= call[c].seen.good + call[c].seen.took

\* Once nothing fails and what is fetched is good for now, a value is cached and stays: an
\* entry that expires at this very moment is still used, or it would be fetched for ever.
FairWork == \A c \in Callers : WF_cacheVars(Work(c))

EventuallyCached == (<>[][\E c \in Callers : Work(c)]_cacheVars) => <>[](entry # Nothing)

==============================================================================
