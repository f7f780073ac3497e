------------------------------ MODULE ModelManager ------------------------------
(***************************************************************************)
(* runtime/model_manager.py: the cache of loaded models of one process,    *)
(* with reference counts, loads outside the lock and eviction of entries   *)
(* nobody uses.  A model is named after the thread that loaded it.  A      *)
(* critical section is two steps, Enter and what it does, because another  *)
(* thread may fork in between (module StageProcess).                       *)
(***************************************************************************)
EXTENDS Naturals, FiniteSets

CONSTANTS
    Threads,   \* threads of the process
    Loaders,   \* threads whose models it may have, its own and those it inherits
    Keys,      \* (kind, model_name, device)
    CacheMax,  \* MODEL_CACHE_MAX
    None,      \* no model; nobody has the lock
    Dead       \* a thread that has the lock and does not exist

ASSUME ModelManagerAssumption ==
    /\ Threads \subseteq Loaders
    /\ CacheMax \in Nat \ {0}
    /\ IsFiniteSet(Keys) /\ IsFiniteSet(Threads)
    /\ None \notin Loaders \cup Keys /\ Dead \notin Loaders /\ None # Dead

VARIABLES
    model,  \* the cache: the model of each key, or None
    refs,   \* the reference count of each entry
    lock,   \* who has _lock
    pc,     \* where each thread is
    want,   \* the key it asks for, None while it rests
    has     \* the model it was given

mmVars == <<model, refs, lock, pc, want, has>>

Outside == {"rest", "ask", "load", "back", "use", "leave"}
Inside == {"look", "insert", "release"}
Using == {"use", "leave", "release"}

MMTypeOK ==
    /\ model \in [Keys -> Loaders \cup {None}]
    /\ refs \in [Keys -> Nat]
    /\ lock \in Threads \cup {None, Dead}
    /\ pc \in [Threads -> Outside \cup Inside]
    /\ want \in [Threads -> Keys \cup {None}]
    /\ has \in [Threads -> Loaders \cup {None}]

MMInit ==
    /\ model = [k \in Keys |-> None] /\ refs = [k \in Keys |-> 0]
    /\ lock = None
    /\ pc = [t \in Threads |-> "rest"]
    /\ want = [t \in Threads |-> None]
    /\ has = [t \in Threads |-> None]

Goto(t, l) == pc' = [pc EXCEPT ![t] = l]

\* _evict_if_needed: entries without references go until the cache fits or none is
\* left.  Which ones (the least recently used) is left open.
Cached(m) == {k \in Keys : m[k] # None}

\* Mutant: an entry with one user counts as unused.
IdleOrOne(m, r) == {k \in Cached(m) : r[k] <= 1}

Idle(m, r) == {k \in Cached(m) : r[k] = 0}

Evicted(m, r) ==
    {[k \in Keys |-> IF k \in gone THEN None ELSE m[k]] :
        gone \in {V \in SUBSET Idle(m, r) :
                    \/ Cardinality(Cached(m) \ V) = CacheMax
                    \/ Cardinality(Cached(m)) <= CacheMax /\ V = {}
                    \/ Cardinality(Cached(m) \ V) > CacheMax /\ V = Idle(m, r)}}

\* get_whisper, get_tts: a first look, a load without the lock, a second look.
Want(t, k) ==
    /\ pc[t] = "rest"
    /\ want' = [want EXCEPT ![t] = k] /\ Goto(t, "ask")
    /\ UNCHANGED <<model, refs, lock, has>>

\* Mutant: a model found by the second look is not counted.
FoundUncounted(t) ==
    /\ pc[t] \in {"look", "insert"} /\ model[want[t]] # None
    /\ refs' = [refs EXCEPT ![want[t]] = IF pc[t] = "look" THEN @ + 1 ELSE @]
    /\ has' = [has EXCEPT ![t] = model[want[t]]]
    /\ lock' = None /\ Goto(t, "use")
    /\ UNCHANGED <<model, want>>

Enter(t) ==
    /\ lock = None /\ pc[t] \in {"ask", "back", "leave"}
    /\ lock' = t
    /\ Goto(t, CASE pc[t] = "ask" -> "look" [] pc[t] = "back" -> "insert"
                 [] OTHER -> "release")
    /\ UNCHANGED <<model, refs, want, has>>

Found(t) ==
    /\ pc[t] \in {"look", "insert"} /\ model[want[t]] # None
    /\ refs' = [refs EXCEPT ![want[t]] = @ + 1]
    /\ has' = [has EXCEPT ![t] = model[want[t]]]
    /\ lock' = None /\ Goto(t, "use")
    /\ UNCHANGED <<model, want>>

Missed(t) ==
    /\ pc[t] = "look" /\ model[want[t]] = None
    /\ lock' = None /\ Goto(t, "load")
    /\ UNCHANGED <<model, refs, want, has>>

\* The load takes as long as it takes; it may fail (not installed, offline, no memory).
Loaded(t) ==
    /\ pc[t] = "load"
    /\ has' = [has EXCEPT ![t] = t] /\ Goto(t, "back")
    /\ UNCHANGED <<model, refs, lock, want>>

LoadFails(t) ==
    /\ pc[t] = "load"
    /\ want' = [want EXCEPT ![t] = None] /\ Goto(t, "rest")
    /\ UNCHANGED <<model, refs, lock, has>>

Insert(t) ==
    /\ pc[t] = "insert" /\ model[want[t]] = None
    /\ refs' = [refs EXCEPT ![want[t]] = 1]
    /\ model' \in Evicted([model EXCEPT ![want[t]] = has[t]], refs')
    /\ lock' = None /\ Goto(t, "use")
    /\ UNCHANGED <<want, has>>

\* release, at the end of acquire_whisper and acquire_tts.
Leave(t) ==
    /\ pc[t] = "use"
    /\ Goto(t, "leave")
    /\ UNCHANGED <<model, refs, lock, want, has>>

Less(k) == refs' = [refs EXCEPT ![k] = IF @ = 0 THEN 0 ELSE @ - 1]

Release(t) ==
    /\ pc[t] = "release"
    /\ IF model[want[t]] = None
         THEN UNCHANGED <<model, refs>>
         ELSE Less(want[t]) /\ model' \in Evicted(model, refs')
    /\ want' = [want EXCEPT ![t] = None] /\ has' = [has EXCEPT ![t] = None]
    /\ lock' = None /\ Goto(t, "rest")

Serve(t) ==
    \/ Enter(t) \/ Found(t) \/ Missed(t) \/ Loaded(t) \/ LoadFails(t) \/ Insert(t)
    \/ Release(t)

\* A prewarm thread acquires one model after the other and does nothing with them.
Prewarm(t, ks) == (\E k \in ks : Want(t, k)) \/ Leave(t) \/ Serve(t)

MMNext == \E t \in Threads : Prewarm(t, Keys)

MMSpec == MMInit /\ [][MMNext]_mmVars

-----------------------------------------------------------------------------

Users(k) == {t \in Threads : pc[t] \in Using /\ want[t] = k}

\* Every entry counts exactly its users, through racing loads, prefetches and
\* evictions: one too many is never evicted, one too few is evicted in use.
RefsAreUsers == \A k \in Keys : refs[k] = Cardinality(Users(k))

\* All users of a key use one model, the cached one: it is never loaded twice for
\* two users, nor evicted under one.
UsersShareOneModel ==
    \A t \in Threads : pc[t] \in Using => model[want[t]] = has[t] /\ has[t] # None

\* The cache is larger than MODEL_CACHE_MAX only while all of it is in use.
CacheIsBounded ==
    Cardinality(Cached(model)) > CacheMax => \A k \in Cached(model) : refs[k] > 0

==============================================================================
