------------------------------ MODULE StageProofs ------------------------------
(***************************************************************************)
(* For any number of threads and models: the reference counts of the cache *)
(* are its users, users of a key share one model, and the cache is over    *)
(* its size only while all of it is in use.  StageProcess keeps these for  *)
(* the server's cache, and its worker never goes on beside a process of a  *)
(* stage nor loses its result; all of it keeps its types, and a half-open  *)
(* breaker of recognition hears of the trial it let through.               *)
(***************************************************************************)
EXTENDS StageProcess, FiniteSetTheorems, TLAPS

\* An eviction takes only entries without references, and stops where it should.
LEMMA EvictedFacts ==
    ASSUME NEW m \in [Keys -> Loaders \cup {None}], NEW r \in [Keys -> Nat],
           NEW e \in Evicted(m, r)
    PROVE  /\ e \in [Keys -> Loaders \cup {None}]
           /\ \A k \in Keys : e[k] = m[k] \/ (e[k] = None /\ m[k] # None /\ r[k] = 0)
           /\ Cardinality(Cached(e)) > CacheMax => \A k \in Cached(e) : r[k] > 0
<1>1. PICK V \in SUBSET Idle(m, r) :
         /\ \/ Cardinality(Cached(m) \ V) = CacheMax
            \/ Cardinality(Cached(m)) <= CacheMax /\ V = {}
            \/ Cardinality(Cached(m) \ V) > CacheMax /\ V = Idle(m, r)
         /\ e = [k \in Keys |-> IF k \in V THEN None ELSE m[k]]
  BY DEF Evicted
<1>2. e \in [Keys -> Loaders \cup {None}]
  BY <1>1
<1>3. \A k \in Keys : e[k] = m[k] \/ (e[k] = None /\ m[k] # None /\ r[k] = 0)
  BY <1>1 DEF Idle, Cached
<1>4. Cached(e) = Cached(m) \ V
  BY <1>1 DEF Cached
<1>5. ASSUME Cardinality(Cached(e)) > CacheMax, NEW k \in Cached(e)
      PROVE  r[k] > 0
  <2>1. IsFiniteSet(Cached(m)) /\ IsFiniteSet(Cached(e))
    BY ModelManagerAssumption, FS_Subset DEF Cached
  <2>2. Cardinality(Cached(e)) \in Nat /\ CacheMax \in Nat
    BY <2>1, FS_CardinalityType, ModelManagerAssumption
  <2>3. V # {} \/ Cardinality(Cached(m)) > CacheMax
    BY <1>4, <1>5, <2>2
  <2>4. V = Idle(m, r)
    <3>1. CASE V = {}
      BY <3>1, <1>1, <1>4, <1>5, <2>2
    <3>2. CASE V # {}
      BY <3>2, <1>1, <1>4, <1>5, <2>2
    <3> QED BY <3>1, <3>2
  <2>5. k \in Keys /\ k \notin Idle(m, r) /\ k \in Cached(m)
    BY <1>4, <1>5, <2>4 DEF Cached
  <2> QED
    BY <2>5 DEF Idle
<1> QED
  BY <1>2, <1>3, <1>5

\* The invariant: a thread inside the critical section has the lock, and a model that
\* was loaded and not yet inserted is there.
MMInv ==
    /\ MMTypeOK
    /\ RefsAreUsers
    /\ UsersShareOneModel
    /\ CacheIsBounded
    /\ \A t \in Threads : pc[t] \in Inside => lock = t
    /\ \A t \in Threads : pc[t] # "rest" => want[t] \in Keys
    /\ \A t \in Threads : pc[t] \in {"back", "insert"} => has[t] # None

LEMMA UsersFinite == \A k \in Keys : IsFiniteSet(Users(k)) /\ Cardinality(Users(k)) \in Nat
<1> TAKE k \in Keys
<1>1. IsFiniteSet(Users(k))
  BY ModelManagerAssumption, FS_Subset DEF Users
<1> QED BY <1>1, FS_CardinalityType

LEMMA MMInitInv == MMInit => MMInv
<1> SUFFICES ASSUME MMInit PROVE MMInv
  OBVIOUS
<1>1. \A k \in Keys : Users(k) = {}
  BY DEF MMInit, Users, Using
<1>2. RefsAreUsers
  BY <1>1, FS_EmptySet DEF MMInit, RefsAreUsers
<1>3. Cached(model) = {}
  BY DEF MMInit, Cached
<1>4. CacheIsBounded
  BY <1>3 DEF CacheIsBounded
<1> QED
  BY <1>2, <1>4 DEF MMInit, MMInv, MMTypeOK, UsersShareOneModel, Using, Inside, Outside

\* Who uses what changes by at most the thread that moves.
LEMMA UsersUnchanged ==
    ASSUME \A t \in Threads : (pc'[t] \in Using) = (pc[t] \in Using),
           \A t \in Threads : pc[t] \in Using => want'[t] = want[t]
    PROVE  \A k \in Keys : Users(k)' = Users(k)
BY DEF Users

LEMMA UsersGain ==
    ASSUME NEW t \in Threads, MMTypeOK, pc[t] \notin Using, pc'[t] \in Using, want' = want,
           want[t] \in Keys,
           \A u \in Threads \ {t} : pc'[u] = pc[u]
    PROVE  /\ \A k \in Keys : k # want[t] => Users(k)' = Users(k)
           /\ Cardinality(Users(want[t])') = Cardinality(Users(want[t])) + 1
<1>1. \A k \in Keys : k # want[t] => Users(k)' = Users(k)
  BY DEF Users
<1>2. Users(want[t])' = Users(want[t]) \cup {t} /\ t \notin Users(want[t])
  BY DEF Users
<1>3. Cardinality(Users(want[t])') = Cardinality(Users(want[t])) + 1
  BY <1>2, UsersFinite, FS_AddElement
<1> QED BY <1>1, <1>3

LEMMA UsersLose ==
    ASSUME NEW t \in Threads, NEW k \in Keys, MMTypeOK, pc[t] \in Using, pc'[t] \notin Using,
           k = want[t], \A u \in Threads \ {t} : pc'[u] = pc[u] /\ want'[u] = want[u]
    PROVE  /\ \A j \in Keys : j # k => Users(j)' = Users(j)
           /\ Cardinality(Users(k)') = Cardinality(Users(k)) - 1
           /\ Cardinality(Users(k)) > 0
<1>1. \A j \in Keys : j # k => Users(j)' = Users(j)
  BY DEF Users
<1>2. Users(k)' = Users(k) \ {t} /\ t \in Users(k)
  BY DEF Users
<1>3. Cardinality(Users(k) \ {t}) = Cardinality(Users(k)) - 1
  BY <1>2, UsersFinite, FS_RemoveElement
<1>4. Cardinality(Users(k)) > 0
  BY <1>2, UsersFinite, FS_EmptySet
<1> QED BY <1>1, <1>2, <1>3, <1>4

LEMMA WantInv == ASSUME MMInv, NEW t \in Threads, NEW k \in Keys, Want(t, k) PROVE MMInv'
<1> USE DEF MMInv, MMTypeOK, Want, Goto, Inside, Outside, Using
<1>1. MMTypeOK'
  BY ModelManagerAssumption
<1>2. \A j \in Keys : Users(j)' = Users(j)
  BY UsersUnchanged
<1>3. RefsAreUsers'
  BY <1>2 DEF RefsAreUsers
<1>4. UsersShareOneModel'
  BY DEF UsersShareOneModel
<1>5. CacheIsBounded'
  BY DEF CacheIsBounded, Cached
<1> QED BY <1>1, <1>3, <1>4, <1>5

LEMMA EnterInv == ASSUME MMInv, NEW t \in Threads, Enter(t) PROVE MMInv'
<1> USE DEF MMInv, MMTypeOK, Enter, Goto, Inside, Outside, Using
<1>0. None \notin Threads
  BY ModelManagerAssumption
<1>1. MMTypeOK'
  OBVIOUS
<1>2. \A j \in Keys : Users(j)' = Users(j)
  BY UsersUnchanged
<1>3. RefsAreUsers'
  BY <1>2 DEF RefsAreUsers
<1>4. UsersShareOneModel'
  BY DEF UsersShareOneModel
<1>5. CacheIsBounded'
  BY DEF CacheIsBounded, Cached
<1>6. (\A u \in Threads : pc[u] \in Inside => lock = u)'
  BY <1>0
<1> QED BY <1>1, <1>3, <1>4, <1>5, <1>6

LEMMA FoundInv == ASSUME MMInv, NEW t \in Threads, Found(t) PROVE MMInv'
<1> USE DEF MMInv, MMTypeOK, Found, Goto, Inside, Outside, Using
<1> DEFINE k == want[t]
<1>0. k \in Keys /\ lock = t
  OBVIOUS
<1>1. MMTypeOK'
  BY <1>0
<1>2. /\ \A j \in Keys : j # k => Users(j)' = Users(j)
      /\ Cardinality(Users(k)') = Cardinality(Users(k)) + 1
  BY <1>0, UsersGain
<1>3. RefsAreUsers'
  BY <1>0, <1>2 DEF RefsAreUsers
<1>4. UsersShareOneModel'
  BY <1>0 DEF UsersShareOneModel
<1>5. CacheIsBounded'
  BY <1>0 DEF CacheIsBounded, Cached
<1>6. (\A u \in Threads : pc[u] \in Inside => lock = u)'
  BY <1>0
<1> QED BY <1>1, <1>3, <1>4, <1>5, <1>6

LEMMA MissedInv == ASSUME MMInv, NEW t \in Threads, Missed(t) PROVE MMInv'
<1> USE DEF MMInv, MMTypeOK, Missed, Goto, Inside, Outside, Using
<1>1. MMTypeOK'
  OBVIOUS
<1>2. \A j \in Keys : Users(j)' = Users(j)
  BY UsersUnchanged
<1>3. RefsAreUsers'
  BY <1>2 DEF RefsAreUsers
<1>4. UsersShareOneModel'
  BY DEF UsersShareOneModel
<1>5. CacheIsBounded'
  BY DEF CacheIsBounded, Cached
<1>6. (\A u \in Threads : pc[u] \in Inside => lock = u)'
  OBVIOUS
<1> QED BY <1>1, <1>3, <1>4, <1>5, <1>6

LEMMA LoadInv ==
    ASSUME MMInv, NEW t \in Threads, Loaded(t) \/ LoadFails(t) \/ Leave(t) PROVE MMInv'
<1> USE DEF MMInv, MMTypeOK, Loaded, LoadFails, Leave, Goto, Inside, Outside, Using
<1>0. Threads \subseteq Loaders /\ None \notin Loaders
  BY ModelManagerAssumption
<1>1. MMTypeOK'
  BY <1>0
<1>2. \A j \in Keys : Users(j)' = Users(j)
  BY UsersUnchanged
<1>3. RefsAreUsers'
  BY <1>2 DEF RefsAreUsers
<1>4. UsersShareOneModel'
  BY DEF UsersShareOneModel
<1>5. CacheIsBounded'
  BY DEF CacheIsBounded, Cached
<1>6. (\A u \in Threads : pc[u] \in {"back", "insert"} => has[u] # None)'
  BY <1>0
<1> QED BY <1>1, <1>3, <1>4, <1>5, <1>6

LEMMA InsertInv == ASSUME MMInv, NEW t \in Threads, Insert(t) PROVE MMInv'
<1> USE DEF MMInv, MMTypeOK, Insert, Goto, Inside, Outside, Using
<1> DEFINE k == want[t]
           m == [model EXCEPT ![k] = has[t]]
<1>0. k \in Keys /\ lock = t /\ has[t] # None /\ model[k] = None
  OBVIOUS
<1>1. m \in [Keys -> Loaders \cup {None}] /\ refs' \in [Keys -> Nat] /\ model' \in Evicted(m, refs')
  BY <1>0
<1>2. /\ model' \in [Keys -> Loaders \cup {None}]
      /\ \A j \in Keys : model'[j] = m[j] \/ (model'[j] = None /\ m[j] # None /\ refs'[j] = 0)
      /\ Cardinality(Cached(model')) > CacheMax => \A j \in Cached(model') : refs'[j] > 0
  BY ONLY <1>1, EvictedFacts
<1>3. MMTypeOK'
  BY <1>0, <1>1, <1>2
<1>4. Users(k) = {}
  BY <1>0 DEF UsersShareOneModel, Users
<1>5. /\ \A j \in Keys : j # k => Users(j)' = Users(j)
      /\ Cardinality(Users(k)') = Cardinality(Users(k)) + 1
  BY <1>0, UsersGain
<1>6. RefsAreUsers'
  BY <1>0, <1>4, <1>5, FS_EmptySet DEF RefsAreUsers
<1>7. ASSUME NEW u \in Threads, pc'[u] \in Using
      PROVE  model'[want'[u]] = has'[u] /\ has'[u] # None
  <2>1. CASE u = t
    BY <2>1, <1>0, <1>2
  <2>2. CASE u # t
    <3>1. /\ pc[u] \in Using /\ want'[u] = want[u] /\ want[u] \in Keys /\ has'[u] = has[u]
          /\ model[want[u]] = has[u] /\ has[u] # None
      BY <1>7, <2>2 DEF UsersShareOneModel
    <3>2. want[u] # k
      BY <3>1, <1>0
    <3>3. u \in Users(want[u]) /\ refs[want[u]] = Cardinality(Users(want[u]))
      BY <3>1 DEF Users, RefsAreUsers
    <3>4. refs[want[u]] > 0
      BY <3>1, <3>3, UsersFinite, FS_EmptySet
    <3> QED
      BY <1>2, <3>1, <3>2, <3>4
  <2> QED BY <2>1, <2>2
<1>8. CacheIsBounded'
  BY <1>2 DEF CacheIsBounded, Cached
<1>9. (\A u \in Threads : pc[u] \in Inside => lock = u)'
  BY <1>0
<1> QED BY <1>3, <1>6, <1>7, <1>8, <1>9 DEF UsersShareOneModel

LEMMA ReleaseInv == ASSUME MMInv, NEW t \in Threads, Release(t) PROVE MMInv'
<1> USE DEF MMInv, MMTypeOK, Release, Less, Goto, Inside, Outside, Using
<1> PICK k \in Keys : k = want[t]
  OBVIOUS
<1>0. lock = t /\ model[k] # None
  BY DEF UsersShareOneModel
<1>1. /\ model \in [Keys -> Loaders \cup {None}]
      /\ refs' \in [Keys -> Nat] /\ model' \in Evicted(model, refs')
  BY <1>0
<1>9. refs' = [refs EXCEPT ![k] = IF @ = 0 THEN 0 ELSE @ - 1]
  BY <1>0
<1>2. /\ model' \in [Keys -> Loaders \cup {None}]
      /\ \A j \in Keys : model'[j] = model[j] \/ (model'[j] = None /\ model[j] # None /\ refs'[j] = 0)
      /\ Cardinality(Cached(model')) > CacheMax => \A j \in Cached(model') : refs'[j] > 0
  BY ONLY <1>1, EvictedFacts
<1>3. MMTypeOK'
  BY <1>0, <1>1, <1>2
<1>4. /\ \A j \in Keys : j # k => Users(j)' = Users(j)
      /\ Cardinality(Users(k)') = Cardinality(Users(k)) - 1
      /\ Cardinality(Users(k)) > 0
  BY <1>0, UsersLose
<1>5. RefsAreUsers'
  BY <1>0, <1>4, <1>9, UsersFinite DEF RefsAreUsers
<1>6. ASSUME NEW u \in Threads, pc'[u] \in Using
      PROVE  model'[want'[u]] = has'[u] /\ has'[u] # None
  <2>1. /\ u # t /\ pc'[u] = pc[u] /\ want'[u] = want[u] /\ has'[u] = has[u]
        /\ want[u] \in Keys /\ model[want[u]] = has[u] /\ has[u] # None
    BY <1>6 DEF UsersShareOneModel
  <2>2. u \in Users(want[u])' /\ refs'[want[u]] = Cardinality(Users(want[u])')
    BY <1>5, <1>6, <2>1 DEF Users, RefsAreUsers
  <2>3. IsFiniteSet(Users(want[u])') /\ Cardinality(Users(want[u])') \in Nat
    <3>1. IsFiniteSet(Users(want[u])')
      BY ModelManagerAssumption, FS_Subset DEF Users
    <3> QED BY <3>1, FS_CardinalityType
  <2>4. refs'[want[u]] > 0
    BY <2>2, <2>3, FS_EmptySet
  <2> QED
    BY <1>2, <2>1, <2>4
<1>7. CacheIsBounded'
  BY <1>2 DEF CacheIsBounded, Cached
<1>8. (\A u \in Threads : pc[u] \in Inside => lock = u)'
  BY <1>0
<1> QED BY <1>3, <1>5, <1>6, <1>7, <1>8 DEF UsersShareOneModel

LEMMA MMNextInv == MMInv /\ [MMNext]_mmVars => MMInv'
<1> SUFFICES ASSUME MMInv, [MMNext]_mmVars PROVE MMInv'
  OBVIOUS
<1>1. CASE UNCHANGED mmVars
  BY <1>1 DEF MMInv, MMTypeOK, mmVars, RefsAreUsers, Users, UsersShareOneModel,
              CacheIsBounded, Cached
<1>2. ASSUME NEW t \in Threads, Prewarm(t, Keys) PROVE MMInv'
  BY <1>2, WantInv, EnterInv, FoundInv, MissedInv, LoadInv, InsertInv, ReleaseInv
     DEF Prewarm, Serve
<1> QED BY <1>1, <1>2 DEF MMNext

\* The server's cache keeps the invariant whatever its stages do.
LEMMA ServerModels == StageFairSpec => []MMInv
<1>1. StageInit => MMInv /\ setup \in Setups
  BY MMInitInv DEF StageInit
<1>2. MMInv /\ setup \in Setups /\ [StageNext]_stageVars => (MMInv /\ setup \in Setups)'
  <2> SUFFICES ASSUME MMInv, setup \in Setups, [StageNext]_stageVars
               PROVE  MMInv' /\ setup' = setup
    OBVIOUS
  <2>1. CASE UNCHANGED <<setup, mmVars>>
    BY <2>1, MMNextInv
  <2>2. CASE Server
    <3>1. setup.warm \subseteq Threads /\ setup.keys \subseteq Keys
      BY StageAssumption DEF SetupType
    <3>2. MMNext
      BY <2>2, <3>1 DEF Server, MMNext, Prewarm
    <3> QED
      BY <2>2, <3>2, MMNextInv DEF Server
  <2>3. CASE UNCHANGED stageVars
    BY <2>1, <2>3 DEF stageVars
  <2>4. CASE StageNext /\ ~Server
    BY <2>1, <2>4 DEF StageNext, Forks, Watches, TimeIsUp, Canceled, Lives, Serves, Goes
  <2> QED
    BY <2>2, <2>3, <2>4
<1> QED
  BY <1>1, <1>2, PTL DEF StageFairSpec

\* Every entry of the server's cache counts exactly its users (release and get_*).
THEOREM RefsHold == StageFairSpec => []RefsAreUsers
<1>1. MMInv => RefsAreUsers
  BY DEF MMInv
<1> QED BY <1>1, ServerModels, PTL

\* No model is evicted or loaded again under a user of it (_evict_if_needed).
THEOREM SharingHolds == StageFairSpec => []UsersShareOneModel
<1>1. MMInv => UsersShareOneModel
  BY DEF MMInv
<1> QED BY <1>1, ServerModels, PTL

\* The cache is over MODEL_CACHE_MAX only while all of it is in use.
THEOREM BoundHolds == StageFairSpec => []CacheIsBounded
<1>1. MMInv => CacheIsBounded
  BY DEF MMInv
<1> QED BY <1>1, ServerModels, PTL

-----------------------------------------------------------------------------
\* What the worker and the process of its stage know of each other: nothing is written
\* before the function ends, and a process that is gone while the worker still waits has
\* written its result or is known not to.
StageInv ==
    /\ parent \in {"idle", "join", "check", "term", "kill", "get"}
    /\ result \in {"none", "ok", "err"} /\ pipe \in {"none", "part", result}
    /\ child \in {"none", "runs", "ends", "dead"}
    /\ outcome \in {"none", "ok", "err", "empty", "cancel", "late"}
    /\ child = "runs" => pipe = "none"
    /\ child = "ends" => result # "none"
    /\ parent \in {"idle", "get"} => child \in {"none", "dead"}
    /\ parent \in {"join", "check", "get"} =>
          child # "none" /\ (child = "dead" /\ pipe = "none" => broken) /\ outcome = "none"
    /\ parent \in {"term", "kill"} => outcome \in {"cancel", "late"}
    /\ parent \notin {"join", "check", "get"} =>
          /\ outcome \in {"ok", "err"} => outcome = result
          /\ outcome = "empty" => broken
          /\ outcome = "cancel" => asked
          /\ outcome = "late" => late

\* A step of the stage leaves the process as it is or ends its function.
LEMMA GoesLife ==
    Goes => UNCHANGED <<parent, late, asked, outcome>>
            /\ (UNCHANGED lifeVars \/ (child = "runs" /\ \E r \in {"ok", "err"} : Ends(r)))
<1> SUFFICES ASSUME Goes
             PROVE  UNCHANGED lifeVars \/ (child = "runs" /\ \E r \in {"ok", "err"} : Ends(r))
  BY DEF Goes, watchVars
<1> USE DEF At, Sames, Acquire
<1>1. CASE Work \/ Cool
  BY <1>1 DEF Work, Cool
<1>2. CASE Asr
  BY <1>2 DEF Asr, AsrReuse, AsrAsk, AsrCall, AsrReturns, AsrGood, AsrBad, AsrExhausted
<1>3. CASE Tts
  BY <1>3 DEF Tts, TtsAsk, XttsLoad, Hold, XttsReturns, TtsBasic, TtsFit, TtsAgain, TtsDone
<1> QED BY <1>1, <1>2, <1>3 DEF Goes

LEMMA StageSafe == StageFairSpec => []StageInv
<1> USE DEF StageInv, Parent, Alive
<1>1. StageInit => StageInv
  BY DEF StageInit
<1>2. StageInv /\ [StageNext]_stageVars => StageInv'
  <2> SUFFICES ASSUME StageInv, [StageNext]_stageVars PROVE StageInv'
    OBVIOUS
  <2>1. CASE UNCHANGED <<watchVars, lifeVars>>
    BY <2>1 DEF watchVars, lifeVars
  <2>2. CASE Forks
    BY <2>2 DEF Forks, Fork
  <2>3. CASE Watches
    <3>1. CASE Join
      BY <3>1 DEF Join, lifeVars
    <3>2. CASE Check
      BY <3>2 DEF Check, lifeVars
    <3>3. CASE Terminate
      BY <3>3 DEF Terminate
    <3>4. CASE Kill
      BY <3>4 DEF Kill
    <3>5. CASE Get
      BY <3>5 DEF Get, lifeVars
    <3> QED
      BY <2>3, <3>1, <3>2, <3>3, <3>4, <3>5 DEF Watches, Watch
  <2>4. CASE TimeIsUp \/ Canceled
    BY <2>4 DEF TimeIsUp, Canceled, Deadline, Cancel, lifeVars
  <2>5. CASE Lives
    <3>1. CASE Write
      BY <2>5, <3>1 DEF Lives, Write, watchVars
    <3>2. CASE WriteNothing \/ Exit \/ Dies
      BY <2>5, <3>2 DEF Lives, WriteNothing, Exit, Dies, watchVars
    <3> QED
      BY <2>5, <3>1, <3>2 DEF Lives, Life
  <2>6. CASE Goes
    BY <2>6, GoesLife DEF lifeVars, Ends
  <2>7. CASE Server \/ Serves \/ UNCHANGED stageVars
    BY <2>1, <2>7 DEF Server, Serves, stageVars
  <2> QED
    BY <2>2, <2>3, <2>4, <2>5, <2>6, <2>7 DEF StageNext
<1> QED
  BY <1>1, <1>2, PTL DEF StageFairSpec

\* run_with_timeout never returns or raises while the process of its stage is alive,
\* for all stages, deaths, cancellations and deadlines.
THEOREM GoneHolds == StageFairSpec => []ChildIsGone
<1>1. StageInv => ChildIsGone
  BY DEF StageInv, ChildIsGone, Alive
<1> QED BY <1>1, StageSafe, PTL

\* Nor does it tell its caller anything else than what the function came to.
THEOREM ResultHolds == StageFairSpec => []ResultIsNotLost
<1>1. StageInv => ResultIsNotLost
  BY DEF StageInv, ResultIsNotLost
<1> QED BY <1>1, StageSafe, PTL
-----------------------------------------------------------------------------
\* What the methods of a breaker make of it.
LEMMA BreakerFacts ==
    ASSUME NEW b, Breaker!CircuitTypeOK(b)
    PROVE  /\ Breaker!CircuitTypeOK(Breaker!Asked(b))
           /\ Breaker!CircuitTypeOK(Breaker!Failed(b)) /\ Breaker!Failed(b).state # "half_open"
           /\ Breaker!CircuitTypeOK(Breaker!Cooled(b)) /\ Breaker!Cooled(b).state = b.state
           /\ Breaker!CircuitTypeOK(Breaker!Closed) /\ Breaker!Closed.state = "closed"
<1>1. Breaker!CircuitTypeOK(Breaker!Asked(b))
  BY DEF Breaker!CircuitTypeOK, Breaker!Asked
<1>2. Breaker!CircuitTypeOK(Breaker!Failed(b)) /\ Breaker!Failed(b).state # "half_open"
  <2> DEFINE c == [b EXCEPT !.failures = b.failures + 1]
  <2>1. Breaker!CircuitTypeOK(c)
    BY DEF Breaker!CircuitTypeOK
  <2>2. Breaker!Failed(b) \in {Breaker!Opened(c), [c EXCEPT !.state = "closed"]}
    BY DEF Breaker!Failed, Breaker!CircuitTypeOK
  <2> HIDE DEF c
  <2>3. Breaker!CircuitTypeOK(Breaker!Opened(c)) /\ Breaker!Opened(c).state = "open"
    BY <2>1 DEF Breaker!CircuitTypeOK, Breaker!Opened
  <2>4. Breaker!CircuitTypeOK([c EXCEPT !.state = "closed"])
        /\ [c EXCEPT !.state = "closed"].state = "closed"
    BY <2>1 DEF Breaker!CircuitTypeOK
  <2> QED BY <2>2, <2>3, <2>4
<1>3. Breaker!CircuitTypeOK(Breaker!Cooled(b)) /\ Breaker!Cooled(b).state = b.state
  BY DEF Breaker!CircuitTypeOK, Breaker!Cooled
<1>4. Breaker!CircuitTypeOK(Breaker!Closed) /\ Breaker!Closed.state = "closed"
  BY DEF Breaker!CircuitTypeOK, Breaker!Closed
<1> QED BY <1>1, <1>2, <1>3, <1>4

\* The child's manager has one thread, which knows what it asks for.
KidInv == Kid!MMTypeOK /\ (kpc[Main] # "rest" => kwant[Main] \in Keys)

\* Where each stage can be; a candidate or a line under way is one of those there are.
Places(s) == CASE s = "asr" -> {"ask", "call", "good", "bad", "work", "done"}
               [] s = "tts" -> {"line", "basic", "pace", "cut", "work", "done"} \cup XttsCalls
               [] s = "plain" -> {"work", "done"}

WorkInv ==
    /\ stage \in {"asr", "tts", "plain"} /\ step \in Places(stage)
    /\ n \in 1 .. setup.steps + 1 /\ tries \in 0 .. Retries
    /\ step \in {"call", "good", "bad", "basic", "pace", "cut"} \cup XttsCalls => n <= setup.steps
    /\ stage = "asr" /\ kpc[Main] # "rest" => step \in {"good", "bad"}
    /\ held \in BOOLEAN /\ engine \in BOOLEAN
    /\ Breaker!CircuitTypeOK(brk)
    /\ TrialIsAnswered

\* A step of the child's manager.
LEMMA KidSteps ==
    ASSUME KidInv
    PROVE  /\ \A k \in Keys : Kid!Want(Main, k) => KidInv'
           /\ Kid!Leave(Main) => KidInv' /\ kpc[Main] # "rest"
           /\ Kid!Serve(Main) => KidInv' /\ kpc[Main] # "rest"
<1> USE DEF KidInv, Kid!MMTypeOK, Kid!Outside, Kid!Inside
<1>1. ASSUME NEW k \in Keys, Kid!Want(Main, k) PROVE KidInv'
  BY <1>1 DEF Kid!Want, Kid!Goto
<1>2. ASSUME Kid!Leave(Main) PROVE KidInv' /\ kpc[Main] # "rest"
  BY <1>2 DEF Kid!Leave, Kid!Goto
<1>3. ASSUME Kid!Enter(Main) PROVE KidInv' /\ kpc[Main] # "rest"
  BY <1>3 DEF Kid!Enter, Kid!Goto
<1>4. ASSUME Kid!Found(Main) PROVE KidInv' /\ kpc[Main] # "rest"
  BY <1>4 DEF Kid!Found, Kid!Goto
<1>5. ASSUME Kid!Missed(Main) PROVE KidInv' /\ kpc[Main] # "rest"
  BY <1>5 DEF Kid!Missed, Kid!Goto
<1>6. ASSUME Kid!Loaded(Main) \/ Kid!LoadFails(Main) PROVE KidInv' /\ kpc[Main] # "rest"
  BY <1>6 DEF Kid!Loaded, Kid!LoadFails, Kid!Goto
<1>7. ASSUME NEW m \in [Keys -> Loaders \cup {Main, None}], NEW r, NEW e \in Kid!Evicted(m, r)
      PROVE  e \in [Keys -> Loaders \cup {Main, None}]
  BY <1>7 DEF Kid!Evicted
<1>8. ASSUME Kid!Insert(Main) PROVE KidInv' /\ kpc[Main] # "rest"
  <2> DEFINE m == [kmodel EXCEPT ![kwant[Main]] = khas[Main]]
  <2>1. m \in [Keys -> Loaders \cup {Main, None}]
    OBVIOUS
  <2>2. kmodel' \in Kid!Evicted(m, krefs')
    BY <1>8 DEF Kid!Insert
  <2> HIDE DEF m
  <2>3. kmodel' \in [Keys -> Loaders \cup {Main, None}]
    BY <1>7, <2>1, <2>2
  <2> QED BY <1>8, <2>3 DEF Kid!Insert, Kid!Goto
<1>9. ASSUME Kid!Release(Main) PROVE KidInv' /\ kpc[Main] # "rest"
  <2>1. kmodel' \in [Keys -> Loaders \cup {Main, None}]
    BY <1>7, <1>9 DEF Kid!Release
  <2> QED BY <1>9, <2>1 DEF Kid!Release, Kid!Goto, Kid!Less
<1> QED BY <1>1, <1>2, <1>3, <1>4, <1>5, <1>6, <1>8, <1>9 DEF Kid!Serve

LEMMA AsrWork ==
    ASSUME setup \in Setups, KidInv, WorkInv, Asr, UNCHANGED <<setup, stage>>
    PROVE  WorkInv' /\ KidInv'
<1> USE DEF WorkInv, At, Then, Kept, Sames, Places, TrialIsAnswered, XttsCalls
<1>0. setup.steps \in Nat /\ Retries \in Nat
  BY StageAssumption DEF SetupType
<1>1. ASSUME UNCHANGED kidVars PROVE KidInv' /\ kpc' = kpc
  BY <1>1 DEF KidInv, Kid!MMTypeOK, kidVars
<1>2. CASE AsrReuse \/ AsrExhausted
  BY <1>1, <1>2 DEF AsrReuse, AsrExhausted
<1>3. CASE AsrAsk
  <2>1. CASE Then("call") /\ brk' = Breaker!Asked(brk) /\ tries' = 0 /\ UNCHANGED n
    BY <1>0, <1>1, <1>3, <2>1, BreakerFacts DEF AsrAsk
  <2>2. CASE n' = n + 1 /\ UNCHANGED <<step, brk, tries>>
    BY <1>0, <1>1, <1>3, <2>2 DEF AsrAsk
  <2> QED BY <1>3, <2>1, <2>2 DEF AsrAsk
<1>4. CASE AsrGood
  BY <1>1, <1>4, BreakerFacts DEF AsrGood, Breaker!Succeeded
<1>5. CASE AsrBad
  BY <1>0, <1>1, <1>5, BreakerFacts DEF AsrBad
<1>6. CASE \E k \in Speech : AsrCall(k)
  <2>1. KidInv' /\ At("call") /\ step' = "bad" /\ Kept
    BY <1>6, StageAssumption, KidSteps DEF AsrCall, Acquire
  <2> QED BY <1>0, <2>1
<1>7. CASE AsrReturns
  <2>1. KidInv' /\ step' \in {"good", "bad"} /\ step \in {"good", "bad"} /\ stage = "asr" /\ Kept
    BY <1>7, KidSteps DEF AsrReturns
  <2> QED BY <1>0, <2>1
<1> QED BY <1>2, <1>3, <1>4, <1>5, <1>6, <1>7 DEF Asr

LEMMA TtsWork ==
    ASSUME setup \in Setups, KidInv, WorkInv, Tts, UNCHANGED <<setup, stage>>
    PROVE  WorkInv' /\ KidInv'
<1> USE DEF WorkInv, At, Then, Kept, Sames, Places, TrialIsAnswered, XttsCalls
<1>0. setup.steps \in Nat /\ Retries \in Nat
  BY StageAssumption DEF SetupType
<1>1. ASSUME UNCHANGED kidVars PROVE KidInv' /\ kpc' = kpc
  BY <1>1 DEF KidInv, Kid!MMTypeOK, kidVars
<1>2. CASE TtsAsk
  BY <1>0, <1>1, <1>2, BreakerFacts DEF TtsAsk
<1>3. CASE XttsReturns
  BY <1>0, <1>1, <1>3, BreakerFacts DEF XttsReturns, NextLine, Breaker!Succeeded
<1>4. CASE TtsFit
  BY <1>0, <1>1, <1>4, BreakerFacts DEF TtsFit, NextLine
<1>5. CASE TtsAgain
  BY <1>0, <1>1, <1>5, BreakerFacts DEF TtsAgain
<1>6. CASE TtsDone
  BY <1>0, <1>1, <1>6 DEF TtsDone
<1>7. CASE XttsLoad
  <2>1. KidInv' /\ step \in XttsCalls /\ UNCHANGED step /\ Kept
    BY <1>7, StageAssumption, KidSteps DEF XttsLoad, Acquire
  <2> QED BY <1>0, <2>1
<1>8. CASE TtsBasic
  <2>1. KidInv' /\ step = "basic" /\ step' \in {"basic", "pace"} /\ Kept
    BY <1>1, <1>8, StageAssumption, KidSteps DEF TtsBasic, Acquire
  <2> QED BY <1>0, <2>1
<1>9. CASE Hold
  <2>1. KidInv'
    BY <1>9 DEF Hold, KidInv, Kid!MMTypeOK, Kid!Outside
  <2>2. stage = "tts" /\ UNCHANGED <<n, tries, engine, brk>> /\ held' \in BOOLEAN
    BY <1>9 DEF Hold
  <2>3. step' = step \/ (step = "basic" /\ step' = "pace")
    BY <1>9 DEF Hold
  <2> QED BY <1>0, <2>1, <2>2, <2>3
<1> QED BY <1>2, <1>3, <1>4, <1>5, <1>6, <1>7, <1>8, <1>9 DEF Tts

\* The stages keep to their places, whatever the watching worker does with their
\* processes.
RestInv ==
    /\ setup \in Setups /\ left \in 0 .. setup.phases
    /\ late \in BOOLEAN /\ asked \in BOOLEAN /\ broken \in BOOLEAN
    /\ KidInv /\ WorkInv

LEMMA ForkRest ==
    ASSUME MMInv, RestInv, Forks
    PROVE  RestInv'
<1>1. PICK s \in setup.kinds : Fork(s)
  BY DEF Forks
<1>2. /\ setup.kinds \subseteq {"asr", "tts", "plain"} /\ setup.steps \in Nat /\ Retries \in Nat
      /\ setup.phases \in Nat /\ setup' = setup
  BY StageAssumption DEF SetupType, RestInv, Forks
<1>3. KidInv'
  BY <1>1 DEF Fork, MMInv, MMTypeOK, RestInv, KidInv, Kid!MMTypeOK, Kid!Outside
<1>4. kpc'[Main] = "rest"
  BY <1>1 DEF Fork, RestInv, KidInv, Kid!MMTypeOK
<1>5. brk' = Breaker!Closed /\ Breaker!CircuitTypeOK(brk') /\ brk'.state = "closed"
  BY <1>1, BreakerFacts DEF Fork, RestInv, WorkInv
<1>6. step' \in Places(stage') /\ step' \in {"ask", "line", "work"} /\ stage' \in {"asr", "tts", "plain"}
  BY <1>1, <1>2 DEF Fork, Places
<1>7. n' = 1 /\ tries' = 0 /\ held' = FALSE /\ engine' \in BOOLEAN
  BY <1>1 DEF Fork
<1>8. n' \in 1 .. setup'.steps + 1 /\ tries' \in 0 .. Retries
  BY <1>2, <1>7
<1>9. step' \notin {"call", "good", "bad", "basic", "pace", "cut"} \cup XttsCalls
  BY <1>6 DEF XttsCalls
<1>10. WorkInv'
  BY <1>4, <1>5, <1>6, <1>7, <1>8, <1>9 DEF WorkInv, TrialIsAnswered
<1>11. left' \in 0 .. setup'.phases
  BY <1>1, <1>2 DEF Fork, RestInv
<1> QED
  BY <1>1, <1>2, <1>3, <1>10, <1>11 DEF Fork, RestInv

LEMMA GoesRest ==
    ASSUME RestInv, Goes
    PROVE  RestInv'
<1>1. UNCHANGED <<setup, stage, left, late, asked>>
  BY DEF Goes, watchVars
<1>2. broken' = broken
  BY GoesLife DEF lifeVars, Ends
<1>3. WorkInv' /\ KidInv'
  <2>1. CASE Work
    <3>1. kpc' = kpc /\ KidInv' /\ step' = "done" /\ Kept
      BY <2>1 DEF Work, Then, RestInv, KidInv, Kid!MMTypeOK, kidVars
    <3>2. At("work") /\ kpc[Main] = "rest"
      BY <2>1 DEF Work, At
    <3> QED BY <1>1, <3>1, <3>2 DEF RestInv, WorkInv, At, Kept, Places, TrialIsAnswered, XttsCalls
  <2>2. CASE Cool
    <3>1. kpc' = kpc /\ KidInv' /\ UNCHANGED <<step, n, tries, held, engine>>
      BY <2>2 DEF Cool, Sames, RestInv, KidInv, Kid!MMTypeOK, kidVars
    <3>2. Breaker!CircuitTypeOK(brk') /\ brk'.state = "open"
      BY <2>2, BreakerFacts DEF Cool, RestInv, WorkInv
    <3> QED BY <1>1, <3>1, <3>2 DEF RestInv, WorkInv, Places, TrialIsAnswered
  <2> QED BY <1>1, <2>1, <2>2, AsrWork, TtsWork DEF Goes, RestInv
<1> QED BY <1>1, <1>2, <1>3 DEF RestInv

LEMMA StageRest == StageFairSpec => []RestInv
<1>1. StageInit => RestInv
  <2> SUFFICES ASSUME StageInit PROVE RestInv
    OBVIOUS
  <2>1. setup \in Setups /\ setup.steps \in Nat /\ setup.phases \in Nat /\ Retries \in Nat
    BY StageAssumption DEF SetupType, StageInit
  <2>2. KidInv
    BY StageAssumption DEF StageInit, Kid!MMInit, KidInv, Kid!MMTypeOK, Kid!Outside
  <2>3. Breaker!CircuitTypeOK(brk) /\ brk.state = "closed"
    BY DEF StageInit, Breaker!Closed, Breaker!CircuitTypeOK
  <2>4. step = "work" /\ stage = "plain" /\ "work" \in Places("plain")
    BY DEF StageInit, Places
  <2>5. n \in 1 .. setup.steps + 1 /\ tries \in 0 .. Retries /\ left \in 0 .. setup.phases
    BY <2>1 DEF StageInit
  <2>6. WorkInv
    BY <2>3, <2>4, <2>5 DEF StageInit, WorkInv, TrialIsAnswered, XttsCalls
  <2> QED BY <2>1, <2>2, <2>5, <2>6 DEF StageInit, RestInv
<1>2. MMInv /\ RestInv /\ [StageNext]_stageVars => RestInv'
  <2> SUFFICES ASSUME MMInv, RestInv, [StageNext]_stageVars PROVE RestInv'
    OBVIOUS
  <2>1. ASSUME UNCHANGED <<setup, stage, left, kidVars, workVars>>,
               late' \in BOOLEAN, asked' \in BOOLEAN, broken' \in BOOLEAN
        PROVE  RestInv'
    BY <2>1 DEF RestInv, KidInv, Kid!MMTypeOK, WorkInv, TrialIsAnswered, kidVars, workVars
  <2>2. CASE Server \/ UNCHANGED stageVars
    BY <2>1, <2>2 DEF Server, RestInv, watchVars, lifeVars, stageVars
  <2>3. CASE Watches
    BY <2>1, <2>3 DEF Watches, Watch, Join, Check, Terminate, Kill, Get, RestInv, lifeVars
  <2>4. CASE TimeIsUp \/ Canceled
    BY <2>1, <2>4 DEF TimeIsUp, Canceled, Deadline, Cancel, RestInv, lifeVars
  <2>5. CASE Lives
    BY <2>1, <2>5 DEF Lives, Life, Write, WriteNothing, Exit, Dies, RestInv, watchVars
  <2>6. CASE Serves
    <3>1. KidInv' /\ kpc[Main] # "rest"
      BY <2>6, KidSteps DEF Serves, RestInv
    <3> QED BY <2>6, <3>1
            DEF Serves, RestInv, WorkInv, TrialIsAnswered, watchVars, lifeVars, workVars
  <2> QED
    BY <2>2, <2>3, <2>4, <2>5, <2>6, ForkRest, GoesRest DEF StageNext
<1> QED
  BY <1>1, <1>2, ServerModels, PTL DEF StageFairSpec

\* All values stay of their types, in the server, in the worker and in the process of
\* every stage.
THEOREM StageTypes == StageFairSpec => []StageTypeOK
<1>1. MMInv /\ StageInv /\ RestInv => StageTypeOK
  <2> SUFFICES ASSUME MMInv, StageInv, RestInv PROVE StageTypeOK
    OBVIOUS
  <2>1. step \in {"work", "done", "ask", "call", "good", "bad", "line", "basic", "pace", "cut"}
                   \cup XttsCalls
    BY DEF RestInv, WorkInv, Places
  <2>2. outcome \in {"none", "ok", "err", "empty", "cancel", "late"}
    BY DEF StageInv
  <2> QED BY <2>1, <2>2 DEF MMInv, StageInv, RestInv, KidInv, WorkInv, StageTypeOK
<1> QED BY <1>1, ServerModels, StageSafe, StageRest, PTL

\* A breaker of recognition that let a trial through hears of its outcome: no order of
\* candidates, retries, failures and cooldowns leaves the half-open state for good
\* (CircuitBreaker.allow against mark_success and mark_failure in
\* stages/transcription.py), for any number of candidates, retries and any threshold.
THEOREM TrialsAreAnswered == StageFairSpec => []TrialIsAnswered
<1>1. RestInv => TrialIsAnswered
  BY DEF RestInv, WorkInv
<1> QED BY <1>1, StageRest, PTL
================================================================================
