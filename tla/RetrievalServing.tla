-------------------------- MODULE RetrievalServing --------------------------
(***************************************************************************)
(* Searches of the API processes through the retrieval cache: cache/       *)
(* manager.py, namespaces.py, stores.py and keys.py, retrieval/factory.py, *)
(* pipeline/retrieval_steps.py and the start of a request in runtime.py.   *)
(*                                                                         *)
(* A result is cached in Redis under its version and under the epoch of    *)
(* the scenario's namespace.  Activating a version, or an administrator,   *)
(* advances the epoch in MySQL; a process keeps the epoch it has read for  *)
(* a while (L1).  It also keeps its connection to the Milvus collection    *)
(* until it sees another version active.                                   *)
(*                                                                         *)
(* The content of a version is abstracted to a generation number, which    *)
(* every build, rerun or clean-up of the version increases, and a          *)
(* collection to the number of times it has been dropped and made again.   *)
(***************************************************************************)
EXTENDS Integers, FiniteSets

CONSTANTS
    Procs,     \* API processes
    Requests,  \* requests, each of one question
    Versions,  \* knowledge base versions
    None,      \* no entry
    MaxEpoch,  \* bound: epochs
    MaxGen,    \* bound: generations of a version's content
    MaxColl,   \* bound: collections
    Faults     \* "crash", "redis"

ASSUME ServingAssumption ==
    /\ MaxEpoch \in Nat \ {0} /\ MaxGen \in Nat /\ MaxColl \in Nat
    /\ None \notin Versions /\ None \notin 0..MaxColl

Epochs == 1..MaxEpoch
Gens   == 0..MaxGen

VARIABLES
    active,   \* the active version, in MySQL
    epoch,    \* the epoch of the namespace, in MySQL
    gen,      \* generation of each version's content, in Milvus
    coll,     \* which collection there is
    redis,    \* cached generation by version and epoch, or None
    l1,       \* each process's copy of the epoch, or None
    known,    \* the version each process has seen active, or None
    wrapper,  \* the collection each process is connected to, or None
    warm,     \* warm-up of each process, with the version it has read
    clearing, \* processes that have cleared L1 and are about to advance the epoch
    req,      \* [Requests -> locals]
    floor,    \* history: generations when each epoch began
    since     \* history: the collection when each version was first activated

mysql  == <<active, epoch, floor, since>>
milvus == <<gen, coll>>
local  == <<l1, known, wrapper, warm, clearing>>
vars   == <<mysql, milvus, redis, local, req>>

-----------------------------------------------------------------------------

Stages == {"new", "sync", "epoch", "put", "get", "search", "set", "done", "error"}
Locals == [at : Stages, proc : Procs \cup {None}, version : Versions \cup {None},
           asked : BOOLEAN, epoch : Epochs \cup {None}, result : Gens \cup {None},
           through : (0..MaxColl) \cup {None}, due : Gens,
           live : 0..MaxColl]
Warmth == [at : {"not_started", "running", "reading", "ready"},
           version : Versions \cup {None}]

TypeOK ==
    /\ active \in Versions /\ epoch \in Epochs
    /\ gen \in [Versions -> Gens] /\ coll \in 0..MaxColl
    /\ redis \in [Versions \X Epochs -> Gens \cup {None}]
    /\ l1 \in [Procs -> Epochs \cup {None}]
    /\ known \in [Procs -> Versions \cup {None}]
    /\ wrapper \in [Procs -> (0..MaxColl) \cup {None}]
    /\ warm \in [Procs -> Warmth] /\ clearing \subseteq Procs
    /\ req \in [Requests -> Locals]
    /\ floor \in [Epochs -> [Versions -> Gens]]
    /\ since \in [Versions -> (0..MaxColl) \cup {None}]

Fresh == [at |-> "new", proc |-> None, version |-> None, asked |-> FALSE, epoch |-> None,
          result |-> None, through |-> None, due |-> 0, live |-> 0]
Cold  == [at |-> "not_started", version |-> None]

Init ==
    /\ active \in Versions /\ epoch = 1
    /\ gen = [v \in Versions |-> 0] /\ coll = 0
    /\ redis = [key \in Versions \X Epochs |-> None]
    /\ l1 = [p \in Procs |-> None] /\ known = [p \in Procs |-> None]
    /\ wrapper = [p \in Procs |-> None] /\ warm = [p \in Procs |-> Cold]
    /\ clearing = {} /\ req = [r \in Requests |-> Fresh]
    /\ floor = [e \in Epochs |-> [v \in Versions |-> 0]]
    /\ since = [v \in Versions |-> IF v = active THEN 0 ELSE None]

Step(r, from, to) == req[r].at = from /\ req' = [req EXCEPT ![r].at = to]

-----------------------------------------------------------------------------
\* The knowledge base changes, in other processes.

\* Ingestion or clean-up changes what a version shows.
Change(v) ==
    /\ gen[v] < MaxGen /\ gen' = [gen EXCEPT ![v] = @ + 1]
    /\ UNCHANGED <<mysql, coll, redis, local, req>>

\* rebuild_kb_version.py --reset-collections, before the version it builds is
\* activated: the collection is dropped and made again.
Reset ==
    /\ coll < MaxColl /\ coll' = coll + 1
    /\ UNCHANGED <<mysql, gen, redis, local, req>>

\* bump_cache_epoch_for_scenario_with_conn.
Bump ==
    /\ epoch < MaxEpoch /\ epoch' = epoch + 1
    /\ floor' = [floor EXCEPT ![epoch + 1] = gen]

\* activate_version, from a process without requests.
Activate(v) ==
    /\ active' = v /\ Bump
    /\ since' = IF since[v] = None THEN [since EXCEPT ![v] = coll] ELSE since
    /\ UNCHANGED <<milvus, redis, local, req>>

-----------------------------------------------------------------------------
\* An API process: start and administration.

\* start_retrieval_warmup_background and wait_for_retrieval_warmup: the
\* process accepts requests when the state is "ready".
StartWarmup(p) ==
    /\ warm[p].at = "not_started" /\ warm' = [warm EXCEPT ![p].at = "running"]
    /\ UNCHANGED <<mysql, milvus, redis, l1, known, wrapper, clearing, req>>

\* warmup_retrieval_stack reads the active version and connects, loads the
\* models, and only then records the version.
WarmupReads(p) ==
    /\ warm[p].at = "running"
    /\ warm' = [warm EXCEPT ![p] = [at |-> "reading", version |-> active]]
    /\ wrapper' = [wrapper EXCEPT ![p] = IF @ = None THEN coll ELSE @]
    /\ UNCHANGED <<mysql, milvus, redis, l1, known, clearing, req>>

\* Mutant: the version is not recorded.
WarmupEndsSilently(p) ==
    /\ warm[p].at = "reading"
    /\ warm' = [warm EXCEPT ![p] = [at |-> "ready", version |-> None]]
    /\ UNCHANGED <<mysql, milvus, redis, l1, known, wrapper, clearing, req>>

WarmupEnds(p) ==
    /\ warm[p].at = "reading"
    /\ known' = [known EXCEPT ![p] = warm[p].version]
    /\ warm' = [warm EXCEPT ![p] = [at |-> "ready", version |-> None]]
    /\ UNCHANGED <<mysql, milvus, redis, l1, wrapper, clearing, req>>

\* A warm-up that fails ends the process, like any crash.
Crash(p) ==
    /\ "crash" \in Faults /\ warm[p] # Cold
    /\ l1' = [l1 EXCEPT ![p] = None] /\ known' = [known EXCEPT ![p] = None]
    /\ wrapper' = [wrapper EXCEPT ![p] = None] /\ warm' = [warm EXCEPT ![p] = Cold]
    /\ clearing' = clearing \ {p}
    /\ req' = [r \in Requests |-> IF req[r].proc = p /\ req[r].at # "done"
                                  THEN [Fresh EXCEPT !.at = "error"] ELSE req[r]]
    /\ UNCHANGED <<mysql, milvus, redis>>

\* invalidate_scenario clears L1 first and advances the epoch afterwards.
ClearL1(p) ==
    /\ warm[p].at = "ready" /\ p \notin clearing
    /\ l1' = [l1 EXCEPT ![p] = None] /\ clearing' = clearing \cup {p}
    /\ UNCHANGED <<mysql, milvus, redis, known, wrapper, warm, req>>

Invalidate(p) ==
    /\ p \in clearing /\ clearing' = clearing \ {p} /\ Bump
    /\ UNCHANGED <<active, since, milvus, redis, l1, known, wrapper, warm, req>>

-----------------------------------------------------------------------------
\* A request.

\* The epoch a process may still use although it has been advanced: its own
\* copy, or one that a thread of it has read and is about to keep.
Lagging(p) == {e \in {l1[p]} \cup {req[r].epoch : r \in {x \in Requests :
                        req[x].proc = p /\ req[x].at = "put"}} :
                 e # None /\ e # epoch}

\* create_query_context: an explicitly requested version is taken as it is.
Resolve(r, p, v, asked) ==
    /\ warm[p].at = "ready" /\ req[r].at = "new"
    /\ asked \/ v = active
    /\ req' = [req EXCEPT ![r] = [Fresh EXCEPT
                 !.at = IF asked THEN "epoch" ELSE "sync", !.proc = p, !.version = v,
                 !.asked = asked,
                 !.live = IF asked THEN 0 ELSE since[v],
                 !.due = IF Lagging(p) = {} THEN floor[epoch][v] ELSE 0]]
    /\ UNCHANGED <<mysql, milvus, redis, local>>

\* sync_retrieval_cache_for_active_version, under its lock: connections are
\* dropped when the version seen active differs from the one known.
Sync(r) ==
    LET p == req[r].proc v == req[r].version IN
    /\ Step(r, "sync", "epoch")
    /\ known' = [known EXCEPT ![p] = v]
    /\ wrapper' = [wrapper EXCEPT ![p] = IF known[p] \in {None, v} THEN @ ELSE None]
    /\ UNCHANGED <<mysql, milvus, redis, l1, warm, clearing>>

\* namespace_epoch: from L1, or from MySQL and then into L1.
EpochFromL1(r) ==
    /\ req[r].at = "epoch" /\ l1[req[r].proc] # None
    /\ req' = [req EXCEPT ![r].at = "get", ![r].epoch = l1[req[r].proc]]
    /\ UNCHANGED <<mysql, milvus, redis, local>>

\* Mutant: the epoch of an insertion that did not take place.
EpochOfInsertion(r) ==
    /\ req[r].at = "epoch" /\ l1[req[r].proc] = None
    /\ req' = [req EXCEPT ![r].at = "put", ![r].epoch = epoch + 1]
    /\ UNCHANGED <<mysql, milvus, redis, local>>

EpochFromMySQL(r) ==
    /\ req[r].at = "epoch" /\ l1[req[r].proc] = None
    /\ req' = [req EXCEPT ![r].at = "put", ![r].epoch = epoch]
    /\ UNCHANGED <<mysql, milvus, redis, local>>

PutL1(r) ==
    /\ Step(r, "put", "get")
    /\ l1' = [l1 EXCEPT ![req[r].proc] = req[r].epoch]
    /\ UNCHANGED <<mysql, milvus, redis, known, wrapper, warm, clearing>>

\* retrieval_cache_key: what a result depends on, as far as it varies here.
Key(r) == <<req[r].version, req[r].epoch>>

\* Of a request that has been answered only the age of its result matters.
Served(due, result) == [Fresh EXCEPT !.at = "done", !.due = due, !.result = result]

\* get_retrieval_result.
Hit(r) ==
    /\ req[r].at = "get" /\ redis[Key(r)] # None
    /\ req' = [req EXCEPT ![r] = Served(req[r].due, redis[Key(r)])]
    /\ UNCHANGED <<mysql, milvus, redis, local>>

Miss(r) ==
    /\ Step(r, "get", "search") /\ redis[Key(r)] = None
    /\ UNCHANGED <<mysql, milvus, redis, local>>

\* get_hybrid_store(...).search_many: connects if there is no connection.  Over
\* a connection to a dropped collection nothing is promised: the generation is
\* whatever that collection had, or the search fails.
Search(r) ==
    LET p == req[r].proc
        c == IF wrapper[p] = None THEN coll ELSE wrapper[p]
    IN
    /\ req[r].at = "search"
    /\ wrapper' = [wrapper EXCEPT ![p] = c]
    /\ req' = [req EXCEPT ![r].at = "set", ![r].through = c,
                          ![r].result = gen[req[r].version]]
    /\ UNCHANGED <<mysql, milvus, redis, l1, known, warm, clearing>>

\* Mutant: the key is built again when the result is there.
SetUnderCurrentEpoch(r) ==
    /\ req[r].at = "set"
    /\ req' = [req EXCEPT ![r] = Served(req[r].due, req[r].result)]
    /\ redis' = [redis EXCEPT ![<<req[r].version, epoch>>] = req[r].result]
    /\ UNCHANGED <<mysql, milvus, local>>

\* set_retrieval_result.
Set(r) ==
    /\ req[r].at = "set"
    /\ req' = [req EXCEPT ![r] = Served(req[r].due, req[r].result)]
    /\ redis' = [redis EXCEPT ![Key(r)] = req[r].result]
    /\ UNCHANGED <<mysql, milvus, local>>

\* MySQL, Redis or Milvus does not answer: the request ends with an error.
Fails(r) ==
    /\ "redis" \in Faults /\ req[r].at \in {"epoch", "get", "search", "set"}
    /\ req' = [req EXCEPT ![r] = [Fresh EXCEPT !.at = "error"]]
    /\ UNCHANGED <<mysql, milvus, redis, local>>

\* Time passes: entries of L1 and Redis expire.
Expire(p) ==
    /\ l1[p] # None /\ l1' = [l1 EXCEPT ![p] = None]
    /\ UNCHANGED <<mysql, milvus, redis, known, wrapper, warm, clearing, req>>

ExpireResult(key) ==
    /\ redis[key] # None /\ redis' = [redis EXCEPT ![key] = None]
    /\ UNCHANGED <<mysql, milvus, local, req>>

Answer(r) ==
    \/ \E p \in Procs, v \in Versions, asked \in BOOLEAN : Resolve(r, p, v, asked)
    \/ Sync(r) \/ EpochFromL1(r) \/ EpochFromMySQL(r) \/ PutL1(r)
    \/ Hit(r) \/ Miss(r) \/ Search(r) \/ Set(r) \/ Fails(r)

Process(p) ==
    \/ StartWarmup(p) \/ WarmupReads(p) \/ WarmupEnds(p) \/ Crash(p)
    \/ ClearL1(p) \/ Invalidate(p) \/ Expire(p)

Next ==
    \/ \E r \in Requests : Answer(r)
    \/ \E p \in Procs : Process(p)
    \/ \E v \in Versions : Change(v) \/ Activate(v)
    \/ Reset
    \/ \E key \in Versions \X Epochs : ExpireResult(key)

Spec == Init /\ [][Next]_vars

-----------------------------------------------------------------------------
\* Properties.

\* Whatever order reads, writes and bumps come in, also when a search is slow
\* and the epoch advances under it: what Redis holds under an epoch is no older
\* than the content of the version when that epoch began.  Advancing the epoch
\* after a build therefore retires every older result.
CachedIsOfItsEpoch ==
    \A v \in Versions, e \in Epochs :
        e <= epoch /\ redis[<<v, e>>] # None => redis[<<v, e>>] >= floor[e][v]

\* An old result reaches a user only through a copy of the epoch that the
\* process, or one of its threads, held when the request came: a request that
\* comes later is answered from the content of the last bump or newer.
StaleOnlyThroughL1 ==
    \A r \in Requests : req[r].at = "done" => req[r].result >= req[r].due

\* A request for the active version never searches through a connection to a
\* collection that was dropped before that version was first activated, whatever
\* warm-up, other activations and other requests do at the same time.  (Nothing
\* of the kind holds for a version that is activated again after a reset:
\* processes that have seen no other version keep their connection.)
SearchesLiveCollection ==
    \A r \in Requests :
        req[r].at = "set" /\ ~req[r].asked => req[r].through >= req[r].live

=============================================================================
