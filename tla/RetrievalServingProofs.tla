----------------------- MODULE RetrievalServingProofs -----------------------
(***************************************************************************)
(* Proofs about RetrievalServing, for any set of processes, requests and   *)
(* versions and whatever bounds.                                           *)
(*                                                                         *)
(* The strengthening says where an epoch may stand before a search is made *)
(* under it, and that what a version shows only grows: a result is at      *)
(* least as new as the beginning of every epoch its key may be built from. *)
(***************************************************************************)
EXTENDS RetrievalServing, TLAPS

\* The stages in which a request has its epoch.
Keyed == {"put", "get", "search", "set"}

\* The active version has been activated, so it knows its collection.
ActiveIsDated == since[active] \in 0..MaxColl

\* A request at work has a process and a version.
Bound(l) == l.at \in Keyed \cup {"sync", "epoch"} => l.proc \in Procs /\ l.version \in Versions

RequestsAreBound == \A r \in Requests : Bound(req[r])

\* No epoch from the future: not in L1, not in a request, not in Redis.
EpochsHaveBegun ==
    /\ \A p \in Procs : l1[p] # None => l1[p] <= epoch
    /\ \A r \in Requests : req[r].at \in Keyed => req[r].epoch \in 1..epoch
    /\ \A v \in Versions, e \in Epochs : e > epoch => redis[<<v, e>>] = None

\* What a version shows is no older than at the beginning of any epoch.
ContentsGrow ==
    \A v \in Versions, e \in 1..epoch : floor[e][v] <= gen[v]

\* A result about to be stored is as new as its epoch.
ResultsAreOfTheirEpoch ==
    \A r \in Requests : req[r].at = "set" =>
        /\ req[r].result \in Gens
        /\ req[r].result >= floor[req[r].epoch][req[r].version]

CacheInv == /\ TypeOK /\ ActiveIsDated /\ RequestsAreBound /\ EpochsHaveBegun /\ ContentsGrow
            /\ ResultsAreOfTheirEpoch /\ CachedIsOfItsEpoch

-----------------------------------------------------------------------------

\* The invariant of the cache holds initially.
THEOREM CacheInvInit == Init => CacheInv
<1> SUFFICES ASSUME Init PROVE CacheInv
  OBVIOUS
<1> USE ServingAssumption DEF Init, Epochs, Gens
<1>1. TypeOK
  BY DEF TypeOK, Warmth, Cold, Locals, Stages, Fresh
<1>2. ActiveIsDated
  BY DEF ActiveIsDated
<1>3. RequestsAreBound /\ EpochsHaveBegun /\ ResultsAreOfTheirEpoch
  BY DEF RequestsAreBound, Bound, EpochsHaveBegun, ResultsAreOfTheirEpoch, Fresh, Keyed
<1>4. ContentsGrow /\ CachedIsOfItsEpoch
  BY DEF ContentsGrow, CachedIsOfItsEpoch
<1> QED
  BY <1>1, <1>2, <1>3, <1>4 DEF CacheInv

\* A request that has not begun.
LEMMA FreshIsTyped == Fresh \in Locals
BY ServingAssumption DEF Fresh, Locals, Stages, Gens

\* What a request is at any stage of it.
Sound(l) ==
    /\ l \in Locals
    /\ Bound(l)
    /\ l.at \in Keyed => l.epoch \in 1..epoch
    /\ l.at = "set" => l.result \in Gens /\ l.result >= floor[l.epoch][l.version]

\* A step of one request leaves what the others hold as it was.
LEMMA RequestSteps ==
    ASSUME CacheInv, NEW r \in Requests, NEW l, Sound(l), req' = [req EXCEPT ![r] = l],
           UNCHANGED <<epoch, floor>>
    PROVE  /\ req' \in [Requests -> Locals]
           /\ RequestsAreBound' /\ ResultsAreOfTheirEpoch'
           /\ \A x \in Requests : req'[x].at \in Keyed => req'[x].epoch \in 1..epoch'
<1>1. req' \in [Requests -> Locals]
  BY DEF CacheInv, TypeOK, Sound
<1>2. \A x \in Requests : req'[x] = IF x = r THEN l ELSE req[x]
  BY DEF CacheInv, TypeOK
<1>3. RequestsAreBound'
  BY <1>2 DEF CacheInv, RequestsAreBound, Sound
<1>4. ResultsAreOfTheirEpoch'
  BY <1>2 DEF CacheInv, ResultsAreOfTheirEpoch, Sound
<1>5. \A x \in Requests : req'[x].at \in Keyed => req'[x].epoch \in 1..epoch'
  BY <1>2 DEF CacheInv, EpochsHaveBegun, Sound
<1> QED
  BY <1>1, <1>3, <1>4, <1>5

\* When that is all the step does, nothing else is disturbed.
LEMMA QuietRequestSteps ==
    ASSUME CacheInv, NEW r \in Requests, NEW l, Sound(l), req' = [req EXCEPT ![r] = l],
           UNCHANGED <<mysql, milvus, redis, local>>
    PROVE  CacheInv'
<1> USE DEF mysql, milvus, local
<1>1. /\ req' \in [Requests -> Locals]
      /\ RequestsAreBound' /\ ResultsAreOfTheirEpoch'
      /\ \A x \in Requests : req'[x].at \in Keyed => req'[x].epoch \in 1..epoch'
  BY RequestSteps
<1>2. TypeOK' /\ ActiveIsDated'
  BY <1>1 DEF CacheInv, TypeOK, ActiveIsDated
<1>3. EpochsHaveBegun'
  BY <1>1 DEF CacheInv, EpochsHaveBegun
<1>4. ContentsGrow' /\ CachedIsOfItsEpoch'
  BY DEF CacheInv, ContentsGrow, CachedIsOfItsEpoch
<1> QED
  BY <1>1, <1>2, <1>3, <1>4 DEF CacheInv

\* A step of the knowledge base or of a process, with the requests as they are: when the
\* epoch stays, L1 gets no new value and contents only grow, nothing is disturbed.
LEMMA OtherSteps ==
    ASSUME CacheInv, TypeOK', ActiveIsDated', UNCHANGED <<epoch, floor, redis, req>>,
           \A p \in Procs : l1'[p] \in {l1[p], None},
           \A v \in Versions : gen'[v] >= gen[v]
    PROVE  CacheInv'
<1>1. RequestsAreBound' /\ ResultsAreOfTheirEpoch' /\ CachedIsOfItsEpoch'
  BY DEF CacheInv, RequestsAreBound, ResultsAreOfTheirEpoch, CachedIsOfItsEpoch
<1>2. EpochsHaveBegun'
  BY DEF CacheInv, EpochsHaveBegun
<1>3. ContentsGrow'
  <2> SUFFICES ASSUME NEW v \in Versions, NEW e \in 1..epoch PROVE floor[e][v] <= gen'[v]
    BY DEF ContentsGrow
  <2>1. floor[e][v] \in Nat /\ gen[v] \in Nat /\ gen'[v] \in Nat
    BY ServingAssumption DEF CacheInv, TypeOK, Epochs, Gens
  <2>2. floor[e][v] <= gen[v] /\ gen[v] <= gen'[v]
    BY DEF CacheInv, ContentsGrow
  <2> QED
    BY <2>1, <2>2
<1> QED
  BY <1>1, <1>2, <1>3 DEF CacheInv

\* The new epoch begins with what the versions show now, and nothing stands under it yet.
LEMMA BumpSteps ==
    ASSUME CacheInv, Bump, TypeOK', ActiveIsDated', UNCHANGED <<gen, redis, l1, req>>
    PROVE  CacheInv'
<1>0. /\ epoch' = epoch + 1 /\ epoch \in Nat /\ epoch' \in Epochs
      /\ floor' = [floor EXCEPT ![epoch + 1] = gen]
      /\ \A e \in 1..epoch : e \in Epochs /\ floor'[e] = floor[e]
      /\ floor'[epoch + 1] = gen
  BY ServingAssumption DEF CacheInv, TypeOK, Epochs, Bump
<1>g. \A v \in Versions : gen[v] \in Nat
  BY ServingAssumption DEF CacheInv, TypeOK, Gens
<1>1. RequestsAreBound'
  BY DEF CacheInv, RequestsAreBound
<1>2. EpochsHaveBegun'
  <2>1. \A p \in Procs : l1[p] # None => l1[p] <= epoch'
    BY <1>0 DEF CacheInv, EpochsHaveBegun, TypeOK, Epochs
  <2>2. \A r \in Requests : req[r].at \in Keyed => req[r].epoch \in 1..epoch'
    BY <1>0 DEF CacheInv, EpochsHaveBegun
  <2>3. \A v \in Versions, e \in Epochs : e > epoch' => redis[<<v, e>>] = None
    BY <1>0 DEF CacheInv, EpochsHaveBegun, Epochs
  <2> QED
    BY <2>1, <2>2, <2>3 DEF EpochsHaveBegun
<1>3. ContentsGrow'
  BY <1>0, <1>g DEF CacheInv, ContentsGrow
<1>4. ResultsAreOfTheirEpoch'
  BY <1>0 DEF CacheInv, ResultsAreOfTheirEpoch, EpochsHaveBegun, Keyed
<1>5. CachedIsOfItsEpoch'
  <2> SUFFICES ASSUME NEW v \in Versions, NEW e \in Epochs, e <= epoch + 1,
                      redis[<<v, e>>] # None
               PROVE  redis[<<v, e>>] >= floor'[e][v]
    BY <1>0 DEF CachedIsOfItsEpoch
  <2>1. e <= epoch
    BY <1>0 DEF CacheInv, EpochsHaveBegun, Epochs
  <2> QED
    BY <1>0, <2>1 DEF CacheInv, CachedIsOfItsEpoch, Epochs
<1> QED
  BY <1>1, <1>2, <1>3, <1>4, <1>5 DEF CacheInv

-----------------------------------------------------------------------------
\* One step of a request.

\* A request that resolves its version keeps it.
LEMMA ResolveStep ==
    ASSUME CacheInv, NEW r \in Requests, NEW p \in Procs, NEW v \in Versions,
           NEW asked \in BOOLEAN, Resolve(r, p, v, asked)
    PROVE  CacheInv'
<1> DEFINE a == IF asked THEN "epoch" ELSE "sync"
           w == IF asked THEN 0 ELSE since[v]
           d == IF Lagging(p) = {} THEN floor[epoch][v] ELSE 0
           l == [Fresh EXCEPT !.at = a, !.proc = p, !.version = v, !.asked = asked,
                              !.live = w, !.due = d]
<1>1. w \in 0..MaxColl
  BY ServingAssumption DEF Resolve, CacheInv, ActiveIsDated
<1>2. d \in Gens
  BY ServingAssumption DEF CacheInv, TypeOK, Gens
<1>3. a \in {"epoch", "sync"}
  OBVIOUS
<1>4. req' = [req EXCEPT ![r] = l] /\ UNCHANGED <<mysql, milvus, redis, local>>
  BY DEF Resolve
<1> HIDE DEF a, w, d
<1>6. Sound(l)
  <2>1. l \in Locals /\ l.at = a /\ l.proc = p /\ l.version = v
    BY <1>1, <1>2, <1>3, FreshIsTyped DEF Locals, Stages
  <2> HIDE DEF l
  <2> QED
    BY <1>3, <2>1 DEF Sound, Bound, Keyed
<1> QED
  BY <1>4, <1>6, QuietRequestSteps

\* Taking an epoch from where it stands, and looking it up.
LEMMA LookupStep ==
    ASSUME CacheInv, NEW r \in Requests,
           EpochFromL1(r) \/ EpochFromMySQL(r) \/ Miss(r)
    PROVE  CacheInv'
<1>t. req[r] \in Locals /\ req \in [Requests -> Locals]
  BY DEF CacheInv, TypeOK
<1>e. epoch \in Nat /\ epoch \in 1..epoch /\ epoch \in Epochs
  BY ServingAssumption DEF CacheInv, TypeOK, Epochs
<1>1. CASE EpochFromL1(r)
  <2> DEFINE e == l1[req[r].proc]
             l == [req[r] EXCEPT !.at = "get", !.epoch = e]
  <2>1. req[r].at = "epoch" /\ e # None /\ req[r].proc \in Procs
    BY <1>1 DEF EpochFromL1, CacheInv, RequestsAreBound, Bound
  <2>2. e \in 1..epoch /\ e \in Epochs
    BY <2>1, <1>e DEF CacheInv, TypeOK, EpochsHaveBegun, Epochs
  <2>3. Sound(l)
    BY <1>t, <2>1, <2>2 DEF Sound, Locals, Stages, Keyed, CacheInv, RequestsAreBound, Bound
  <2>4. req' = [req EXCEPT ![r] = l] /\ UNCHANGED <<mysql, milvus, redis, local>>
    BY <1>1, <1>t DEF EpochFromL1
  <2> QED
    BY <2>3, <2>4, QuietRequestSteps
<1>2. CASE EpochFromMySQL(r)
  <2> DEFINE l == [req[r] EXCEPT !.at = "put", !.epoch = epoch]
  <2>0. req[r].at = "epoch" /\ req[r].proc \in Procs /\ req[r].version \in Versions
    BY <1>2 DEF EpochFromMySQL, CacheInv, RequestsAreBound, Bound
  <2>1. Sound(l)
    BY <2>0, <1>t, <1>e DEF Sound, Locals, Stages, Keyed, Bound
  <2>2. req' = [req EXCEPT ![r] = l] /\ UNCHANGED <<mysql, milvus, redis, local>>
    BY <1>2, <1>t DEF EpochFromMySQL
  <2> QED
    BY <2>1, <2>2, QuietRequestSteps
<1>3. CASE Miss(r)
  <2> DEFINE l == [req[r] EXCEPT !.at = "search"]
  <2>1. Sound(l)
    BY <1>3, <1>t DEF Sound, Locals, Stages, Keyed, CacheInv, RequestsAreBound, Bound,
       EpochsHaveBegun, Miss, Step
  <2>2. req' = [req EXCEPT ![r] = l] /\ UNCHANGED <<mysql, milvus, redis, local>>
    BY <1>3, <1>t DEF Miss, Step
  <2> QED
    BY <2>1, <2>2, QuietRequestSteps
<1> QED
  BY <1>1, <1>2, <1>3

\* Answering from Redis, and failing: nothing is at stake any longer.
LEMMA EndingStep ==
    ASSUME CacheInv, NEW r \in Requests, Hit(r) \/ Fails(r)
    PROVE  CacheInv'
<1>t. req[r] \in Locals /\ req \in [Requests -> Locals]
  BY DEF CacheInv, TypeOK
<1>1. CASE Hit(r)
  <2> DEFINE l == Served(req[r].due, redis[Key(r)])
  <2>0. req[r].epoch \in Epochs /\ req[r].version \in Versions
    BY <1>1, ServingAssumption
       DEF Hit, CacheInv, TypeOK, RequestsAreBound, Bound, EpochsHaveBegun, Keyed, Epochs
  <2>1. redis[Key(r)] \in Gens
    BY <2>0, <1>1 DEF Hit, Key, CacheInv, TypeOK
  <2>2. l.at = "done" /\ l \in Locals
    BY <2>1, <1>t, FreshIsTyped DEF Served, Locals, Stages
  <2>3. req' = [req EXCEPT ![r] = l] /\ UNCHANGED <<mysql, milvus, redis, local>>
    BY <1>1 DEF Hit
  <2> HIDE DEF l
  <2> QED
    BY <2>2, <2>3, QuietRequestSteps DEF Sound, Bound, Keyed
<1>2. CASE Fails(r)
  <2> DEFINE l == [Fresh EXCEPT !.at = "error"]
  <2>1. l.at = "error" /\ l \in Locals
    BY FreshIsTyped DEF Locals, Stages
  <2>2. req' = [req EXCEPT ![r] = l] /\ UNCHANGED <<mysql, milvus, redis, local>>
    BY <1>2 DEF Fails
  <2> HIDE DEF l
  <2> QED
    BY <2>1, <2>2, QuietRequestSteps DEF Sound, Bound, Keyed
<1> QED
  BY <1>1, <1>2

\* A request that also changes what its process holds.
LEMMA LocalStep ==
    ASSUME CacheInv, NEW r \in Requests, Sync(r) \/ PutL1(r) \/ Search(r)
    PROVE  CacheInv'
<1> DEFINE p == req[r].proc
<1>t. req[r] \in Locals /\ req \in [Requests -> Locals]
  BY DEF CacheInv, TypeOK
<1>b. p \in Procs /\ req[r].version \in Versions
  BY DEF Sync, PutL1, Search, Step, CacheInv, RequestsAreBound, Bound, Keyed
<1>1. CASE Sync(r)
  <2> DEFINE l == [req[r] EXCEPT !.at = "epoch"]
  <2>1. Sound(l)
    BY <1>t, <1>b DEF Sound, Bound, Locals, Stages, Keyed
  <2>2. /\ req' = [req EXCEPT ![r] = l]
        /\ UNCHANGED <<mysql, milvus, redis, l1, warm, clearing>>
        /\ known' = [known EXCEPT ![p] = req[r].version]
        /\ wrapper' = [wrapper EXCEPT ![p] = IF known[p] \in {None, req[r].version} THEN @
                                             ELSE None]
    BY <1>1, <1>t DEF Sync, Step
  <2>3. /\ req' \in [Requests -> Locals]
        /\ RequestsAreBound' /\ ResultsAreOfTheirEpoch'
        /\ \A x \in Requests : req'[x].at \in Keyed => req'[x].epoch \in 1..epoch'
    BY <2>1, <2>2, RequestSteps DEF mysql
  <2>4. TypeOK' /\ ActiveIsDated'
    BY <2>2, <2>3, <1>b DEF CacheInv, TypeOK, ActiveIsDated, mysql, milvus
  <2>5. EpochsHaveBegun' /\ ContentsGrow' /\ CachedIsOfItsEpoch'
    BY <2>2, <2>3 DEF CacheInv, EpochsHaveBegun, ContentsGrow, CachedIsOfItsEpoch, mysql, milvus
  <2> QED
    BY <2>3, <2>4, <2>5 DEF CacheInv
<1>2. CASE PutL1(r)
  <2> DEFINE l == [req[r] EXCEPT !.at = "get"]
  <2>0. req[r].at = "put" /\ req[r].epoch \in 1..epoch /\ req[r].epoch \in Epochs
    BY <1>2, ServingAssumption
       DEF PutL1, Step, CacheInv, EpochsHaveBegun, Keyed, TypeOK, Epochs
  <2>1. Sound(l)
    BY <1>t, <1>b, <2>0 DEF Sound, Bound, Locals, Stages, Keyed
  <2>2. /\ req' = [req EXCEPT ![r] = l]
        /\ l1' = [l1 EXCEPT ![p] = req[r].epoch]
        /\ UNCHANGED <<mysql, milvus, redis, known, wrapper, warm, clearing>>
    BY <1>2, <1>t DEF PutL1, Step
  <2>3. /\ req' \in [Requests -> Locals]
        /\ RequestsAreBound' /\ ResultsAreOfTheirEpoch'
        /\ \A x \in Requests : req'[x].at \in Keyed => req'[x].epoch \in 1..epoch'
    BY <2>1, <2>2, RequestSteps DEF mysql
  <2>4. TypeOK' /\ ActiveIsDated'
    BY <2>0, <2>2, <2>3, <1>b DEF CacheInv, TypeOK, ActiveIsDated, mysql, milvus
  <2>5. EpochsHaveBegun'
    BY <2>0, <2>2, <2>3, <1>b DEF CacheInv, TypeOK, EpochsHaveBegun, mysql, Epochs
  <2>6. ContentsGrow' /\ CachedIsOfItsEpoch'
    BY <2>2, <2>3 DEF CacheInv, ContentsGrow, CachedIsOfItsEpoch, mysql, milvus
  <2> QED
    BY <2>3, <2>4, <2>5, <2>6 DEF CacheInv
<1>3. CASE Search(r)
  <2> DEFINE c == IF wrapper[p] = None THEN coll ELSE wrapper[p]
             g == gen[req[r].version]
             l == [req[r] EXCEPT !.at = "set", !.through = c, !.result = g]
  <2>0. c \in 0..MaxColl /\ g \in Gens
    BY <1>b DEF CacheInv, TypeOK
  <2>1. /\ req[r].epoch \in 1..epoch /\ req[r].epoch \in Epochs
        /\ g >= floor[req[r].epoch][req[r].version]
    <3>1. req[r].epoch \in 1..epoch /\ req[r].epoch \in Epochs
      BY <1>3, ServingAssumption
         DEF Search, CacheInv, EpochsHaveBegun, Keyed, TypeOK, Epochs
    <3>2. floor[req[r].epoch][req[r].version] \in Nat
      BY <3>1, <1>b, ServingAssumption DEF CacheInv, TypeOK, Gens
    <3> QED
      BY <3>1, <3>2, <1>b, <2>0, ServingAssumption DEF CacheInv, ContentsGrow, Gens
  <2>2. /\ req' = [req EXCEPT ![r] = l]
        /\ wrapper' = [wrapper EXCEPT ![p] = c]
        /\ UNCHANGED <<mysql, milvus, redis, l1, known, warm, clearing>>
    BY <1>3, <1>t DEF Search
  <2> HIDE DEF c, g
  <2>3. Sound(l)
    BY <1>t, <1>b, <2>0, <2>1 DEF Sound, Bound, Locals, Stages, Keyed
  <2>4. /\ req' \in [Requests -> Locals]
        /\ RequestsAreBound' /\ ResultsAreOfTheirEpoch'
        /\ \A x \in Requests : req'[x].at \in Keyed => req'[x].epoch \in 1..epoch'
    BY <2>2, <2>3, RequestSteps DEF mysql
  <2>5. TypeOK' /\ ActiveIsDated'
    BY <2>0, <2>2, <2>4, <1>b DEF CacheInv, TypeOK, ActiveIsDated, mysql, milvus
  <2>6. EpochsHaveBegun' /\ ContentsGrow' /\ CachedIsOfItsEpoch'
    BY <2>2, <2>4 DEF CacheInv, EpochsHaveBegun, ContentsGrow, CachedIsOfItsEpoch, mysql, milvus
  <2> QED
    BY <2>4, <2>5, <2>6 DEF CacheInv
<1> QED
  BY <1>1, <1>2, <1>3

\* Storing a result: it is as new as the epoch of its key, which was built before the search.
LEMMA SetStep ==
    ASSUME CacheInv, NEW r \in Requests, Set(r)
    PROVE  CacheInv'
<1> DEFINE l == Served(req[r].due, req[r].result)
           v == req[r].version
           e == req[r].epoch
<1>t. req[r] \in Locals /\ req \in [Requests -> Locals]
  BY DEF CacheInv, TypeOK
<1>1. /\ req[r].at = "set" /\ v \in Versions /\ e \in 1..epoch /\ e \in Epochs
      /\ req[r].result \in Gens /\ req[r].result >= floor[e][v]
  BY ServingAssumption
     DEF Set, CacheInv, TypeOK, RequestsAreBound, Bound, EpochsHaveBegun, Keyed, Epochs,
         ResultsAreOfTheirEpoch
<1>2. l.at = "done" /\ l \in Locals
  BY <1>1, <1>t, FreshIsTyped DEF Served, Locals, Stages
<1>3. /\ req' = [req EXCEPT ![r] = l]
      /\ redis' = [redis EXCEPT ![<<v, e>>] = req[r].result]
      /\ UNCHANGED <<mysql, milvus, local>>
  BY DEF Set, Key
<1> HIDE DEF l
<1>4. /\ req' \in [Requests -> Locals]
      /\ RequestsAreBound' /\ ResultsAreOfTheirEpoch'
      /\ \A x \in Requests : req'[x].at \in Keyed => req'[x].epoch \in 1..epoch'
  BY <1>2, <1>3, RequestSteps DEF Sound, Bound, Keyed, mysql
<1>r. \A w \in Versions, f \in Epochs :
         redis'[<<w, f>>] = IF w = v /\ f = e THEN req[r].result ELSE redis[<<w, f>>]
  BY <1>1, <1>3 DEF CacheInv, TypeOK
<1>5. TypeOK' /\ ActiveIsDated'
  <2>1. redis' \in [Versions \X Epochs -> Gens \cup {None}]
    BY <1>1, <1>3 DEF CacheInv, TypeOK
  <2> QED
    BY <2>1, <1>3, <1>4 DEF CacheInv, TypeOK, ActiveIsDated, mysql, milvus, local
<1>6. EpochsHaveBegun'
  <2>1. \A w \in Versions, f \in Epochs : f > epoch => redis'[<<w, f>>] = None
    BY <1>1, <1>r DEF CacheInv, EpochsHaveBegun, TypeOK, Epochs
  <2> QED
    BY <2>1, <1>3, <1>4 DEF CacheInv, EpochsHaveBegun, mysql, local
<1>7. ContentsGrow'
  BY <1>3 DEF CacheInv, ContentsGrow, mysql, milvus
<1>8. CachedIsOfItsEpoch'
  <2> SUFFICES ASSUME NEW w \in Versions, NEW f \in Epochs, f <= epoch, redis'[<<w, f>>] # None
               PROVE  redis'[<<w, f>>] >= floor[f][w]
    BY <1>3 DEF CachedIsOfItsEpoch, mysql
  <2>1. CASE w = v /\ f = e
    BY <2>1, <1>1, <1>r
  <2>2. CASE ~(w = v /\ f = e)
    BY <2>2, <1>r DEF CacheInv, CachedIsOfItsEpoch
  <2> QED
    BY <2>1, <2>2
<1> QED
  BY <1>4, <1>5, <1>6, <1>7, <1>8 DEF CacheInv

\* A process that ends takes its requests and its copies with it.
LEMMA CrashStep ==
    ASSUME CacheInv, NEW p \in Procs, Crash(p)
    PROVE  CacheInv'
<1> DEFINE gone == [Fresh EXCEPT !.at = "error"]
<1>1. gone \in Locals /\ gone.at = "error"
  BY FreshIsTyped DEF Locals, Stages
<1>2. /\ req' = [r \in Requests |-> IF req[r].proc = p /\ req[r].at # "done" THEN gone ELSE req[r]]
      /\ UNCHANGED <<mysql, milvus, redis>>
      /\ l1' = [l1 EXCEPT ![p] = None]
  BY DEF Crash
<1> HIDE DEF gone
<1>3. req' \in [Requests -> Locals]
  BY <1>1, <1>2 DEF CacheInv, TypeOK
<1>4. \A r \in Requests : req'[r] = req[r] \/ req'[r].at = "error"
  BY <1>1, <1>2
<1>5. TypeOK' /\ ActiveIsDated'
  BY <1>2, <1>3 DEF CacheInv, TypeOK, ActiveIsDated, mysql, milvus, Crash, Cold, Warmth
<1>6. RequestsAreBound' /\ ResultsAreOfTheirEpoch'
  BY <1>2, <1>4 DEF CacheInv, RequestsAreBound, Bound, ResultsAreOfTheirEpoch, Keyed, mysql
<1>7. EpochsHaveBegun'
  BY <1>2, <1>4 DEF CacheInv, EpochsHaveBegun, Keyed, mysql, TypeOK
<1>8. ContentsGrow' /\ CachedIsOfItsEpoch'
  BY <1>2 DEF CacheInv, ContentsGrow, CachedIsOfItsEpoch, mysql, milvus
<1> QED
  BY <1>5, <1>6, <1>7, <1>8 DEF CacheInv

\* The other steps of a process and of the knowledge base.
LEMMA ProcessStep ==
    ASSUME CacheInv, NEW p \in Procs, Process(p)
    PROVE  CacheInv'
<1> USE DEF mysql, milvus
<1>0. TypeOK /\ ActiveIsDated
  BY DEF CacheInv
<1>g. \A v \in Versions : gen[v] >= gen[v]
  BY ServingAssumption DEF CacheInv, TypeOK, Gens
<1>1. CASE StartWarmup(p)
  <2>1. TypeOK' /\ ActiveIsDated'
    BY <1>0, <1>1 DEF TypeOK, ActiveIsDated, StartWarmup, Warmth
  <2> QED
    BY <2>1, <1>g, <1>1, OtherSteps DEF StartWarmup
<1>2. CASE WarmupReads(p)
  <2>1. TypeOK' /\ ActiveIsDated'
    BY <1>0, <1>2 DEF TypeOK, ActiveIsDated, WarmupReads, Warmth
  <2> QED
    BY <2>1, <1>g, <1>2, OtherSteps DEF WarmupReads
<1>3. CASE WarmupEnds(p)
  <2>1. TypeOK' /\ ActiveIsDated'
    BY <1>0, <1>3 DEF TypeOK, ActiveIsDated, WarmupEnds, Warmth
  <2> QED
    BY <2>1, <1>g, <1>3, OtherSteps DEF WarmupEnds
<1>4. CASE Crash(p)
  BY <1>4, CrashStep
<1>5. CASE ClearL1(p) \/ Expire(p)
  <2>1. TypeOK' /\ ActiveIsDated'
    BY <1>0, <1>5 DEF TypeOK, ActiveIsDated, ClearL1, Expire
  <2>2. \A q \in Procs : l1'[q] \in {l1[q], None}
    BY <1>0, <1>5 DEF TypeOK, ClearL1, Expire
  <2> QED
    BY <2>1, <2>2, <1>g, <1>5, OtherSteps DEF ClearL1, Expire
<1>6. CASE Invalidate(p)
  <2>1. TypeOK' /\ ActiveIsDated'
    BY <1>0, <1>6, ServingAssumption
       DEF TypeOK, ActiveIsDated, Invalidate, Bump, Epochs
  <2> QED
    BY <2>1, <1>6, BumpSteps DEF Invalidate
<1> QED
  BY <1>1, <1>2, <1>3, <1>4, <1>5, <1>6 DEF Process

\* Changes of content, activations and expiry keep it.
LEMMA KnowledgeBaseStep ==
    ASSUME CacheInv,
           (\E v \in Versions : Change(v) \/ Activate(v)) \/ Reset
             \/ \E key \in Versions \X Epochs : ExpireResult(key)
    PROVE  CacheInv'
<1> USE DEF mysql, milvus
<1>0. TypeOK /\ ActiveIsDated
  BY DEF CacheInv
<1>l. \A q \in Procs : l1[q] \in {l1[q], None}
  OBVIOUS
<1>1. ASSUME NEW v \in Versions, Change(v) PROVE CacheInv'
  <2>1. TypeOK' /\ ActiveIsDated'
    BY <1>0, <1>1, ServingAssumption DEF TypeOK, ActiveIsDated, Change, Gens, local
  <2>2. \A w \in Versions : gen'[w] >= gen[w]
    BY <1>0, <1>1, ServingAssumption DEF TypeOK, Change, Gens
  <2> QED
    BY <2>1, <2>2, <1>l, <1>1, OtherSteps DEF Change, local
<1>2. ASSUME NEW v \in Versions, Activate(v) PROVE CacheInv'
  <2>1. TypeOK' /\ ActiveIsDated'
    BY <1>0, <1>2, ServingAssumption
       DEF TypeOK, ActiveIsDated, Activate, Bump, Epochs, local
  <2> QED
    BY <2>1, <1>2, BumpSteps DEF Activate, local
<1>3. CASE Reset
  <2>1. TypeOK' /\ ActiveIsDated'
    BY <1>0, <1>3, ServingAssumption DEF TypeOK, ActiveIsDated, Reset, local
  <2>2. \A w \in Versions : gen'[w] >= gen[w]
    BY <1>0, <1>3, ServingAssumption DEF TypeOK, Reset, Gens
  <2> QED
    BY <2>1, <2>2, <1>l, <1>3, OtherSteps DEF Reset, local
<1>4. ASSUME NEW key \in Versions \X Epochs, ExpireResult(key) PROVE CacheInv'
  <2>1. TypeOK' /\ ActiveIsDated'
    BY <1>0, <1>4 DEF TypeOK, ActiveIsDated, ExpireResult, local
  <2>2. \A v \in Versions, e \in Epochs : redis'[<<v, e>>] \in {redis[<<v, e>>], None}
    BY <1>0, <1>4 DEF TypeOK, ExpireResult
  <2>3. EpochsHaveBegun' /\ CachedIsOfItsEpoch'
    BY <2>2, <1>4 DEF CacheInv, EpochsHaveBegun, CachedIsOfItsEpoch, ExpireResult, local
  <2>4. RequestsAreBound' /\ ResultsAreOfTheirEpoch' /\ ContentsGrow'
    BY <1>4 DEF CacheInv, RequestsAreBound, ResultsAreOfTheirEpoch, ContentsGrow, ExpireResult
  <2> QED
    BY <2>1, <2>3, <2>4 DEF CacheInv
<1> QED
  BY <1>1, <1>2, <1>3, <1>4

\* Every step keeps the invariant of the cache.
THEOREM CacheInvStep == CacheInv /\ [Next]_vars => CacheInv'
<1> SUFFICES ASSUME CacheInv, [Next]_vars PROVE CacheInv'
  OBVIOUS
<1>1. ASSUME NEW r \in Requests, Answer(r) PROVE CacheInv'
  BY <1>1, ResolveStep, LookupStep, EndingStep, LocalStep, SetStep DEF Answer
<1>2. ASSUME NEW p \in Procs, Process(p) PROVE CacheInv'
  BY <1>2, ProcessStep
<1>3. CASE UNCHANGED vars
  <2> USE <1>3 DEF vars, mysql, milvus, local
  <2>1. TypeOK' /\ ActiveIsDated'
    BY DEF CacheInv, TypeOK, ActiveIsDated
  <2>2. RequestsAreBound' /\ EpochsHaveBegun' /\ ContentsGrow'
    BY DEF CacheInv, RequestsAreBound, EpochsHaveBegun, ContentsGrow
  <2>3. ResultsAreOfTheirEpoch' /\ CachedIsOfItsEpoch'
    BY DEF CacheInv, ResultsAreOfTheirEpoch, CachedIsOfItsEpoch
  <2> QED
    BY <2>1, <2>2, <2>3 DEF CacheInv
<1> QED
  BY <1>1, <1>2, <1>3, KnowledgeBaseStep DEF Next

\* What is cached under an epoch is never older than that epoch: namespaces.py may advance
\* the epoch at any moment of a search.
THEOREM CacheHoldsItsEpoch == Spec => []CachedIsOfItsEpoch
<1>1. CacheInv => CachedIsOfItsEpoch
  BY DEF CacheInv
<1> QED
  BY <1>1, CacheInvInit, CacheInvStep, PTL DEF Spec

\* The state of the serving processes keeps its types.
THEOREM ServingIsTyped == Spec => []TypeOK
<1>1. CacheInv => TypeOK
  BY DEF CacheInv
<1> QED
  BY <1>1, CacheInvInit, CacheInvStep, PTL DEF Spec

-----------------------------------------------------------------------------
\* Old results only through L1.

\* Later epochs begin with newer contents.
FloorsGrow ==
    \A v \in Versions, d, e \in 1..epoch : d <= e => floor[d][v] <= floor[e][v]

\* A request cannot get an epoch, or a result, older than what it is due: not from MySQL, not
\* from L1, not from what another thread of its process is about to put there.
DueIsWithin(l) ==
    /\ l.at \in {"sync", "epoch"} =>
        /\ l.due <= floor[epoch][l.version]
        /\ l1[l.proc] # None => l.due <= floor[l1[l.proc]][l.version]
        /\ \A x \in Requests : req[x].at = "put" /\ req[x].proc = l.proc /\ req[x].epoch # None
              => l.due <= floor[req[x].epoch][l.version]
    /\ l.at \in {"put", "get", "search"} => l.due <= floor[l.epoch][l.version]
    /\ l.at \in {"set", "done"} => l.result >= l.due

DueIsKept == \A r \in Requests : DueIsWithin(req[r])

StaleInv == CacheInv /\ FloorsGrow /\ DueIsKept

\* The invariant of old results holds initially ...
THEOREM StaleInvInit == Init => StaleInv
<1> SUFFICES ASSUME Init PROVE StaleInv
  OBVIOUS
<1>1. FloorsGrow
  BY ServingAssumption DEF Init, FloorsGrow, Epochs
<1>2. DueIsKept
  BY DEF Init, DueIsKept, DueIsWithin, Fresh
<1> QED
  BY <1>1, <1>2, CacheInvInit DEF StaleInv

\* Floors of epochs that have begun are numbers, and never change.
LEMMA FloorsAreNumbers ==
    ASSUME CacheInv
    PROVE  /\ epoch \in 1..epoch /\ epoch \in Nat
           /\ \A e \in 1..epoch, v \in Versions : floor[e][v] \in Nat
           /\ \A v \in Versions : gen[v] \in Nat
           /\ \A r \in Requests : req[r].due \in Nat
<1>1. epoch \in Nat /\ epoch \in 1..epoch /\ \A e \in 1..epoch : e \in Epochs
  BY ServingAssumption DEF CacheInv, TypeOK, Epochs
<1>2. \A e \in 1..epoch, v \in Versions : floor[e][v] \in Gens
  BY <1>1 DEF CacheInv, TypeOK
<1>3. \A r \in Requests : req[r].due \in Gens
  BY DEF CacheInv, TypeOK, Locals
<1>4. \A v \in Versions : gen[v] \in Gens
  BY DEF CacheInv, TypeOK
<1> QED
  BY <1>1, <1>2, <1>3, <1>4, ServingAssumption DEF Gens

\* A step that changes one request, gives L1 nothing new and starts no new "put" leaves the
\* others with what they are due.
LEMMA DueOfOthers ==
    ASSUME StaleInv, NEW r \in Requests, UNCHANGED <<epoch, floor>>,
           \A p \in Procs : l1'[p] \in {l1[p], None},
           \A x \in Requests \ {r} : req'[x] = req[x],
           req'[r].at # "put", DueIsWithin(req[r])' 
    PROVE  DueIsKept'
<1> SUFFICES ASSUME NEW x \in Requests PROVE DueIsWithin(req[x])'
  BY DEF DueIsKept
<1>1. CASE x = r
  BY <1>1
<1>2. CASE x # r
  <2>1. req'[x] = req[x] /\ DueIsWithin(req[x]) /\ Bound(req[x])
    BY <1>2 DEF StaleInv, DueIsKept, CacheInv, RequestsAreBound
  <2>2. \A y \in Requests : req'[y].at = "put" => req'[y] = req[y]
    OBVIOUS
  <2> QED
    BY <2>1, <2>2 DEF DueIsWithin, Bound
<1> QED
  BY <1>1, <1>2

\* The steps of a request that leave the copies of the epoch alone.
LEMMA DueOfRequests ==
    ASSUME StaleInv, NEW r \in Requests,
           \/ \E p \in Procs, v \in Versions, asked \in BOOLEAN : Resolve(r, p, v, asked)
           \/ Sync(r) \/ EpochFromL1(r) \/ Hit(r) \/ Miss(r) \/ Search(r) \/ Set(r) \/ Fails(r)
    PROVE  DueIsKept'
<1> USE DEF mysql, milvus, local
<1>t. req \in [Requests -> Locals] /\ req[r] \in Locals
  BY DEF StaleInv, CacheInv, TypeOK
<1>d. DueIsWithin(req[r])
  BY DEF StaleInv, DueIsKept
<1>n. /\ epoch \in 1..epoch
      /\ \A e \in 1..epoch, v \in Versions : floor[e][v] \in Nat
      /\ \A v \in Versions : gen[v] \in Nat
  BY FloorsAreNumbers DEF StaleInv
<1>l. \A p \in Procs : l1[p] \in {l1[p], None}
  OBVIOUS
<1>o. \A x \in Requests \ {r} : req'[x] = req[x]
  BY <1>t DEF Resolve, Sync, Step, EpochFromL1, Hit, Miss, Search, Set, Fails
<1>1. ASSUME NEW p \in Procs, NEW v \in Versions, NEW asked \in BOOLEAN, Resolve(r, p, v, asked)
      PROVE  DueIsKept'
  <2> DEFINE d == IF Lagging(p) = {} THEN floor[epoch][v] ELSE 0
  <2>1. /\ req'[r].at \in {"sync", "epoch"} /\ req'[r].proc = p /\ req'[r].version = v
        /\ req'[r].due = d
    BY <1>1, <1>t DEF Resolve, Fresh
  <2>2. \A x \in Requests : req'[x].at = "put" => req'[x] = req[x]
    BY <2>1, <1>o
  <2>3. /\ l1[p] # None => l1[p] \in 1..epoch
        /\ \A x \in Requests : req[x].at = "put" => req[x].epoch \in 1..epoch
    BY DEF StaleInv, CacheInv, TypeOK, EpochsHaveBegun, Keyed, Epochs
  <2>4. d <= floor[epoch][v] /\ (l1[p] # None => d <= floor[l1[p]][v])
    <3>1. CASE Lagging(p) = {}
      BY <3>1, <1>n DEF Lagging
    <3>2. CASE Lagging(p) # {}
      BY <3>2, <2>3, <1>n
    <3> QED
      BY <3>1, <3>2
  <2>5. ASSUME NEW x \in Requests, req[x].at = "put", req[x].proc = p, req[x].epoch # None
        PROVE  d <= floor[req[x].epoch][v]
    <3>1. CASE Lagging(p) = {}
      <4>1. req[x].epoch = epoch
        BY <2>5, <3>1 DEF Lagging
      <4> QED
        BY <4>1, <3>1, <1>n
    <3>2. CASE Lagging(p) # {}
      BY <3>2, <2>3, <2>5, <1>n
    <3> QED
      BY <3>1, <3>2
  <2> HIDE DEF d
  <2>6. DueIsWithin(req[r])'
    BY <2>1, <2>2, <2>4, <2>5, <1>1 DEF DueIsWithin, Resolve
  <2> QED
    BY <2>1, <2>6, <1>1, <1>o, <1>l, DueOfOthers DEF Resolve
<1>2. CASE Sync(r)
  <2>1. /\ req'[r] = [req[r] EXCEPT !.at = "epoch"] /\ req[r].at = "sync"
        /\ UNCHANGED <<epoch, floor, l1>>
    BY <1>2, <1>t DEF Sync, Step
  <2>2. /\ req'[r].at = "epoch" /\ req'[r].proc = req[r].proc
        /\ req'[r].version = req[r].version /\ req'[r].due = req[r].due
    BY <2>1, <1>t DEF Locals
  <2>3. \A x \in Requests : req'[x].at = "put" => req'[x] = req[x]
    BY <2>2, <1>o
  <2>4. DueIsWithin(req[r])'
    BY <2>1, <2>2, <2>3, <1>d DEF DueIsWithin
  <2> QED
    BY <2>1, <2>2, <2>4, <1>o, <1>l, DueOfOthers
<1>3. CASE EpochFromL1(r)
  <2>1. /\ req'[r] = [req[r] EXCEPT !.at = "get", !.epoch = l1[req[r].proc]]
        /\ req[r].at = "epoch" /\ l1[req[r].proc] # None /\ UNCHANGED <<epoch, floor, l1>>
    BY <1>3, <1>t DEF EpochFromL1
  <2>2. /\ req'[r].at = "get" /\ req'[r].epoch = l1[req[r].proc]
        /\ req'[r].version = req[r].version /\ req'[r].due = req[r].due
    BY <2>1, <1>t DEF Locals
  <2>3. DueIsWithin(req[r])'
    BY <2>1, <2>2, <1>d DEF DueIsWithin
  <2> QED
    BY <2>1, <2>2, <2>3, <1>o, <1>l, DueOfOthers
<1>4. CASE Hit(r)
  <2> DEFINE v == req[r].version
             e == req[r].epoch
  <2>1. v \in Versions /\ e \in 1..epoch /\ e \in Epochs
    BY <1>4, ServingAssumption
       DEF Hit, StaleInv, CacheInv, TypeOK, RequestsAreBound, Bound, EpochsHaveBegun, Keyed, Epochs
  <2>2. redis[<<v, e>>] \in Gens /\ redis[<<v, e>>] >= floor[e][v]
    BY <2>1, <1>4 DEF Hit, Key, StaleInv, CacheInv, TypeOK, CachedIsOfItsEpoch
  <2>3. req'[r].at = "done" /\ req'[r].due = req[r].due /\ req'[r].result = redis[<<v, e>>]
    BY <1>4, <1>t DEF Hit, Key, Served, Fresh
  <2>4. req[r].due \in Nat /\ req[r].due <= floor[e][v]
    BY <1>4, <1>d, FloorsAreNumbers DEF Hit, DueIsWithin, StaleInv
  <2>5. DueIsWithin(req[r])'
    BY <2>1, <2>2, <2>3, <2>4, <1>n, ServingAssumption DEF DueIsWithin, Gens
  <2> QED
    BY <1>4, <2>3, <2>5, <1>o, <1>l, DueOfOthers DEF Hit
<1>5. CASE Miss(r)
  <2>1. /\ req'[r] = [req[r] EXCEPT !.at = "search"] /\ req[r].at = "get"
        /\ UNCHANGED <<epoch, floor, l1>>
    BY <1>5, <1>t DEF Miss, Step
  <2>2. /\ req'[r].at = "search" /\ req'[r].epoch = req[r].epoch
        /\ req'[r].version = req[r].version /\ req'[r].due = req[r].due
    BY <2>1, <1>t DEF Locals
  <2>3. DueIsWithin(req[r])'
    BY <2>1, <2>2, <1>d DEF DueIsWithin
  <2> QED
    BY <2>1, <2>2, <2>3, <1>o, <1>l, DueOfOthers
<1>6. CASE Search(r)
  <2> DEFINE v == req[r].version
             e == req[r].epoch
  <2>1. v \in Versions /\ e \in 1..epoch
    BY <1>6
       DEF Search, StaleInv, CacheInv, RequestsAreBound, Bound, EpochsHaveBegun, Keyed
  <2>2. req'[r].at = "set" /\ req'[r].due = req[r].due /\ req'[r].result = gen[v]
    BY <1>6, <1>t DEF Search, Locals
  <2>3. req[r].due \in Nat /\ req[r].due <= floor[e][v] /\ floor[e][v] <= gen[v]
    BY <1>6, <2>1, <1>d, FloorsAreNumbers
       DEF Search, DueIsWithin, StaleInv, CacheInv, ContentsGrow
  <2>4. DueIsWithin(req[r])'
    BY <2>1, <2>2, <2>3, <1>n DEF DueIsWithin
  <2> QED
    BY <1>6, <2>2, <2>4, <1>o, <1>l, DueOfOthers DEF Search
<1>7. CASE Set(r)
  <2>1. /\ req'[r].at = "done" /\ req'[r].due = req[r].due /\ req'[r].result = req[r].result
        /\ req[r].at = "set"
    BY <1>7, <1>t DEF Set, Served, Fresh
  <2>2. DueIsWithin(req[r])'
    BY <2>1, <1>d DEF DueIsWithin
  <2> QED
    BY <1>7, <2>1, <2>2, <1>o, <1>l, DueOfOthers DEF Set
<1>8. CASE Fails(r)
  <2>1. req'[r].at = "error"
    BY <1>8, <1>t, FreshIsTyped DEF Fails, Locals
  <2>2. DueIsWithin(req[r])'
    BY <2>1 DEF DueIsWithin
  <2> QED
    BY <1>8, <2>1, <2>2, <1>o, <1>l, DueOfOthers DEF Fails
<1> QED
  BY <1>1, <1>2, <1>3, <1>4, <1>5, <1>6, <1>7, <1>8

\* The two steps that bring an epoch from MySQL to L1.
LEMMA DueOfFills ==
    ASSUME StaleInv, NEW r \in Requests, EpochFromMySQL(r) \/ PutL1(r)
    PROVE  DueIsKept'
<1> USE DEF mysql, milvus, local
<1> DEFINE p == req[r].proc
<1>t. req \in [Requests -> Locals] /\ req[r] \in Locals
  BY DEF StaleInv, CacheInv, TypeOK
<1>b. p \in Procs
  BY DEF EpochFromMySQL, PutL1, Step, StaleInv, CacheInv, RequestsAreBound, Bound, Keyed
<1> SUFFICES ASSUME NEW y \in Requests PROVE DueIsWithin(req[y])'
  BY DEF DueIsKept
<1>d. DueIsWithin(req[y]) /\ DueIsWithin(req[r])
  BY DEF StaleInv, DueIsKept
<1>o. \A x \in Requests \ {r} : req'[x] = req[x]
  BY <1>t DEF EpochFromMySQL, PutL1, Step
<1>1. CASE EpochFromMySQL(r)
  <2>1. /\ req'[r].at = "put" /\ req'[r].epoch = epoch /\ req'[r].proc = p
        /\ req'[r].version = req[r].version /\ req'[r].due = req[r].due
        /\ req[r].at = "epoch" /\ UNCHANGED <<epoch, floor, l1>>
    BY <1>1, <1>t DEF EpochFromMySQL, Locals
  <2>2. CASE y = r
    BY <2>1, <2>2, <1>d DEF DueIsWithin
  <2>3. CASE y # r
    BY <2>1, <2>3, <1>d, <1>o DEF DueIsWithin
  <2> QED
    BY <2>2, <2>3
<1>2. CASE PutL1(r)
  <2>1. /\ req'[r] = [req[r] EXCEPT !.at = "get"] /\ req[r].at = "put"
        /\ UNCHANGED <<epoch, floor>>
        /\ l1' = [l1 EXCEPT ![p] = req[r].epoch]
    BY <1>2, <1>t DEF PutL1, Step
  <2>2. /\ req'[r].at = "get" /\ req'[r].epoch = req[r].epoch
        /\ req'[r].version = req[r].version /\ req'[r].due = req[r].due
    BY <2>1, <1>t DEF Locals
  <2>3. \A q \in Procs : l1'[q] = IF q = p THEN req[r].epoch ELSE l1[q]
    BY <2>1 DEF StaleInv, CacheInv, TypeOK
  <2>4. CASE y = r
    BY <2>1, <2>2, <2>4, <1>d DEF DueIsWithin
  <2>5. CASE y # r
    <3>1. req'[y] = req[y] /\ (req[y].at \in {"sync", "epoch"} => req[y].proc \in Procs)
      BY <2>5, <1>o DEF StaleInv, CacheInv, RequestsAreBound, Bound
    <3>2. \A x \in Requests : req'[x].at = "put" => req'[x] = req[x]
      BY <2>2, <1>o
    <3> QED
      BY <2>1, <2>3, <3>1, <3>2, <1>d DEF DueIsWithin
  <2> QED
    BY <2>4, <2>5
<1> QED
  BY <1>1, <1>2

\* A step that leaves every request as it is, or has it end, and gives L1 nothing new.
LEMMA DueOfProcesses ==
    ASSUME StaleInv, UNCHANGED <<epoch, floor>>,
           \A p \in Procs : l1'[p] \in {l1[p], None},
           \A x \in Requests : req'[x] = req[x] \/ req'[x].at = "error"
    PROVE  DueIsKept'
<1> SUFFICES ASSUME NEW y \in Requests PROVE DueIsWithin(req[y])'
  BY DEF DueIsKept
<1>1. DueIsWithin(req[y]) /\ Bound(req[y])
  BY DEF StaleInv, DueIsKept, CacheInv, RequestsAreBound
<1> QED
  BY <1>1 DEF DueIsWithin, Bound

\* A new epoch is newer than what anybody is due.
LEMMA DueOfBumps ==
    ASSUME StaleInv, Bump, UNCHANGED <<gen, l1, req>>
    PROVE  DueIsKept' /\ FloorsGrow'
<1>n. /\ epoch \in 1..epoch /\ epoch \in Nat
      /\ \A e \in 1..epoch, v \in Versions : floor[e][v] \in Nat
      /\ \A v \in Versions : gen[v] \in Nat
      /\ \A r \in Requests : req[r].due \in Nat
  BY FloorsAreNumbers DEF StaleInv
<1>0. /\ epoch' = epoch + 1
      /\ \A e \in 1..epoch : floor'[e] = floor[e]
      /\ floor'[epoch + 1] = gen
  BY ServingAssumption DEF StaleInv, CacheInv, TypeOK, Epochs, Bump
<1>1. FloorsGrow'
  <2> SUFFICES ASSUME NEW v \in Versions, NEW d \in 1..(epoch + 1), NEW e \in 1..(epoch + 1), d <= e
               PROVE  floor'[d][v] <= floor'[e][v]
    BY <1>0 DEF FloorsGrow
  <2>1. CASE e = epoch + 1
    BY <2>1, <1>0, <1>n DEF StaleInv, CacheInv, ContentsGrow
  <2>2. CASE e # epoch + 1
    BY <2>2, <1>0, <1>n DEF StaleInv, FloorsGrow
  <2> QED
    BY <2>1, <2>2
<1>2. DueIsKept'
  <2> SUFFICES ASSUME NEW y \in Requests PROVE DueIsWithin(req[y])'
    BY DEF DueIsKept
  <2>1. DueIsWithin(req[y]) /\ Bound(req[y])
    BY DEF StaleInv, DueIsKept, CacheInv, RequestsAreBound
  <2>2. req[y].at \in Keyed => req[y].epoch \in 1..epoch
    BY DEF StaleInv, CacheInv, EpochsHaveBegun
  <2>3. \A p \in Procs : l1[p] # None => l1[p] \in 1..epoch
    BY DEF StaleInv, CacheInv, TypeOK, EpochsHaveBegun, Epochs
  <2>4. \A x \in Requests : req[x].at = "put" => req[x].epoch \in 1..epoch
    BY DEF StaleInv, CacheInv, EpochsHaveBegun, Keyed
  <2>5. req[y].at \in {"sync", "epoch"} => req[y].due <= floor'[epoch'][req[y].version]
    <3> SUFFICES ASSUME req[y].at \in {"sync", "epoch"}
                 PROVE  req[y].due <= gen[req[y].version]
      BY <1>0
    <3>1. req[y].version \in Versions /\ req[y].due <= floor[epoch][req[y].version]
      BY <2>1 DEF DueIsWithin, Bound
    <3>2. floor[epoch][req[y].version] <= gen[req[y].version]
      BY <3>1, <1>n DEF StaleInv, CacheInv, ContentsGrow
    <3> QED
      BY <3>1, <3>2, <1>n
  <2> QED
    BY <2>1, <2>2, <2>3, <2>4, <2>5, <1>0 DEF DueIsWithin, Bound, Keyed
<1> QED
  BY <1>1, <1>2

\* ... and is kept by every step.
THEOREM StaleInvStep == StaleInv /\ [Next]_vars => StaleInv'
<1> SUFFICES ASSUME StaleInv, [Next]_vars PROVE StaleInv'
  OBVIOUS
<1> USE DEF mysql, milvus, local
<1>0. CacheInv'
  BY CacheInvStep DEF StaleInv
<1>f. UNCHANGED <<epoch, floor>> => FloorsGrow'
  BY DEF StaleInv, FloorsGrow
<1>1. ASSUME NEW r \in Requests, Answer(r) PROVE FloorsGrow' /\ DueIsKept'
  <2>1. UNCHANGED <<epoch, floor>>
    BY <1>1 DEF Answer, Resolve, Sync, EpochFromL1, EpochFromMySQL, PutL1, Hit, Miss, Search, Set,
       Fails
  <2>2. DueIsKept'
    BY <1>1, DueOfRequests, DueOfFills DEF Answer
  <2> QED
    BY <2>1, <2>2, <1>f
<1>2. ASSUME NEW p \in Procs, Process(p) PROVE FloorsGrow' /\ DueIsKept'
  <2>1. CASE Invalidate(p)
    BY <2>1, DueOfBumps DEF Invalidate
  <2>2. CASE Crash(p)
    <3>1. \A x \in Requests : req'[x] = req[x] \/ req'[x].at = "error"
      BY <2>2, FreshIsTyped DEF Crash, Locals
    <3>2. UNCHANGED <<epoch, floor>> /\ \A q \in Procs : l1'[q] \in {l1[q], None}
      BY <2>2 DEF Crash, StaleInv, CacheInv, TypeOK
    <3> QED
      BY <3>1, <3>2, <1>f, DueOfProcesses
  <2>3. CASE StartWarmup(p) \/ WarmupReads(p) \/ WarmupEnds(p) \/ ClearL1(p) \/ Expire(p)
    <3>1. UNCHANGED <<epoch, floor, req>> /\ \A q \in Procs : l1'[q] \in {l1[q], None}
      BY <2>3 DEF StartWarmup, WarmupReads, WarmupEnds, ClearL1, Expire, StaleInv, CacheInv, TypeOK
    <3> QED
      BY <3>1, <1>f, DueOfProcesses
  <2> QED
    BY <1>2, <2>1, <2>2, <2>3 DEF Process
<1>3. ASSUME NEW v \in Versions, Activate(v) PROVE FloorsGrow' /\ DueIsKept'
  BY <1>3, DueOfBumps DEF Activate
<1>4. CASE \/ \E v \in Versions : Change(v)
           \/ Reset \/ (\E key \in Versions \X Epochs : ExpireResult(key)) \/ UNCHANGED vars
  <2>1. UNCHANGED <<epoch, floor, req, l1>>
    BY <1>4 DEF Change, Reset, ExpireResult, vars
  <2> QED
    BY <2>1, <1>0, <1>f, DueOfProcesses DEF StaleInv
<1> QED
  BY <1>0, <1>1, <1>2, <1>3, <1>4 DEF Next, StaleInv

\* A request is answered from the content of the last advance of the epoch or newer, unless
\* its process held an older epoch when it came.
THEOREM OldResultsComeThroughL1 == Spec => []StaleOnlyThroughL1
<1>1. StaleInv => StaleOnlyThroughL1
  BY DEF StaleInv, DueIsKept, DueIsWithin, StaleOnlyThroughL1
<1> QED
  BY <1>1, StaleInvInit, StaleInvStep, PTL DEF Spec

-----------------------------------------------------------------------------
\* Connections to the collection of the active version.

AtWork == Keyed \cup {"sync", "epoch"}

\* A version known, or being read, has been activated.
KnownAreDated ==
    /\ \A v \in Versions : since[v] # None => since[v] <= coll
    /\ \A p \in Procs : known[p] # None => since[known[p]] # None
    /\ \A p \in Procs : warm[p].at = "reading" =>
          warm[p].version \in Versions /\ since[warm[p].version] # None

\* A process that serves knows a version, and its connection is no older than that version;
\* before that it has none.
ConnectionsAreCurrent ==
    /\ \A p \in Procs : warm[p].at \in {"not_started", "running"} => wrapper[p] = None
    /\ \A p \in Procs : warm[p].at \in {"not_started", "running", "reading"} => known[p] = None
    /\ \A p \in Procs : warm[p].at = "ready" => known[p] # None
    /\ \A p \in Procs : known[p] # None /\ wrapper[p] # None => wrapper[p] >= since[known[p]]
    /\ \A p \in Procs : warm[p].at = "reading" /\ wrapper[p] # None =>
          wrapper[p] >= since[warm[p].version]

\* The connection a request will use, or has used.
ThroughLive(l) ==
    /\ l.at \in AtWork => warm[l.proc].at = "ready" /\ l.live <= coll
    /\ l.at = "sync" => ~l.asked /\ l.live = since[l.version] /\ since[l.version] # None
    /\ l.at \in {"epoch", "put", "get", "search"} /\ ~l.asked =>
          wrapper[l.proc] = None \/ wrapper[l.proc] >= l.live
    /\ l.at = "set" /\ ~l.asked => l.through >= l.live

LiveInv == /\ CacheInv /\ KnownAreDated /\ ConnectionsAreCurrent
           /\ \A r \in Requests : ThroughLive(req[r])

\* The invariant of the connections holds initially ...
THEOREM LiveInvInit == Init => LiveInv
<1> SUFFICES ASSUME Init PROVE LiveInv
  OBVIOUS
<1>1. KnownAreDated /\ ConnectionsAreCurrent
  BY ServingAssumption DEF Init, KnownAreDated, ConnectionsAreCurrent, Cold
<1>2. \A r \in Requests : ThroughLive(req[r])
  BY DEF Init, ThroughLive, Fresh, AtWork, Keyed
<1> QED
  BY <1>1, <1>2, CacheInvInit DEF LiveInv

\* The collections that are counted.
LEMMA CollectionsAreNumbers ==
    ASSUME CacheInv
    PROVE  /\ coll \in Nat
           /\ \A v \in Versions : since[v] # None => since[v] \in Nat
           /\ \A p \in Procs : wrapper[p] # None => wrapper[p] \in Nat
           /\ \A p \in Procs : known[p] # None => known[p] \in Versions
           /\ \A r \in Requests : req[r].live \in Nat
BY ServingAssumption DEF CacheInv, TypeOK, Locals

\* A request that resolves its version keeps to live collections.
LEMMA LiveOfResolve ==
    ASSUME LiveInv, NEW r \in Requests, NEW p \in Procs, NEW v \in Versions,
           NEW asked \in BOOLEAN, Resolve(r, p, v, asked)
    PROVE  KnownAreDated' /\ ConnectionsAreCurrent' /\ \A x \in Requests : ThroughLive(req[x])'
<1> USE DEF mysql, milvus, local
<1> DEFINE l == IF asked THEN 0 ELSE since[v]
<1>t. req \in [Requests -> Locals]
  BY DEF LiveInv, CacheInv, TypeOK
<1>1. KnownAreDated' /\ ConnectionsAreCurrent'
  BY DEF Resolve, LiveInv, KnownAreDated, ConnectionsAreCurrent
<1>2. \A x \in Requests \ {r} : ThroughLive(req[x])'
  BY <1>t DEF Resolve, LiveInv, ThroughLive
<1>3. /\ req'[r].at = (IF asked THEN "epoch" ELSE "sync") /\ req'[r].proc = p
      /\ req'[r].version = v /\ req'[r].live = l
      /\ UNCHANGED <<since, coll, wrapper, warm>>
  BY <1>t DEF Resolve, Fresh
<1>4. req'[r].asked = asked
  BY <1>t DEF Resolve, Fresh
<1>5. warm[p].at = "ready" /\ l \in Nat /\ l <= coll
  BY ServingAssumption, CollectionsAreNumbers
     DEF Resolve, LiveInv, CacheInv, ActiveIsDated, KnownAreDated
<1>6. ~asked => l = since[v] /\ since[v] # None
  BY ServingAssumption DEF Resolve, LiveInv, CacheInv, ActiveIsDated
<1>7. ThroughLive(req[r])'
  BY <1>3, <1>4, <1>5, <1>6 DEF ThroughLive, AtWork, Keyed
<1> QED
  BY <1>1, <1>2, <1>7

\* The other steps of a request do.
LEMMA LiveOfRequests ==
    ASSUME LiveInv, NEW r \in Requests,
           \/ Sync(r) \/ EpochFromL1(r) \/ EpochFromMySQL(r) \/ PutL1(r)
           \/ Hit(r) \/ Miss(r) \/ Search(r) \/ Set(r) \/ Fails(r)
    PROVE  KnownAreDated' /\ ConnectionsAreCurrent' /\ \A x \in Requests : ThroughLive(req[x])'
<1> USE DEF mysql, milvus, local
<1> DEFINE p == req[r].proc
           v == req[r].version
<1>t. req \in [Requests -> Locals] /\ req[r] \in Locals
  BY DEF LiveInv, CacheInv, TypeOK
<1>d. ThroughLive(req[r])
  BY DEF LiveInv
<1>n. /\ coll \in Nat /\ coll # None
      /\ \A w \in Versions : since[w] # None => since[w] \in Nat
      /\ \A q \in Procs : wrapper[q] # None => wrapper[q] \in Nat
      /\ \A x \in Requests : req[x].live \in Nat
  BY CollectionsAreNumbers, ServingAssumption DEF LiveInv, CacheInv, TypeOK
<1>o. \A x \in Requests \ {r} : req'[x] = req[x]
  BY <1>t DEF Sync, Step, EpochFromL1, EpochFromMySQL, PutL1, Hit, Miss, Search, Set, Fails
<1>1. CASE Sync(r)
  <2>1. /\ p \in Procs /\ v \in Versions /\ warm[p].at = "ready"
        /\ req[r].at = "sync" /\ ~req[r].asked
        /\ req[r].live = since[v] /\ since[v] # None /\ req[r].live <= coll
    BY <1>1, <1>d
       DEF Sync, Step, LiveInv, CacheInv, RequestsAreBound, Bound, ThroughLive, AtWork
  <2>2. /\ req'[r].at = "epoch" /\ req'[r].proc = p /\ req'[r].live = req[r].live
    BY <1>1, <1>t DEF Sync, Step, Locals
  <2>3. /\ \A q \in Procs : /\ known'[q] = IF q = p THEN v ELSE known[q]
                            /\ wrapper'[q] = IF q = p /\ known[p] \notin {None, v} THEN None
                                             ELSE wrapper[q]
        /\ UNCHANGED <<since, coll, warm>>
    BY <1>1, <2>1 DEF Sync, LiveInv, CacheInv, TypeOK
  <2>4. wrapper'[p] # None => wrapper'[p] >= since[v]
    BY <2>1, <2>3 DEF LiveInv, ConnectionsAreCurrent
  <2>5. KnownAreDated'
    BY <2>1, <2>3 DEF LiveInv, KnownAreDated
  <2>6. ConnectionsAreCurrent'
    BY <2>1, <2>3, <2>4, ServingAssumption DEF LiveInv, ConnectionsAreCurrent
  <2>7. ASSUME NEW x \in Requests \ {r} PROVE ThroughLive(req[x])'
    <3>1. req'[x] = req[x] /\ ThroughLive(req[x]) /\ Bound(req[x])
      BY <1>o DEF LiveInv, CacheInv, RequestsAreBound
    <3> QED
      BY <3>1, <2>3 DEF ThroughLive, Bound, AtWork, Keyed
  <2>8. ThroughLive(req[r])'
    BY <2>1, <2>2, <2>3, <2>4 DEF ThroughLive, AtWork, Keyed
  <2> QED
    BY <2>5, <2>6, <2>7, <2>8
<1>2. CASE Search(r)
  <2> DEFINE c == IF wrapper[p] = None THEN coll ELSE wrapper[p]
  <2>1. /\ p \in Procs /\ v \in Versions /\ warm[p].at = "ready" /\ req[r].live <= coll
        /\ ~req[r].asked => wrapper[p] = None \/ wrapper[p] >= req[r].live
    BY <1>2, <1>d
       DEF Search, LiveInv, CacheInv, RequestsAreBound, Bound, ThroughLive, AtWork, Keyed
  <2>2. /\ req'[r] = [req[r] EXCEPT !.at = "set", !.through = c, !.result = gen[v]]
        /\ UNCHANGED <<since, coll, warm, known>>
        /\ wrapper' = [wrapper EXCEPT ![p] = c]
    BY <1>2, <1>t DEF Search
  <2>3. /\ req'[r].at = "set" /\ req'[r].proc = p /\ req'[r].live = req[r].live
        /\ req'[r].through = c
    BY <2>2, <1>t DEF Locals
  <2>4. req'[r].asked = req[r].asked
    BY <2>2, <1>t DEF Locals
  <2>5. \A q \in Procs : wrapper'[q] = IF q = p THEN c ELSE wrapper[q]
    BY <2>1, <2>2 DEF LiveInv, CacheInv, TypeOK
  <2>6. /\ \A w \in Versions : since[w] # None => since[w] <= coll
        /\ ~req[r].asked => c >= req[r].live
    BY <2>1, <1>n DEF LiveInv, KnownAreDated
  <2>7. KnownAreDated'
    BY <2>2 DEF LiveInv, KnownAreDated
  <2>8. ConnectionsAreCurrent'
    <3>1. ASSUME NEW q \in Procs, known[q] # None, wrapper'[q] # None
          PROVE  wrapper'[q] >= since[known[q]]
      <4>1. known[q] \in Versions /\ since[known[q]] # None
        BY <3>1 DEF LiveInv, KnownAreDated, CacheInv, TypeOK
      <4> QED
        BY <3>1, <4>1, <2>5, <2>6, <1>n DEF LiveInv, ConnectionsAreCurrent
    <3> QED
      BY <3>1, <2>1, <2>2, <2>5 DEF LiveInv, ConnectionsAreCurrent
  <2>9. ASSUME NEW x \in Requests \ {r} PROVE ThroughLive(req[x])'
    <3>1. req'[x] = req[x] /\ ThroughLive(req[x]) /\ Bound(req[x])
      BY <1>o DEF LiveInv, CacheInv, RequestsAreBound
    <3> QED
      BY <3>1, <2>2, <2>5, <1>n DEF ThroughLive, Bound, AtWork, Keyed
  <2>10. ThroughLive(req[r])'
    BY <2>1, <2>2, <2>3, <2>4, <2>6 DEF ThroughLive, AtWork, Keyed
  <2> QED
    BY <2>7, <2>8, <2>9, <2>10
<1>3. CASE EpochFromL1(r) \/ EpochFromMySQL(r) \/ PutL1(r) \/ Miss(r)
  <2>1. /\ UNCHANGED <<since, coll, warm, known, wrapper>>
        /\ req[r].at \in {"epoch", "put", "get"}
        /\ req'[r].at \in {"put", "get", "search"} /\ req'[r].proc = p
        /\ req'[r].live = req[r].live
    BY <1>3, <1>t DEF EpochFromL1, EpochFromMySQL, PutL1, Miss, Step, Locals
  <2>2. req'[r].asked = req[r].asked
    BY <1>3, <1>t DEF EpochFromL1, EpochFromMySQL, PutL1, Miss, Step, Locals
  <2>3. ThroughLive(req[r])'
    BY <2>1, <2>2, <1>d DEF ThroughLive, AtWork, Keyed
  <2> QED
    BY <2>1, <2>3, <1>o DEF LiveInv, KnownAreDated, ConnectionsAreCurrent, ThroughLive
<1>4. CASE Hit(r) \/ Set(r) \/ Fails(r)
  <2>1. UNCHANGED <<since, coll, warm, known, wrapper>> /\ req'[r].at \in {"done", "error"}
    <3>1. \A d, g : Served(d, g).at = "done"
      BY FreshIsTyped DEF Served, Locals
    <3>2. [Fresh EXCEPT !.at = "error"].at = "error"
      BY FreshIsTyped DEF Locals
    <3>3. CASE Hit(r)
      BY <3>3, <1>t, <3>1 DEF Hit
    <3>4. CASE Set(r)
      BY <3>4, <1>t, <3>1 DEF Set
    <3>5. CASE Fails(r)
      BY <3>5, <1>t, <3>2 DEF Fails
    <3> QED
      BY <1>4, <3>3, <3>4, <3>5
  <2>2. ThroughLive(req[r])'
    BY <2>1 DEF ThroughLive, AtWork, Keyed
  <2> QED
    BY <2>1, <2>2, <1>o DEF LiveInv, KnownAreDated, ConnectionsAreCurrent, ThroughLive
<1> QED
  BY <1>1, <1>2, <1>3, <1>4

\* Warm-ups, changes of the local copies and deaths of processes do.
LEMMA LiveOfProcesses ==
    ASSUME LiveInv, NEW p \in Procs, Process(p)
    PROVE  KnownAreDated' /\ ConnectionsAreCurrent' /\ \A x \in Requests : ThroughLive(req[x])'
<1> USE DEF mysql, milvus, local
<1>t. TypeOK
  BY DEF LiveInv, CacheInv
<1>n. /\ coll \in Nat /\ coll # None
      /\ \A w \in Versions : since[w] # None => since[w] \in Nat
      /\ \A q \in Procs : wrapper[q] # None => wrapper[q] \in Nat
      /\ active \in Versions /\ since[active] # None
  BY CollectionsAreNumbers, ServingAssumption DEF LiveInv, CacheInv, TypeOK, ActiveIsDated
<1>r. \A x \in Requests : ThroughLive(req[x]) /\ Bound(req[x])
  BY DEF LiveInv, CacheInv, RequestsAreBound
<1>1. CASE StartWarmup(p) \/ WarmupReads(p) \/ WarmupEnds(p)
  <2>0. /\ warm[p].at \in {"not_started", "running", "reading"} /\ known[p] = None
        /\ UNCHANGED <<since, coll, req>>
    BY <1>1 DEF StartWarmup, WarmupReads, WarmupEnds, LiveInv, ConnectionsAreCurrent
  <2>1. \A x \in Requests : req[x].at \in AtWork => req[x].proc # p
    BY <1>r, <2>0 DEF ThroughLive
  <2>2. \A q \in Procs \ {p} : warm'[q] = warm[q] /\ known'[q] = known[q] /\ wrapper'[q] = wrapper[q]
    BY <1>1, <1>t DEF StartWarmup, WarmupReads, WarmupEnds, TypeOK
  <2>3. \A x \in Requests : ThroughLive(req[x])'
    <3> SUFFICES ASSUME NEW x \in Requests PROVE ThroughLive(req[x])'
      OBVIOUS
    <3>1. ThroughLive(req[x]) /\ Bound(req[x])
      BY <1>r
    <3> QED
      BY <3>1, <2>0, <2>1, <2>2 DEF ThroughLive, AtWork, Keyed, Bound
  <2>4. CASE StartWarmup(p)
    <3>1. /\ warm'[p].at = "running" /\ UNCHANGED <<known, wrapper>>
          /\ warm[p].at = "not_started"
      BY <2>4, <1>t DEF StartWarmup, TypeOK, Warmth
    <3> QED
      BY <3>1, <2>0, <2>2, <2>3 DEF LiveInv, KnownAreDated, ConnectionsAreCurrent
  <2>5. CASE WarmupReads(p)
    <3>1. /\ warm'[p].at = "reading" /\ warm'[p].version = active
          /\ wrapper'[p] = coll /\ UNCHANGED known
      BY <2>5, <1>t DEF WarmupReads, TypeOK, LiveInv, ConnectionsAreCurrent
    <3> QED
      BY <3>1, <2>0, <2>2, <2>3, <1>n DEF LiveInv, KnownAreDated, ConnectionsAreCurrent
  <2>6. CASE WarmupEnds(p)
    <3>1. /\ warm'[p].at = "ready" /\ known'[p] = warm[p].version /\ UNCHANGED wrapper
          /\ warm[p].at = "reading"
      BY <2>6, <1>t DEF WarmupEnds, TypeOK
    <3>2. warm[p].version \in Versions /\ since[warm[p].version] # None
      BY <3>1 DEF LiveInv, KnownAreDated
    <3>3. warm[p].version # None
      BY <3>2, ServingAssumption
    <3> QED
      BY <3>1, <3>2, <3>3, <2>0, <2>2, <2>3 DEF LiveInv, KnownAreDated, ConnectionsAreCurrent
  <2> QED
    BY <1>1, <2>4, <2>5, <2>6
<1>2. CASE Crash(p)
  <2>1. /\ UNCHANGED <<since, coll>>
        /\ \A q \in Procs : /\ warm'[q] = IF q = p THEN Cold ELSE warm[q]
                            /\ known'[q] = IF q = p THEN None ELSE known[q]
                            /\ wrapper'[q] = IF q = p THEN None ELSE wrapper[q]
    BY <1>2, <1>t DEF Crash, TypeOK
  <2>2. [Fresh EXCEPT !.at = "error"].at = "error"
    BY FreshIsTyped DEF Locals
  <2>3. \A x \in Requests : \/ req'[x].at = "error"
                            \/ req'[x] = req[x] /\ (req[x].at \in AtWork => req[x].proc # p)
    BY <1>2, <2>2 DEF Crash, AtWork, Keyed
  <2>4. KnownAreDated' /\ ConnectionsAreCurrent'
    BY <2>1, <1>n DEF LiveInv, KnownAreDated, ConnectionsAreCurrent, Cold
  <2>5. ASSUME NEW x \in Requests PROVE ThroughLive(req[x])'
    <3>1. ThroughLive(req[x]) /\ Bound(req[x])
      BY <1>r
    <3> QED
      BY <3>1, <2>1, <2>3 DEF ThroughLive, AtWork, Keyed, Bound
  <2> QED
    BY <2>4, <2>5
<1>3. CASE ClearL1(p) \/ Invalidate(p) \/ Expire(p)
  <2>1. UNCHANGED <<since, coll, warm, known, wrapper, req>>
    BY <1>3 DEF ClearL1, Invalidate, Expire
  <2> QED
    BY <2>1, <1>r DEF LiveInv, KnownAreDated, ConnectionsAreCurrent, ThroughLive
<1> QED
  BY <1>1, <1>2, <1>3 DEF Process

\* Changes of the knowledge base do.
LEMMA LiveOfKnowledgeBase ==
    ASSUME LiveInv,
           \/ \E v \in Versions : Change(v) \/ Activate(v)
           \/ Reset \/ (\E key \in Versions \X Epochs : ExpireResult(key)) \/ UNCHANGED vars
    PROVE  KnownAreDated' /\ ConnectionsAreCurrent' /\ \A x \in Requests : ThroughLive(req[x])'
<1> USE DEF mysql, milvus, local
<1>n. /\ coll \in Nat /\ coll # None
      /\ \A w \in Versions : since[w] # None => since[w] \in Nat
      /\ \A q \in Procs : known[q] # None => known[q] \in Versions
      /\ \A x \in Requests : req[x].live \in Nat
  BY CollectionsAreNumbers, ServingAssumption DEF LiveInv, CacheInv, TypeOK
<1>r. \A x \in Requests : ThroughLive(req[x]) /\ Bound(req[x])
  BY DEF LiveInv, CacheInv, RequestsAreBound
<1>1. CASE \/ \E v \in Versions : Change(v)
           \/ (\E key \in Versions \X Epochs : ExpireResult(key)) \/ UNCHANGED vars
  <2>1. UNCHANGED <<since, coll, warm, known, wrapper, req>>
    BY <1>1 DEF Change, ExpireResult, vars
  <2> QED
    BY <2>1, <1>r DEF LiveInv, KnownAreDated, ConnectionsAreCurrent, ThroughLive
<1>2. ASSUME NEW v \in Versions, Activate(v)
      PROVE  KnownAreDated' /\ ConnectionsAreCurrent' /\ \A x \in Requests : ThroughLive(req[x])'
  <2>1. /\ UNCHANGED <<coll, warm, known, wrapper, req>>
        /\ \A w \in Versions : IF since[w] # None THEN since'[w] = since[w]
                               ELSE since'[w] \in {None, coll}
    BY <1>2 DEF Activate, LiveInv, CacheInv, TypeOK
  <2>2. KnownAreDated' /\ ConnectionsAreCurrent'
    BY <2>1, <1>n DEF LiveInv, KnownAreDated, ConnectionsAreCurrent
  <2>3. ASSUME NEW x \in Requests PROVE ThroughLive(req[x])'
    <3>1. ThroughLive(req[x]) /\ Bound(req[x])
      BY <1>r
    <3> QED
      BY <3>1, <2>1 DEF ThroughLive, AtWork, Keyed, Bound
  <2> QED
    BY <2>2, <2>3
<1>3. CASE Reset
  <2>1. UNCHANGED <<since, warm, known, wrapper, req>> /\ coll' = coll + 1
    BY <1>3 DEF Reset
  <2>2. KnownAreDated' /\ ConnectionsAreCurrent'
    BY <2>1, <1>n DEF LiveInv, KnownAreDated, ConnectionsAreCurrent
  <2>3. ASSUME NEW x \in Requests PROVE ThroughLive(req[x])'
    BY <1>r, <2>1, <1>n DEF ThroughLive
  <2> QED
    BY <2>2, <2>3
<1> QED
  BY <1>1, <1>2, <1>3

\* Every step keeps the invariant of the connections.
THEOREM LiveInvStep == LiveInv /\ [Next]_vars => LiveInv'
<1> SUFFICES ASSUME LiveInv, [Next]_vars PROVE LiveInv'
  OBVIOUS
<1>1. CacheInv'
  BY CacheInvStep DEF LiveInv
<1>2. KnownAreDated' /\ ConnectionsAreCurrent' /\ \A x \in Requests : ThroughLive(req[x])'
  <2>1. ASSUME NEW r \in Requests, Answer(r)
        PROVE  KnownAreDated' /\ ConnectionsAreCurrent'
                 /\ \A x \in Requests : ThroughLive(req[x])'
    BY <2>1, LiveOfResolve, LiveOfRequests DEF Answer
  <2> QED
    BY <2>1, LiveOfProcesses, LiveOfKnowledgeBase DEF Next
<1> QED
  BY <1>1, <1>2 DEF LiveInv

\* No request for the active version is answered through a connection to a collection that
\* was gone when that version was first activated, whatever the warm-up of the process and
\* the other requests do at the same time.
THEOREM SearchesGoToLiveCollections == Spec => []SearchesLiveCollection
<1>1. LiveInv => SearchesLiveCollection
  BY DEF LiveInv, ThroughLive, SearchesLiveCollection
<1> QED
  BY <1>1, LiveInvInit, LiveInvStep, PTL DEF Spec
=============================================================================
