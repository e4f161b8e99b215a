---------------------------- MODULE PackageStore ----------------------------
(***************************************************************************)
(* The packages of the systems.  An evaluator pod saves the packages it    *)
(* does not know (lazySavePackages), looks all of them up through its      *)
(* memory cache, compares them with the stored rows of system_package2     *)
(* (loadPackages) and stores the difference in one transaction, then       *)
(* invalidates the counts of the account.  The pods for uploads and for    *)
(* recalculations have a cache each and run side by side with the package  *)
(* synchronization of vmaas_sync, the job that deletes unused packages and *)
(* the job that refreshes the package counts of the accounts, which counts *)
(* the rows of a database replica.                                         *)
(*                                                                         *)
(* An id of table package is the position of its nevra in nevraOf, where   *)
(* deleted rows keep theirs.  Messages that are skipped because a newer    *)
(* evaluation exists are the subject of module EvalPipeline.               *)
(***************************************************************************)
EXTENDS UpdatesMerge, FiniteSets

CONSTANTS
  Pods,           \* evaluators: one for uploads, one for recalculations
  UploadPod,      \* the former
  Systems,
  Account,        \* Account[s]: the account of a system
  PkgList,        \* VMaaS: what /pkglist lists
  CacheEnabled,   \* package_cache
  Deployments,    \* the jobs that run, the pods with a small cache, the profiles
  MaxID,          \* bound: ids of table package, for each deployment
  MaxUploads      \* bound: uploads

Accounts == {Account[s] : s \in Systems}
Names == {n[1] : n \in Nevras}

\* What a system reports (yum) and VMaaS answers for it (vmaas, which knows only
\* packages that it has parsed); satellite: Satellite or a template decides.
IsProfile(p) ==
  /\ p.yum = NIL \/ IsUpdateList(p.yum)
  /\ p.vmaas = NIL \/ /\ IsUpdateList(p.vmaas)
                      /\ \A n \in DOMAIN p.vmaas : \A i \in DOMAIN p.vmaas[n] :
                           p.vmaas[n][i].pkg \notin Malformed
  /\ p.satellite \in BOOLEAN /\ p.bootc \in BOOLEAN

ASSUME PackageAssumption ==
  /\ UploadPod \in Pods /\ CacheEnabled \in BOOLEAN /\ PkgList \subseteq Nevras
  /\ MaxID \in [Deployments -> Nat] /\ MaxUploads \in Nat
  /\ NIL \notin Nat /\ NIL \notin Systems
  /\ \A d \in Deployments : NIL \notin d.profiles /\ \A p \in d.profiles : IsProfile(p)

VARIABLES
  deployment, \* jobs: the cron jobs that are not suspended; smallCache: the pods
              \* whose cache does not hold all packages; profiles: what systems
              \* report and VMaaS answers for it; recalc: vmaas_sync asks for
              \* evaluations; replica: the refresh of the counts reads the replica
  nevraOf,   \* id -> nevra, for every id that was ever given
  package,   \* table package: the ids
  synced,    \* table package, column synced
  cache,     \* PackageCache.byNevra of a pod: the ids in it
  profile,   \* profile of a system, NIL: never uploaded
  uploads,   \* number of uploads
  stale,     \* table system_inventory, column stale
  pending,   \* the messages of a pod
  worker,    \* what a pod is doing
  stored,    \* table system_package2: rows [id, inst, app] of a system
  patch,     \* table system_patch: the package counts of a system
  valid,     \* accounts with valid_package_cache
  counts,    \* table package_account_data: name -> counts, of an account
  refresh,   \* the running RefreshPackagesCaches
  lost,      \* ghost: systems whose evaluation was lost in a known way
  missed,    \* ghost: accounts with counts out of date in a known way
  replica    \* the database replica: some state of the tables that are counted

primaryVars == <<deployment, nevraOf, package, synced, cache, profile, uploads, stale, pending,
                 worker, stored, patch, valid, counts, refresh, lost, missed>>
vars == <<primaryVars, replica>>
pkgVars == <<nevraOf, package, synced>>
hostVars == <<profile, uploads, stale>>
resultVars == <<stored, patch>>
refreshVars == <<counts, refresh>>

Ready == [pc |-> "ready", sys |-> NIL, list |-> NIL, plan |-> {}, clean |-> TRUE]
IdleRefresh == [pc |-> "idle", accs |-> {}, acc |-> NIL, counts |-> NIL, dirty |-> FALSE]
NoRows == [n \in {} |-> NIL]

Working(s) == {w \in Pods : worker[w].sys = s /\ worker[w].pc \in {"save", "load", "store"}}
IdOf(n, I) == {i \in I : nevraOf[i] = n}

(***************************************************************************)
(* PackageCache.  The other three maps of the cache only ever hold what    *)
(* the table holds or what byNevra holds.                                  *)
(***************************************************************************)
\* Add: the entry of the nevra is replaced.
Add(C, I) == {i \in C : \A j \in I : nevraOf[j] # nevraOf[i]} \cup I

\* What is not in the cache is read from the table and added.  Without the cache
\* a single lookup finds nothing.
GetByID(w, i) == CacheEnabled /\ i \in cache[w] \cup package
GetByNevra(w, n) ==
  LET hit == IdOf(n, cache[w])
      row == IdOf(n, package)
  IN  IF ~CacheEnabled THEN NIL
      ELSE IF hit # {} THEN CHOOSE i \in hit : TRUE
      ELSE IF row # {} THEN CHOOSE i \in row : TRUE ELSE NIL

\* GetByNevras: the ones it reports as missing.
GetByNevras(w, N) == {n \in N : IdOf(n, cache[w] \cup package) = {}}

\* What looking nevras up adds to the cache.
ReadByNevras(w, N) ==
  IF CacheEnabled THEN {i \in package : nevraOf[i] \in N /\ IdOf(nevraOf[i], cache[w]) = {}}
  ELSE {}

\* The cache is full of other packages and drops this one.  A pod that did not
\* save a deleted package because it was cached does not find it any more.
Evict(w, i) ==
  /\ w \in deployment.smallCache
  /\ i \in cache[w]
  /\ cache' = [cache EXCEPT ![w] = @ \ {i}]
  /\ worker' = [worker EXCEPT ![w].clean = @ /\ ~(worker[w].pc = "load" /\ i \notin package)]
  /\ UNCHANGED <<deployment, replica, pkgVars, hostVars, pending, resultVars, valid, refreshVars, lost, missed>>

\* The pod stops and starts (loadCache, PackageCache.Load); its message is
\* delivered again.
Restart(w) ==
  /\ cache' = [cache EXCEPT ![w] = IF CacheEnabled THEN package ELSE {}]
  /\ pending' = [pending EXCEPT ![w] = IF worker[w].pc = "ready" THEN @ ELSE @ \cup {worker[w].sys}]
  /\ worker' = [worker EXCEPT ![w] = Ready]
  /\ UNCHANGED <<deployment, replica, pkgVars, hostVars, resultVars, valid, refreshVars, lost, missed>>

(***************************************************************************)
(* The messages.                                                           *)
(***************************************************************************)
\* The counts of the account change and nothing invalidates them.
StaleChanged(s) ==
  /\ missed' = missed \cup {Account[s]}
  /\ refresh' = [refresh EXCEPT !.dirty = @ \/ refresh.acc = Account[s]]

\* The listener stores what the system reports and asks for its evaluation.
Upload(s, p) ==
  /\ uploads < MaxUploads
  /\ uploads' = uploads + 1
  /\ profile' = [profile EXCEPT ![s] = p]
  /\ stale' = stale \ {s}
  /\ pending' = [pending EXCEPT ![UploadPod] = @ \cup {s}]
  /\ IF s \in stale THEN StaleChanged(s) ELSE UNCHANGED <<refresh, missed>>
  /\ worker' = [w \in Pods |-> IF w \in Working(s) THEN [worker[w] EXCEPT !.clean = FALSE]
                               ELSE worker[w]]
  /\ UNCHANGED <<deployment, replica, pkgVars, cache, resultVars, valid, counts, lost>>

\* vmaas_sync asks for the evaluation.
Recalc(w, s) ==
  /\ deployment.recalc /\ w # UploadPod /\ profile[s] # NIL /\ s \notin pending[w]
  /\ pending' = [pending EXCEPT ![w] = @ \cup {s}]
  /\ UNCHANGED <<deployment, replica, pkgVars, hostVars, cache, worker, resultVars, valid, refreshVars, lost, missed>>

\* The culling job marks the system stale and leaves valid_package_cache alone.
MarkStale(s) ==
  /\ "system_culling" \in deployment.jobs
  /\ profile[s] # NIL /\ s \notin stale
  /\ stale' = stale \cup {s}
  /\ StaleChanged(s)
  /\ UNCHANGED <<deployment, replica, pkgVars, profile, uploads, cache, pending, worker, resultVars, valid, counts, lost>>

(***************************************************************************)
(* The evaluation, from evaluateInDatabase to invalidateCaches.            *)
(***************************************************************************)
\* The evaluation of a system ends, and the message with it: an error that is
\* not fatal is logged and the message is not delivered again.
Ends(w) == worker' = [worker EXCEPT ![w] = [Ready EXCEPT !.pc = "invalidate", !.sys = worker[w].sys]]

\* evaluateInDatabase up to getUpdatesData.  vmaas is "ok", "failed" or "bad".
Begin(w, s, vmaas) ==
  /\ worker[w].pc = "ready" /\ s \in pending[w]
  /\ pending' = [pending EXCEPT ![w] = @ \ {s}]
  /\ LET p    == profile[s]
         list == getUpdatesData(p.yum, IF vmaas = "ok" THEN p.vmaas ELSE NIL, p.satellite, p.bootc)
         others == Working(s)
     IN  IF vmaas = "bad" \/ list = NIL
           THEN \* skipped, or failed without updates of yum
                /\ worker' = [worker EXCEPT ![w] = [Ready EXCEPT !.pc = "invalidate", !.sys = s]]
                /\ lost' = lost \cup {s}
           ELSE /\ worker' = [v \in Pods |->
                      IF v = w THEN [Ready EXCEPT !.pc = "save", !.sys = s, !.list = list,
                                                  !.clean = (others = {} /\ vmaas = "ok")]
                      ELSE IF v \in others THEN [worker[v] EXCEPT !.clean = FALSE]
                      ELSE worker[v]]
                /\ UNCHANGED lost
  /\ UNCHANGED <<deployment, replica, pkgVars, hostVars, cache, resultVars, valid, refreshVars, missed>>

\* lazySavePackages: what neither the cache nor the table knows is inserted in a
\* transaction of its own.
lazySavePackages(w) ==
  /\ worker[w].pc = "save"
  /\ LET N       == NevrasOf(worker[w].list)
         missing == GetByNevras(w, N)
     IN  /\ Len(nevraOf) + Cardinality(missing) <= MaxID[deployment]
         /\ nevraOf' = nevraOf \o SetToSeq(missing)
         /\ package' = package \cup Len(nevraOf) + 1 .. Len(nevraOf')
         /\ cache' = [cache EXCEPT ![w] = Add(@, ReadByNevras(w, N))]
  /\ worker' = [worker EXCEPT ![w].pc = "load"]
  /\ UNCHANGED <<deployment, replica, synced, hostVars, pending, resultVars, valid, refreshVars, lost, missed>>

\* packagesFromUpdateList
packagesFromUpdateList(w) ==
  LET list == worker[w].list
      id(n) == IF n = NIL THEN NIL ELSE GetByNevra(w, n)
  IN  {[nevra |-> n, id |-> GetByNevra(w, n), inst |-> id(LatestOf(list[n], INSTALLABLE)),
        app |-> id(LatestOf(list[n], APPLICABLE)), change |-> "add"] :
         n \in {m \in DOMAIN list \ Malformed : GetByNevra(w, m) # NIL}}

BugLoadSystemNEVRAs(P, rows) ==
  {[p EXCEPT !.change = IF \E r \in rows : nevraOf[r.id] = p.nevra THEN "keep" ELSE "add"] : p \in P}
    \cup {[nevra |-> nevraOf[r.id], id |-> r.id, inst |-> r.inst, app |-> r.app, change |-> "remove"] :
            r \in {q \in rows : \A p \in P : p.nevra # nevraOf[q.id]}}

latestPkgsChanged(p, r) == p.inst # r.inst \/ p.app # r.app

\* loadSystemNEVRAsFromDB: a package with a row is kept or updated, a row without
\* a package is removed.  Rows and packages are compared by nevra.
loadSystemNEVRAsFromDB(P, rows) ==
  {[p EXCEPT !.change =
      IF \E r \in rows : nevraOf[r.id] = p.nevra /\ ~latestPkgsChanged(p, r) THEN "keep"
      ELSE IF \E r \in rows : nevraOf[r.id] = p.nevra THEN "update" ELSE "add"] : p \in P}
    \cup {[nevra |-> nevraOf[r.id], id |-> r.id, inst |-> r.inst, app |-> r.app, change |-> "remove"] :
            r \in {q \in rows : \A p \in P : p.nevra # nevraOf[q.id]}}

\* loadPackages.  A stored row whose package is not found is an error.
loadPackages(w) ==
  /\ worker[w].pc = "load"
  /\ LET s == worker[w].sys
     IN  IF \E q \in stored[s] : ~GetByID(w, q.id)
           THEN /\ Ends(w)
                /\ lost' = lost \cup {s}
                /\ UNCHANGED cache
           ELSE /\ worker' = [worker EXCEPT ![w].pc = "store",
                     ![w].plan = loadSystemNEVRAsFromDB(packagesFromUpdateList(w), stored[s])]
                /\ cache' = [cache EXCEPT ![w] =
                     Add(Add(@, ReadByNevras(w, NevrasOf(worker[w].list))),
                         IF CacheEnabled THEN {r.id : r \in stored[s]} ELSE {})]
                /\ UNCHANGED lost
  /\ UNCHANGED <<deployment, replica, pkgVars, hostVars, pending, resultVars, valid, refreshVars, missed>>

\* The ids that the transaction writes, all of them foreign keys.
Written(plan) ==
  (UNION {{p.id, p.inst, p.app} : p \in {q \in plan : q.change \in {"add", "update"}}}) \ {NIL}

\* updateSystemPackages: removed rows are deleted, the others inserted or
\* updated, all by id.
updateSystemPackages(rows, plan) ==
  LET removed == {p.id : p \in {q \in plan : q.change = "remove"}}
      new == {[id |-> p.id, inst |-> p.inst, app |-> p.app] :
                p \in {q \in plan : q.change \in {"add", "update"}}}
  IN  {r \in rows : r.id \notin removed /\ \A n \in new : n.id # r.id} \cup new

\* The counts that updateSystemPlatform stores: they were counted with the plan.
PatchOf(plan) ==
  LET P == {p \in plan : p.change # "remove"}
  IN  [installed |-> Cardinality(P), installable |-> Cardinality({p \in P : p.inst # NIL}),
       applicable |-> Cardinality({p \in P : p.inst # NIL \/ p.app # NIL})]

\* evaluateAndStore, the transaction.
evaluateAndStore(w) ==
  /\ worker[w].pc = "store" /\ Written(worker[w].plan) \subseteq package
  /\ LET s == worker[w].sys
     IN  /\ stored' = [stored EXCEPT ![s] = updateSystemPackages(@, worker[w].plan)]
         /\ patch' = [patch EXCEPT ![s] = PatchOf(worker[w].plan)]
         /\ lost' = IF worker[w].clean THEN lost \ {s} ELSE lost \cup {s}
         /\ refresh' = IF refresh.acc = Account[s] THEN [refresh EXCEPT !.dirty = TRUE] ELSE refresh
  /\ Ends(w)
  /\ UNCHANGED <<deployment, replica, pkgVars, hostVars, cache, pending, valid, counts, missed>>

\* The transaction is refused because a package was deleted since it was looked
\* up, and with it the evaluation is lost.
StoreRefused(w) ==
  /\ worker[w].pc = "store" /\ ~(Written(worker[w].plan) \subseteq package)
  /\ Ends(w)
  /\ lost' = lost \cup {worker[w].sys}
  /\ UNCHANGED <<deployment, replica, pkgVars, hostVars, cache, pending, resultVars, valid, refreshVars, missed>>

BugInvalidateCaches(w) ==
  /\ worker[w].pc = "invalidate"
  /\ worker' = [worker EXCEPT ![w] = Ready]
  /\ UNCHANGED <<deployment, replica, pkgVars, hostVars, cache, pending, resultVars, valid, refreshVars, lost, missed>>

\* invalidateCaches, at the end of evaluateHandler; also after a failure.
invalidateCaches(w) ==
  /\ worker[w].pc = "invalidate"
  /\ valid' = valid \ {Account[worker[w].sys]}
  /\ worker' = [worker EXCEPT ![w] = Ready]
  /\ UNCHANGED <<deployment, replica, pkgVars, hostVars, cache, pending, resultVars, refreshVars, lost, missed>>

(***************************************************************************)
(* The jobs on table package.                                              *)
(***************************************************************************)
BugStoreOrUpdate(pkgs) ==
  /\ nevraOf' = nevraOf \o SetToSeq(pkgs)
  /\ package' = package \cup Len(nevraOf) + 1 .. Len(nevraOf')
  /\ synced' = synced \cup Len(nevraOf) + 1 .. Len(nevraOf')

\* storeOrUpdate: what the table does not have is inserted as synced; the rows it
\* has get other descriptions and keep their column synced.
storeOrUpdate(pkgs) ==
  LET toStore == {n \in pkgs : IdOf(n, package) = {}}
  IN  /\ nevraOf' = nevraOf \o SetToSeq(toStore)
      /\ package' = package \cup Len(nevraOf) + 1 .. Len(nevraOf')
      /\ synced' = synced \cup Len(nevraOf) + 1 .. Len(nevraOf')

\* storePkgListData: a nevra that cannot be parsed is left out.
storePkgListData(page) == storeOrUpdate(page \ Malformed)

\* downloadAndProcessPkgListPage: the packages of a page of /pkglist.
PkgListPages == SUBSET PkgList

\* syncPackages, one page.
syncPackages(page) ==
  /\ "vmaas_sync" \in deployment.jobs
  /\ storePkgListData(page)
  /\ Len(nevraOf') <= MaxID[deployment]
  /\ UNCHANGED <<deployment, replica, hostVars, cache, pending, worker, resultVars, valid, refreshVars, lost, missed>>

Referenced == UNION {{r.id, r.inst, r.app} : r \in UNION {stored[s] : s \in Systems}}

\* deleteUnusedPackages: at most DeleteUnusedDataLimit of them, here any number.
\* A pod that saved one of them and has not looked it up yet does not find it.
deleteUnusedPackages(D) ==
  /\ "delete_unused" \in deployment.jobs
  /\ D # {} /\ D \subseteq package \ (synced \cup Referenced)
  /\ package' = package \ D
  /\ worker' = [w \in Pods |->
       IF worker[w].pc = "load" /\ {nevraOf[i] : i \in D} \cap NevrasOf(worker[w].list) # {}
         THEN [worker[w] EXCEPT !.clean = FALSE] ELSE worker[w]]
  /\ UNCHANGED <<deployment, replica, nevraOf, synced, hostVars, cache, pending, resultVars, valid, refreshVars, lost, missed>>

(***************************************************************************)
(* RefreshPackagesCaches.                                                  *)
(***************************************************************************)
\* The tables that are counted; ids of packages are never given twice.
Primary == [stored |-> stored, patch |-> patch, stale |-> stale, valid |-> valid]
ReadReplica == IF deployment.replica THEN replica ELSE Primary

\* The replica follows the primary, at any distance.
Replicate == deployment.replica /\ replica' = Primary /\ UNCHANGED primaryVars

\* The rows that getCounts counts: rows, not systems.
CountedRows(db, acc, n) ==
  {x \in UNION {{s} \X db.stored[s] : s \in {t \in Systems :
                   Account[t] = acc /\ t \notin db.stale /\ db.patch[t].installed > 0}} :
     nevraOf[x[2].id][1] = n}
getCounts(db, acc) ==
  [n \in {m \in Names : CountedRows(db, acc, m) # {}} |->
     [installed |-> Cardinality(CountedRows(db, acc, n)),
      installable |-> Cardinality({x \in CountedRows(db, acc, n) : x[2].inst # NIL}),
      applicable |-> Cardinality({x \in CountedRows(db, acc, n) : x[2].inst # NIL \/ x[2].app # NIL})]]

\* The replica does not show the last rows of the account yet.
Lagging(acc) ==
  \E s \in Systems : Account[s] = acc /\ \/ ReadReplica.stored[s] # stored[s]
                                          \/ ReadReplica.patch[s] # patch[s]
                                          \/ (s \in ReadReplica.stale) # (s \in stale)

\* The accounts with an invalid cache, or the one that an administrator names.
accountsWithoutCache(accs) ==
  /\ "packages_cache_refresh" \in deployment.jobs
  /\ refresh.pc = "idle" /\ accs # {}
  /\ accs = Accounts \ ReadReplica.valid \/ \E a \in Accounts : accs = {a}
  /\ refresh' = [IdleRefresh EXCEPT !.pc = "next", !.accs = accs]
  /\ UNCHANGED <<deployment, replica, pkgVars, hostVars, cache, pending, worker, resultVars, valid, counts, lost, missed>>

\* getCounts of an account, in a transaction on the replica.
RefreshCounts(acc) ==
  /\ refresh.pc = "next" /\ acc \in refresh.accs
  /\ refresh' = [refresh EXCEPT !.pc = "update", !.accs = @ \ {acc}, !.acc = acc,
                                !.counts = getCounts(ReadReplica, acc), !.dirty = Lagging(acc)]
  /\ UNCHANGED <<deployment, replica, pkgVars, hostVars, cache, pending, worker, resultVars, valid, counts, lost, missed>>

NextAccount == IF refresh.accs = {} THEN IdleRefresh
               ELSE [IdleRefresh EXCEPT !.pc = "next", !.accs = refresh.accs]

\* updatePackageAccountData: the counts of a name are inserted or replaced.
Upserted(old, new) ==
  [n \in DOMAIN old \cup DOMAIN new |-> IF n \in DOMAIN new THEN new[n] ELSE old[n]]
updatePackageAccountData ==
  /\ refresh.pc = "update"
  /\ counts' = [counts EXCEPT ![refresh.acc] = Upserted(@, refresh.counts)]
  /\ refresh' = [refresh EXCEPT !.pc = "delete"]
  /\ missed' = IF refresh.dirty THEN missed \cup {refresh.acc} ELSE missed
  /\ UNCHANGED <<deployment, replica, pkgVars, hostVars, cache, pending, worker, resultVars, valid, lost>>

\* deleteOldCache: without any count the condition is NOT IN (NULL), and nothing
\* is deleted.
deleteOldCache ==
  /\ refresh.pc = "delete"
  /\ counts' = IF refresh.counts = NoRows THEN counts
               ELSE [counts EXCEPT ![refresh.acc] = refresh.counts]
  /\ refresh' = [refresh EXCEPT !.pc = "valid", !.dirty = @ \/ (refresh.counts = NoRows
                                                                /\ counts[refresh.acc] # NoRows)]
  /\ UNCHANGED <<deployment, replica, pkgVars, hostVars, cache, pending, worker, resultVars, valid, lost, missed>>

\* updatePkgCacheValidity: an invalidation since getCounts is overwritten.
updatePkgCacheValidity ==
  /\ refresh.pc = "valid"
  /\ valid' = valid \cup {refresh.acc}
  /\ missed' = IF refresh.dirty THEN missed \cup {refresh.acc} ELSE missed \ {refresh.acc}
  /\ refresh' = NextAccount
  /\ UNCHANGED <<deployment, replica, pkgVars, hostVars, cache, pending, worker, resultVars, counts, lost>>

\* A statement fails, and the next account is refreshed; or the job is stopped.
RefreshFails ==
  /\ refresh.pc \in {"update", "delete", "valid"}
  /\ refresh' \in {NextAccount, IdleRefresh}
  /\ UNCHANGED <<deployment, replica, pkgVars, hostVars, cache, pending, worker, resultVars, valid, counts, lost, missed>>

Init ==
  /\ deployment \in Deployments
  /\ nevraOf = <<>> /\ package = {} /\ synced = {}
  /\ cache = [w \in Pods |-> {}]
  /\ profile = [s \in Systems |-> NIL] /\ uploads = 0 /\ stale = {}
  /\ pending = [w \in Pods |-> {}] /\ worker = [w \in Pods |-> Ready]
  /\ stored = [s \in Systems |-> {}]
  /\ patch = [s \in Systems |-> [installed |-> 0, installable |-> 0, applicable |-> 0]]
  /\ valid = {} /\ counts = [a \in Accounts |-> NoRows] /\ refresh = IdleRefresh
  /\ lost = {} /\ missed = {} /\ replica = Primary

Evaluation(w) ==
  \/ \E s \in Systems, vmaas \in {"ok", "failed", "bad"} : Begin(w, s, vmaas)
  \/ lazySavePackages(w) \/ loadPackages(w)
  \/ evaluateAndStore(w) \/ StoreRefused(w) \/ invalidateCaches(w)

\* What the pods, the hosts and the jobs do.
Step ==
  \/ \E s \in Systems, p \in deployment.profiles : Upload(s, p)
  \/ \E w \in Pods, s \in Systems : Recalc(w, s)
  \/ \E s \in Systems : MarkStale(s)
  \/ \E w \in Pods : Evaluation(w) \/ Restart(w)
  \/ \E w \in Pods, i \in DOMAIN nevraOf : Evict(w, i)
  \/ \E page \in PkgListPages : syncPackages(page)
  \/ \E D \in SUBSET package : deleteUnusedPackages(D)
  \/ \E accs \in SUBSET Accounts : accountsWithoutCache(accs)
  \/ \E a \in Accounts : RefreshCounts(a)
  \/ updatePackageAccountData \/ deleteOldCache \/ updatePkgCacheValidity \/ RefreshFails

Next == Step \/ Replicate

Spec == Init /\ [][Next]_vars

(***************************************************************************)
(* Properties.                                                             *)
(***************************************************************************)
\* The table package holds a nevra once (its unique key), a cache has one id for
\* a nevra, and no row of system_package2 refers to a deleted package.
TypeOK ==
  /\ Len(nevraOf) <= MaxID[deployment]
  /\ package \subseteq DOMAIN nevraOf /\ synced \subseteq DOMAIN nevraOf
  /\ \A n \in {nevraOf[i] : i \in package} : Cardinality(IdOf(n, package)) = 1
  /\ \A w \in Pods :
       /\ cache[w] \subseteq DOMAIN nevraOf
       /\ \A i \in cache[w] : IdOf(nevraOf[i], cache[w]) = {i}
       /\ worker[w].pc \in {"ready", "save", "load", "store", "invalidate"}
       /\ worker[w].sys \in Systems \cup {NIL}
  /\ Referenced \subseteq package \cup {NIL}
  /\ valid \cup replica.valid \cup missed \subseteq Accounts
  /\ lost \cup stale \cup replica.stale \subseteq Systems
  /\ refresh.pc \in {"idle", "next", "update", "delete", "valid"}

\* What the profile says of package n: the newest update that yum can install,
\* found by looking at all updates instead of merging two lists.
Installable(p, n) ==
  LET fromYum == IF p.yum = NIL \/ p.bootc THEN {}
                 ELSE IF n \notin DOMAIN p.yum THEN {} ELSE {u.pkg : u \in ToSet(p.yum[n])}
      fromVmaas == IF p.vmaas = NIL \/ p.bootc \/ p.satellite THEN {}
                   ELSE IF n \notin DOMAIN p.vmaas THEN {} ELSE {u.pkg : u \in ToSet(p.vmaas[n])}
      U == (fromYum \cup fromVmaas) \ Malformed
  IN  {u \in U : \A v \in U : v[2] <= u[2]}

\* The installed packages of the profile; when yum reported as well, of every
\* name the newest.
Installed(p) ==
  LET of(list) == IF list = NIL THEN {} ELSE DOMAIN list \ Malformed
      I == of(p.yum) \cup of(p.vmaas)
  IN  IF tryGetYumUpdates(p.yum) = NIL \/ p.vmaas = NIL THEN I
      ELSE {n \in I : \A m \in I : m[1] = n[1] => m[2] <= n[2]}

\* When nothing is under way for a system, its rows in system_package2 are the
\* packages of its last upload with the newest installable update, and the
\* counts in system_patch are those of the rows, whichever of the two pods
\* evaluated it, with whatever its cache held, and however often packages were
\* deleted and inserted again under another id.  Without package_cache no single
\* package is found.  The other exceptions are the known losses: two pods
\* evaluated the system at a time, VMaaS failed, or a package that the pod held
\* was deleted as unused before the rows were stored
\* (evaluate_packages.go, package_cache.go, clean_unused_data.go).
StoredMatchesReportedUnlessLost ==
  CacheEnabled => \A s \in Systems \ lost :
    profile[s] # NIL /\ (\A w \in Pods : s \notin pending[w]) /\ Working(s) = {} =>
      /\ {nevraOf[r.id] : r \in stored[s]} = Installed(profile[s])
      /\ \A r \in stored[s] :
           (IF r.inst = NIL THEN {} ELSE {nevraOf[r.inst]}) = Installable(profile[s], nevraOf[r.id])
      /\ patch[s].installed = Cardinality(stored[s])
      /\ patch[s].installable = Cardinality({r \in stored[s] : r.inst # NIL})

\* Valid counts of an account are those of its rows when no evaluation of it is
\* under way or to be repeated, unless the account was missed: an evaluation was
\* stored while the refresh was under way, the replica did not show the last rows
\* when they were counted, a system became stale or came back, or all counts
\* disappeared at once (refresh_packages_caches.go).
PackageCountsExactUnlessMissed ==
  \A a \in valid \ missed :
    (\A w \in Pods : \A s \in pending[w] \cup ({worker[w].sys} \ {NIL}) : Account[s] # a)
      => counts[a] = getCounts(Primary, a)
=============================================================================
