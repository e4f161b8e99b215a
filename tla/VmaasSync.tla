----------------------------- MODULE VmaasSync -----------------------------
(***************************************************************************)
(* The vmaas_sync job (tasks/vmaas_sync): it asks VMaaS for the time of    *)
(* its last export, downloads the errata page by page, marks the repos     *)
(* that VMaaS knows, stores the timestamps of the synchronization, and     *)
(* then asks the evaluator to evaluate the systems that a changed repo     *)
(* concerns.  VMaaS may export new data between any two requests, a        *)
(* request or a write may fail, and the job may be killed at every step;   *)
(* cron never starts it twice at a time (concurrencyPolicy: Forbid).       *)
(*                                                                         *)
(* Time is the number of exports of VMaaS, counted in ticks of which       *)
(* Second make a second.  The packages that the job stores are the subject *)
(* of module PackageStore, the advisory caches that of AdvisoryCounts.     *)
(***************************************************************************)
EXTENDS Integers, FiniteSets, FiniteSetsExt

CONSTANTS
  Advisories,       \* names of advisories, numbers in the order of VMaaS's list
  Labels,           \* names of repos (content sets), likewise
  ThirdPartyLabels, \* the ones that VMaaS lists only with third_party
  Variants,         \* Variants[l]: the repos of a content set, numbers in the
                    \* order of its list
  Packages,         \* names of packages
  Published,        \* <<repo, variant, package>>: what the first export holds
  Systems,
  SystemRepos,      \* SystemRepos[s]: the labels of table system_repo
  SystemPackages,   \* SystemPackages[s]: the names of table system_package2
  AdvisoryPageSize, \* page size of /errata and of /repos
  Second,           \* ticks in a second
  MaxExport,        \* bound: number of exports of VMaaS, for each configuration
  Exports,       \* bound: <<A, R>>: the advisories and the packages of repos
                    \* that an export may change, for each configuration
  Configs,          \* configurations of the pod
  NIL

RepoPackages == UNION {{l} \X Variants[l] \X Packages : l \in Labels}

ASSUME SyncAssumption ==
  /\ Advisories \subseteq Nat /\ Labels \subseteq Nat
  /\ \A l \in Labels : Variants[l] \subseteq Nat /\ IsFiniteSet(Variants[l])
  /\ IsFiniteSet(Advisories) /\ IsFiniteSet(Labels)
  /\ ThirdPartyLabels \subseteq Labels
  /\ AdvisoryPageSize \in Nat \ {0} /\ Second \in Nat \ {0}
  /\ MaxExport \in [Configs -> Nat \ {0}]
  /\ Configs \subseteq [modifiedSince : BOOLEAN, repoBased : BOOLEAN, recalc : BOOLEAN]
  /\ SystemRepos \in [Systems -> SUBSET Labels]
  /\ SystemPackages \in [Systems -> SUBSET Packages]
  /\ Published \subseteq RepoPackages
  /\ \A c \in Configs : \A change \in Exports[c] :
       change[1] \subseteq Advisories /\ change[2] \subseteq RepoPackages
  /\ NIL \notin Nat /\ NIL \notin Systems

VARIABLES
  config,     \* the pod's configuration
  exported,   \* VMaaS: time of the last export
  erratum,    \* VMaaS: when an advisory changed last, 0: not published
  updated,    \* VMaaS: when a package of a repo was updated last, 0: never
  kv,         \* table timestamp_kv
  metadata,   \* table advisory_metadata: the version of an advisory, 0: no row
  thirdParty, \* table repo, column third_party
  job,        \* the running job
  skipped,    \* ghost: advisories that a page held and the job did not store
  dropped     \* ghost: systems with a request that was lost in a known way

syncVars == <<config, exported, erratum, updated, kv, metadata, thirdParty,
              job, skipped, dropped>>
vmaasVars == <<exported, erratum, updated>>
dbVars == <<kv, metadata, thirdParty>>

Times == 0 .. MaxExport[config]
NoPackages == [l \in Labels |-> {}]
Idle == [pc |-> "idle", page |-> 0, since |-> NIL, exported |-> NIL,
         latest |-> NIL, repos |-> {}, packages |-> NoPackages, ids |-> {}]

(***************************************************************************)
(* VMaaS as the job uses it (external).  Nothing that was published is     *)
(* withdrawn.  A listing is sorted, a page is a range of it, and page 0 is *)
(* answered like page 1.  modified_since selects what changed after it.    *)
(***************************************************************************)
After(t, since) == t > 0 /\ (since = NIL \/ t > since)
Rank(x, L) == Cardinality({y \in L : y <= x})
PageOf(L, page) ==
  LET p == IF page = 0 THEN 1 ELSE page
  IN  {x \in L : Rank(x, L) \in (p - 1) * AdvisoryPageSize + 1 .. p * AdvisoryPageSize}
PageCount(L) == (Cardinality(L) + AdvisoryPageSize - 1) \div AdvisoryPageSize

ErrataSince(since) == {a \in Advisories : After(erratum[a], since)}
UpdatedPackageNames(l, v, since) == {p \in Packages : After(updated[l][v][p], since)}
ContentSet(l, since) == {v \in Variants[l] : UpdatedPackageNames(l, v, since) # {}}
ReposSince(since) == {l \in Labels : ContentSet(l, since) # {}}
LatestRepoChange ==
  Max({0} \cup {updated[r[1]][r[2]][r[3]] : r \in RepoPackages})

\* The systems that an update of package p in repo l concerns.
Concerned(l, p) == {s \in Systems : l \in SystemRepos[s] /\ p \in SystemPackages[s]}

\* An export changes some advisories and updates some packages of repos.  The
\* requests for a change are dropped when it falls into the second that the job
\* adds to the last change, or into the download of /repos.
Export(A, R) ==
  /\ exported < MaxExport[config]
  /\ exported' = exported + 1
  /\ erratum' = [a \in Advisories |-> IF a \in A THEN exported' ELSE erratum[a]]
  /\ updated' = [l \in Labels |-> [v \in Variants[l] |-> [p \in Packages |->
                   IF <<l, v, p>> \in R THEN exported' ELSE updated[l][v][p]]]]
  /\ dropped' =
       IF (kv.eval # NIL /\ exported' <= kv.eval) \/ (job.pc = "recalc" /\ job.page > 1)
         THEN dropped \cup UNION {Concerned(r[1], r[3]) : r \in R}
         ELSE dropped
  /\ UNCHANGED <<config, dbVars, job, skipped>>

\* More than FullSyncCadence passed since the last full synchronization.
CadencePasses ==
  /\ kv.full = "recent"
  /\ kv' = [kv EXCEPT !.full = "old"]
  /\ UNCHANGED <<config, vmaasVars, metadata, thirdParty, job, skipped, dropped>>

(***************************************************************************)
(* The job.                                                                *)
(***************************************************************************)
isSyncNeeded(dbExported, vmaasExported) ==
  ~(dbExported # NIL /\ vmaasExported # NIL /\ dbExported >= vmaasExported)

\* VmaasDBExported: NIL when the request to /dbchange failed.
VmaasDBExported == {exported, NIL}

\* SyncData: download everything when the last full synchronization is old.
ModifiedSince(lastModified) == IF kv.full = "old" THEN NIL ELSE lastModified

BugExportedLate(vmaasExported) ==
  /\ job.pc = "idle"
  /\ LET lastModified == IF config.modifiedSince THEN kv.exported ELSE NIL
     IN  /\ isSyncNeeded(lastModified, vmaasExported)
         /\ job' = [Idle EXCEPT !.pc = "errata", !.exported = exported + 1,
                                !.since = ModifiedSince(lastModified)]
  /\ UNCHANGED <<config, vmaasVars, dbVars, skipped, dropped>>

\* runSync: without the exported times the job synchronizes.
runSync(vmaasExported) ==
  /\ job.pc = "idle"
  /\ LET lastModified == IF config.modifiedSince THEN kv.exported ELSE NIL
     IN  /\ isSyncNeeded(lastModified, vmaasExported)
         /\ job' = [Idle EXCEPT !.pc = "errata", !.exported = vmaasExported,
                                !.since = ModifiedSince(lastModified)]
  /\ UNCHANGED <<config, vmaasVars, dbVars, skipped, dropped>>

\* vmaasData2AdvisoryMetadata: no row is made of an advisory without a summary or a
\* description, or whose updated date cannot be parsed (bad).  An issued date that
\* cannot be parsed is an error of the page.
HasMetadata(a, bad) == a \notin bad
parseAdvisories(page, bad) == {a \in page : HasMetadata(a, bad)}

\* storeAdvisories: the rows of toUpdate are updated one by one, and a failure is
\* only logged; what has no row is inserted, or the job fails.
toUpdate(parsed) == {a \in parsed : metadata[a] # 0}
storeAdvisories(parsed, failed) ==
  metadata' = [a \in Advisories |-> IF a \in parsed \ failed THEN erratum[a] ELSE metadata[a]]

BugErrataPages(bad, failed) ==
  /\ job.pc = "errata"
  /\ LET L      == ErrataSince(job.since)
         page   == PageOf(L, job.page)
         parsed == parseAdvisories(page, bad)
     IN  /\ bad \subseteq page /\ failed \subseteq toUpdate(parsed)
         /\ storeAdvisories(parsed, failed)
         /\ skipped' = (skipped \ page) \cup bad \cup failed
         /\ job' = IF job.page + 1 < PageCount(L)
                     THEN [job EXCEPT !.page = @ + 1]
                     ELSE [job EXCEPT !.pc = "repos", !.page = 1]
  /\ UNCHANGED <<config, vmaasVars, kv, thirdParty, dropped>>

\* syncAdvisories, one page: pages 0, 1 .. Pages, where every answer says anew
\* how many pages there are.
syncAdvisories(bad, failed) ==
  /\ job.pc = "errata"
  /\ LET L      == ErrataSince(job.since)
         page   == PageOf(L, job.page)
         parsed == parseAdvisories(page, bad)
     IN  /\ bad \subseteq page /\ failed \subseteq toUpdate(parsed)
         /\ storeAdvisories(parsed, failed)
         /\ skipped' = (skipped \ page) \cup bad \cup failed
         /\ job' = IF job.page + 1 <= PageCount(L)
                     THEN [job EXCEPT !.page = @ + 1]
                     ELSE [job EXCEPT !.pc = "repos", !.page = 1]
  /\ UNCHANGED <<config, vmaasVars, kv, thirdParty, dropped>>

\* A page is stored in part: its insertions fail, or the pod is stopped while it
\* updates rows, of which some are done.
ErrataPageFails(done) ==
  /\ job.pc = "errata"
  /\ done \subseteq toUpdate(PageOf(ErrataSince(job.since), job.page))
  /\ metadata' = [a \in Advisories |-> IF a \in done THEN erratum[a] ELSE metadata[a]]
  /\ skipped' = skipped \ done
  /\ job' = Idle
  /\ UNCHANGED <<config, vmaasVars, kv, thirdParty, dropped>>

\* getUpdatedRepos, one page of getVmaasRepos without third_party, of all the repos.
getUpdatedRepos ==
  /\ job.pc = "repos"
  /\ LET L == ReposSince(NIL) \ ThirdPartyLabels
     IN  job' = IF L = {} \/ job.page = PageCount(L)
                  THEN [job EXCEPT !.pc = "mark", !.repos = @ \cup PageOf(L, job.page)]
                  ELSE [job EXCEPT !.page = @ + 1, !.repos = @ \cup PageOf(L, job.page)]
  /\ UNCHANGED <<config, vmaasVars, dbVars, skipped, dropped>>

\* syncRepos: two statements, the second of which the job may not reach.
syncRepos(both) ==
  /\ job.pc = "mark"
  /\ LET redhatRepos == job.repos
     IN  thirdParty' = [l \in Labels |-> IF l \in redhatRepos THEN FALSE
                                         ELSE IF redhatRepos # {} /\ both THEN TRUE
                                         ELSE thirdParty[l]]
  /\ job' = IF both THEN [job EXCEPT !.pc = "stamps"] ELSE Idle
  /\ UNCHANGED <<config, vmaasVars, kv, metadata, skipped, dropped>>

\* The end of SyncData: the timestamps are stored before the re-evaluation.
storeTimestamps ==
  /\ job.pc = "stamps"
  /\ kv' = [kv EXCEPT !.full = IF job.since = NIL THEN "recent" ELSE @,
                      !.exported = IF job.exported # NIL THEN job.exported ELSE @]
  /\ job' = IF config.recalc THEN [job EXCEPT !.pc = "recalc", !.page = 1, !.repos = {}] ELSE Idle
  /\ UNCHANGED <<config, vmaasVars, metadata, thirdParty, skipped, dropped>>

\* getAllInventoryIDs: repo_based_re_evaluation is off.
getAllInventoryIDs ==
  /\ job.pc = "recalc" /\ ~config.repoBased
  /\ job' = [job EXCEPT !.pc = "send", !.ids = Systems]
  /\ UNCHANGED <<config, vmaasVars, dbVars, skipped, dropped>>

BugIDs(packages) ==
  {s \in Systems : \A l \in Labels : packages[l] # {} =>
     l \in SystemRepos[s] /\ packages[l] \subseteq SystemPackages[s]}

\* getRepoBasedInventoryIDs: the systems with one of the repos and one of the
\* packages, not necessarily a package of that repo.
getRepoBasedInventoryIDs(packages) ==
  LET repos == {l \in Labels : packages[l] # {}}
      names == UNION {packages[l] : l \in repos}
  IN  {s \in Systems : SystemRepos[s] \cap repos # {} /\ SystemPackages[s] \cap names # {}}

\* The list of a content set is walked and every repo overwrites the packages
\* of the one before it.
LastOf(l, since) == Max(ContentSet(l, since))
Overwritten(l, since) ==
  (UNION {UpdatedPackageNames(l, v, since) : v \in Variants[l]})
    \ UpdatedPackageNames(l, LastOf(l, since), since)

\* getCurrentRepoBasedInventoryIDs, one page of getVmaasRepos; after the last
\* page last_eval_repo_based is stored.
getVmaasRepos ==
  /\ job.pc = "recalc" /\ config.repoBased
  /\ LET since == kv.eval
         L     == ReposSince(since)
         page  == PageOf(L, job.page)
         packages == [l \in Labels |->
                        IF l \in page THEN UpdatedPackageNames(l, LastOf(l, since), since)
                                      ELSE job.packages[l]]
         latest == IF job.latest = NIL \/ job.latest < LatestRepoChange
                     THEN LatestRepoChange + Second ELSE job.latest
     IN  \/ /\ L = {}   \* no page: nothing is requested
            /\ job' = Idle
            /\ UNCHANGED <<kv, dropped>>
         \/ /\ L # {}
            /\ dropped' = dropped \cup
                 UNION {UNION {Concerned(l, p) : p \in Overwritten(l, since)} : l \in page}
            /\ IF job.page = PageCount(L)
                 THEN /\ kv' = [kv EXCEPT !.eval = latest]
                      /\ job' = [job EXCEPT !.pc = "send",
                                            !.ids = getRepoBasedInventoryIDs(packages)]
                 ELSE /\ job' = [job EXCEPT !.page = @ + 1, !.latest = latest,
                                            !.packages = packages]
                      /\ UNCHANGED kv
  /\ UNCHANGED <<config, vmaasVars, metadata, thirdParty, skipped>>

\* SendReevaluationMessages: a failed write is only logged.
SendMessages(delivered) ==
  /\ job.pc = "send" /\ delivered \subseteq job.ids
  /\ dropped' = (dropped \ delivered) \cup (job.ids \ delivered)
  /\ job' = Idle
  /\ UNCHANGED <<config, vmaasVars, dbVars, skipped>>

\* The job ends early: HTTPCallRetry gave up, a statement failed (LogFatal, or
\* an error that is logged while the re-evaluation is prepared), or the pod was
\* stopped (WaitAndExit).
JobEnds ==
  /\ job.pc # "idle"
  /\ job' = Idle
  /\ dropped' = IF job.pc = "send" THEN dropped \cup job.ids ELSE dropped
  /\ UNCHANGED <<config, vmaasVars, dbVars, skipped>>

SyncInit ==
  /\ config \in Configs
  /\ exported = 1
  /\ erratum = [a \in Advisories |-> 0]
  /\ updated = [l \in Labels |-> [v \in Variants[l] |-> [p \in Packages |->
                  IF <<l, v, p>> \in Published THEN 1 ELSE 0]]]
  /\ kv = [exported |-> NIL, full |-> NIL, eval |-> NIL]
  /\ metadata = [a \in Advisories |-> 0]
  /\ thirdParty = [l \in Labels |-> TRUE]
  /\ job = Idle
  /\ skipped = {} /\ dropped = {}

\* Every step of the job but the sending of the requests.
SyncStep ==
  \/ \E e \in VmaasDBExported : runSync(e)
  \/ \E bad \in SUBSET Advisories, failed \in SUBSET Advisories : syncAdvisories(bad, failed)
  \/ \E done \in SUBSET Advisories : ErrataPageFails(done)
  \/ getUpdatedRepos
  \/ \E both \in BOOLEAN : syncRepos(both)
  \/ storeTimestamps
  \/ getAllInventoryIDs
  \/ getVmaasRepos
  \/ JobEnds

VmaasStep ==
  \/ \E change \in Exports[config] : Export(change[1], change[2])
  \/ CadencePasses

(***************************************************************************)
(* Properties.                                                             *)
(***************************************************************************)
\* The types of the job: in particular the stored vmaas_exported is a time at
\* which VMaaS had exported.
SyncTypeOK ==
  /\ config \in Configs
  /\ exported \in Times
  /\ erratum \in [Advisories -> Times] /\ metadata \in [Advisories -> Times]
  /\ \A r \in RepoPackages : updated[r[1]][r[2]][r[3]] \in Times
  /\ kv \in [exported : Times \cup {NIL}, full : {NIL, "recent", "old"}, eval : Nat \cup {NIL}]
  /\ thirdParty \in [Labels -> BOOLEAN]
  /\ job \in [pc : {"idle", "errata", "repos", "mark", "stamps", "recalc", "send"}, page : Nat,
             since : Times \cup {NIL}, exported : Times \cup {NIL}, latest : Nat \cup {NIL},
             repos : SUBSET Labels, packages : [Labels -> SUBSET Packages], ids : SUBSET Systems]
  /\ skipped \subseteq Advisories /\ dropped \subseteq Systems

\* What VMaaS had exported at the stored vmaas_exported is in the database,
\* although the pages were downloaded while VMaaS went on exporting, with
\* modified_since, and by jobs of which some were killed: every advisory in its
\* version of then, unless its row could not be written, and every repo of
\* Red Hat marked as such (vmaas_sync.go, SyncData).
SyncedUpToExported ==
  kv.exported # NIL =>
    /\ \A a \in Advisories \ skipped :
         erratum[a] > kv.exported \/ metadata[a] = erratum[a]
    /\ \A l \in Labels \ ThirdPartyLabels :
         (\E v \in Variants[l], p \in Packages : updated[l][v][p] \in 1 .. kv.exported)
           => ~thirdParty[l]

ConcernedBy(s) ==
  Max({0} \cup {updated[r[1]][r[2]][r[3]] :
                  r \in {q \in RepoPackages : s \in Concerned(q[1], q[3])}})
=============================================================================
