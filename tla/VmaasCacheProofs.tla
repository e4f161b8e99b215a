-------------------------- MODULE VmaasCacheProofs --------------------------
(***************************************************************************)
(* Theorems about VmaasSync and VmaasCache, for any listings of VMaaS, any *)
(* page size, any number of exports and any consumers: type correctness,   *)
(* what the stored vmaas_exported says about the database, and which       *)
(* cached answers may be older than the reset of the cache.                *)
(***************************************************************************)
EXTENDS VmaasCache, FiniteSetTheorems, WellFoundedInduction, TLAPS

JobType == [pc : {"idle", "errata", "repos", "mark", "stamps", "recalc", "send"}, page : Nat,
            since : Times \cup {NIL}, exported : Times \cup {NIL}, latest : Nat \cup {NIL},
            repos : SUBSET Labels, packages : [Labels -> SUBSET Packages], ids : SUBSET Systems]

KvType == [exported : Times \cup {NIL}, full : {NIL, "recent", "old"}, eval : Nat \cup {NIL}]

ConsumerType == [pc : {"ready", "call", "add", "store"}, sys : Systems \cup {NIL},
                 answer : Times \cup {NIL}, reset : BOOLEAN]

\* The type invariant by the parts of the state an action may change.
VmaasOK ==
  /\ exported \in Times /\ erratum \in [Advisories -> Times]
  /\ \A l \in Labels : \A v \in Variants[l] : \A p \in Packages : updated[l][v][p] \in Times

DbOK == metadata \in [Advisories -> Times] /\ thirdParty \in [Labels -> BOOLEAN]

GhostOK == skipped \subseteq Advisories /\ dropped \subseteq Systems

SyncOK == config \in Configs /\ VmaasOK /\ kv \in KvType /\ DbOK /\ job \in JobType /\ GhostOK

CacheOK == cache \in [Checksums -> Times \cup {NIL}] /\ validity \in Times \cup {NIL}

DoneOK ==
  /\ messages \subseteq Systems /\ evaluated \in [Systems -> Times]
  /\ overlapped \subseteq Checksums \cup {NIL} /\ outdated \subseteq Systems
  /\ old \subseteq Systems /\ missed \subseteq Systems

\* A consumer that is not ready has a system, and one that adds or stores has an answer.
ConsumersOK ==
  /\ consumer \in [Consumers -> ConsumerType]
  /\ \A c \in Consumers : /\ consumer[c].pc # "ready" => consumer[c].sys \in Systems
                          /\ consumer[c].pc \in {"add", "store"} => consumer[c].answer \in Times

\* The inductive invariant behind the type invariant.
TypeInv == SyncOK /\ CacheOK /\ DoneOK /\ ConsumersOK

\* No stored time, and no validity of the cache, is later than the last export.
StampsArePast ==
  /\ kv.exported # NIL => kv.exported <= exported
  /\ job.pc \in {"errata", "repos", "mark", "stamps"} /\ job.exported # NIL => job.exported <= exported
  /\ validity # NIL => validity <= exported

\* An answer that is still to be added is as new as the cache, unless it was reset since.
AnswerIsFresh ==
  \A c \in Consumers : consumer[c].pc = "add" /\ ~consumer[c].reset /\ validity # NIL
                        => consumer[c].answer >= validity

\* The inductive invariant behind CacheOldOnlyIfOverlapped.
CacheInv == TypeInv /\ StampsArePast /\ AnswerIsFresh /\ CacheOldOnlyIfOverlapped

\* A row is of an advisory that was published.
RowIsPublished == \A a \in Advisories : erratum[a] = 0 => metadata[a] = 0

\* A running job synchronizes from the stored time or everything.
SinceIsStored == job.pc \in {"errata", "repos", "mark", "stamps"} => job.since \in {kv.exported, NIL}

\* The advisory is stored, or it had not been exported when the job began.
IsStored(a) == erratum[a] <= job.exported => metadata[a] = erratum[a]

\* What the job lists.
Listing == ErrataSince(job.since)

\* The pages before the current one are stored, although new exports move advisories on to
\* later pages meanwhile: they never move one to an earlier page.
PagesStored ==
  job.pc = "errata" /\ job.exported # NIL =>
    \A a \in Listing \ skipped :
      Rank(a, Listing) <= (job.page - 1) * AdvisoryPageSize => IsStored(a)

\* After the last page everything is.
AllStored ==
  job.pc \in {"repos", "mark", "stamps"} /\ job.exported # NIL =>
    \A a \in Listing \ skipped : IsStored(a)

\* A package of repo l was updated until time t.
UpdatedUntil(l, t) == \E v \in Variants[l], p \in Packages : updated[l][v][p] \in 1 .. t

\* And the repos of Red Hat are marked.
ReposMarked ==
  job.pc = "stamps" /\ job.exported # NIL =>
    \A l \in Labels \ ThirdPartyLabels : UpdatedUntil(l, job.exported) => ~thirdParty[l]

\* The repos of Red Hat, and the ones of them updated until t that the job still has to list.
RedHat == ReposSince(NIL) \ ThirdPartyLabels
ListedUntil(t) ==
  \A l \in RedHat : UpdatedUntil(l, t) =>
    \/ l \in job.repos
    \/ job.pc = "repos" /\ Rank(l, RedHat) > (job.page - 1) * AdvisoryPageSize

\* The pages of repos before the current one are listed, although new exports move repos on
\* to later pages meanwhile: without it, the second statement of syncRepos could mark a repo
\* that an earlier job marked rightly.
ReposListed ==
  job.pc \in {"repos", "mark"} => \A t \in {kv.exported, job.exported} \ {NIL} : ListedUntil(t)

\* What the stored time says, and what the running job has done for the next one.
Synchronized ==
  /\ RowIsPublished /\ SinceIsStored /\ PagesStored /\ AllStored /\ ReposListed /\ ReposMarked
  /\ SyncedUpToExported

\* The inductive invariant behind SyncedUpToExported.
SyncedInv == TypeInv /\ StampsArePast /\ Synchronized

\* No package was updated after the last export.
UpdatesArePast ==
  \A l \in Labels : \A v \in Variants[l] : \A p \in Packages : updated[l][v][p] <= exported

\* A consumer that is ready has no system.
ReadyIsFree == \A c \in Consumers : consumer[c].pc = "ready" => consumer[c].sys = NIL

\* Two consumers do not evaluate a system at a time, or it counts as outdated.
EvaluatesAlone ==
  \A s \in Systems \ outdated : \A c, d \in Consumers :
    consumer[c].sys = s /\ consumer[d].sys = s => c = d

\* The job knows the packages updated since time e of the repos on the pages before the
\* current one, or the systems they concern are dropped.
ReadSince(e) ==
  \A l \in Labels : \A v \in Variants[l] : \A p \in UpdatedPackageNames(l, v, e) :
    Rank(l, ReposSince(e)) <= (job.page - 1) * AdvisoryPageSize =>
      p \in job.packages[l] \/ Concerned(l, p) \subseteq dropped

\* So the pages of /repos are read, although new exports move repos on to later pages
\* meanwhile.
PagesRead == job.pc = "recalc" => \A e \in {kv.eval} : ReadSince(e)

\* An answer of time t has the updates that concern s, as far as the job has handled them and
\* is not about to ask for an evaluation.
Covered(s, t) ==
  \/ ConcernedBy(s) <= t
  \/ kv.eval = NIL \/ ConcernedBy(s) > kv.eval
  \/ job.pc = "send" /\ s \in job.ids

\* t is the time of the last evaluation of s, when no request is left that will not be skipped,
\* or of the answer for an evaluation that is under way.
Answer(s, t) ==
  \/ /\ \A c \in Consumers : consumer[c].sys # s
     /\ s \notin messages \ old /\ t = evaluated[s]
  \/ \E c \in Consumers : /\ consumer[c].sys = s /\ consumer[c].pc \in {"add", "store"}
                          /\ t = consumer[c].answer

\* Such an answer has the updates, unless the system is excused.
AnswersCover ==
  config.repoBased =>
    \A s \in Systems \ (dropped \cup outdated \cup missed) : \A t \in Times :
      Answer(s, t) => Covered(s, t)

\* A request that is evaluated was not to be skipped, so it is not when it is delivered again.
RequestIsNew ==
  \A s \in Systems \ outdated : \A c \in Consumers : consumer[c].sys = s => s \notin old

\* What the consumers know.
EvaluatorGoal == ReadyIsFree /\ EvaluatesAlone /\ RequestIsNew /\ AnswersCover

\* What the job and the consumers know about the updates.
Requested == UpdatesArePast /\ PagesRead /\ EvaluatorGoal

\* The inductive invariant behind EvaluatedUnlessLost.
EvaluatedInv == CacheInv /\ Requested

-----------------------------------------------------------------------------
(* Numbers and sets *)

\* A set of natural numbers has a least element.
LEMMA LeastNat ==
  ASSUME NEW S, S \subseteq Nat, S # {}
  PROVE  \E x \in S : \A y \in S : x <= y
<1> DEFINE R == OpToRel(<, Nat)
<1>1. IsWellFoundedOn(R, Nat)
  BY NatLessThanWellFounded
<1>2. \A x, y \in Nat : y < x => <<y, x>> \in R
  BY DEF OpToRel
<1> HIDE DEF R
<1>3. \E x \in S : \A y \in S : ~(<<y, x>> \in R)
  BY <1>1, WFMin
<1>4. PICK x \in S : \A y \in S : ~(<<y, x>> \in R)
  BY <1>3
<1>5. \A y \in S : ~(y < x)
  BY <1>2, <1>4, Zenon
<1> QED
  BY <1>5

\* A bounded one has a greatest element, which is its Max.
LEMMA MaxExists ==
  ASSUME NEW S, S \subseteq Nat, S # {}, NEW n \in Nat, \A x \in S : x <= n
  PROVE  Max(S) \in S /\ \A y \in S : y <= Max(S)
<1> DEFINE D == {n - x : x \in S}
<1>1. D \subseteq Nat
  OBVIOUS
<1>2. D # {}
  OBVIOUS
<1>3. PICK m \in D : \A y \in D : m <= y
  BY <1>1, <1>2, LeastNat
<1>4. PICK x \in S : m = n - x
  BY DEF D
<1>5. \A y \in S : n - y \in D
  OBVIOUS
<1>6. \A y \in S : x >= y
  BY <1>3, <1>4, <1>5
<1> QED
  BY <1>6 DEF Max

\* The pages of a listing hold all of it.
LEMMA DivUp ==
  ASSUME NEW n \in Nat, NEW k \in Nat \ {0}
  PROVE  (n + k - 1) \div k \in Nat /\ ((n + k - 1) \div k) * k >= n
<1> DEFINE m == n + k - 1
           q == m \div k
<1>1. m \in Nat
  OBVIOUS
<1> HIDE DEF m
<1>2. q \in Int /\ m = k * q + (m % k) /\ m % k \in 0 .. k - 1
  BY <1>1
<1>3. k * q >= m - (k - 1)
  BY <1>1, <1>2
<1>4. k * q = q * k
  BY <1>2
<1> QED
  BY <1>1, <1>2, <1>3, <1>4 DEF m

\* The times of a configuration.
LEMMA TimesAre ==
  ASSUME config \in Configs
  PROVE  /\ Times \subseteq Nat /\ 0 \in Times /\ 1 \in Times /\ MaxExport[config] \in Nat
         /\ \A t \in Nat : t \in Times <=> t <= MaxExport[config]
         /\ NIL \notin Times
<1>1. MaxExport[config] \in Nat \ {0} /\ NIL \notin Nat
  BY SyncAssumption
<1> QED
  BY <1>1 DEF Times

\* The packages of repos.
LEMMA RepoPackagesAre ==
  \A r : r \in RepoPackages <=>
           \E l \in Labels : \E v \in Variants[l] : \E p \in Packages : r = <<l, v, p>>
BY DEF RepoPackages

\* The last change of a repo is a time.
LEMMA LatestIsTime ==
  ASSUME config \in Configs, VmaasOK
  PROVE  LatestRepoChange \in Times
<1> DEFINE S == {0} \cup {updated[r[1]][r[2]][r[3]] : r \in RepoPackages}
<1>1. S \subseteq Times
  BY TimesAre, RepoPackagesAre DEF VmaasOK
<1>2. S # {}
  OBVIOUS
<1>3. S \subseteq Nat /\ \A x \in S : x <= MaxExport[config]
  BY <1>1, TimesAre
<1>4. LatestRepoChange = Max(S)
  BY DEF LatestRepoChange
<1> HIDE DEF S
<1> QED
  BY <1>1, <1>2, <1>3, <1>4, MaxExists, TimesAre

-----------------------------------------------------------------------------
(* Types *)

\* The parts make up the type invariant.
LEMMA TypeParts == TypeInv => TypeOK
<1>1. VmaasOK => \A r \in RepoPackages : updated[r[1]][r[2]][r[3]] \in Times
  BY RepoPackagesAre DEF VmaasOK
<1> QED
  BY <1>1 DEF TypeInv, SyncOK, VmaasOK, KvType, DbOK, JobType, GhostOK, CacheOK, DoneOK,
              ConsumersOK, ConsumerType, TypeOK, SyncTypeOK

\* An idle job and a ready consumer have their types.
LEMMA IdleType ==
  Idle \in JobType /\ Idle.pc = "idle" /\ Ready \in ConsumerType /\ Ready.pc = "ready"
BY DEF Idle, JobType, NoPackages, Ready, ConsumerType

\* The initial state satisfies the type invariant.
LEMMA InitType == Init => TypeInv
<1> SUFFICES ASSUME Init
             PROVE  TypeInv
  OBVIOUS
<1>1. config \in Configs /\ job = Idle /\ skipped = {} /\ dropped = {}
  BY DEF Init, SyncInit
<1>2. VmaasOK
  BY <1>1, TimesAre DEF Init, SyncInit, VmaasOK
<1>3. kv \in KvType /\ DbOK
  BY <1>1, TimesAre DEF Init, SyncInit, KvType, DbOK
<1>4. job \in JobType /\ GhostOK
  BY <1>1, IdleType DEF GhostOK
<1>5. CacheOK /\ DoneOK
  BY <1>1, TimesAre DEF Init, SyncInit, CacheOK, DoneOK
<1>6. ConsumersOK
  BY IdleType DEF Init, ConsumersOK
<1> QED
  BY <1>1, <1>2, <1>3, <1>4, <1>5, <1>6 DEF TypeInv, SyncOK

\* The configuration of a pod does not change, and the types that depend on it neither.
LEMMA TypesKept ==
  ASSUME UNCHANGED config
  PROVE  /\ Times' = Times /\ KvType' = KvType /\ JobType' = JobType
         /\ ConsumerType' = ConsumerType
<1>1. Times' = Times
  BY DEF Times
<1> QED
  BY <1>1 DEF KvType, JobType, ConsumerType

\* A part that a step leaves alone keeps its type.
LEMMA SyncPartsKept ==
  ASSUME UNCHANGED config
  PROVE  /\ VmaasOK /\ UNCHANGED vmaasVars => VmaasOK'
         /\ DbOK /\ UNCHANGED <<metadata, thirdParty>> => DbOK'
         /\ kv \in KvType /\ UNCHANGED kv => (kv \in KvType)'
         /\ job \in JobType /\ UNCHANGED job => (job \in JobType)'
         /\ (job' \in JobType) => (job \in JobType)'
         /\ (kv' \in KvType) => (kv \in KvType)'
BY TypesKept DEF VmaasOK, vmaasVars, DbOK

\* What an export makes of the repos.
UpdatedBy(R) ==
  \A l \in Labels : \A v \in Variants[l] : \A p \in Packages :
    updated'[l][v][p] = IF <<l, v, p>> \in R THEN exported' ELSE updated[l][v][p]

\* What VmaasStep does.
LEMMA VmaasSteps ==
  ASSUME SyncOK, VmaasStep
  PROVE  \/ \E A \in SUBSET Advisories, R \in SUBSET RepoPackages : Export(A, R)
         \/ CadencePasses
<1>1. ASSUME NEW change \in Exports[config], Export(change[1], change[2])
      PROVE  \E A \in SUBSET Advisories, R \in SUBSET RepoPackages : Export(A, R)
  <2>1. change[1] \in SUBSET Advisories /\ change[2] \in SUBSET RepoPackages
    BY <1>1, SyncAssumption DEF SyncOK
  <2> QED
    BY <1>1, <2>1, Zenon
<1> QED
  BY <1>1, Zenon DEF VmaasStep

\* An export.
LEMMA ExportType ==
  ASSUME SyncOK, NEW A \in SUBSET Advisories, NEW R \in SUBSET RepoPackages, Export(A, R)
  PROVE  /\ exported' = exported + 1
         /\ \A a \in Advisories : erratum'[a] = IF a \in A THEN exported' ELSE erratum[a]
         /\ UpdatedBy(R)
         /\ UNCHANGED <<config, kv, metadata, thirdParty, job, skipped>>
         /\ SyncOK'
<1>1. /\ exported < MaxExport[config] /\ exported' = exported + 1
      /\ erratum' = [a \in Advisories |-> IF a \in A THEN exported' ELSE erratum[a]]
      /\ updated' = [l \in Labels |-> [v \in Variants[l] |-> [p \in Packages |->
                       IF <<l, v, p>> \in R THEN exported' ELSE updated[l][v][p]]]]
      /\ UNCHANGED <<config, kv, metadata, thirdParty, job, skipped>>
  BY DEF Export, dbVars
<1>2. exported' \in Times
  BY <1>1, TimesAre DEF SyncOK, VmaasOK
<1>3. \A a \in Advisories : erratum'[a] = IF a \in A THEN exported' ELSE erratum[a]
  BY <1>1
<1>4. UpdatedBy(R)
  BY <1>1 DEF UpdatedBy
<1>5. erratum' \in [Advisories -> Times]
  BY <1>1, <1>2 DEF SyncOK, VmaasOK
<1>6. \A l \in Labels : \A v \in Variants[l] : \A p \in Packages : updated'[l][v][p] \in Times
  <2> SUFFICES ASSUME NEW l \in Labels, NEW v \in Variants[l], NEW p \in Packages
               PROVE  updated'[l][v][p] \in Times
    BY Zenon
  <2>1. updated[l][v][p] \in Times
    BY DEF SyncOK, VmaasOK
  <2>2. updated'[l][v][p] \in {exported', updated[l][v][p]}
    BY <1>4 DEF UpdatedBy
  <2> QED
    BY <1>2, <2>1, <2>2
<1>7. VmaasOK'
  BY <1>1, <1>2, <1>5, <1>6, TypesKept DEF VmaasOK
<1>8. dropped' \subseteq Systems
  <2>1. UNION {Concerned(r[1], r[3]) : r \in R} \subseteq Systems
    BY DEF Concerned
  <2> QED
    BY <2>1 DEF Export, SyncOK, GhostOK
<1>9. GhostOK'
  BY <1>1, <1>8, Zenon DEF SyncOK, GhostOK
<1>10. SyncOK'
  <2>1. UNCHANGED <<config, kv, metadata, thirdParty, job>>
    BY <1>1, Zenon
  <2> QED
    BY <1>7, <1>9, <2>1, SyncPartsKept, Zenon DEF SyncOK
<1> QED
  BY <1>1, <1>3, <1>4, <1>10, Zenon

\* The cadence of the full synchronization.
LEMMA CadenceType ==
  ASSUME SyncOK, CadencePasses
  PROVE  /\ kv'.exported = kv.exported /\ kv'.eval = kv.eval
         /\ UNCHANGED <<config, exported, erratum, updated, metadata, thirdParty, job, skipped, dropped>>
         /\ SyncOK'
<1> DEFINE k == [kv EXCEPT !.full = "old"]
<1>1. /\ kv' = k
      /\ UNCHANGED <<config, vmaasVars, metadata, thirdParty, job, skipped, dropped>>
  BY Zenon DEF CadencePasses
<1>2. k \in KvType /\ k.exported = kv.exported /\ k.eval = kv.eval
  BY DEF SyncOK, KvType
<1> HIDE DEF k
<1> QED
  BY <1>1, <1>2, SyncPartsKept DEF SyncOK, GhostOK, vmaasVars

\* The start of the job: it synchronizes from the last time it stored, or everything.
LEMMA RunType ==
  ASSUME SyncOK, NEW e \in VmaasDBExported, runSync(e)
  PROVE  /\ job'.pc = "errata" /\ job'.page = 0 /\ job'.exported = e
         /\ job'.since \in {kv.exported, NIL}
         /\ UNCHANGED <<config, exported, erratum, updated, kv, metadata, thirdParty, skipped, dropped>>
         /\ SyncOK'
<1> DEFINE lastModified == IF config.modifiedSince THEN kv.exported ELSE NIL
           from == ModifiedSince(lastModified)
           j == [Idle EXCEPT !.pc = "errata", !.exported = e, !.since = from]
<1>1. /\ job' = j
      /\ UNCHANGED <<config, vmaasVars, dbVars, skipped, dropped>>
  BY Zenon DEF runSync
<1>2. from \in {kv.exported, NIL}
  BY DEF ModifiedSince
<1>3. e \in Times \cup {NIL} /\ kv.exported \in Times \cup {NIL}
  BY DEF SyncOK, VmaasOK, VmaasDBExported, KvType
<1> HIDE DEF from
<1>4. /\ j \in JobType /\ j.pc = "errata" /\ j.page = 0 /\ j.exported = e
      /\ j.since = from
  BY <1>2, <1>3, IdleType DEF JobType, Idle, NoPackages
<1> HIDE DEF j
<1> QED
  BY <1>1, <1>2, <1>4, SyncPartsKept DEF SyncOK, GhostOK, vmaasVars, dbVars

\* One page of advisories.
LEMMA PageType ==
  ASSUME SyncOK, NEW bad \in SUBSET Advisories, NEW failed \in SUBSET Advisories,
         syncAdvisories(bad, failed)
  PROVE  LET L == ErrataSince(job.since)
             page == PageOf(L, job.page)
         IN  /\ job.pc = "errata" /\ job'.since = job.since /\ job'.exported = job.exported
             /\ job.page + 1 <= PageCount(L) => job'.pc = "errata" /\ job'.page = job.page + 1
             /\ ~(job.page + 1 <= PageCount(L)) => job'.pc = "repos" /\ job'.page = 1
             /\ \A a \in Advisories :
                  metadata'[a] = IF a \in page \ (bad \cup failed) THEN erratum[a] ELSE metadata[a]
             /\ skipped' = (skipped \ page) \cup bad \cup failed
             /\ UNCHANGED <<config, exported, erratum, updated, kv, thirdParty, dropped>>
             /\ SyncOK'
<1> DEFINE L == ErrataSince(job.since)
           page == PageOf(L, job.page)
           more == job.page + 1 <= PageCount(L)
           j1 == [job EXCEPT !.page = @ + 1]
           j2 == [job EXCEPT !.pc = "repos", !.page = 1]
           j == IF more THEN j1 ELSE j2
<1>1. /\ job' = j /\ job.pc = "errata"
      /\ storeAdvisories(parseAdvisories(page, bad), failed)
      /\ skipped' = (skipped \ page) \cup bad \cup failed
      /\ UNCHANGED <<config, vmaasVars, kv, thirdParty, dropped>>
  BY Zenon DEF syncAdvisories
<1>2. metadata' = [a \in Advisories |-> IF a \in page \ (bad \cup failed) THEN erratum[a] ELSE metadata[a]]
  BY <1>1 DEF storeAdvisories, parseAdvisories, HasMetadata
<1>9. /\ j1 \in JobType /\ j1.since = job.since /\ j1.exported = job.exported
      /\ j1.pc = job.pc /\ j1.page = job.page + 1
  BY DEF SyncOK, JobType
<1>10. /\ j2 \in JobType /\ j2.since = job.since /\ j2.exported = job.exported
       /\ j2.pc = "repos" /\ j2.page = 1
  BY DEF SyncOK, JobType
<1> HIDE DEF more, page, L, j1, j2
<1>3. /\ j \in JobType /\ j.since = job.since /\ j.exported = job.exported
      /\ more => j.pc = job.pc /\ j.page = job.page + 1
      /\ ~more => j.pc = "repos" /\ j.page = 1
  BY <1>9, <1>10
<1> HIDE DEF j
<1>4. metadata' \in [Advisories -> Times]
  BY <1>2 DEF SyncOK, VmaasOK, DbOK
<1>5. DbOK'
  BY <1>1, <1>4, TypesKept DEF DbOK, SyncOK
<1>6. GhostOK'
  BY <1>1 DEF GhostOK, SyncOK
<1>7. SyncOK'
  BY <1>1, <1>3, <1>5, <1>6, SyncPartsKept DEF SyncOK
<1>8. \A a \in Advisories :
        metadata'[a] = IF a \in page \ (bad \cup failed) THEN erratum[a] ELSE metadata[a]
  BY <1>2
<1> QED
  BY <1>1, <1>3, <1>7, <1>8 DEF more, page, L, vmaasVars

\* A page that fails.
LEMMA PageFailsType ==
  ASSUME SyncOK, NEW done \in SUBSET Advisories, ErrataPageFails(done)
  PROVE  /\ \A a \in Advisories : metadata'[a] = IF a \in done THEN erratum[a] ELSE metadata[a]
         /\ done \subseteq ErrataSince(job.since)
         /\ skipped' = skipped \ done /\ job' = Idle
         /\ UNCHANGED <<config, exported, erratum, updated, kv, thirdParty, dropped>>
         /\ SyncOK'
<1>1. /\ metadata' = [a \in Advisories |-> IF a \in done THEN erratum[a] ELSE metadata[a]]
      /\ skipped' = skipped \ done /\ job' = Idle
      /\ UNCHANGED <<config, vmaasVars, kv, thirdParty, dropped>>
  BY Zenon DEF ErrataPageFails
<1>2. DbOK'
  BY <1>1, TypesKept DEF DbOK, SyncOK, VmaasOK
<1>3. GhostOK'
  BY <1>1 DEF GhostOK, SyncOK
<1>4. SyncOK'
  BY <1>1, <1>2, <1>3, IdleType, SyncPartsKept DEF SyncOK
<1>5. done \subseteq ErrataSince(job.since)
  BY DEF ErrataPageFails, toUpdate, PageOf
<1> QED
  BY <1>1, <1>4, <1>5 DEF vmaasVars

\* A page of repos.
LEMMA ReposListType ==
  ASSUME SyncOK, getUpdatedRepos
  PROVE  /\ job.pc = "repos" /\ job'.since = job.since /\ job'.exported = job.exported
         /\ job'.repos = job.repos \cup PageOf(RedHat, job.page)
         /\ \/ job'.pc = "mark" /\ (RedHat = {} \/ job.page = PageCount(RedHat))
            \/ job'.pc = "repos" /\ job'.page = job.page + 1
         /\ UNCHANGED <<config, exported, erratum, updated, kv, metadata, thirdParty, skipped, dropped>>
         /\ SyncOK'
<1> DEFINE all == job.repos \cup PageOf(RedHat, job.page)
           next == job.page + 1
           j1 == [job EXCEPT !.pc = "mark", !.repos = all]
           j2 == [job EXCEPT !.page = next, !.repos = all]
<1>0. job \in JobType
  BY DEF SyncOK
<1>1. /\ job.pc = "repos"
      /\ \/ job' = j1 /\ (RedHat = {} \/ job.page = PageCount(RedHat))
         \/ job' = j2
      /\ UNCHANGED <<config, vmaasVars, dbVars, skipped, dropped>>
  BY <1>0 DEF getUpdatedRepos, RedHat, JobType
<1>2. all \subseteq Labels /\ next \in Nat
  BY <1>0 DEF JobType, PageOf, RedHat, ReposSince
<1> HIDE DEF all, next
<1>3. /\ j1 \in JobType /\ j1.pc = "mark" /\ j1.repos = all
      /\ j1.since = job.since /\ j1.exported = job.exported
  BY <1>0, <1>2 DEF JobType
<1>4. /\ j2 \in JobType /\ j2.pc = job.pc /\ j2.page = next /\ j2.repos = all
      /\ j2.since = job.since /\ j2.exported = job.exported
  BY <1>0, <1>2 DEF JobType
<1> HIDE DEF j1, j2
<1>5. SyncOK'
  BY <1>1, <1>3, <1>4, SyncPartsKept DEF SyncOK, GhostOK, dbVars
<1> QED
  BY <1>1, <1>3, <1>4, <1>5 DEF vmaasVars, dbVars, all, next

\* The repos: Red Hat's are marked by the first statement.
LEMMA ReposType ==
  ASSUME SyncOK, NEW both \in BOOLEAN, syncRepos(both)
  PROVE  /\ job.pc = "mark"
         /\ \A l \in Labels : l \in job.repos => ~thirdParty'[l]
         /\ job'.pc \in {"stamps", "idle"}
         /\ job'.pc = "stamps" => job'.since = job.since /\ job'.exported = job.exported
         /\ UNCHANGED <<config, exported, erratum, updated, kv, metadata, skipped, dropped>>
         /\ SyncOK'
<1> DEFINE red == job.repos
           j == [job EXCEPT !.pc = "stamps"]
<1>1. /\ job.pc = "mark" /\ job' = IF both THEN j ELSE Idle
      /\ thirdParty' = [l \in Labels |-> IF l \in red THEN FALSE
                                         ELSE IF red # {} /\ both THEN TRUE
                                         ELSE thirdParty[l]]
      /\ UNCHANGED <<config, vmaasVars, kv, metadata, skipped, dropped>>
  BY Zenon DEF syncRepos
<1>2. j \in JobType /\ j.pc = "stamps" /\ j.since = job.since /\ j.exported = job.exported
  BY DEF SyncOK, JobType
<1> HIDE DEF j, red
<1>3. thirdParty' \in [Labels -> BOOLEAN]
  BY <1>1 DEF SyncOK, DbOK
<1>4. \A l \in Labels : l \in red => ~thirdParty'[l]
  BY <1>1 DEF SyncOK, DbOK
<1>5. DbOK'
  BY <1>1, <1>3, TypesKept DEF DbOK, SyncOK
<1>6. job' \in JobType /\ job'.pc \in {"stamps", "idle"}
      /\ (job'.pc = "stamps" => job'.since = job.since /\ job'.exported = job.exported)
  BY <1>1, <1>2, IdleType
<1>7. SyncOK'
  BY <1>1, <1>5, <1>6, SyncPartsKept DEF SyncOK, GhostOK
<1> QED
  BY <1>1, <1>4, <1>6, <1>7 DEF red, vmaasVars

\* The timestamps.
LEMMA StampsType ==
  ASSUME SyncOK, storeTimestamps
  PROVE  /\ job.pc = "stamps" /\ kv'.eval = kv.eval
         /\ kv'.exported = IF job.exported # NIL THEN job.exported ELSE kv.exported
         /\ job'.pc \in {"recalc", "idle"} /\ (job'.pc = "recalc" => job'.page = 1)
         /\ UNCHANGED <<config, exported, erratum, updated, metadata, thirdParty, skipped, dropped>>
         /\ SyncOK'
<1> DEFINE full == IF job.since = NIL THEN "recent" ELSE kv.full
           exp == IF job.exported # NIL THEN job.exported ELSE kv.exported
           k == [kv EXCEPT !.full = full, !.exported = exp]
           j == [job EXCEPT !.pc = "recalc", !.page = 1, !.repos = {}]
<1>0. kv \in KvType /\ job \in JobType
  BY DEF SyncOK
<1>1. /\ job.pc = "stamps" /\ job' = IF config.recalc THEN j ELSE Idle
      /\ UNCHANGED <<config, vmaasVars, metadata, thirdParty, skipped, dropped>>
  BY Zenon DEF storeTimestamps
<1>2. kv' = k
  BY <1>0 DEF storeTimestamps, KvType
<1>3. full \in {NIL, "recent", "old"} /\ exp \in Times \cup {NIL}
  BY <1>0 DEF KvType, JobType
<1> HIDE DEF full, exp
<1>4. k \in KvType /\ k.eval = kv.eval /\ k.exported = exp
  BY <1>0, <1>3 DEF KvType
<1>5. j \in JobType /\ j.pc = "recalc" /\ j.page = 1
  BY <1>0 DEF JobType
<1> HIDE DEF j, k
<1>6. job' \in JobType /\ job'.pc \in {"recalc", "idle"} /\ (job'.pc = "recalc" => job'.page = 1)
  BY <1>1, <1>5, IdleType
<1>7. SyncOK'
  BY <1>1, <1>2, <1>4, <1>6, SyncPartsKept DEF SyncOK, GhostOK
<1> QED
  BY <1>1, <1>2, <1>4, <1>6, <1>7 DEF exp, vmaasVars

\* What the steps of the re-evaluation leave alone.
Recalculated ==
  /\ job'.pc \in {"idle", "recalc", "send"}
  /\ kv'.exported = kv.exported
  /\ UNCHANGED <<config, exported, erratum, updated, metadata, thirdParty, skipped>>
  /\ SyncOK'

\* All systems are to be evaluated.
LEMMA AllType ==
  ASSUME SyncOK, getAllInventoryIDs
  PROVE  Recalculated
<1> DEFINE j == [job EXCEPT !.pc = "send", !.ids = Systems]
<1>1. job' = j /\ UNCHANGED <<config, vmaasVars, dbVars, skipped, dropped>>
  BY Zenon DEF getAllInventoryIDs
<1>2. j \in JobType /\ j.pc = "send"
  BY DEF SyncOK, JobType
<1> HIDE DEF j
<1> QED
  BY <1>1, <1>2, SyncPartsKept DEF SyncOK, GhostOK, vmaasVars, dbVars, Recalculated

\* One page of repos.
LEMMA ReposPageType ==
  ASSUME SyncOK, getVmaasRepos
  PROVE  Recalculated
<1> DEFINE since == kv.eval
           L == ReposSince(since)
           page == PageOf(L, job.page)
           packages == [l \in Labels |->
                          IF l \in page THEN UpdatedPackageNames(l, LastOf(l, since), since)
                                        ELSE job.packages[l]]
           latest == IF job.latest = NIL \/ job.latest < LatestRepoChange
                       THEN LatestRepoChange + Second ELSE job.latest
           ids == getRepoBasedInventoryIDs(packages)
           lost == UNION {UNION {Concerned(l, p) : p \in Overwritten(l, since)} : l \in page}
           k == [kv EXCEPT !.eval = latest]
           j1 == [job EXCEPT !.pc = "send", !.ids = ids]
           next == job.page + 1
           j2 == [job EXCEPT !.page = next, !.latest = latest, !.packages = packages]
<1>0. kv \in KvType /\ job \in JobType /\ config \in Configs /\ VmaasOK
  BY DEF SyncOK
<1>1. \/ job' = Idle /\ UNCHANGED <<kv, dropped>>
      \/ dropped' = dropped \cup lost /\ kv' = k /\ job' = j1
      \/ dropped' = dropped \cup lost /\ UNCHANGED kv /\ job' = j2
  BY DEF getVmaasRepos
<1>2. job.pc = "recalc" /\ UNCHANGED <<config, vmaasVars, metadata, thirdParty, skipped>>
  BY Zenon DEF getVmaasRepos
<1>3. lost \subseteq Systems
  BY DEF Concerned
<1>4. ids \subseteq Systems
  BY DEF getRepoBasedInventoryIDs
<1>5. packages \in [Labels -> SUBSET Packages]
  BY <1>0 DEF UpdatedPackageNames, JobType
<1>6. latest \in Nat
  <2>1. LatestRepoChange \in Nat /\ Second \in Nat
    BY <1>0, LatestIsTime, TimesAre, SyncAssumption
  <2>2. job.latest \in Nat \cup {NIL}
    BY <1>0 DEF JobType
  <2> QED
    BY <2>1, <2>2
<1> HIDE DEF lost, ids, packages, latest
<1>14. next \in Nat
  BY <1>0 DEF JobType
<1> HIDE DEF next
<1>7. k \in KvType /\ k.exported = kv.exported
  BY <1>0, <1>6 DEF KvType
<1>8. j1 \in JobType /\ j1.pc = "send"
  BY <1>0, <1>4 DEF JobType
<1>9. j2 \in JobType /\ j2.pc = job.pc
  <2> DEFINE T == [job EXCEPT !.page = next]
             U == [T EXCEPT !.latest = latest]
  <2>1. T \in JobType /\ T.pc = job.pc
    BY <1>0, <1>14 DEF JobType
  <2>2. j2 = [U EXCEPT !.packages = packages]
    BY <1>0 DEF JobType
  <2> HIDE DEF T
  <2>3. U \in JobType /\ U.pc = job.pc
    BY <1>6, <2>1 DEF JobType
  <2> HIDE DEF U, j2
  <2> QED
    BY <1>5, <2>2, <2>3 DEF JobType
<1> HIDE DEF k, j1, j2
<1>10. job' \in JobType /\ job'.pc \in {"idle", "recalc", "send"}
  BY <1>1, <1>2, <1>8, <1>9, IdleType
<1>11. kv' \in KvType /\ kv'.exported = kv.exported
  BY <1>0, <1>1, <1>7
<1>12. GhostOK'
  BY <1>1, <1>2, <1>3 DEF SyncOK, GhostOK
<1>13. SyncOK'
  BY <1>2, <1>10, <1>11, <1>12, SyncPartsKept DEF SyncOK
<1> QED
  BY <1>2, <1>10, <1>11, <1>13 DEF Recalculated, vmaasVars

\* The requests are sent, or the job ends early.
LEMMA EndType ==
  ASSUME SyncOK, (\E delivered \in SUBSET Systems : SendMessages(delivered)) \/ JobEnds
  PROVE  Recalculated /\ job' = Idle
<1>1. job' = Idle /\ UNCHANGED <<config, vmaasVars, dbVars, skipped>>
  BY Zenon DEF SendMessages, JobEnds
<1>2. dropped' \subseteq Systems
  BY DEF SendMessages, JobEnds, SyncOK, GhostOK, JobType
<1> QED
  BY <1>1, <1>2, IdleType, SyncPartsKept DEF SyncOK, GhostOK, vmaasVars, dbVars, Recalculated

\* Every step of VMaaS and of the job keeps the types of the job and its configuration.
LEMMA SyncType ==
  ASSUME SyncOK,
         VmaasStep \/ SyncStep \/ \E delivered \in SUBSET Systems : SendMessages(delivered)
  PROVE  SyncOK' /\ UNCHANGED config
BY ExportType, CadenceType, RunType, PageType, PageFailsType, ReposListType, ReposType,
   StampsType, AllType,
   ReposPageType, EndType, VmaasSteps, Zenon DEF SyncStep, Recalculated

\* The parts of the evaluator that a step leaves alone keep their types.
LEMMA CachePartsKept ==
  ASSUME UNCHANGED config
  PROVE  /\ SyncOK /\ UNCHANGED syncVars => SyncOK'
         /\ CacheOK /\ UNCHANGED <<cache, validity>> => CacheOK'
         /\ DoneOK /\ UNCHANGED <<messages, evaluated, overlapped, outdated, old, missed>> => DoneOK'
         /\ ConsumersOK /\ UNCHANGED consumer => ConsumersOK'
<1>1. Times' = Times /\ KvType' = KvType /\ JobType' = JobType /\ ConsumerType' = ConsumerType
  BY TypesKept
<1>2. SyncOK /\ UNCHANGED syncVars => SyncOK'
  BY <1>1 DEF SyncOK, VmaasOK, DbOK, GhostOK, syncVars
<1>3. CacheOK /\ UNCHANGED <<cache, validity>> => CacheOK'
  BY <1>1 DEF CacheOK
<1>4. DoneOK /\ UNCHANGED <<messages, evaluated, overlapped, outdated, old, missed>> => DoneOK'
  BY <1>1 DEF DoneOK
<1>5. ConsumersOK /\ UNCHANGED consumer => ConsumersOK'
  BY <1>1 DEF ConsumersOK
<1> QED
  BY <1>2, <1>3, <1>4, <1>5

\* A consumer goes on.
LEMMA ConsumerReplaced ==
  ASSUME ConsumersOK, UNCHANGED config, NEW c \in Consumers, NEW x \in ConsumerType,
         x.pc # "ready" => x.sys \in Systems, x.pc \in {"add", "store"} => x.answer \in Times,
         consumer' = [consumer EXCEPT ![c] = x]
  PROVE  ConsumersOK' /\ consumer'[c] = x /\ \A d \in Consumers : d # c => consumer'[d] = consumer[d]
BY TypesKept DEF ConsumersOK

\* What becomes of a message: a hit is to be stored, or VMaaS is to be called.
Taken(c, s) ==
  /\ consumer[c].pc = "ready" /\ s \in messages \ old
  /\ messages' = messages \ {s} /\ missed' = missed \ {s} /\ UNCHANGED <<evaluated, old>>
  /\ \A d \in Consumers : d # c => consumer'[d] = consumer[d]
  /\ consumer'[c].sys = s /\ consumer'[c].answer = Get(Checksum[s])
  /\ consumer'[c].pc = IF Get(Checksum[s]) = NIL THEN "call" ELSE "store"
  /\ outdated' = IF (Get(Checksum[s]) # NIL /\ CacheOutdated(s)) \/ Evaluating(s) # {}
                   THEN outdated \cup {s} ELSE outdated \ {s}

\* A message is taken.
LEMMA TakeType ==
  ASSUME TypeInv, NEW c \in Consumers, NEW s \in Systems, TakeMessage(c, s), UNCHANGED syncVars
  PROVE  /\ TypeInv' /\ UNCHANGED <<cache, validity, overlapped>>
         /\ \A d \in Consumers : consumer'[d] = consumer[d] \/ consumer'[d].pc \in {"call", "store"}
         /\ Taken(c, s)
<1> DEFINE hit == Get(Checksum[s])
           x == [pc |-> IF hit = NIL THEN "call" ELSE "store", sys |-> s, answer |-> hit,
                 reset |-> FALSE]
           stale == (hit # NIL /\ CacheOutdated(s)) \/ Evaluating(s) # {}
<1>1. /\ consumer[c].pc = "ready" /\ s \in messages \ old /\ messages' = messages \ {s}
      /\ consumer' = [consumer EXCEPT ![c] = x]
      /\ outdated' = IF stale THEN outdated \cup {s} ELSE outdated \ {s}
      /\ missed' = missed \ {s}
      /\ UNCHANGED <<cache, validity, overlapped, evaluated, old>>
  BY Zenon DEF TakeMessage
<1>2. UNCHANGED config
  BY DEF syncVars
<1>3. hit # NIL => hit \in Times
  <2> SUFFICES ASSUME hit # NIL
               PROVE  hit \in Times
    OBVIOUS
  <2>1. Checksum[s] \in Checksums /\ hit = cache[Checksum[s]]
    BY DEF Get, Checksums
  <2> QED
    BY <2>1 DEF TypeInv, CacheOK
<1>4. /\ x \in ConsumerType /\ x.pc = IF hit = NIL THEN "call" ELSE "store"
      /\ x.sys = s /\ x.answer = hit /\ (x.pc \in {"add", "store"} => x.answer \in Times)
  BY <1>3 DEF ConsumerType
<1> HIDE DEF x, hit, stale
<1>5. DoneOK'
  BY <1>1, <1>2, TypesKept DEF TypeInv, DoneOK
<1>6. ConsumersOK' /\ consumer'[c] = x /\ \A d \in Consumers : d # c => consumer'[d] = consumer[d]
  BY <1>1, <1>2, <1>4, ConsumerReplaced DEF TypeInv
<1>7. Taken(c, s)
  BY <1>1, <1>4, <1>6, Zenon DEF Taken, hit, stale
<1>8. \A d \in Consumers : consumer'[d] = consumer[d] \/ consumer'[d].pc \in {"call", "store"}
  BY <1>4, <1>6
<1> QED
  BY <1>1, <1>2, <1>5, <1>6, <1>7, <1>8, CachePartsKept DEF TypeInv

\* A request is skipped.
LEMMA SkipType ==
  ASSUME TypeInv, NEW c \in Consumers, NEW s \in Systems, SkipOld(c, s), UNCHANGED syncVars
  PROVE  /\ TypeInv' /\ messages' = messages \ {s} /\ s \in old
         /\ UNCHANGED <<cache, validity, overlapped, consumer, evaluated, old, outdated, missed>>
<1>1. /\ messages' = messages \ {s} /\ s \in old
      /\ UNCHANGED <<cache, validity, overlapped, consumer, evaluated, old, outdated, missed>>
  BY DEF SkipOld
<1>2. UNCHANGED config
  BY DEF syncVars
<1>3. DoneOK'
  BY <1>1, <1>2, TypesKept DEF TypeInv, DoneOK
<1> QED
  BY <1>1, <1>2, <1>3, CachePartsKept DEF TypeInv

\* VMaaS answers.
LEMMA CallType ==
  ASSUME TypeInv, NEW c \in Consumers, CallVMaas(c), UNCHANGED syncVars
  PROVE  /\ TypeInv' /\ UNCHANGED <<cache, validity, overlapped>>
         /\ UNCHANGED <<messages, evaluated, old, outdated, missed>>
         /\ consumer[c].pc = "call" /\ consumer'[c].sys = consumer[c].sys
         /\ consumer'[c].answer = exported /\ consumer'[c].pc = "add"
         /\ \A d \in Consumers : d # c => consumer'[d] = consumer[d]
<1> DEFINE x == [consumer[c] EXCEPT !.pc = "add", !.answer = exported]
<1>0. consumer[c] \in ConsumerType /\ exported \in Times /\ UNCHANGED config
  BY DEF TypeInv, ConsumersOK, SyncOK, VmaasOK, syncVars
<1>1. /\ consumer[c].pc = "call"
      /\ UNCHANGED <<cache, validity, overlapped, messages, evaluated, old, outdated, missed>>
  BY Zenon DEF CallVMaas
<1>2. consumer' = [consumer EXCEPT ![c] = x]
  BY DEF CallVMaas
<1>3. consumer[c].sys \in Systems
  BY <1>1 DEF TypeInv, ConsumersOK
<1>4. x \in ConsumerType /\ x.pc = "add" /\ x.sys = consumer[c].sys /\ x.answer = exported
  BY <1>0 DEF ConsumerType
<1> HIDE DEF x
<1> QED
  BY <1>0, <1>1, <1>2, <1>3, <1>4, ConsumerReplaced, CachePartsKept DEF TypeInv

\* The call fails.
LEMMA CallFailsType ==
  ASSUME TypeInv, NEW c \in Consumers, NEW yumUpdates \in BOOLEAN, CallFails(c, yumUpdates),
         UNCHANGED syncVars
  PROVE  /\ TypeInv' /\ UNCHANGED <<cache, validity, overlapped>>
         /\ UNCHANGED <<messages, evaluated, old, outdated>>
         /\ missed' = missed \cup {consumer[c].sys}
         /\ \/ consumer'[c] = Ready
            \/ consumer'[c].pc = "store" /\ consumer'[c].sys = consumer[c].sys
         /\ \A d \in Consumers : d # c => consumer'[d] = consumer[d]
<1> DEFINE y == [consumer[c] EXCEPT !.pc = "store", !.answer = 0]
           x == IF yumUpdates THEN y ELSE Ready
<1>0. consumer[c] \in ConsumerType /\ UNCHANGED config /\ 0 \in Times
  BY TimesAre DEF TypeInv, SyncOK, ConsumersOK, syncVars
<1>1. /\ consumer[c].pc = "call" /\ missed' = missed \cup {consumer[c].sys}
      /\ UNCHANGED <<cache, validity, overlapped, messages, evaluated, old, outdated>>
  BY Zenon DEF CallFails
<1>2. consumer' = [consumer EXCEPT ![c] = x]
  BY DEF CallFails
<1>3. consumer[c].sys \in Systems
  BY <1>1 DEF TypeInv, ConsumersOK
<1>4. y \in ConsumerType /\ y.pc = "store" /\ y.sys = consumer[c].sys /\ y.answer = 0
  BY <1>0 DEF ConsumerType
<1> HIDE DEF y
<1>5. /\ x \in ConsumerType /\ (x = Ready \/ (x.pc = "store" /\ x.sys = consumer[c].sys))
      /\ (x.pc # "ready" => x.sys \in Systems) /\ (x.pc \in {"add", "store"} => x.answer \in Times)
  BY <1>0, <1>3, <1>4, IdleType
<1> HIDE DEF x
<1>6. DoneOK'
  BY <1>0, <1>1, <1>3, TypesKept DEF TypeInv, DoneOK
<1> QED
  BY <1>0, <1>1, <1>2, <1>5, <1>6, ConsumerReplaced, CachePartsKept DEF TypeInv

\* The answer is added.
LEMMA AddType ==
  ASSUME TypeInv, NEW c \in Consumers, AddAnswer(c), UNCHANGED syncVars
  PROVE  /\ TypeInv' /\ consumer[c].pc = "add"
         /\ LET k == Checksum[consumer[c].sys]
            IN  /\ \A i \in Checksums : cache'[i] = IF i = k THEN consumer[c].answer ELSE cache[i]
                /\ overlapped' = IF consumer[c].reset THEN overlapped \cup {k} ELSE overlapped \ {k}
         /\ consumer'[c].pc = "store" /\ consumer'[c].sys = consumer[c].sys
         /\ consumer'[c].answer = consumer[c].answer
         /\ \A d \in Consumers : d # c => consumer'[d] = consumer[d]
         /\ UNCHANGED <<validity, messages, evaluated, old, outdated, missed>>
<1> DEFINE s == consumer[c].sys
           k == Checksum[s]
           answer == consumer[c].answer
           late == consumer[c].reset
           x == [consumer[c] EXCEPT !.pc = "store", !.reset = FALSE]
<1>0. consumer[c] \in ConsumerType
  BY DEF TypeInv, ConsumersOK
<1>1. /\ consumer[c].pc = "add"
      /\ cache' = [i \in Checksums |-> IF i = k THEN answer ELSE cache[i]]
      /\ overlapped' = IF late THEN overlapped \cup {k} ELSE overlapped \ {k}
      /\ UNCHANGED <<validity, messages, evaluated, old, outdated, missed>>
  BY Zenon DEF AddAnswer, Add
<1>9. consumer' = [consumer EXCEPT ![c] = x]
  BY DEF AddAnswer
<1>2. s \in Systems /\ answer \in Times
  BY <1>1 DEF TypeInv, ConsumersOK
<1>3. UNCHANGED config /\ Times' = Times
  BY TypesKept DEF syncVars
<1>4. k \in Checksums \cup {NIL}
  BY <1>2 DEF Checksums
<1>10. x \in ConsumerType /\ x.pc = "store" /\ x.sys = s /\ x.answer = answer
  BY <1>0 DEF ConsumerType
<1> HIDE DEF answer, k, s, x, late
<1>5. CacheOK'
  BY <1>1, <1>2, <1>3 DEF TypeInv, CacheOK
<1>6. DoneOK'
  BY <1>1, <1>3, <1>4 DEF TypeInv, DoneOK
<1>7. ConsumersOK' /\ consumer'[c] = x /\ \A d \in Consumers : d # c => consumer'[d] = consumer[d]
  BY <1>2, <1>3, <1>9, <1>10, ConsumerReplaced DEF TypeInv
<1>8. \A i \in Checksums : cache'[i] = IF i = k THEN answer ELSE cache[i]
  BY <1>1
<1> QED
  BY <1>1, <1>3, <1>5, <1>6, <1>7, <1>8, <1>10, CachePartsKept DEF TypeInv, s, k, answer, late

\* The evaluation is stored.
LEMMA StoreType ==
  ASSUME TypeInv, NEW c \in Consumers, evaluateAndStore(c), UNCHANGED syncVars
  PROVE  /\ TypeInv' /\ consumer[c].pc = "store" /\ consumer[c].sys \in Systems
         /\ consumer'[c] = Ready /\ \A d \in Consumers : d # c => consumer'[d] = consumer[d]
         /\ \A u \in Systems :
              evaluated'[u] = IF u = consumer[c].sys THEN consumer[c].answer ELSE evaluated[u]
         /\ old' = old \cup {consumer[c].sys}
         /\ UNCHANGED <<cache, validity, overlapped, messages, outdated, missed>>
<1> DEFINE s == consumer[c].sys
           answer == consumer[c].answer
<1>1. /\ consumer[c].pc = "store" /\ consumer' = [consumer EXCEPT ![c] = Ready]
      /\ evaluated' = [evaluated EXCEPT ![s] = answer] /\ old' = old \cup {s}
      /\ UNCHANGED <<cache, validity, overlapped, messages, outdated, missed>>
  BY Zenon DEF evaluateAndStore
<1>2. s \in Systems /\ answer \in Times
  BY <1>1 DEF TypeInv, ConsumersOK
<1>3. UNCHANGED config /\ Times' = Times
  BY TypesKept DEF syncVars
<1> HIDE DEF s, answer
<1>4. DoneOK' /\ \A u \in Systems : evaluated'[u] = IF u = s THEN answer ELSE evaluated[u]
  BY <1>1, <1>2, <1>3 DEF TypeInv, DoneOK
<1>5. ConsumersOK' /\ consumer'[c] = Ready /\ \A d \in Consumers : d # c => consumer'[d] = consumer[d]
  BY <1>1, <1>3, IdleType, ConsumerReplaced DEF TypeInv
<1> QED
  BY <1>1, <1>2, <1>3, <1>4, <1>5, CachePartsKept DEF TypeInv, s, answer

\* Or it is not.
LEMMA StoreFailsType ==
  ASSUME TypeInv, NEW c \in Consumers, NEW again \in BOOLEAN, StoreFails(c, again),
         UNCHANGED syncVars
  PROVE  /\ TypeInv' /\ messages \subseteq messages' /\ missed \subseteq missed'
         /\ consumer[c].sys \in messages' \cup missed'
         /\ consumer'[c] = Ready /\ \A d \in Consumers : d # c => consumer'[d] = consumer[d]
         /\ UNCHANGED <<cache, validity, overlapped, evaluated, old, outdated>>
<1>1. /\ consumer[c].pc = "store" /\ consumer' = [consumer EXCEPT ![c] = Ready]
      /\ messages' = IF again THEN messages \cup {consumer[c].sys} ELSE messages
      /\ missed' = IF again THEN missed ELSE missed \cup {consumer[c].sys}
      /\ UNCHANGED <<cache, validity, overlapped, evaluated, old, outdated>>
  BY Zenon DEF StoreFails
<1>2. consumer[c].sys \in Systems
  BY <1>1 DEF TypeInv, ConsumersOK
<1>3. UNCHANGED config
  BY DEF syncVars
<1>4. DoneOK'
  BY <1>1, <1>2, <1>3, TypesKept DEF TypeInv, DoneOK
<1>5. ConsumersOK' /\ consumer'[c] = Ready /\ \A d \in Consumers : d # c => consumer'[d] = consumer[d]
  BY <1>1, <1>3, IdleType, ConsumerReplaced DEF TypeInv
<1>6. messages \subseteq messages' /\ missed \subseteq missed' /\ consumer[c].sys \in messages' \cup missed'
  BY <1>1
<1> QED
  BY <1>1, <1>3, <1>4, <1>5, <1>6, CachePartsKept DEF TypeInv

\* An answer is dropped from the cache.
LEMMA EvictType ==
  ASSUME TypeInv, NEW k \in Checksums, Evict(k), UNCHANGED syncVars
  PROVE  /\ TypeInv' /\ UNCHANGED <<validity, overlapped, consumer>> /\ UNCHANGED answerVars
         /\ \A i \in Checksums : cache'[i] = cache[i] \/ cache'[i] = NIL
<1>1. /\ cache' = [cache EXCEPT ![k] = NIL]
      /\ UNCHANGED <<validity, overlapped>> /\ UNCHANGED answerVars
  BY Zenon DEF Evict
<1>2. UNCHANGED config /\ Times' = Times
  BY TypesKept DEF syncVars
<1>3. CacheOK' /\ \A i \in Checksums : cache'[i] = cache[i] \/ cache'[i] = NIL
  BY <1>1, <1>2 DEF TypeInv, CacheOK
<1> QED
  BY <1>1, <1>2, <1>3, CachePartsKept DEF TypeInv, answerVars

\* The cache is reset; the calls under way learn of it.
LEMMA ResetType ==
  ASSUME TypeInv, CheckValidity, UNCHANGED syncVars
  PROVE  /\ TypeInv' /\ validity' = kv.exported /\ UNCHANGED overlapped
         /\ \A i \in Checksums : cache'[i] = NIL
         /\ \A d \in Consumers : consumer'[d].pc = "add" => consumer'[d].reset
<1> DEFINE x(d) == [consumer[d] EXCEPT !.reset = TRUE]
<1>1. /\ cache' = [i \in Checksums |-> NIL] /\ validity' = kv.exported
      /\ consumer' = [d \in Consumers |-> IF consumer[d].pc = "add" THEN x(d) ELSE consumer[d]]
      /\ UNCHANGED <<overlapped, messages, evaluated, old, outdated, missed>>
  BY Zenon DEF CheckValidity, Reset
<1>2. UNCHANGED config /\ Times' = Times
  BY TypesKept DEF syncVars
<1>3. \A d \in Consumers : /\ x(d) \in ConsumerType /\ x(d).pc = consumer[d].pc /\ x(d).reset
                           /\ x(d).sys = consumer[d].sys /\ x(d).answer = consumer[d].answer
  BY DEF TypeInv, ConsumersOK, ConsumerType
<1> HIDE DEF x
<1>4. CacheOK'
  BY <1>1, <1>2 DEF TypeInv, SyncOK, KvType, CacheOK
<1>5. ConsumersOK' /\ \A d \in Consumers : consumer'[d].pc = "add" => consumer'[d].reset
  BY <1>1, <1>2, <1>3, TypesKept DEF TypeInv, ConsumersOK
<1> QED
  BY <1>1, <1>2, <1>4, <1>5, CachePartsKept DEF TypeInv

\* The pod is started again.
LEMMA RestartType ==
  ASSUME TypeInv, Restart, UNCHANGED syncVars
  PROVE  /\ TypeInv' /\ validity' = kv.exported /\ overlapped' = {}
         /\ \A i \in Checksums : cache'[i] = NIL
         /\ \A d \in Consumers : consumer'[d].pc = "ready"
<1>1. /\ cache' = [i \in Checksums |-> NIL] /\ validity' = kv.exported /\ overlapped' = {}
      /\ messages' = messages \cup {s \in Systems : Evaluating(s) # {}}
      /\ consumer' = [d \in Consumers |-> Ready] /\ UNCHANGED <<evaluated, old, outdated, missed>>
  BY Zenon DEF Restart
<1>2. UNCHANGED config /\ Times' = Times
  BY TypesKept DEF syncVars
<1>3. CacheOK'
  BY <1>1, <1>2 DEF TypeInv, SyncOK, KvType, CacheOK
<1>4. DoneOK'
  BY <1>1, <1>2 DEF TypeInv, DoneOK
<1>5. ConsumersOK' /\ \A d \in Consumers : consumer'[d].pc = "ready"
  BY <1>1, <1>2, IdleType, TypesKept DEF ConsumersOK
<1> QED
  BY <1>1, <1>2, <1>3, <1>4, <1>5, CachePartsKept DEF TypeInv

\* Requests arrive.
LEMMA RequestsType ==
  ASSUME DoneOK, NEW delivered \in SUBSET Systems, NEW sameSecond \in SUBSET Systems,
         Requests(delivered, sameSecond), UNCHANGED config
  PROVE  /\ DoneOK' /\ SendMessages(delivered)
         /\ UNCHANGED <<cache, validity, overlapped, consumer, evaluated, outdated>>
<1>1. /\ SendMessages(delivered) /\ messages' = messages \cup delivered
      /\ old' = old \ (delivered \ sameSecond)
      /\ missed' = missed \cup sameSecond
                     \cup {s \in delivered : \E c \in Evaluating(s) : consumer[c].answer # NIL}
      /\ UNCHANGED <<cache, validity, overlapped, consumer, evaluated, outdated>>
  BY Zenon DEF Requests
<1>2. messages' \subseteq Systems /\ old' \subseteq Systems /\ missed' \subseteq Systems
  BY <1>1 DEF DoneOK
<1> QED
  BY <1>1, <1>2, TypesKept DEF DoneOK

\* The steps of the specification by who takes them.
LEMMA Steps ==
  ASSUME [Next]_vars
  PROVE  \/ /\ VmaasStep \/ SyncStep
            /\ UNCHANGED cacheVars
         \/ \E delivered \in SUBSET Systems, sameSecond \in SUBSET Systems :
              Requests(delivered, sameSecond)
         \/ Evaluator /\ UNCHANGED syncVars
         \/ UNCHANGED syncVars /\ UNCHANGED cacheVars
BY Zenon DEF Next, vars

\* Every step preserves the type invariant.
LEMMA NextType == TypeInv /\ [Next]_vars => TypeInv'
<1> SUFFICES ASSUME TypeInv, [Next]_vars
             PROVE  TypeInv'
  OBVIOUS
<1>1. CASE (VmaasStep \/ SyncStep) /\ UNCHANGED cacheVars
  <2>1. SyncOK' /\ UNCHANGED config
    BY <1>1, SyncType DEF TypeInv
  <2> QED
    BY <1>1, <2>1, CachePartsKept DEF TypeInv, cacheVars, answerVars
<1>4. ASSUME NEW delivered \in SUBSET Systems, NEW sameSecond \in SUBSET Systems,
             Requests(delivered, sameSecond)
      PROVE  TypeInv'
  <2>1. SendMessages(delivered)
    BY <1>4, Zenon DEF Requests
  <2>2. SyncOK' /\ UNCHANGED config
    BY <2>1, SyncType DEF TypeInv
  <2>3. DoneOK' /\ UNCHANGED <<cache, validity, overlapped, consumer, evaluated, outdated>>
    BY <1>4, <2>2, RequestsType, Zenon DEF TypeInv
  <2> QED
    BY <2>2, <2>3, CachePartsKept DEF TypeInv
<1>2. CASE Evaluator /\ UNCHANGED syncVars
  BY <1>2, SkipType, TakeType, CallType, CallFailsType, AddType, StoreType, StoreFailsType,
     EvictType, ResetType, RestartType, Zenon DEF Evaluator
<1>3. CASE UNCHANGED syncVars /\ UNCHANGED cacheVars
  <2>1. UNCHANGED config
    BY <1>3, Zenon DEF syncVars
  <2> QED
    BY <1>3, <2>1, CachePartsKept, Zenon DEF TypeInv, cacheVars, answerVars
<1> QED
  BY <1>1, <1>2, <1>3, <1>4, Steps, Zenon

\* The job's rows and times, the cache and the consumers keep their types, however VMaaS,
\* the job and the evaluator interleave; in particular no stored or cached time is later
\* than the exports there can be.
THEOREM TypeCorrect == Spec => []TypeOK
<1>1. Spec => []TypeInv
  BY InitType, NextType, PTL DEF Spec
<1> QED
  BY <1>1, TypeParts, PTL

-----------------------------------------------------------------------------
(* Which cached answers are old *)

\* The times in their types.
LEMMA TimesTyped ==
  ASSUME TypeInv
  PROVE  /\ Times \subseteq Nat /\ NIL \notin Nat /\ exported \in Nat
         /\ kv.exported \in Nat \cup {NIL} /\ job.exported \in Nat \cup {NIL}
         /\ job.since \in Nat \cup {NIL} /\ job.page \in Nat /\ validity \in Nat \cup {NIL}
         /\ \A a \in Advisories : erratum[a] \in Nat /\ metadata[a] \in Nat
         /\ \A l \in Labels : \A v \in Variants[l] : \A p \in Packages : updated[l][v][p] \in Nat
<1>1. Times \subseteq Nat /\ NIL \notin Nat
  BY TimesAre, SyncAssumption DEF TypeInv, SyncOK
<1>2. /\ exported \in Times /\ erratum \in [Advisories -> Times] /\ metadata \in [Advisories -> Times]
      /\ \A l \in Labels : \A v \in Variants[l] : \A p \in Packages : updated[l][v][p] \in Times
      /\ kv \in KvType /\ job \in JobType /\ validity \in Times \cup {NIL}
  BY DEF TypeInv, SyncOK, VmaasOK, DbOK, CacheOK
<1>3. /\ kv.exported \in Times \cup {NIL} /\ job.exported \in Times \cup {NIL}
      /\ job.since \in Times \cup {NIL} /\ job.page \in Nat
  BY <1>2 DEF KvType, JobType
<1> QED
  BY <1>1, <1>2, <1>3

\* No time is later than the last export, after every step.
LEMMA NextPast ==
  ASSUME TypeInv, StampsArePast, [Next]_vars
  PROVE  StampsArePast'
<1>0. SyncOK /\ exported \in Nat /\ validity \in Nat \cup {NIL} /\ kv.exported \in Nat \cup {NIL}
      /\ job.exported \in Nat \cup {NIL}
  BY TimesTyped DEF TypeInv
<1>1. ASSUME UNCHANGED validity, UNCHANGED exported, kv'.exported = kv.exported,
             job'.pc \in {"errata", "repos", "mark", "stamps"} =>
               /\ job'.exported = job.exported /\ job.pc \in {"errata", "repos", "mark", "stamps"}
      PROVE  StampsArePast'
  BY <1>1 DEF StampsArePast
<1>2. ASSUME NEW A \in SUBSET Advisories, NEW R \in SUBSET RepoPackages, Export(A, R),
             UNCHANGED validity
      PROVE  StampsArePast'
  <2>1. exported' = exported + 1 /\ UNCHANGED <<kv, job>>
    BY <1>0, <1>2, ExportType
  <2> QED
    BY <1>0, <1>2, <2>1 DEF StampsArePast
<1>3. ASSUME CadencePasses, UNCHANGED validity
      PROVE  StampsArePast'
  BY <1>0, <1>1, <1>3, CadenceType
<1>4. ASSUME NEW e \in VmaasDBExported, runSync(e), UNCHANGED validity
      PROVE  StampsArePast'
  <2>1. job'.exported = e /\ UNCHANGED <<kv, exported>>
    BY <1>0, <1>4, RunType
  <2> QED
    BY <1>0, <1>4, <2>1 DEF StampsArePast, VmaasDBExported
<1>5. ASSUME NEW bad \in SUBSET Advisories, NEW failed \in SUBSET Advisories,
             syncAdvisories(bad, failed), UNCHANGED validity
      PROVE  StampsArePast'
  BY <1>0, <1>1, <1>5, PageType
<1>6. ASSUME NEW done \in SUBSET Advisories, ErrataPageFails(done), UNCHANGED validity
      PROVE  StampsArePast'
  BY <1>0, <1>1, <1>6, PageFailsType, IdleType
<1>14. ASSUME getUpdatedRepos, UNCHANGED validity
       PROVE  StampsArePast'
  BY <1>0, <1>1, <1>14, ReposListType
<1>7. ASSUME NEW both \in BOOLEAN, syncRepos(both), UNCHANGED validity
      PROVE  StampsArePast'
  BY <1>0, <1>1, <1>7, ReposType
<1>8. ASSUME storeTimestamps, UNCHANGED validity
      PROVE  StampsArePast'
  <2>1. /\ job.pc = "stamps" /\ job'.pc \in {"recalc", "idle"} /\ UNCHANGED exported
        /\ kv'.exported = IF job.exported # NIL THEN job.exported ELSE kv.exported
    BY <1>0, <1>8, StampsType
  <2> QED
    BY <1>8, <2>1 DEF StampsArePast
<1>9. ASSUME Recalculated, UNCHANGED validity
      PROVE  StampsArePast'
  <2>1. job'.pc \in {"idle", "recalc", "send"} /\ kv'.exported = kv.exported /\ UNCHANGED exported
    BY <1>9 DEF Recalculated
  <2> QED
    BY <1>1, <1>9, <2>1
<1>10. ASSUME UNCHANGED syncVars, validity' = validity \/ validity' = kv.exported
       PROVE  StampsArePast'
  <2>1. UNCHANGED <<exported, kv, job>>
    BY <1>10, Zenon DEF syncVars
  <2> QED
    BY <1>10, <2>1 DEF StampsArePast
<1>11. ASSUME VmaasStep \/ SyncStep \/ \E delivered \in SUBSET Systems : SendMessages(delivered),
              UNCHANGED validity
       PROVE  StampsArePast'
  BY <1>0, <1>2, <1>3, <1>4, <1>5, <1>6, <1>7, <1>8, <1>9, <1>11, <1>14, AllType, ReposPageType,
     EndType, VmaasSteps, Zenon DEF SyncStep
<1>12. ASSUME Evaluator, UNCHANGED syncVars
       PROVE  StampsArePast'
  <2>1. validity' = validity \/ validity' = kv.exported
    BY <1>12, SkipType, TakeType, CallType, CallFailsType, AddType, StoreType, StoreFailsType,
       EvictType, ResetType, RestartType, Zenon DEF Evaluator
  <2> QED
    BY <1>10, <1>12, <2>1
<1>13. ASSUME UNCHANGED syncVars, UNCHANGED cacheVars
       PROVE  StampsArePast'
  BY <1>10, <1>13, Zenon DEF cacheVars
<1>15. ASSUME NEW delivered \in SUBSET Systems, NEW sameSecond \in SUBSET Systems,
              Requests(delivered, sameSecond)
       PROVE  StampsArePast'
  <2>1. SendMessages(delivered) /\ UNCHANGED validity
    BY <1>15, Zenon DEF Requests
  <2> QED
    BY <1>11, <2>1
<1>16. ASSUME VmaasStep \/ SyncStep, UNCHANGED cacheVars
       PROVE  StampsArePast'
  <2>1. UNCHANGED validity
    BY <1>16, Zenon DEF cacheVars
  <2> QED
    BY <1>11, <1>16, <2>1
<1> QED
  BY <1>12, <1>13, <1>15, <1>16, Steps, Zenon

\* Every step preserves CacheInv.
LEMMA NextCache == CacheInv /\ [Next]_vars => CacheInv'
<1> SUFFICES ASSUME CacheInv, [Next]_vars
             PROVE  CacheInv'
  OBVIOUS
<1>0. /\ TypeInv /\ TypeInv' /\ StampsArePast /\ StampsArePast'
  BY NextType, NextPast DEF CacheInv
<1>1. /\ Times \subseteq Nat /\ NIL \notin Nat /\ exported \in Nat /\ validity \in Nat \cup {NIL}
      /\ cache \in [Checksums -> Times \cup {NIL}] /\ consumer \in [Consumers -> ConsumerType]
  BY <1>0, TimesTyped DEF TypeInv, CacheOK, ConsumersOK
<1> DEFINE Goal == AnswerIsFresh /\ CacheOldOnlyIfOverlapped
<1>2. ASSUME UNCHANGED <<validity, overlapped>>,
             \A i \in Checksums : cache'[i] = cache[i] \/ cache'[i] = NIL,
             \A d \in Consumers : consumer'[d] = consumer[d] \/ consumer'[d].pc # "add"
      PROVE  Goal'
  BY <1>2 DEF CacheInv, AnswerIsFresh, CacheOldOnlyIfOverlapped
<1>3. ASSUME NEW c \in Consumers, CallVMaas(c), UNCHANGED syncVars
      PROVE  Goal'
  <2>1. /\ UNCHANGED <<cache, validity, overlapped>> /\ consumer'[c].answer = exported
        /\ \A d \in Consumers : d # c => consumer'[d] = consumer[d]
    BY <1>0, <1>3, CallType
  <2>2. validity # NIL => exported >= validity
    BY <1>0, <1>1 DEF StampsArePast
  <2> QED
    BY <2>1, <2>2 DEF CacheInv, AnswerIsFresh, CacheOldOnlyIfOverlapped
<1>4. ASSUME NEW c \in Consumers, AddAnswer(c), UNCHANGED syncVars
      PROVE  Goal'
  <2> DEFINE k == Checksum[consumer[c].sys]
             late == consumer[c].reset
  <2>1. /\ consumer[c].pc = "add" /\ UNCHANGED validity
        /\ \A i \in Checksums : cache'[i] = IF i = k THEN consumer[c].answer ELSE cache[i]
        /\ overlapped' = IF late THEN overlapped \cup {k} ELSE overlapped \ {k}
        /\ \A d \in Consumers : consumer'[d] = consumer[d] \/ consumer'[d].pc = "store"
    BY <1>0, <1>4, AddType
  <2>2. AnswerIsFresh'
    BY <2>1 DEF CacheInv, AnswerIsFresh
  <2>3. ~late /\ validity # NIL => consumer[c].answer >= validity
    BY <2>1 DEF CacheInv, AnswerIsFresh
  <2> HIDE DEF k, late
  <2>4. CacheOldOnlyIfOverlapped'
    <3> SUFFICES ASSUME NEW i \in Checksums, i \notin overlapped', cache'[i] # NIL, validity' # NIL
                 PROVE  cache'[i] >= validity'
      BY DEF CacheOldOnlyIfOverlapped
    <3>1. CASE i = k
      <4>1. ~late
        BY <2>1, <3>1
      <4> QED
        BY <2>1, <2>3, <3>1, <4>1
    <3>2. CASE i # k
      <4>1. cache'[i] = cache[i] /\ i \notin overlapped
        BY <2>1, <3>2
      <4> QED
        BY <2>1, <4>1 DEF CacheInv, CacheOldOnlyIfOverlapped
    <3> QED
      BY <3>1, <3>2
  <2> QED
    BY <2>2, <2>4
<1>5. ASSUME CheckValidity \/ Restart, UNCHANGED syncVars
      PROVE  Goal'
  <2>1. /\ \A i \in Checksums : cache'[i] = NIL
        /\ \A d \in Consumers : consumer'[d].pc = "add" => consumer'[d].reset
    BY <1>0, <1>5, ResetType, RestartType
  <2> QED
    BY <2>1 DEF AnswerIsFresh, CacheOldOnlyIfOverlapped
<1>6. ASSUME Evaluator, UNCHANGED syncVars
      PROVE  Goal'
  <2>1. ASSUME NEW c \in Consumers, NEW s \in Systems, TakeMessage(c, s)
        PROVE  Goal'
    BY <1>0, <1>2, <1>6, <2>1, TakeType
  <2>2. ASSUME NEW c \in Consumers, NEW yumUpdates \in BOOLEAN, CallFails(c, yumUpdates)
        PROVE  Goal'
    BY <1>0, <1>2, <1>6, <2>2, CallFailsType, IdleType
  <2>4. ASSUME NEW c \in Consumers, NEW s \in Systems, SkipOld(c, s)
        PROVE  Goal'
    BY <1>0, <1>2, <1>6, <2>4, SkipType
  <2>5. ASSUME NEW c \in Consumers, evaluateAndStore(c)
        PROVE  Goal'
    BY <1>0, <1>2, <1>6, <2>5, StoreType, IdleType
  <2>6. ASSUME NEW c \in Consumers, NEW again \in BOOLEAN, StoreFails(c, again)
        PROVE  Goal'
    BY <1>0, <1>2, <1>6, <2>6, StoreFailsType, IdleType
  <2>3. ASSUME NEW k \in Checksums, Evict(k)
        PROVE  Goal'
    BY <1>0, <1>2, <1>6, <2>3, EvictType
  <2> QED
    BY <1>3, <1>4, <1>5, <1>6, <2>1, <2>2, <2>3, <2>4, <2>5, <2>6, Zenon DEF Evaluator
<1>7. ASSUME UNCHANGED <<cache, validity, consumer, overlapped>>
      PROVE  Goal'
  BY <1>2, <1>7
<1>8. Goal'
  <2>1. (Evaluator /\ UNCHANGED syncVars) \/ UNCHANGED <<cache, validity, consumer, overlapped>>
    BY Steps, Zenon DEF cacheVars, answerVars, Requests
  <2> QED
    BY <1>6, <1>7, <2>1, Zenon
<1> QED
  BY <1>0, <1>8 DEF CacheInv

\* A cached answer is older than the timestamp the cache was reset with only if its call to
\* VMaaS overlapped the reset, however the job, CheckValidity and the consumers interleave.
THEOREM CacheOldHolds == Spec => []CacheOldOnlyIfOverlapped
<1>1. Init => CacheInv
  <2> SUFFICES ASSUME Init
               PROVE  CacheInv
    OBVIOUS
  <2>1. /\ kv.exported = NIL /\ validity = NIL /\ job.pc = "idle"
        /\ \A k \in Checksums : cache[k] = NIL /\ \A c \in Consumers : consumer[c].pc = "ready"
    BY IdleType DEF Init, SyncInit
  <2> QED
    BY <2>1, InitType DEF CacheInv, StampsArePast, AnswerIsFresh, CacheOldOnlyIfOverlapped
<1>2. CacheInv => CacheOldOnlyIfOverlapped
  BY DEF CacheInv
<1> QED
  BY <1>1, <1>2, NextCache, PTL DEF Spec

-----------------------------------------------------------------------------
(* The database up to vmaas_exported *)

\* The rank of a member of a listing, and how it moves when the listing grows.
LEMMA RankGrows ==
  ASSUME NEW M, M \in SUBSET Advisories \/ M \in SUBSET Labels, NEW L \in SUBSET M, NEW x \in L
  PROVE  /\ Rank(x, L) \in Nat \ {0} /\ Rank(x, M) \in Nat
         /\ Rank(x, L) <= Rank(x, M) /\ Rank(x, L) <= Cardinality(L) /\ Cardinality(L) \in Nat
<1> DEFINE B == {y \in L : y <= x}
           C == {y \in M : y <= x}
<1>1. IsFiniteSet(M) /\ IsFiniteSet(L)
  BY FS_Subset, SyncAssumption
<1>2. C \subseteq M /\ B \subseteq C /\ B \subseteq L /\ x \in B
  <2>1. x \in Nat
    BY SyncAssumption
  <2>2. x <= x
    BY <2>1
  <2> QED
    BY <2>2
<1> HIDE DEF B, C
<1>3. IsFiniteSet(C) /\ IsFiniteSet(B) /\ Cardinality(B) <= Cardinality(C)
      /\ Cardinality(B) <= Cardinality(L)
  BY <1>1, <1>2, FS_Subset
<1>4. Cardinality(B) \in Nat /\ Cardinality(C) \in Nat /\ Cardinality(L) \in Nat
  BY <1>1, <1>3, FS_CardinalityType
<1>5. Cardinality(B) # 0
  BY <1>2, <1>3, FS_EmptySet
<1>6. Rank(x, L) = Cardinality(B) /\ Rank(x, M) = Cardinality(C)
  BY DEF Rank, B, C
<1> QED
  BY <1>3, <1>4, <1>5, <1>6

\* What page n adds to the pages before it, and where the last one ends.
LEMMA PageCovers ==
  ASSUME NEW L, L \in SUBSET Advisories \/ L \in SUBSET Labels, NEW n \in Nat, NEW x \in L
  PROVE  /\ Rank(x, L) <= n * AdvisoryPageSize /\ x \notin PageOf(L, n)
              => Rank(x, L) <= (n - 1) * AdvisoryPageSize
         /\ ~(n + 1 <= PageCount(L)) => Rank(x, L) <= n * AdvisoryPageSize
<1> DEFINE K == AdvisoryPageSize
           r == Rank(x, L)
<1>1. K \in Nat \ {0}
  BY SyncAssumption
<1>2. r \in Nat \ {0} /\ r <= Cardinality(L) /\ Cardinality(L) \in Nat
  BY RankGrows
<1> HIDE DEF r
<1>3. ASSUME r <= n * K, x \notin PageOf(L, n)
      PROVE  r <= (n - 1) * K
  <2>1. n # 0
    BY <1>1, <1>2, <1>3
  <2>2. PageOf(L, n) = {y \in L : Rank(y, L) \in (n - 1) * K + 1 .. n * K}
    BY <2>1 DEF PageOf
  <2>3. r \notin (n - 1) * K + 1 .. n * K
    BY <1>3, <2>2 DEF r
  <2>4. (n - 1) * K \in Int /\ n * K \in Int
    BY <1>1
  <2> QED
    BY <1>2, <1>3, <2>3, <2>4
<1>4. ASSUME ~(n + 1 <= PageCount(L))
      PROVE  r <= n * K
  <2>1. PageCount(L) \in Nat /\ PageCount(L) * K >= Cardinality(L)
    BY <1>1, <1>2, DivUp DEF PageCount
  <2>2. PageCount(L) <= n
    BY <1>4, <2>1
  <2>3. \A i, j, k \in Nat : i <= j => i * k <= j * k /\ i * k \in Nat /\ j * k \in Nat
    OBVIOUS
  <2>4. PageCount(L) * K <= n * K /\ PageCount(L) * K \in Nat /\ n * K \in Nat
    BY <1>1, <2>1, <2>2, <2>3
  <2> QED
    BY <1>2, <2>1, <2>4
<1> QED
  BY <1>3, <1>4 DEF r

\* The two halves of SyncedUpToExported.
AdvisoriesUpTo(t) ==
  \A a \in Advisories \ skipped : erratum[a] > t \/ metadata[a] = erratum[a]
ReposUpTo(t) ==
  \A l \in Labels \ ThirdPartyLabels : UpdatedUntil(l, t) => ~thirdParty[l]

\* They make it up.
LEMMA SyncedIs ==
  /\ SyncedUpToExported <=>
       (kv.exported # NIL => AdvisoriesUpTo(kv.exported) /\ ReposUpTo(kv.exported))
  /\ \A t : kv'.exported = t =>
       (SyncedUpToExported' <=> (t # NIL => AdvisoriesUpTo(t)' /\ ReposUpTo(t)'))
BY DEF SyncedUpToExported, AdvisoriesUpTo, ReposUpTo, UpdatedUntil

\* A step that leaves the data alone, and the job unless it ends its synchronization.
LEMMA DataKept ==
  ASSUME Synchronized, UNCHANGED <<erratum, updated, metadata, thirdParty, skipped>>,
         kv'.exported = kv.exported,
         job' = job \/ job'.pc \notin {"errata", "repos", "mark", "stamps"}
  PROVE  Synchronized'
<1>1. RowIsPublished' /\ SinceIsStored'
  BY DEF Synchronized, RowIsPublished, SinceIsStored
<1>2. SyncedUpToExported'
  BY DEF Synchronized, SyncedUpToExported
<1>3. CASE job' = job
  <2>1. Listing' = Listing
    BY <1>3 DEF Listing, ErrataSince
  <2>2. PagesStored' /\ AllStored'
    BY <1>3, <2>1 DEF Synchronized, PagesStored, AllStored, IsStored
  <2>3. ReposMarked'
    BY <1>3 DEF Synchronized, ReposMarked, UpdatedUntil
  <2>4. RedHat' = RedHat
    BY DEF RedHat, ReposSince, ContentSet, UpdatedPackageNames
  <2>5. ReposListed'
    BY <1>3, <2>4 DEF Synchronized, ReposListed, ListedUntil, UpdatedUntil
  <2> QED
    BY <1>1, <1>2, <2>2, <2>3, <2>5 DEF Synchronized
<1>4. CASE job'.pc \notin {"errata", "repos", "mark", "stamps"}
  BY <1>1, <1>2, <1>4 DEF Synchronized, PagesStored, AllStored, ReposListed, ReposMarked
<1> QED
  BY <1>3, <1>4

\* An export moves advisories to later pages, and changes nothing that is older than it.
LEMMA ExportSynced ==
  ASSUME SyncedInv, NEW A \in SUBSET Advisories, NEW R \in SUBSET RepoPackages, Export(A, R)
  PROVE  Synchronized'
<1>0. TypeInv /\ SyncOK /\ StampsArePast /\ Synchronized
  BY DEF SyncedInv, TypeInv
<1>1. /\ exported' = exported + 1
      /\ \A a \in Advisories : erratum'[a] = IF a \in A THEN exported' ELSE erratum[a]
      /\ \A l \in Labels : \A v \in Variants[l] : \A p \in Packages :
           updated'[l][v][p] \in {exported', updated[l][v][p]}
      /\ UNCHANGED <<kv, metadata, thirdParty, job, skipped>>
  <2>1. exported' = exported + 1 /\ UNCHANGED <<kv, metadata, thirdParty, job, skipped>>
    BY <1>0, ExportType
  <2>2. \A a \in Advisories : erratum'[a] = IF a \in A THEN exported' ELSE erratum[a]
    BY <1>0, ExportType
  <2>3. UpdatedBy(R)
    BY <1>0, ExportType, Zenon
  <2>4. \A l \in Labels : \A v \in Variants[l] : \A p \in Packages :
          updated'[l][v][p] \in {exported', updated[l][v][p]}
    BY <2>3 DEF UpdatedBy
  <2> QED
    BY <2>1, <2>2, <2>4, Zenon
<1>2. /\ exported \in Nat /\ kv.exported \in Nat \cup {NIL} /\ job.exported \in Nat \cup {NIL}
      /\ job.since \in Nat \cup {NIL} /\ NIL \notin Nat /\ job.page \in Nat
      /\ \A a \in Advisories : erratum[a] \in Nat /\ metadata[a] \in Nat
      /\ \A l \in Labels : \A v \in Variants[l] : \A p \in Packages : updated[l][v][p] \in Nat
  BY <1>0, TimesTyped
<1>3. \A t \in Nat : t <= exported =>
        /\ \A a \in Advisories : erratum'[a] <= t => erratum'[a] = erratum[a]
        /\ \A l \in Labels : UpdatedUntil(l, t)' => UpdatedUntil(l, t)
  <2> SUFFICES ASSUME NEW t \in Nat, t <= exported
               PROVE  /\ \A a \in Advisories : erratum'[a] <= t => erratum'[a] = erratum[a]
                      /\ \A l \in Labels : UpdatedUntil(l, t)' => UpdatedUntil(l, t)
    OBVIOUS
  <2>1. ~(exported' <= t) /\ exported' \notin 1 .. t
    BY <1>1, <1>2
  <2>2. \A a \in Advisories : erratum'[a] <= t => erratum'[a] = erratum[a]
    BY <1>1, <2>1
  <2>3. ASSUME NEW l \in Labels, UpdatedUntil(l, t)'
        PROVE  UpdatedUntil(l, t)
    <3>1. PICK v \in Variants[l], p \in Packages : updated'[l][v][p] \in 1 .. t
      BY <2>3 DEF UpdatedUntil
    <3>2. updated'[l][v][p] \in {exported', updated[l][v][p]}
      BY <1>1
    <3>3. updated[l][v][p] \in 1 .. t
      BY <2>1, <3>1, <3>2
    <3> QED
      BY <3>3 DEF UpdatedUntil
  <2> QED
    BY <2>2, <2>3
<1>4. RowIsPublished'
  BY <1>0, <1>1, <1>2 DEF Synchronized, RowIsPublished
<1>5. SinceIsStored'
  BY <1>0, <1>1 DEF Synchronized, SinceIsStored
<1>6. SyncedUpToExported'
  <2> DEFINE t == kv.exported
  <2> SUFFICES ASSUME t # NIL
               PROVE  AdvisoriesUpTo(t)' /\ ReposUpTo(t)'
    BY <1>1, SyncedIs
  <2>1. t \in Nat /\ t <= exported
    BY <1>0, <1>2 DEF StampsArePast
  <2>2. AdvisoriesUpTo(t) /\ ReposUpTo(t)
    BY <1>0, SyncedIs DEF Synchronized
  <2>3. \A a \in Advisories : erratum'[a] \in Nat
    BY <1>1, <1>2
  <2>4. AdvisoriesUpTo(t)'
    BY <1>1, <1>3, <2>1, <2>2, <2>3 DEF AdvisoriesUpTo
  <2>5. ReposUpTo(t)'
    BY <1>1, <1>3, <2>1, <2>2 DEF ReposUpTo
  <2> QED
    BY <2>4, <2>5
<1>7. ASSUME job.pc \in {"errata", "repos", "mark", "stamps"}, job.exported # NIL
      PROVE  job.exported \in Nat /\ job.exported <= exported
  BY <1>0, <1>2, <1>7 DEF StampsArePast
<1>8. Listing' \subseteq Advisories
  BY DEF Listing, ErrataSince
<1>13. ASSUME job.pc \in {"errata", "repos", "mark", "stamps"}
       PROVE  Listing \subseteq Listing'
  <2>1. job.since # NIL => job.since \in Nat /\ job.since <= exported
    BY <1>0, <1>2, <1>13 DEF Synchronized, SinceIsStored, StampsArePast
  <2>2. \A a \in Advisories : After(erratum[a], job.since) => After(erratum'[a], job.since)
    BY <1>1, <1>2, <2>1 DEF After
  <2> QED
    BY <1>1, <2>2 DEF Listing, ErrataSince
<1>9. ASSUME NEW a \in Listing', job.pc \in {"errata", "repos", "mark", "stamps"}, job.exported # NIL,
             erratum'[a] <= job.exported
      PROVE  a \in Listing /\ erratum'[a] = erratum[a]
  <2>1. erratum'[a] = erratum[a]
    BY <1>3, <1>7, <1>8, <1>9
  <2> QED
    BY <1>1, <1>8, <2>1 DEF Listing, ErrataSince
<1>10. PagesStored'
  <2> SUFFICES ASSUME job.pc = "errata", job.exported # NIL, NEW a \in Listing', a \notin skipped,
                      Rank(a, Listing') <= (job.page - 1) * AdvisoryPageSize,
                      erratum'[a] <= job.exported
               PROVE  metadata[a] = erratum'[a]
    BY <1>1 DEF PagesStored, IsStored
  <2>1. a \in Listing /\ erratum'[a] = erratum[a]
    BY <1>9
  <2>2. Rank(a, Listing) \in Nat /\ Rank(a, Listing') \in Nat /\ Rank(a, Listing) <= Rank(a, Listing')
    BY <1>8, <1>13, <2>1, RankGrows
  <2>3. (job.page - 1) * AdvisoryPageSize \in Int
    BY <1>2, SyncAssumption
  <2>4. Rank(a, Listing) <= (job.page - 1) * AdvisoryPageSize
    BY <2>2, <2>3
  <2> QED
    BY <1>0, <2>1, <2>4 DEF Synchronized, PagesStored, IsStored
<1>11. AllStored'
  <2> SUFFICES ASSUME job.pc \in {"repos", "mark", "stamps"}, job.exported # NIL, NEW a \in Listing',
                      a \notin skipped, erratum'[a] <= job.exported
               PROVE  metadata[a] = erratum'[a]
    BY <1>1 DEF AllStored, IsStored
  <2>1. a \in Listing /\ erratum'[a] = erratum[a]
    BY <1>9
  <2> QED
    BY <1>0, <2>1 DEF Synchronized, AllStored, IsStored
<1>12. ReposMarked'
  BY <1>0, <1>1, <1>3, <1>7 DEF Synchronized, ReposMarked
<1>14. RedHat \subseteq RedHat' /\ RedHat' \subseteq Labels
  <2>1. \A l \in Labels : \A v \in Variants[l] : \A p \in Packages :
          After(updated[l][v][p], NIL) => After(updated'[l][v][p], NIL)
    BY <1>1, <1>2 DEF After
  <2> QED
    BY <2>1 DEF RedHat, ReposSince, ContentSet, UpdatedPackageNames
<1>15. ReposListed'
  <2> SUFFICES ASSUME job.pc \in {"repos", "mark"}, NEW t \in {kv.exported, job.exported} \ {NIL},
                      NEW l \in RedHat', UpdatedUntil(l, t)', l \notin job.repos
               PROVE  job.pc = "repos" /\ Rank(l, RedHat') > (job.page - 1) * AdvisoryPageSize
    BY <1>1 DEF ReposListed, ListedUntil
  <2>1. t \in Nat /\ t <= exported
    BY <1>0, <1>2, <1>7 DEF StampsArePast
  <2>2. UpdatedUntil(l, t)
    BY <1>3, <1>14, <2>1
  <2>3. l \in RedHat
    <3>1. PICK v \in Variants[l], p \in Packages : updated[l][v][p] \in 1 .. t
      BY <2>2 DEF UpdatedUntil
    <3>2. l \in Labels /\ l \notin ThirdPartyLabels
      BY DEF RedHat, ReposSince
    <3>3. updated[l][v][p] > 0
      BY <2>1, <3>1
    <3> QED
      BY <3>1, <3>2, <3>3 DEF RedHat, ReposSince, ContentSet, UpdatedPackageNames, After
  <2>4. job.pc = "repos" /\ Rank(l, RedHat) > (job.page - 1) * AdvisoryPageSize
    BY <1>0, <2>2, <2>3 DEF Synchronized, ReposListed, ListedUntil
  <2>5. Rank(l, RedHat) \in Nat /\ Rank(l, RedHat') \in Nat /\ Rank(l, RedHat) <= Rank(l, RedHat')
    BY <1>14, <2>3, RankGrows
  <2>6. (job.page - 1) * AdvisoryPageSize \in Int
    BY <1>2, SyncAssumption
  <2> QED
    BY <2>4, <2>5, <2>6
<1> QED
  BY <1>4, <1>5, <1>6, <1>10, <1>11, <1>12, <1>15 DEF Synchronized

\* The next page is stored.
LEMMA PageSynced ==
  ASSUME SyncedInv, NEW bad \in SUBSET Advisories, NEW failed \in SUBSET Advisories,
         syncAdvisories(bad, failed)
  PROVE  Synchronized'
<1> DEFINE page == PageOf(Listing, job.page)
<1>0. TypeInv /\ SyncOK /\ Synchronized
  BY DEF SyncedInv, TypeInv
<1>1. /\ job.pc = "errata" /\ job'.since = job.since /\ job'.exported = job.exported
      /\ job.page + 1 <= PageCount(Listing) => job'.pc = "errata" /\ job'.page = job.page + 1
      /\ ~(job.page + 1 <= PageCount(Listing)) => job'.pc = "repos" /\ job'.page = 1
      /\ \A a \in Advisories :
           metadata'[a] = IF a \in page \ (bad \cup failed) THEN erratum[a] ELSE metadata[a]
      /\ skipped' = (skipped \ page) \cup bad \cup failed
      /\ UNCHANGED <<erratum, updated, kv, thirdParty>>
  BY <1>0, PageType DEF Listing
<1>2. Listing \subseteq Advisories /\ page \subseteq Listing /\ job.page \in Nat
  BY <1>0, TimesTyped DEF Listing, ErrataSince, PageOf
<1>3. Listing' = Listing
  BY <1>1 DEF Listing, ErrataSince
<1>4. \A a \in Advisories \ skipped' :
        metadata'[a] = erratum[a] \/ (a \notin page /\ a \notin skipped /\ metadata'[a] = metadata[a])
  BY <1>1
<1>5. RowIsPublished' /\ SinceIsStored'
  BY <1>0, <1>1 DEF Synchronized, RowIsPublished, SinceIsStored
<1>6. SyncedUpToExported'
  <2> DEFINE t == kv.exported
  <2> SUFFICES ASSUME t # NIL
               PROVE  AdvisoriesUpTo(t)' /\ ReposUpTo(t)'
    BY <1>1, SyncedIs
  <2>1. AdvisoriesUpTo(t) /\ ReposUpTo(t)
    BY <1>0, SyncedIs DEF Synchronized
  <2>2. AdvisoriesUpTo(t)'
    BY <1>1, <1>4, <2>1 DEF AdvisoriesUpTo
  <2>3. ReposUpTo(t)'
    BY <1>1, <2>1 DEF ReposUpTo, UpdatedUntil
  <2> QED
    BY <2>2, <2>3
<1> HIDE DEF page
<1>7. ASSUME NEW a \in Listing, a \notin skipped', job.exported # NIL, erratum[a] <= job.exported,
             Rank(a, Listing) <= job.page * AdvisoryPageSize
      PROVE  metadata'[a] = erratum[a]
  <2>1. CASE a \notin page /\ a \notin skipped /\ metadata'[a] = metadata[a]
    <3>1. Rank(a, Listing) <= (job.page - 1) * AdvisoryPageSize
      BY <1>2, <1>7, <2>1, PageCovers DEF page
    <3>2. metadata[a] = erratum[a]
      BY <1>0, <1>1, <1>7, <2>1, <3>1 DEF Synchronized, PagesStored, IsStored
    <3> QED
      BY <2>1, <3>2
  <2> QED
    BY <1>2, <1>4, <1>7, <2>1
<1>8. PagesStored'
  <2> SUFFICES ASSUME job'.pc = "errata", job.exported # NIL, NEW a \in Listing, a \notin skipped',
                      Rank(a, Listing) <= (job'.page - 1) * AdvisoryPageSize,
                      erratum[a] <= job.exported
               PROVE  metadata'[a] = erratum[a]
    BY <1>1, <1>3 DEF PagesStored, IsStored
  <2>1. job'.page - 1 = job.page
    BY <1>1, <1>2
  <2> QED
    BY <1>7, <2>1
<1>9. AllStored'
  <2> SUFFICES ASSUME job'.pc \in {"repos", "mark", "stamps"}, job.exported # NIL, NEW a \in Listing,
                      a \notin skipped', erratum[a] <= job.exported
               PROVE  metadata'[a] = erratum[a]
    BY <1>1, <1>3 DEF AllStored, IsStored
  <2>1. ~(job.page + 1 <= PageCount(Listing))
    BY <1>1
  <2>2. Rank(a, Listing) <= job.page * AdvisoryPageSize
    BY <1>2, <2>1, PageCovers
  <2> QED
    BY <1>7, <2>2
<1>10. ReposMarked'
  BY <1>1 DEF ReposMarked
<1>11. ReposListed'
  <2> SUFFICES ASSUME job'.pc \in {"repos", "mark"}, NEW l \in RedHat'
               PROVE  job'.pc = "repos" /\ Rank(l, RedHat') > (job'.page - 1) * AdvisoryPageSize
    BY DEF ReposListed, ListedUntil
  <2>1. job'.pc = "repos" /\ job'.page = 1
    BY <1>1
  <2>2. RedHat' \in SUBSET Labels
    BY DEF RedHat, ReposSince
  <2>3. Rank(l, RedHat') \in Nat \ {0}
    BY <2>2, RankGrows
  <2>4. (job'.page - 1) * AdvisoryPageSize = 0
    BY <2>1, SyncAssumption
  <2> QED
    BY <2>1, <2>3, <2>4
<1> QED
  BY <1>5, <1>6, <1>8, <1>9, <1>10, <1>11 DEF Synchronized

\* The next page of repos is listed.
LEMMA ReposListSynced ==
  ASSUME SyncedInv, getUpdatedRepos
  PROVE  Synchronized'
<1>0. TypeInv /\ SyncOK /\ Synchronized
  BY DEF SyncedInv, TypeInv
<1>1. /\ job.pc = "repos" /\ job'.since = job.since /\ job'.exported = job.exported
      /\ job'.repos = job.repos \cup PageOf(RedHat, job.page)
      /\ \/ job'.pc = "mark" /\ (RedHat = {} \/ job.page = PageCount(RedHat))
         \/ job'.pc = "repos" /\ job'.page = job.page + 1
      /\ UNCHANGED <<erratum, updated, kv, metadata, thirdParty, skipped>>
  BY <1>0, ReposListType
<1>2. RedHat' = RedHat /\ RedHat \in SUBSET Labels /\ Listing' = Listing
  BY <1>1 DEF RedHat, ReposSince, ContentSet, UpdatedPackageNames, Listing, ErrataSince
<1>3. job.page \in Nat /\ AdvisoryPageSize \in Nat
  BY <1>0, TimesTyped, SyncAssumption
<1>4. RowIsPublished' /\ SinceIsStored' /\ SyncedUpToExported'
  BY <1>0, <1>1 DEF Synchronized, RowIsPublished, SinceIsStored, SyncedUpToExported
<1>5. PagesStored' /\ AllStored' /\ ReposMarked'
  BY <1>0, <1>1, <1>2 DEF Synchronized, PagesStored, AllStored, IsStored, ReposMarked
<1>6. ReposListed'
  <2> SUFFICES ASSUME NEW t \in {kv.exported, job.exported} \ {NIL}, NEW l \in RedHat,
                      UpdatedUntil(l, t), l \notin job'.repos
               PROVE  job'.pc = "repos" /\ Rank(l, RedHat) > (job'.page - 1) * AdvisoryPageSize
    BY <1>1, <1>2 DEF ReposListed, ListedUntil, UpdatedUntil
  <2> DEFINE n == job.page
             K == AdvisoryPageSize
             r == Rank(l, RedHat)
  <2>1. l \notin job.repos /\ l \notin PageOf(RedHat, n)
    BY <1>1
  <2>2. r > (n - 1) * K
    BY <1>0, <1>1, <2>1 DEF Synchronized, ReposListed, ListedUntil
  <2>3. r \in Nat /\ (n - 1) * K \in Int /\ n * K \in Int
    BY <1>2, <1>3, RankGrows
  <2>4. r <= n * K => r <= (n - 1) * K
    BY <1>2, <1>3, <2>1, PageCovers
  <2>5. ~(n + 1 <= PageCount(RedHat)) => r <= n * K
    BY <1>2, <1>3, PageCovers
  <2>6. r > n * K
    BY <2>2, <2>3, <2>4
  <2>7. n + 1 <= PageCount(RedHat)
    BY <2>3, <2>5, <2>6
  <2>8. n # PageCount(RedHat)
    BY <1>3, <2>7
  <2>9. job'.pc = "repos" /\ job'.page - 1 = n
    BY <1>1, <1>3, <2>8
  <2> QED
    BY <2>6, <2>9
<1> QED
  BY <1>4, <1>5, <1>6 DEF Synchronized

\* Every step preserves SyncedInv.
LEMMA NextSynced == SyncedInv /\ [Next]_vars => SyncedInv'
<1> SUFFICES ASSUME SyncedInv, [Next]_vars
             PROVE  SyncedInv'
  OBVIOUS
<1>0. TypeInv /\ TypeInv' /\ SyncOK /\ StampsArePast /\ StampsArePast' /\ Synchronized
  BY NextType, NextPast DEF SyncedInv, TypeInv
<1>1. /\ kv.exported \in Nat \cup {NIL} /\ job.exported \in Nat \cup {NIL} /\ job.page \in Nat
      /\ job.since \in Nat \cup {NIL} /\ NIL \notin Nat
      /\ \A a \in Advisories : erratum[a] \in Nat /\ metadata[a] \in Nat
      /\ \A l \in Labels : \A v \in Variants[l] : \A p \in Packages : updated[l][v][p] \in Nat
  BY <1>0, TimesTyped
<1>2. ASSUME CadencePasses
      PROVE  Synchronized'
  BY <1>0, <1>2, CadenceType, DataKept
<1>3. ASSUME NEW e \in VmaasDBExported, runSync(e)
      PROVE  Synchronized'
  <2>1. /\ job'.pc = "errata" /\ job'.page = 0 /\ job'.since \in {kv.exported, NIL}
        /\ UNCHANGED <<erratum, updated, kv, metadata, thirdParty, skipped>>
    BY <1>0, <1>3, RunType
  <2>2. RowIsPublished' /\ SyncedUpToExported'
    BY <1>0, <2>1 DEF Synchronized, RowIsPublished, SyncedUpToExported
  <2>3. SinceIsStored' /\ AllStored' /\ ReposListed' /\ ReposMarked'
    BY <2>1 DEF SinceIsStored, AllStored, ReposListed, ReposMarked
  <2>4. PagesStored'
    <3> SUFFICES ASSUME NEW a \in Listing', Rank(a, Listing') <= (job'.page - 1) * AdvisoryPageSize
                 PROVE  FALSE
      BY DEF PagesStored
    <3>1. Listing' \subseteq Advisories
      BY DEF Listing, ErrataSince
    <3>2. Rank(a, Listing') \in Nat \ {0}
      BY <3>1, RankGrows
    <3>3. AdvisoryPageSize \in Nat
      BY SyncAssumption
    <3>4. (job'.page - 1) * AdvisoryPageSize = -AdvisoryPageSize
      BY <2>1, <3>3
    <3> QED
      BY <3>2, <3>3, <3>4
  <2> QED
    BY <2>2, <2>3, <2>4 DEF Synchronized
<1>4. ASSUME NEW done \in SUBSET Advisories, ErrataPageFails(done)
      PROVE  Synchronized'
  <2>1. /\ \A a \in Advisories : metadata'[a] = IF a \in done THEN erratum[a] ELSE metadata[a]
        /\ skipped' = skipped \ done /\ job' = Idle
        /\ UNCHANGED <<erratum, updated, kv, thirdParty>>
    BY <1>0, <1>4, PageFailsType
  <2>2. RowIsPublished'
    BY <1>0, <2>1 DEF Synchronized, RowIsPublished
  <2>3. SinceIsStored' /\ PagesStored' /\ AllStored' /\ ReposListed' /\ ReposMarked'
    BY <2>1, IdleType DEF SinceIsStored, PagesStored, AllStored, ReposListed, ReposMarked
  <2>4. SyncedUpToExported'
    <3> DEFINE t == kv.exported
    <3> SUFFICES ASSUME t # NIL
                 PROVE  AdvisoriesUpTo(t)' /\ ReposUpTo(t)'
      BY <2>1, SyncedIs
    <3>1. AdvisoriesUpTo(t) /\ ReposUpTo(t)
      BY <1>0, SyncedIs DEF Synchronized
    <3>2. AdvisoriesUpTo(t)'
      BY <2>1, <3>1 DEF AdvisoriesUpTo
    <3>3. ReposUpTo(t)'
      BY <2>1, <3>1 DEF ReposUpTo, UpdatedUntil
    <3> QED
      BY <3>2, <3>3
  <2> QED
    BY <2>2, <2>3, <2>4 DEF Synchronized
<1>5. ASSUME NEW both \in BOOLEAN, syncRepos(both)
      PROVE  Synchronized'
  <2>1. /\ job.pc = "mark" /\ job'.pc \in {"stamps", "idle"}
        /\ \A l \in Labels : l \in job.repos => ~thirdParty'[l]
        /\ job'.pc = "stamps" => job'.since = job.since /\ job'.exported = job.exported
        /\ UNCHANGED <<erratum, updated, kv, metadata, skipped>>
    BY <1>0, <1>5, ReposType
  <2>2. ASSUME NEW t \in {kv.exported, job.exported} \ {NIL}, NEW l \in Labels \ ThirdPartyLabels,
               UpdatedUntil(l, t)
        PROVE  ~thirdParty'[l]
    <3>1. PICK v \in Variants[l], p \in Packages : updated[l][v][p] \in 1 .. t
      BY <2>2 DEF UpdatedUntil
    <3>2. updated[l][v][p] > 0
      BY <1>1, <3>1
    <3>3. p \in UpdatedPackageNames(l, v, NIL)
      BY <3>2 DEF UpdatedPackageNames, After
    <3>4. l \in RedHat
      BY <3>3 DEF RedHat, ReposSince, ContentSet
    <3>5. l \in job.repos
      BY <1>0, <2>1, <2>2, <3>4 DEF Synchronized, ReposListed, ListedUntil
    <3> QED
      BY <2>1, <3>5
  <2>3. RowIsPublished' /\ SinceIsStored' /\ PagesStored'
    BY <1>0, <2>1 DEF Synchronized, RowIsPublished, SinceIsStored, PagesStored
  <2>4. AllStored'
    <3>1. CASE job'.pc = "stamps"
      <4>1. Listing' = Listing
        BY <2>1, <3>1 DEF Listing, ErrataSince
      <4> QED
        BY <1>0, <2>1, <3>1, <4>1 DEF Synchronized, AllStored, IsStored
    <3>2. CASE job'.pc = "idle"
      BY <3>2 DEF AllStored
    <3> QED
      BY <2>1, <3>1, <3>2
  <2>5. /\ \A l, t : UpdatedUntil(l, t)' <=> UpdatedUntil(l, t)
        /\ ReposListed'
    BY <2>1 DEF UpdatedUntil, ReposListed
  <2>6. ReposMarked'
    <3> SUFFICES ASSUME job'.pc = "stamps", job'.exported # NIL, NEW l \in Labels \ ThirdPartyLabels,
                        UpdatedUntil(l, job.exported)
                 PROVE  ~thirdParty'[l]
      BY <2>1, <2>5 DEF ReposMarked, UpdatedUntil
    <3>1. job.exported \in {kv.exported, job.exported} \ {NIL}
      BY <2>1
    <3> QED
      BY <2>2, <3>1
  <2>7. SyncedUpToExported'
    <3> DEFINE t == kv.exported
    <3> SUFFICES ASSUME t # NIL
                 PROVE  AdvisoriesUpTo(t)' /\ ReposUpTo(t)'
      BY <2>1, SyncedIs
    <3>1. AdvisoriesUpTo(t) /\ t \in {kv.exported, job.exported} \ {NIL}
      BY <1>0, SyncedIs DEF Synchronized
    <3>2. AdvisoriesUpTo(t)'
      BY <2>1, <3>1 DEF AdvisoriesUpTo
    <3>3. ReposUpTo(t)'
      <4> HIDE DEF t
      <4> QED
        BY <2>1, <2>2, <2>5, <3>1 DEF ReposUpTo, t
    <3> QED
      BY <3>2, <3>3
  <2> QED
    BY <2>3, <2>4, <2>5, <2>6, <2>7 DEF Synchronized
<1>6. ASSUME storeTimestamps
      PROVE  Synchronized'
  <2>1. /\ job.pc = "stamps" /\ job'.pc \in {"recalc", "idle"}
        /\ kv'.exported = IF job.exported # NIL THEN job.exported ELSE kv.exported
        /\ UNCHANGED <<erratum, updated, metadata, thirdParty, skipped>>
    BY <1>0, <1>6, StampsType
  <2>2. CASE job.exported = NIL
    BY <1>0, <2>1, <2>2, DataKept
  <2>3. CASE job.exported # NIL
    <3> PICK t \in Nat : t = job.exported
      BY <1>1, <2>3
    <3>1. AdvisoriesUpTo(t)
      <4> SUFFICES ASSUME NEW a \in Advisories \ skipped, ~(erratum[a] > t)
                   PROVE  metadata[a] = erratum[a]
        BY DEF AdvisoriesUpTo
      <4>1. erratum[a] <= job.exported
        BY <1>1
      <4>2. CASE erratum[a] = 0
        BY <1>0, <4>2 DEF Synchronized, RowIsPublished
      <4>3. CASE erratum[a] # 0 /\ a \in Listing
        BY <1>0, <2>1, <2>3, <4>1, <4>3 DEF Synchronized, AllStored, IsStored
      <4>4. CASE erratum[a] # 0 /\ a \notin Listing
        <5>1. job.since # NIL /\ ~(erratum[a] > job.since)
          BY <1>1, <4>4 DEF Listing, ErrataSince, After
        <5>2. job.since = kv.exported
          BY <1>0, <2>1, <5>1 DEF Synchronized, SinceIsStored
        <5>3. kv.exported # NIL /\ ~(erratum[a] > kv.exported)
          BY <5>1, <5>2
        <5> QED
          BY <1>0, <5>3 DEF Synchronized, SyncedUpToExported
      <4> QED
        BY <4>2, <4>3, <4>4
    <3>2. ReposUpTo(t)
      BY <1>0, <2>1, <2>3 DEF Synchronized, ReposMarked, ReposUpTo
    <3>3. AdvisoriesUpTo(t)' /\ ReposUpTo(t)'
      BY <2>1, <3>1, <3>2 DEF AdvisoriesUpTo, ReposUpTo, UpdatedUntil
    <3>4. SyncedUpToExported'
      BY <2>1, <2>3, <3>3, SyncedIs
    <3>5. RowIsPublished'
      BY <1>0, <2>1 DEF Synchronized, RowIsPublished
    <3>6. SinceIsStored' /\ PagesStored' /\ AllStored' /\ ReposListed' /\ ReposMarked'
      BY <2>1 DEF SinceIsStored, PagesStored, AllStored, ReposListed, ReposMarked
    <3> QED
      BY <3>4, <3>5, <3>6 DEF Synchronized
  <2> QED
    BY <2>2, <2>3
<1>7. ASSUME Recalculated
      PROVE  Synchronized'
  <2>1. /\ job'.pc \in {"idle", "recalc", "send"} /\ kv'.exported = kv.exported
        /\ UNCHANGED <<erratum, updated, metadata, thirdParty, skipped>>
    BY <1>7 DEF Recalculated
  <2> QED
    BY <1>0, <2>1, DataKept
<1>8. ASSUME UNCHANGED syncVars
      PROVE  Synchronized'
  <2>1. UNCHANGED <<erratum, updated, metadata, thirdParty, skipped, kv, job>>
    BY <1>8, Zenon DEF syncVars
  <2> QED
    BY <1>0, <2>1, DataKept
<1>9. ASSUME VmaasStep \/ SyncStep \/ \E delivered \in SUBSET Systems : SendMessages(delivered)
      PROVE  Synchronized'
  BY <1>0, <1>2, <1>3, <1>4, <1>5, <1>6, <1>7, <1>9, ExportSynced, PageSynced, ReposListSynced,
     AllType, ReposPageType, EndType, VmaasSteps, Zenon DEF SyncStep
<1>11. ASSUME NEW delivered \in SUBSET Systems, NEW sameSecond \in SUBSET Systems,
              Requests(delivered, sameSecond)
       PROVE  Synchronized'
  BY <1>9, <1>11, Zenon DEF Requests
<1>10. Synchronized'
  BY <1>8, <1>9, <1>11, Steps, Zenon
<1> QED
  BY <1>0, <1>10 DEF SyncedInv

\* What VMaaS had exported at the stored vmaas_exported is in the database: for any page
\* size and any listings, with exports between any two pages, with failed and repeated jobs.
THEOREM SyncedHolds == Spec => []SyncedUpToExported
<1>1. Init => SyncedInv
  <2> SUFFICES ASSUME Init
               PROVE  SyncedInv
    OBVIOUS
  <2>1. /\ kv.exported = NIL /\ validity = NIL /\ job.pc = "idle"
        /\ \A a \in Advisories : metadata[a] = 0
    BY IdleType DEF Init, SyncInit
  <2>2. StampsArePast /\ RowIsPublished /\ SyncedUpToExported
    BY <2>1 DEF StampsArePast, RowIsPublished, SyncedUpToExported
  <2>3. SinceIsStored /\ PagesStored /\ AllStored /\ ReposListed /\ ReposMarked
    BY <2>1 DEF SinceIsStored, PagesStored, AllStored, ReposListed, ReposMarked
  <2> QED
    BY <2>2, <2>3, InitType DEF SyncedInv, Synchronized
<1>2. SyncedInv => SyncedUpToExported
  BY DEF SyncedInv, Synchronized
<1> QED
  BY <1>1, <1>2, NextSynced, PTL DEF Spec

-----------------------------------------------------------------------------
(* From VMaaS to the evaluation *)

\* ConcernedBy, for the times f of the updates.
ConcernedAt(s, f) ==
  Max({0} \cup {f[r[1]][r[2]][r[3]] : r \in {q \in RepoPackages : s \in Concerned(q[1], q[3])}})

\* It is what the definition says.
LEMMA ConcernedByIs ==
  ASSUME NEW s
  PROVE  ConcernedBy(s) = ConcernedAt(s, updated) /\ ConcernedBy(s)' = ConcernedAt(s, updated')
BY DEF ConcernedBy, ConcernedAt, RepoPackages, Concerned

\* It is the time of the last update that concerns s.
LEMMA ConcernedIs ==
  ASSUME NEW f, NEW n \in Nat, NEW s,
         \A l \in Labels : \A v \in Variants[l] : \A p \in Packages : f[l][v][p] \in 0 .. n
  PROVE  /\ ConcernedAt(s, f) \in 0 .. n
         /\ \A l \in Labels : \A v \in Variants[l] : \A p \in Packages :
              s \in Concerned(l, p) => f[l][v][p] <= ConcernedAt(s, f)
         /\ ConcernedAt(s, f) # 0 =>
              \E l \in Labels : \E v \in Variants[l] : \E p \in Packages :
                s \in Concerned(l, p) /\ ConcernedAt(s, f) = f[l][v][p]
<1> DEFINE Q == {q \in RepoPackages : s \in Concerned(q[1], q[3])}
           S == {0} \cup {f[r[1]][r[2]][r[3]] : r \in Q}
<1>1. \A r \in Q : \E l \in Labels : \E v \in Variants[l] : \E p \in Packages :
        s \in Concerned(l, p) /\ f[r[1]][r[2]][r[3]] = f[l][v][p]
  BY RepoPackagesAre
<1>2. \A l \in Labels : \A v \in Variants[l] : \A p \in Packages :
        s \in Concerned(l, p) => f[l][v][p] \in S
  <2> SUFFICES ASSUME NEW l \in Labels, NEW v \in Variants[l], NEW p \in Packages,
                      s \in Concerned(l, p)
               PROVE  f[l][v][p] \in S
    OBVIOUS
  <2>1. <<l, v, p>> \in Q
    BY RepoPackagesAre
  <2> HIDE DEF Q
  <2> QED
    BY <2>1
<1> HIDE DEF Q
<1>3. \A x \in S : x = 0 \/ \E l \in Labels : \E v \in Variants[l] : \E p \in Packages :
                              s \in Concerned(l, p) /\ x = f[l][v][p]
  BY <1>1
<1>4. ConcernedAt(s, f) = Max(S) /\ 0 \in S
  BY DEF ConcernedAt, Q
<1> HIDE DEF S
<1>5. S # {} /\ S \subseteq 0 .. n
  BY <1>3, <1>4
<1>6. S \subseteq Nat /\ \A x \in S : x <= n
  BY <1>5
<1>7. Max(S) \in S /\ \A y \in S : y <= Max(S)
  BY <1>5, <1>6, MaxExists
<1> QED
  BY <1>2, <1>3, <1>4, <1>5, <1>7

\* Updates that do not concern s leave it as it is.
LEMMA ConcernedKept ==
  ASSUME NEW f, NEW g, NEW s,
         \A l \in Labels : \A v \in Variants[l] : \A p \in Packages :
           s \in Concerned(l, p) => f[l][v][p] = g[l][v][p]
  PROVE  ConcernedAt(s, f) = ConcernedAt(s, g)
<1> DEFINE Q == {q \in RepoPackages : s \in Concerned(q[1], q[3])}
<1>1. \A r \in Q : f[r[1]][r[2]][r[3]] = g[r[1]][r[2]][r[3]]
  BY RepoPackagesAre
<1> HIDE DEF Q
<1>2. {f[r[1]][r[2]][r[3]] : r \in Q} = {g[r[1]][r[2]][r[3]] : r \in Q}
  BY <1>1
<1> QED
  BY <1>2 DEF ConcernedAt, Q

\* The last update that concerns a system, now and after a step that leaves VMaaS alone.
LEMMA ConcernedNow ==
  ASSUME TypeInv, NEW s
  PROVE  /\ ConcernedBy(s) \in Nat
         /\ UpdatesArePast => ConcernedBy(s) <= exported
         /\ ConcernedBy(s) # 0 =>
              \E l \in Labels : \E v \in Variants[l] : \E p \in Packages :
                s \in Concerned(l, p) /\ ConcernedBy(s) = updated[l][v][p]
         /\ UNCHANGED updated => ConcernedBy(s)' = ConcernedBy(s)
<1>1. exported \in Nat /\ MaxExport[config] \in Nat
  BY TimesTyped, TimesAre DEF TypeInv, SyncOK
<1>2. \A l \in Labels : \A v \in Variants[l] : \A p \in Packages :
        updated[l][v][p] \in 0 .. MaxExport[config] /\ updated[l][v][p] \in Nat
  BY TimesTyped DEF TypeInv, SyncOK, VmaasOK, Times
<1>3. UpdatesArePast => \A l \in Labels : \A v \in Variants[l] : \A p \in Packages :
                          updated[l][v][p] \in 0 .. exported
  BY <1>1, <1>2 DEF UpdatesArePast
<1>4. ASSUME NEW f, f = updated
      PROVE  /\ ConcernedAt(s, f) \in Nat
             /\ UpdatesArePast => ConcernedAt(s, f) \in 0 .. exported
             /\ ConcernedAt(s, f) # 0 =>
                  \E l \in Labels : \E v \in Variants[l] : \E p \in Packages :
                    s \in Concerned(l, p) /\ ConcernedAt(s, f) = f[l][v][p]
  <2>1. /\ ConcernedAt(s, f) \in 0 .. MaxExport[config]
        /\ ConcernedAt(s, f) # 0 =>
             \E l \in Labels : \E v \in Variants[l] : \E p \in Packages :
               s \in Concerned(l, p) /\ ConcernedAt(s, f) = f[l][v][p]
    BY <1>1, <1>2, <1>4, ConcernedIs
  <2>2. UpdatesArePast => ConcernedAt(s, f) \in 0 .. exported
    BY <1>1, <1>3, <1>4, ConcernedIs
  <2> QED
    BY <1>1, <2>1, <2>2
<1>5. /\ ConcernedAt(s, updated) \in Nat
      /\ UpdatesArePast => ConcernedAt(s, updated) \in 0 .. exported
      /\ ConcernedAt(s, updated) # 0 =>
           \E l \in Labels : \E v \in Variants[l] : \E p \in Packages :
             s \in Concerned(l, p) /\ ConcernedAt(s, updated) = updated[l][v][p]
  BY <1>4, Zenon
<1>6. ConcernedBy(s) = ConcernedAt(s, updated) /\ ConcernedBy(s)' = ConcernedAt(s, updated')
  BY ConcernedByIs
<1> QED
  BY <1>1, <1>5, <1>6

\* An updated package is of a repo that is listed, on page 1 or later.
LEMMA ListedRepo ==
  ASSUME NEW l \in Labels, NEW v \in Variants[l], NEW since, NEW p \in UpdatedPackageNames(l, v, since)
  PROVE  /\ p \in Packages /\ l \in ReposSince(since) /\ ReposSince(since) \in SUBSET Labels
         /\ Rank(l, ReposSince(since)) \in Nat \ {0}
<1>1. p \in Packages /\ l \in ReposSince(since) /\ ReposSince(since) \in SUBSET Labels
  BY DEF UpdatedPackageNames, ContentSet, ReposSince
<1> QED
  BY <1>1, RankGrows

\* A step of the job outside /repos: what it asked for is sent, unless it is dropped, and
\* nobody has an answer for it yet, or the request is excused.
LEMMA JobKeeps ==
  ASSUME TypeInv, TypeInv', Requested, NEW asked \in SUBSET Systems, kv'.eval = kv.eval,
         UNCHANGED <<config, exported, updated, consumer, evaluated, outdated>>,
         old' \subseteq old, missed \subseteq missed', messages \ old \subseteq messages' \ old',
         dropped \subseteq dropped' \cup asked,
         \A s \in asked \ missed' :
           /\ s \in messages' \ old'
           /\ \A c \in Consumers : consumer[c].sys = s => consumer[c].answer = NIL,
         \/ job' = job /\ dropped' = dropped
         \/ /\ job'.pc = "recalc" => job'.page = 1
            /\ job.pc = "send" => job.ids \subseteq dropped' \cup asked
  PROVE  Requested'
<1>1. UpdatesArePast' /\ ReadyIsFree' /\ EvaluatesAlone' /\ RequestIsNew'
  BY DEF Requested, UpdatesArePast, EvaluatorGoal, ReadyIsFree, EvaluatesAlone, RequestIsNew
<1>2. PagesRead'
  <2> SUFFICES ASSUME job'.pc = "recalc", NEW e, e = kv.eval
               PROVE  ReadSince(e)'
    BY DEF PagesRead
  <2>1. /\ \A l, v : UpdatedPackageNames(l, v, e)' = UpdatedPackageNames(l, v, e)
        /\ ReposSince(e)' = ReposSince(e)
    BY DEF UpdatedPackageNames, ReposSince, ContentSet
  <2>3. CASE job' = job /\ dropped' = dropped
    <3>1. ReadSince(e)
      BY <2>3 DEF Requested, PagesRead
    <3> QED
      BY <2>1, <2>3, <3>1 DEF ReadSince
  <2>4. CASE job'.pc = "recalc" => job'.page = 1
    <3> SUFFICES ASSUME NEW l \in Labels, NEW v \in Variants[l],
                        NEW p \in UpdatedPackageNames(l, v, e),
                        Rank(l, ReposSince(e)) <= (job'.page - 1) * AdvisoryPageSize
                 PROVE  FALSE
      BY <2>1 DEF ReadSince
    <3>1. Rank(l, ReposSince(e)) \in Nat \ {0}
      BY ListedRepo
    <3>2. (job'.page - 1) * AdvisoryPageSize = 0
      BY <2>4, SyncAssumption
    <3> QED
      BY <3>1, <3>2
  <2> QED
    BY <2>3, <2>4
<1>3. AnswersCover'
  <2> SUFFICES ASSUME config.repoBased, NEW s \in Systems, s \notin dropped', s \notin outdated,
                      s \notin missed', NEW t \in Times, Answer(s, t)'
               PROVE  Covered(s, t)'
    BY TypesKept DEF AnswersCover
  <2>1. ConcernedBy(s)' = ConcernedBy(s)
    BY ConcernedNow
  <2>2. NIL \notin Times
    BY TimesTyped
  <2>3. s \notin asked
    <3> SUFFICES ASSUME s \in asked
                 PROVE  FALSE
      OBVIOUS
    <3>1. \A c \in Consumers : ~(consumer[c].sys = s /\ consumer[c].pc \in {"add", "store"})
      BY <2>2 DEF TypeInv, ConsumersOK
    <3> QED
      BY <3>1 DEF Answer
  <2>4. Answer(s, t)
    BY DEF Answer
  <2>5. Covered(s, t)
    BY <2>3, <2>4 DEF Requested, EvaluatorGoal, AnswersCover
  <2> QED
    BY <2>1, <2>3, <2>5 DEF Covered
<1> QED
  BY <1>1, <1>2, <1>3 DEF Requested, EvaluatorGoal

\* A step that asks for nothing: what the job was to ask for is dropped.
LEMMA JobGoesOn ==
  ASSUME TypeInv, TypeInv', Requested, kv'.eval = kv.eval, dropped \subseteq dropped',
         UNCHANGED <<config, exported, updated, messages, consumer, evaluated, old, outdated, missed>>,
         \/ job' = job /\ dropped' = dropped
         \/ /\ job'.pc = "recalc" => job'.page = 1
            /\ job.pc = "send" => job.ids \subseteq dropped'
  PROVE  Requested'
<1> DEFINE asked == {}
<1>1. /\ asked \in SUBSET Systems /\ asked \ missed' = {}
      /\ dropped \subseteq dropped' \cup asked
      /\ job.ids \subseteq dropped' => job.ids \subseteq dropped' \cup asked
  OBVIOUS
<1> HIDE DEF asked
<1>2. \A s \in asked \ missed' :
        /\ s \in messages' \ old'
        /\ \A c \in Consumers : consumer[c].sys = s => consumer[c].answer = NIL
  BY <1>1
<1>3. /\ UNCHANGED <<config, exported, updated, consumer, evaluated, outdated>>
      /\ old' \subseteq old /\ missed \subseteq missed' /\ messages \ old \subseteq messages' \ old'
  OBVIOUS
<1>4. \/ job' = job /\ dropped' = dropped
      \/ /\ job'.pc = "recalc" => job'.page = 1
         /\ job.pc = "send" => job.ids \subseteq dropped' \cup asked
  BY <1>1
<1> QED
  BY <1>1, <1>2, <1>3, <1>4, JobKeeps

\* An export: what it changes is not handled by the job yet, or its systems are dropped.
LEMMA ExportRequested ==
  ASSUME TypeInv, TypeInv', Requested, NEW A \in SUBSET Advisories, NEW R \in SUBSET RepoPackages,
         Export(A, R), UNCHANGED cacheVars
  PROVE  Requested'
<1> DEFINE hit == (kv.eval # NIL /\ exported' <= kv.eval) \/ (job.pc = "recalc" /\ job.page > 1)
           lost == UNION {Concerned(r[1], r[3]) : r \in R}
<1>0. SyncOK /\ Requested
  BY DEF TypeInv
<1>1. exported' = exported + 1 /\ UNCHANGED <<config, kv, job>>
  BY <1>0, ExportType
<1>2. UpdatedBy(R)
  BY <1>0, ExportType, Zenon
<1>3. UNCHANGED <<messages, consumer, evaluated, old, outdated, missed>>
  BY DEF cacheVars, answerVars
<1>4. dropped' = IF hit THEN dropped \cup lost ELSE dropped
  BY Zenon DEF Export
<1>5. /\ exported \in Nat /\ NIL \notin Nat /\ kv.eval \in Nat \cup {NIL} /\ job.page \in Nat
      /\ \A l \in Labels : \A v \in Variants[l] : \A p \in Packages :
           updated[l][v][p] \in Nat /\ updated[l][v][p] <= exported
  BY <1>0, TimesTyped DEF SyncOK, KvType, Requested, UpdatesArePast
<1>6. \A l \in Labels : \A v \in Variants[l] : \A p \in Packages :
        updated'[l][v][p] = IF <<l, v, p>> \in R THEN exported' ELSE updated[l][v][p]
  BY <1>2 DEF UpdatedBy
<1>7. \A l, v, p : <<l, v, p>> \in R => Concerned(l, p) \subseteq lost
  OBVIOUS
<1> HIDE DEF lost
<1>11. ASSUME NEW l \in Labels, NEW v \in Variants[l], NEW p \in Packages
       PROVE  /\ updated'[l][v][p] \in 0 .. exported' /\ updated'[l][v][p] >= updated[l][v][p]
              /\ updated'[l][v][p] # updated[l][v][p] => updated'[l][v][p] = exported'
  <2>1. updated'[l][v][p] \in {exported', updated[l][v][p]}
    BY <1>6
  <2>2. updated[l][v][p] \in Nat /\ updated[l][v][p] <= exported
    BY <1>5
  <2> QED
    BY <1>1, <1>5, <2>1, <2>2
<1>8. UpdatesArePast' /\ ReadyIsFree' /\ EvaluatesAlone' /\ RequestIsNew'
  <2>1. UpdatesArePast'
    <3> SUFFICES ASSUME NEW l \in Labels, NEW v \in Variants[l], NEW p \in Packages
                 PROVE  updated'[l][v][p] <= exported'
      BY DEF UpdatesArePast
    <3> QED
      BY <1>1, <1>5, <1>11
  <2> QED
    BY <1>0, <1>3, <2>1 DEF Requested, EvaluatorGoal, ReadyIsFree, EvaluatesAlone, RequestIsNew
<1>9. PagesRead'
  <2> PICK e \in Nat \cup {NIL} : e = kv.eval
    BY <1>5
  <2> DEFINE n == (job.page - 1) * AdvisoryPageSize
  <2> SUFFICES ASSUME job.pc = "recalc"
               PROVE  ReadSince(e)'
    BY <1>1 DEF PagesRead
  <2> SUFFICES ASSUME NEW l \in Labels, NEW v \in Variants[l],
                      NEW p \in UpdatedPackageNames(l, v, e)', Rank(l, ReposSince(e)') <= n
               PROVE  p \in job.packages[l] \/ Concerned(l, p) \subseteq dropped'
    BY <1>1 DEF ReadSince
  <2>1. p \in Packages /\ After(updated'[l][v][p], e)
    BY DEF UpdatedPackageNames
  <2>2. l \in ReposSince(e)' /\ ReposSince(e)' \in SUBSET Labels
    BY DEF UpdatedPackageNames, ReposSince, ContentSet
  <2>3. Rank(l, ReposSince(e)') \in Nat \ {0}
    BY <2>2, RankGrows
  <2>4. job.page > 1
    <3>1. AdvisoryPageSize \in Nat
      BY SyncAssumption
    <3>2. \A i, k \in Nat : ~(i > 1) => (i - 1) * k <= 0
      OBVIOUS
    <3>3. n \in Int
      BY <1>5, <3>1
    <3>4. n >= 1
      BY <2>3, <3>3
    <3>5. ~(job.page > 1) => n <= 0
      BY <1>5, <3>1, <3>2
    <3> HIDE DEF n
    <3> QED
      BY <3>3, <3>4, <3>5
  <2>5. dropped' = dropped \cup lost
    BY <1>4, <2>4
  <2>6. CASE <<l, v, p>> \in R
    BY <1>7, <2>5, <2>6
  <2>7. CASE <<l, v, p>> \notin R
    <3>1. updated'[l][v][p] = updated[l][v][p]
      BY <1>6, <2>1, <2>7
    <3>2. p \in UpdatedPackageNames(l, v, e)
      BY <2>1, <3>1 DEF UpdatedPackageNames
    <3>3. \A m \in Labels : \A w \in Variants[m] : \A q \in Packages :
            After(updated[m][w][q], e) => After(updated'[m][w][q], e)
      <4> SUFFICES ASSUME NEW m \in Labels, NEW w \in Variants[m], NEW q \in Packages,
                          After(updated[m][w][q], e)
                   PROVE  After(updated'[m][w][q], e)
        OBVIOUS
      <4>1. updated[m][w][q] \in Nat /\ updated'[m][w][q] \in Nat /\ updated'[m][w][q] >= updated[m][w][q]
        BY <1>1, <1>5, <1>11
      <4> QED
        BY <4>1 DEF After
    <3>4. ReposSince(e) \in SUBSET ReposSince(e)'
      BY <3>3 DEF ReposSince, ContentSet, UpdatedPackageNames
    <3>5. l \in ReposSince(e)
      BY <3>2, ListedRepo
    <3>6. /\ Rank(l, ReposSince(e)) \in Nat /\ Rank(l, ReposSince(e)') \in Nat
          /\ Rank(l, ReposSince(e)) <= Rank(l, ReposSince(e)')
      BY <2>2, <3>4, <3>5, RankGrows
    <3>7. n \in Int
      BY <1>5, SyncAssumption
    <3>8. Rank(l, ReposSince(e)) <= n
      BY <3>6, <3>7
    <3>9. ReadSince(e)
      BY <1>0 DEF Requested, PagesRead
    <3>10. p \in job.packages[l] \/ Concerned(l, p) \subseteq dropped
      BY <3>2, <3>8, <3>9 DEF ReadSince
    <3> QED
      BY <2>5, <3>10
  <2> QED
    BY <2>6, <2>7
<1>10. AnswersCover'
  <2> SUFFICES ASSUME config.repoBased, NEW s \in Systems, s \notin dropped', s \notin outdated,
                      s \notin missed, NEW t \in Times, Answer(s, t)'
               PROVE  Covered(s, t)'
    BY <1>1, <1>3, TypesKept DEF AnswersCover
  <2>0. ConcernedBy(s) = ConcernedAt(s, updated) /\ ConcernedBy(s)' = ConcernedAt(s, updated')
    BY ConcernedByIs
  <2>1. CASE s \in lost
    <3>1. ~(kv.eval # NIL /\ exported' <= kv.eval)
      BY <1>4, <2>1
    <3>2. PICK r \in R : s \in Concerned(r[1], r[3])
      BY <2>1 DEF lost
    <3>3. PICK l, v, p : l \in Labels /\ v \in Variants[l] /\ p \in Packages /\ r = <<l, v, p>>
      BY RepoPackagesAre
    <3>4. updated'[l][v][p] = exported' /\ s \in Concerned(l, p)
      BY <1>6, <3>2, <3>3
    <3>5. \A m \in Labels : \A w \in Variants[m] : \A q \in Packages :
            updated'[m][w][q] \in 0 .. exported'
      BY <1>11
    <3>6. exported' \in Nat
      BY <1>1, <1>5
    <3>7. ASSUME NEW f, f = updated', NEW n \in Nat, n = exported'
          PROVE  ConcernedAt(s, f) \in 0 .. n /\ n <= ConcernedAt(s, f)
      <4>1. \A m \in Labels : \A w \in Variants[m] : \A q \in Packages : f[m][w][q] \in 0 .. n
        BY <3>5, <3>7, Zenon
      <4>2. /\ ConcernedAt(s, f) \in 0 .. n
            /\ \A m \in Labels : \A w \in Variants[m] : \A q \in Packages :
                 s \in Concerned(m, q) => f[m][w][q] <= ConcernedAt(s, f)
        BY <4>1, ConcernedIs
      <4>3. f[l][v][p] <= ConcernedAt(s, f)
        BY <3>3, <3>4, <4>2
      <4> QED
        BY <3>4, <3>7, <4>2, <4>3
    <3>8. ConcernedBy(s)' \in Nat /\ exported' <= ConcernedBy(s)'
      BY <2>0, <3>4, <3>6, <3>7
    <3>9. kv.eval = NIL \/ ConcernedBy(s)' > kv.eval
      BY <1>5, <3>1, <3>6, <3>8
    <3> QED
      BY <1>1, <3>9 DEF Covered
  <2>2. CASE s \notin lost
    <3>1. \A l \in Labels : \A v \in Variants[l] : \A p \in Packages :
            s \in Concerned(l, p) => updated'[l][v][p] = updated[l][v][p]
      <4> SUFFICES ASSUME NEW l \in Labels, NEW v \in Variants[l], NEW p \in Packages,
                          s \in Concerned(l, p)
                   PROVE  updated'[l][v][p] = updated[l][v][p]
        OBVIOUS
      <4>1. <<l, v, p>> \notin R
        BY <1>7, <2>2
      <4> QED
        BY <1>6, <4>1
    <3>2. \A f, g : f = updated /\ g = updated' => ConcernedAt(s, f) = ConcernedAt(s, g)
      BY <3>1, ConcernedKept
    <3>3. ConcernedBy(s)' = ConcernedBy(s)
      BY <2>0, <3>2
    <3>4. s \notin dropped
      BY <1>4
    <3>5. Covered(s, t)
      BY <1>0, <1>3, <3>4 DEF Requested, EvaluatorGoal, AnswersCover, Answer
    <3> QED
      BY <1>1, <1>3, <3>3, <3>5 DEF Covered
  <2> QED
    BY <2>1, <2>2
<1> QED
  BY <1>8, <1>9, <1>10 DEF Requested, EvaluatorGoal

\* A page of repos, read into packages: nothing of it is missed, or its systems are dropped.
PageRead(page, packages) ==
  /\ \A l \in Labels \ page : packages[l] = job.packages[l]
  /\ \A l \in page : \A v \in Variants[l] : \A p \in UpdatedPackageNames(l, v, kv.eval) :
       p \in packages[l] \/ Concerned(l, p) \subseteq dropped'

\* The packages of a content set that the last of its repos does not have.
LEMMA OverwrittenIs ==
  ASSUME NEW l, NEW e, NEW v \in Variants[l], NEW p \in UpdatedPackageNames(l, v, e),
         p \notin UpdatedPackageNames(l, LastOf(l, e), e)
  PROVE  p \in Overwritten(l, e)
<1> DEFINE U == UNION {UpdatedPackageNames(l, w, e) : w \in Variants[l]}
           X == UpdatedPackageNames(l, LastOf(l, e), e)
<1>1. p \in U /\ p \notin X
  OBVIOUS
<1>2. Overwritten(l, e) = U \ X
  BY DEF Overwritten
<1> HIDE DEF U, X
<1> QED
  BY <1>1, <1>2

\* What one page of /repos leaves.
LEMMA ReposPageIs ==
  ASSUME SyncOK, getVmaasRepos
  PROVE  /\ job.pc = "recalc" /\ dropped \subseteq dropped'
         /\ \/ job' = Idle /\ UNCHANGED kv
            \/ \E packages \in [Labels -> SUBSET Packages] :
                 /\ PageRead(PageOf(ReposSince(kv.eval), job.page), packages)
                 /\ \/ /\ job.page = PageCount(ReposSince(kv.eval)) /\ job'.pc = "send"
                       /\ job'.ids = getRepoBasedInventoryIDs(packages)
                    \/ /\ job'.pc = "recalc" /\ job'.page = job.page + 1
                       /\ job'.packages = packages /\ UNCHANGED kv
<1> DEFINE since == kv.eval
           L == ReposSince(since)
           page == PageOf(L, job.page)
           packages == [l \in Labels |->
                          IF l \in page THEN UpdatedPackageNames(l, LastOf(l, since), since)
                                        ELSE job.packages[l]]
           latest == IF job.latest = NIL \/ job.latest < LatestRepoChange
                       THEN LatestRepoChange + Second ELSE job.latest
           ids == getRepoBasedInventoryIDs(packages)
           lost == UNION {UNION {Concerned(l, p) : p \in Overwritten(l, since)} : l \in page}
           j1 == [job EXCEPT !.pc = "send", !.ids = ids]
           next == job.page + 1
           j2 == [job EXCEPT !.page = next, !.latest = latest, !.packages = packages]
<1>0. job \in JobType
  BY DEF SyncOK
<1>1. /\ job.pc = "recalc"
      /\ \/ job' = Idle /\ UNCHANGED <<kv, dropped>>
         \/ dropped' = dropped \cup lost /\ job.page = PageCount(L) /\ job' = j1
         \/ dropped' = dropped \cup lost /\ UNCHANGED kv /\ job' = j2
  BY DEF getVmaasRepos
<1>2. page \subseteq Labels
  BY DEF PageOf, ReposSince
<1>3. packages \in [Labels -> SUBSET Packages]
  BY <1>0 DEF UpdatedPackageNames, JobType
<1>4. /\ \A l \in Labels \ page : packages[l] = job.packages[l]
      /\ \A l \in page : packages[l] = UpdatedPackageNames(l, LastOf(l, since), since)
  BY <1>2
<1>5. \A l \in page : \A p \in Overwritten(l, since) : Concerned(l, p) \subseteq lost
  OBVIOUS
<1> HIDE DEF page, lost, packages
<1>6. \A l \in page : \A v \in Variants[l] : \A p \in UpdatedPackageNames(l, v, since) :
        p \in packages[l] \/ Concerned(l, p) \subseteq lost
  <2> SUFFICES ASSUME NEW l \in page, NEW v \in Variants[l],
                      NEW p \in UpdatedPackageNames(l, v, since), p \notin packages[l]
               PROVE  Concerned(l, p) \subseteq lost
    OBVIOUS
  <2>1. p \notin UpdatedPackageNames(l, LastOf(l, since), since)
    BY <1>4
  <2>2. p \in Overwritten(l, since)
    BY <2>1, OverwrittenIs
  <2> QED
    BY <1>5, <2>2
<1>7. lost \subseteq dropped' => PageRead(page, packages)
  BY <1>4, <1>6 DEF PageRead
<1>8. j1.pc = "send" /\ j1.ids = ids
  BY <1>0 DEF JobType
<1> HIDE DEF latest, ids
<1>9. j2.pc = job.pc /\ j2.page = next /\ j2.packages = packages
  BY <1>0 DEF JobType
<1> HIDE DEF j1, j2
<1>10. dropped \subseteq dropped'
  BY <1>1
<1>11. CASE dropped' = dropped \cup lost /\ job.page = PageCount(L) /\ job' = j1
  <2>1. PageRead(page, packages)
    BY <1>7, <1>11
  <2> QED
    BY <1>1, <1>3, <1>8, <1>10, <1>11, <2>1, Zenon DEF page, ids
<1>12. CASE dropped' = dropped \cup lost /\ UNCHANGED kv /\ job' = j2
  <2>1. PageRead(page, packages)
    BY <1>7, <1>12
  <2> QED
    BY <1>1, <1>3, <1>9, <1>10, <1>12, <2>1, Zenon DEF page, next
<1> QED
  BY <1>1, <1>10, <1>11, <1>12, Zenon

\* One page of /repos: the last one asks for every system that an update concerns.
LEMMA ReposPageRequested ==
  ASSUME TypeInv, TypeInv', Requested, getVmaasRepos, UNCHANGED cacheVars
  PROVE  Requested'
<1> DEFINE L == ReposSince(kv.eval)
           page == PageOf(L, job.page)
<1>0. SyncOK /\ job.page \in Nat /\ NIL \notin Nat /\ L \in SUBSET Labels
  BY TimesTyped DEF TypeInv, ReposSince
<1>1. UNCHANGED <<config, exported, updated>>
  BY <1>0, ReposPageType DEF Recalculated
<1>2. UNCHANGED <<messages, consumer, evaluated, old, outdated, missed>>
  BY DEF cacheVars, answerVars
<1>3. job.pc = "recalc" /\ dropped \subseteq dropped'
  BY <1>0, ReposPageIs
<1>4. CASE job' = Idle /\ UNCHANGED kv
  <2>1. job'.pc = "idle" /\ kv'.eval = kv.eval
    BY <1>4, IdleType
  <2> QED
    BY <1>1, <1>2, <1>3, <2>1, JobGoesOn
<1>5. ASSUME NEW packages \in [Labels -> SUBSET Packages], PageRead(page, packages),
             \/ /\ job.page = PageCount(L) /\ job'.pc = "send"
                /\ job'.ids = getRepoBasedInventoryIDs(packages)
             \/ /\ job'.pc = "recalc" /\ job'.page = job.page + 1
                /\ job'.packages = packages /\ UNCHANGED kv
      PROVE  Requested'
  <2>1. ReadSince(kv.eval)
    BY <1>3 DEF Requested, PagesRead
  <2>2. ASSUME NEW l \in Labels, NEW v \in Variants[l], NEW p \in UpdatedPackageNames(l, v, kv.eval),
               Rank(l, L) <= job.page * AdvisoryPageSize
        PROVE  p \in packages[l] \/ Concerned(l, p) \subseteq dropped'
    <3>1. CASE l \in page
      BY <1>5, <3>1 DEF PageRead
    <3>2. CASE l \notin page
      <4>1. l \in L
        BY ListedRepo
      <4>2. Rank(l, L) <= (job.page - 1) * AdvisoryPageSize
        BY <1>0, <2>2, <3>2, <4>1, PageCovers
      <4>3. p \in job.packages[l] \/ Concerned(l, p) \subseteq dropped
        BY <2>1, <4>2 DEF ReadSince
      <4>4. packages[l] = job.packages[l]
        BY <1>5, <3>2 DEF PageRead
      <4> QED
        BY <1>3, <4>3, <4>4
    <3> QED
      BY <3>1, <3>2
  <2>3. UpdatesArePast' /\ ReadyIsFree' /\ EvaluatesAlone' /\ RequestIsNew'
    BY <1>1, <1>2 DEF Requested, UpdatesArePast, EvaluatorGoal, ReadyIsFree, EvaluatesAlone,
                      RequestIsNew
  <2>4. \A s : ConcernedBy(s)' = ConcernedBy(s)
    BY <1>1, ConcernedNow
  <2>5. CASE job'.pc = "send" /\ job.page = PageCount(L) /\ job'.ids = getRepoBasedInventoryIDs(packages)
    <3>1. PagesRead'
      BY <2>5 DEF PagesRead
    <3>2. AnswersCover'
      <4> SUFFICES ASSUME config.repoBased, NEW s \in Systems, s \notin dropped', s \notin outdated,
                          s \notin missed, NEW t \in Times, Answer(s, t)'
                   PROVE  Covered(s, t)'
        BY <1>1, <1>2, TypesKept DEF AnswersCover
      <4>1. s \notin dropped /\ Answer(s, t)
        BY <1>2, <1>3 DEF Answer
      <4>2. Covered(s, t)
        BY <4>1 DEF Requested, EvaluatorGoal, AnswersCover
      <4>3. CASE ConcernedBy(s) <= t
        BY <2>4, <4>3 DEF Covered
      <4>4. CASE ~(ConcernedBy(s) <= t) /\ (kv.eval = NIL \/ ConcernedBy(s) > kv.eval)
        <5>1. ConcernedBy(s) \in Nat /\ t \in Nat
          BY ConcernedNow, TimesTyped
        <5>2. ConcernedBy(s) # 0 /\ ConcernedBy(s) > 0
          BY <4>4, <5>1
        <5>3. PICK l, v, p : /\ l \in Labels /\ v \in Variants[l] /\ p \in Packages
                             /\ s \in Concerned(l, p) /\ ConcernedBy(s) = updated[l][v][p]
          BY <5>2, ConcernedNow, Zenon
        <5>4. p \in UpdatedPackageNames(l, v, kv.eval)
          BY <4>4, <5>2, <5>3 DEF UpdatedPackageNames, After
        <5>5. PageCount(L) \in Nat
          BY <1>0, <2>5
        <5>6. l \in L /\ ~(job.page + 1 <= PageCount(L))
          BY <1>0, <2>5, <5>3, <5>4, ListedRepo
        <5>7. Rank(l, L) <= job.page * AdvisoryPageSize
          BY <1>0, <5>6, PageCovers
        <5>8. p \in packages[l]
          BY <2>2, <5>3, <5>4, <5>7
        <5>9. l \in SystemRepos[s] /\ p \in SystemPackages[s]
          BY <5>3 DEF Concerned
        <5>10. s \in getRepoBasedInventoryIDs(packages)
          BY <5>3, <5>8, <5>9 DEF getRepoBasedInventoryIDs
        <5> QED
          BY <2>5, <5>10 DEF Covered
      <4> QED
        BY <1>3, <4>2, <4>3, <4>4 DEF Covered
    <3> QED
      BY <2>3, <3>1, <3>2 DEF Requested, EvaluatorGoal
  <2>6. CASE /\ job'.pc = "recalc" /\ job'.page = job.page + 1
             /\ job'.packages = packages /\ UNCHANGED kv
    <3>1. PagesRead'
      <4> SUFFICES ASSUME NEW e, e = kv.eval
                   PROVE  ReadSince(e)'
        BY <2>6 DEF PagesRead
      <4>1. /\ \A l, v : UpdatedPackageNames(l, v, e)' = UpdatedPackageNames(l, v, e)
            /\ ReposSince(e)' = ReposSince(e)
        BY <1>1 DEF UpdatedPackageNames, ReposSince, ContentSet
      <4>2. job'.page - 1 = job.page
        BY <1>0, <2>6
      <4> QED
        BY <2>2, <2>6, <4>1, <4>2 DEF ReadSince
    <3>2. AnswersCover'
      <4> SUFFICES ASSUME config.repoBased, NEW s \in Systems, s \notin dropped', s \notin outdated,
                          s \notin missed, NEW t \in Times, Answer(s, t)'
                   PROVE  Covered(s, t)'
        BY <1>1, <1>2, TypesKept DEF AnswersCover
      <4>1. s \notin dropped /\ Answer(s, t)
        BY <1>2, <1>3 DEF Answer
      <4>2. Covered(s, t)
        BY <4>1 DEF Requested, EvaluatorGoal, AnswersCover
      <4> QED
        BY <1>3, <2>4, <2>6, <4>2 DEF Covered
    <3> QED
      BY <2>3, <3>1, <3>2 DEF Requested, EvaluatorGoal
  <2> QED
    BY <1>5, <2>5, <2>6
<1> QED
  BY <1>0, <1>4, <1>5, ReposPageIs

\* A step of the evaluator leaves the updates and the job alone.
LEMMA EvaluatorKeeps ==
  ASSUME TypeInv, Requested, UNCHANGED syncVars
  PROVE  /\ UpdatesArePast' /\ PagesRead' /\ Times' = Times
         /\ \A s, t : Covered(s, t) => Covered(s, t)'
         /\ \A s, t : ConcernedBy(s) <= t => Covered(s, t)'
<1>1. UNCHANGED <<config, exported, updated, kv, job, dropped>>
  BY Zenon DEF syncVars
<1>2. UpdatesArePast' /\ Times' = Times
  BY <1>1, TypesKept DEF Requested, UpdatesArePast
<1>3. \A s : ConcernedBy(s)' = ConcernedBy(s)
  BY <1>1, ConcernedNow
<1>4. PagesRead'
  <2> SUFFICES ASSUME job.pc = "recalc", NEW e, e = kv.eval
               PROVE  ReadSince(e)'
    BY <1>1 DEF PagesRead
  <2>1. ReadSince(e)
    BY DEF Requested, PagesRead
  <2>2. /\ \A l, v : UpdatedPackageNames(l, v, e)' = UpdatedPackageNames(l, v, e)
        /\ ReposSince(e)' = ReposSince(e)
    BY <1>1 DEF UpdatedPackageNames, ReposSince, ContentSet
  <2> QED
    BY <1>1, <2>1, <2>2 DEF ReadSince
<1> QED
  BY <1>1, <1>2, <1>3, <1>4 DEF Covered

\* A message is taken: a hit is as new as the stored timestamp, or the system is excused.
LEMMA TakeRequested ==
  ASSUME CacheInv, Requested, NEW c \in Consumers, NEW s \in Systems, TakeMessage(c, s),
         UNCHANGED syncVars
  PROVE  EvaluatorGoal'
<1>0. TypeInv /\ StampsArePast /\ CacheOldOnlyIfOverlapped /\ EvaluatorGoal
  BY DEF CacheInv, Requested
<1>1. Taken(c, s) /\ UNCHANGED <<cache, validity, overlapped>>
  BY <1>0, TakeType
<1>2. UNCHANGED <<config, dropped>>
  BY DEF syncVars
<1> DEFINE hit == Get(Checksum[s])
           late == (hit # NIL /\ CacheOutdated(s)) \/ Evaluating(s) # {}
<1>3. /\ s \in messages /\ s \notin old /\ messages' = messages \ {s} /\ consumer[c].pc = "ready"
      /\ missed' = missed \ {s} /\ UNCHANGED <<evaluated, old>>
      /\ \A d \in Consumers : d # c => consumer'[d] = consumer[d]
      /\ consumer'[c].sys = s /\ consumer'[c].answer = hit
      /\ consumer'[c].pc = IF hit = NIL THEN "call" ELSE "store"
      /\ outdated' = IF late THEN outdated \cup {s} ELSE outdated \ {s}
  BY <1>1 DEF Taken
<1>4. consumer[c].sys = NIL /\ NIL \notin Systems
  BY <1>0, <1>3, SyncAssumption DEF EvaluatorGoal, ReadyIsFree
<1>5. /\ \A u, t : Covered(u, t) => Covered(u, t)'
      /\ \A u, t : ConcernedBy(u) <= t => Covered(u, t)'
      /\ Times' = Times
  BY <1>0, EvaluatorKeeps
<1>6. s \notin outdated' => ~late /\ \A d \in Consumers : consumer[d].sys # s
  BY <1>3 DEF Evaluating
<1>7. \A u \in Systems : u # s => (u \in outdated' <=> u \in outdated) /\ (u \in missed' <=> u \in missed)
  BY <1>3
<1>8. ReadyIsFree'
  BY <1>0, <1>3 DEF EvaluatorGoal, ReadyIsFree
<1>9. EvaluatesAlone' /\ RequestIsNew'
  BY <1>0, <1>3, <1>6, <1>7 DEF EvaluatorGoal, EvaluatesAlone, RequestIsNew
<1>10. ASSUME s \notin outdated', hit # NIL
       PROVE  ConcernedBy(s) <= hit
  <2>1. ~CacheOutdated(s)
    BY <1>6, <1>10
  <2>2. /\ validity = kv.exported /\ Checksum[s] \notin overlapped
        /\ ~(ConcernedBy(s) > (IF kv.exported = NIL THEN 0 ELSE kv.exported))
    BY <2>1 DEF CacheOutdated
  <2>3. Checksum[s] \in Checksums /\ hit = cache[Checksum[s]]
    BY <1>10 DEF Get, Checksums
  <2>4. hit \in Nat
    BY <1>0, <1>10, <2>3, TimesTyped DEF TypeInv, CacheOK
  <2>5. ConcernedBy(s) \in Nat /\ validity \in Nat \cup {NIL} /\ NIL \notin Nat
    BY <1>0, ConcernedNow, TimesTyped
  <2>6. validity # NIL => hit >= validity
    BY <1>0, <1>10, <2>2, <2>3 DEF CacheOldOnlyIfOverlapped
  <2> HIDE DEF hit
  <2> QED
    BY <2>2, <2>4, <2>5, <2>6
<1> HIDE DEF hit, late
<1>11. AnswersCover'
  <2> SUFFICES ASSUME config.repoBased, NEW u \in Systems, u \notin dropped, u \notin outdated',
                      u \notin missed', NEW t \in Times, Answer(u, t)'
               PROVE  Covered(u, t)'
    BY <1>2, <1>5 DEF AnswersCover
  <2>1. CASE u = s
    <3>1. hit # NIL /\ t = hit
      BY <1>3, <1>6, <2>1 DEF Answer
    <3> QED
      BY <1>5, <1>10, <2>1, <3>1
  <2>2. CASE u # s
    <3>1. \A d \in Consumers : (consumer'[d].sys = u \/ consumer[d].sys = u) => consumer'[d] = consumer[d]
      BY <1>3, <1>4, <2>2
    <3>2. Answer(u, t)
      BY <1>3, <2>2, <3>1 DEF Answer
    <3> QED
      BY <1>0, <1>5, <1>7, <2>2, <3>2 DEF EvaluatorGoal, AnswersCover
  <2> QED
    BY <2>1, <2>2
<1> QED
  BY <1>8, <1>9, <1>11 DEF EvaluatorGoal

\* The consumers go on with what they know, or give their systems back.
LEMMA ConsumersGoOn ==
  ASSUME TypeInv, Requested, UNCHANGED syncVars, UNCHANGED <<evaluated, old, outdated>>,
         missed \subseteq missed', messages \ old \subseteq messages' \ old,
         \A d \in Consumers :
           \/ /\ consumer'[d].sys = consumer[d].sys /\ consumer'[d].answer = consumer[d].answer
              /\ consumer'[d].pc # "ready"
              /\ consumer'[d].pc \in {"add", "store"} => consumer[d].pc \in {"add", "store"}
           \/ consumer'[d] = consumer[d]
           \/ consumer'[d] = Ready /\ (consumer[d].sys \in Systems => consumer[d].sys \in messages' \cup missed')
           \/ /\ consumer'[d].sys = consumer[d].sys /\ consumer'[d].pc # "ready"
              /\ consumer[d].sys \in missed'
  PROVE  EvaluatorGoal'
<1>1. UNCHANGED <<config, dropped>>
  BY DEF syncVars
<1>2. (\A u, t : Covered(u, t) => Covered(u, t)') /\ Times' = Times
  BY EvaluatorKeeps
<1>3. Ready.sys = NIL /\ Ready.pc = "ready" /\ NIL \notin Systems
  BY SyncAssumption DEF Ready
<1>4. ReadyIsFree'
  BY <1>3 DEF Requested, EvaluatorGoal, ReadyIsFree
<1>5. \A d \in Consumers : consumer'[d].sys = consumer[d].sys \/ consumer'[d].sys = NIL
  BY <1>3
<1>6. EvaluatesAlone' /\ RequestIsNew'
  BY <1>3, <1>5 DEF Requested, EvaluatorGoal, EvaluatesAlone, RequestIsNew
<1>7. AnswersCover'
  <2> SUFFICES ASSUME config.repoBased, NEW u \in Systems, u \notin dropped, u \notin outdated,
                      u \notin missed', NEW t \in Times, Answer(u, t)'
               PROVE  Covered(u, t)'
    BY <1>1, <1>2, TypesKept DEF AnswersCover
  <2>1. CASE \E d \in Consumers : consumer[d].sys = u /\ consumer'[d].sys # u
    <3>1. PICK d \in Consumers : consumer[d].sys = u /\ consumer'[d].sys # u
      BY <2>1
    <3>2. u \in messages'
      BY <3>1
    <3>3. u \notin old
      BY <3>1 DEF Requested, EvaluatorGoal, RequestIsNew
    <3>4. \A b \in Consumers : consumer'[b].sys # u
      <4> SUFFICES ASSUME NEW b \in Consumers, consumer'[b].sys = u
                   PROVE  FALSE
        OBVIOUS
      <4>1. consumer[b].sys = u
        BY <1>3, <1>5
      <4>2. b = d
        BY <3>1, <4>1 DEF Requested, EvaluatorGoal, EvaluatesAlone
      <4> QED
        BY <3>1, <4>2
    <3> QED
      BY <3>2, <3>3, <3>4 DEF Answer
  <2>2. CASE \A d \in Consumers : consumer[d].sys = u => consumer'[d].sys = u
    <3>1. \A d \in Consumers : consumer'[d].sys = u =>
            /\ consumer[d].sys = u /\ consumer'[d].answer = consumer[d].answer
            /\ consumer'[d].pc \in {"add", "store"} => consumer[d].pc \in {"add", "store"}
      BY <1>3
    <3>2. Answer(u, t)
      BY <2>2, <3>1 DEF Answer
    <3> QED
      BY <1>2, <3>2 DEF Requested, EvaluatorGoal, AnswersCover
  <2> QED
    BY <2>1, <2>2
<1> QED
  BY <1>4, <1>6, <1>7 DEF EvaluatorGoal

\* VMaaS answers from its last export, which has every update.
LEMMA CallRequested ==
  ASSUME TypeInv, Requested, NEW c \in Consumers, CallVMaas(c), UNCHANGED syncVars
  PROVE  EvaluatorGoal'
<1>1. /\ UNCHANGED <<messages, evaluated, old, outdated, missed>>
      /\ consumer[c].pc = "call" /\ consumer'[c].sys = consumer[c].sys
      /\ consumer'[c].answer = exported /\ consumer'[c].pc = "add"
      /\ \A d \in Consumers : d # c => consumer'[d] = consumer[d]
  BY CallType
<1>2. UNCHANGED <<config, dropped>>
  BY DEF syncVars
<1>3. /\ \A u, t : Covered(u, t) => Covered(u, t)'
      /\ \A u, t : ConcernedBy(u) <= t => Covered(u, t)'
      /\ Times' = Times
  BY EvaluatorKeeps
<1>4. ReadyIsFree'
  BY <1>1 DEF Requested, EvaluatorGoal, ReadyIsFree
<1>5. \A d \in Consumers : consumer'[d].sys = consumer[d].sys
  BY <1>1
<1>6. EvaluatesAlone' /\ RequestIsNew'
  BY <1>1, <1>5 DEF Requested, EvaluatorGoal, EvaluatesAlone, RequestIsNew
<1>7. AnswersCover'
  <2> SUFFICES ASSUME config.repoBased, NEW u \in Systems, u \notin dropped, u \notin outdated,
                      u \notin missed, NEW t \in Times, Answer(u, t)'
               PROVE  Covered(u, t)'
    BY <1>1, <1>2, <1>3 DEF AnswersCover
  <2>1. CASE t = exported
    <3>1. ConcernedBy(u) <= exported
      BY ConcernedNow DEF Requested
    <3> QED
      BY <1>3, <2>1, <3>1
  <2>2. CASE t # exported
    <3>1. Answer(u, t)
      BY <1>1, <1>5, <2>2 DEF Answer
    <3> QED
      BY <1>3, <3>1 DEF Requested, EvaluatorGoal, AnswersCover
  <2> QED
    BY <2>1, <2>2
<1> QED
  BY <1>4, <1>6, <1>7 DEF EvaluatorGoal

\* The answer that covers the updates becomes the evaluation that does, and the requests that
\* are now skipped were sent before the answer, or the system is excused.
LEMMA StoreRequested ==
  ASSUME TypeInv, Requested, NEW c \in Consumers, evaluateAndStore(c), UNCHANGED syncVars
  PROVE  EvaluatorGoal'
<1>0. /\ consumer[c].pc = "store" /\ consumer[c].sys \in Systems
      /\ consumer'[c] = Ready /\ \A d \in Consumers : d # c => consumer'[d] = consumer[d]
      /\ \A u \in Systems :
           evaluated'[u] = IF u = consumer[c].sys THEN consumer[c].answer ELSE evaluated[u]
      /\ old' = old \cup {consumer[c].sys} /\ UNCHANGED <<messages, outdated, missed>>
  BY StoreType
<1>1. UNCHANGED <<config, dropped>>
  BY DEF syncVars
<1>2. Ready.sys = NIL /\ Ready.pc = "ready" /\ NIL \notin Systems
  BY SyncAssumption DEF Ready
<1>3. (\A u, t : Covered(u, t) => Covered(u, t)') /\ Times' = Times
  BY EvaluatorKeeps
<1>4. ReadyIsFree'
  BY <1>0, <1>2 DEF Requested, EvaluatorGoal, ReadyIsFree
<1>5. EvaluatesAlone'
  BY <1>0, <1>2 DEF Requested, EvaluatorGoal, EvaluatesAlone
<1>6. \A u \in Systems \ outdated : consumer[c].sys = u => \A d \in Consumers : consumer'[d].sys # u
  BY <1>0, <1>2 DEF Requested, EvaluatorGoal, EvaluatesAlone
<1>7. RequestIsNew'
  <2> SUFFICES ASSUME NEW u \in Systems \ outdated, NEW d \in Consumers, consumer'[d].sys = u
               PROVE  u \notin old'
    BY <1>0 DEF RequestIsNew
  <2>1. consumer[c].sys # u /\ consumer[d].sys = u
    BY <1>0, <1>2, <1>6
  <2> QED
    BY <1>0, <2>1 DEF Requested, EvaluatorGoal, RequestIsNew
<1>8. AnswersCover'
  <2> SUFFICES ASSUME config.repoBased, NEW u \in Systems, u \notin dropped, u \notin outdated,
                      u \notin missed, NEW t \in Times, Answer(u, t)'
               PROVE  Covered(u, t)'
    BY <1>0, <1>1, <1>3 DEF AnswersCover
  <2>1. Answer(u, t)
    <3>1. CASE u = consumer[c].sys
      <4>1. t = consumer[c].answer
        BY <1>0, <1>6, <3>1 DEF Answer
      <4> QED
        BY <1>0, <3>1, <4>1 DEF Answer
    <3>2. CASE u # consumer[c].sys
      <4>1. \A d \in Consumers :
              \/ consumer'[d] = consumer[d]
              \/ consumer'[d].sys # u /\ consumer[d].sys # u
        BY <1>0, <1>2, <3>2
      <4> QED
        BY <1>0, <3>2, <4>1 DEF Answer
    <3> QED
      BY <3>1, <3>2
  <2> QED
    BY <1>3, <2>1 DEF Requested, EvaluatorGoal, AnswersCover
<1> QED
  BY <1>4, <1>5, <1>7, <1>8 DEF EvaluatorGoal

\* Every step of the evaluator.
LEMMA EvaluatorRequested ==
  ASSUME CacheInv, Requested, Evaluator, UNCHANGED syncVars
  PROVE  Requested'
<1>0. TypeInv /\ Ready.pc = "ready"
  BY DEF CacheInv, Ready
<1>1. ASSUME NEW c \in Consumers, NEW yumUpdates \in BOOLEAN, CallFails(c, yumUpdates)
      PROVE  EvaluatorGoal'
  <2>1. /\ UNCHANGED <<messages, evaluated, old, outdated>>
        /\ missed' = missed \cup {consumer[c].sys}
        /\ \/ consumer'[c] = Ready
           \/ consumer'[c].pc = "store" /\ consumer'[c].sys = consumer[c].sys
        /\ \A d \in Consumers : d # c => consumer'[d] = consumer[d]
    BY <1>0, <1>1, CallFailsType
  <2> QED
    BY <1>0, <2>1, ConsumersGoOn
<1>6. ASSUME NEW c \in Consumers, NEW s \in Systems, SkipOld(c, s)
      PROVE  EvaluatorGoal'
  <2>1. /\ messages' = messages \ {s} /\ s \in old
        /\ UNCHANGED <<consumer, evaluated, old, outdated, missed>>
    BY <1>0, <1>6, SkipType
  <2> QED
    BY <1>0, <2>1, ConsumersGoOn
<1>7. ASSUME NEW c \in Consumers, AddAnswer(c)
      PROVE  EvaluatorGoal'
  <2>1. /\ consumer[c].pc = "add" /\ UNCHANGED <<messages, evaluated, old, outdated, missed>>
        /\ consumer'[c].pc = "store" /\ consumer'[c].sys = consumer[c].sys
        /\ consumer'[c].answer = consumer[c].answer
        /\ \A d \in Consumers : d # c => consumer'[d] = consumer[d]
    BY <1>0, <1>7, AddType
  <2> QED
    BY <1>0, <2>1, ConsumersGoOn
<1>8. ASSUME NEW c \in Consumers, NEW again \in BOOLEAN, StoreFails(c, again)
      PROVE  EvaluatorGoal'
  <2>1. /\ messages \subseteq messages' /\ missed \subseteq missed'
        /\ consumer[c].sys \in messages' \cup missed' /\ consumer'[c] = Ready
        /\ \A d \in Consumers : d # c => consumer'[d] = consumer[d]
        /\ UNCHANGED <<evaluated, old, outdated>>
    BY <1>0, <1>8, StoreFailsType
  <2> QED
    BY <1>0, <2>1, ConsumersGoOn
<1>2. ASSUME NEW k \in Checksums, Evict(k)
      PROVE  EvaluatorGoal'
  <2>1. UNCHANGED <<messages, consumer, evaluated, old, outdated, missed>>
    BY <1>2, Zenon DEF Evict, answerVars
  <2> QED
    BY <1>0, <2>1, ConsumersGoOn
<1>3. ASSUME CheckValidity
      PROVE  EvaluatorGoal'
  <2> DEFINE x(d) == [consumer[d] EXCEPT !.reset = TRUE]
  <2>1. /\ UNCHANGED <<messages, evaluated, old, outdated, missed>>
        /\ consumer' = [d \in Consumers |-> IF consumer[d].pc = "add" THEN x(d) ELSE consumer[d]]
    BY <1>3, Zenon DEF CheckValidity, Reset
  <2>2. \A d \in Consumers : /\ x(d).pc = consumer[d].pc /\ x(d).sys = consumer[d].sys
                             /\ x(d).answer = consumer[d].answer
    BY <1>0 DEF TypeInv, ConsumersOK, ConsumerType
  <2> HIDE DEF x
  <2>3. \A d \in Consumers :
          \/ consumer'[d] = consumer[d]
          \/ /\ consumer'[d].pc = "add" /\ consumer[d].pc = "add"
             /\ consumer'[d].sys = consumer[d].sys /\ consumer'[d].answer = consumer[d].answer
    BY <2>1, <2>2
  <2> QED
    BY <1>0, <2>1, <2>3, ConsumersGoOn
<1>4. ASSUME Restart
      PROVE  EvaluatorGoal'
  <2>1. /\ messages' = messages \cup {s \in Systems : Evaluating(s) # {}}
        /\ consumer' = [d \in Consumers |-> Ready] /\ UNCHANGED <<evaluated, old, outdated, missed>>
    BY <1>4, Zenon DEF Restart
  <2>2. \A d \in Consumers : consumer[d].sys \in Systems => consumer[d].sys \in messages'
    BY <2>1 DEF Evaluating
  <2> QED
    BY <1>0, <2>1, <2>2, ConsumersGoOn
<1>5. EvaluatorGoal'
  BY <1>0, <1>1, <1>2, <1>3, <1>4, <1>6, <1>7, <1>8, TakeRequested, CallRequested, StoreRequested,
     Zenon DEF Evaluator
<1> QED
  BY <1>0, <1>5, EvaluatorKeeps DEF Requested

\* Every step preserves EvaluatedInv.
LEMMA NextEvaluated == EvaluatedInv /\ [Next]_vars => EvaluatedInv'
<1> SUFFICES ASSUME EvaluatedInv, [Next]_vars
             PROVE  EvaluatedInv'
  OBVIOUS
<1>0. CacheInv /\ CacheInv' /\ TypeInv /\ TypeInv' /\ SyncOK /\ Requested
  BY NextCache DEF EvaluatedInv, CacheInv, TypeInv
<1>1. ASSUME UNCHANGED cacheVars, kv'.eval = kv.eval, UNCHANGED <<config, exported, updated, dropped>>,
             job' = job \/ (job.pc # "send" /\ (job'.pc = "recalc" => job'.page = 1))
      PROVE  Requested'
  <2>1. UNCHANGED <<messages, consumer, evaluated, old, outdated, missed>>
    BY <1>1, Zenon DEF cacheVars, answerVars
  <2> QED
    BY <1>0, <1>1, <2>1, JobGoesOn
<1>2. ASSUME CadencePasses, UNCHANGED cacheVars
      PROVE  Requested'
  BY <1>0, <1>1, <1>2, CadenceType
<1>3. ASSUME NEW e \in VmaasDBExported, runSync(e), UNCHANGED cacheVars
      PROVE  Requested'
  <2>1. job.pc = "idle"
    BY <1>3 DEF runSync
  <2> QED
    BY <1>0, <1>1, <1>3, <2>1, RunType
<1>4. ASSUME NEW bad \in SUBSET Advisories, NEW failed \in SUBSET Advisories,
             syncAdvisories(bad, failed), UNCHANGED cacheVars
      PROVE  Requested'
  <2>1. /\ job.pc = "errata" /\ job'.pc \in {"errata", "repos"}
        /\ UNCHANGED <<config, exported, updated, kv, dropped>>
    BY <1>0, <1>4, PageType
  <2> QED
    BY <1>1, <1>4, <2>1
<1>5. ASSUME NEW done \in SUBSET Advisories, ErrataPageFails(done), UNCHANGED cacheVars
      PROVE  Requested'
  <2>1. job.pc = "errata"
    BY <1>5 DEF ErrataPageFails
  <2>2. job'.pc = "idle" /\ UNCHANGED <<config, exported, updated, kv, dropped>>
    BY <1>0, <1>5, PageFailsType, IdleType
  <2> QED
    BY <1>1, <1>5, <2>1, <2>2
<1>14. ASSUME getUpdatedRepos, UNCHANGED cacheVars
       PROVE  Requested'
  <2>1. /\ job.pc = "repos" /\ job'.pc \in {"repos", "mark"}
        /\ UNCHANGED <<config, exported, updated, kv, dropped>>
    BY <1>0, <1>14, ReposListType
  <2> QED
    BY <1>1, <1>14, <2>1
<1>6. ASSUME NEW both \in BOOLEAN, syncRepos(both), UNCHANGED cacheVars
      PROVE  Requested'
  <2>1. /\ job.pc = "mark" /\ job'.pc \in {"stamps", "idle"}
        /\ UNCHANGED <<config, exported, updated, kv, dropped>>
    BY <1>0, <1>6, ReposType
  <2> QED
    BY <1>1, <1>6, <2>1
<1>7. ASSUME storeTimestamps, UNCHANGED cacheVars
      PROVE  Requested'
  <2>1. /\ job.pc = "stamps" /\ (job'.pc = "recalc" => job'.page = 1) /\ kv'.eval = kv.eval
        /\ UNCHANGED <<config, exported, updated, dropped>>
    BY <1>0, <1>7, StampsType
  <2> QED
    BY <1>1, <1>7, <2>1
<1>8. ASSUME getAllInventoryIDs, UNCHANGED cacheVars
      PROVE  Requested'
  <2>1. job.pc = "recalc" /\ UNCHANGED <<kv, dropped>>
    BY <1>8, Zenon DEF getAllInventoryIDs, dbVars
  <2>2. job'.pc = "send"
    BY <1>0, <1>8 DEF getAllInventoryIDs, SyncOK, JobType
  <2>3. UNCHANGED <<config, exported, updated>>
    BY <1>0, <1>8, AllType DEF Recalculated
  <2> QED
    BY <1>1, <1>8, <2>1, <2>2, <2>3
<1>9. ASSUME JobEnds, UNCHANGED cacheVars
      PROVE  Requested'
  <2>1. /\ dropped' = IF job.pc = "send" THEN dropped \cup job.ids ELSE dropped
        /\ UNCHANGED <<config, exported, updated, kv>>
    BY <1>9, Zenon DEF JobEnds, vmaasVars, dbVars
  <2>2. job'.pc = "idle"
    BY <1>9, IdleType DEF JobEnds
  <2>3. UNCHANGED <<messages, consumer, evaluated, old, outdated, missed>>
    BY <1>9, Zenon DEF cacheVars, answerVars
  <2> QED
    BY <1>0, <2>1, <2>2, <2>3, JobGoesOn
<1>10. ASSUME NEW delivered \in SUBSET Systems, NEW sameSecond \in SUBSET Systems,
              Requests(delivered, sameSecond)
       PROVE  Requested'
  <2>1. /\ SendMessages(delivered) /\ messages' = messages \cup delivered
        /\ old' = old \ (delivered \ sameSecond)
        /\ missed' = missed \cup sameSecond
                       \cup {s \in delivered : \E c \in Evaluating(s) : consumer[c].answer # NIL}
        /\ UNCHANGED <<consumer, evaluated, outdated>>
    BY <1>10, Zenon DEF Requests
  <2>2. /\ dropped' = (dropped \ delivered) \cup (job.ids \ delivered)
        /\ UNCHANGED <<config, exported, updated, kv>>
    BY <2>1, Zenon DEF SendMessages, vmaasVars, dbVars
  <2>3. job'.pc = "idle"
    BY <2>1, IdleType DEF SendMessages
  <2>4. /\ dropped \subseteq dropped' \cup delivered /\ job.ids \subseteq dropped' \cup delivered
        /\ old' \subseteq old /\ missed \subseteq missed' /\ messages \ old \subseteq messages' \ old'
    BY <2>1, <2>2
  <2>5. \A s \in delivered \ missed' :
          /\ s \in messages' \ old'
          /\ \A c \in Consumers : consumer[c].sys = s => consumer[c].answer = NIL
    BY <2>1 DEF Evaluating
  <2> QED
    BY <1>0, <2>1, <2>2, <2>3, <2>4, <2>5, JobKeeps
<1>11. ASSUME VmaasStep \/ SyncStep, UNCHANGED cacheVars
       PROVE  Requested'
  BY <1>0, <1>2, <1>3, <1>4, <1>5, <1>6, <1>7, <1>8, <1>9, <1>11, <1>14, ExportRequested,
     ReposPageRequested, VmaasSteps, Zenon DEF SyncStep
<1>12. ASSUME UNCHANGED syncVars, UNCHANGED cacheVars
       PROVE  Requested'
  <2>1. UNCHANGED cacheVars /\ UNCHANGED <<config, exported, updated, kv, job, dropped>>
    BY <1>12, Zenon DEF syncVars
  <2> QED
    BY <1>1, <2>1
<1>13. Requested'
  BY <1>0, <1>10, <1>11, <1>12, Steps, EvaluatorRequested, Zenon
<1> QED
  BY <1>0, <1>13 DEF EvaluatedInv

\* A package update that vmaas_sync has handled was used in an evaluation of every system it
\* concerns, or a named step lost it (a request that was not sent or is skipped, an old answer,
\* a call or a transaction that failed): for any repos on any pages, exports between any two
\* pages, jobs that die at any step, and any consumers that share the cache.
THEOREM EvaluatedHolds == Spec => []EvaluatedUnlessLost
<1>1. Init => EvaluatedInv
  <2> SUFFICES ASSUME Init
               PROVE  EvaluatedInv
    OBVIOUS
  <2>1. CacheInv
    <3>1. /\ kv.exported = NIL /\ validity = NIL /\ job.pc = "idle"
          /\ \A k \in Checksums : cache[k] = NIL /\ \A c \in Consumers : consumer[c].pc = "ready"
      BY IdleType DEF Init, SyncInit
    <3> QED
      BY <3>1, InitType DEF CacheInv, StampsArePast, AnswerIsFresh, CacheOldOnlyIfOverlapped
  <2>2. /\ kv.eval = NIL /\ job.pc = "idle" /\ exported = 1 /\ old = {}
        /\ \A c \in Consumers : consumer[c].pc = "ready" /\ consumer[c].sys = NIL
        /\ \A l \in Labels : \A v \in Variants[l] : \A p \in Packages : updated[l][v][p] \in {0, 1}
    BY IdleType DEF Init, SyncInit, Ready
  <2>3. UpdatesArePast
    BY <2>2 DEF UpdatesArePast
  <2>4. PagesRead /\ EvaluatorGoal
    BY <2>2, SyncAssumption DEF PagesRead, EvaluatorGoal, ReadyIsFree, EvaluatesAlone, RequestIsNew,
                                AnswersCover, Covered
  <2> QED
    BY <2>1, <2>3, <2>4 DEF EvaluatedInv, Requested
<1>2. EvaluatedInv => EvaluatedUnlessLost
  <2> SUFFICES ASSUME EvaluatedInv, config.repoBased,
                      NEW s \in Systems \ (dropped \cup outdated \cup missed),
                      s \notin messages, Evaluating(s) = {}
               PROVE  Covered(s, evaluated[s])
    BY DEF EvaluatedUnlessLost, Covered
  <2>1. evaluated[s] \in Times
    BY DEF EvaluatedInv, CacheInv, TypeInv, DoneOK
  <2>2. Answer(s, evaluated[s])
    BY DEF Answer, Evaluating
  <2> QED
    BY <2>1, <2>2 DEF EvaluatedInv, Requested, EvaluatorGoal, AnswersCover
<1> QED
  BY <1>1, <1>2, NextEvaluated, PTL DEF Spec

=============================================================================
