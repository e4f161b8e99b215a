--------------------------- MODULE DatabaseProofs ---------------------------
(***************************************************************************)
(* Theorems about what the components share through the database.          *)
(*                                                                         *)
(* AdvisoryCounts, for any systems, advisories and number of evaluators,   *)
(* and without the bounds: type correctness, the exactness of the counts,  *)
(* what a valid cache says, and that what a counted system shows as        *)
(* installable was announced.                                              *)
(*                                                                         *)
(* DbMigration, for any number of users, migrators, files, retries and     *)
(* panics: its safety invariants.                                          *)
(***************************************************************************)
EXTENDS AdvisoryCounts, DbMigration, FiniteSetTheorems, TLAPS

-----------------------------------------------------------------------------
(* Advisory counts *)

\* An evaluation at work has a system.
HasSystem ==
    \A e \in Evaluators : ev[e].pc \in {"loaded", "compared", "stored"} => ev[e].s \in Systems

\* The inductive invariant behind the type invariant.
TypeInv == TypeOK /\ HasSystem

\* The first evaluation of a system finds no advisories of it.
UnevaluatedHasNone ==
    \A s \in Systems : alive[s] /\ ~evaluated[s] => \A a \in Advisories : status[s][a] = "none"

\* A system whose row a transaction has locked is there.
PendingIsAlive == \A s \in Systems : pend[s].what # "none" => alive[s]

\* An advisory without a row has no counts.
NoRowNoCounts == \A a \in Advisories \ rows : counts[a] = Zero

\* The recount deletes rows of advisories it has not counted.
DoomedIsZero == \A a \in job.doomed : job.cnt[a] = Zero

\* What the recount has counted is still so where nobody has written since, and what it
\* will not write has no counts.
CountIsFresh ==
    job.pc = "counted" => \A a \in Advisories \ job.late :
        /\ job.cnt[a] = Recount(a)
        /\ job.cnt[a] = Zero /\ a \notin job.doomed => counts[a] = Zero

\* The inductive invariant behind CountsExactUnlessDrifted.
ExactInv ==
    /\ TypeInv /\ UnevaluatedHasNone /\ PendingIsAlive /\ NoRowNoCounts /\ DoomedIsZero
    /\ CountIsFresh /\ CountsExactUnlessDrifted

\* The job has not missed anything since its recount.
RefreshedIsExact == job.pc = "refreshed" /\ ~missed => drifted = {}

\* Whoever puts the counts of a valid cache out of step has yet to invalidate it.
DriftIsAnnounced ==
    valid /\ ~missed /\ drifted # {} => \E e \in Evaluators : ev[e].pc = "done"

\* The inductive invariant behind ValidIsExactUnlessMissed.
ValidInv == ExactInv /\ RefreshedIsExact /\ DriftIsAnnounced

\* A row is locked by one transaction at most.
OneHolder ==
    \A e, f \in Evaluators, a \in Advisories : Holds(e, a) /\ Holds(f, a) => e = f

\* A row that the recount has locked is locked by no evaluation.
RecountHoldsAlone == \A e \in Evaluators, a \in Advisories : ~(HeldByJob(a) /\ Holds(e, a))

\* What an evaluation is about to mark was sent, if it was to be sent.
MarkIsSent ==
    \A e \in Evaluators : ev[e].pc = "stored" /\ ev[e].how = "sent" => ev[e].mark \subseteq sent

\* A marked advisory was sent, unless it is one of the silent ones.
NotifiedIsSent == notified \subseteq sent \union silent

\* An evaluation that adds an advisory to a row it has locked found it marked or is about
\* to mark it: nobody takes the mark or the count away while the row is locked.
AddedIsMarked ==
    \A e \in Evaluators, a \in Advisories :
        /\ ev[e].pc = "stored" /\ ~ev[e].stale /\ ev[e].valid
        /\ Change(ev[e].stored[a], ev[e].reported[a]) \in {"add", "update"}
        /\ counts[a].inst + DeltaOf(ev[e], a).inst > 0
        => a \in ev[e].mark \union notified

\* The inductive invariant behind InstallableWasAnnouncedUnlessSilent.
AnnounceInv ==
    /\ ExactInv /\ OneHolder /\ RecountHoldsAlone /\ MarkIsSent /\ NotifiedIsSent /\ AddedIsMarked
    /\ InstallableWasAnnouncedUnlessSilent

-----------------------------------------------------------------------------
(* Types *)

\* An idle evaluation has its type.
LEMMA IdleType == Idle \in Evaluation /\ Idle.pc = "idle" /\ Nothing \in Statuses
BY DEF Idle, Evaluation, Nothing, Statuses, Status

\* The delta of an evaluation is a pair of numbers.
LEMMA DeltaType ==
    ASSUME NEW x \in Evaluation, NEW a \in Advisories
    PROVE  DeltaOf(x, a) \in Count
<1>1. \A old, new : Delta(old, new) \in Count
  BY DEF Delta, Count, Zero
<1> QED
  BY <1>1 DEF DeltaOf, Count, Zero

\* What is stored is a status.
LEMMA StoredType ==
    ASSUME TypeOK, NEW x \in Evaluation, x.s \in Systems, NEW a \in Advisories
    PROVE  Stored(x, a) \in Status
<1>1. x.reported[a] \in Status /\ status[x.s][a] \in Status
  BY DEF TypeOK, Evaluation, Statuses
<1> QED
  BY <1>1 DEF Stored, Status

\* The counts of a recount are numbers of systems.
LEMMA RecountType ==
    ASSUME NEW a \in Advisories
    PROVE  /\ Recount(a).inst \in Nat /\ Recount(a).app \in Nat
           /\ Recount(a) \in Count
<1> DEFINE I == {s \in Systems : Counted(s) /\ status[s][a] \in {"installable"}}
           A == {s \in Systems : Counted(s) /\ status[s][a] \in {"installable", "applicable"}}
<1>1. IsFiniteSet(I) /\ IsFiniteSet(A)
  <2>1. I \subseteq Systems /\ A \subseteq Systems
    OBVIOUS
  <2> QED
    BY <2>1, FS_Subset, CountsAssumption
<1>2. Cardinality(I) \in Nat /\ Cardinality(A) \in Nat
  BY <1>1, FS_CardinalityType
<1>3. Recount(a) = [inst |-> Cardinality(I), app |-> Cardinality(A)]
  BY DEF Recount
<1> HIDE DEF I, A
<1> QED
  BY <1>2, <1>3 DEF Count

\* The type invariant by the parts of the state an action may change.
SystemType ==
    /\ status \in [Systems -> Statuses] /\ alive \in [Systems -> BOOLEAN]
    /\ evaluated \in [Systems -> BOOLEAN] /\ stale \in [Systems -> BOOLEAN]

CountType == rows \subseteq Advisories /\ counts \in [Advisories -> Count]

EvalType == ev \in [Evaluators -> Evaluation] /\ HasSystem

NoteType == notified \subseteq Advisories /\ sent \subseteq Advisories /\ silent \subseteq Advisories

HistType == drifted \subseteq Advisories /\ missed \in BOOLEAN

JobType == valid \in BOOLEAN /\ job \in Refresh

PendType == pend \in [Systems -> Pending]

BoundType == evals \in Nat /\ flips \in Nat /\ faults \in Nat

\* The parts make up the type invariant, before and after a step.
LEMMA TypeParts ==
    /\ TypeInv <=> /\ SystemType /\ CountType /\ EvalType /\ NoteType /\ HistType
                   /\ JobType /\ PendType /\ BoundType
    /\ TypeInv' <=> /\ SystemType' /\ CountType' /\ EvalType' /\ NoteType' /\ HistType'
                    /\ JobType' /\ PendType' /\ BoundType'
BY Zenon DEF TypeInv, TypeOK, SystemType, CountType, EvalType, NoteType, HistType, JobType,
             PendType, BoundType

\* A part that a step leaves alone keeps its type.
LEMMA PartsKept ==
    /\ SystemType /\ UNCHANGED sysVars => SystemType'
    /\ CountType /\ UNCHANGED tableVars => CountType'
    /\ EvalType /\ UNCHANGED ev => EvalType'
    /\ NoteType /\ UNCHANGED notes => NoteType'
    /\ HistType /\ UNCHANGED hist => HistType'
    /\ JobType /\ UNCHANGED <<valid, job>> => JobType'
    /\ PendType /\ UNCHANGED pend => PendType'
    /\ BoundType /\ UNCHANGED <<evals, flips, faults>> => BoundType'
<1>1. SystemType /\ UNCHANGED sysVars => SystemType'
  BY Zenon DEF SystemType, sysVars
<1>2. CountType /\ UNCHANGED tableVars => CountType'
  BY Zenon DEF CountType, tableVars
<1>3. EvalType /\ UNCHANGED ev => EvalType'
  BY Zenon DEF EvalType, HasSystem
<1>4. NoteType /\ UNCHANGED notes => NoteType'
  BY Zenon DEF NoteType, notes
<1>5. HistType /\ UNCHANGED hist => HistType'
  BY Zenon DEF HistType, hist
<1>6. JobType /\ UNCHANGED <<valid, job>> => JobType'
  BY Zenon DEF JobType
<1>7. BoundType /\ UNCHANGED <<evals, flips, faults>> => BoundType'
  BY Zenon DEF BoundType
<1>8. PendType /\ UNCHANGED pend => PendType'
  BY Zenon DEF PendType
<1> QED
  BY <1>1, <1>2, <1>3, <1>4, <1>5, <1>6, <1>7, <1>8

\* The job between its runs, and after a recount, has its type.
LEMMA NoJobType ==
    /\ NoJob \in Refresh /\ [NoJob EXCEPT !.pc = "refreshed"] \in Refresh
    /\ NoPending \in Pending
BY IdleType DEF NoJob, Refresh, Count, Zero, NoPending, Pending

\* What a change of others does to the job.
LEMMA Overtakes ==
    ASSUME job \in Refresh, NEW as \in SUBSET Advisories, Overtake(as)
    PROVE  /\ job' \in Refresh /\ job'.pc = job.pc /\ job'.cnt = job.cnt
           /\ job'.held = job.held /\ job'.doomed = job.doomed
           /\ job.pc = "counted" => job'.late = job.late \union as
<1>1. CASE job.pc = "counted"
  <2>1. job' = [job EXCEPT !.late = job.late \union as]
    BY <1>1 DEF Overtake
  <2>2. job.late \union as \in SUBSET Advisories
    BY DEF Refresh
  <2> QED
    BY <1>1, <2>1, <2>2 DEF Refresh
<1>2. CASE job.pc # "counted"
  BY <1>2 DEF Overtake
<1> QED
  BY <1>1, <1>2

\* The initial state satisfies the type invariant.
LEMMA InitType == Init => TypeInv
<1> SUFFICES ASSUME Init
             PROVE  TypeInv
  OBVIOUS
<1>1. SystemType
  BY IdleType DEF Init, SystemType
<1>2. CountType
  BY DEF Init, CountType, Count, Zero
<1>3. EvalType
  BY IdleType DEF Init, EvalType, HasSystem
<1>4. NoteType /\ JobType /\ PendType /\ BoundType /\ HistType
  BY NoJobType DEF Init, NoteType, JobType, PendType, BoundType, HistType
<1> QED
  BY <1>1, <1>2, <1>3, <1>4, TypeParts

\* The evaluation of e is replaced by one of its type.
LEMMA EvalReplaced ==
    ASSUME EvalType, NEW e \in Evaluators, NEW x \in Evaluation,
           x.pc \in {"loaded", "compared", "stored"} => x.s \in Systems,
           ev' = [ev EXCEPT ![e] = x]
    PROVE  EvalType'
BY DEF EvalType, HasSystem

\* The deltas of an evaluation, and the shares of a system, are added to the counts.
LEMMA PlusType == \A c, d \in Count : Plus(c, d) \in Count
BY DEF Plus, Count

\* What EvalStore makes of an evaluation, and of the notification.
LEMMA Stores ==
    ASSUME TypeInv, NEW e \in Evaluators, NEW how \in {"sent", "skipped", "failed"},
           EvalStore(e, how)
    PROVE  /\ ev[e].pc = "compared" /\ ev[e].s \in Systems
           /\ ev'[e] \in Evaluation /\ ev'[e].pc = "stored" /\ ev'[e].s = ev[e].s
           /\ ev'[e].stale = ev[e].stale /\ ev'[e].stored = ev[e].stored
           /\ ev'[e].reported = ev[e].reported /\ ev'[e].how = how
           /\ \A a \in Advisories : DeltaOf(ev'[e], a) # Zero => ~LockedFor(a, e)
           /\ \A a \in Advisories : a \in ev'[e].mark <=>
                /\ a \notin notified /\ Stored(ev'[e], a) # "none"
                /\ counts[a].inst + DeltaOf(ev'[e], a).inst > 0
           /\ sent' = IF how = "sent" THEN sent \union ev'[e].mark ELSE sent
           /\ ev' = [ev EXCEPT ![e] = ev'[e]]
           /\ UNCHANGED <<sysVars, tableVars, notified, silent, valid, hist, faults, pend, job, flips, evals>>
<1>0. ev \in [Evaluators -> Evaluation] /\ HasSystem /\ ev[e].pc = "compared" /\ ev[e] \in Evaluation
      /\ alive \in [Systems -> BOOLEAN]
  BY TypeParts DEF EvalType, SystemType, EvalStore
<1>1. ev[e].s \in Systems
  BY <1>0 DEF HasSystem
<1> DEFINE ok == ValidSystem(ev[e].s)
           x == [ev[e] EXCEPT !.pc = "stored", !.valid = ok, !.how = how]
           u == Unnotified(x)
           y == [x EXCEPT !.mark = u]
<1>2. /\ \A a \in Advisories : DeltaOf(x, a) # Zero => ~LockedFor(a, e)
      /\ sent' = IF how = "sent" THEN sent \union u ELSE sent
      /\ ev' = [ev EXCEPT ![e] = y]
      /\ UNCHANGED <<sysVars, tableVars, notified, silent, valid, hist, faults, pend, job, flips, evals>>
  BY Zenon DEF EvalStore, PublishNewAdvisoriesNotification, Others
<1>3. ok \in BOOLEAN
  BY <1>0, <1>1 DEF ValidSystem
<1> HIDE DEF ok
<1>4. /\ x \in Evaluation /\ x.pc = "stored" /\ x.s = ev[e].s /\ x.stale = ev[e].stale
      /\ x.stored = ev[e].stored /\ x.reported = ev[e].reported /\ x.how = how
  BY <1>0, <1>3 DEF Evaluation
<1>5. u = {a \in Advisories \ notified : Stored(x, a) # "none" /\ counts[a].inst + DeltaOf(x, a).inst > 0}
  BY DEF Unnotified
<1> HIDE DEF x, u
<1>6. /\ y \in Evaluation /\ y.pc = "stored" /\ y.s = x.s /\ y.stale = x.stale /\ y.valid = x.valid
      /\ y.stored = x.stored /\ y.reported = x.reported /\ y.how = x.how /\ y.mark = u
  BY <1>4, <1>5 DEF Evaluation
<1> HIDE DEF y
<1>7. \A a \in Advisories : DeltaOf(y, a) = DeltaOf(x, a) /\ Stored(y, a) = Stored(x, a)
  BY <1>6 DEF DeltaOf, Stored
<1>8. ev'[e] = y
  BY <1>0, <1>2
<1> QED
  BY <1>0, <1>1, <1>2, <1>4, <1>5, <1>6, <1>7, <1>8

\* What the other steps of an evaluator make of its evaluation.
LEMMA EvalMoves ==
    ASSUME TypeInv, NEW e \in Evaluators
    PROVE  /\ \A s \in Systems : EvalLoad(e, s) =>
                ev[e].pc = "idle" /\ ev'[e].pc = "loaded" /\ EvalType'
           /\ \A reported \in Statuses : EvalCompare(e, reported) =>
                ev[e].pc = "loaded" /\ ev'[e].pc = "compared" /\ EvalType'
           /\ EvalCommit(e) =>
                /\ ev[e].pc = "stored" /\ ev[e].s \in Systems /\ ev[e] \in Evaluation
                /\ ev'[e].pc = "done" /\ EvalType'
           /\ EvalInvalidate(e) \/ InvalidateFail(e) =>
                ev[e].pc = "done" /\ ev'[e].pc = "idle" /\ EvalType'
           /\ EvalFail(e) =>
                /\ ev[e].pc \in {"loaded", "compared", "stored"} /\ ev'[e].pc = "idle"
                /\ EvalType'
<1>0. EvalType /\ ev \in [Evaluators -> Evaluation] /\ SystemType
  BY TypeParts DEF EvalType
<1>1. ASSUME NEW s \in Systems, EvalLoad(e, s)
      PROVE  ev[e].pc = "idle" /\ ev'[e].pc = "loaded" /\ EvalType'
  <2> DEFINE x == [Idle EXCEPT !.pc = "loaded", !.s = s, !.stale = stale[s]]
  <2>1. ev[e].pc = "idle" /\ ev' = [ev EXCEPT ![e] = x]
    BY <1>1, Zenon DEF EvalLoad
  <2>2. x \in Evaluation /\ x.pc = "loaded" /\ x.s \in Systems
    BY <1>0, IdleType DEF Evaluation, SystemType
  <2> HIDE DEF x
  <2> QED
    BY <1>0, <2>1, <2>2, EvalReplaced
<1>2. ASSUME NEW reported \in Statuses, EvalCompare(e, reported)
      PROVE  ev[e].pc = "loaded" /\ ev'[e].pc = "compared" /\ EvalType'
  <2> DEFINE x == [ev[e] EXCEPT !.pc = "compared", !.stored = status[ev[e].s],
                                !.reported = reported]
  <2>1. ev[e].pc = "loaded" /\ ev' = [ev EXCEPT ![e] = x]
    BY <1>2 DEF EvalCompare
  <2>2. ev[e].s \in Systems
    BY <1>0, <2>1 DEF EvalType, HasSystem
  <2>3. x \in Evaluation /\ x.pc = "compared" /\ x.s \in Systems
    BY <1>0, <2>2 DEF Evaluation, SystemType
  <2> HIDE DEF x
  <2> QED
    BY <1>0, <2>1, <2>3, EvalReplaced
<1>3. ASSUME EvalCommit(e)
      PROVE  /\ ev[e].pc = "stored" /\ ev[e].s \in Systems /\ ev[e] \in Evaluation
             /\ ev'[e].pc = "done" /\ EvalType'
  <2> DEFINE x == [Idle EXCEPT !.pc = "done"]
  <2>1. ev[e].pc = "stored" /\ ev' = [ev EXCEPT ![e] = x]
    BY <1>3, Zenon DEF EvalCommit
  <2>2. x \in Evaluation /\ x.pc = "done"
    BY IdleType DEF Evaluation
  <2> HIDE DEF x
  <2> QED
    BY <1>0, <2>1, <2>2, EvalReplaced DEF EvalType, HasSystem
<1>4. ASSUME EvalInvalidate(e) \/ InvalidateFail(e) \/ EvalFail(e)
      PROVE  ev'[e].pc = "idle" /\ EvalType'
  <2>1. ev' = [ev EXCEPT ![e] = Idle]
    BY <1>4, Zenon DEF EvalInvalidate, InvalidateFail, EvalFail
  <2> QED
    BY <1>0, <2>1, EvalReplaced, IdleType
<1>5. EvalInvalidate(e) \/ InvalidateFail(e) => ev[e].pc = "done"
  BY DEF EvalInvalidate, InvalidateFail
<1>6. EvalFail(e) => ev[e].pc \in {"loaded", "compared", "stored"}
  BY DEF EvalFail
<1> QED
  BY <1>1, <1>2, <1>3, <1>4, <1>5, <1>6

\* A step of an evaluator leaves the evaluations of the others alone.
LEMMA OthersKept ==
    ASSUME TypeInv, NEW e \in Evaluators,
           \/ \E s \in Systems : EvalLoad(e, s)
           \/ \E reported \in Statuses : EvalCompare(e, reported)
           \/ \E how \in {"sent", "skipped", "failed"} : EvalStore(e, how)
           \/ EvalCommit(e) \/ EvalInvalidate(e) \/ InvalidateFail(e) \/ EvalFail(e)
    PROVE  \A f \in Evaluators : f # e => ev'[f] = ev[f]
<1>0. ev \in [Evaluators -> Evaluation]
  BY TypeParts DEF EvalType
<1>1. \E x : ev' = [ev EXCEPT ![e] = x]
  <2>1. CASE \E s \in Systems : EvalLoad(e, s)
    BY <2>1, Zenon DEF EvalLoad
  <2>2. CASE \E reported \in Statuses : EvalCompare(e, reported)
    <3> PICK reported \in Statuses : EvalCompare(e, reported)
      BY <2>2
    <3> DEFINE x == [ev[e] EXCEPT !.pc = "compared", !.stored = status[ev[e].s],
                                  !.reported = reported]
    <3>1. ev' = [ev EXCEPT ![e] = x]
      BY DEF EvalCompare
    <3> QED
      BY <3>1, Zenon
  <2>3. CASE \E how \in {"sent", "skipped", "failed"} : EvalStore(e, how)
    BY <2>3, Zenon DEF EvalStore
  <2>4. CASE EvalCommit(e)
    BY <2>4, Zenon DEF EvalCommit
  <2>5. CASE EvalInvalidate(e) \/ InvalidateFail(e) \/ EvalFail(e)
    BY <2>5, Zenon DEF EvalInvalidate, InvalidateFail, EvalFail
  <2> QED
    BY <2>1, <2>2, <2>3, <2>4, <2>5
<1> QED
  BY <1>0, <1>1

\* The local definitions of EvalCommit.
Apart(x) == stale[x.s] # x.stale \/ ~alive[x.s] \/ ~x.valid
InexactOf(x) == {a \in Advisories : \/ Apart(x) \/ status[x.s][a] # x.stored[a]
                                    \/ ~x.stale /\ Inexact(x.stored[a], x.reported[a])}
Told(x) == IF x.how = "sent" THEN x.mark ELSE {}
ChangedBy(e) == {a \in Advisories : Holds(e, a)}

\* What a commit does.
LEMMA Commits ==
    ASSUME NEW e \in Evaluators, EvalCommit(e)
    PROVE  /\ ev[e].pc = "stored"
           /\ status' = [status EXCEPT ![ev[e].s] = [a \in Advisories |-> Stored(ev[e], a)]]
           /\ rows' = rows \union ChangedBy(e)
           /\ counts' = [a \in Advisories |-> Plus(counts[a], DeltaOf(ev[e], a))]
           /\ evaluated' = [evaluated EXCEPT ![ev[e].s] = @ \/ alive[ev[e].s]]
           /\ Marked(e)
           /\ drifted' = drifted \union InexactOf(ev[e])
           /\ missed' = (missed \/ (job.pc = "refreshed" /\ InexactOf(ev[e]) # {}))
           /\ Overtake(InexactOf(ev[e]) \union ChangedBy(e))
           /\ silent' = (silent \ Told(ev[e])) \union (ev[e].mark \ Told(ev[e]))
                          \union (drifted' \ notified')
           /\ UNCHANGED <<alive, stale, sent, valid, faults, pend, flips, evals>>
BY Zenon DEF EvalCommit, Apart, InexactOf, Told, ChangedBy

\* The marks of a commit.
LEMMA Marks ==
    ASSUME TypeInv, NEW e \in Evaluators, EvalCommit(e)
    PROVE  /\ notified \subseteq notified' /\ notified' \subseteq notified \union ev[e].mark
           /\ ev[e].how = "failed" => notified' = notified
           /\ ev[e].how # "failed" =>
                \A a \in ev[e].mark : a \in notified' \/ a \notin rows'
           /\ ev[e].how # "failed" => \A a \in ev[e].mark : ~LockedFor(a, e)
<1>1. Marked(e)
  BY Commits
<1> DEFINE mark == IF ev[e].how = "failed" THEN {} ELSE ev[e].mark
<1>2. notified' = notified \union (mark \intersect rows')
  BY <1>1, Zenon DEF Marked
<1>3. \A a \in mark : ~LockedFor(a, e)
  BY <1>1, Zenon DEF Marked
<1> QED
  BY <1>2, <1>3

\* The steps of an evaluator preserve the type invariant.
LEMMA EvaluatorType ==
    ASSUME TypeInv, NEW e \in Evaluators,
           \/ \E s \in Systems : EvalLoad(e, s)
           \/ \E reported \in Statuses : EvalCompare(e, reported)
           \/ \E how \in {"sent", "skipped", "failed"} : EvalStore(e, how)
           \/ EvalCommit(e) \/ EvalInvalidate(e) \/ InvalidateFail(e) \/ EvalFail(e)
    PROVE  TypeInv'
<1> USE TypeParts
<1>1. CASE \E s \in Systems : EvalLoad(e, s)
  <2> PICK s \in Systems : EvalLoad(e, s)
    BY <1>1
  <2>1. EvalType'
    BY EvalMoves
  <2>2. /\ evals' = evals + 1
        /\ UNCHANGED <<sysVars, tableVars, notes, valid, hist, pend, job, flips, faults>>
    BY Zenon DEF EvalLoad
  <2>3. BoundType'
    BY <2>2 DEF BoundType
  <2> QED
    BY <2>1, <2>2, <2>3, PartsKept
<1>2. CASE \E reported \in Statuses : EvalCompare(e, reported)
  <2> PICK reported \in Statuses : EvalCompare(e, reported)
    BY <1>2
  <2>1. EvalType'
    BY EvalMoves
  <2>2. UNCHANGED <<sysVars, tableVars, notes, valid, hist, pend, job, flips, evals, faults>>
    BY Zenon DEF EvalCompare, Others
  <2> QED
    BY <2>1, <2>2, PartsKept
<1>3. CASE \E how \in {"sent", "skipped", "failed"} : EvalStore(e, how)
  <2> PICK how \in {"sent", "skipped", "failed"} : EvalStore(e, how)
    BY <1>3
  <2>1. /\ ev' = [ev EXCEPT ![e] = ev'[e]] /\ ev'[e] \in Evaluation /\ ev'[e].s \in Systems
        /\ sent' = IF how = "sent" THEN sent \union ev'[e].mark ELSE sent
        /\ UNCHANGED <<sysVars, tableVars, notified, silent, valid, hist, faults, pend, job, flips, evals>>
    BY Stores
  <2>2. EvalType'
    BY <2>1, EvalReplaced
  <2>3. NoteType'
    BY <2>1 DEF NoteType, Evaluation
  <2> QED
    BY <2>1, <2>2, <2>3, PartsKept
<1>4. CASE EvalCommit(e)
  <2>1. EvalType' /\ ev[e].s \in Systems /\ ev[e] \in Evaluation
    BY <1>4, EvalMoves
  <2>2. \A a \in Advisories : Stored(ev[e], a) \in Status /\ DeltaOf(ev[e], a) \in Count
    BY <2>1, StoredType, DeltaType DEF TypeInv
  <2> DEFINE new == [a \in Advisories |-> Stored(ev[e], a)]
             done == evaluated[ev[e].s] \/ alive[ev[e].s]
  <2>3. new \in Statuses /\ done \in BOOLEAN
    BY <2>2 DEF Statuses
  <2>4. status' = [status EXCEPT ![ev[e].s] = new] /\ evaluated' = [evaluated EXCEPT ![ev[e].s] = done]
        /\ UNCHANGED <<alive, stale>>
    BY <1>4, Commits
  <2> HIDE DEF new, done
  <2>5. SystemType'
    BY <2>1, <2>3, <2>4 DEF SystemType
  <2>6. CountType'
    <3>1. \A a \in Advisories : Plus(counts[a], DeltaOf(ev[e], a)) \in Count
      BY <2>2, PlusType DEF CountType
    <3>2. /\ counts' = [a \in Advisories |-> Plus(counts[a], DeltaOf(ev[e], a))]
          /\ rows' = rows \union ChangedBy(e)
      BY <1>4, Commits
    <3> QED
      BY <3>1, <3>2 DEF CountType, ChangedBy
  <2>7. drifted' \subseteq Advisories
    BY <1>4, Commits DEF InexactOf, HistType
  <2>8. missed' \in BOOLEAN
    BY <1>4, Commits DEF HistType
  <2>9. NoteType'
    <3>1. /\ silent' = (silent \ Told(ev[e])) \union (ev[e].mark \ Told(ev[e]))
                          \union (drifted' \ notified')
          /\ sent' = sent
      BY <1>4, Commits
    <3>2. notified' \subseteq notified \union ev[e].mark /\ ev[e].mark \subseteq Advisories
      BY <1>4, <2>1, Marks DEF Evaluation
    <3> QED
      BY <2>7, <3>1, <3>2 DEF NoteType
  <2>10. JobType'
    <3>1. Overtake(InexactOf(ev[e]) \union ChangedBy(e)) /\ valid' = valid
      BY <1>4, Commits
    <3>2. InexactOf(ev[e]) \union ChangedBy(e) \in SUBSET Advisories
      BY DEF InexactOf, ChangedBy
    <3> QED
      BY <3>1, <3>2, Overtakes DEF JobType
  <2> QED
    BY <1>4, <2>1, <2>5, <2>6, <2>7, <2>8, <2>9, <2>10, Commits, PartsKept DEF HistType
<1>5. CASE EvalInvalidate(e)
  <2>1. valid' \in BOOLEAN /\ UNCHANGED <<sysVars, tableVars, notes, hist, faults, pend, job, flips, evals>>
    BY <1>5, Zenon DEF EvalInvalidate, Others
  <2> QED
    BY <1>5, <2>1, EvalMoves, PartsKept DEF JobType
<1>6. CASE InvalidateFail(e)
  <2>1. /\ faults' = faults + 1 /\ missed' \in BOOLEAN
        /\ UNCHANGED <<sysVars, tableVars, notes, valid, drifted, pend, job, flips, evals>>
    BY <1>6, Zenon DEF InvalidateFail, Others
  <2>2. BoundType' /\ HistType'
    BY <2>1 DEF BoundType, HistType
  <2> QED
    BY <1>6, <2>1, <2>2, EvalMoves, PartsKept
<1>7. CASE EvalFail(e)
  <2>1. faults' = faults + 1 /\ UNCHANGED <<sysVars, tableVars, notes, valid, hist, pend, job, flips, evals>>
    BY <1>7, Zenon DEF EvalFail, Others
  <2>2. BoundType'
    BY <2>1 DEF BoundType
  <2> QED
    BY <1>7, <2>1, <2>2, EvalMoves, PartsKept
<1> QED
  BY <1>1, <1>2, <1>3, <1>4, <1>5, <1>6, <1>7

\* The local definitions of Trigger.
TriggerShare(s, gone, a) ==
    IF gone THEN Minus(Share(pend[s].seen[a])) ELSE Share(pend[s].seen[a])
ChangedIn(s) == {a \in Advisories : pend[s].seen[a] # "none"}
OutdatedIn(s) == {a \in Advisories : pend[s].seen[a] # Seen(s)[a]}

\* A share is a pair of numbers, and that of no advisory is nothing.
LEMMA ShareType ==
    /\ \A st : Share(st) \in Count /\ Minus(Share(st)) \in Count
    /\ \A c \in Count : Plus(c, Share("none")) = c /\ Plus(c, Minus(Share("none"))) = c
BY DEF Share, Minus, Count, Plus

\* The trigger adds a share to every count, and none to a locked one.
LEMMA TriggerAdds ==
    ASSUME TypeInv, NEW s \in Systems, NEW gone \in BOOLEAN, Trigger(s, gone)
    PROVE  /\ counts' = [a \in Advisories |-> Plus(counts[a], TriggerShare(s, gone, a))]
           /\ rows' = rows \union ChangedIn(s)
           /\ drifted' = drifted \union OutdatedIn(s)
           /\ missed' = (missed \/ OutdatedIn(s) # {})
           /\ Overtake(OutdatedIn(s) \union ChangedIn(s))
           /\ CountType' /\ HistType' /\ job' \in Refresh
           /\ \A a \in Advisories : Locked(a) \/ a \notin ChangedIn(s) => counts'[a] = counts[a]
<1>0. /\ counts \in [Advisories -> Count] /\ rows \subseteq Advisories
      /\ HistType /\ job \in Refresh
  BY TypeParts DEF CountType, JobType
<1>1. /\ counts' = [a \in Advisories |-> Plus(counts[a], TriggerShare(s, gone, a))]
      /\ rows' = rows \union ChangedIn(s)
      /\ drifted' = drifted \union OutdatedIn(s)
      /\ missed' = (missed \/ OutdatedIn(s) # {})
      /\ Overtake(OutdatedIn(s) \union ChangedIn(s))
      /\ \A a \in ChangedIn(s) : ~Locked(a)
  BY Zenon DEF Trigger, TriggerShare, ChangedIn, OutdatedIn
<1>2. OutdatedIn(s) \subseteq Advisories /\ ChangedIn(s) \subseteq Advisories
  BY DEF OutdatedIn, ChangedIn
<1>3. CountType'
  <2>1. \A a \in Advisories : TriggerShare(s, gone, a) \in Count
    BY ShareType DEF TriggerShare
  <2>2. \A a \in Advisories : Plus(counts[a], TriggerShare(s, gone, a)) \in Count
    BY <1>0, <2>1, PlusType
  <2> QED
    BY <1>0, <1>1, <1>2, <2>2 DEF CountType
<1>4. HistType'
  BY <1>0, <1>1, <1>2 DEF HistType
<1>5. job' \in Refresh
  <2>1. OutdatedIn(s) \union ChangedIn(s) \in SUBSET Advisories
    BY <1>2
  <2> QED
    BY <1>0, <1>1, <2>1, Overtakes
<1>6. ASSUME NEW a \in Advisories, Locked(a) \/ a \notin ChangedIn(s)
      PROVE  counts'[a] = counts[a]
  <2>1. pend[s].seen[a] = "none"
    BY <1>1, <1>6 DEF ChangedIn
  <2> QED
    BY <1>0, <1>1, <2>1, ShareType DEF TriggerShare
<1> QED
  BY <1>1, <1>3, <1>4, <1>5, <1>6

\* The transactions on the row of a system.
SystemStep(s) == StaleFlip(s) \/ FlipCommit(s) \/ DeleteSystem(s) \/ DeleteCommit(s)

\* What the trigger finds in its snapshot are statuses.
LEMMA SeenType == SystemType => \A s \in Systems : Seen(s) \in Statuses
BY IdleType DEF SystemType, Seen

\* Their steps preserve the type invariant.
LEMMA SystemsType ==
    ASSUME TypeInv, NEW s \in Systems, SystemStep(s)
    PROVE  TypeInv'
<1> USE TypeParts
<1>1. ASSUME NEW w \in {"flip", "delete"}, pend' = [pend EXCEPT ![s] = [what |-> w, seen |-> Seen(s)]]
      PROVE  PendType'
  <2>1. [what |-> w, seen |-> Seen(s)] \in Pending
    BY SeenType DEF Pending
  <2> QED
    BY <1>1, <2>1 DEF PendType
<1>2. pend' = [pend EXCEPT ![s] = NoPending] => PendType'
  BY NoJobType DEF PendType
<1>3. CASE StaleFlip(s)
  <2>1. /\ flips' = flips + 1 /\ pend' = [pend EXCEPT ![s] = [what |-> "flip", seen |-> Seen(s)]]
        /\ UNCHANGED <<sysVars, tableVars, notes, valid, ev, job, hist, evals, faults>>
    BY <1>3, Zenon DEF StaleFlip
  <2>2. PendType' /\ BoundType'
    BY <1>1, <2>1 DEF BoundType
  <2> QED
    BY <2>1, <2>2, PartsKept
<1>4. CASE FlipCommit(s)
  <2>1. /\ stale' = [stale EXCEPT ![s] = ~@] /\ Trigger(s, ~stale[s])
        /\ silent' = IF stale[s] THEN silent \union (Shown(s) \ notified) ELSE silent
        /\ pend' = [pend EXCEPT ![s] = NoPending]
        /\ UNCHANGED <<status, alive, evaluated, notified, sent, valid, ev, evals, flips, faults>>
    BY <1>4, Zenon DEF FlipCommit
  <2>2. CountType' /\ HistType' /\ JobType'
    <3>1. (~stale[s]) \in BOOLEAN
      OBVIOUS
    <3>2. CountType' /\ HistType' /\ job' \in Refresh
      BY <2>1, <3>1, TriggerAdds, Zenon
    <3> QED
      BY <2>1, <3>2 DEF JobType
  <2>3. SystemType'
    BY <2>1 DEF SystemType
  <2>4. NoteType'
    BY <2>1 DEF NoteType, Shown
  <2> QED
    BY <1>2, <2>1, <2>2, <2>3, <2>4, PartsKept
<1>5. CASE DeleteSystem(s)
  <2>1. /\ pend' = [pend EXCEPT ![s] = [what |-> "delete", seen |-> Seen(s)]]
        /\ UNCHANGED <<sysVars, tableVars, notes, valid, ev, job, hist, evals, flips, faults>>
    BY <1>5, Zenon DEF DeleteSystem
  <2>2. PendType'
    BY <1>1, <2>1
  <2> QED
    BY <2>1, <2>2, PartsKept
<1>6. CASE DeleteCommit(s)
  <2>1. /\ IF stale[s] THEN UNCHANGED <<tableVars, hist, job>> ELSE Trigger(s, TRUE)
        /\ alive' = [alive EXCEPT ![s] = FALSE] /\ evaluated' = [evaluated EXCEPT ![s] = FALSE]
        /\ status' = [status EXCEPT ![s] = Nothing] /\ pend' = [pend EXCEPT ![s] = NoPending]
        /\ UNCHANGED <<stale, notes, valid, ev, evals, flips, faults>>
    BY <1>6, Zenon DEF DeleteCommit
  <2>2. CountType' /\ HistType' /\ JobType'
    <3>1. CASE stale[s]
      BY <2>1, <3>1, PartsKept
    <3>2. CASE ~stale[s]
      <4>1. Trigger(s, TRUE)
        BY <2>1, <3>2
      <4>2. CountType' /\ HistType' /\ job' \in Refresh
        BY <4>1, TriggerAdds
      <4> QED
        BY <2>1, <4>2 DEF JobType
    <3> QED
      BY <3>1, <3>2
  <2>3. SystemType'
    BY <2>1, IdleType DEF SystemType
  <2> QED
    BY <1>2, <2>1, <2>2, <2>3, PartsKept
<1> QED
  BY <1>3, <1>4, <1>5, <1>6 DEF SystemStep

\* The local definitions of JobWrite and of the cleaning.
CountedByJob == {a \in Advisories : job.cnt[a] # Zero}
Written == CountedByJob \union job.doomed
Empty == {a \in rows : counts[a].inst <= 0 /\ counts[a].app <= 0}

\* What they do.
LEMMA JobWrites ==
    ASSUME JobWrite
    PROVE  /\ job.pc = "counted" /\ \A a \in Written \ job.held : ~Locked(a)
           /\ counts' = [a \in Advisories |-> IF a \in Written THEN job.cnt[a] ELSE counts[a]]
           /\ rows' = (rows \ job.doomed) \union CountedByJob
           /\ notified' = notified \ job.doomed
           /\ silent' = silent \union (notified \intersect job.doomed \intersect job.late)
           /\ drifted' = job.late \intersect (Written \union drifted)
           /\ missed' = (drifted' # {})
           /\ job' = [NoJob EXCEPT !.pc = "refreshed"]
           /\ UNCHANGED <<sysVars, sent, valid, ev, pend, evals, flips, faults>>
BY Zenon DEF JobWrite, CountedByJob, Written

LEMMA Cleans ==
    ASSUME CleanAdvisoryAccountData
    PROVE  /\ \A a \in Empty : ~Locked(a)
           /\ rows' = rows \ Empty
           /\ counts' = [a \in Advisories |-> IF a \in Empty THEN Zero ELSE counts[a]]
           /\ notified' = notified \ Empty
           /\ silent' = silent \union (notified \intersect Empty \intersect drifted)
           /\ job' = [job EXCEPT !.held = @ \ Empty, !.doomed = @ \ Empty]
           /\ UNCHANGED <<sysVars, sent, valid, ev, pend, hist, evals, flips, faults>>
BY Zenon DEF CleanAdvisoryAccountData, Empty

\* What the cleaning does to the job.
LEMMA CleansJob ==
    ASSUME job \in Refresh, CleanAdvisoryAccountData
    PROVE  /\ job' \in Refresh /\ job'.pc = job.pc /\ job'.cnt = job.cnt /\ job'.late = job.late
           /\ job'.doomed = job.doomed \ Empty /\ job'.held = job.held \ Empty
<1> DEFINE held == job.held \ Empty
           doomed == job.doomed \ Empty
<1>1. held \in SUBSET Advisories /\ doomed \in SUBSET Advisories
  BY DEF Refresh
<1>2. job' = [job EXCEPT !.held = held, !.doomed = doomed]
  BY Cleans
<1>3. doomed = job.doomed \ Empty /\ held = job.held \ Empty
  OBVIOUS
<1> HIDE DEF held, doomed
<1> QED
  BY <1>1, <1>2, <1>3 DEF Refresh

\* The steps of the jobs preserve the type invariant.
LEMMA JobsType ==
    ASSUME TypeInv,
           \/ JobLock \/ JobCount \/ JobWrite \/ JobErrOverwritten \/ JobSetValid \/ JobFail
           \/ CleanAdvisoryAccountData
    PROVE  TypeInv'
<1> USE TypeParts
<1>0. job \in Refresh /\ rows \subseteq Advisories /\ counts \in [Advisories -> Count]
  BY DEF JobType, CountType
<1>1. CASE JobLock
  <2>1. /\ job' = [NoJob EXCEPT !.pc = "locking", !.held = rows]
        /\ UNCHANGED <<sysVars, tableVars, notes, valid, ev, pend, hist, evals, flips, faults>>
    BY <1>1, Zenon DEF JobLock
  <2>2. job' \in Refresh
    BY <1>0, <2>1, NoJobType DEF Refresh
  <2> QED
    BY <2>1, <2>2, PartsKept DEF JobType
<1>2. CASE JobCount
  <2> DEFINE cnt == [a \in Advisories |-> Recount(a)]
             doomed == {a \in rows : Recount(a) = Zero}
  <2>1. /\ job' = [pc |-> "counted", held |-> job.held, cnt |-> cnt, doomed |-> doomed, late |-> {}]
        /\ UNCHANGED <<sysVars, tableVars, notes, valid, ev, pend, hist, evals, flips, faults>>
    BY <1>2, Zenon DEF JobCount
  <2>2. cnt \in [Advisories -> Count] /\ doomed \subseteq Advisories
    BY <1>0, RecountType
  <2> HIDE DEF cnt, doomed
  <2>3. job' \in Refresh
    BY <1>0, <2>1, <2>2 DEF Refresh
  <2> QED
    BY <2>1, <2>3, PartsKept DEF JobType
<1>3. CASE JobWrite
  <2>1. CountType'
    BY <1>0, <1>3, JobWrites DEF CountType, CountedByJob, Refresh
  <2>2. NoteType'
    BY <1>0, <1>3, JobWrites DEF NoteType
  <2>3. HistType'
    BY <1>0, <1>3, JobWrites DEF HistType, Refresh
  <2>4. JobType'
    BY <1>3, JobWrites, NoJobType DEF JobType
  <2> QED
    BY <1>3, <2>1, <2>2, <2>3, <2>4, JobWrites, PartsKept
<1>4. CASE JobErrOverwritten
  <2>1. missed' \in BOOLEAN /\ faults' = faults + 1 /\ job' = [NoJob EXCEPT !.pc = "refreshed"]
        /\ UNCHANGED <<sysVars, tableVars, notes, valid, ev, pend, drifted, evals, flips>>
    BY <1>4, Zenon DEF JobErrOverwritten
  <2>2. HistType' /\ JobType' /\ BoundType'
    BY <2>1, NoJobType DEF HistType, JobType, BoundType
  <2> QED
    BY <2>1, <2>2, PartsKept
<1>5. CASE JobSetValid
  <2>1. valid' \in BOOLEAN /\ job' = NoJob
        /\ UNCHANGED <<sysVars, tableVars, notes, ev, pend, hist, evals, flips, faults>>
    BY <1>5, Zenon DEF JobSetValid
  <2> QED
    BY <2>1, PartsKept, NoJobType DEF JobType
<1>6. CASE JobFail
  <2>1. faults' = faults + 1 /\ job' = NoJob
        /\ UNCHANGED <<sysVars, tableVars, notes, valid, ev, pend, hist, evals, flips>>
    BY <1>6, Zenon DEF JobFail
  <2>2. JobType' /\ BoundType'
    BY <2>1, NoJobType DEF JobType, BoundType
  <2> QED
    BY <2>1, <2>2, PartsKept
<1>7. CASE CleanAdvisoryAccountData
  <2>1. CountType'
    <3>1. Zero \in Count
      BY DEF Zero, Count
    <3> QED
      BY <1>0, <1>7, <3>1, Cleans DEF CountType
  <2>2. NoteType'
    BY <1>0, <1>7, Cleans DEF NoteType
  <2>3. JobType'
    BY <1>0, <1>7, Cleans, CleansJob DEF JobType
  <2> QED
    BY <1>7, <2>1, <2>2, <2>3, Cleans, PartsKept
<1> QED
  BY <1>1, <1>2, <1>3, <1>4, <1>5, <1>6, <1>7

\* Every step preserves the type invariant.
LEMMA NextType == TypeInv /\ [Next]_vars => TypeInv'
<1>1. TypeInv /\ UNCHANGED vars => TypeInv'
  BY TypeParts, PartsKept, Zenon DEF vars, sysVars, tableVars, notes, hist
<1> QED
  BY <1>1, EvaluatorType, SystemsType, JobsType, Zenon DEF Next, SystemStep

\* The systems, the rows of advisory_account_data, the evaluations and the job keep their
\* types, however the evaluators, the trigger and the jobs interleave.
THEOREM TypeCorrect == Spec => []TypeOK
<1>1. Spec => []TypeInv
  BY InitType, NextType, PTL DEF Spec
<1>2. TypeInv => TypeOK
  BY DEF TypeInv
<1> QED
  BY <1>1, <1>2, PTL

-----------------------------------------------------------------------------
(* Counts are exact unless drifted *)

\* What the systems of a recount have to do with one of them.
Contribution(s, a) == IF Counted(s) THEN Share(status[s][a]) ELSE Zero

\* Sets that differ in one element at most.
LEMMA OneElement ==
    ASSUME NEW S, NEW T, NEW x, IsFiniteSet(S), IsFiniteSet(T), S \ {x} = T \ {x}
    PROVE  /\ Cardinality(S) \in Nat /\ Cardinality(T) \in Nat
           /\ Cardinality(T) + (IF x \in S THEN 1 ELSE 0)
                = Cardinality(S) + (IF x \in T THEN 1 ELSE 0)
<1>1. /\ IsFiniteSet(S \ {x})
      /\ Cardinality(S \ {x}) = IF x \in S THEN Cardinality(S) - 1 ELSE Cardinality(S)
      /\ Cardinality(T \ {x}) = IF x \in T THEN Cardinality(T) - 1 ELSE Cardinality(T)
  BY FS_RemoveElement
<1>2. Cardinality(S) \in Nat /\ Cardinality(T) \in Nat
  BY FS_CardinalityType
<1>3. Cardinality(S \ {x}) = Cardinality(T \ {x})
  BY Zenon
<1>4. CASE x \in S /\ x \in T
  BY <1>1, <1>2, <1>3, <1>4
<1>5. CASE x \in S /\ x \notin T
  BY <1>1, <1>2, <1>3, <1>5
<1>6. CASE x \notin S /\ x \in T
  BY <1>1, <1>2, <1>3, <1>6
<1>7. CASE x \notin S /\ x \notin T
  BY <1>1, <1>2, <1>3, <1>7
<1> QED
  BY <1>4, <1>5, <1>6, <1>7

\* A step that changes one system changes the recount by its contribution.
LEMMA RecountOfOne ==
    ASSUME TypeInv, TypeInv', NEW s \in Systems, NEW a \in Advisories,
           \A t \in Systems \ {s} : (Counted(t)' <=> Counted(t)) /\ status'[t][a] = status[t][a]
    PROVE  Recount(a)' = Plus(Recount(a), Plus(Contribution(s, a)', Minus(Contribution(s, a))))
<1> DEFINE I == {t \in Systems : Counted(t) /\ status[t][a] \in {"installable"}}
           A == {t \in Systems : Counted(t) /\ status[t][a] \in {"installable", "applicable"}}
<1>1. IsFiniteSet(I) /\ IsFiniteSet(A) /\ IsFiniteSet(I') /\ IsFiniteSet(A')
  <2>1. I \subseteq Systems /\ A \subseteq Systems /\ I' \subseteq Systems /\ A' \subseteq Systems
    OBVIOUS
  <2> QED
    BY <2>1, FS_Subset, CountsAssumption
<1>2. I \ {s} = I' \ {s} /\ A \ {s} = A' \ {s}
  OBVIOUS
<1>3. /\ Recount(a) = [inst |-> Cardinality(I), app |-> Cardinality(A)]
      /\ Recount(a)' = [inst |-> Cardinality(I'), app |-> Cardinality(A')]
  BY DEF Recount
<1>4. status[s][a] \in Status /\ status'[s][a] \in Status
  BY TypeParts DEF SystemType, Statuses
<1>5. /\ Contribution(s, a) = [inst |-> IF s \in I THEN 1 ELSE 0, app |-> IF s \in A THEN 1 ELSE 0]
      /\ Contribution(s, a)' = [inst |-> IF s \in I' THEN 1 ELSE 0,
                                app |-> IF s \in A' THEN 1 ELSE 0]
  BY <1>4 DEF Contribution, Share, Zero, Status
<1> HIDE DEF I, A
<1>6. /\ Cardinality(I) \in Nat /\ Cardinality(I') \in Nat
      /\ Cardinality(I') + (IF s \in I THEN 1 ELSE 0) = Cardinality(I) + (IF s \in I' THEN 1 ELSE 0)
      /\ Cardinality(A) \in Nat /\ Cardinality(A') \in Nat
      /\ Cardinality(A') + (IF s \in A THEN 1 ELSE 0) = Cardinality(A) + (IF s \in A' THEN 1 ELSE 0)
  BY <1>1, <1>2, OneElement
<1>7. /\ Cardinality(I') = Cardinality(I) + ((IF s \in I' THEN 1 ELSE 0) + -(IF s \in I THEN 1 ELSE 0))
      /\ Cardinality(A') = Cardinality(A) + ((IF s \in A' THEN 1 ELSE 0) + -(IF s \in A THEN 1 ELSE 0))
  BY <1>6
<1> QED
  BY <1>3, <1>5, <1>7 DEF Plus, Minus

\* An exact change adds the difference of the shares.
LEMMA DeltaExact ==
    ASSUME NEW old \in Status, NEW new \in Status, ~Inexact(old, new)
    PROVE  /\ Delta(old, new) = Plus(Share(new), Minus(Share(old)))
           /\ Change(old, new) = "nothing" => old = "none" /\ new = "none"
           /\ Change(old, new) = "keep" => new = old /\ new # "none"
           /\ Change(old, new) = "remove" => new = "none"
           /\ Change(old, new) \in {"nothing", "keep", "remove", "add"}
<1>1. CASE old = "none"
  BY <1>1 DEF Status, Inexact, Change, Delta, Plus, Minus, Share, Zero
<1>2. CASE old = "installable"
  BY <1>2 DEF Status, Inexact, Change, Delta, Plus, Minus, Share, Zero
<1>3. CASE old = "applicable"
  BY <1>3 DEF Status, Inexact, Change, Delta, Plus, Minus, Share, Zero
<1> QED
  BY <1>1, <1>2, <1>3 DEF Status

\* A recount looks at the systems only.
LEMMA RecountKept ==
    ASSUME UNCHANGED sysVars
    PROVE  /\ \A a \in Advisories : Recount(a)' = Recount(a)
           /\ \A s \in Systems : Counted(s)' = Counted(s)
           /\ UNCHANGED <<status, alive, evaluated, stale>>
<1>1. UNCHANGED <<status, alive, evaluated, stale>>
  BY Zenon DEF sysVars
<1>2. \A s \in Systems : Counted(s)' = Counted(s)
  BY <1>1, Zenon DEF Counted
<1>3. \A a \in Advisories : Recount(a)' = Recount(a)
  BY <1>1, Zenon DEF Recount, Counted
<1> QED
  BY <1>1, <1>2, <1>3

\* A trigger whose snapshot is not outdated changes the counts as the step changes the
\* recount.
LEMMA FlipRecount ==
    ASSUME TypeInv, TypeInv', PendingIsAlive, NEW s \in Systems, FlipCommit(s),
           NEW a \in Advisories, a \notin OutdatedIn(s)
    PROVE  Recount(a)' = Plus(Recount(a), TriggerShare(s, ~stale[s], a))
<1>0. /\ status \in [Systems -> Statuses] /\ alive \in [Systems -> BOOLEAN]
      /\ evaluated \in [Systems -> BOOLEAN] /\ stale \in [Systems -> BOOLEAN]
  BY TypeParts DEF SystemType
<1>1. /\ UNCHANGED <<status, alive, evaluated>> /\ stale' = [stale EXCEPT ![s] = ~@]
      /\ pend[s].what = "flip"
  BY Zenon DEF FlipCommit
<1>2. alive[s] /\ stale'[s] = ~stale[s]
  BY <1>0, <1>1 DEF PendingIsAlive
<1>3. Recount(a)' = Plus(Recount(a), Plus(Contribution(s, a)', Minus(Contribution(s, a))))
  <2>1. \A t \in Systems \ {s} : (Counted(t)' <=> Counted(t)) /\ status'[t][a] = status[t][a]
    BY <1>0, <1>1 DEF Counted
  <2> QED
    BY <2>1, RecountOfOne
<1>4. pend[s].seen[a] = IF evaluated[s] THEN status[s][a] ELSE "none"
  BY DEF OutdatedIn, Seen, Nothing
<1>5. TriggerShare(s, ~stale[s], a) = Plus(Contribution(s, a)', Minus(Contribution(s, a)))
  <2>1. CASE evaluated[s]
    <3>1. /\ Contribution(s, a) = IF stale[s] THEN Zero ELSE Share(status[s][a])
          /\ Contribution(s, a)' = IF stale[s] THEN Share(status[s][a]) ELSE Zero
      BY <1>1, <1>2, <2>1 DEF Contribution, Counted
    <3> QED
      BY <1>4, <2>1, <3>1 DEF TriggerShare, Plus, Minus, Share, Zero
  <2>2. CASE ~evaluated[s]
    <3>1. Contribution(s, a) = Zero /\ Contribution(s, a)' = Zero
      BY <1>1, <2>2 DEF Contribution, Counted
    <3> QED
      BY <1>4, <2>2, <3>1 DEF TriggerShare, Plus, Minus, Share, Zero
  <2> QED
    BY <2>1, <2>2
<1> QED
  BY <1>3, <1>5

LEMMA DeleteRecount ==
    ASSUME TypeInv, TypeInv', PendingIsAlive, NEW s \in Systems, DeleteCommit(s),
           NEW a \in Advisories
    PROVE  /\ stale[s] => Recount(a)' = Recount(a)
           /\ ~stale[s] /\ a \notin OutdatedIn(s)
                => Recount(a)' = Plus(Recount(a), TriggerShare(s, TRUE, a))
<1>0. /\ status \in [Systems -> Statuses] /\ alive \in [Systems -> BOOLEAN]
      /\ evaluated \in [Systems -> BOOLEAN] /\ stale \in [Systems -> BOOLEAN]
  BY TypeParts DEF SystemType
<1>1. /\ alive' = [alive EXCEPT ![s] = FALSE] /\ evaluated' = [evaluated EXCEPT ![s] = FALSE]
      /\ status' = [status EXCEPT ![s] = Nothing] /\ stale' = stale /\ pend[s].what = "delete"
  BY Zenon DEF DeleteCommit
<1>2. alive[s] /\ ~alive'[s]
  BY <1>0, <1>1 DEF PendingIsAlive
<1>3. Recount(a)' = Plus(Recount(a), Plus(Contribution(s, a)', Minus(Contribution(s, a))))
  <2>1. \A t \in Systems \ {s} : (Counted(t)' <=> Counted(t)) /\ status'[t][a] = status[t][a]
    BY <1>0, <1>1 DEF Counted
  <2> QED
    BY <2>1, RecountOfOne
<1>4. Contribution(s, a)' = Zero
  BY <1>2 DEF Contribution, Counted
<1>5. CASE stale[s]
  <2>1. Contribution(s, a) = Zero
    BY <1>5 DEF Contribution, Counted
  <2>2. Recount(a) \in Count
    BY RecountType
  <2> QED
    BY <1>3, <1>4, <1>5, <2>1, <2>2 DEF Plus, Minus, Zero, Count
<1>6. CASE ~stale[s]
  <2> SUFFICES ASSUME a \notin OutdatedIn(s)
               PROVE  Recount(a)' = Plus(Recount(a), TriggerShare(s, TRUE, a))
    BY <1>6
  <2>1. pend[s].seen[a] = IF evaluated[s] THEN status[s][a] ELSE "none"
    BY DEF OutdatedIn, Seen, Nothing
  <2>2. Contribution(s, a) = IF evaluated[s] THEN Share(status[s][a]) ELSE Zero
    BY <1>2, <1>6 DEF Contribution, Counted
  <2>3. TriggerShare(s, TRUE, a) = Plus(Contribution(s, a)', Minus(Contribution(s, a)))
    BY <1>4, <2>1, <2>2 DEF TriggerShare, Plus, Minus, Share, Zero
  <2> QED
    BY <1>3, <2>3
<1> QED
  BY <1>5, <1>6

\* The commit of an exact change does, too.
LEMMA CommitRecount ==
    ASSUME TypeInv, TypeInv', UnevaluatedHasNone, NEW e \in Evaluators, EvalCommit(e),
           NEW a \in Advisories, a \notin InexactOf(ev[e])
    PROVE  Recount(a)' = Plus(Recount(a), DeltaOf(ev[e], a))
<1> DEFINE x == ev[e]
<1>0. /\ status \in [Systems -> Statuses] /\ alive \in [Systems -> BOOLEAN]
      /\ evaluated \in [Systems -> BOOLEAN] /\ stale \in [Systems -> BOOLEAN]
      /\ counts \in [Advisories -> Count]
  BY TypeParts DEF SystemType, CountType
<1>1. ev[e].s \in Systems /\ x \in Evaluation
  BY <1>0, EvalMoves
<1> PICK s \in Systems : s = ev[e].s
  BY <1>1
<1>3. /\ stale[s] = x.stale /\ alive[s] /\ x.valid /\ status[s][a] = x.stored[a]
      /\ ~x.stale => ~Inexact(x.stored[a], x.reported[a])
  BY <1>0, <1>1 DEF InexactOf, Apart, Evaluation
<1>5. /\ status' = [status EXCEPT ![s] = [b \in Advisories |-> Stored(x, b)]]
      /\ evaluated'[s] /\ UNCHANGED <<alive, stale>>
      /\ \A t \in Systems \ {s} : evaluated'[t] = evaluated[t]
  BY <1>0, <1>1, <1>3, Commits
<1>6. /\ \A t \in Systems \ {s} : (Counted(t)' <=> Counted(t)) /\ status'[t][a] = status[t][a]
      /\ status'[s][a] = Stored(x, a)
  BY <1>0, <1>1, <1>5 DEF Counted
<1>7. Recount(a)' = Plus(Recount(a), Plus(Contribution(s, a)', Minus(Contribution(s, a))))
  BY <1>0, <1>1, <1>6, RecountOfOne
<1>8. DeltaOf(x, a) = Plus(Contribution(s, a)', Minus(Contribution(s, a)))
  <2>1. CASE x.stale
    <3>1. stale[s] /\ stale'[s]
      BY <1>3, <1>5, <2>1
    <3>2. Contribution(s, a) = Zero /\ Contribution(s, a)' = Zero
      BY <3>1 DEF Contribution, Counted
    <3> QED
      BY <2>1, <3>2 DEF DeltaOf, Plus, Minus, Zero
  <2>2. CASE ~x.stale
    <3>1. x.stored[a] \in Status /\ x.reported[a] \in Status
      BY <1>1 DEF Evaluation, Statuses
    <3>2. Stored(x, a) = x.reported[a]
      BY <1>3, <2>2, <3>1, DeltaExact DEF Stored
    <3>3. DeltaOf(x, a) = Plus(Share(x.reported[a]), Minus(Share(x.stored[a])))
      BY <1>3, <2>2, <3>1, DeltaExact DEF DeltaOf
    <3>4. Contribution(s, a)' = Share(x.reported[a])
      BY <1>3, <1>5, <1>6, <2>2, <3>2 DEF Contribution, Counted
    <3>5. Contribution(s, a) = Share(x.stored[a])
      <4>1. CASE evaluated[s]
        BY <1>3, <2>2, <4>1 DEF Contribution, Counted
      <4>2. CASE ~evaluated[s]
        <5>1. x.stored[a] = "none"
          BY <1>1, <1>3, <4>2 DEF UnevaluatedHasNone
        <5> QED
          BY <4>2, <5>1 DEF Contribution, Counted, Share, Zero
      <4> QED
        BY <4>1, <4>2
    <3> QED
      BY <3>3, <3>4, <3>5
  <2> QED
    BY <2>1, <2>2
<1> QED
  BY <1>7, <1>8

\* The part of ExactInv that is about the rows of advisory_account_data and the recount.
TableInv == NoRowNoCounts /\ DoomedIsZero /\ CountIsFresh /\ CountsExactUnlessDrifted

\* A commit that changes the counts of some rows, and the recount by as much except for the
\* inexact advisories, preserves it.
LEMMA CommitKeepsTable ==
    ASSUME ExactInv, NEW share \in [Advisories -> Count],
           NEW changed \in SUBSET Advisories, NEW inexact \in SUBSET Advisories,
           counts' = [a \in Advisories |-> Plus(counts[a], share[a])],
           rows' = rows \union changed, drifted' = drifted \union inexact,
           Overtake(inexact \union changed),
           \A a \in Advisories \ changed : share[a] = Zero,
           \A a \in Advisories \ inexact : Recount(a)' = Plus(Recount(a), share[a])
    PROVE  TableInv'
<1>0. /\ counts \in [Advisories -> Count] /\ job \in Refresh
      /\ NoRowNoCounts /\ DoomedIsZero /\ CountIsFresh /\ CountsExactUnlessDrifted
  BY TypeParts DEF ExactInv, CountType, JobType
<1>1. \A c \in Count : Plus(c, Zero) = c
  BY DEF Plus, Zero, Count
<1>2. \A a \in Advisories \ changed : counts'[a] = counts[a]
  BY <1>0, <1>1
<1>3. NoRowNoCounts'
  BY <1>0, <1>2 DEF NoRowNoCounts
<1>4. CountsExactUnlessDrifted'
  <2> SUFFICES ASSUME NEW a \in Advisories, a \notin drifted'
               PROVE  counts'[a] = Recount(a)'
    BY DEF CountsExactUnlessDrifted
  <2>1. a \notin drifted /\ a \notin inexact
    OBVIOUS
  <2>2. counts[a] = Recount(a)
    BY <1>0, <2>1 DEF CountsExactUnlessDrifted
  <2> QED
    BY <2>1, <2>2
<1>5. /\ job'.pc = job.pc /\ job'.cnt = job.cnt /\ job'.doomed = job.doomed
      /\ job.pc = "counted" => job'.late = job.late \union inexact \union changed
  <2>1. inexact \union changed \in SUBSET Advisories
    OBVIOUS
  <2> QED
    BY <1>0, <2>1, Overtakes
<1>6. DoomedIsZero'
  BY <1>0, <1>5 DEF DoomedIsZero
<1>7. CountIsFresh'
  <2> SUFFICES ASSUME job'.pc = "counted", NEW a \in Advisories, a \notin job'.late
               PROVE  /\ job'.cnt[a] = Recount(a)'
                      /\ job'.cnt[a] = Zero /\ a \notin job'.doomed => counts'[a] = Zero
    BY DEF CountIsFresh
  <2>1. job.pc = "counted" /\ a \notin job.late /\ a \notin inexact /\ a \notin changed
    BY <1>5
  <2>2. Recount(a)' = Recount(a)
    <3>1. Recount(a)' = Plus(Recount(a), Zero)
      BY <2>1
    <3> QED
      BY <1>1, <3>1, RecountType
  <2>3. counts'[a] = counts[a]
    BY <1>2, <2>1
  <2> QED
    BY <1>0, <1>5, <2>1, <2>2, <2>3 DEF CountIsFresh
<1> QED
  BY <1>3, <1>4, <1>6, <1>7 DEF TableInv

\* The commit of an evaluation.
LEMMA EvalKeepsTable ==
    ASSUME ExactInv, TypeInv', NEW e \in Evaluators, EvalCommit(e)
    PROVE  TableInv'
<1> DEFINE share == [a \in Advisories |-> DeltaOf(ev[e], a)]
<1>1. TypeInv /\ UnevaluatedHasNone /\ ev[e] \in Evaluation /\ ev[e].pc = "stored"
  BY EvalMoves DEF ExactInv
<1>2. share \in [Advisories -> Count]
  BY <1>1, DeltaType
<1>3. ChangedBy(e) \in SUBSET Advisories /\ InexactOf(ev[e]) \in SUBSET Advisories
  BY DEF ChangedBy, InexactOf
<1>4. /\ counts' = [a \in Advisories |-> Plus(counts[a], share[a])]
      /\ rows' = rows \union ChangedBy(e) /\ drifted' = drifted \union InexactOf(ev[e])
      /\ Overtake(InexactOf(ev[e]) \union ChangedBy(e))
  BY Commits
<1>5. \A a \in Advisories \ ChangedBy(e) : share[a] = Zero
  BY <1>1 DEF ChangedBy, Holds
<1>6. \A a \in Advisories \ InexactOf(ev[e]) : Recount(a)' = Plus(Recount(a), share[a])
  BY <1>1, CommitRecount
<1> HIDE DEF share
<1> QED
  BY <1>2, <1>3, <1>4, <1>5, <1>6, CommitKeepsTable

\* The trigger.
LEMMA TriggerKeepsTable ==
    ASSUME ExactInv, TypeInv', NEW s \in Systems, NEW gone \in BOOLEAN, Trigger(s, gone),
           \A a \in Advisories \ OutdatedIn(s) :
              Recount(a)' = Plus(Recount(a), TriggerShare(s, gone, a))
    PROVE  TableInv'
<1> DEFINE share == [a \in Advisories |-> TriggerShare(s, gone, a)]
<1>1. TypeInv
  BY DEF ExactInv
<1>2. share \in [Advisories -> Count]
  BY ShareType DEF TriggerShare
<1>3. ChangedIn(s) \in SUBSET Advisories /\ OutdatedIn(s) \in SUBSET Advisories
  BY DEF ChangedIn, OutdatedIn
<1>4. /\ counts' = [a \in Advisories |-> Plus(counts[a], share[a])]
      /\ rows' = rows \union ChangedIn(s) /\ drifted' = drifted \union OutdatedIn(s)
      /\ Overtake(OutdatedIn(s) \union ChangedIn(s))
  BY <1>1, TriggerAdds
<1>5. \A a \in Advisories \ ChangedIn(s) : share[a] = Zero
  BY DEF ChangedIn, TriggerShare, Share, Minus, Zero
<1>6. \A a \in Advisories \ OutdatedIn(s) : Recount(a)' = Plus(Recount(a), share[a])
  OBVIOUS
<1> HIDE DEF share
<1> QED
  BY <1>2, <1>3, <1>4, <1>5, <1>6, CommitKeepsTable

\* Steps that change neither systems nor rows nor what the recount knows.
LEMMA TableKept ==
    ASSUME ExactInv, UNCHANGED sysVars, UNCHANGED tableVars, drifted' = drifted,
           job'.pc # "counted", job'.doomed = {} \/ UNCHANGED job
    PROVE  TableInv'
<1>0. UNCHANGED <<rows, counts>>
  BY Zenon DEF tableVars
<1>1. NoRowNoCounts' /\ CountsExactUnlessDrifted'
  BY <1>0, RecountKept DEF ExactInv, NoRowNoCounts, CountsExactUnlessDrifted
<1>2. DoomedIsZero' /\ CountIsFresh'
  BY DEF ExactInv, DoomedIsZero, CountIsFresh
<1> QED
  BY <1>1, <1>2 DEF TableInv

\* The same while the recount is between its statements.
LEMMA TableStays ==
    ASSUME ExactInv, UNCHANGED sysVars, UNCHANGED tableVars, UNCHANGED <<drifted, job>>
    PROVE  TableInv'
<1>0. UNCHANGED <<rows, counts>>
  BY Zenon DEF tableVars
<1>1. NoRowNoCounts' /\ CountsExactUnlessDrifted'
  BY <1>0, RecountKept DEF ExactInv, NoRowNoCounts, CountsExactUnlessDrifted
<1>2. DoomedIsZero' /\ CountIsFresh'
  BY <1>0, RecountKept DEF ExactInv, DoomedIsZero, CountIsFresh
<1> QED
  BY <1>1, <1>2 DEF TableInv

\* The second statement of the recount counts.
LEMMA CountKeepsTable ==
    ASSUME ExactInv, JobCount
    PROVE  TableInv'
<1> DEFINE cnt == [a \in Advisories |-> Recount(a)]
           doomed == {a \in rows : Recount(a) = Zero}
<1>1. /\ job' = [pc |-> "counted", held |-> job.held, cnt |-> cnt, doomed |-> doomed, late |-> {}]
      /\ UNCHANGED <<sysVars, rows, counts, drifted>>
  BY Zenon DEF JobCount, tableVars, hist
<1>2. \A a \in Advisories : cnt[a] = Recount(a) /\ (Recount(a) = Zero /\ a \notin doomed => a \notin rows)
  OBVIOUS
<1>3. \A a \in doomed : a \in Advisories /\ cnt[a] = Zero
  <2>1. rows \subseteq Advisories
    BY TypeParts DEF ExactInv, CountType
  <2> QED
    BY <2>1
<1> HIDE DEF cnt, doomed
<1>4. job'.pc = "counted" /\ job'.cnt = cnt /\ job'.doomed = doomed /\ job'.late = {}
  BY <1>1
<1>5. NoRowNoCounts' /\ CountsExactUnlessDrifted'
  BY <1>1, RecountKept DEF ExactInv, NoRowNoCounts, CountsExactUnlessDrifted
<1>6. DoomedIsZero'
  BY <1>3, <1>4 DEF DoomedIsZero
<1>7. CountIsFresh'
  BY <1>1, <1>2, <1>4, RecountKept DEF ExactInv, NoRowNoCounts, CountIsFresh
<1> QED
  BY <1>5, <1>6, <1>7 DEF TableInv

\* It writes: only where somebody wrote after the count are the counts put out of step.
LEMMA WriteKeepsTable ==
    ASSUME ExactInv, JobWrite
    PROVE  TableInv'
<1>0. /\ job \in Refresh /\ job.pc = "counted" /\ UNCHANGED sysVars
      /\ NoRowNoCounts /\ DoomedIsZero /\ CountIsFresh /\ CountsExactUnlessDrifted
  BY JobWrites, TypeParts DEF ExactInv, JobType
<1>1. /\ counts' = [a \in Advisories |-> IF a \in Written THEN job.cnt[a] ELSE counts[a]]
      /\ rows' = (rows \ job.doomed) \union CountedByJob
      /\ drifted' = job.late \intersect (Written \union drifted)
      /\ job' = [NoJob EXCEPT !.pc = "refreshed"]
  BY JobWrites
<1>2. NoRowNoCounts'
  <2> SUFFICES ASSUME NEW a \in Advisories, a \notin rows'
               PROVE  counts'[a] = Zero
    BY DEF NoRowNoCounts
  <2>1. job.cnt[a] = Zero /\ (a \in job.doomed \/ a \notin rows)
    BY <1>1 DEF CountedByJob
  <2> QED
    BY <1>0, <1>1, <2>1 DEF Written, NoRowNoCounts
<1>3. CountsExactUnlessDrifted'
  <2> SUFFICES ASSUME NEW a \in Advisories, a \notin drifted'
               PROVE  counts'[a] = Recount(a)'
    BY DEF CountsExactUnlessDrifted
  <2>1. Recount(a)' = Recount(a)
    BY <1>0, RecountKept
  <2>2. CASE a \in job.late
    <3>1. a \notin Written /\ a \notin drifted
      BY <1>1, <2>2
    <3> QED
      BY <1>0, <1>1, <2>1, <3>1 DEF CountsExactUnlessDrifted
  <2>3. CASE a \notin job.late
    <3>1. job.cnt[a] = Recount(a) /\ (job.cnt[a] = Zero /\ a \notin job.doomed => counts[a] = Zero)
      BY <1>0, <2>3 DEF CountIsFresh
    <3>2. a \notin Written => job.cnt[a] = Zero /\ a \notin job.doomed
      BY DEF Written, CountedByJob
    <3> QED
      BY <1>1, <2>1, <3>1, <3>2
  <2> QED
    BY <2>2, <2>3
<1>4. DoomedIsZero' /\ CountIsFresh'
  BY <1>1 DEF NoJob, DoomedIsZero, CountIsFresh
<1> QED
  BY <1>2, <1>3, <1>4 DEF TableInv

\* The cleaning deletes rows that count nothing, or less.
LEMMA CleanKeepsTable ==
    ASSUME ExactInv, CleanAdvisoryAccountData
    PROVE  TableInv'
<1>0. /\ job \in Refresh /\ counts \in [Advisories -> Count]
      /\ NoRowNoCounts /\ DoomedIsZero /\ CountIsFresh /\ CountsExactUnlessDrifted
  BY TypeParts DEF ExactInv, JobType, CountType
<1>1. /\ counts' = [a \in Advisories |-> IF a \in Empty THEN Zero ELSE counts[a]]
      /\ rows' = rows \ Empty /\ UNCHANGED <<sysVars, drifted>>
      /\ job'.pc = job.pc /\ job'.cnt = job.cnt /\ job'.late = job.late
      /\ job'.doomed = job.doomed \ Empty
  BY <1>0, Cleans, CleansJob DEF hist
<1>2. UNCHANGED sysVars /\ \A a \in Advisories : Recount(a)' = Recount(a)
  BY <1>1, RecountKept
<1>3. NoRowNoCounts'
  BY <1>0, <1>1 DEF NoRowNoCounts
<1>4. ASSUME NEW a \in Advisories, a \notin drifted
      PROVE  counts'[a] = Recount(a)
  <2>1. counts[a] = Recount(a) /\ Recount(a).inst \in Nat /\ Recount(a).app \in Nat
        /\ Recount(a) \in Count
    BY <1>0, <1>4, RecountType DEF CountsExactUnlessDrifted
  <2>2. CASE counts[a].inst <= 0 /\ counts[a].app <= 0
    <3>1. Recount(a).inst = 0 /\ Recount(a).app = 0
      BY <2>1, <2>2
    <3>2. Recount(a) = Zero
      BY <2>1, <3>1 DEF Count, Zero
    <3> QED
      BY <1>1, <2>1, <3>2
  <2>3. CASE ~(counts[a].inst <= 0 /\ counts[a].app <= 0)
    <3>1. a \notin Empty
      BY <2>3 DEF Empty
    <3> QED
      BY <1>1, <2>1, <3>1
  <2> QED
    BY <2>2, <2>3
<1>5. CountsExactUnlessDrifted'
  BY <1>1, <1>2, <1>4 DEF CountsExactUnlessDrifted
<1>6. DoomedIsZero'
  BY <1>0, <1>1 DEF DoomedIsZero
<1>7. CountIsFresh'
  BY <1>0, <1>1, <1>2 DEF CountIsFresh
<1> QED
  BY <1>3, <1>5, <1>6, <1>7 DEF TableInv

\* The steps that change neither systems nor counts.
QuietStep ==
    \/ \E e \in Evaluators : \/ \E s \in Systems : EvalLoad(e, s)
                             \/ \E reported \in Statuses : EvalCompare(e, reported)
                             \/ \E how \in {"sent", "skipped", "failed"} : EvalStore(e, how)
                             \/ EvalInvalidate(e) \/ InvalidateFail(e) \/ EvalFail(e)
    \/ \E s \in Systems : StaleFlip(s) \/ DeleteSystem(s)
    \/ JobLock \/ JobCount \/ JobErrOverwritten \/ JobSetValid \/ JobFail

\* They are all the others.
LEMMA Steps ==
    Next => \/ QuietStep \/ JobWrite \/ CleanAdvisoryAccountData
            \/ \E e \in Evaluators : EvalCommit(e)
            \/ \E s \in Systems : FlipCommit(s) \/ DeleteCommit(s)
BY Zenon DEF Next, QuietStep

\* What they leave alone.
LEMMA QuietKeeps ==
    ASSUME QuietStep
    PROVE  UNCHANGED <<sysVars, status, alive, evaluated, stale, tableVars, rows, counts, drifted,
                       notified, silent>>
<1>1. CASE \E e \in Evaluators : \/ \E s \in Systems : EvalLoad(e, s)
                                 \/ \E reported \in Statuses : EvalCompare(e, reported)
                                 \/ EvalInvalidate(e) \/ InvalidateFail(e) \/ EvalFail(e)
  BY <1>1, Zenon DEF EvalLoad, EvalCompare, EvalInvalidate, InvalidateFail, EvalFail, sysVars,
                     tableVars, hist, notes
<1>2. CASE \E e \in Evaluators : \E how \in {"sent", "skipped", "failed"} : EvalStore(e, how)
  BY <1>2, Zenon DEF EvalStore, sysVars, tableVars, hist
<1>3. CASE \E s \in Systems : StaleFlip(s) \/ DeleteSystem(s)
  BY <1>3, Zenon DEF StaleFlip, DeleteSystem, sysVars, tableVars, hist, notes
<1>4. CASE JobLock \/ JobCount \/ JobErrOverwritten \/ JobSetValid \/ JobFail
  BY <1>4, Zenon DEF JobLock, JobCount, JobErrOverwritten, JobSetValid, JobFail, sysVars, tableVars,
                     hist, notes
<1> QED
  BY <1>1, <1>2, <1>3, <1>4, Zenon DEF QuietStep

\* The job before its recount, and when it is done.
LEMMA JobRests ==
    /\ JobLock => job'.pc = "locking" /\ job'.doomed = {}
    /\ JobErrOverwritten => job'.pc = "refreshed" /\ job'.doomed = {}
    /\ JobSetValid \/ JobFail => job'.pc = "idle" /\ job'.doomed = {}
<1> DEFINE locking == [NoJob EXCEPT !.pc = "locking", !.held = rows]
           refreshed == [NoJob EXCEPT !.pc = "refreshed"]
<1>1. /\ locking.pc = "locking" /\ locking.doomed = {}
      /\ refreshed.pc = "refreshed" /\ refreshed.doomed = {}
      /\ NoJob.pc = "idle" /\ NoJob.doomed = {}
  BY DEF NoJob
<1>2. /\ JobLock => job' = locking
      /\ JobErrOverwritten => job' = refreshed
      /\ JobSetValid \/ JobFail => job' = NoJob
  BY Zenon DEF JobLock, JobErrOverwritten, JobSetValid, JobFail
<1> HIDE DEF locking, refreshed
<1> QED
  BY <1>1, <1>2, Zenon

\* They preserve what is said of the rows.
LEMMA QuietKeepsTable ==
    ASSUME ExactInv, QuietStep \/ UNCHANGED vars
    PROVE  TableInv'
<1>1. CASE \/ \E e \in Evaluators : \/ \E s \in Systems : EvalLoad(e, s)
                                    \/ \E reported \in Statuses : EvalCompare(e, reported)
                                    \/ \E how \in {"sent", "skipped", "failed"} : EvalStore(e, how)
                                    \/ EvalInvalidate(e) \/ InvalidateFail(e) \/ EvalFail(e)
           \/ \E s \in Systems : StaleFlip(s) \/ DeleteSystem(s)
           \/ UNCHANGED vars
  <2>1. UNCHANGED <<sysVars, tableVars, drifted, job>>
    BY <1>1, Zenon DEF EvalLoad, EvalCompare, EvalStore, EvalInvalidate, InvalidateFail, EvalFail,
                       StaleFlip, DeleteSystem, Others, hist, vars, sysVars, tableVars
  <2> QED
    BY <2>1, TableStays
<1>2. CASE JobLock \/ JobErrOverwritten \/ JobSetValid \/ JobFail
  <2>1. UNCHANGED <<sysVars, tableVars, drifted>>
    BY <1>2, Zenon DEF JobLock, JobErrOverwritten, JobSetValid, JobFail, hist
  <2>2. job'.pc # "counted" /\ job'.doomed = {}
    <3>1. job'.doomed = {} /\ job'.pc \in {"locking", "refreshed", "idle"}
      BY <1>2, JobRests, Zenon
    <3> QED
      BY <3>1
  <2> QED
    BY <2>1, <2>2, TableKept
<1>3. CASE JobCount
  BY <1>3, CountKeepsTable
<1> QED
  BY <1>1, <1>2, <1>3, Zenon DEF QuietStep

\* The rows of the systems: what is said of them after a step.
LEMMA NextSystems ==
    ASSUME TypeInv, UnevaluatedHasNone, PendingIsAlive, [Next]_vars
    PROVE  UnevaluatedHasNone' /\ PendingIsAlive'
<1>0. /\ status \in [Systems -> Statuses] /\ alive \in [Systems -> BOOLEAN]
      /\ evaluated \in [Systems -> BOOLEAN] /\ pend \in [Systems -> Pending]
  BY TypeParts DEF SystemType, PendType
<1>1. ASSUME NEW e \in Evaluators, EvalCommit(e)
      PROVE  UnevaluatedHasNone' /\ PendingIsAlive'
  <2>1. ev[e].s \in Systems
    BY <1>1, EvalMoves
  <2> DEFINE new == [a \in Advisories |-> Stored(ev[e], a)]
  <2>2. /\ status' = [status EXCEPT ![ev[e].s] = new] /\ UNCHANGED <<alive, pend>>
        /\ evaluated' = [evaluated EXCEPT ![ev[e].s] = @ \/ alive[ev[e].s]]
    BY <1>1, Commits
  <2> HIDE DEF new
  <2>3. /\ alive[ev[e].s] => evaluated'[ev[e].s]
        /\ \A t \in Systems : t # ev[e].s => status'[t] = status[t] /\ evaluated'[t] = evaluated[t]
    BY <1>0, <2>1, <2>2
  <2> QED
    BY <2>2, <2>3 DEF UnevaluatedHasNone, PendingIsAlive
<1>2. ASSUME NEW s \in Systems, FlipCommit(s) \/ DeleteCommit(s)
      PROVE  UnevaluatedHasNone' /\ PendingIsAlive'
  <2>1. pend' = [pend EXCEPT ![s] = NoPending]
    BY <1>2, Zenon DEF FlipCommit, DeleteCommit
  <2>2. pend'[s].what = "none" /\ \A t \in Systems : t # s => pend'[t] = pend[t]
    BY <1>0, <2>1 DEF NoPending
  <2>3. \A t \in Systems : alive'[t] => /\ alive[t] /\ status'[t] = status[t]
                                        /\ evaluated'[t] = evaluated[t]
    BY <1>0, <1>2 DEF FlipCommit, DeleteCommit
  <2>4. \A t \in Systems : t # s => alive'[t] = alive[t]
    BY <1>0, <1>2 DEF FlipCommit, DeleteCommit
  <2> QED
    BY <2>2, <2>3, <2>4 DEF UnevaluatedHasNone, PendingIsAlive
<1>3. ASSUME QuietStep \/ JobWrite \/ CleanAdvisoryAccountData \/ UNCHANGED vars
      PROVE  UnevaluatedHasNone' /\ PendingIsAlive'
  <2>1. UNCHANGED <<status, alive, evaluated>>
    BY <1>3, QuietKeeps, JobWrites, Cleans, Zenon DEF sysVars, vars
  <2>2. pend' = pend \/ \E s \in Systems : alive[s] /\ \E x : pend' = [pend EXCEPT ![s] = x]
    <3>1. CASE \E s \in Systems : StaleFlip(s) \/ DeleteSystem(s)
      BY <3>1, Zenon DEF StaleFlip, DeleteSystem
    <3>2. CASE ~\E s \in Systems : StaleFlip(s) \/ DeleteSystem(s)
      BY <1>3, <3>2, Zenon DEF QuietStep, EvalLoad, EvalCompare, EvalStore, EvalInvalidate,
            InvalidateFail, EvalFail, Others, JobLock, JobCount, JobWrite, JobErrOverwritten,
            JobSetValid, JobFail, CleanAdvisoryAccountData, vars
    <3> QED
      BY <3>1, <3>2
  <2>3. PendingIsAlive'
    BY <1>0, <2>1, <2>2 DEF PendingIsAlive
  <2> QED
    BY <2>1, <2>3 DEF UnevaluatedHasNone
<1> QED
  BY <1>1, <1>2, <1>3, Steps, Zenon

\* Every step preserves ExactInv.
LEMMA NextExact == ExactInv /\ [Next]_vars => ExactInv'
<1> SUFFICES ASSUME ExactInv, [Next]_vars
             PROVE  ExactInv'
  OBVIOUS
<1>0. TypeInv /\ TypeInv' /\ UnevaluatedHasNone /\ PendingIsAlive
  BY NextType DEF ExactInv
<1>1. UnevaluatedHasNone' /\ PendingIsAlive'
  BY <1>0, NextSystems
<1>2. ASSUME NEW s \in Systems, FlipCommit(s)
      PROVE  TableInv'
  <2>1. Trigger(s, ~stale[s]) /\ (~stale[s]) \in BOOLEAN
    BY <1>2 DEF FlipCommit
  <2>2. \A a \in Advisories \ OutdatedIn(s) :
          Recount(a)' = Plus(Recount(a), TriggerShare(s, ~stale[s], a))
    BY <1>0, <1>2, FlipRecount
  <2> QED
    BY <1>0, <2>1, <2>2, TriggerKeepsTable
<1>3. ASSUME NEW s \in Systems, DeleteCommit(s)
      PROVE  TableInv'
  <2>1. CASE ~stale[s]
    <3>1. Trigger(s, TRUE)
      BY <1>3, <2>1 DEF DeleteCommit
    <3>2. \A a \in Advisories \ OutdatedIn(s) :
            Recount(a)' = Plus(Recount(a), TriggerShare(s, TRUE, a))
      BY <1>0, <1>3, <2>1, DeleteRecount
    <3> QED
      BY <1>0, <3>1, <3>2, TriggerKeepsTable
  <2>2. CASE stale[s]
    <3>1. UNCHANGED <<rows, counts, drifted, job>>
      BY <1>3, <2>2, Zenon DEF DeleteCommit, tableVars, hist
    <3>2. \A a \in Advisories : Recount(a)' = Recount(a)
      BY <1>0, <1>3, <2>2, DeleteRecount
    <3> QED
      BY <3>1, <3>2 DEF ExactInv, TableInv, NoRowNoCounts, DoomedIsZero, CountIsFresh,
                        CountsExactUnlessDrifted
  <2> QED
    BY <2>1, <2>2
<1>4. TableInv'
  BY <1>0, <1>2, <1>3, EvalKeepsTable, WriteKeepsTable, CleanKeepsTable, QuietKeepsTable, Steps, Zenon
<1> QED
  BY <1>0, <1>1, <1>4 DEF ExactInv, TableInv

\* Initially nothing is counted.
LEMMA InitExact == Init => ExactInv
<1> SUFFICES ASSUME Init
             PROVE  ExactInv
  OBVIOUS
<1>1. UnevaluatedHasNone
  BY DEF Init, UnevaluatedHasNone, Nothing
<1>2. ASSUME NEW a \in Advisories
      PROVE  counts[a] = Recount(a)
  <2> DEFINE with(st) == {s \in Systems : Counted(s) /\ status[s][a] \in st}
  <2>1. \A st : with(st) = {}
    BY DEF Init, Counted
  <2>2. Recount(a) = [inst |-> Cardinality(with({"installable"})),
                      app |-> Cardinality(with({"installable", "applicable"}))]
    BY DEF Recount
  <2> HIDE DEF with
  <2>3. Recount(a) = [inst |-> 0, app |-> 0]
    BY <2>1, <2>2, FS_EmptySet
  <2> QED
    BY <2>3 DEF Init, Zero
<1>3. PendingIsAlive /\ NoRowNoCounts /\ DoomedIsZero /\ CountIsFresh
  BY DEF Init, NoPending, NoJob, PendingIsAlive, NoRowNoCounts, DoomedIsZero, CountIsFresh
<1> QED
  BY <1>1, <1>2, <1>3, InitType DEF ExactInv, CountsExactUnlessDrifted

\* The counts of advisory_account_data are those of a recount, except for the advisories
\* that one of four things touched since the last recount: an inexact evaluation, one that
\* overlapped another change of its system, a trigger whose snapshot an evaluation outdated
\* while it waited for the rows, or a recount that wrote over a row it had not locked.  The
\* deltas of exact changes, the trigger on_system_update, delete_system and the cleaning job
\* keep them so, whatever they wait for.
THEOREM CountsExact == Spec => []CountsExactUnlessDrifted
<1>1. ExactInv => CountsExactUnlessDrifted
  BY DEF ExactInv
<1> QED
  BY <1>1, InitExact, NextExact, PTL DEF Spec

-----------------------------------------------------------------------------
(* What a valid cache says *)

\* Every step preserves ValidInv.
LEMMA NextValid == ValidInv /\ [Next]_vars => ValidInv'
<1> SUFFICES ASSUME ValidInv, [Next]_vars
             PROVE  ValidInv'
  OBVIOUS
<1>0. /\ ExactInv' /\ TypeInv /\ valid \in BOOLEAN /\ missed \in BOOLEAN
      /\ job \in Refresh
  BY NextExact, TypeParts DEF ValidInv, ExactInv, JobType, HistType
<1> DEFINE Goal == RefreshedIsExact /\ DriftIsAnnounced
<1>1. ASSUME NEW e \in Evaluators, EvalCommit(e)
      PROVE  Goal'
  <2>1. /\ drifted' = drifted \union InexactOf(ev[e])
        /\ missed' = (missed \/ (job.pc = "refreshed" /\ InexactOf(ev[e]) # {}))
        /\ valid' = valid /\ Overtake(InexactOf(ev[e]) \union ChangedBy(e))
    BY <1>1, Commits
  <2>2. ev'[e].pc = "done"
    BY <1>0, <1>1, EvalMoves
  <2>3. job'.pc = job.pc
    <3>1. InexactOf(ev[e]) \union ChangedBy(e) \in SUBSET Advisories
      BY DEF InexactOf, ChangedBy
    <3> QED
      BY <1>0, <2>1, <3>1, Overtakes
  <2> QED
    BY <2>1, <2>2, <2>3 DEF ValidInv, RefreshedIsExact, DriftIsAnnounced
<1>2. ASSUME NEW e \in Evaluators, EvalInvalidate(e)
      PROVE  Goal'
  <2>1. ~valid' /\ UNCHANGED <<drifted, missed, job>>
    BY <1>2, Zenon DEF EvalInvalidate, Others, hist
  <2> QED
    BY <2>1 DEF ValidInv, RefreshedIsExact, DriftIsAnnounced
<1>3. ASSUME (\E e \in Evaluators : InvalidateFail(e)) \/ JobErrOverwritten
      PROVE  Goal'
  BY <1>3 DEF InvalidateFail, JobErrOverwritten, RefreshedIsExact, DriftIsAnnounced
<1>4. ASSUME NEW e \in Evaluators,
             \/ \E s \in Systems : EvalLoad(e, s)
             \/ \E reported \in Statuses : EvalCompare(e, reported)
             \/ \E how \in {"sent", "skipped", "failed"} : EvalStore(e, how)
             \/ EvalFail(e)
      PROVE  Goal'
  <2>1. UNCHANGED <<valid, missed, drifted, job>>
    BY <1>4, Zenon DEF EvalLoad, EvalCompare, EvalStore, EvalFail, Others, hist
  <2>2. ev[e].pc # "done" /\ \A f \in Evaluators : f # e => ev'[f] = ev[f]
    BY <1>0, <1>4, EvalMoves, OthersKept, Stores
  <2> QED
    BY <2>1, <2>2 DEF ValidInv, RefreshedIsExact, DriftIsAnnounced
<1>5. ASSUME UNCHANGED <<ev, valid, missed, drifted>>, job'.pc = job.pc \/ job'.pc # "refreshed"
      PROVE  Goal'
  BY <1>5 DEF ValidInv, RefreshedIsExact, DriftIsAnnounced
<1>6. ASSUME JobWrite
      PROVE  Goal'
  BY <1>6, JobWrites DEF RefreshedIsExact, DriftIsAnnounced
<1>7. ASSUME JobSetValid
      PROVE  Goal'
  <2>1. job.pc = "refreshed" /\ job' = NoJob /\ UNCHANGED <<missed, drifted>>
    BY <1>7, Zenon DEF JobSetValid, hist
  <2>2. job'.pc = "idle"
    BY <2>1 DEF NoJob
  <2> QED
    BY <2>1, <2>2 DEF ValidInv, RefreshedIsExact, DriftIsAnnounced
<1>8. ASSUME NEW s \in Systems, NEW gone \in BOOLEAN, Trigger(s, gone), UNCHANGED <<ev, valid>>
      PROVE  Goal'
  <2>1. /\ drifted' = drifted \union OutdatedIn(s)
        /\ missed' = (missed \/ OutdatedIn(s) # {})
        /\ Overtake(OutdatedIn(s) \union ChangedIn(s))
    BY <1>0, <1>8, TriggerAdds
  <2>2. job'.pc = job.pc
    <3>1. OutdatedIn(s) \union ChangedIn(s) \in SUBSET Advisories
      BY DEF OutdatedIn, ChangedIn
    <3> QED
      BY <1>0, <2>1, <3>1, Overtakes
  <2> QED
    BY <1>8, <2>1, <2>2 DEF ValidInv, RefreshedIsExact, DriftIsAnnounced
<1>9. ASSUME NEW s \in Systems, FlipCommit(s) \/ DeleteCommit(s)
      PROVE  Goal'
  <2>1. /\ UNCHANGED <<ev, valid>>
        /\ Trigger(s, TRUE) \/ Trigger(s, ~stale[s]) \/ UNCHANGED <<missed, drifted, job>>
    BY <1>9, Zenon DEF FlipCommit, DeleteCommit, hist
  <2>2. (~stale[s]) \in BOOLEAN /\ TRUE \in BOOLEAN
    OBVIOUS
  <2> QED
    BY <1>5, <1>8, <2>1, <2>2, Zenon
<1>10. ASSUME \/ JobFail \/ JobLock \/ JobCount \/ CleanAdvisoryAccountData \/ UNCHANGED vars
              \/ \E s \in Systems : StaleFlip(s) \/ DeleteSystem(s)
       PROVE  Goal'
  <2>1. UNCHANGED <<ev, valid, missed, drifted>>
    BY <1>10, Zenon DEF JobFail, JobLock, JobCount, CleanAdvisoryAccountData, StaleFlip, DeleteSystem,
                        hist, vars
  <2>2. CASE JobFail \/ JobLock \/ JobCount
    <3>1. job'.pc # "refreshed"
      <4>1. CASE JobCount
        BY <4>1 DEF JobCount
      <4>2. CASE JobFail \/ JobLock
        BY <4>2, JobRests
      <4> QED
        BY <2>2, <4>1, <4>2
    <3> QED
      BY <1>5, <2>1, <3>1
  <2>3. CASE CleanAdvisoryAccountData
    BY <1>0, <1>5, <2>1, <2>3, CleansJob
  <2>4. CASE UNCHANGED vars \/ \E s \in Systems : StaleFlip(s) \/ DeleteSystem(s)
    <3>1. job' = job
      BY <2>4, Zenon DEF StaleFlip, DeleteSystem, vars
    <3> QED
      BY <1>5, <2>1, <3>1
  <2> QED
    BY <1>10, <2>2, <2>3, <2>4
<1>11. Goal'
  BY <1>1, <1>2, <1>3, <1>4, <1>6, <1>7, <1>9, <1>10, Zenon DEF Next
<1> QED
  BY <1>0, <1>11 DEF ValidInv

\* An account whose advisory cache is marked valid has exact counts, unless an evaluation
\* between its commit and invalidateCaches, an invalidation or a recount that failed, an
\* evaluation between the recount and updateAdvisoryCacheValidity, a recount that wrote over
\* what it had not seen, or a trigger with an outdated snapshot was involved.
THEOREM ValidIsExact == Spec => []ValidIsExactUnlessMissed
<1>1. Init => ValidInv
  <2>1. Init => RefreshedIsExact /\ DriftIsAnnounced
    BY DEF Init, NoJob, RefreshedIsExact, DriftIsAnnounced
  <2> QED
    BY <2>1, InitExact DEF ValidInv
<1>2. ValidInv => ValidIsExactUnlessMissed
  BY DEF ValidInv, ExactInv, DriftIsAnnounced, CountsExactUnlessDrifted, ValidIsExactUnlessMissed
<1> QED
  BY <1>1, <1>2, NextValid, PTL DEF Spec

-----------------------------------------------------------------------------
(* What is installable was announced *)

\* A counted system that shows an advisory is in its recount.
LEMMA ShownIsCounted ==
    ASSUME NEW s \in Systems, NEW a \in Shown(s), Counted(s)
    PROVE  Recount(a).inst > 0 /\ Recount(a) # Zero
<1> DEFINE I == {t \in Systems : Counted(t) /\ status[t][a] \in {"installable"}}
<1>1. s \in I
  BY DEF Shown
<1>2. IsFiniteSet(I)
  <2>1. I \subseteq Systems
    OBVIOUS
  <2> QED
    BY <2>1, FS_Subset, CountsAssumption
<1>3. Recount(a).inst = Cardinality(I)
  BY DEF Recount
<1> HIDE DEF I
<1>4. Cardinality(I) \in Nat /\ Cardinality(I) # 0
  BY <1>1, <1>2, FS_CardinalityType, FS_EmptySet
<1> QED
  BY <1>3, <1>4 DEF Zero

\* Who locks a row, and what locks one.
LEMMA LockIs ==
    /\ \A e \in Evaluators, a \in Advisories : Holds(e, a) => Locked(a)
    /\ \A e, f \in Evaluators, a \in Advisories : f # e /\ Holds(f, a) => LockedFor(a, e)
    /\ \A e \in Evaluators, a \in Advisories : HeldByJob(a) => Locked(a) /\ LockedFor(a, e)
    /\ \A e \in Evaluators, a \in Advisories :
         /\ ev[e].pc = "stored" /\ ~ev[e].stale
         /\ Change(ev[e].stored[a], ev[e].reported[a]) \in {"add", "update"}
         => Holds(e, a)
<1>1. /\ \A e \in Evaluators, a \in Advisories : Holds(e, a) => Locked(a)
      /\ \A e, f \in Evaluators, a \in Advisories : f # e /\ Holds(f, a) => LockedFor(a, e)
      /\ \A e \in Evaluators, a \in Advisories : HeldByJob(a) => Locked(a) /\ LockedFor(a, e)
  BY DEF Locked, LockedFor
<1>2. ASSUME NEW e \in Evaluators, NEW a \in Advisories, ev[e].pc = "stored", ~ev[e].stale,
             Change(ev[e].stored[a], ev[e].reported[a]) \in {"add", "update"}
      PROVE  Holds(e, a)
  <2>1. DeltaOf(ev[e], a).app = 1
    BY <1>2 DEF DeltaOf, Delta
  <2> QED
    BY <1>2, <2>1 DEF Holds, Zero
<1> QED
  BY <1>1, <1>2

\* An evaluation that adds or updates an advisory that the account would count.
Adds(e, a) ==
    /\ ev[e].pc = "stored" /\ ~ev[e].stale /\ ev[e].valid
    /\ Change(ev[e].stored[a], ev[e].reported[a]) \in {"add", "update"}
    /\ counts[a].inst + DeltaOf(ev[e], a).inst > 0

\* AddedIsMarked in these terms.
LEMMA AddedIs ==
    /\ AddedIsMarked <=> \A e \in Evaluators, a \in Advisories :
                           Adds(e, a) => a \in ev[e].mark \union notified
    /\ AddedIsMarked' <=> \A e \in Evaluators, a \in Advisories :
                            Adds(e, a)' => a \in ev'[e].mark \union notified'
    /\ \A e \in Evaluators, a \in Advisories : Adds(e, a) => Holds(e, a)
<1>1. AddedIsMarked <=> \A e \in Evaluators, a \in Advisories :
                           Adds(e, a) => a \in ev[e].mark \union notified
  BY DEF AddedIsMarked, Adds
<1>2. AddedIsMarked' <=> \A e \in Evaluators, a \in Advisories :
                            Adds(e, a)' => a \in ev'[e].mark \union notified'
  BY DEF AddedIsMarked, Adds
<1>3. \A e \in Evaluators, a \in Advisories : Adds(e, a) => Holds(e, a)
  BY LockIs DEF Adds
<1> QED
  BY <1>1, <1>2, <1>3

\* The locks and the marks that go with them, without the systems.
LockInv == OneHolder /\ RecountHoldsAlone /\ MarkIsSent /\ AddedIsMarked

\* Steps that leave the locked rows alone and put no evaluation into its transaction
\* preserve them.
LEMMA LockKept ==
    ASSUME LockInv, sent \subseteq sent', \A a \in Advisories : HeldByJob(a)' => HeldByJob(a),
           \A f \in Evaluators : ev'[f].pc = "stored" => ev'[f] = ev[f],
           \A f \in Evaluators, a \in Advisories :
              /\ Holds(f, a) /\ ev'[f] = ev[f]
              => counts'[a] = counts[a] /\ (a \in notified => a \in notified')
    PROVE  LockInv'
<1>1. \A f \in Evaluators, a \in Advisories : Holds(f, a)' => Holds(f, a) /\ ev'[f] = ev[f]
  BY DEF Holds, DeltaOf
<1>2. OneHolder'
  BY <1>1 DEF LockInv, OneHolder
<1>3. MarkIsSent' /\ RecountHoldsAlone'
  BY <1>1 DEF LockInv, MarkIsSent, RecountHoldsAlone
<1>4. ASSUME NEW e \in Evaluators, NEW a \in Advisories, Adds(e, a)'
      PROVE  a \in ev'[e].mark \union notified'
  <2>1. ev'[e].pc = "stored" /\ ev'[e] = ev[e]
    BY <1>4 DEF Adds
  <2>2. Holds(e, a)
    <3>1. /\ ev[e].pc = "stored" /\ ~ev[e].stale
          /\ Change(ev[e].stored[a], ev[e].reported[a]) \in {"add", "update"}
      BY <1>4, <2>1 DEF Adds
    <3> QED
      BY <3>1, LockIs
  <2>3. counts'[a] = counts[a] /\ (a \in notified => a \in notified')
    BY <2>1, <2>2
  <2>4. Adds(e, a)
    BY <1>4, <2>1, <2>3 DEF Adds, DeltaOf
  <2> QED
    BY <2>1, <2>3, <2>4, AddedIs DEF LockInv
<1> QED
  BY <1>2, <1>3, <1>4, AddedIs DEF LockInv

\* Every step preserves the locks.
LEMMA NextLock ==
    ASSUME TypeInv, LockInv, [Next]_vars
    PROVE  LockInv'
<1>0. counts \in [Advisories -> Count] /\ job \in Refresh
  BY TypeParts DEF CountType, JobType
<1>1. ASSUME NEW e \in Evaluators,
             \/ \E s \in Systems : EvalLoad(e, s)
             \/ \E reported \in Statuses : EvalCompare(e, reported)
             \/ EvalInvalidate(e) \/ InvalidateFail(e) \/ EvalFail(e)
      PROVE  LockInv'
  <2>1. ev'[e].pc # "stored" /\ \A f \in Evaluators : f # e => ev'[f] = ev[f]
    BY <1>1, EvalMoves, OthersKept
  <2>2. UNCHANGED <<counts, notified, sent, job>>
    BY <1>1, Zenon DEF EvalLoad, EvalCompare, EvalInvalidate, InvalidateFail, EvalFail, Others,
                       tableVars, notes
  <2> QED
    BY <2>1, <2>2, LockKept DEF HeldByJob
<1>2. ASSUME NEW e \in Evaluators, NEW how \in {"sent", "skipped", "failed"}, EvalStore(e, how)
      PROVE  LockInv'
  <2>1. \A f \in Evaluators : f # e => ev'[f] = ev[f]
    BY <1>2, OthersKept
  <2>2. /\ ev'[e] \in Evaluation /\ ev'[e].pc = "stored" /\ ev'[e].how = how
        /\ \A a \in Advisories : DeltaOf(ev'[e], a) # Zero => ~LockedFor(a, e)
        /\ \A a \in Advisories : a \in ev'[e].mark <=>
             /\ a \notin notified /\ Stored(ev'[e], a) # "none"
             /\ counts[a].inst + DeltaOf(ev'[e], a).inst > 0
        /\ sent' = IF how = "sent" THEN sent \union ev'[e].mark ELSE sent
        /\ UNCHANGED <<counts, notified, job>>
    BY <1>2, Stores DEF tableVars
  <2>3. \A f \in Evaluators, a \in Advisories : f # e => (Holds(f, a)' <=> Holds(f, a))
    BY <2>1 DEF Holds, DeltaOf
  <2>4. \A a \in Advisories, f \in Evaluators : Holds(e, a)' /\ Holds(f, a)' => f = e
    <3> SUFFICES ASSUME NEW a \in Advisories, NEW f \in Evaluators, Holds(e, a)', Holds(f, a)', f # e
                 PROVE  FALSE
      OBVIOUS
    <3>1. DeltaOf(ev'[e], a) # Zero
      BY DEF Holds, DeltaOf
    <3>2. ~LockedFor(a, e)
      BY <2>2, <3>1
    <3> QED
      BY <2>3, <3>2, LockIs
  <2>5. OneHolder' /\ RecountHoldsAlone'
    <3>1. OneHolder'
      BY <2>3, <2>4 DEF LockInv, OneHolder
    <3>2. \A a \in Advisories : Holds(e, a)' => DeltaOf(ev'[e], a) # Zero
      BY DEF Holds, DeltaOf
    <3>3. \A a \in Advisories : Holds(e, a)' => ~HeldByJob(a)
      BY <2>2, <3>2, LockIs
    <3>4. \A a \in Advisories : HeldByJob(a)' <=> HeldByJob(a)
      BY <2>2 DEF HeldByJob
    <3> QED
      BY <2>3, <3>1, <3>3, <3>4 DEF LockInv, RecountHoldsAlone
  <2>6. MarkIsSent'
    <3>1. sent \subseteq sent' /\ (how = "sent" => ev'[e].mark \subseteq sent')
      BY <2>2
    <3> QED
      BY <2>1, <2>2, <3>1 DEF LockInv, MarkIsSent
  <2>7. ASSUME NEW f \in Evaluators, NEW a \in Advisories, Adds(f, a)'
        PROVE  a \in ev'[f].mark \union notified'
    <3>1. CASE f = e
      <4>1. /\ ev'[e].valid /\ Change(ev'[e].stored[a], ev'[e].reported[a]) \in {"add", "update"}
            /\ counts[a].inst + DeltaOf(ev'[e], a).inst > 0
        BY <2>2, <2>7, <3>1 DEF Adds, DeltaOf
      <4>2. Stored(ev'[e], a) = ev'[e].reported[a]
        BY <4>1 DEF Stored
      <4>3. ev'[e].reported[a] # "none"
        BY <4>1 DEF Change
      <4> QED
        BY <2>2, <3>1, <4>1, <4>2, <4>3
    <3>2. CASE f # e
      <4>1. ev'[f] = ev[f]
        BY <2>1, <3>2
      <4>2. Adds(f, a)
        BY <2>2, <2>7, <4>1 DEF Adds, DeltaOf
      <4> QED
        BY <2>2, <4>1, <4>2, AddedIs DEF LockInv
    <3> QED
      BY <3>1, <3>2
  <2> QED
    BY <2>5, <2>6, <2>7, AddedIs DEF LockInv
<1>3. ASSUME NEW e \in Evaluators, EvalCommit(e)
      PROVE  LockInv'
  <2>1. ev[e].pc = "stored" /\ ev'[e].pc = "done" /\ \A f \in Evaluators : f # e => ev'[f] = ev[f]
    BY <1>3, EvalMoves, OthersKept
  <2>2. /\ sent' = sent /\ notified \subseteq notified'
        /\ counts' = [a \in Advisories |-> Plus(counts[a], DeltaOf(ev[e], a))]
    BY <1>3, Commits, Marks
  <2>3. ASSUME NEW f \in Evaluators, NEW a \in Advisories, Holds(f, a), f # e
        PROVE  counts'[a] = counts[a]
    <3>1. ~Holds(e, a)
      BY <2>3 DEF LockInv, OneHolder
    <3>2. DeltaOf(ev[e], a) = Zero
      BY <2>1, <3>1 DEF Holds
    <3> QED
      BY <1>0, <2>2, <3>2 DEF Plus, Zero, Count
  <2>4. \A f \in Evaluators, a \in Advisories :
          Holds(f, a) /\ ev'[f] = ev[f]
            => counts'[a] = counts[a] /\ (a \in notified => a \in notified')
    BY <2>1, <2>2, <2>3
  <2>5. \A a \in Advisories : HeldByJob(a)' <=> HeldByJob(a)
    <3>1. /\ InexactOf(ev[e]) \union ChangedBy(e) \in SUBSET Advisories
          /\ Overtake(InexactOf(ev[e]) \union ChangedBy(e))
      BY <1>3, Commits DEF InexactOf, ChangedBy
    <3>2. job'.pc = job.pc /\ job'.held = job.held
      BY <1>0, <3>1, Overtakes
    <3> QED
      BY <3>2 DEF HeldByJob
  <2> QED
    BY <2>1, <2>2, <2>4, <2>5, LockKept
<1>4. ASSUME NEW s \in Systems, FlipCommit(s) \/ DeleteCommit(s)
      PROVE  LockInv'
  <2>1. UNCHANGED <<ev, notified, sent>>
    BY <1>4, Zenon DEF FlipCommit, DeleteCommit, notes
  <2>2. UNCHANGED <<counts, job>> \/ Trigger(s, TRUE) \/ Trigger(s, ~stale[s])
    BY <1>4, Zenon DEF FlipCommit, DeleteCommit, tableVars
  <2>3. (~stale[s]) \in BOOLEAN /\ TRUE \in BOOLEAN
    OBVIOUS
  <2>4. \A a \in Advisories : Locked(a) => counts'[a] = counts[a]
    BY <2>2, <2>3, TriggerAdds, Zenon
  <2>5. \A f \in Evaluators, a \in Advisories : Holds(f, a) => counts'[a] = counts[a]
    BY <2>4, LockIs
  <2>6. job'.pc = job.pc /\ job'.held = job.held
    <3>1. OutdatedIn(s) \union ChangedIn(s) \in SUBSET Advisories
      BY DEF OutdatedIn, ChangedIn
    <3>2. job' = job \/ Overtake(OutdatedIn(s) \union ChangedIn(s))
      BY <2>2, <2>3, TriggerAdds, Zenon
    <3> QED
      BY <1>0, <3>1, <3>2, Overtakes
  <2> QED
    BY <2>1, <2>5, <2>6, LockKept DEF HeldByJob
<1>5. ASSUME JobWrite
      PROVE  LockInv'
  <2>1. /\ UNCHANGED <<ev, sent>> /\ job.pc = "counted" /\ \A a \in Written \ job.held : ~Locked(a)
        /\ counts' = [a \in Advisories |-> IF a \in Written THEN job.cnt[a] ELSE counts[a]]
        /\ notified' = notified \ job.doomed /\ job' = [NoJob EXCEPT !.pc = "refreshed"]
    BY <1>5, JobWrites
  <2>2. \A f \in Evaluators, a \in Advisories : Holds(f, a) => a \notin Written
    <3>1. \A f \in Evaluators, a \in Advisories : Holds(f, a) => Locked(a) /\ ~HeldByJob(a)
      BY LockIs DEF LockInv, RecountHoldsAlone
    <3> QED
      BY <2>1, <3>1 DEF HeldByJob
  <2>3. \A f \in Evaluators, a \in Advisories :
          Holds(f, a) => counts'[a] = counts[a] /\ (a \in notified => a \in notified')
    BY <1>0, <2>1, <2>2 DEF Written
  <2>4. job'.pc # "counted"
    BY <2>1 DEF NoJob
  <2> QED
    BY <2>1, <2>3, <2>4, LockKept DEF HeldByJob
<1>6. ASSUME CleanAdvisoryAccountData
      PROVE  LockInv'
  <2>1. /\ UNCHANGED <<ev, sent>> /\ \A a \in Empty : ~Locked(a)
        /\ counts' = [a \in Advisories |-> IF a \in Empty THEN Zero ELSE counts[a]]
        /\ notified' = notified \ Empty
    BY <1>6, Cleans
  <2>2. \A f \in Evaluators, a \in Advisories : Holds(f, a) => a \notin Empty
    BY <2>1, LockIs
  <2>3. \A f \in Evaluators, a \in Advisories :
          Holds(f, a) => counts'[a] = counts[a] /\ (a \in notified => a \in notified')
    BY <1>0, <2>1, <2>2
  <2>4. job'.pc = job.pc /\ job'.held \subseteq job.held
    BY <1>0, <1>6, CleansJob
  <2> QED
    BY <2>1, <2>3, <2>4, LockKept DEF HeldByJob
<1>7. ASSUME JobCount
      PROVE  LockInv'
  <2>1. /\ UNCHANGED <<ev, sent, counts, notified>> /\ \A a \in job.held : ~Locked(a)
    BY <1>7, Zenon DEF JobCount, tableVars, notes
  <2>2. job'.held = job.held
    BY <1>7 DEF JobCount
  <2>3. RecountHoldsAlone'
    <3>1. \A e \in Evaluators, a \in Advisories : Holds(e, a)' => Locked(a)
      BY <2>1, LockIs DEF Holds, DeltaOf
    <3> QED
      BY <2>1, <2>2, <3>1 DEF RecountHoldsAlone, HeldByJob
  <2>4. OneHolder' /\ MarkIsSent'
    BY <2>1 DEF LockInv, OneHolder, MarkIsSent, Holds, DeltaOf
  <2>5. \A e \in Evaluators, a \in Advisories : Adds(e, a)' => Adds(e, a)
    BY <2>1 DEF Adds, DeltaOf
  <2> QED
    BY <2>1, <2>3, <2>4, <2>5, AddedIs DEF LockInv
<1>8. ASSUME \/ JobLock \/ JobErrOverwritten \/ JobSetValid \/ JobFail \/ UNCHANGED vars
             \/ \E s \in Systems : StaleFlip(s) \/ DeleteSystem(s)
      PROVE  LockInv'
  <2>1. UNCHANGED <<ev, sent, counts, notified>>
    BY <1>8, Zenon DEF JobLock, JobErrOverwritten, JobSetValid, JobFail, StaleFlip, DeleteSystem,
                       tableVars, notes, vars
  <2>2. job' = job \/ job'.pc # "counted"
    <3>1. CASE JobLock \/ JobErrOverwritten \/ JobSetValid \/ JobFail
      BY <3>1, JobRests
    <3>2. CASE UNCHANGED vars \/ \E s \in Systems : StaleFlip(s) \/ DeleteSystem(s)
      BY <3>2, Zenon DEF StaleFlip, DeleteSystem, vars
    <3> QED
      BY <1>8, <3>1, <3>2
  <2> QED
    BY <2>1, <2>2, LockKept DEF HeldByJob
<1> QED
  BY <1>1, <1>2, <1>3, <1>4, <1>5, <1>6, <1>7, <1>8, Zenon DEF Next

\* The systems that show an advisory are in its recount, in every state.
ShownCounted == \A s \in Systems : Counted(s) => \A a \in Shown(s) : Recount(a).inst > 0

\* ShownIsCounted as a state predicate.
LEMMA ShownCountedAlways == ShownCounted
BY ShownIsCounted DEF ShownCounted

\* It holds after a step too.
LEMMA ShownCountedNext == ShownCounted'
BY ShownCountedAlways, PTL

\* What is marked was sent, or it is silent, after every step.
LEMMA NextNotified ==
    ASSUME TypeInv, LockInv, NotifiedIsSent, [Next]_vars
    PROVE  NotifiedIsSent'
<1>1. ASSUME UNCHANGED <<notified, silent>>, sent \subseteq sent'
      PROVE  NotifiedIsSent'
  BY <1>1 DEF NotifiedIsSent
<1>2. ASSUME NEW e \in Evaluators, EvalCommit(e)
      PROVE  NotifiedIsSent'
  <2>1. /\ silent' = (silent \ Told(ev[e])) \union (ev[e].mark \ Told(ev[e]))
                       \union (drifted' \ notified')
        /\ sent' = sent /\ ev[e].pc = "stored"
    BY <1>2, Commits
  <2>2. notified' \subseteq notified \union ev[e].mark
    BY <1>2, Marks
  <2>3. Told(ev[e]) \subseteq sent
    BY <2>1 DEF Told, LockInv, MarkIsSent
  <2> QED
    BY <2>1, <2>2, <2>3 DEF NotifiedIsSent
<1>3. ASSUME NEW s \in Systems, FlipCommit(s) \/ DeleteCommit(s)
      PROVE  NotifiedIsSent'
  <2>1. UNCHANGED <<notified, sent>> /\ silent \subseteq silent'
    BY <1>3, Zenon DEF FlipCommit, DeleteCommit, notes
  <2> QED
    BY <2>1 DEF NotifiedIsSent
<1>4. ASSUME JobWrite \/ CleanAdvisoryAccountData
      PROVE  NotifiedIsSent'
  <2>1. notified' \subseteq notified /\ sent' = sent /\ silent \subseteq silent'
    BY <1>4, JobWrites, Cleans
  <2> QED
    BY <2>1 DEF NotifiedIsSent
<1>5. ASSUME QuietStep \/ UNCHANGED vars
      PROVE  NotifiedIsSent'
  <2>1. UNCHANGED <<notified, silent>>
    BY <1>5, QuietKeeps, Zenon DEF vars
  <2>2. sent \subseteq sent'
    <3>1. CASE \E e \in Evaluators : \E how \in {"sent", "skipped", "failed"} : EvalStore(e, how)
      BY <3>1, Stores
    <3>2. CASE ~\E e \in Evaluators : \E how \in {"sent", "skipped", "failed"} : EvalStore(e, how)
      BY <1>5, <3>2, Zenon DEF QuietStep, EvalLoad, EvalCompare, EvalInvalidate, InvalidateFail,
            EvalFail, StaleFlip, DeleteSystem, JobLock, JobCount, JobErrOverwritten, JobSetValid,
            JobFail, notes, vars
    <3> QED
      BY <3>1, <3>2
  <2> QED
    BY <1>1, <2>1, <2>2
<1> QED
  BY <1>2, <1>3, <1>4, <1>5, Steps, Zenon

\* After a commit, what a counted system shows was announced.
LEMMA CommitAnnounces ==
    ASSUME AnnounceInv, ExactInv', NotifiedIsSent', NEW e \in Evaluators, EvalCommit(e)
    PROVE  InstallableWasAnnouncedUnlessSilent'
<1> DEFINE x == ev[e]
<1>0. /\ TypeInv /\ TypeInv' /\ ExactInv /\ LockInv /\ NotifiedIsSent
      /\ status \in [Systems -> Statuses] /\ evaluated \in [Systems -> BOOLEAN]
      /\ alive \in [Systems -> BOOLEAN] /\ stale \in [Systems -> BOOLEAN]
      /\ counts \in [Advisories -> Count]
  BY TypeParts DEF AnnounceInv, ExactInv, LockInv, SystemType, CountType
<1>1. ev[e].s \in Systems /\ x \in Evaluation /\ x.pc = "stored"
  BY <1>0, EvalMoves
<1> PICK s \in Systems : s = ev[e].s
  BY <1>1
<1> SUFFICES ASSUME NEW t \in Systems, Counted(t)', NEW a \in Shown(t)', a \notin silent'
             PROVE  a \in notified' /\ a \in sent'
  BY DEF InstallableWasAnnouncedUnlessSilent
<1>2. a \in Advisories /\ status'[t][a] = "installable"
  BY DEF Shown
<1>3. /\ silent' = (silent \ Told(x)) \union (x.mark \ Told(x)) \union (drifted' \ notified')
      /\ drifted' = drifted \union InexactOf(x)
      /\ sent' = sent /\ UNCHANGED <<alive, stale>>
      /\ counts'[a] = Plus(counts[a], DeltaOf(x, a))
  BY <1>2, Commits
<1>4. a \in notified' => a \in sent'
  BY DEF NotifiedIsSent
<1>5. CASE a \in drifted'
  BY <1>3, <1>4, <1>5
<1>6. CASE a \notin drifted'
  <2>1. counts'[a].inst > 0 /\ counts'[a] # Zero
    <3>1. counts'[a] = Recount(a)'
      BY <1>0, <1>2, <1>6 DEF ExactInv, CountsExactUnlessDrifted
    <3>2. Recount(a)'.inst > 0
      BY ShownCountedNext DEF ShownCounted
    <3> QED
      BY <3>1, <3>2 DEF Zero
  <2>2. a \in x.mark => a \in notified'
    <3> SUFFICES ASSUME a \in x.mark
                 PROVE  a \in notified'
      OBVIOUS
    <3>1. a \in Told(x)
      BY <1>3
    <3>2. x.how = "sent"
      BY <3>1 DEF Told
    <3>3. a \in rows'
      BY <1>2, <2>1 DEF ExactInv, NoRowNoCounts
    <3> QED
      BY <1>0, <3>2, <3>3, Marks
  <2>3. a \in notified => a \in notified'
    BY <1>0, Marks
  <2>4. a \in silent => a \in x.mark
    BY <1>1, <1>3 DEF Told
  <2>5. ASSUME Counted(t), a \in Shown(t)
        PROVE  a \in notified'
    BY <2>2, <2>3, <2>4, <2>5 DEF AnnounceInv, InstallableWasAnnouncedUnlessSilent
  <2>6. CASE t # s
    <3>1. status'[t] = status[t] /\ evaluated'[t] = evaluated[t]
      <4> DEFINE new == [b \in Advisories |-> Stored(x, b)]
      <4>1. /\ status' = [status EXCEPT ![s] = new]
            /\ evaluated' = [evaluated EXCEPT ![s] = @ \/ alive[s]]
        BY Commits
      <4> HIDE DEF new
      <4> QED
        BY <1>0, <2>6, <4>1
    <3>2. Counted(t) /\ a \in Shown(t)
      BY <1>2, <1>3, <3>1 DEF Counted, Shown
    <3> QED
      BY <1>4, <2>5, <3>2
  <2>7. CASE t = s
    <3>1. /\ stale[s] = x.stale /\ alive[s] /\ x.valid /\ status[s][a] = x.stored[a]
          /\ ~x.stale => ~Inexact(x.stored[a], x.reported[a])
      BY <1>0, <1>1, <1>2, <1>3, <1>6 DEF InexactOf, Apart, Evaluation
    <3>2. ~stale[s]
      BY <1>3, <2>7 DEF Counted
    <3>3. Stored(x, a) = "installable"
      <4>1. status' = [status EXCEPT ![s] = [b \in Advisories |-> Stored(x, b)]]
        BY Commits
      <4> QED
        BY <1>0, <1>2, <2>7, <4>1
    <3>4. x.stored[a] \in Status /\ x.reported[a] \in Status
      BY <1>1, <1>2 DEF Evaluation, Statuses
    <3>5. CASE Change(x.stored[a], x.reported[a]) = "add"
      <4>1. Adds(e, a)
        <5>1. ~x.stale
          BY <3>1, <3>2
        <5>2. counts[a].inst + DeltaOf(x, a).inst > 0
          BY <1>3, <2>1 DEF Plus
        <5> QED
          BY <1>1, <3>1, <3>5, <5>1, <5>2 DEF Adds
      <4>2. a \in x.mark \union notified
        BY <1>0, <1>2, <4>1, AddedIs DEF LockInv
      <4> QED
        BY <1>4, <2>2, <2>3, <4>2
    <3>6. CASE Change(x.stored[a], x.reported[a]) # "add"
      <4>1. Change(x.stored[a], x.reported[a]) \in {"nothing", "keep", "remove"}
        BY <3>1, <3>2, <3>4, <3>6, DeltaExact
      <4>2. status[s][a] = "installable"
        BY <3>1, <3>3, <4>1 DEF Stored
      <4>3. evaluated[s]
        BY <1>0, <1>2, <3>1, <4>2 DEF ExactInv, UnevaluatedHasNone
      <4>4. Counted(t) /\ a \in Shown(t)
        BY <1>2, <2>7, <3>1, <3>2, <4>2, <4>3 DEF Counted, Shown
      <4> QED
        BY <1>4, <2>5, <4>4
    <3> QED
      BY <3>5, <3>6
  <2> QED
    BY <2>6, <2>7
<1> QED
  BY <1>5, <1>6

\* Every step preserves AnnounceInv.
LEMMA NextAnnounce == AnnounceInv /\ [Next]_vars => AnnounceInv'
<1> SUFFICES ASSUME AnnounceInv, [Next]_vars
             PROVE  AnnounceInv'
  OBVIOUS
<1>0. /\ TypeInv /\ ExactInv /\ ExactInv' /\ LockInv /\ LockInv' /\ NotifiedIsSent /\ NotifiedIsSent'
      /\ stale \in [Systems -> BOOLEAN]
  BY NextExact, NextLock, NextNotified, TypeParts DEF AnnounceInv, ExactInv, LockInv, SystemType
<1> DEFINE Goal == InstallableWasAnnouncedUnlessSilent
<1>1. ASSUME NEW e \in Evaluators, EvalCommit(e)
      PROVE  Goal'
  BY <1>0, <1>1, CommitAnnounces
<1>2. ASSUME UNCHANGED <<status, alive, evaluated, stale>>, silent \subseteq silent', sent \subseteq sent',
             \A s \in Systems : \A a \in Shown(s) \ silent' : Counted(s) /\ a \in notified => a \in notified'
      PROVE  Goal'
  <2>1. \A s \in Systems : (Counted(s)' <=> Counted(s)) /\ Shown(s)' = Shown(s)
    BY <1>2 DEF Counted, Shown
  <2> QED
    BY <1>2, <2>1 DEF AnnounceInv, InstallableWasAnnouncedUnlessSilent
<1>3. ASSUME NEW s \in Systems, FlipCommit(s)
      PROVE  Goal'
  <2>1. /\ UNCHANGED <<status, alive, evaluated, notified, sent>>
        /\ silent' = IF stale[s] THEN silent \union (Shown(s) \ notified) ELSE silent
        /\ stale' = [stale EXCEPT ![s] = ~@]
    BY <1>3, Zenon DEF FlipCommit
  <2>2. \A t \in Systems : Shown(t)' = Shown(t)
    BY <2>1 DEF Shown
  <2>3. \A t \in Systems : t # s => (Counted(t)' <=> Counted(t))
    BY <1>0, <2>1 DEF Counted
  <2>4. stale[s] \/ ~Counted(s)'
    BY <1>0, <2>1 DEF Counted
  <2>5. silent \subseteq silent' /\ (stale[s] => Shown(s) \ notified \subseteq silent')
    BY <2>1
  <2>6. \A a \in notified : a \notin silent' => a \in sent
    BY <1>0, <2>5 DEF NotifiedIsSent
  <2> QED
    BY <2>1, <2>2, <2>3, <2>4, <2>5, <2>6 DEF AnnounceInv, InstallableWasAnnouncedUnlessSilent
<1>4. ASSUME NEW s \in Systems, DeleteCommit(s)
      PROVE  Goal'
  <2>1. /\ UNCHANGED <<stale, notified, sent, silent>> /\ alive' = [alive EXCEPT ![s] = FALSE]
        /\ evaluated' = [evaluated EXCEPT ![s] = FALSE]
        /\ status' = [status EXCEPT ![s] = Nothing]
    BY <1>4, Zenon DEF DeleteCommit, notes
  <2>2. \A t \in Systems : Counted(t)' => Counted(t) /\ Shown(t)' = Shown(t)
    <3>1. status \in [Systems -> Statuses] /\ alive \in [Systems -> BOOLEAN]
          /\ evaluated \in [Systems -> BOOLEAN]
      BY <1>0, TypeParts DEF SystemType
    <3> QED
      BY <2>1, <3>1 DEF Counted, Shown
  <2> QED
    BY <2>1, <2>2 DEF AnnounceInv, InstallableWasAnnouncedUnlessSilent
<1>5. ASSUME JobWrite
      PROVE  Goal'
  <2>1. /\ UNCHANGED sysVars /\ sent' = sent /\ job.pc = "counted"
        /\ notified' = notified \ job.doomed
        /\ silent' = silent \union (notified \intersect job.doomed \intersect job.late)
    BY <1>5, JobWrites
  <2>2. ASSUME NEW s \in Systems, NEW a \in Shown(s), Counted(s), a \in job.doomed
        PROVE  a \in job.late
    <3>1. Recount(a) # Zero /\ a \in Advisories
      BY <2>2, ShownIsCounted DEF Shown
    <3>2. job.cnt[a] = Zero
      BY <1>0, <2>2 DEF ExactInv, DoomedIsZero
    <3> QED
      BY <1>0, <2>1, <3>1, <3>2 DEF ExactInv, CountIsFresh
  <2>3. \A s \in Systems : \A a \in Shown(s) \ silent' : Counted(s) /\ a \in notified => a \in notified'
    BY <2>1, <2>2
  <2> QED
    BY <1>2, <2>1, <2>3 DEF sysVars
<1>6. ASSUME CleanAdvisoryAccountData
      PROVE  Goal'
  <2>1. /\ UNCHANGED sysVars /\ sent' = sent /\ notified' = notified \ Empty
        /\ silent' = silent \union (notified \intersect Empty \intersect drifted)
    BY <1>6, Cleans
  <2>2. ASSUME NEW s \in Systems, NEW a \in Shown(s), Counted(s), a \in Empty
        PROVE  a \in drifted
    <3>1. Recount(a).inst > 0 /\ a \in Advisories
      BY <2>2, ShownIsCounted DEF Shown
    <3>2. counts[a].inst <= 0
      BY <2>2 DEF Empty
    <3>3. counts[a].inst \in Int /\ Recount(a).inst \in Int
      BY <1>0, <3>1, RecountType, TypeParts DEF CountType, Count
    <3>4. counts[a] # Recount(a)
      BY <3>1, <3>2, <3>3
    <3> QED
      BY <1>0, <3>1, <3>4 DEF ExactInv, CountsExactUnlessDrifted
  <2>3. \A s \in Systems : \A a \in Shown(s) \ silent' : Counted(s) /\ a \in notified => a \in notified'
    BY <2>1, <2>2
  <2> QED
    BY <1>2, <2>1, <2>3 DEF sysVars
<1>7. ASSUME QuietStep \/ UNCHANGED vars
      PROVE  Goal'
  <2>1. UNCHANGED <<status, alive, evaluated, stale, notified, silent>>
    BY <1>7, QuietKeeps, Zenon DEF vars
  <2>2. sent \subseteq sent'
    <3>1. CASE \E e \in Evaluators : \E how \in {"sent", "skipped", "failed"} : EvalStore(e, how)
      BY <1>0, <3>1, Stores
    <3>2. CASE ~\E e \in Evaluators : \E how \in {"sent", "skipped", "failed"} : EvalStore(e, how)
      BY <1>7, <3>2, Zenon DEF QuietStep, EvalLoad, EvalCompare, EvalInvalidate, InvalidateFail,
            EvalFail, StaleFlip, DeleteSystem, JobLock, JobCount, JobErrOverwritten, JobSetValid,
            JobFail, notes, vars
    <3> QED
      BY <3>1, <3>2
  <2> QED
    BY <1>2, <2>1, <2>2
<1>8. Goal'
  BY <1>1, <1>3, <1>4, <1>5, <1>6, <1>7, Steps, Zenon
<1> QED
  BY <1>0, <1>8 DEF AnnounceInv, LockInv

\* An advisory that a counted system shows as installable was sent to the users and is
\* marked, although the notification leaves before the transaction commits and the mark
\* lives in a row that the refresh and the cleaning job delete: the row locks keep the mark
\* and the count together from publishNewAdvisoriesNotification to the commit.
THEOREM InstallableAnnounced == Spec => []InstallableWasAnnouncedUnlessSilent
<1>1. Init => AnnounceInv
  <2> SUFFICES ASSUME Init
               PROVE  AnnounceInv
    OBVIOUS
  <2>1. \A e \in Evaluators : ev[e].pc = "idle"
    BY IdleType DEF Init
  <2>2. OneHolder /\ RecountHoldsAlone /\ MarkIsSent /\ AddedIsMarked
    BY <2>1 DEF OneHolder, RecountHoldsAlone, Holds, MarkIsSent, AddedIsMarked
  <2>3. NotifiedIsSent /\ InstallableWasAnnouncedUnlessSilent
    BY DEF Init, NotifiedIsSent, InstallableWasAnnouncedUnlessSilent, Counted
  <2> QED
    BY <2>2, <2>3, InitExact DEF AnnounceInv
<1>2. AnnounceInv => InstallableWasAnnouncedUnlessSilent
  BY DEF AnnounceInv
<1> QED
  BY <1>1, <1>2, NextAnnounce, PTL DEF Spec

-----------------------------------------------------------------------------
(* Migration: the inductive invariant *)

Inside == {"unlock", "decide", "block", "list", "kill", "wait", "force", "step", "ddl", "repair",
           "unblock", "finish"}
Blocking == {"block", "list", "kill", "wait", "force", "step", "ddl", "repair", "unblock"}
Quiet == {"list", "kill", "wait", "force", "step", "ddl", "repair"}

\* The migrator that is at work holds the lock.
HoldsLock(m) == mig[m].pc \in Inside <=> lock = m

\* How far a migrator has got with blocking or unblocking is what its todo says.
LoginFits(m) ==
    /\ mig[m].pc = "block" => login \subseteq mig[m].todo
    /\ mig[m].pc \in Quiet => login = {}
    /\ mig[m].pc \in {"unlock", "unblock"} => Users \ login \subseteq mig[m].todo

\* No session is open once waitForSessionClosed has returned.
OpenFits(m) == mig[m].pc \in {"force", "step", "ddl", "repair"} => open = {}

\* A migrator that is about to migrate still has reason to; one that is at a file has marked it.
ActionFits(m) ==
    /\ mig[m].pc \in {"block", "list", "kill", "wait", "force"} /\ ~mig[m].repairing
            => MigrateAction = "MIGRATE"
    /\ mig[m].pc \in {"force", "step", "ddl"} => ~mig[m].repairing
    /\ mig[m].pc = "ddl" => dirty
    /\ mig[m].pc \in {"force", "step", "ddl"} => config.expected <= Files

MigratorFits ==
    \A m \in Migrators : HoldsLock(m) /\ LoginFits(m) /\ OpenFits(m) /\ ActionFits(m)

\* Only a migration that had its files leaves a dirty schema; pods start when all is applied.
SchemaFits ==
    /\ dirty => config.expected <= Files
    /\ up # {} => MigrateAction = "CONTINUE"

SafeInv == MigrationTypeOK /\ MigratorFits /\ SchemaFits /\ LockedOutUnlessAborted

-----------------------------------------------------------------------------
(* Migration: lemmas *)

\* Whoever does not hold the lock is outside, and whatever the holder does suits it.
LEMMA OthersFit ==
    ASSUME SafeInv, NEW m \in Migrators, lock \in {m, NoOne}, lock' \in {m, NoOne},
           NEW n \in Migrators, n # m, mig'[n] = mig[n]
    PROVE  HoldsLock(n)' /\ LoginFits(n)' /\ OpenFits(n)' /\ ActionFits(n)'
<1>1. mig[n].pc \notin Inside
  BY MigrationAssumption DEF SafeInv, MigratorFits, HoldsLock
<1>2. lock' # n
  BY MigrationAssumption
<1>. QED  BY <1>1, <1>2 DEF HoldsLock, LoginFits, OpenFits, ActionFits, Inside, Quiet

\* A step of the migrator m, which holds the lock or takes it, keeps the migrators' invariant
\* if it keeps that of m.
LEMMA StepFits ==
    ASSUME SafeInv, NEW m \in Migrators, lock \in {m, NoOne}, lock' \in {m, NoOne},
           \A n \in Migrators : n # m => mig'[n] = mig[n],
           HoldsLock(m)', LoginFits(m)', OpenFits(m)', ActionFits(m)'
    PROVE  MigratorFits'
BY OthersFit DEF MigratorFits

\* Where the schema and the configuration stay, so does the decision.
LEMMA SameAction ==
    ASSUME UNCHANGED <<config, version, dirty>>
    PROVE  MigrateAction' = MigrateAction
BY DEF MigrateAction, MissingFiles, IntentionallyBlocked, Upgraded

\* The decision to continue means a clean schema of the latest file.
LEMMA ContinueMeans ==
    ASSUME MigrationTypeOK, MigrateAction = "CONTINUE"
    PROVE  ~dirty /\ version = Files /\ config.expected \in {Files, -1}
BY MigrationAssumption DEF MigrationTypeOK, Config, Versions, MigrateAction, MissingFiles,
    IntentionallyBlocked, Upgraded

\* The decision to migrate is made only if the files reach the version.
LEMMA MigrateMeans ==
    ASSUME MigrationTypeOK, SchemaFits, MigrateAction = "MIGRATE"
    PROVE  config.expected <= Files
BY MigrationAssumption DEF MigrationTypeOK, Config, Versions, MigrateAction, MissingFiles,
    IntentionallyBlocked, Upgraded, SchemaFits

\* A step that moves only the migrator m.
Moved(m, pc, repairing, todo) ==
    /\ mig'[m].pc = pc /\ mig'[m].repairing = repairing /\ mig'[m].todo = todo
    /\ \A n \in Migrators : n # m => mig'[n] = mig[n]
    /\ mig' \in [Migrators -> Migrator]

\* Goto, GotoWith, a change of todo and AfterMigration move m and nobody else.
LEMMA GotoMoves ==
    ASSUME MigrationTypeOK, NEW m \in Migrators, NEW pc \in Inside \union {"done", "blocked"}, Goto(m, pc)
    PROVE  Moved(m, pc, mig[m].repairing, mig[m].todo)
BY DEF MigrationTypeOK, Migrator, Goto, Moved, Inside

\* The same with a new todo.
LEMMA GotoWithMoves ==
    ASSUME MigrationTypeOK, NEW m \in Migrators, NEW pc \in Inside, NEW S \in SUBSET Users,
           GotoWith(m, pc, S)
    PROVE  Moved(m, pc, mig[m].repairing, S)
BY DEF MigrationTypeOK, Migrator, GotoWith, Moved, Inside

\* One user less to do.
LEMMA TodoMoves ==
    ASSUME MigrationTypeOK, NEW m \in Migrators, NEW u,
           mig' = [mig EXCEPT ![m].todo = @ \ {u}]
    PROVE  Moved(m, mig[m].pc, mig[m].repairing, mig[m].todo \ {u})
BY DEF MigrationTypeOK, Migrator, Moved

\* After a migration m either begins the repair or comes to its end.
LEMMA AfterMigrationMoves ==
    ASSUME MigrationTypeOK, NEW m \in Migrators, AfterMigration(m)
    PROVE  \/ Moved(m, "block", TRUE, Users)
           \/ Moved(m, "finish", mig[m].repairing, mig[m].todo)
<1>1. CASE config.repair
  BY <1>1 DEF MigrationTypeOK, Migrator, AfterMigration, Moved
<1>2. CASE ~config.repair
  BY <1>2, GotoMoves DEF AfterMigration, Inside
<1>. QED  BY <1>1, <1>2

\* A step of m that leaves LOGIN alone and does not leave the blocking phase.
LEMMA StillLockedOut ==
    ASSUME SafeInv, NEW m \in Migrators, NEW pc, NEW r, NEW S, Moved(m, pc, r, S),
           mig[m].pc \in Blocking => pc \in Blocking,
           login' = login, aborted' = aborted
    PROVE  LockedOutUnlessAborted'
BY DEF SafeInv, LockedOutUnlessAborted, Blocking, Moved

\* A step that leaves the schema alone keeps what is known of it.
LEMMA SameSchemaFits ==
    ASSUME SafeInv, UNCHANGED <<config, version, dirty, up>>
    PROVE  SchemaFits'
BY SameAction DEF SafeInv, SchemaFits

-----------------------------------------------------------------------------
(* One lemma for each kind of step *)

\* A step that only moves the migrator m, and perhaps closes sessions, keeps the invariant if
\* m keeps at its new place what it promises there.
LEMMA MoveStep ==
    ASSUME SafeInv, NEW m \in Migrators, NEW pc, NEW r, NEW S, Moved(m, pc, r, S),
           lock \in {m, NoOne}, lock' \in {m, NoOne}, open' \subseteq open,
           UNCHANGED <<config, version, dirty, up, login, aborted, panics>>,
           mig[m].pc \in Blocking => pc \in Blocking,
           HoldsLock(m)' /\ LoginFits(m)' /\ OpenFits(m)' /\ ActionFits(m)'
    PROVE  SafeInv'
<1>1. MigrationTypeOK'
  BY DEF SafeInv, MigrationTypeOK, Moved
<1>2. MigratorFits'
  BY StepFits DEF Moved
<1>3. SchemaFits'
  BY SameSchemaFits
<1>4. LockedOutUnlessAborted'
  BY StillLockedOut
<1>. QED  BY <1>1, <1>2, <1>3, <1>4 DEF SafeInv

\* The lock is released, and the process promises nothing any more.
LEMMA DecideBlockStep ==
    ASSUME SafeInv, NEW m \in Migrators, DecideBlock(m)
    PROVE  SafeInv'
<1>1. Moved(m, "blocked", mig[m].repairing, mig[m].todo)
  BY GotoMoves DEF SafeInv, DecideBlock
<1>2. lock = m /\ lock' = NoOne
  BY DEF SafeInv, MigratorFits, HoldsLock, Inside, DecideBlock
<1>8. HoldsLock(m)' /\ LoginFits(m)' /\ OpenFits(m)' /\ ActionFits(m)'
  BY <1>1, <1>2, MigrationAssumption
  DEF DecideBlock, Schema, Access, SafeInv, MigrationTypeOK, Moved, MigratorFits,
      HoldsLock, LoginFits, OpenFits, ActionFits, Inside, Quiet
<1>. QED
  BY <1>1, <1>2, <1>8, MoveStep DEF DecideBlock, Schema, Access, Blocking

\* The decision is the reason to migrate, and all users are still to be blocked.
LEMMA DecideMigrateStep ==
    ASSUME SafeInv, NEW m \in Migrators, DecideMigrate(m)
    PROVE  SafeInv'
<1>1. Moved(m, "block", mig[m].repairing, Users)
  BY GotoWithMoves DEF SafeInv, DecideMigrate, Inside
<1>2. lock = m /\ lock' = m
  BY DEF SafeInv, MigratorFits, HoldsLock, Inside, DecideMigrate
<1>3. MigrateAction' = MigrateAction
  BY SameAction DEF DecideMigrate, Schema
<1>8. HoldsLock(m)' /\ LoginFits(m)' /\ OpenFits(m)' /\ ActionFits(m)'
  BY <1>1, <1>2, <1>3, MigrationAssumption
  DEF DecideMigrate, Schema, Access, SafeInv, MigrationTypeOK, Moved, MigratorFits,
      HoldsLock, LoginFits, OpenFits, ActionFits, Inside, Quiet
<1>. QED
  BY <1>1, <1>2, <1>8, MoveStep DEF DecideMigrate, Schema, Access, Blocking

\* The list of sessions does not change what is known of LOGIN.
LEMMA ListSessionsStep ==
    ASSUME SafeInv, NEW m \in Migrators, ListSessions(m)
    PROVE  SafeInv'
<1>1. Moved(m, "kill", mig[m].repairing, open)
  BY GotoWithMoves DEF SafeInv, MigrationTypeOK, ListSessions, Inside
<1>2. lock = m /\ lock' = m
  BY DEF SafeInv, MigratorFits, HoldsLock, Inside, ListSessions
<1>3. MigrateAction' = MigrateAction
  BY SameAction DEF ListSessions, Schema
<1>8. HoldsLock(m)' /\ LoginFits(m)' /\ OpenFits(m)' /\ ActionFits(m)'
  BY <1>1, <1>2, <1>3, MigrationAssumption
  DEF ListSessions, Schema, Access, SafeInv, MigrationTypeOK, Moved, MigratorFits,
      HoldsLock, LoginFits, OpenFits, ActionFits, Inside, Quiet
<1>. QED
  BY <1>1, <1>2, <1>8, MoveStep DEF ListSessions, Schema, Access, Blocking

\* A terminated session cannot come back: its user has no LOGIN.
LEMMA TerminateSessionStep ==
    ASSUME SafeInv, NEW m \in Migrators, NEW u \in Users, TerminateSession(m, u)
    PROVE  SafeInv'
<1>1. Moved(m, "kill", mig[m].repairing, mig[m].todo \ {u})
  BY TodoMoves DEF SafeInv, TerminateSession
<1>2. lock = m /\ lock' = m
  BY DEF SafeInv, MigratorFits, HoldsLock, Inside, TerminateSession
<1>3. MigrateAction' = MigrateAction
  BY SameAction DEF TerminateSession, Schema
<1>8. HoldsLock(m)' /\ LoginFits(m)' /\ OpenFits(m)' /\ ActionFits(m)'
  BY <1>1, <1>2, <1>3, MigrationAssumption
  DEF TerminateSession, Schema, Access, SafeInv, MigrationTypeOK, Moved, MigratorFits,
      HoldsLock, LoginFits, OpenFits, ActionFits, Inside, Quiet
<1>. QED
  BY <1>1, <1>2, <1>8, MoveStep DEF TerminateSession, Schema, Access, Blocking

\* On to waitForSessionClosed.
LEMMA SessionsTerminatedStep ==
    ASSUME SafeInv, NEW m \in Migrators, SessionsTerminated(m)
    PROVE  SafeInv'
<1>1. Moved(m, "wait", mig[m].repairing, mig[m].todo)
  BY GotoMoves DEF SafeInv, SessionsTerminated, Inside
<1>2. lock = m /\ lock' = m
  BY DEF SafeInv, MigratorFits, HoldsLock, Inside, SessionsTerminated
<1>3. MigrateAction' = MigrateAction
  BY SameAction DEF SessionsTerminated, Schema
<1>8. HoldsLock(m)' /\ LoginFits(m)' /\ OpenFits(m)' /\ ActionFits(m)'
  BY <1>1, <1>2, <1>3, MigrationAssumption
  DEF SessionsTerminated, Schema, Access, SafeInv, MigrationTypeOK, Moved, MigratorFits,
      HoldsLock, LoginFits, OpenFits, ActionFits, Inside, Quiet
<1>. QED
  BY <1>1, <1>2, <1>8, MoveStep DEF SessionsTerminated, Schema, Access, Blocking

\* All users are still to be unblocked.
LEMMA MigratedStep ==
    ASSUME SafeInv, NEW m \in Migrators, Migrated(m)
    PROVE  SafeInv'
<1>1. Moved(m, "unblock", mig[m].repairing, Users)
  BY GotoWithMoves DEF SafeInv, Migrated, Inside
<1>2. lock = m /\ lock' = m
  BY DEF SafeInv, MigratorFits, HoldsLock, Inside, Migrated
<1>8. HoldsLock(m)' /\ LoginFits(m)' /\ OpenFits(m)' /\ ActionFits(m)'
  BY <1>1, <1>2, MigrationAssumption
  DEF Migrated, Schema, Access, SafeInv, MigrationTypeOK, Moved, MigratorFits,
      HoldsLock, LoginFits, OpenFits, ActionFits, Inside, Quiet
<1>. QED
  BY <1>1, <1>2, <1>8, MoveStep DEF Migrated, Schema, Access, Blocking

\* The same after the repair.
LEMMA RepairPartitionStep ==
    ASSUME SafeInv, NEW m \in Migrators, RepairPartition(m)
    PROVE  SafeInv'
<1>1. Moved(m, "unblock", mig[m].repairing, Users)
  BY GotoWithMoves DEF SafeInv, RepairPartition, Inside
<1>2. lock = m /\ lock' = m
  BY DEF SafeInv, MigratorFits, HoldsLock, Inside, RepairPartition
<1>8. HoldsLock(m)' /\ LoginFits(m)' /\ OpenFits(m)' /\ ActionFits(m)'
  BY <1>1, <1>2, MigrationAssumption
  DEF RepairPartition, Schema, Access, SafeInv, MigrationTypeOK, Moved, MigratorFits,
      HoldsLock, LoginFits, OpenFits, ActionFits, Inside, Quiet
<1>. QED
  BY <1>1, <1>2, <1>8, MoveStep DEF RepairPartition, Schema, Access, Blocking

\* The lock is released at the end.
LEMMA FinishStep ==
    ASSUME SafeInv, NEW m \in Migrators, Finish(m)
    PROVE  SafeInv'
<1>1. Moved(m, "done", mig[m].repairing, mig[m].todo)
  BY GotoMoves DEF SafeInv, Finish
<1>2. lock = m /\ lock' = NoOne
  BY DEF SafeInv, MigratorFits, HoldsLock, Inside, Finish
<1>8. HoldsLock(m)' /\ LoginFits(m)' /\ OpenFits(m)' /\ ActionFits(m)'
  BY <1>1, <1>2, MigrationAssumption
  DEF Finish, Schema, Access, SafeInv, MigrationTypeOK, Moved, MigratorFits,
      HoldsLock, LoginFits, OpenFits, ActionFits, Inside, Quiet
<1>. QED
  BY <1>1, <1>2, <1>8, MoveStep DEF Finish, Schema, Access, Blocking

\* Whoever gets the lock finds nobody inside.
LEMMA GetLockStep ==
    ASSUME SafeInv, NEW m \in Migrators, GetLock(m)
    PROVE  SafeInv'
<1>1. \/ Moved(m, "unlock", mig[m].repairing, Users)
      \/ Moved(m, "decide", mig[m].repairing, mig[m].todo)
  BY GotoMoves, GotoWithMoves DEF SafeInv, GetLock, Inside
<1>2. HoldsLock(m)' /\ LoginFits(m)' /\ OpenFits(m)' /\ ActionFits(m)'
  BY <1>1 DEF GetLock, Moved, HoldsLock, LoginFits, OpenFits, ActionFits, Inside, Quiet
<1>. QED
  BY <1>1, <1>2, MoveStep DEF GetLock, Schema, Access, Blocking

\* Without a migration only the repair may block users.
LEMMA DecideContinueStep ==
    ASSUME SafeInv, NEW m \in Migrators, DecideContinue(m)
    PROVE  SafeInv'
<1>1. \/ Moved(m, "block", TRUE, Users)
      \/ Moved(m, "finish", mig[m].repairing, mig[m].todo)
  BY AfterMigrationMoves DEF SafeInv, DecideContinue
<1>2. lock = m /\ lock' = m
  BY DEF SafeInv, MigratorFits, HoldsLock, Inside, DecideContinue
<1>3. HoldsLock(m)' /\ LoginFits(m)' /\ OpenFits(m)' /\ ActionFits(m)'
  BY <1>1, <1>2
  DEF SafeInv, MigrationTypeOK, DecideContinue, Access, Moved, HoldsLock, LoginFits, OpenFits, ActionFits,
      Inside, Quiet
<1>. QED
  BY <1>1, <1>2, <1>3, MoveStep DEF DecideContinue, Schema, Access, Blocking

\* Nothing left to block: nobody has LOGIN.
LEMMA UsersBlockedStep ==
    ASSUME SafeInv, NEW m \in Migrators, UsersBlocked(m)
    PROVE  SafeInv'
<1>1. \/ Moved(m, "list", mig[m].repairing, mig[m].todo)
      \/ Moved(m, "wait", mig[m].repairing, mig[m].todo)
  BY GotoMoves DEF SafeInv, UsersBlocked, Inside
<1>2. lock = m /\ lock' = m /\ login = {}
  BY DEF SafeInv, MigratorFits, HoldsLock, LoginFits, Inside, UsersBlocked
<1>3. MigrateAction' = MigrateAction
  BY SameAction DEF UsersBlocked, Schema
<1>4. HoldsLock(m)' /\ LoginFits(m)' /\ OpenFits(m)' /\ ActionFits(m)'
  BY <1>1, <1>2, <1>3
  DEF SafeInv, UsersBlocked, Access, Moved, MigratorFits, HoldsLock, LoginFits, OpenFits, ActionFits,
      Inside, Quiet
<1>. QED
  BY <1>1, <1>2, <1>4, MoveStep DEF UsersBlocked, Schema, Access, Blocking

\* The sessions are gone, and a migration that begins has the files it needs.
LEMMA WaitForSessionClosedStep ==
    ASSUME SafeInv, NEW m \in Migrators, WaitForSessionClosed(m)
    PROVE  SafeInv'
<1>1. \/ Moved(m, "repair", mig[m].repairing, mig[m].todo)
      \/ ~mig[m].repairing /\ Moved(m, "force", mig[m].repairing, mig[m].todo)
  BY GotoMoves DEF SafeInv, WaitForSessionClosed, Inside
<1>2. lock = m /\ lock' = m /\ login = {}
  BY DEF SafeInv, MigratorFits, HoldsLock, LoginFits, Inside, Quiet, WaitForSessionClosed
<1>3. MigrateAction' = MigrateAction
  BY SameAction DEF WaitForSessionClosed, Schema
<1>4. ~mig[m].repairing => MigrateAction = "MIGRATE" /\ config.expected <= Files
  BY MigrateMeans DEF SafeInv, MigratorFits, ActionFits, WaitForSessionClosed
<1>5. HoldsLock(m)' /\ LoginFits(m)' /\ OpenFits(m)' /\ ActionFits(m)'
  BY <1>1, <1>2, <1>3, <1>4
  DEF WaitForSessionClosed, Access, Moved, HoldsLock, LoginFits, OpenFits, ActionFits, Inside, Quiet
<1>. QED
  BY <1>1, <1>2, <1>5, MoveStep DEF WaitForSessionClosed, Schema, Access, Blocking

-----------------------------------------------------------------------------
(* Steps that change who may log in *)

\* Those who still have LOGIN are among those still to be blocked.
LEMMA BlockUserStep ==
    ASSUME SafeInv, NEW m \in Migrators, NEW u \in Users, BlockUser(m, u)
    PROVE  SafeInv'
<1>1. Moved(m, "block", mig[m].repairing, mig[m].todo \ {u})
  BY TodoMoves DEF SafeInv, BlockUser
<1>2. lock = m /\ lock' = m
  BY DEF SafeInv, MigratorFits, HoldsLock, Inside, BlockUser
<1>3. MigrateAction' = MigrateAction
  BY SameAction DEF BlockUser, Schema
<1>4. MigrationTypeOK'
  BY <1>1, <1>2 DEF SafeInv, MigrationTypeOK, Moved, BlockUser, Schema
<1>5. HoldsLock(m)' /\ LoginFits(m)' /\ OpenFits(m)' /\ ActionFits(m)'
  BY <1>1, <1>2, <1>3
  DEF SafeInv, BlockUser, Moved, MigratorFits, HoldsLock, LoginFits, OpenFits, ActionFits, Inside, Quiet
<1>6. MigratorFits'
  BY <1>1, <1>2, <1>5, StepFits DEF Moved
<1>7. SchemaFits'
  BY SameSchemaFits DEF BlockUser, Schema
<1>8. LockedOutUnlessAborted'
  BY <1>1 DEF LockedOutUnlessAborted, Moved
<1>. QED  BY <1>4, <1>6, <1>7, <1>8 DEF SafeInv

\* Those without LOGIN are among those still to be unblocked.
LEMMA UnblockUserStep ==
    ASSUME SafeInv, NEW m \in Migrators, NEW u \in Users, UnblockUser(m, u)
    PROVE  SafeInv'
<1>1. Moved(m, mig[m].pc, mig[m].repairing, mig[m].todo \ {u})
  BY TodoMoves DEF SafeInv, UnblockUser
<1>2. lock = m /\ lock' = m
  BY DEF SafeInv, MigratorFits, HoldsLock, Inside, UnblockUser
<1>3. MigrationTypeOK'
  BY <1>1, <1>2 DEF SafeInv, MigrationTypeOK, Moved, UnblockUser, Schema
<1>4. HoldsLock(m)' /\ LoginFits(m)' /\ OpenFits(m)' /\ ActionFits(m)'
  BY <1>1, <1>2
  DEF SafeInv, UnblockUser, Moved, MigratorFits, HoldsLock, LoginFits, OpenFits, ActionFits, Inside, Quiet
<1>5. MigratorFits'
  BY <1>1, <1>2, <1>4, StepFits DEF Moved
<1>6. SchemaFits'
  BY SameSchemaFits DEF UnblockUser, Schema
<1>7. login' # Users => login # Users
  BY DEF UnblockUser, SafeInv, MigrationTypeOK
<1>8. LockedOutUnlessAborted'
  BY <1>1, <1>7 DEF SafeInv, LockedOutUnlessAborted, Moved, UnblockUser
<1>. QED  BY <1>3, <1>5, <1>6, <1>8 DEF SafeInv

\* Nothing is left to do: every user has LOGIN, and no abort is left to repair.
LEMMA UsersUnblockedStep ==
    ASSUME SafeInv, NEW m \in Migrators, UsersUnblocked(m)
    PROVE  SafeInv'
<1>1. \/ Moved(m, "decide", mig[m].repairing, mig[m].todo)
      \/ Moved(m, "finish", mig[m].repairing, mig[m].todo)
      \/ Moved(m, "block", TRUE, Users)
  BY GotoMoves, AfterMigrationMoves DEF SafeInv, UsersUnblocked, Inside
<1>2. lock = m /\ lock' = m
  BY DEF SafeInv, MigratorFits, HoldsLock, Inside, UsersUnblocked
<1>3. login = Users /\ login' = Users
  BY DEF SafeInv, MigrationTypeOK, MigratorFits, LoginFits, UsersUnblocked, Access
<1>4. MigrationTypeOK'
  BY <1>1, <1>2 DEF SafeInv, MigrationTypeOK, Moved, UsersUnblocked, Schema, Access
<1>5. HoldsLock(m)' /\ LoginFits(m)' /\ OpenFits(m)' /\ ActionFits(m)'
  BY <1>1, <1>2, <1>3 DEF Moved, HoldsLock, LoginFits, OpenFits, ActionFits, Inside, Quiet
<1>6. MigratorFits'
  BY <1>1, <1>2, <1>5, StepFits DEF Moved
<1>7. SchemaFits'
  BY SameSchemaFits DEF UsersUnblocked, Schema, Access
<1>8. LockedOutUnlessAborted'
  BY <1>3 DEF LockedOutUnlessAborted
<1>. QED  BY <1>4, <1>6, <1>7, <1>8 DEF SafeInv

\* The migrator is gone, and so is its lock; what it leaves behind is an abort.
LEMMA PanicStep ==
    ASSUME SafeInv, NEW m \in Migrators, Panic(m)
    PROVE  SafeInv'
<1>1. /\ mig'[m].pc \in {"new", "failed"}
      /\ \A n \in Migrators : n # m => mig'[n] = mig[n]
      /\ mig' \in [Migrators -> Migrator]
  <2>1. mig \in [Migrators -> Migrator]
    BY DEF SafeInv, MigrationTypeOK
  <2>2. CASE mig[m].attempt < MaxAttempts
    <3>. DEFINE x == Started(mig[m].attempt + 1)
    <3>1. x \in Migrator /\ x.pc = "new"
      BY <2>1 DEF Migrator, Started
    <3>2. mig' = [mig EXCEPT ![m] = x]
      BY <2>2 DEF Panic
    <3>. QED  BY <2>1, <3>1, <3>2
  <2>3. CASE ~(mig[m].attempt < MaxAttempts)
    <3>. DEFINE x == [mig[m] EXCEPT !.pc = "failed"]
    <3>1. x \in Migrator /\ x.pc = "failed"
      BY <2>1 DEF Migrator
    <3>2. mig' = [mig EXCEPT ![m] = x]
      BY <2>3 DEF Panic
    <3>. QED  BY <2>1, <3>1, <3>2
  <2>. QED  BY <2>2, <2>3
<1>2. MigrationTypeOK'
  BY <1>1 DEF SafeInv, MigrationTypeOK, Panic, Schema, Access
<1>3. HoldsLock(m)' /\ LoginFits(m)' /\ OpenFits(m)' /\ ActionFits(m)'
  BY <1>1, MigrationAssumption
  DEF Panic, HoldsLock, LoginFits, OpenFits, ActionFits, Inside, Quiet
<1>4. MigratorFits'
  BY <1>1, <1>3, StepFits DEF Panic
<1>5. SchemaFits'
  BY SameSchemaFits DEF Panic, Schema, Access
<1>6. LockedOutUnlessAborted'
  BY DEF Panic, Access, LockedOutUnlessAborted
<1>. QED  BY <1>2, <1>4, <1>5, <1>6 DEF SafeInv

-----------------------------------------------------------------------------
(* Steps that change the schema: no pod has started yet *)

\* The version is forced only where the decision was to migrate: no pod has started.
LEMMA ForceVersionStep ==
    ASSUME SafeInv, NEW m \in Migrators, ForceVersion(m)
    PROVE  SafeInv'
<1>1. Moved(m, "step", mig[m].repairing, mig[m].todo)
  BY GotoMoves DEF SafeInv, ForceVersion, Inside
<1>2. lock = m /\ lock' = m
  BY DEF SafeInv, MigratorFits, HoldsLock, Inside, ForceVersion
<1>3. up = {} /\ config.expected <= Files /\ ~mig[m].repairing
  BY DEF SafeInv, MigratorFits, ActionFits, SchemaFits, ForceVersion
<1>4. MigrationTypeOK'
  BY <1>1, <1>2 DEF SafeInv, MigrationTypeOK, Config, Moved, ForceVersion, Access
<1>5. HoldsLock(m)' /\ LoginFits(m)' /\ OpenFits(m)' /\ ActionFits(m)'
  BY <1>1, <1>2, <1>3
  DEF SafeInv, ForceVersion, Access, Moved, MigratorFits, HoldsLock, LoginFits, OpenFits, ActionFits,
      Inside, Quiet
<1>6. MigratorFits'
  BY <1>1, <1>2, <1>5, StepFits DEF Moved
<1>7. SchemaFits'
  BY <1>3 DEF SchemaFits, ForceVersion, Access
<1>8. LockedOutUnlessAborted'
  BY <1>1, StillLockedOut DEF ForceVersion, Access, Blocking
<1>. QED  BY <1>4, <1>6, <1>7, <1>8 DEF SafeInv

\* A step towards the target stays within the files; a started pod means there is none.
LEMMA StepBeginStep ==
    ASSUME SafeInv, NEW m \in Migrators, StepBegin(m)
    PROVE  SafeInv'
<1>1. Moved(m, "ddl", mig[m].repairing, mig[m].todo)
  BY GotoMoves DEF SafeInv, StepBegin, Inside
<1>2. lock = m /\ lock' = m
  BY DEF SafeInv, MigratorFits, HoldsLock, Inside, StepBegin
<1>3. config.expected <= Files
  BY DEF SafeInv, MigratorFits, ActionFits, StepBegin
<1>4. up = {}
  BY ContinueMeans, MigrationAssumption DEF SafeInv, SchemaFits, StepBegin, Target
<1>5. version' \in Versions
  BY <1>3, MigrationAssumption DEF SafeInv, MigrationTypeOK, Config, Versions, StepBegin, Target
<1>6. MigrationTypeOK'
  BY <1>1, <1>2, <1>5 DEF SafeInv, MigrationTypeOK, Moved, StepBegin, Access
<1>7. HoldsLock(m)' /\ LoginFits(m)' /\ OpenFits(m)' /\ ActionFits(m)'
  BY <1>1, <1>2, <1>3
  DEF SafeInv, StepBegin, Access, Moved, MigratorFits, HoldsLock, LoginFits, OpenFits, ActionFits,
      Inside, Quiet
<1>8. MigratorFits'
  BY <1>1, <1>2, <1>7, StepFits DEF Moved
<1>9. SchemaFits'
  BY <1>3, <1>4 DEF SchemaFits, StepBegin, Access
<1>10. LockedOutUnlessAborted'
  BY <1>1, StillLockedOut DEF StepBegin, Access, Blocking
<1>. QED  BY <1>6, <1>8, <1>9, <1>10 DEF SafeInv

\* At a file the schema was dirty, so that no pod has started.
LEMMA StepEndStep ==
    ASSUME SafeInv, NEW m \in Migrators, StepEnd(m)
    PROVE  SafeInv'
<1>1. Moved(m, "step", mig[m].repairing, mig[m].todo)
  BY GotoMoves DEF SafeInv, StepEnd, Inside
<1>2. lock = m /\ lock' = m
  BY DEF SafeInv, MigratorFits, HoldsLock, Inside, StepEnd
<1>3. up = {}
  BY ContinueMeans DEF SafeInv, MigratorFits, ActionFits, SchemaFits, StepEnd
<1>4. MigrationTypeOK'
  BY <1>1, <1>2 DEF SafeInv, MigrationTypeOK, Moved, StepEnd, Access
<1>5. HoldsLock(m)' /\ LoginFits(m)' /\ OpenFits(m)' /\ ActionFits(m)'
  BY <1>1, <1>2
  DEF SafeInv, StepEnd, Access, Moved, MigratorFits, HoldsLock, LoginFits, OpenFits, ActionFits,
      Inside, Quiet
<1>6. MigratorFits'
  BY <1>1, <1>2, <1>5, StepFits DEF Moved
<1>7. SchemaFits'
  BY <1>3 DEF SchemaFits, StepEnd, Access
<1>8. LockedOutUnlessAborted'
  BY <1>1, StillLockedOut DEF StepEnd, Access, Blocking
<1>. QED  BY <1>4, <1>6, <1>7, <1>8 DEF SafeInv

-----------------------------------------------------------------------------
(* Steps of the components *)

\* A migrator that applies something has taken LOGIN from everyone: nobody connects.
LEMMA ConnectStep ==
    ASSUME SafeInv, NEW u \in Users, Connect(u)
    PROVE  SafeInv'
<1>1. MigrationTypeOK'
  BY DEF SafeInv, MigrationTypeOK, Connect, Schema
<1>2. MigrateAction' = MigrateAction
  BY SameAction DEF Connect, Schema
<1>3. ASSUME NEW m \in Migrators
      PROVE  HoldsLock(m)' /\ LoginFits(m)' /\ OpenFits(m)' /\ ActionFits(m)'
  BY <1>2
  DEF SafeInv, Connect, Schema, MigratorFits, HoldsLock, LoginFits, OpenFits, ActionFits, Quiet
<1>4. MigratorFits'
  BY <1>3 DEF MigratorFits
<1>5. SchemaFits'
  BY SameSchemaFits DEF Connect, Schema
<1>6. LockedOutUnlessAborted'
  BY DEF SafeInv, LockedOutUnlessAborted, Connect
<1>. QED  BY <1>1, <1>4, <1>5, <1>6 DEF SafeInv

\* A session less disturbs nobody.
LEMMA DisconnectStep ==
    ASSUME SafeInv, NEW u \in Users, Disconnect(u)
    PROVE  SafeInv'
<1>1. MigrationTypeOK'
  BY DEF SafeInv, MigrationTypeOK, Disconnect, Schema
<1>2. MigrateAction' = MigrateAction
  BY SameAction DEF Disconnect, Schema
<1>3. ASSUME NEW m \in Migrators
      PROVE  HoldsLock(m)' /\ LoginFits(m)' /\ OpenFits(m)' /\ ActionFits(m)'
  BY <1>2
  DEF SafeInv, Disconnect, Schema, MigratorFits, HoldsLock, LoginFits, OpenFits, ActionFits, Quiet
<1>4. MigratorFits'
  BY <1>3 DEF MigratorFits
<1>5. SchemaFits'
  BY SameSchemaFits DEF Disconnect, Schema
<1>6. LockedOutUnlessAborted'
  BY DEF SafeInv, LockedOutUnlessAborted, Disconnect
<1>. QED  BY <1>1, <1>4, <1>5, <1>6 DEF SafeInv

\* A pod starts on the decision to continue.
LEMMA CheckUpgradedStep ==
    ASSUME SafeInv, NEW u \in Users, CheckUpgraded(u)
    PROVE  SafeInv'
<1>1. MigrationTypeOK'
  BY DEF SafeInv, MigrationTypeOK, CheckUpgraded, Schema
<1>2. MigrateAction' = MigrateAction
  BY SameAction DEF CheckUpgraded, Schema
<1>3. MigratorFits'
  BY <1>2
  DEF SafeInv, CheckUpgraded, Schema, MigratorFits, HoldsLock, LoginFits, OpenFits, ActionFits
<1>4. SchemaFits'
  BY <1>2 DEF SafeInv, SchemaFits, CheckUpgraded, Schema
<1>5. LockedOutUnlessAborted'
  BY DEF SafeInv, LockedOutUnlessAborted, CheckUpgraded
<1>. QED  BY <1>1, <1>3, <1>4, <1>5 DEF SafeInv

\* Nothing happens.
LEMMA StutterStep ==
    ASSUME SafeInv, UNCHANGED migrationVars
    PROVE  SafeInv'
<1>1. MigrateAction' = MigrateAction
  BY SameAction DEF migrationVars
<1>. QED
  BY <1>1 DEF SafeInv, MigrationTypeOK, MigratorFits, HoldsLock, LoginFits, OpenFits, ActionFits, SchemaFits,
              LockedOutUnlessAborted, migrationVars

-----------------------------------------------------------------------------
(* The theorems *)

\* The invariant holds at the start: every user has LOGIN, nobody migrates.
LEMMA InitSafe == MigrationInit => SafeInv
<1>. SUFFICES ASSUME MigrationInit PROVE SafeInv
  OBVIOUS
<1>1. MigrationTypeOK
  BY DEF MigrationInit, MigrationTypeOK, Started, Migrator
<1>2. MigratorFits
  BY MigrationAssumption
  DEF MigrationInit, Started, MigratorFits, HoldsLock, LoginFits, OpenFits, ActionFits, Inside, Quiet
<1>3. SchemaFits /\ LockedOutUnlessAborted
  BY DEF MigrationInit, SchemaFits, LockedOutUnlessAborted
<1>. QED  BY <1>1, <1>2, <1>3 DEF SafeInv

\* Every step keeps it.
LEMMA NextSafe == SafeInv /\ [MigrationNext]_migrationVars => SafeInv'
<1>. SUFFICES ASSUME SafeInv, [MigrationNext]_migrationVars PROVE SafeInv'
  OBVIOUS
<1>1. CASE UNCHANGED migrationVars
  BY <1>1, StutterStep
<1>2. ASSUME NEW m \in Migrators, MigratorStep(m) PROVE SafeInv'
  <2>1. ASSUME NEW u \in Users, BlockUser(m, u) \/ TerminateSession(m, u) \/ UnblockUser(m, u)
        PROVE  SafeInv'
    BY <2>1, BlockUserStep, TerminateSessionStep, UnblockUserStep
  <2>2. CASE GetLock(m) \/ DecideBlock(m) \/ DecideContinue(m) \/ DecideMigrate(m)
    BY <2>2, GetLockStep, DecideBlockStep, DecideContinueStep, DecideMigrateStep
  <2>3. CASE UsersBlocked(m) \/ ListSessions(m) \/ SessionsTerminated(m) \/ WaitForSessionClosed(m)
    BY <2>3, UsersBlockedStep, ListSessionsStep, SessionsTerminatedStep, WaitForSessionClosedStep
  <2>4. CASE ForceVersion(m) \/ StepBegin(m) \/ StepEnd(m) \/ Migrated(m) \/ RepairPartition(m)
    BY <2>4, ForceVersionStep, StepBeginStep, StepEndStep, MigratedStep, RepairPartitionStep
  <2>5. CASE UsersUnblocked(m) \/ Finish(m)
    BY <2>5, UsersUnblockedStep, FinishStep
  <2>. QED  BY <1>2, <2>1, <2>2, <2>3, <2>4, <2>5 DEF MigratorStep
<1>3. ASSUME NEW m \in Migrators, Panic(m) PROVE SafeInv'
  BY <1>3, PanicStep
<1>4. ASSUME NEW u \in Users, Connect(u) \/ Disconnect(u) \/ CheckUpgraded(u) PROVE SafeInv'
  BY <1>4, ConnectStep, DisconnectStep, CheckUpgradedStep
<1>. QED  BY <1>1, <1>2, <1>3, <1>4 DEF MigrationNext

\* For any number of users, migrators, files, retries and panics, the invariant above holds.
LEMMA AlwaysSafe == MigrationSpec => []SafeInv
BY InitSafe, NextSafe, PTL DEF MigrationSpec

\* Types are kept; in particular the version never leaves the range of the files, whatever is
\* configured, forced or aborted.
THEOREM MigrationTypeCorrect == MigrationSpec => []MigrationTypeOK
<1>1. SafeInv => MigrationTypeOK
  BY DEF SafeInv
<1>. QED  BY <1>1, AlwaysSafe, PTL

\* DDL and the repair of system_advisories_0 run only while no component has a session or can
\* open one, for any number of migrators that overlap, unlock users, panic and start again.
THEOREM Quietness == MigrationSpec => []QuietDuringDDL
<1>1. SafeInv => QuietDuringDDL
  BY DEF SafeInv, MigratorFits, LoginFits, OpenFits, Quiet, QuietDuringDDL
<1>. QED  BY <1>1, AlwaysSafe, PTL

\* A pod that passes check-for-db finds the schema of its own files, complete, and keeps it.
THEOREM PodsStartUpgraded == MigrationSpec => []StartedOnUpgraded
<1>1. SafeInv => StartedOnUpgraded
  BY ContinueMeans DEF SafeInv, SchemaFits, StartedOnUpgraded
<1>. QED  BY <1>1, AlwaysSafe, PTL

\* Without an abort, a user is without LOGIN only while a migrator is at work on it.
THEOREM NobodyForgotten == MigrationSpec => []LockedOutUnlessAborted
<1>1. SafeInv => LockedOutUnlessAborted
  BY DEF SafeInv
<1>. QED  BY <1>1, AlwaysSafe, PTL
=============================================================================
