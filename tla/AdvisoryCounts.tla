--------------------------- MODULE AdvisoryCounts ---------------------------
(***************************************************************************)
(* The counts of advisory_account_data for one account.                    *)
(*                                                                         *)
(* Evaluators read a system and its stored advisories, compute the changes *)
(* against what VMaaS reported, and in one transaction apply them to       *)
(* system_advisories and add their DELTAS to advisory_account_data.  The   *)
(* trigger on_system_update adds and subtracts a system when its stale     *)
(* flag changes, delete_system goes through the same trigger, and the      *)
(* cache refresh job recounts everything.  valid_advisory_cache tells the  *)
(* job which accounts need it: a handler clears the flag when its          *)
(* evaluations are done, the job sets it after, and not with, the recount. *)
(*                                                                         *)
(* A transaction waits for the rows others have locked, but what it writes *)
(* may come from a snapshot taken before: the trigger reads the advisories *)
(* of the system and then waits; the recount locks the rows that exist,    *)
(* counts in a later statement, and may meet rows inserted in between.     *)
(*                                                                         *)
(* The same rows say which advisories the users were notified of.  The     *)
(* evaluator sends the instant notification, and marks the advisories, in  *)
(* the storing transaction: after the deltas are written, before they are  *)
(* committed, while their rows are locked.                                 *)
(***************************************************************************)
EXTENDS Integers, FiniteSets

CONSTANTS
    Systems,      \* system_inventory ids of the account: never reused
    Advisories,   \* advisory ids
    Evaluators,   \* consumer goroutines of the evaluator pods
    MaxEvals,     \* bound on the evaluations started
    MaxFlips,     \* bound on the changes of stale flags and the faults
    MaxFaults     \* bound on the faults among them

ASSUME CountsAssumption == IsFiniteSet(Systems)

Status == {"none", "installable", "applicable"}
Statuses == [Advisories -> Status]
Nothing == [a \in Advisories |-> "none"]

VARIABLES
    status,     \* status[s]: system_advisories of s
    alive,      \* alive[s]: s has its system_inventory row
    evaluated,  \* evaluated[s]: last_evaluation is not NULL
    stale,      \* stale[s]
    rows,       \* advisories with a row in advisory_account_data
    counts,     \* counts[a]: the counts of that row, 0 without a row
    notified,   \* advisories with the mark notified in advisory_account_data
    sent,       \* advisories that a notification told the users about
    valid,      \* valid_advisory_cache
    ev,         \* ev[e]: evaluation in progress
    pend,       \* pend[s]: the transaction that changes the stale flag of s or deletes s
    job,        \* the cache refresh of this account
    drifted,    \* history: advisories whose counts were put out of step in a known way
    missed,     \* history: a change or a lost invalidation the job may have missed
    silent,     \* history: advisories whose notification is missing in a known way
    evals, flips, faults

sysVars == <<status, alive, evaluated, stale>>
tableVars == <<rows, counts>>
hist == <<drifted, missed>>
notes == <<notified, sent, silent>>
vars == <<status, alive, evaluated, stale, rows, counts, notified, sent, valid, ev, pend, job,
          drifted, missed, silent, evals, flips, faults>>

Count == [inst : Int, app : Int]
Zero == [inst |-> 0, app |-> 0]

Evaluation == [pc : {"idle", "loaded", "compared", "stored", "done"},
               s : Systems \union {"none"}, stale : BOOLEAN, stored : Statuses,
               reported : Statuses, valid : BOOLEAN, mark : SUBSET Advisories,
               how : {"sent", "skipped", "failed"}]

Idle == [pc |-> "idle", s |-> "none", stale |-> FALSE,
         stored |-> Nothing, reported |-> Nothing, valid |-> FALSE, mark |-> {},
         how |-> "sent"]

\* A transaction on the row of system_inventory, and the advisories of the system in the
\* snapshot of its trigger.
Pending == [what : {"none", "flip", "delete"}, seen : Statuses]
NoPending == [what |-> "none", seen |-> Nothing]

\* The recount: the rows its first statement locks, what its second one counts and which
\* rows that one deletes, and the advisories others have changed since it counted.
Refresh == [pc : {"idle", "locking", "counted", "refreshed"}, held : SUBSET Advisories,
            cnt : [Advisories -> Count], doomed : SUBSET Advisories, late : SUBSET Advisories]
NoJob == [pc |-> "idle", held |-> {}, cnt |-> [a \in Advisories |-> Zero], doomed |-> {},
          late |-> {}]

TypeOK ==
    /\ status \in [Systems -> Statuses]
    /\ alive \in [Systems -> BOOLEAN]
    /\ evaluated \in [Systems -> BOOLEAN]
    /\ stale \in [Systems -> BOOLEAN]
    /\ rows \subseteq Advisories /\ counts \in [Advisories -> Count]
    /\ valid \in BOOLEAN
    /\ ev \in [Evaluators -> Evaluation]
    /\ pend \in [Systems -> Pending]
    /\ job \in Refresh
    /\ drifted \subseteq Advisories
    /\ missed \in BOOLEAN
    /\ notified \subseteq Advisories
    /\ sent \subseteq Advisories /\ silent \subseteq Advisories
    /\ evals \in Nat /\ flips \in Nat /\ faults \in Nat

\* Systems registered by the listener, not evaluated yet.
Init ==
    /\ status = [s \in Systems |-> Nothing]
    /\ alive = [s \in Systems |-> TRUE]
    /\ evaluated = [s \in Systems |-> FALSE]
    /\ stale = [s \in Systems |-> FALSE]
    /\ rows = {} /\ counts = [a \in Advisories |-> Zero]
    /\ valid = FALSE
    /\ ev = [e \in Evaluators |-> Idle]
    /\ pend = [s \in Systems |-> NoPending]
    /\ job = NoJob
    /\ drifted = {} /\ missed = FALSE
    /\ notified = {} /\ sent = {} /\ silent = {}
    /\ evals = 0 /\ flips = 0 /\ faults = 0

-----------------------------------------------------------------------------
Plus(c, d) == [inst |-> c.inst + d.inst, app |-> c.app + d.app]

\* What one system with this status adds to the counts of an advisory.
Share(st) == [inst |-> IF st = "installable" THEN 1 ELSE 0,
              app |-> IF st = "none" THEN 0 ELSE 1]
Minus(d) == [inst |-> -d.inst, app |-> -d.app]

Shown(s) == {a \in Advisories : status[s][a] = "installable"}
Counted(s) == alive[s] /\ evaluated[s] /\ ~stale[s]

\* The advisories of s for on_system_update, which ignores systems not evaluated yet.
Seen(s) == IF evaluated[s] THEN status[s] ELSE Nothing

\* refresh_advisory_caches_multi: current_counts of advisory a.
Recount(a) ==
    LET with(st) == {s \in Systems : Counted(s) /\ status[s][a] \in st}
    IN  [inst |-> Cardinality(with({"installable"})),
         app |-> Cardinality(with({"installable", "applicable"}))]

\* evaluateChanges
Change(old, new) ==
    CASE new = "none" /\ old = "none" -> "nothing"
      [] new = "none" /\ old # "none" -> "remove"
      [] new # "none" /\ old = "none" -> "add"
      [] new # "none" /\ old = new    -> "keep"
      [] OTHER                        -> "update"

\* Mutant of Delta: an advisory that is only applicable is not counted when it is added.
BugAddInstallableOnly(old, new) ==
    CASE Change(old, new) = "remove" ->
           [inst |-> -1, app |-> IF old = "applicable" THEN 0 ELSE -1]
      [] Change(old, new) \in {"add", "update"} /\ new = "installable" -> [inst |-> 1, app |-> 1]
      [] OTHER -> Zero

\* calcAdvisoryChanges for one advisory of a system that is not stale.
Delta(old, new) ==
    CASE Change(old, new) = "remove" ->
           [inst |-> -1, app |-> IF old = "applicable" THEN 0 ELSE -1]
      [] Change(old, new) \in {"add", "update"} ->
           [inst |-> IF new = "installable" THEN 1 ELSE 0, app |-> 1]
      [] OTHER -> Zero

\* The changes whose delta is not the difference of the shares: an update counts the
\* system as applicable again, and the end of an applicable advisory takes one from
\* the installable systems.
Inexact(old, new) ==
    Change(old, new) = "update" \/ (Change(old, new) = "remove" /\ old = "applicable")

-----------------------------------------------------------------------------
(* Evaluators *)

Others == UNCHANGED <<pend, job, flips, evals>>

\* loadSystemData
EvalLoad(e, s) ==
    /\ ev[e].pc = "idle" /\ alive[s]
    /\ evals < MaxEvals
    /\ evals' = evals + 1
    /\ ev' = [ev EXCEPT ![e] = [Idle EXCEPT !.pc = "loaded", !.s = s, !.stale = stale[s]]]
    /\ UNCHANGED <<sysVars, tableVars, notes, valid, hist, pend, job, flips, faults>>

\* lazySaveAndLoadAdvisories: VMaaS has answered, the stored advisories are read.
EvalCompare(e, reported) ==
    /\ ev[e].pc = "loaded"
    /\ ev' = [ev EXCEPT ![e].pc = "compared", ![e].stored = status[ev[e].s],
                        ![e].reported = reported]
    /\ UNCHANGED <<sysVars, tableVars, notes, valid, hist, faults>> /\ Others

\* Mutant of Stored: the kind of the change is stored instead of the status.
BugStoresChange(x, a) == Change(x.stored[a], x.reported[a])

\* processAdvisories, deleteOldSystemAdvisories, upsertSystemAdvisories
Stored(x, a) ==
    CASE Change(x.stored[a], x.reported[a]) = "remove"               -> "none"
      [] Change(x.stored[a], x.reported[a]) \in {"add", "update"}
                                                /\ x.valid           -> x.reported[a]
      [] OTHER                                                       -> status[x.s][a]

\* What the transaction of x adds to the counts of a.
DeltaOf(x, a) == IF x.stale THEN Zero ELSE Delta(x.stored[a], x.reported[a])

\* The evaluation of e has written the row of a, the recount has locked it.
Holds(e, a) == ev[e].pc = "stored" /\ DeltaOf(ev[e], a) # Zero
HeldByJob(a) == job.pc = "counted" /\ a \in job.held

\* The row of a is locked; by another transaction than that of e.
Locked(a) == HeldByJob(a) \/ \E e \in Evaluators : Holds(e, a)
LockedFor(a, e) == HeldByJob(a) \/ \E f \in Evaluators \ {e} : Holds(f, a)

\* An evaluation of s has written system_patch, and holds its row until it commits.
Storing(s) == \E e \in Evaluators : ev[e].pc = "stored" /\ ev[e].s = s /\ ev[e].valid

\* upsertSystemAdvisories has rows to write: their foreign key locks the row of the system
\* against delete_system.
Upserts(x) == x.valid /\ \E a \in Advisories : Change(x.stored[a], x.reported[a]) \in {"add", "update"}

\* Mutant of Unnotified: the counts are read outside the storing transaction.
BugCommittedCounts(x) ==
    {a \in Advisories \ notified : Stored(x, a) # "none" /\ counts[a].inst > 0}

\* getUnnotifiedAdvisories: of the advisories the system has now, the ones without the
\* mark that the account has an installable system for, by its own uncommitted count.
Unnotified(x) ==
    {a \in Advisories \ notified : /\ Stored(x, a) # "none"
                                   /\ counts[a].inst + DeltaOf(x, a).inst > 0}

\* publishNewAdvisoriesNotification: the notification is sent; or it fails ("failed",
\* also when instant notifications are off); or the request has skip_notifications
\* ("skipped").  Without anything to notify of it returns early.
PublishNewAdvisoriesNotification(x, how) ==
    /\ Unnotified(x) = {} => how = "sent"
    /\ sent' = IF how = "sent" THEN sent \union Unnotified(x) ELSE sent

\* On another connection than the storing transaction.
ValidSystem(s) == alive[s]

\* The storing transaction up to its commit: the deltas are written and lock their rows,
\* then the users are notified.
EvalStore(e, how) ==
    /\ ev[e].pc = "compared"
    /\ LET x == [ev[e] EXCEPT !.pc = "stored", !.valid = ValidSystem(ev[e].s), !.how = how]
       IN  /\ \A a \in Advisories : DeltaOf(x, a) # Zero => ~LockedFor(a, e)
           /\ ~Storing(x.s) /\ (Upserts(x) => pend[x.s].what # "delete")
           /\ PublishNewAdvisoriesNotification(x, how)
           /\ ev' = [ev EXCEPT ![e] = [x EXCEPT !.mark = Unnotified(x)]]
    /\ UNCHANGED <<sysVars, tableVars, notified, silent, valid, hist, faults>> /\ Others

\* markAdvisoriesNotified, of the rows that are there.
Marked(e) ==
    LET mark == IF ev[e].how = "failed" THEN {} ELSE ev[e].mark
    IN  /\ \A a \in mark : ~LockedFor(a, e)
        /\ notified' = notified \union (mark \intersect rows')

\* The recount, if it has counted, has not seen a change to the advisories of as.
Overtake(as) ==
    job' = IF job.pc = "counted" THEN [job EXCEPT !.late = @ \union as] ELSE job

\* The transaction commits: advisories, deltas (also for a system that is not valid any
\* more), the marks and last_evaluation.
EvalCommit(e) ==
    LET x == ev[e]
        apart == stale[x.s] # x.stale \/ ~alive[x.s] \/ ~x.valid
        inexact == {a \in Advisories : \/ apart \/ status[x.s][a] # x.stored[a]
                                       \/ ~x.stale /\ Inexact(x.stored[a], x.reported[a])}
        told == IF x.how = "sent" THEN x.mark ELSE {}
        changed == {a \in Advisories : Holds(e, a)}
    IN  /\ x.pc = "stored"
        /\ status' = [status EXCEPT ![x.s] = [a \in Advisories |-> Stored(x, a)]]
        /\ rows' = rows \union changed
        /\ counts' = [a \in Advisories |-> Plus(counts[a], DeltaOf(x, a))]
        /\ evaluated' = [evaluated EXCEPT ![x.s] = @ \/ alive[x.s]]
        /\ Marked(e)
        /\ drifted' = drifted \union inexact
        /\ missed' = (missed \/ (job.pc = "refreshed" /\ inexact # {}))
        /\ Overtake(inexact \union changed)
        /\ silent' = (silent \ told) \union (x.mark \ told) \union (drifted' \ notified')
        /\ ev' = [ev EXCEPT ![e] = [Idle EXCEPT !.pc = "done"]]
        /\ UNCHANGED <<alive, stale, sent, valid, pend, evals, flips, faults>>

\* Mutant of EvalInvalidate: only the package cache is invalidated.
BugNotInvalidated(e) ==
    /\ ev[e].pc = "done"
    /\ ev' = [ev EXCEPT ![e] = Idle]
    /\ UNCHANGED <<sysVars, tableVars, notes, valid, hist, faults>> /\ Others

\* evaluateHandler: invalidateCaches, after the evaluations of the message.
EvalInvalidate(e) ==
    /\ ev[e].pc = "done"
    /\ valid' = FALSE
    /\ ev' = [ev EXCEPT ![e] = Idle]
    /\ UNCHANGED <<sysVars, tableVars, notes, hist, faults>> /\ Others

\* invalidateCaches fails: the error is logged.
InvalidateFail(e) ==
    /\ ev[e].pc = "done"
    /\ faults < MaxFaults /\ flips + faults < MaxFlips
    /\ faults' = faults + 1
    /\ missed' = TRUE
    /\ ev' = [ev EXCEPT ![e] = Idle]
    /\ UNCHANGED <<sysVars, tableVars, notes, valid, drifted>> /\ Others

\* The evaluation fails or the pod dies before the commit, perhaps with the notification
\* already sent, and the transaction is rolled back; after the commit, the message comes
\* again, is skipped as old, and the handler still gets to EvalInvalidate.
EvalFail(e) ==
    /\ ev[e].pc \in {"loaded", "compared", "stored"}
    /\ faults < MaxFaults /\ flips + faults < MaxFlips
    /\ faults' = faults + 1
    /\ ev' = [ev EXCEPT ![e] = Idle]
    /\ UNCHANGED <<sysVars, tableVars, notes, valid, hist>> /\ Others

-----------------------------------------------------------------------------
(* The trigger on_system_update *)

\* The INSERT of the trigger waits for the rows of the advisories in its snapshot, and
\* adds or subtracts the shares it saw there.  An evaluation of s that commits while it
\* waits has changed other shares than those.
Trigger(s, gone) ==
    LET seen == pend[s].seen
        changed == {a \in Advisories : seen[a] # "none"}
        outdated == {a \in Advisories : seen[a] # Seen(s)[a]}
    IN  /\ \A a \in changed : ~Locked(a)
        /\ counts' = [a \in Advisories |->
             Plus(counts[a], IF gone THEN Minus(Share(seen[a])) ELSE Share(seen[a]))]
        /\ rows' = rows \union changed
        /\ drifted' = drifted \union outdated
        /\ missed' = (missed \/ outdated # {})
        /\ Overtake(outdated \union changed)

\* markSystemsStale writes a flag that differs from the stored one: the row of s is
\* locked and the trigger takes its snapshot.
StaleFlip(s) ==
    /\ alive[s] /\ pend[s].what = "none"
    /\ flips + faults < MaxFlips
    /\ flips' = flips + 1
    /\ pend' = [pend EXCEPT ![s] = [what |-> "flip", seen |-> Seen(s)]]
    /\ UNCHANGED <<sysVars, tableVars, notes, valid, ev, job, hist, evals, faults>>

\* The trigger gets its rows and the transaction commits.
FlipCommit(s) ==
    /\ pend[s].what = "flip"
    /\ Trigger(s, ~stale[s])
    /\ stale' = [stale EXCEPT ![s] = ~@]
    /\ silent' = IF stale[s] THEN silent \union (Shown(s) \ notified) ELSE silent
    /\ pend' = [pend EXCEPT ![s] = NoPending]
    /\ UNCHANGED <<status, alive, evaluated, notified, sent, valid, ev, evals, flips, faults>>

\* delete_system: SELECT FOR UPDATE, and the snapshot of the trigger of stale := TRUE.
DeleteSystem(s) ==
    /\ alive[s] /\ pend[s].what = "none"
    /\ ~\E e \in Evaluators : ev[e].pc = "stored" /\ ev[e].s = s /\ Upserts(ev[e])
    /\ pend' = [pend EXCEPT ![s] = [what |-> "delete", seen |-> Seen(s)]]
    /\ UNCHANGED <<sysVars, tableVars, notes, valid, ev, job, hist, evals, flips, faults>>

\* The trigger, which a stale system does not need, subtracts the system; then its rows
\* go, that of system_patch when no evaluation holds it.
DeleteCommit(s) ==
    /\ pend[s].what = "delete"
    /\ ~Storing(s)
    /\ IF stale[s] THEN UNCHANGED <<tableVars, hist, job>> ELSE Trigger(s, TRUE)
    /\ alive' = [alive EXCEPT ![s] = FALSE]
    /\ evaluated' = [evaluated EXCEPT ![s] = FALSE]
    /\ status' = [status EXCEPT ![s] = Nothing]
    /\ pend' = [pend EXCEPT ![s] = NoPending]
    /\ UNCHANGED <<stale, notes, valid, ev, evals, flips, faults>>

-----------------------------------------------------------------------------
(* The cache refresh job *)

\* The accounts are listed on a read replica, which may lag behind valid.  Then, in a
\* transaction of its own, refresh_advisory_caches: its first statement is to lock the
\* rows there are now.
JobLock ==
    /\ job.pc = "idle"
    /\ job' = [NoJob EXCEPT !.pc = "locking", !.held = rows]
    /\ UNCHANGED <<sysVars, tableVars, notes, valid, ev, pend, hist, evals, flips, faults>>

\* It has them, and the second statement takes its snapshot: it counts, and the rows of
\* advisories that no system has are to be deleted.
JobCount ==
    /\ job.pc = "locking"
    /\ \A a \in job.held : ~Locked(a)
    /\ job' = [pc |-> "counted", held |-> job.held, cnt |-> [a \in Advisories |-> Recount(a)],
               doomed |-> {a \in rows : Recount(a) = Zero}, late |-> {}]
    /\ UNCHANGED <<sysVars, tableVars, notes, valid, ev, pend, hist, evals, flips, faults>>

\* It writes what it counted and deletes rows with their marks, waiting for the rows that
\* were inserted after the first statement, and commits.  A change to such a row that came
\* after the count is written over.
JobWrite ==
    LET counted == {a \in Advisories : job.cnt[a] # Zero}
        written == counted \union job.doomed
    IN  /\ job.pc = "counted"
        /\ \A a \in written \ job.held : ~Locked(a)
        /\ counts' = [a \in Advisories |-> IF a \in written THEN job.cnt[a] ELSE counts[a]]
        /\ rows' = (rows \ job.doomed) \union counted
        /\ notified' = notified \ job.doomed
        /\ silent' = silent \union (notified \intersect job.doomed \intersect job.late)
        /\ drifted' = job.late \intersect (written \union drifted)
        /\ missed' = (drifted' # {})
        /\ job' = [NoJob EXCEPT !.pc = "refreshed"]
        /\ UNCHANGED <<sysVars, sent, valid, ev, pend, evals, flips, faults>>

\* The recount fails, but the goroutines of the job share one err: the goroutine of
\* another account overwrites it with its success before it is looked at.
JobErrOverwritten ==
    /\ job.pc = "idle"
    /\ faults < MaxFaults /\ flips + faults < MaxFlips
    /\ faults' = faults + 1
    /\ missed' = TRUE
    /\ job' = [NoJob EXCEPT !.pc = "refreshed"]
    /\ UNCHANGED <<sysVars, tableVars, notes, valid, ev, pend, drifted, evals, flips>>

\* updateAdvisoryCacheValidity in the next one.
JobSetValid ==
    /\ job.pc = "refreshed"
    /\ valid' = TRUE
    /\ job' = NoJob
    /\ UNCHANGED <<sysVars, tableVars, notes, ev, pend, hist, evals, flips, faults>>

\* A transaction of the job fails, or the goroutine reads the error of another account:
\* the account stays as it is until the next run.
JobFail ==
    /\ job.pc # "idle"
    /\ faults < MaxFaults /\ flips + faults < MaxFlips
    /\ faults' = faults + 1
    /\ job' = NoJob
    /\ UNCHANGED <<sysVars, tableVars, notes, valid, ev, pend, hist, evals, flips>>

\* CleanAdvisoryAccountData: rows without systems go, with counts that drifted below 0
\* and with their marks.  A row inserted again later is not one the recount knows.
CleanAdvisoryAccountData ==
    LET empty == {a \in rows : counts[a].inst <= 0 /\ counts[a].app <= 0}
    IN  /\ empty # {}
        /\ \A a \in empty : ~Locked(a)
        /\ rows' = rows \ empty
        /\ counts' = [a \in Advisories |-> IF a \in empty THEN Zero ELSE counts[a]]
        /\ notified' = notified \ empty
        /\ silent' = silent \union (notified \intersect empty \intersect drifted)
        /\ job' = [job EXCEPT !.held = @ \ empty, !.doomed = @ \ empty]
        /\ UNCHANGED <<sysVars, sent, valid, ev, pend, hist, evals, flips, faults>>

-----------------------------------------------------------------------------
Next ==
    \/ \E e \in Evaluators, s \in Systems : EvalLoad(e, s)
    \/ \E e \in Evaluators, reported \in Statuses : EvalCompare(e, reported)
    \/ \E e \in Evaluators : \/ \E how \in {"sent", "skipped", "failed"} : EvalStore(e, how)
                             \/ EvalCommit(e) \/ EvalInvalidate(e)
                             \/ InvalidateFail(e) \/ EvalFail(e)
    \/ \E s \in Systems : \/ StaleFlip(s) \/ FlipCommit(s)
                           \/ DeleteSystem(s) \/ DeleteCommit(s)
    \/ JobLock \/ JobCount \/ JobWrite \/ JobErrOverwritten \/ JobSetValid \/ JobFail
    \/ CleanAdvisoryAccountData

Spec == Init /\ [][Next]_vars

-----------------------------------------------------------------------------
(* Properties *)

\* The counts of advisory_account_data are those of a recount (what the tests check as
\* "Cache mismatch created"), unless since the last recount one of four things happened:
\* an evaluation stored an inexact change; it overlapped another change of its system; it
\* committed while a change of the stale flag or the deletion of its system waited with
\* older advisories in hand; or the recount itself wrote over a change to a row it had not
\* locked.
CountsExactUnlessDrifted ==
    \A a \in Advisories : a \notin drifted => counts[a] = Recount(a)

\* An account whose cache is marked valid has exact counts, unless a handler is between
\* its commit and its invalidation; or an evaluation came between the recount and the mark;
\* or the recount wrote over changes it had not seen, or nobody invalidated the cache when
\* a change of a stale flag or a deletion applied shares of an older snapshot; or an
\* invalidation failed, or the goroutine of another account overwrote the error of the
\* recount.
ValidIsExactUnlessMissed ==
    valid /\ ~missed /\ (\A e \in Evaluators : ev[e].pc # "done")
        => \A a \in Advisories : counts[a] = Recount(a)

\* An advisory that a counted system shows as installable was sent to the users and is
\* marked, so that they get it once, although the notification leaves before the
\* transaction commits and the mark lives in a row that two jobs delete.  The exceptions
\* are the known ones: the notification failed or was skipped, the counts had drifted
\* when they were read or cleaned, or the system came back from stale without one.
InstallableWasAnnouncedUnlessSilent ==
    \A s \in Systems : Counted(s) =>
        \A a \in Shown(s) \ silent : a \in notified /\ a \in sent
=============================================================================
