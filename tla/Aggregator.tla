----------------------------- MODULE Aggregator -----------------------------
(***************************************************************************)
(* The aggregator and the counts of account_advisory, for one account.     *)
(*                                                                         *)
(* An evaluator writes system_advisories in a transaction and announces    *)
(* the changed advisories on patchman.advisory.update BEFORE it commits.   *)
(* The aggregator's reader puts the events into a buffer, which is flushed *)
(* by the reader when it is full and by a timer otherwise, so that several *)
(* goroutines may work on a batch each.  A batch is a recount              *)
(* (refresh_account_advisory_caches_multi) followed by a notification      *)
(* about the advisories that are installable and not notified yet.         *)
(*                                                                         *)
(* The recount locks the rows of account_advisory that exist, reads        *)
(* system_advisories in the snapshot it has then, and writes; a row that   *)
(* did not exist is not locked.  Nothing announces a change of the stale   *)
(* flag, of the workspace, or a deletion.                                  *)
(*                                                                         *)
(* A row of account_advisory with systems_applicable = 0 stands for no row.*)
(***************************************************************************)
EXTENDS Integers, FiniteSets, Sequences, SequencesExt

CONSTANTS
    Systems,      \* systems of the account
    Advisories,   \* advisory ids
    Workspaces,   \* workspace ids
    Timers,       \* goroutines of flushTimer: one for each time it fires
    BatchSize,    \* advisory_batch_size
    MaxChanges,   \* bound on the evaluations and on the changes nobody announces
    MaxFaults     \* bound on faults

ASSUME AggregatorAssumption ==
    /\ BatchSize \in Nat \ {0} /\ MaxChanges \in Nat /\ MaxFaults \in Nat
    /\ Workspaces # {} /\ IsFiniteSet(Systems)

Status == {"none", "installable", "applicable"}
Statuses == [Advisories -> Status]
Nothing == [a \in Advisories |-> "none"]
Rows == Workspaces \X Advisories

\* The goroutines that recount: the reader, the timer's, and the backfill job.
Workers == Timers \union {"reader", "backfill"}

VARIABLES
    status,    \* status[s]: system_advisories of s
    place,     \* place[s]: workspace_id of s
    stale,     \* stale[s]
    ev,        \* ev[s]: the evaluation of s whose transaction is open
    topic,     \* patchman.advisory.update behind the committed offset
    buffer,    \* advisoryBuffer
    armed,     \* flushTimer will fire
    reading,   \* the reader: "fetch", "flush" or "commit"
    worker,    \* worker[k]: the batch k works on
    row,       \* account_advisory
    sent,      \* advisories a notification was sent about
    missed,    \* history: advisories whose recount was lost, overtaken or never announced
    unsent,    \* history: advisories whose notification failed or was lost, or that the
               \* backfill job, which sends none, counted
    changes, faults

inputs == <<status, place, stale, ev>>
queue == <<topic, buffer, armed, reading>>
hist == <<missed, unsent>>
bounds == <<changes, faults>>
vars == <<status, place, stale, ev, topic, buffer, armed, reading, worker, row, sent, missed,
          unsent, changes, faults>>

Count == [inst : Nat, app : Nat]
Zero == [inst |-> 0, app |-> 0]

Batch == [pc : {"idle", "refresh", "write", "notify", "send", "mark"},
          ids : SUBSET Advisories, snap : [Rows -> Count], seen : SUBSET Rows,
          over : SUBSET Advisories, todo : SUBSET Advisories]

Idle == [pc |-> "idle", ids |-> {}, snap |-> [r \in Rows |-> Zero], seen |-> {},
         over |-> {}, todo |-> {}]

TypeOK ==
    /\ status \in [Systems -> Statuses] /\ place \in [Systems -> Workspaces]
    /\ stale \in [Systems -> BOOLEAN]
    /\ ev \in [Systems -> [open : BOOLEAN, new : Statuses]]
    /\ topic \in Seq(SUBSET Advisories)
    /\ buffer \in Seq(SUBSET Advisories) /\ Len(buffer) <= BatchSize
    /\ armed \in BOOLEAN /\ reading \in {"fetch", "flush", "commit"}
    /\ worker \in [Workers -> Batch]
    /\ row \in [Rows -> [inst : Nat, app : Nat, notified : BOOLEAN]]
    /\ \A r \in Rows : row[r].inst <= row[r].app
    /\ sent \subseteq Advisories /\ missed \subseteq Advisories /\ unsent \subseteq Advisories
    /\ changes \in 0 .. MaxChanges /\ faults \in 0 .. MaxFaults

Init ==
    /\ status = [s \in Systems |-> Nothing]
    /\ place = [s \in Systems |-> CHOOSE w \in Workspaces : TRUE]
    /\ stale = [s \in Systems |-> FALSE]
    /\ ev = [s \in Systems |-> [open |-> FALSE, new |-> Nothing]]
    /\ topic = <<>> /\ buffer = <<>> /\ armed = FALSE /\ reading = "fetch"
    /\ worker = [k \in Workers |-> Idle]
    /\ row = [r \in Rows |-> [inst |-> 0, app |-> 0, notified |-> FALSE]]
    /\ sent = {} /\ missed = {} /\ unsent = {}
    /\ changes = 0 /\ faults = 0

-----------------------------------------------------------------------------
\* Advisories of the events in a sequence: groupAdvisoryUpdates for the one account.
Grouped(events) == UNION ToSet(events)

\* Advisories a recount is still to come for, and the ones it is being written for.
Recounting == UNION {worker[k].ids : k \in {j \in Workers : worker[j].pc = "refresh"}}
Writing == UNION {worker[k].ids : k \in {j \in Workers : worker[j].pc = "write"}}
Unread == IF reading = "fetch" THEN topic ELSE Tail(topic)
Announced == Grouped(Unread) \union Grouped(buffer) \union Recounting

Change == changes < MaxChanges /\ changes' = changes + 1
Fault == faults < MaxFaults /\ faults' = faults + 1

\* current_counts: the systems of a workspace that are counted, and the counts of a row.
Counted(s, r) == place[s] = r[1] /\ ~stale[s]

Recount(r) ==
    [inst |-> Cardinality({s \in Systems : Counted(s, r) /\ status[s][r[2]] = "installable"}),
     app  |-> Cardinality({s \in Systems : Counted(s, r) /\ status[s][r[2]] # "none"})]

Present == {r \in Rows : row[r].app > 0}

-----------------------------------------------------------------------------
(* The evaluator *)

Changed(s, new) == {a \in Advisories : new[a] # status[s][a]}

\* evaluateAndStore up to publishAdvisoryUpdates, which sends no event without a change.
\* From here to the commit the transaction holds the locks of the rows it wrote.
EvalPublish(s) ==
    /\ Change
    /\ ~ev[s].open
    /\ \E new \in Statuses :
         /\ new # status[s]
         /\ ev' = [ev EXCEPT ![s] = [open |-> TRUE, new |-> new]]
         /\ topic' = Append(topic, Changed(s, new))
    /\ UNCHANGED <<status, place, stale, buffer, armed, reading, worker, row, sent, hist,
                   faults>>

\* The event cannot be sent: the error is logged, and the transaction goes on.
EvalPublishFails(s) ==
    /\ Change
    /\ Fault
    /\ ~ev[s].open
    /\ \E new \in Statuses :
         /\ new # status[s]
         /\ ev' = [ev EXCEPT ![s] = [open |-> TRUE, new |-> new]]
    /\ UNCHANGED <<status, place, stale, queue, worker, row, sent, hist>>

\* The commit; its event may have been used up by then.
EvalCommit(s) ==
    /\ ev[s].open
    /\ status' = [status EXCEPT ![s] = ev[s].new]
    /\ ev' = [ev EXCEPT ![s] = [open |-> FALSE, new |-> Nothing]]
    /\ missed' = missed \union (Changed(s, ev[s].new) \ Announced)
    /\ UNCHANGED <<place, stale, queue, worker, row, sent, unsent, bounds>>

\* The commit fails, or the evaluator dies before it.
EvalRollback(s) ==
    /\ ev[s].open
    /\ Fault
    /\ ev' = [ev EXCEPT ![s] = [open |-> FALSE, new |-> Nothing]]
    /\ UNCHANGED <<status, place, stale, queue, worker, row, sent, hist, changes>>

-----------------------------------------------------------------------------
(* Changes of the inputs of the recount that nobody announces *)

Quiet(s) ==
    /\ Change
    /\ missed' = missed \union ({a \in Advisories : status[s][a] # "none"} \ Announced)
    /\ UNCHANGED <<queue, worker, row, sent, unsent, faults>>

\* An upload or the culling job changes the stale flag.
StaleFlip(s) ==
    /\ Quiet(s)
    /\ stale' = [stale EXCEPT ![s] = ~@]
    /\ UNCHANGED <<status, place, ev>>

\* An upload moves the system to another workspace.
MoveWorkspace(s) ==
    /\ Quiet(s)
    /\ \E w \in Workspaces \ {place[s]} : place' = [place EXCEPT ![s] = w]
    /\ UNCHANGED <<status, stale, ev>>

\* delete_system, which waits for the row locks of an open evaluation.
DeleteSystem(s) ==
    /\ ~ev[s].open /\ status[s] # Nothing
    /\ Quiet(s)
    /\ status' = [status EXCEPT ![s] = Nothing]
    /\ UNCHANGED <<place, stale, ev>>

-----------------------------------------------------------------------------
(* The reader and the buffer *)

Start(k, ids) == worker' = [worker EXCEPT ![k] = [Idle EXCEPT !.pc = "refresh", !.ids = ids]]

\* Mutant of Handler: the timer is not set again.
BugNoReset ==
    /\ reading = "fetch" /\ topic # <<>>
    /\ buffer' = Append(buffer, Head(topic))
    /\ reading' = IF Len(buffer') >= BatchSize THEN "flush" ELSE "commit"
    /\ UNCHANGED <<inputs, topic, armed, worker, row, sent, hist, bounds>>

\* advisoryUpdateHandler, up to the unlock.
Handler ==
    /\ reading = "fetch" /\ topic # <<>>
    /\ buffer' = Append(buffer, Head(topic))
    /\ armed' = TRUE
    /\ reading' = IF Len(buffer') >= BatchSize THEN "flush" ELSE "commit"
    /\ UNCHANGED <<inputs, topic, worker, row, sent, hist, bounds>>

\* flushAdvisoryBuffer of the reader; the timer may have emptied the buffer.
ReaderFlush ==
    /\ reading = "flush" /\ worker["reader"].pc = "idle"
    /\ IF buffer = <<>>
       THEN reading' = "commit" /\ UNCHANGED <<buffer, worker>>
       ELSE buffer' = <<>> /\ Start("reader", Grouped(buffer)) /\ reading' = "commit"
    /\ UNCHANGED <<inputs, topic, armed, row, sent, hist, bounds>>

\* The handler has returned: the offset of the event is committed.
ReaderCommit ==
    /\ reading = "commit" /\ worker["reader"].pc = "idle"
    /\ topic' = Tail(topic)
    /\ reading' = "fetch"
    /\ UNCHANGED <<inputs, buffer, armed, worker, row, sent, hist, bounds>>

\* flushTimer fires, and its goroutine flushes.
TimerFlush(k) ==
    /\ armed /\ worker[k].pc = "idle"
    /\ armed' = FALSE
    /\ IF buffer = <<>>
       THEN UNCHANGED <<buffer, worker>>
       ELSE buffer' = <<>> /\ Start(k, Grouped(buffer))
    /\ UNCHANGED <<inputs, topic, reading, row, sent, hist, bounds>>

\* The backfill job takes the account.
Backfill ==
    /\ worker["backfill"].pc = "idle"
    /\ Start("backfill", Advisories)
    /\ UNCHANGED <<inputs, queue, row, sent, hist, bounds>>

-----------------------------------------------------------------------------
(* A batch: recount and notification *)

Of(ids) == {r \in Rows : r[2] \in ids}

\* FOR UPDATE of the rows that exist, then the snapshot of the statement.
RefreshRead(k) ==
    /\ worker[k].pc = "refresh"
    /\ \A j \in Workers \ {k} :
         worker[j].pc = "write" => worker[j].seen \intersect Present \intersect Of(worker[k].ids) = {}
    /\ worker' = [worker EXCEPT ![k].pc = "write", ![k].seen = Present \intersect Of(worker[k].ids),
                                ![k].snap = [r \in Rows |-> IF r[2] \in worker[k].ids
                                                           THEN Recount(r) ELSE Zero]]
    /\ missed' = missed \ worker[k].ids
    /\ UNCHANGED <<inputs, queue, row, sent, unsent, bounds>>

\* Mutant of Refreshed: rows that are not counted any more are left.
BugNoDelete(k, r) ==
    IF worker[k].snap[r].app > 0
    THEN [inst |-> worker[k].snap[r].inst, app |-> worker[k].snap[r].app,
          notified |-> row[r].notified]
    ELSE row[r]

\* Mutant of Refreshed: the conflict clause updates systems_installable only.
BugKeepsApplicable(k, r) ==
    IF worker[k].snap[r].app > 0
    THEN [inst |-> worker[k].snap[r].inst, notified |-> row[r].notified,
          app |-> IF row[r].app > 0 THEN row[r].app ELSE worker[k].snap[r].app]
    ELSE IF r \in worker[k].seen
         THEN [inst |-> 0, app |-> 0, notified |-> FALSE]
         ELSE row[r]

\* What the statement makes of a row: the new counts, with notified kept; a row that was
\* there and is not counted any more is deleted.
Refreshed(k, r) ==
    IF worker[k].snap[r].app > 0
    THEN [inst |-> worker[k].snap[r].inst, app |-> worker[k].snap[r].app,
          notified |-> row[r].notified]
    ELSE IF r \in worker[k].seen
         THEN [inst |-> 0, app |-> 0, notified |-> FALSE]
         ELSE row[r]

RefreshWrite(k) ==
    /\ worker[k].pc = "write"
    /\ row' = [r \in Rows |-> IF r[2] \in worker[k].ids THEN Refreshed(k, r) ELSE row[r]]
    /\ worker' = [j \in Workers |->
         IF j = k THEN IF k = "backfill" THEN Idle
                       ELSE [Idle EXCEPT !.pc = "notify", !.ids = worker[k].ids]
         ELSE IF worker[j].pc = "write"
              THEN [worker[j] EXCEPT !.over = @ \union (worker[j].ids \intersect worker[k].ids)]
              ELSE worker[j]]
    /\ missed' = missed \union (worker[k].over \ Announced)
    /\ unsent' = IF k = "backfill" THEN Advisories ELSE unsent
    /\ UNCHANGED <<inputs, queue, sent, bounds>>

\* The recount fails: the batch is dropped, with its notification.
RefreshFails(k) ==
    /\ worker[k].pc \in {"refresh", "write"}
    /\ Fault
    /\ worker' = [worker EXCEPT ![k] = Idle]
    /\ missed' = missed \union worker[k].ids
    /\ unsent' = unsent \union worker[k].ids
    /\ UNCHANGED <<inputs, queue, row, sent, changes>>

\* Mutant of Unnotified: an advisory counts as notified when one of its rows is.
BugOnceNotified(ids) ==
    {a \in ids : /\ \E r \in Rows : r[2] = a /\ row[r].inst > 0
                 /\ \A r \in Rows : r[2] = a => ~row[r].notified}

\* getUnnotifiedAdvisories
Unnotified(ids) ==
    {a \in ids : \E r \in Rows : r[2] = a /\ ~row[r].notified /\ row[r].inst > 0}

NotifyRead(k) ==
    /\ worker[k].pc = "notify"
    /\ LET todo == Unnotified(worker[k].ids)
       IN worker' = [worker EXCEPT ![k] = IF todo = {} THEN Idle
                                          ELSE [@ EXCEPT !.pc = "send", !.todo = todo]]
    /\ unsent' = unsent \ worker[k].ids
    /\ UNCHANGED <<inputs, queue, row, sent, missed, bounds>>

NotifySend(k) ==
    /\ worker[k].pc = "send"
    /\ sent' = sent \union worker[k].todo
    /\ worker' = [worker EXCEPT ![k].pc = "mark"]
    /\ UNCHANGED <<inputs, queue, row, hist, bounds>>

\* markAdvisoriesNotified and the commit: all rows of the advisory that exist now.
NotifyMark(k) ==
    /\ worker[k].pc = "mark"
    /\ row' = [r \in Rows |-> [row[r] EXCEPT
                 !.notified = @ \/ (r \in Present /\ r[2] \in worker[k].todo)]]
    /\ worker' = [worker EXCEPT ![k] = Idle]
    /\ UNCHANGED <<inputs, queue, sent, hist, bounds>>

\* Mutant of NotifyFails: a failed send is logged, and the advisories are marked.
BugMarksUnsent(k) ==
    /\ worker[k].pc \in {"notify", "send", "mark"}
    /\ Fault
    /\ worker' = [worker EXCEPT ![k].pc = "mark"]
    /\ unsent' = unsent \union worker[k].ids
    /\ UNCHANGED <<inputs, queue, row, sent, missed, changes>>

\* A query, the send, the update or the commit fails: the error is logged.
NotifyFails(k) ==
    /\ worker[k].pc \in {"notify", "send", "mark"}
    /\ Fault
    /\ worker' = [worker EXCEPT ![k] = Idle]
    /\ unsent' = unsent \union worker[k].ids
    /\ UNCHANGED <<inputs, queue, row, sent, missed, changes>>

\* The pod dies: the buffer and the batches are gone, the offset is where it was.
Crash ==
    /\ Fault
    /\ LET lost == Grouped(buffer) \union UNION {worker[k].ids : k \in Workers \ {"backfill"}}
       IN missed' = missed \union lost /\ unsent' = unsent \union lost
    /\ buffer' = <<>> /\ armed' = FALSE /\ reading' = "fetch"
    /\ worker' = [k \in Workers |-> IF k = "backfill" THEN worker[k] ELSE Idle]
    /\ UNCHANGED <<inputs, topic, row, sent, changes>>

-----------------------------------------------------------------------------
BatchStep(k) ==
    RefreshRead(k) \/ RefreshWrite(k) \/ NotifyRead(k) \/ NotifySend(k) \/ NotifyMark(k)

ReaderStep == Handler \/ ReaderFlush \/ ReaderCommit

Next ==
    \/ \E s \in Systems : \/ EvalPublish(s) \/ EvalPublishFails(s) \/ EvalCommit(s)
                          \/ EvalRollback(s) \/ StaleFlip(s) \/ MoveWorkspace(s) \/ DeleteSystem(s)
    \/ ReaderStep
    \/ \E k \in Timers : TimerFlush(k)
    \/ Backfill
    \/ \E k \in Workers : BatchStep(k) \/ RefreshFails(k) \/ NotifyFails(k)
    \/ Crash

Spec == Init /\ [][Next]_vars

\* The reader polls, the timer fires and the goroutines that work on a batch run; row
\* locks are granted in the order they were asked for, so a recount that waits for one
\* gets it, although the backfill job may take it again and again.
FairSpec ==
    /\ Spec
    /\ WF_vars(ReaderStep)
    /\ WF_vars(\E k \in Timers : TimerFlush(k))
    /\ \A k \in Workers : SF_vars(BatchStep(k))

-----------------------------------------------------------------------------
(* Properties *)

\* The counts of a row of account_advisory.
RowCount(r) == [inst |-> row[r].inst, app |-> row[r].app]

\* The counts of account_advisory are those of a recount, or a recount of the advisory is
\* on its way, unless a step that is known to lose one was involved since the last one: a
\* change nobody announced or committed after its event was used up, a failed or crashed
\* batch, or two batches that recounted the advisory at the same time.
CountsCurrentUnlessMissed ==
    \A r \in Rows : RowCount(r) # Recount(r) => r[2] \in Announced \union Writing \union missed

\* account_advisory says "notified" only of an advisory about which a notification was
\* sent, whatever batches of other goroutines deleted and inserted the row in between.
NotifiedWasSent == \A r \in Rows : row[r].notified => r[2] \in sent

\* Events do not stay in the topic or in the buffer: a buffer that is not full is flushed
\* by the timer, also when the reader and the timer meet.
EventsRecounted ==
    \A a \in Advisories :
        (a \in Grouped(topic) \union Grouped(buffer)) ~> (a \notin Grouped(topic) \union Grouped(buffer))

\* No notification is forgotten: as long as a row is installable and not notified, a batch
\* with its advisory is at work, unless the last such batch failed or died, or the row was
\* written by the backfill job, which sends nothing.
NotificationNotForgotten ==
    \A r \in Rows : (row[r].inst > 0 /\ ~row[r].notified) =>
        \/ r[2] \in unsent
        \/ \E k \in Workers \ {"backfill"} : r[2] \in worker[k].ids
=============================================================================
