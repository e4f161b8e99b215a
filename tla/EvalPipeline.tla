---------------------------- MODULE EvalPipeline ----------------------------
(***************************************************************************)
(* From an uploaded archive to stored advisories.                          *)
(*                                                                         *)
(* Listener readers handle "created"/"updated" inventory events: one       *)
(* transaction upserts system_inventory and system_patch, and, unless the  *)
(* host has been evaluated since its data last changed, the system is put  *)
(* in an in-memory buffer that is flushed to the evaluation topic.         *)
(* Evaluators (upload, recalc and user-evaluation pods) take messages      *)
(* from the topic, load the system, ask VMaaS, and store advisories and    *)
(* last_evaluation in a second transaction.  Nothing locks a system for    *)
(* the time of an evaluation, so uploads and other evaluations of the      *)
(* same system may fall between any two of those steps.                    *)
(*                                                                         *)
(* row[s] is the committed system_inventory row of the host joined with    *)
(* its system_patch row and its system_advisories rows; id = 0: no row.    *)
(* Time is a clock whose ticks are finer than the one second to which      *)
(* event timestamps are rounded when they are serialized.                  *)
(***************************************************************************)
EXTENDS Naturals, FiniteSets

CONSTANTS
    Systems,       \* hosts of one account (inventory UUIDs)
    Readers,       \* consumer goroutines of the listener pods
    Evaluators,    \* consumer goroutines of the evaluator pods
    Jsons,         \* vmaas_json payloads, told apart by json_checksum
    Yums,          \* yum_updates payloads, told apart by yum_checksum
    Advisories,    \* advisories that an evaluation can report
    Report(_, _),  \* advisories reported for a (vmaas_json, yum_updates) pair
    Second,        \* clock ticks per second
    MaxRetries,    \* retries of a handler that failed fatally
    MaxTime,       \* bound on the clock
    MaxUploads,    \* bound on the uploads received
    MaxMsgs,       \* no recalculation is requested once this many messages were published
    MaxFaults      \* bound on crashes, failed sends and failed evaluations

ASSUME PipelineAssumption ==
    /\ Systems # {} /\ Jsons # {} /\ Yums # {}
    /\ Second \in Nat \ {0}
    /\ MaxRetries \in Nat
    /\ MaxTime \in Nat \ {0} /\ MaxUploads \in Nat /\ MaxMsgs \in Nat /\ MaxFaults \in Nat
    /\ \A j \in Jsons, y \in Yums : Report(j, y) \subseteq Advisories

VARIABLES
    clock,     \* now
    row,       \* row[s]: the committed database rows of s
    nextId,    \* next system_inventory.id
    up,        \* up[l]: upload in progress at listener reader l
    buffer,    \* systems waiting in the listener's event buffers
    topic,     \* published evaluation messages whose offset is not committed
    ev,        \* ev[e]: message in progress at evaluator e
    raced,     \* raced[s]: history, see EvalCommit and UploadCommit
    uploads,   \* uploads received so far
    sent,      \* messages published so far
    faults     \* faults so far

dbVars == <<row, nextId, raced>>
vars == <<clock, row, nextId, up, buffer, topic, ev, raced, uploads, sent, faults>>

-----------------------------------------------------------------------------
Times == 0 .. MaxTime

\* lastEval = 0 stands for NULL: the system has not been evaluated yet.
Row == [id : Nat, json : Jsons, yum : Yums, since : Times, lastEval : Times,
        adv : SUBSET Advisories]

NoRow == [id |-> 0, json |-> CHOOSE j \in Jsons : TRUE, yum |-> CHOOSE y \in Yums : TRUE,
          since |-> 0, lastEval |-> 0, adv |-> {}]

Message == [id : Nat, ts : Times, systems : SUBSET Systems]

Upload == [pc : {"idle", "began", "written", "committed"}, s : Systems, json : Jsons,
           yum : Yums, begin : Times, since : Times, seen : Times]

Evaluation == [pc : {"idle", "next", "loaded", "compared", "stored", "stateless"},
               msg : Message, todo : SUBSET Systems, s : Systems, snap : Row,
               stored : SUBSET Advisories, stamp : Times,
               err : {"nil", "plain", "fatal"}, attempt : Nat]

IdleUpload == [pc |-> "idle", s |-> CHOOSE s \in Systems : TRUE, json |-> NoRow.json,
               yum |-> NoRow.yum, begin |-> 0, since |-> 0, seen |-> 0]

NoMessage == [id |-> 0, ts |-> 0, systems |-> {}]

IdleEvaluation == [pc |-> "idle", msg |-> NoMessage, todo |-> {},
                   s |-> CHOOSE s \in Systems : TRUE, snap |-> NoRow, stored |-> {},
                   stamp |-> 0, err |-> "nil", attempt |-> 0]

TypeOK ==
    /\ clock \in Times
    /\ row \in [Systems -> Row]
    /\ nextId \in Nat \ {0}
    /\ up \in [Readers -> Upload]
    /\ buffer \subseteq Systems
    /\ topic \subseteq Message
    /\ ev \in [Evaluators -> Evaluation]
    /\ raced \in [Systems -> BOOLEAN]
    /\ uploads \in Nat /\ sent \in Nat /\ faults \in Nat

Init ==
    /\ clock = 1
    /\ row = [s \in Systems |-> NoRow]
    /\ nextId = 1
    /\ up = [l \in Readers |-> IdleUpload]
    /\ buffer = {}
    /\ topic = {}
    /\ ev = [e \in Evaluators |-> IdleEvaluation]
    /\ raced = [s \in Systems |-> FALSE]
    /\ uploads = 0 /\ sent = 0 /\ faults = 0

-----------------------------------------------------------------------------
(* Conversions and decisions *)

\* Mutant of Rfc3339: rounds up instead of down.
BugRoundUp(t) == t - (t % Second) + Second

\* Rfc3339Timestamp is serialized with a layout that has no fraction of a second.
Rfc3339(t) == t - (t % Second)

\* Mutant of Changed: only json_checksum is compared.
BugIgnoresYum(old, j, y) == old.id = 0 \/ old.json # j

\* The trigger check_unchanged: does this write move unchanged_since?
Changed(old, j, y) == old.id = 0 \/ old.json # j \/ old.yum # y

\* HandleUpload: "no eval required", decided on the values RETURNING-ed by the upserts.
NoEvalRequired(since, lastEval) == lastEval # 0 /\ since < lastEval

\* Mutant of OldMessage: a system that was never evaluated counts as evaluated.
BugNullIsRecent(msg, r) == r.lastEval = 0 \/ msg.ts < r.lastEval

\* tryGetSystem: the request is older than the stored evaluation.
OldMessage(msg, r) == r.lastEval # 0 /\ msg.ts < r.lastEval

\* Reader l holds the row lock of s (SELECT ... FOR UPDATE, or the inserted key).
Locked(s) == \E l \in Readers : up[l].pc = "written" /\ up[l].s = s

Tick ==
    /\ clock < MaxTime
    /\ clock' = clock + 1
    /\ UNCHANGED <<dbVars, up, buffer, topic, ev, uploads, sent, faults>>

-----------------------------------------------------------------------------
(* Listener: HandleUpload *)

\* The event passed validateHost; processUpload opens its transaction.
UploadBegin(l, s, j, y) ==
    /\ up[l].pc = "idle"
    /\ uploads < MaxUploads
    /\ uploads' = uploads + 1
    /\ up' = [up EXCEPT ![l] = [IdleUpload EXCEPT !.pc = "began", !.s = s, !.json = j,
                                                  !.yum = y, !.begin = clock]]
    /\ UNCHANGED <<clock, dbVars, buffer, topic, ev, sent, faults>>

\* updateSystemPlatform: lock the row, compare checksums, upsert system_inventory
\* (unchanged_since is the start of the transaction when the data changed) and
\* system_patch (RETURNING or re-reading last_evaluation).
UploadWrite(l) ==
    LET u == up[l]
        r == row[u.s]
    IN  /\ u.pc = "began"
        /\ ~Locked(u.s)
        /\ up' = [up EXCEPT ![l].pc = "written",
                            ![l].since = IF Changed(r, u.json, u.yum) THEN u.begin ELSE r.since,
                            ![l].seen = r.lastEval]
        /\ UNCHANGED <<clock, dbVars, buffer, topic, ev, uploads, sent, faults>>

\* tx.Commit.  An evaluation that committed after this transaction began carries a
\* last_evaluation newer than the new unchanged_since: raced remembers it.
UploadCommit(l) ==
    LET u == up[l]
        r == row[u.s]
        new == [r EXCEPT !.id = IF r.id = 0 THEN nextId ELSE r.id,
                         !.json = u.json, !.yum = u.yum, !.since = u.since]
    IN  /\ u.pc = "written"
        /\ row' = [row EXCEPT ![u.s] = new]
        /\ nextId' = IF r.id = 0 THEN nextId + 1 ELSE nextId
        /\ raced' = [raced EXCEPT ![u.s] = IF Changed(r, u.json, u.yum)
                                           THEN u.begin < r.lastEval ELSE @]
        /\ up' = [up EXCEPT ![l].pc = "committed"]
        /\ UNCHANGED <<clock, buffer, topic, ev, uploads, sent, faults>>

\* The data is unchanged since the last evaluation: success without an evaluation.
UploadNoEval(l) ==
    /\ up[l].pc = "committed"
    /\ NoEvalRequired(up[l].since, up[l].seen)
    /\ up' = [up EXCEPT ![l] = IdleUpload]
    /\ UNCHANGED <<clock, dbVars, buffer, topic, ev, uploads, sent, faults>>

\* bufferEvalEvents; the Kafka offset of the upload is committed after this step.
UploadBuffer(l) ==
    /\ up[l].pc = "committed"
    /\ ~NoEvalRequired(up[l].since, up[l].seen)
    /\ buffer' = buffer \union {up[l].s}
    /\ up' = [up EXCEPT ![l] = IdleUpload]
    /\ UNCHANGED <<clock, dbVars, topic, ev, uploads, sent, faults>>

\* processUpload returned an error: the transaction rolls back.
UploadFail(l) ==
    /\ up[l].pc \in {"began", "written"}
    /\ faults < MaxFaults
    /\ faults' = faults + 1
    /\ up' = [up EXCEPT ![l] = IdleUpload]
    /\ UNCHANGED <<clock, dbVars, buffer, topic, ev, uploads, sent>>

\* writeEvents: one message for the systems of the account, stamped when it is written.
Publish(S) ==
    /\ S # {}
    /\ sent' = sent + 1
    /\ topic' = topic \union {[id |-> sent + 1, ts |-> Rfc3339(clock), systems |-> S]}

\* flushEvalEvents, on a full buffer or on the timer.
Flush ==
    /\ Publish(buffer)
    /\ buffer' = {}
    /\ UNCHANGED <<clock, dbVars, up, ev, uploads, faults>>

\* The send failed: the error is logged and the buffer is emptied all the same.
FlushFail ==
    /\ buffer # {}
    /\ faults < MaxFaults
    /\ faults' = faults + 1
    /\ buffer' = {}
    /\ UNCHANGED <<clock, dbVars, up, topic, ev, uploads, sent>>

\* A listener pod dies: open transactions roll back and the buffer is gone.
ListenerCrash ==
    /\ faults < MaxFaults
    /\ faults' = faults + 1
    /\ up' = [l \in Readers |-> IdleUpload]
    /\ buffer' = {}
    /\ UNCHANGED <<clock, dbVars, topic, ev, uploads, sent>>

\* vmaas_sync, a template change or a user asks for a re-evaluation.
Recalc(S) ==
    /\ sent < MaxMsgs
    /\ Publish(S)
    /\ UNCHANGED <<clock, dbVars, up, buffer, ev, uploads, faults>>

\* The culling job runs delete_system: it takes the row lock, every row of s goes away.
DeleteSystem(s) ==
    /\ row[s].id # 0
    /\ ~Locked(s)
    /\ row' = [row EXCEPT ![s] = NoRow]
    /\ raced' = [raced EXCEPT ![s] = FALSE]
    /\ UNCHANGED <<clock, nextId, up, buffer, topic, ev, uploads, sent, faults>>

-----------------------------------------------------------------------------
(* Evaluator: evaluateHandler under MakeRetryingHandler *)

Stay == UNCHANGED <<clock, up, buffer, uploads, sent>>

\* The reader fetches a message; no other consumer of the group has it.
EvalTake(e) ==
    \E m \in topic :
        /\ ev[e].pc = "idle"
        /\ \A f \in Evaluators : ev[f].msg # m
        /\ ev' = [ev EXCEPT ![e] = [IdleEvaluation EXCEPT !.pc = "next", !.msg = m,
                                                          !.todo = m.systems]]
        /\ UNCHANGED <<dbVars, topic, faults>> /\ Stay

\* runEvaluate returned to the loop of evaluateHandler: err is OVERWRITTEN.
Return(e, s, err) ==
    ev' = [ev EXCEPT ![e].pc = "next", ![e].s = s, ![e].todo = @ \ {s}, ![e].err = err,
                     ![e].snap = NoRow, ![e].stored = {}, ![e].stamp = 0]

\* tryGetSystem: no such system, or the message is old.
EvalSkip(e, s) ==
    /\ ev[e].pc = "next" /\ s \in ev[e].todo
    /\ row[s].id = 0 \/ OldMessage(ev[e].msg, row[s])
    /\ Return(e, s, "nil")
    /\ UNCHANGED <<dbVars, topic, faults>> /\ Stay

\* loadSystemData: a plain read, no lock is kept.
EvalLoad(e, s) ==
    /\ ev[e].pc = "next" /\ s \in ev[e].todo
    /\ row[s].id # 0 /\ ~OldMessage(ev[e].msg, row[s])
    /\ ev' = [ev EXCEPT ![e].pc = "loaded", ![e].s = s, ![e].snap = row[s]]
    /\ UNCHANGED <<dbVars, topic, faults>> /\ Stay

\* getUpdatesData has nothing to evaluate (no packages, no repositories, bad request).
EvalNoUpdates(e) ==
    /\ ev[e].pc = "loaded"
    /\ Return(e, ev[e].s, "nil")
    /\ UNCHANGED <<dbVars, topic, faults>> /\ Stay

\* VMaaS answered; lazySaveAndLoadAdvisories reads the stored advisories outside
\* the transaction that will replace them.
EvalCompare(e) ==
    LET r == row[ev[e].s]
    IN  /\ ev[e].pc = "loaded"
        /\ ev' = [ev EXCEPT ![e].pc = "compared",
                            ![e].stored = IF r.id = ev[e].snap.id THEN r.adv ELSE {}]
        /\ UNCHANGED <<dbVars, topic, faults>> /\ Stay

\* The storing transaction up to last_evaluation := time.Now(); validSystem waits
\* for the row lock of an upload in progress, unless the row it looks for is gone.
EvalStore(e) ==
    /\ ev[e].pc = "compared"
    /\ row[ev[e].s].id = ev[e].snap.id => ~Locked(ev[e].s)
    /\ ev' = [ev EXCEPT ![e].pc = "stored", ![e].stamp = clock]
    /\ UNCHANGED <<dbVars, topic, faults>> /\ Stay

\* What the transaction does to the row: advisories no longer reported are deleted,
\* new ones are added, both relative to the set loaded by EvalCompare.  The row of
\* a system deleted in the meantime is not there to be updated.
Evaluated(r, x) ==
    LET reported == Report(x.snap.json, x.snap.yum)
    IN  [r EXCEPT !.adv = (@ \ (x.stored \ reported)) \union (reported \ x.stored),
                  !.lastEval = x.stamp]

\* Commit.  raced: the data changed, or other advisories were stored, since they were read.
EvalCommit(e) ==
    LET x == ev[e]
        r == row[x.s]
        same == r.id = x.snap.id
    IN  /\ x.pc = "stored"
        /\ row' = IF same THEN [row EXCEPT ![x.s] = Evaluated(r, x)] ELSE row
        /\ raced' = [raced EXCEPT ![x.s] = IF same
                        THEN r.json # x.snap.json \/ r.yum # x.snap.yum \/ r.adv # x.stored
                        ELSE @]
        /\ ev' = [ev EXCEPT ![e].pc = "stateless"]
        /\ UNCHANGED <<nextId, topic, faults>> /\ Stay

\* publishRemediationsState, after the commit.
EvalPublish(e) ==
    /\ ev[e].pc = "stateless"
    /\ Return(e, ev[e].s, "nil")
    /\ UNCHANGED <<dbVars, topic, faults>> /\ Stay

\* Loading, committing and publishing wrap their errors as fatal, the rest does not.
EvalFail(e, err) ==
    /\ faults < MaxFaults
    /\ faults' = faults + 1
    /\ \/ /\ ev[e].pc = "next" /\ err = "fatal"
          /\ \E s \in ev[e].todo : Return(e, s, err)
       \/ /\ ev[e].pc \in {"loaded", "compared"} /\ err = "plain"
          /\ Return(e, ev[e].s, err)
       \/ /\ ev[e].pc = "stored"
          /\ Return(e, ev[e].s, err)
       \/ /\ ev[e].pc = "stateless" /\ err = "fatal"
          /\ Return(e, ev[e].s, err)
    /\ UNCHANGED <<dbVars, topic>> /\ Stay

\* The handler returned nil or a non-fatal error: the offset is committed.
MessageDone(e) ==
    /\ ev[e].pc = "next" /\ ev[e].todo = {} /\ ev[e].err # "fatal"
    /\ topic' = topic \ {ev[e].msg}
    /\ ev' = [ev EXCEPT ![e] = IdleEvaluation]
    /\ UNCHANGED <<dbVars, faults>> /\ Stay

\* The handler returned a fatal error: the whole message is handled again.
MessageRetry(e) ==
    /\ ev[e].pc = "next" /\ ev[e].todo = {} /\ ev[e].err = "fatal"
    /\ ev[e].attempt < MaxRetries
    /\ ev' = [ev EXCEPT ![e] = [IdleEvaluation EXCEPT !.pc = "next", !.msg = ev[e].msg,
                                    !.todo = ev[e].msg.systems, !.attempt = ev[e].attempt + 1]]
    /\ UNCHANGED <<dbVars, topic, faults>> /\ Stay

\* Mutant of MessagePanic: gives up one attempt too late.
BugPanicLate(e) ==
    /\ ev[e].pc = "next" /\ ev[e].todo = {} /\ ev[e].err = "fatal"
    /\ ev[e].attempt > MaxRetries
    /\ ev' = [ev EXCEPT ![e] = IdleEvaluation]
    /\ UNCHANGED <<dbVars, topic, faults>> /\ Stay

\* Retries are exhausted: HandleMessages panics, the message is delivered again later.
MessagePanic(e) ==
    /\ ev[e].pc = "next" /\ ev[e].todo = {} /\ ev[e].err = "fatal"
    /\ ev[e].attempt = MaxRetries
    /\ ev' = [ev EXCEPT ![e] = IdleEvaluation]
    /\ UNCHANGED <<dbVars, topic, faults>> /\ Stay

EvaluatorCrash(e) ==
    /\ ev[e].pc # "idle"
    /\ faults < MaxFaults
    /\ faults' = faults + 1
    /\ ev' = [ev EXCEPT ![e] = IdleEvaluation]
    /\ UNCHANGED <<dbVars, topic>> /\ Stay

-----------------------------------------------------------------------------
ListenerStep(l) ==
    UploadWrite(l) \/ UploadCommit(l) \/ UploadNoEval(l) \/ UploadBuffer(l)

EvaluatorStep(e) ==
    \/ EvalTake(e)
    \/ \E s \in Systems : EvalSkip(e, s) \/ EvalLoad(e, s)
    \/ EvalNoUpdates(e) \/ EvalCompare(e) \/ EvalStore(e) \/ EvalCommit(e) \/ EvalPublish(e)
    \/ MessageDone(e) \/ MessageRetry(e) \/ MessagePanic(e)

Next ==
    \/ Tick
    \/ \E l \in Readers, s \in Systems, j \in Jsons, y \in Yums : UploadBegin(l, s, j, y)
    \/ \E l \in Readers : ListenerStep(l) \/ UploadFail(l)
    \/ Flush \/ FlushFail \/ ListenerCrash
    \/ \E S \in SUBSET Systems : Recalc(S)
    \/ \E s \in Systems : DeleteSystem(s)
    \/ \E e \in Evaluators : EvaluatorStep(e) \/ EvaluatorCrash(e)
    \/ \E e \in Evaluators, err \in {"plain", "fatal"} : EvalFail(e, err)

Spec == Init /\ [][Next]_vars

\* Consumers keep polling, transactions end, and the flush timer fires.
FairSpec ==
    /\ Spec
    /\ WF_vars(Flush)
    /\ \A l \in Readers : WF_vars(ListenerStep(l))
    /\ \A e \in Evaluators : WF_vars(EvaluatorStep(e))

-----------------------------------------------------------------------------
(* Properties *)

\* A host whose next identical upload would be answered "no eval required" shows the
\* advisories of the data stored for it, whatever was lost, skipped, retried or
\* redelivered before, unless an evaluation overlapped another commit on the system
\* (listener/upload.go HandleUpload, check_unchanged, evaluateAndStore).
FreshUnlessRaced ==
    \A s \in Systems :
        row[s].id # 0 /\ NoEvalRequired(row[s].since, row[s].lastEval) /\ ~raced[s]
            => row[s].adv = Report(row[s].json, row[s].yum)

\* Every published request is consumed: retries, panics and crashes redeliver it
\* until a handler returns without a fatal error.
RequestsConsumed ==
    \A i \in 1 .. MaxMsgs + MaxUploads :
        (\E m \in topic : m.id = i) ~> ~(\E m \in topic : m.id = i)

\* Unless something fails, an upload that needs an evaluation gets one: the system is
\* loaded by an evaluator after the upload committed, or it carries an evaluation newer
\* than the second in which the upload began, or it is deleted.  Merging in the buffer,
\* skipping old messages and overlapping evaluations never lose the request.
UploadEvaluated ==
    \A s \in Systems, t \in Times :
        (\E l \in Readers : /\ up[l].pc = "committed" /\ up[l].s = s /\ up[l].begin = t
                            /\ ~NoEvalRequired(up[l].since, up[l].seen))
            ~> \/ faults # 0 \/ row[s].id = 0 \/ row[s].lastEval > Rfc3339(t)
               \/ \E e \in Evaluators : ev[e].pc = "loaded" /\ ev[e].s = s

=============================================================================
