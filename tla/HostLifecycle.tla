---------------------------- MODULE HostLifecycle ----------------------------
(***************************************************************************)
(* Registration, deletion, staleness and culling of hosts.                 *)
(*                                                                         *)
(* Listener readers handle two kinds of inventory events.  An upload       *)
(* checks deleted_system, then upserts the host's row with the timestamps  *)
(* inventory sent.  A delete event first records the host in               *)
(* deleted_system and then, in a second statement, sets the host's         *)
(* culled_timestamp to now.  The system_culling job removes hosts whose    *)
(* culled_timestamp has passed, sets or clears the stale flag of hosts     *)
(* whose stale_warning_timestamp has or has not passed, and prunes         *)
(* deleted_system.  It reads its candidates first and then handles each    *)
(* of them in a transaction of its own.                                    *)
(*                                                                         *)
(* Only what these three parts share is modelled: the host's row, reduced  *)
(* to id and the staleness columns, and deleted_system.                    *)
(***************************************************************************)
EXTENDS Integers, FiniteSets

CONSTANTS
    Hosts,        \* inventory UUIDs
    Readers,      \* consumer goroutines of the listener
    Leases,       \* [warn, cull] offsets of the timestamps inventory sends with an upload
    Threshold,    \* system_delete_hrs: how long a deleted host is ignored
    Limit,        \* delete_culled_systems_limit: candidates of one run of the job
    MaxTime,      \* bound on the clock
    MaxEvents,    \* bound on the inventory events received
    LastEvent,    \* no event is received after this time
    MaxFaults     \* bound on failed statements and interrupted job runs

ASSUME LifecycleAssumption ==
    /\ Hosts # {}
    /\ Leases \subseteq [warn : Nat, cull : Nat]
    /\ Threshold \in Nat \ {0} /\ Limit \in Nat \ {0}
    /\ MaxTime \in Nat \ {0} /\ MaxEvents \in Nat /\ LastEvent \in Nat /\ MaxFaults \in Nat

VARIABLES
    clock,     \* now
    row,       \* row[h]: system_inventory; id = 0 means no row
    nextId,    \* next system_inventory.id
    deleted,   \* deleted[h]: deleted_system.when_deleted; 0 means no row
    rd,        \* rd[l]: the event reader l is handling
    job,       \* the run of the culling job in progress
    excused,   \* excused[h]: history, the last delete of h overlapped an upload or failed
    events,    \* events received so far
    faults     \* faults so far

vars == <<clock, row, nextId, deleted, rd, job, excused, events, faults>>

Row == [id : Nat, warn : Nat, culled : Nat, stale : BOOLEAN]
NoRow == [id |-> 0, warn |-> 0, culled |-> 0, stale |-> FALSE]

Event == [pc : {"idle", "checked", "recorded"}, h : Hosts, warn : Nat, culled : Nat]
NoEvent == [pc |-> "idle", h |-> CHOOSE h \in Hosts : TRUE, warn |-> 0, culled |-> 0]

Mark == [id : Nat, expired : BOOLEAN]
Job == [pc : {"idle", "cull", "stale", "prune"}, cull : SUBSET Hosts, mark : SUBSET Mark]
NoJob == [pc |-> "idle", cull |-> {}, mark |-> {}]

TypeOK ==
    /\ clock \in Nat
    /\ row \in [Hosts -> Row]
    /\ nextId \in Nat \ {0}
    /\ deleted \in [Hosts -> Nat]
    /\ rd \in [Readers -> Event]
    /\ job \in Job
    /\ excused \in [Hosts -> BOOLEAN]
    /\ events \in Nat /\ faults \in Nat

Init ==
    /\ clock = 1
    /\ row = [h \in Hosts |-> NoRow]
    /\ nextId = 1
    /\ deleted = [h \in Hosts |-> 0]
    /\ rd = [l \in Readers |-> NoEvent]
    /\ job = NoJob
    /\ excused = [h \in Hosts |-> FALSE]
    /\ events = 0 /\ faults = 0

-----------------------------------------------------------------------------
Tick ==
    /\ clock < MaxTime
    /\ clock' = clock + 1
    /\ UNCHANGED <<row, nextId, deleted, rd, job, excused, events, faults>>

Receive ==
    /\ events < MaxEvents /\ clock <= LastEvent
    /\ events' = events + 1

\* processUpload: deleted.WhenDeleted.After(time.Now().Add(-deletionThreshold))
RecentlyDeleted(h) == deleted[h] # 0 /\ clock < deleted[h] + Threshold

\* Mutant of UploadCheck: deleted_system is not looked at.
BugUnchecked(l, h, lease) ==
    /\ rd[l].pc = "idle"
    /\ Receive
    /\ rd' = [rd EXCEPT ![l] = [pc |-> "checked", h |-> h, warn |-> clock + lease.warn,
                                culled |-> clock + lease.cull]]
    /\ UNCHANGED <<clock, row, nextId, deleted, job, excused, faults>>

\* processUpload up to the check of deleted_system, which finds nothing recent.
UploadCheck(l, h, lease) ==
    /\ rd[l].pc = "idle"
    /\ Receive
    /\ ~RecentlyDeleted(h)
    /\ rd' = [rd EXCEPT ![l] = [pc |-> "checked", h |-> h, warn |-> clock + lease.warn,
                                culled |-> clock + lease.cull]]
    /\ UNCHANGED <<clock, row, nextId, deleted, job, excused, faults>>

\* "Received recently deleted system": the upload is not registered.
UploadIgnored(l, h) ==
    /\ rd[l].pc = "idle"
    /\ Receive
    /\ RecentlyDeleted(h)
    /\ UNCHANGED <<clock, row, nextId, deleted, rd, job, excused, faults>>

\* updateSystemPlatform and the commit: stale is not among the updated columns.
UploadCommit(l) ==
    LET u == rd[l]
        r == row[u.h]
    IN  /\ u.pc = "checked"
        /\ row' = [row EXCEPT ![u.h] = [id |-> IF r.id = 0 THEN nextId ELSE r.id,
                                        warn |-> u.warn, culled |-> u.culled,
                                        stale |-> IF r.id = 0 THEN FALSE ELSE r.stale]]
        /\ nextId' = IF r.id = 0 THEN nextId + 1 ELSE nextId
        /\ rd' = [rd EXCEPT ![l] = NoEvent]
        /\ UNCHANGED <<clock, deleted, job, excused, events, faults>>

\* Mutant of DeleteRecord: the threshold is subtracted when the row is written, too.
BugBackdated(l, h) ==
    /\ rd[l].pc = "idle"
    /\ Receive
    /\ deleted' = [deleted EXCEPT ![h] = clock - Threshold]
    /\ rd' = [rd EXCEPT ![l] = [NoEvent EXCEPT !.pc = "recorded", !.h = h]]
    /\ excused' = [excused EXCEPT ![h] = \E k \in Readers : rd[k].pc = "checked" /\ rd[k].h = h]
    /\ UNCHANGED <<clock, row, nextId, job, faults>>

\* HandleDelete, first statement: upsert into deleted_system.
DeleteRecord(l, h) ==
    /\ rd[l].pc = "idle"
    /\ Receive
    /\ deleted' = [deleted EXCEPT ![h] = clock]
    /\ rd' = [rd EXCEPT ![l] = [NoEvent EXCEPT !.pc = "recorded", !.h = h]]
    /\ excused' = [excused EXCEPT ![h] = \E k \in Readers : rd[k].pc = "checked" /\ rd[k].h = h]
    /\ UNCHANGED <<clock, row, nextId, job, faults>>

\* HandleDelete, second statement: culled_timestamp = NOW(), if there is a row.
DeleteMark(l) ==
    LET h == rd[l].h
    IN  /\ rd[l].pc = "recorded"
        /\ row' = IF row[h].id # 0 THEN [row EXCEPT ![h].culled = clock] ELSE row
        /\ rd' = [rd EXCEPT ![l] = NoEvent]
        /\ UNCHANGED <<clock, nextId, deleted, job, excused, events, faults>>

\* A statement fails.  The error of a delete is not fatal: the event is gone.
EventFail(l) ==
    /\ rd[l].pc # "idle"
    /\ faults < MaxFaults
    /\ faults' = faults + 1
    /\ rd' = [rd EXCEPT ![l] = NoEvent]
    /\ excused' = IF rd[l].pc = "recorded" THEN [excused EXCEPT ![rd[l].h] = TRUE] ELSE excused
    /\ UNCHANGED <<clock, row, nextId, deleted, job, events>>

-----------------------------------------------------------------------------
(* The system_culling job *)

\* ORDER BY id LIMIT Limit
FirstById(S) == {h \in S : Cardinality({g \in S : row[g].id < row[h].id}) < Limit}

\* Mutant of Culled: only hosts that are marked stale are looked at.
BugCullStale(h) == row[h].id # 0 /\ row[h].stale /\ row[h].culled < clock

Culled(h) == row[h].id # 0 /\ row[h].culled < clock

\* Mutant of Mismarked: hosts are marked stale and never unmarked.
BugNeverUnmarks(h) == row[h].id # 0 /\ ~row[h].stale /\ row[h].warn < clock

Mismarked(h) == row[h].id # 0 /\ row[h].stale # (row[h].warn < clock)

\* deleteCulledSystems reads its candidates.
CullBegin ==
    /\ job.pc = "idle"
    /\ job' = [NoJob EXCEPT !.pc = "cull", !.cull = FirstById({h \in Hosts : Culled(h)})]
    /\ UNCHANGED <<clock, row, nextId, deleted, rd, excused, events, faults>>

\* delete_system(inventory_id), whatever the row says by now.
CullDelete(h) ==
    /\ job.pc = "cull" /\ h \in job.cull
    /\ row' = [row EXCEPT ![h] = NoRow]
    /\ job' = [job EXCEPT !.cull = @ \ {h}]
    /\ UNCHANGED <<clock, nextId, deleted, rd, excused, events, faults>>

\* markSystemsStale reads its candidates.
MarkBegin ==
    /\ job.pc = "cull" /\ job.cull = {}
    /\ job' = [job EXCEPT !.pc = "stale",
                          !.mark = {[id |-> row[h].id, expired |-> row[h].warn < clock] :
                                        h \in FirstById({g \in Hosts : Mismarked(g)})}]
    /\ UNCHANGED <<clock, row, nextId, deleted, rd, excused, events, faults>>

\* UPDATE ... SET stale = expired WHERE id = ...: the timestamps are not read again.
MarkStale(c) ==
    /\ job.pc = "stale" /\ c \in job.mark
    /\ row' = [h \in Hosts |-> IF row[h].id = c.id THEN [row[h] EXCEPT !.stale = c.expired]
                                                    ELSE row[h]]
    /\ job' = [job EXCEPT !.mark = @ \ {c}]
    /\ UNCHANGED <<clock, nextId, deleted, rd, excused, events, faults>>

\* One candidate fails: a warning, and the next one is tried.
CandidateFail ==
    /\ faults < MaxFaults
    /\ faults' = faults + 1
    /\ \/ \E h \in job.cull : job' = [job EXCEPT !.cull = @ \ {h}]
       \/ \E c \in job.mark : job' = [job EXCEPT !.mark = @ \ {c}]
    /\ UNCHANGED <<clock, row, nextId, deleted, rd, excused, events>>

\* pruneDeletedSystems deletes old rows, as many as the limit allows, and the run ends.
Prune ==
    /\ job.pc = "stale" /\ job.mark = {}
    /\ LET old == {h \in Hosts : deleted[h] # 0 /\ deleted[h] + Threshold < clock}
       IN  \E S \in SUBSET old :
              /\ Cardinality(S) = IF Cardinality(old) < Limit THEN Cardinality(old) ELSE Limit
              /\ deleted' = [h \in Hosts |-> IF h \in S THEN 0 ELSE deleted[h]]
    /\ job' = NoJob
    /\ UNCHANGED <<clock, row, nextId, rd, excused, events, faults>>

\* A query for candidates fails, the pod is stopped, or the job panics.
JobAbort ==
    /\ job.pc # "idle"
    /\ faults < MaxFaults
    /\ faults' = faults + 1
    /\ job' = NoJob
    /\ UNCHANGED <<clock, row, nextId, deleted, rd, excused, events>>

-----------------------------------------------------------------------------
ReaderStep(l) == UploadCommit(l) \/ DeleteMark(l)

JobStep ==
    \/ CullBegin \/ MarkBegin \/ Prune
    \/ \E h \in Hosts : CullDelete(h)
    \/ \E c \in job.mark : MarkStale(c)

Next ==
    \/ Tick
    \/ \E l \in Readers, h \in Hosts, lease \in Leases : UploadCheck(l, h, lease)
    \/ \E l \in Readers, h \in Hosts : UploadIgnored(l, h) \/ DeleteRecord(l, h)
    \/ \E l \in Readers : ReaderStep(l) \/ EventFail(l)
    \/ JobStep \/ CandidateFail \/ JobAbort

Spec == Init /\ [][Next]_vars

\* Time passes, handlers end, and the job is scheduled again and again (a CronJob).
FairSpec ==
    /\ Spec
    /\ WF_vars(Tick) /\ WF_vars(JobStep)
    /\ \A l \in Readers : WF_vars(ReaderStep(l))

-----------------------------------------------------------------------------
(* Properties *)

\* A host whose delete event was handled is gone or due for culling for as long as
\* uploads of it are to be ignored, unless the delete failed half-way or an upload of
\* the host was past its check of deleted_system when the event was recorded.
DeletedIsDoomed ==
    \A h \in Hosts :
        RecentlyDeleted(h) /\ ~excused[h] /\ (\A l \in Readers : rd[l].pc = "recorded" => rd[l].h # h)
            => row[h].id = 0 \/ row[h].culled <= clock

\* The stale flag keeps returning to what stale_warning_timestamp says, although a run
\* of the job writes flags it computed before an upload moved the timestamp.
StaleConverges ==
    \A h \in Hosts : []<>(row[h].id # 0 => row[h].stale = (row[h].warn < clock))

\* A host past its culled_timestamp is removed or renewed, however many hosts wait
\* for the job and however small the limit of one run.
CulledRemoved ==
    \A h \in Hosts :
        row[h].id # 0 /\ row[h].culled < clock ~> row[h].id = 0 \/ row[h].culled >= clock
=============================================================================
