-------------------------- MODULE AggregatorProofs --------------------------
(***************************************************************************)
(* Theorems about Aggregator, for any systems, advisories, workspaces and  *)
(* goroutines, any batch size: type correctness, that "notified" is only   *)
(* said of an advisory that was sent, that no notification is forgotten,   *)
(* and that the counts are current or a recount is on its way.             *)
(***************************************************************************)
EXTENDS Aggregator, FiniteSetTheorems, SequenceTheorems, TLAPS

\* The buffer has room for the event of the reader, and an event stays in the topic until
\* its offset is committed.
QueueShape ==
    /\ reading # "flush" => Len(buffer) < BatchSize
    /\ reading # "fetch" => topic # <<>>

\* A snapshot counts no more installable than applicable systems.
SnapShape == \A k \in Workers, r \in Rows : worker[k].snap[r].inst <= worker[k].snap[r].app

\* The inductive invariant behind the type invariant.
TypeInv == TypeOK /\ QueueShape /\ SnapShape

\* What a batch is about to mark was sent.
MarkedWasSent == \A k \in Workers : worker[k].pc = "mark" => worker[k].todo \subseteq sent

\* The inductive invariant behind NotifiedWasSent.
SentInv == TypeInv /\ MarkedWasSent /\ NotifiedWasSent

\* Batch k will still look at advisory a, or has it on its list of advisories to send.
WillNotify(k, a) ==
    \/ worker[k].pc \in {"refresh", "write", "notify"} /\ a \in worker[k].ids
    \/ worker[k].pc \in {"send", "mark"} /\ a \in worker[k].todo /\ a \in worker[k].ids

\* It is not enough that a batch has the advisory: two batches past their query could each
\* be the excuse of the other.
NotifierAtWork ==
    \A r \in Rows : row[r].inst > 0 /\ ~row[r].notified =>
        \/ r[2] \in unsent
        \/ \E k \in Workers \ {"backfill"} : WillNotify(k, r[2])

\* The backfill job never gets to a notification.
BackfillSendsNone == worker["backfill"].pc \in {"idle", "refresh", "write"}

\* The inductive invariant behind NotificationNotForgotten.
NotifyInv == TypeInv /\ BackfillSendsNone /\ NotifierAtWork

\* Batch k is about to write row r from a snapshot.
Writes(k, r) == worker[k].pc = "write" /\ r[2] \in worker[k].ids

\* A row that batch k did not see, and thus did not lock, is still missing, unless another
\* batch wrote the advisory.
UnseenIsMissing ==
    \A k \in Workers, r \in Rows :
        Writes(k, r) /\ r \notin worker[k].seen /\ r[2] \notin worker[k].over => row[r].app = 0

\* A snapshot is current, or another recount comes, or one with a current snapshot is at
\* work: then whichever of the two writes first, the other one knows that it was overtaken.
SnapCurrentUnlessMissed ==
    \A k \in Workers, r \in Rows : Writes(k, r) /\ worker[k].snap[r] # Recount(r) =>
        \/ r[2] \in Announced \union missed \union worker[k].over
        \/ \E l \in Workers : Writes(l, r) /\ worker[l].snap[r] = Recount(r)

\* The counts and the snapshots, without the types.
Current == UnseenIsMissing /\ SnapCurrentUnlessMissed /\ CountsCurrentUnlessMissed

\* The inductive invariant behind CountsCurrentUnlessMissed.
CurrentInv == TypeInv /\ Current

-----------------------------------------------------------------------------
(* Types *)

\* An idle worker has its type.
LEMMA IdleType == Idle \in Batch /\ \A r \in Rows : Idle.snap[r] = Zero
BY DEF Idle, Batch, Count, Zero

\* A started batch has its type.
LEMMA StartType ==
    ASSUME worker \in [Workers -> Batch], SnapShape,
           NEW k \in Workers, NEW ids \in SUBSET Advisories, Start(k, ids)
    PROVE  worker' \in [Workers -> Batch] /\ SnapShape'
<1> DEFINE new == [Idle EXCEPT !.pc = "refresh", !.ids = ids]
<1>1. new \in Batch /\ \A r \in Rows : new.snap[r] = Zero
  BY IdleType DEF Batch, Idle
<1>2. worker' = [worker EXCEPT ![k] = new]
  BY DEF Start
<1> HIDE DEF new
<1> QED
  BY <1>1, <1>2 DEF SnapShape, Zero

\* The counts of a recount are numbers of systems.
LEMMA RecountType ==
    ASSUME NEW r \in Rows
    PROVE  Recount(r) \in Count /\ Recount(r).inst <= Recount(r).app
<1> DEFINE I == {s \in Systems : Counted(s, r) /\ status[s][r[2]] = "installable"}
           A == {s \in Systems : Counted(s, r) /\ status[s][r[2]] # "none"}
<1>1. I \subseteq A /\ A \subseteq Systems
  OBVIOUS
<1>2. IsFiniteSet(A)
  BY <1>1, FS_Subset, AggregatorAssumption
<1>3. IsFiniteSet(I) /\ Cardinality(I) <= Cardinality(A)
  BY <1>1, <1>2, FS_Subset
<1>4. Cardinality(I) \in Nat /\ Cardinality(A) \in Nat
  BY <1>2, <1>3, FS_CardinalityType
<1>5. Recount(r) = [inst |-> Cardinality(I), app |-> Cardinality(A)]
  BY DEF Recount
<1> HIDE DEF I, A
<1> QED
  BY <1>3, <1>4, <1>5 DEF Count

\* The initial state satisfies the type invariant.
LEMMA InitType == Init => TypeInv
<1> SUFFICES ASSUME Init
             PROVE  TypeInv
  OBVIOUS
<1>1. (CHOOSE w \in Workspaces : TRUE) \in Workspaces
  BY AggregatorAssumption
<1>2. worker \in [Workers -> Batch] /\ SnapShape
  BY IdleType DEF Init, SnapShape, Zero
<1>3. Nothing \in Statuses
  BY DEF Nothing, Statuses, Status
<1>4. /\ status \in [Systems -> Statuses] /\ place \in [Systems -> Workspaces]
      /\ ev \in [Systems -> [open : BOOLEAN, new : Statuses]]
  BY <1>1, <1>3 DEF Init
<1>5. /\ row \in [Rows -> [inst : Nat, app : Nat, notified : BOOLEAN]]
      /\ \A r \in Rows : row[r].inst <= row[r].app
  BY DEF Init
<1>6. /\ topic \in Seq(SUBSET Advisories)
      /\ buffer \in Seq(SUBSET Advisories) /\ Len(buffer) < BatchSize
  BY AggregatorAssumption DEF Init
<1>7. /\ stale \in [Systems -> BOOLEAN] /\ armed \in BOOLEAN
      /\ reading \in {"fetch", "flush", "commit"}
      /\ sent \subseteq Advisories /\ missed \subseteq Advisories /\ unsent \subseteq Advisories
  BY DEF Init
<1>8. QueueShape /\ Len(buffer) <= BatchSize
  BY <1>6, AggregatorAssumption DEF Init, QueueShape
<1>9. changes \in 0 .. MaxChanges /\ faults \in 0 .. MaxFaults
  BY AggregatorAssumption DEF Init
<1> QED
  BY <1>2, <1>4, <1>5, <1>6, <1>7, <1>8, <1>9, Zenon DEF TypeInv, TypeOK

\* The type invariant by the parts of the state an action may change.
InputType ==
    /\ status \in [Systems -> Statuses] /\ place \in [Systems -> Workspaces]
    /\ stale \in [Systems -> BOOLEAN]
    /\ ev \in [Systems -> [open : BOOLEAN, new : Statuses]]

QueueType ==
    /\ topic \in Seq(SUBSET Advisories)
    /\ buffer \in Seq(SUBSET Advisories) /\ Len(buffer) <= BatchSize
    /\ armed \in BOOLEAN /\ reading \in {"fetch", "flush", "commit"}
    /\ QueueShape

WorkerType == worker \in [Workers -> Batch] /\ SnapShape

RowType ==
    /\ row \in [Rows -> [inst : Nat, app : Nat, notified : BOOLEAN]]
    /\ \A r \in Rows : row[r].inst <= row[r].app

HistType == sent \subseteq Advisories /\ missed \subseteq Advisories /\ unsent \subseteq Advisories

BoundType == changes \in 0 .. MaxChanges /\ faults \in 0 .. MaxFaults

\* The parts make up the type invariant, before and after a step.
LEMMA TypeParts ==
    /\ TypeInv <=> /\ InputType /\ QueueType /\ WorkerType /\ RowType
                   /\ HistType /\ BoundType
    /\ TypeInv' <=> /\ InputType' /\ QueueType' /\ WorkerType' /\ RowType'
                    /\ HistType' /\ BoundType'
BY Zenon DEF TypeInv, TypeOK, InputType, QueueType, WorkerType, RowType, HistType, BoundType

\* A part that a step leaves alone keeps its type.
LEMMA PartsKept ==
    /\ InputType /\ UNCHANGED inputs => InputType'
    /\ QueueType /\ UNCHANGED queue => QueueType'
    /\ WorkerType /\ UNCHANGED worker => WorkerType'
    /\ RowType /\ UNCHANGED row => RowType'
    /\ HistType /\ UNCHANGED <<sent, hist>> => HistType'
    /\ BoundType /\ UNCHANGED bounds => BoundType'
<1>1. InputType /\ UNCHANGED inputs => InputType'
  BY Zenon DEF InputType, inputs
<1>2. QueueType /\ UNCHANGED queue => QueueType'
  BY Zenon DEF QueueType, QueueShape, queue
<1>3. WorkerType /\ UNCHANGED worker => WorkerType'
  BY Zenon DEF WorkerType, SnapShape
<1>4. RowType /\ UNCHANGED row => RowType'
  BY Zenon DEF RowType
<1>5. HistType /\ UNCHANGED <<sent, hist>> => HistType'
  BY Zenon DEF HistType, hist
<1>6. BoundType /\ UNCHANGED bounds => BoundType'
  BY Zenon DEF BoundType, bounds
<1> QED
  BY <1>1, <1>2, <1>3, <1>4, <1>5, <1>6

\* The counters stay within their bounds.
LEMMA BoundKept ==
    ASSUME BoundType, Change \/ UNCHANGED changes, Fault \/ UNCHANGED faults
    PROVE  BoundType'
BY AggregatorAssumption DEF BoundType, Change, Fault

\* The advisories of a sequence of events are advisories.
LEMMA GroupedType ==
    ASSUME NEW q \in Seq(SUBSET Advisories)
    PROVE  Grouped(q) \subseteq Advisories
BY DEF Grouped, ToSet

\* The steps of the evaluators, and the changes nobody announces.
LEMMA InputsStepType ==
    ASSUME TypeInv, NEW s \in Systems,
           \/ EvalPublish(s) \/ EvalPublishFails(s) \/ EvalCommit(s) \/ EvalRollback(s)
           \/ StaleFlip(s) \/ MoveWorkspace(s) \/ DeleteSystem(s)
    PROVE  TypeInv'
<1> USE TypeParts
<1>0. Nothing \in Statuses
  BY DEF Nothing, Statuses, Status
<1>1. CASE EvalPublish(s)
  <2>1. PICK new \in Statuses :
          /\ ev' = [ev EXCEPT ![s] = [open |-> TRUE, new |-> new]]
          /\ topic' = Append(topic, Changed(s, new))
    BY <1>1 DEF EvalPublish
  <2>2. InputType'
    BY <1>1, <2>1 DEF EvalPublish, InputType
  <2>3. QueueType'
    BY <1>1, <2>1 DEF EvalPublish, QueueType, QueueShape, Changed
  <2>4. BoundType'
    BY <1>1, BoundKept DEF EvalPublish
  <2> QED
    BY <1>1, <2>2, <2>3, <2>4, PartsKept DEF EvalPublish
<1>2. CASE EvalPublishFails(s)
  <2>1. InputType'
    BY <1>2 DEF EvalPublishFails, InputType
  <2>2. BoundType'
    BY <1>2, BoundKept DEF EvalPublishFails
  <2> QED
    BY <1>2, <2>1, <2>2, PartsKept DEF EvalPublishFails
<1>3. CASE EvalCommit(s)
  <2>1. InputType'
    BY <1>0, <1>3 DEF EvalCommit, InputType
  <2>2. HistType'
    BY <1>3 DEF EvalCommit, HistType, Changed
  <2> QED
    BY <1>3, <2>1, <2>2, PartsKept DEF EvalCommit
<1>4. CASE EvalRollback(s)
  <2>1. InputType'
    BY <1>0, <1>4 DEF EvalRollback, InputType
  <2>2. BoundType'
    BY <1>4, BoundKept DEF EvalRollback
  <2> QED
    BY <1>4, <2>1, <2>2, PartsKept DEF EvalRollback
<1>5. ASSUME Quiet(s)
      PROVE  /\ QueueType' /\ WorkerType' /\ RowType' /\ HistType' /\ BoundType'
  <2>1. HistType'
    BY <1>5 DEF Quiet, HistType
  <2>2. BoundType'
    BY <1>5, BoundKept DEF Quiet
  <2> QED
    BY <1>5, <2>1, <2>2, PartsKept DEF Quiet
<1>6. CASE StaleFlip(s)
  <2>1. InputType'
    BY <1>6 DEF StaleFlip, InputType
  <2> QED
    BY <1>5, <1>6, <2>1 DEF StaleFlip
<1>7. CASE MoveWorkspace(s)
  <2>1. InputType'
    BY <1>7 DEF MoveWorkspace, InputType
  <2> QED
    BY <1>5, <1>7, <2>1 DEF MoveWorkspace
<1>8. CASE DeleteSystem(s)
  <2>1. InputType'
    BY <1>0, <1>8 DEF DeleteSystem, InputType
  <2> QED
    BY <1>5, <1>8, <2>1 DEF DeleteSystem
<1> QED
  BY <1>1, <1>2, <1>3, <1>4, <1>6, <1>7, <1>8

\* The steps of the reader, the timer and the backfill job.
LEMMA FlushType ==
    ASSUME TypeInv, ReaderStep \/ (\E k \in Timers : TimerFlush(k)) \/ Backfill
    PROVE  TypeInv'
<1> USE TypeParts
<1>0. Grouped(buffer) \subseteq Advisories
  BY GroupedType DEF QueueType
<1>1. CASE Handler
  <2>1. Head(topic) \in SUBSET Advisories /\ topic # <<>>
    BY <1>1 DEF Handler, QueueType
  <2>2. /\ buffer' = Append(buffer, Head(topic)) /\ Len(buffer') = Len(buffer) + 1
        /\ buffer' \in Seq(SUBSET Advisories) /\ topic' = topic
    BY <1>1, <2>1 DEF Handler, QueueType
  <2>3. /\ reading = "fetch" /\ armed' = TRUE
        /\ reading' = IF Len(buffer') >= BatchSize THEN "flush" ELSE "commit"
    BY <1>1 DEF Handler
  <2>4. QueueType'
    BY <2>1, <2>2, <2>3, AggregatorAssumption DEF QueueType, QueueShape
  <2> QED
    BY <1>1, <2>4, PartsKept DEF Handler
<1>2. CASE ReaderFlush
  <2>1. WorkerType'
    <3>1. CASE buffer = <<>>
      BY <1>2, <3>1, PartsKept DEF ReaderFlush
    <3>2. CASE buffer # <<>>
      BY <1>0, <1>2, <3>2, StartType DEF ReaderFlush, WorkerType, Workers
    <3> QED
      BY <3>1, <3>2
  <2>2. buffer' = <<>> /\ reading' = "commit" /\ topic' = topic /\ armed' = armed
        /\ reading = "flush"
    BY <1>2 DEF ReaderFlush
  <2>3. QueueType'
    BY <2>2, AggregatorAssumption DEF QueueType, QueueShape
  <2> QED
    BY <1>2, <2>1, <2>3, PartsKept DEF ReaderFlush
<1>3. CASE ReaderCommit
  <2>1. QueueType'
    BY <1>3 DEF ReaderCommit, QueueType, QueueShape
  <2> QED
    BY <1>3, <2>1, PartsKept DEF ReaderCommit
<1>4. CASE \E k \in Timers : TimerFlush(k)
  <2> PICK k \in Timers : TimerFlush(k)
    BY <1>4
  <2>1. WorkerType'
    <3>1. CASE buffer = <<>>
      BY <3>1, PartsKept DEF TimerFlush
    <3>2. CASE buffer # <<>>
      BY <1>0, <3>2, StartType DEF TimerFlush, WorkerType, Workers
    <3> QED
      BY <3>1, <3>2
  <2>2. buffer' = <<>> /\ reading' = reading /\ topic' = topic /\ armed' \in BOOLEAN
    BY DEF TimerFlush
  <2>3. QueueType'
    BY <2>2, AggregatorAssumption DEF QueueType, QueueShape
  <2> QED
    BY <2>1, <2>3, PartsKept DEF TimerFlush
<1>5. CASE Backfill
  <2>1. WorkerType'
    BY <1>5, StartType DEF Backfill, WorkerType, Workers
  <2> QED
    BY <1>5, <2>1, PartsKept DEF Backfill
<1> QED
  BY <1>1, <1>2, <1>3, <1>4, <1>5 DEF ReaderStep

\* A worker that goes idle, or whose record is replaced by one of its type.
LEMMA WorkerReplaced ==
    ASSUME WorkerType, NEW k \in Workers, NEW b \in Batch,
           \A r \in Rows : b.snap[r].inst <= b.snap[r].app,
           worker' = [worker EXCEPT ![k] = b]
    PROVE  WorkerType'
BY DEF WorkerType, SnapShape

\* The steps of a batch.
LEMMA BatchType ==
    ASSUME TypeInv, NEW k \in Workers, BatchStep(k) \/ RefreshFails(k) \/ NotifyFails(k)
    PROVE  TypeInv'
<1> USE TypeParts
<1>0. /\ worker[k] \in Batch /\ \A r \in Rows : worker[k].snap[r].inst <= worker[k].snap[r].app
      /\ Idle \in Batch /\ \A r \in Rows : Idle.snap[r].inst <= Idle.snap[r].app
      /\ worker[k].ids \subseteq Advisories /\ worker[k].over \subseteq Advisories
      /\ worker[k].todo \subseteq Advisories
  BY IdleType DEF WorkerType, SnapShape, Zero, Batch
<1>1. CASE RefreshRead(k)
  <2> DEFINE seen == Present \intersect Of(worker[k].ids)
             snap == [r \in Rows |-> IF r[2] \in worker[k].ids THEN Recount(r) ELSE Zero]
             b == [worker[k] EXCEPT !.pc = "write", !.seen = seen, !.snap = snap]
  <2>1. /\ snap \in [Rows -> Count] /\ seen \subseteq Rows
        /\ \A r \in Rows : snap[r].inst <= snap[r].app
    BY RecountType DEF Count, Zero, Present
  <2>2. worker' = [worker EXCEPT ![k] = b]
    BY <1>1 DEF RefreshRead
  <2> HIDE DEF seen, snap
  <2>3. b \in Batch /\ \A r \in Rows : b.snap[r].inst <= b.snap[r].app
    BY <1>0, <2>1 DEF Batch
  <2> HIDE DEF b
  <2>4. WorkerType'
    BY <2>2, <2>3, WorkerReplaced
  <2>5. HistType'
    BY <1>1 DEF RefreshRead, HistType, hist
  <2> QED
    BY <1>1, <2>4, <2>5, PartsKept DEF RefreshRead
<1>2. CASE RefreshWrite(k)
  <2>1. \A r \in Rows :
          /\ Refreshed(k, r) \in [inst : Nat, app : Nat, notified : BOOLEAN]
          /\ Refreshed(k, r).inst <= Refreshed(k, r).app
    BY <1>0 DEF Refreshed, RowType, Batch, Count
  <2>2. RowType'
    BY <1>2, <2>1 DEF RefreshWrite, RowType
  <2> DEFINE b(j) == IF j = k THEN IF k = "backfill" THEN Idle
                                   ELSE [Idle EXCEPT !.pc = "notify", !.ids = worker[k].ids]
                     ELSE IF worker[j].pc = "write"
                          THEN [worker[j] EXCEPT
                                  !.over = @ \union (worker[j].ids \intersect worker[k].ids)]
                          ELSE worker[j]
  <2>3. worker' = [j \in Workers |-> b(j)]
    BY <1>2 DEF RefreshWrite
  <2>4. \A j \in Workers : b(j) \in Batch
                          /\ \A r \in Rows : b(j).snap[r].inst <= b(j).snap[r].app
    <3> TAKE j \in Workers
    <3>1. worker[j] \in Batch /\ \A r \in Rows : worker[j].snap[r].inst <= worker[j].snap[r].app
      BY DEF WorkerType, SnapShape
    <3>2. CASE j = k /\ k = "backfill"
      BY <1>0, <3>2
    <3>3. CASE j = k /\ k # "backfill"
      <4>1. b(j) = [Idle EXCEPT !.pc = "notify", !.ids = worker[k].ids]
        BY <3>3
      <4> QED
        BY <1>0, <4>1 DEF Batch
    <3>4. CASE j # k /\ worker[j].pc = "write"
      <4>1. b(j) = [worker[j] EXCEPT
                      !.over = @ \union (worker[j].ids \intersect worker[k].ids)]
        BY <3>4
      <4> QED
        BY <3>1, <4>1 DEF Batch
    <3>5. CASE j # k /\ worker[j].pc # "write"
      BY <3>1, <3>5
    <3> QED
      BY <3>2, <3>3, <3>4, <3>5
  <2> HIDE DEF b
  <2>5. WorkerType'
    BY <2>3, <2>4 DEF WorkerType, SnapShape
  <2>6. HistType'
    BY <1>0, <1>2 DEF RefreshWrite, HistType
  <2> QED
    BY <1>2, <2>2, <2>5, <2>6, PartsKept DEF RefreshWrite
<1>3. CASE RefreshFails(k)
  <2>1. WorkerType'
    BY <1>0, <1>3, WorkerReplaced DEF RefreshFails
  <2>2. HistType'
    BY <1>0, <1>3 DEF RefreshFails, HistType
  <2>3. BoundType'
    BY <1>3, BoundKept DEF RefreshFails
  <2> QED
    BY <1>3, <2>1, <2>2, <2>3, PartsKept DEF RefreshFails
<1>4. CASE NotifyRead(k)
  <2> DEFINE todo == Unnotified(worker[k].ids)
             b == IF todo = {} THEN Idle ELSE [worker[k] EXCEPT !.pc = "send", !.todo = todo]
  <2>1. worker' = [worker EXCEPT ![k] = b]
    BY <1>4 DEF NotifyRead
  <2>2. todo \subseteq Advisories
    BY <1>0 DEF Unnotified
  <2> HIDE DEF todo
  <2>3. b \in Batch /\ \A r \in Rows : b.snap[r].inst <= b.snap[r].app
    BY <1>0, <2>2 DEF Batch
  <2> HIDE DEF b
  <2>4. WorkerType'
    BY <2>1, <2>3, WorkerReplaced
  <2>5. HistType'
    BY <1>4 DEF NotifyRead, HistType
  <2> QED
    BY <1>4, <2>4, <2>5, PartsKept DEF NotifyRead
<1>5. CASE NotifySend(k)
  <2> DEFINE b == [worker[k] EXCEPT !.pc = "mark"]
  <2>1. worker' = [worker EXCEPT ![k] = b]
    BY <1>5 DEF NotifySend
  <2>2. b \in Batch /\ \A r \in Rows : b.snap[r].inst <= b.snap[r].app
    BY <1>0 DEF Batch
  <2> HIDE DEF b
  <2>3. WorkerType'
    BY <2>1, <2>2, WorkerReplaced
  <2>4. HistType'
    BY <1>0, <1>5 DEF NotifySend, HistType, hist
  <2> QED
    BY <1>5, <2>3, <2>4, PartsKept DEF NotifySend
<1>6. CASE NotifyMark(k)
  <2>1. WorkerType'
    BY <1>0, <1>6, WorkerReplaced DEF NotifyMark
  <2>2. RowType'
    BY <1>6 DEF NotifyMark, RowType
  <2> QED
    BY <1>6, <2>1, <2>2, PartsKept DEF NotifyMark
<1>7. CASE NotifyFails(k)
  <2>1. WorkerType'
    BY <1>0, <1>7, WorkerReplaced DEF NotifyFails
  <2>2. HistType'
    BY <1>0, <1>7 DEF NotifyFails, HistType
  <2>3. BoundType'
    BY <1>7, BoundKept DEF NotifyFails
  <2> QED
    BY <1>7, <2>1, <2>2, <2>3, PartsKept DEF NotifyFails
<1> QED
  BY <1>1, <1>2, <1>3, <1>4, <1>5, <1>6, <1>7 DEF BatchStep

\* The crash of the pod.
LEMMA CrashType ==
    ASSUME TypeInv, Crash
    PROVE  TypeInv'
<1> USE TypeParts
<1>1. Grouped(buffer) \subseteq Advisories
  BY GroupedType DEF QueueType
<1>2. \A k \in Workers : worker[k].ids \subseteq Advisories
  BY DEF WorkerType, Batch
<1>3. HistType'
  BY <1>1, <1>2 DEF Crash, HistType
<1>4. WorkerType'
  BY IdleType DEF Crash, WorkerType, SnapShape, Zero
<1>5. QueueType'
  <2>1. buffer' = <<>> /\ reading' = "fetch" /\ topic' = topic /\ armed' \in BOOLEAN
    BY DEF Crash
  <2> QED
    BY <2>1, AggregatorAssumption DEF QueueType, QueueShape
<1>6. BoundType'
  BY BoundKept DEF Crash
<1> QED
  BY <1>3, <1>4, <1>5, <1>6, PartsKept DEF Crash

\* Every step preserves the type invariant.
LEMMA NextType == TypeInv /\ [Next]_vars => TypeInv'
<1>1. TypeInv /\ UNCHANGED vars => TypeInv'
  BY TypeParts, PartsKept, Zenon DEF vars, inputs, queue, hist, bounds
<1> QED
  BY <1>1, InputsStepType, FlushType, BatchType, CrashType, Zenon DEF Next

\* The variables of the aggregator, the advisory rows and the batches keep their types:
\* the buffer of advisoryUpdateHandler never holds more than a batch, and no row counts
\* more installable than applicable systems.
THEOREM TypeCorrect == Spec => []TypeOK
<1>1. Spec => []TypeInv
  BY InitType, NextType, PTL DEF Spec
<1>2. TypeInv => TypeOK
  BY DEF TypeInv
<1> QED
  BY <1>1, <1>2, PTL

-----------------------------------------------------------------------------
(* What steps do to the batches *)

\* The changes of the inputs leave the batches and what they wrote alone.
LEMMA InputsQuiet ==
    ASSUME NEW s \in Systems,
           \/ EvalPublish(s) \/ EvalPublishFails(s) \/ EvalCommit(s) \/ EvalRollback(s)
           \/ StaleFlip(s) \/ MoveWorkspace(s) \/ DeleteSystem(s)
    PROVE  UNCHANGED <<worker, row, sent, unsent>>
BY Zenon DEF EvalPublish, EvalPublishFails, EvalCommit, EvalRollback, StaleFlip, MoveWorkspace,
             DeleteSystem, Quiet, hist

\* A flush leaves everything to its batch: it starts one on an idle worker, or does nothing.
LEMMA FlushStarts ==
    ASSUME ReaderStep \/ (\E k \in Timers : TimerFlush(k)) \/ Backfill
    PROVE  /\ UNCHANGED <<row, sent, unsent, missed, status, place, stale>>
           /\ \/ UNCHANGED worker
              \/ \E k \in Workers : /\ worker[k].pc = "idle"
                                   /\ \E ids : Start(k, ids)
<1>1. CASE Handler
  BY <1>1, Zenon DEF Handler, hist, inputs
<1>2. CASE ReaderFlush
  BY <1>2, Zenon DEF ReaderFlush, hist, inputs, Workers
<1>3. CASE ReaderCommit
  BY <1>3, Zenon DEF ReaderCommit, hist, inputs
<1>4. CASE \E k \in Timers : TimerFlush(k)
  BY <1>4, Zenon DEF TimerFlush, hist, inputs, Workers
<1>5. CASE Backfill
  BY <1>5, Zenon DEF Backfill, hist, inputs, Workers
<1> QED
  BY <1>1, <1>2, <1>3, <1>4, <1>5 DEF ReaderStep

\* What Start makes of the workers.
LEMMA Started ==
    ASSUME worker \in [Workers -> Batch], NEW k \in Workers, NEW ids, Start(k, ids)
    PROVE  /\ worker'[k].pc = "refresh" /\ worker'[k].ids = ids
           /\ \A j \in Workers : j # k => worker'[j] = worker[j]
<1> DEFINE new == [Idle EXCEPT !.pc = "refresh", !.ids = ids]
<1>1. new.pc = "refresh" /\ new.ids = ids
  BY DEF Idle
<1>2. worker' = [worker EXCEPT ![k] = new]
  BY DEF Start
<1> HIDE DEF new
<1> QED
  BY <1>1, <1>2

\* What RefreshWrite makes of the workers.
LEMMA Written ==
    ASSUME worker \in [Workers -> Batch], NEW k \in Workers, RefreshWrite(k)
    PROVE  /\ k = "backfill" => worker'[k] = Idle
           /\ k # "backfill" => worker'[k].pc = "notify" /\ worker'[k].ids = worker[k].ids
           /\ \A j \in Workers : j # k =>
                /\ worker'[j].pc = worker[j].pc /\ worker'[j].ids = worker[j].ids
                /\ worker'[j].snap = worker[j].snap /\ worker'[j].seen = worker[j].seen
                /\ worker'[j].todo = worker[j].todo
                /\ worker'[j].over = IF worker[j].pc = "write"
                     THEN worker[j].over \union (worker[j].ids \intersect worker[k].ids)
                     ELSE worker[j].over
<1> DEFINE done == [Idle EXCEPT !.pc = "notify", !.ids = worker[k].ids]
           b(j) == [worker[j] EXCEPT !.over = @ \union (worker[j].ids \intersect worker[k].ids)]
<1>1. worker' = [j \in Workers |->
                  IF j = k THEN IF k = "backfill" THEN Idle ELSE done
                  ELSE IF worker[j].pc = "write" THEN b(j) ELSE worker[j]]
  BY DEF RefreshWrite
<1>2. done.pc = "notify" /\ done.ids = worker[k].ids
  BY DEF Idle
<1>3. ASSUME NEW j \in Workers
      PROVE  /\ b(j).pc = worker[j].pc /\ b(j).ids = worker[j].ids
             /\ b(j).snap = worker[j].snap /\ b(j).seen = worker[j].seen
             /\ b(j).todo = worker[j].todo
             /\ b(j).over = worker[j].over \union (worker[j].ids \intersect worker[k].ids)
  BY <1>3 DEF Batch
<1> HIDE DEF done, b
<1> QED
  BY <1>1, <1>2, <1>3

\* What the other steps of a batch make of it.
LEMMA BatchMoves ==
    ASSUME worker \in [Workers -> Batch], NEW k \in Workers
    PROVE  /\ RefreshRead(k) =>
                /\ worker'[k].pc = "write" /\ worker'[k].ids = worker[k].ids
                /\ worker'[k].seen = Present \intersect Of(worker[k].ids)
                /\ worker'[k].snap = [r \in Rows |-> IF r[2] \in worker[k].ids
                                                    THEN Recount(r) ELSE Zero]
           /\ RefreshFails(k) \/ NotifyMark(k) \/ NotifyFails(k) => worker'[k] = Idle
           /\ NotifyRead(k) =>
                IF Unnotified(worker[k].ids) = {} THEN worker'[k] = Idle
                ELSE /\ worker'[k].pc = "send" /\ worker'[k].ids = worker[k].ids
                     /\ worker'[k].todo = Unnotified(worker[k].ids)
           /\ NotifySend(k) => /\ worker'[k].pc = "mark" /\ worker'[k].ids = worker[k].ids
                               /\ worker'[k].todo = worker[k].todo
           /\ \/ RefreshRead(k) \/ RefreshFails(k) \/ NotifyRead(k) \/ NotifySend(k)
              \/ NotifyMark(k) \/ NotifyFails(k)
              => \A j \in Workers : j # k => worker'[j] = worker[j]
<1>0. worker[k] \in Batch
  OBVIOUS
<1>1. ASSUME RefreshRead(k)
      PROVE  /\ worker'[k].pc = "write" /\ worker'[k].ids = worker[k].ids
             /\ worker'[k].seen = Present \intersect Of(worker[k].ids)
             /\ worker'[k].snap = [r \in Rows |-> IF r[2] \in worker[k].ids
                                                 THEN Recount(r) ELSE Zero]
             /\ \A j \in Workers : j # k => worker'[j] = worker[j]
  <2> DEFINE seen == Present \intersect Of(worker[k].ids)
             snap == [r \in Rows |-> IF r[2] \in worker[k].ids THEN Recount(r) ELSE Zero]
             b == [worker[k] EXCEPT !.pc = "write", !.seen = seen, !.snap = snap]
  <2>1. worker' = [worker EXCEPT ![k] = b]
    BY <1>1 DEF RefreshRead
  <2> HIDE DEF seen, snap
  <2>2. b.pc = "write" /\ b.ids = worker[k].ids /\ b.seen = seen /\ b.snap = snap
    BY <1>0 DEF Batch
  <2> HIDE DEF b
  <2>3. worker'[k] = b /\ \A j \in Workers : j # k => worker'[j] = worker[j]
    BY <2>1
  <2> QED
    BY <2>2, <2>3 DEF seen, snap
<1>2. ASSUME RefreshFails(k) \/ NotifyMark(k) \/ NotifyFails(k)
      PROVE  /\ worker'[k] = Idle
             /\ \A j \in Workers : j # k => worker'[j] = worker[j]
  BY <1>2 DEF RefreshFails, NotifyMark, NotifyFails
<1>3. ASSUME NotifyRead(k)
      PROVE  /\ IF Unnotified(worker[k].ids) = {} THEN worker'[k] = Idle
                ELSE /\ worker'[k].pc = "send" /\ worker'[k].ids = worker[k].ids
                     /\ worker'[k].todo = Unnotified(worker[k].ids)
             /\ \A j \in Workers : j # k => worker'[j] = worker[j]
  <2> DEFINE todo == Unnotified(worker[k].ids)
             b == [worker[k] EXCEPT !.pc = "send", !.todo = todo]
  <2>1. worker' = [worker EXCEPT ![k] = IF todo = {} THEN Idle ELSE b]
    BY <1>3 DEF NotifyRead
  <2> HIDE DEF todo
  <2>2. b.pc = "send" /\ b.ids = worker[k].ids /\ b.todo = todo
    BY <1>0 DEF Batch
  <2> HIDE DEF b
  <2>3. /\ worker'[k] = IF todo = {} THEN Idle ELSE b
        /\ \A j \in Workers : j # k => worker'[j] = worker[j]
    BY <2>1
  <2> QED
    BY <2>2, <2>3 DEF todo
<1>4. ASSUME NotifySend(k)
      PROVE  /\ worker'[k].pc = "mark" /\ worker'[k].ids = worker[k].ids
             /\ worker'[k].todo = worker[k].todo
             /\ \A j \in Workers : j # k => worker'[j] = worker[j]
  <2> DEFINE b == [worker[k] EXCEPT !.pc = "mark"]
  <2>1. worker' = [worker EXCEPT ![k] = b]
    BY <1>4 DEF NotifySend
  <2>2. b.pc = "mark" /\ b.ids = worker[k].ids /\ b.todo = worker[k].todo
    BY <1>0 DEF Batch
  <2> HIDE DEF b
  <2> QED
    BY <2>1, <2>2
<1> QED
  BY <1>1, <1>2, <1>3, <1>4, Zenon

-----------------------------------------------------------------------------
(* Notified advisories were sent *)

\* Every step preserves MarkedWasSent and NotifiedWasSent.
LEMMA NextSent == SentInv /\ [Next]_vars => SentInv'
<1> SUFFICES ASSUME SentInv, [Next]_vars
             PROVE  SentInv'
  OBVIOUS
<1>0. TypeInv' /\ worker \in [Workers -> Batch] /\ RowType /\ Idle.pc = "idle"
  BY NextType, TypeParts DEF SentInv, WorkerType, Idle
<1>1. ASSUME UNCHANGED <<worker, row, sent>>
      PROVE  MarkedWasSent' /\ NotifiedWasSent'
  BY <1>1, Zenon DEF SentInv, MarkedWasSent, NotifiedWasSent
<1>2. CASE \E s \in Systems :
             \/ EvalPublish(s) \/ EvalPublishFails(s) \/ EvalCommit(s) \/ EvalRollback(s)
             \/ StaleFlip(s) \/ MoveWorkspace(s) \/ DeleteSystem(s)
  BY <1>0, <1>1, <1>2, InputsQuiet, Zenon DEF SentInv
<1>3. CASE ReaderStep \/ (\E k \in Timers : TimerFlush(k)) \/ Backfill
  <2>1. CASE UNCHANGED worker
    BY <1>0, <1>1, <1>3, <2>1, FlushStarts DEF SentInv
  <2>2. ASSUME NEW k \in Workers, NEW ids, Start(k, ids)
        PROVE  MarkedWasSent'
    BY <1>0, <1>3, <2>2, Started, FlushStarts DEF SentInv, MarkedWasSent
  <2>3. NotifiedWasSent'
    BY <1>3, FlushStarts DEF SentInv, NotifiedWasSent
  <2> QED
    BY <1>0, <1>3, <2>1, <2>2, <2>3, FlushStarts DEF SentInv
<1>4. ASSUME NEW k \in Workers, BatchStep(k) \/ RefreshFails(k) \/ NotifyFails(k)
      PROVE  MarkedWasSent' /\ NotifiedWasSent'
  <2>1. CASE RefreshRead(k)
    BY <1>0, <2>1, BatchMoves DEF RefreshRead, SentInv, MarkedWasSent, NotifiedWasSent
  <2>2. CASE RefreshWrite(k)
    <3>0. sent' = sent
      BY <2>2, Zenon DEF RefreshWrite
    <3>1. MarkedWasSent'
      <4>1. worker'[k].pc # "mark"
        BY <1>0, <2>2, Written
      <4>2. ASSUME NEW j \in Workers, j # k
            PROVE  worker'[j].pc = worker[j].pc /\ worker'[j].todo = worker[j].todo
        <5>1. worker \in [Workers -> Batch]
          BY <1>0
        <5> QED
          BY <2>2, <4>2, <5>1, Written
      <4> QED
        BY <3>0, <4>1, <4>2 DEF SentInv, MarkedWasSent
    <3>2. \A r \in Rows : Refreshed(k, r).notified => row[r].notified
      BY DEF Refreshed
    <3>3. NotifiedWasSent'
      BY <2>2, <3>2 DEF RefreshWrite, SentInv, NotifiedWasSent
    <3> QED
      BY <3>1, <3>3
  <2>3. CASE RefreshFails(k)
    BY <1>0, <2>3, BatchMoves DEF RefreshFails, SentInv, MarkedWasSent, NotifiedWasSent
  <2>4. CASE NotifyRead(k)
    BY <1>0, <2>4, BatchMoves DEF NotifyRead, SentInv, MarkedWasSent, NotifiedWasSent
  <2>5. CASE NotifySend(k)
    BY <1>0, <2>5, BatchMoves DEF NotifySend, SentInv, MarkedWasSent, NotifiedWasSent
  <2>6. CASE NotifyMark(k)
    <3>1. MarkedWasSent'
      BY <1>0, <2>6, BatchMoves DEF NotifyMark, SentInv, MarkedWasSent
    <3>2. worker[k].todo \subseteq sent /\ sent' = sent
      BY <2>6 DEF NotifyMark, SentInv, MarkedWasSent
    <3>3. \A r \in Rows : row'[r].notified => row[r].notified \/ r[2] \in worker[k].todo
      BY <1>0, <2>6 DEF NotifyMark, RowType
    <3> QED
      BY <3>1, <3>2, <3>3 DEF SentInv, NotifiedWasSent
  <2>7. CASE NotifyFails(k)
    BY <1>0, <2>7, BatchMoves DEF NotifyFails, SentInv, MarkedWasSent, NotifiedWasSent
  <2> QED
    BY <1>4, <2>1, <2>2, <2>3, <2>4, <2>5, <2>6, <2>7 DEF BatchStep
<1>5. CASE Crash
  BY <1>0, <1>5 DEF Crash, SentInv, MarkedWasSent, NotifiedWasSent
<1>6. CASE UNCHANGED vars
  BY <1>0, <1>1, <1>6, Zenon DEF SentInv, vars
<1> QED
  BY <1>0, <1>2, <1>3, <1>4, <1>5, <1>6, Zenon DEF Next, SentInv

\* markAdvisoriesNotified says "notified" only of advisories a notification was sent
\* about, however recounts of other goroutines delete and insert the rows in between.
THEOREM NotifiedHolds == Spec => []NotifiedWasSent
<1>1. Init => SentInv
  <2> SUFFICES ASSUME Init
               PROVE  SentInv
    OBVIOUS
  <2>1. TypeInv
    BY InitType
  <2>2. MarkedWasSent /\ NotifiedWasSent
    BY DEF Init, Idle, MarkedWasSent, NotifiedWasSent
  <2> QED
    BY <2>1, <2>2 DEF SentInv
<1>2. SentInv => NotifiedWasSent
  BY DEF SentInv
<1> QED
  BY <1>1, <1>2, NextSent, PTL DEF Spec

-----------------------------------------------------------------------------
(* No notification is forgotten *)

\* The second component of a row is its advisory.
LEMMA RowAdvisory == \A r \in Rows : r[2] \in Advisories
BY DEF Rows

\* No step takes the backfill job to a notification.
LEMMA BackfillKept ==
    ASSUME TypeInv, BackfillSendsNone, [Next]_vars
    PROVE  BackfillSendsNone'
<1>0. /\ worker \in [Workers -> Batch] /\ Idle.pc = "idle" /\ "backfill" \in Workers
  BY TypeParts DEF WorkerType, Idle, Workers
<1>1. CASE UNCHANGED worker
  BY <1>1 DEF BackfillSendsNone
<1>2. ASSUME NEW k \in Workers, NEW ids, Start(k, ids)
      PROVE  BackfillSendsNone'
  BY <1>0, <1>2, Started DEF BackfillSendsNone
<1>3. ASSUME NEW k \in Workers, BatchStep(k) \/ RefreshFails(k) \/ NotifyFails(k)
      PROVE  BackfillSendsNone'
  <2>1. CASE RefreshWrite(k)
    BY <1>0, <2>1, Written DEF BackfillSendsNone
  <2>2. CASE RefreshRead(k) \/ RefreshFails(k) \/ NotifyMark(k) \/ NotifyFails(k)
    BY <1>0, <2>2, BatchMoves DEF BackfillSendsNone
  <2>3. CASE NotifyRead(k) \/ NotifySend(k)
    <3>1. worker[k].pc \in {"notify", "send"}
      BY <2>3, Zenon DEF NotifyRead, NotifySend
    <3> QED
      BY <1>0, <2>3, <3>1, BatchMoves DEF BackfillSendsNone
  <2> QED
    BY <1>3, <2>1, <2>2, <2>3 DEF BatchStep
<1>4. CASE Crash
  BY <1>0, <1>4 DEF Crash, BackfillSendsNone
<1> QED
  BY <1>1, <1>2, <1>3, <1>4, InputsQuiet, FlushStarts, Zenon DEF Next, vars

\* Every step preserves NotifierAtWork.
LEMMA NextNotify == NotifyInv /\ [Next]_vars => NotifyInv'
<1> SUFFICES ASSUME NotifyInv, [Next]_vars
             PROVE  NotifyInv'
  OBVIOUS
<1>0. /\ TypeInv' /\ worker \in [Workers -> Batch] /\ RowType /\ Idle.pc = "idle"
      /\ BackfillSendsNone'
  BY NextType, TypeParts, BackfillKept DEF NotifyInv, WorkerType, Idle
<1>1. ASSUME UNCHANGED <<worker, row, unsent>>
      PROVE  NotifierAtWork'
  BY <1>1 DEF NotifyInv, NotifierAtWork, WillNotify
<1>2. CASE \E s \in Systems :
             \/ EvalPublish(s) \/ EvalPublishFails(s) \/ EvalCommit(s) \/ EvalRollback(s)
             \/ StaleFlip(s) \/ MoveWorkspace(s) \/ DeleteSystem(s)
  BY <1>0, <1>1, <1>2, InputsQuiet, Zenon DEF NotifyInv
<1>3. CASE ReaderStep \/ (\E k \in Timers : TimerFlush(k)) \/ Backfill
  <2>1. CASE UNCHANGED worker
    BY <1>0, <1>1, <1>3, <2>1, FlushStarts DEF NotifyInv
  <2>2. ASSUME NEW k \in Workers, worker[k].pc = "idle", NEW ids, Start(k, ids)
        PROVE  NotifierAtWork'
    <3>1. \A j \in Workers, a \in Advisories : WillNotify(j, a) => WillNotify(j, a)'
      BY <1>0, <2>2, Started DEF WillNotify
    <3> QED
      BY <1>3, <3>1, FlushStarts, RowAdvisory DEF NotifyInv, NotifierAtWork
  <2> QED
    BY <1>0, <1>3, <2>1, <2>2, FlushStarts DEF NotifyInv
<1>4. ASSUME NEW k \in Workers, BatchStep(k) \/ RefreshFails(k) \/ NotifyFails(k)
      PROVE  NotifierAtWork'
  <2>1. CASE RefreshRead(k)
    <3>0. worker[k].pc = "refresh"
      BY <2>1, Zenon DEF RefreshRead
    <3>1. \A j \in Workers, a \in Advisories : WillNotify(j, a) => WillNotify(j, a)'
      BY <1>0, <2>1, <3>0, BatchMoves DEF WillNotify
    <3> QED
      BY <2>1, <3>1, RowAdvisory DEF RefreshRead, NotifyInv, NotifierAtWork
  <2>2. CASE RefreshWrite(k)
    <3>1. CASE k = "backfill"
      BY <2>2, <3>1, RowAdvisory DEF RefreshWrite, NotifierAtWork
    <3>2. CASE k # "backfill"
      <4>0. worker[k].pc = "write"
        BY <2>2, Zenon DEF RefreshWrite
      <4>1. \A j \in Workers, a \in Advisories : WillNotify(j, a) => WillNotify(j, a)'
        BY <1>0, <2>2, <3>2, <4>0, Written DEF WillNotify
      <4>2. \A a \in worker[k].ids : WillNotify(k, a)'
        BY <1>0, <2>2, <3>2, Written DEF WillNotify
      <4>3. \A r \in Rows : r[2] \notin worker[k].ids => row'[r] = row[r]
        BY <2>2 DEF RefreshWrite
      <4>4. unsent' = unsent
        BY <2>2, <3>2 DEF RefreshWrite
      <4> QED
        BY <3>2, <4>1, <4>2, <4>3, <4>4, RowAdvisory DEF NotifyInv, NotifierAtWork
    <3> QED
      BY <3>1, <3>2
  <2>3. CASE RefreshFails(k) \/ NotifyFails(k)
    <3>1. \A j \in Workers, a \in Advisories :
            WillNotify(j, a) => WillNotify(j, a)' \/ a \in worker[k].ids
      BY <1>0, <2>3, BatchMoves DEF WillNotify
    <3> QED
      BY <2>3, <3>1, RowAdvisory DEF RefreshFails, NotifyFails, NotifyInv, NotifierAtWork
  <2>4. CASE NotifyRead(k)
    <3>1. \A j \in Workers, a \in Advisories :
            WillNotify(j, a) => WillNotify(j, a)' \/ a \in worker[k].ids
      BY <1>0, <2>4, BatchMoves DEF NotifyRead, WillNotify
    <3>2. \A r \in Rows : row[r].inst > 0 /\ ~row[r].notified /\ r[2] \in worker[k].ids
                           => r[2] \in Unnotified(worker[k].ids)
      BY DEF Unnotified
    <3>3. \A a \in Unnotified(worker[k].ids) : a \in worker[k].ids /\ WillNotify(k, a)'
      BY <1>0, <2>4, BatchMoves DEF NotifyRead, WillNotify, Unnotified
    <3>4. k # "backfill"
      BY <2>4 DEF NotifyRead, NotifyInv, BackfillSendsNone
    <3> QED
      BY <2>4, <3>1, <3>2, <3>3, <3>4, RowAdvisory DEF NotifyRead, NotifyInv, NotifierAtWork
  <2>5. CASE NotifySend(k)
    <3>1. \A j \in Workers, a \in Advisories : WillNotify(j, a) => WillNotify(j, a)'
      BY <1>0, <2>5, BatchMoves DEF NotifySend, WillNotify
    <3> QED
      BY <2>5, <3>1, RowAdvisory DEF NotifySend, NotifyInv, NotifierAtWork, hist
  <2>6. CASE NotifyMark(k)
    <3>1. \A j \in Workers, a \in Advisories :
            WillNotify(j, a) => WillNotify(j, a)' \/ (j = k /\ a \in worker[k].todo)
      BY <1>0, <2>6, BatchMoves DEF NotifyMark, WillNotify
    <3>2. \A r \in Rows :
            /\ row'[r].inst = row[r].inst
            /\ row[r].notified => row'[r].notified
            /\ r[2] \in worker[k].todo /\ row[r].inst > 0 => row'[r].notified
      <4> TAKE r \in Rows
      <4> DEFINE n == row[r].notified \/ (r \in Present /\ r[2] \in worker[k].todo)
      <4>1. row'[r] = [row[r] EXCEPT !.notified = n]
        BY <2>6 DEF NotifyMark
      <4>2. row[r] \in [inst : Nat, app : Nat, notified : BOOLEAN] /\ row[r].inst <= row[r].app
        BY <1>0 DEF RowType
      <4>3. /\ n \in BOOLEAN /\ (row[r].notified => n)
            /\ (r[2] \in worker[k].todo /\ row[r].inst > 0 => n)
        BY <4>2 DEF Present
      <4> HIDE DEF n
      <4> QED
        BY <4>1, <4>2, <4>3
    <3> QED
      BY <2>6, <3>1, <3>2, RowAdvisory DEF NotifyMark, NotifyInv, NotifierAtWork, hist
  <2> QED
    BY <1>4, <2>1, <2>2, <2>3, <2>4, <2>5, <2>6 DEF BatchStep
<1>5. CASE Crash
  <2>1. \A j \in Workers, a \in Advisories : WillNotify(j, a) => a \in worker[j].ids
    BY DEF WillNotify
  <2>2. /\ unsent \subseteq unsent' /\ row' = row
        /\ \A j \in Workers \ {"backfill"} : worker[j].ids \subseteq unsent'
    BY <1>5 DEF Crash
  <2>3. ASSUME NEW r \in Rows, row[r].inst > 0, ~row[r].notified
        PROVE  r[2] \in unsent'
    <3>1. CASE r[2] \in unsent
      BY <2>2, <3>1
    <3>2. CASE \E j \in Workers \ {"backfill"} : WillNotify(j, r[2])
      BY <2>1, <2>2, <3>2, RowAdvisory
    <3> QED
      BY <2>3, <3>1, <3>2 DEF NotifyInv, NotifierAtWork
  <2> QED
    BY <1>0, <2>2, <2>3 DEF NotifierAtWork, NotifyInv
<1>6. CASE UNCHANGED vars
  BY <1>0, <1>1, <1>6, Zenon DEF NotifyInv, vars
<1> QED
  BY <1>0, <1>2, <1>3, <1>4, <1>5, <1>6, Zenon DEF Next, NotifyInv

\* As long as an advisory has an installable row that is not notified, a batch with it is
\* at work, unless the last such batch failed or died, or the row is from the backfill job:
\* getUnnotifiedAdvisories of several goroutines never leave it to each other.
THEOREM NotForgotten == Spec => []NotificationNotForgotten
<1>1. Init => NotifyInv
  <2> SUFFICES ASSUME Init
               PROVE  NotifyInv
    OBVIOUS
  <2>1. TypeInv
    BY InitType
  <2>2. BackfillSendsNone
    BY DEF Init, Idle, BackfillSendsNone, Workers
  <2>3. NotifierAtWork
    BY DEF Init, NotifierAtWork
  <2> QED
    BY <2>1, <2>2, <2>3 DEF NotifyInv
<1>2. NotifyInv => NotificationNotForgotten
  BY DEF NotifyInv, NotifierAtWork, NotificationNotForgotten, WillNotify
<1> QED
  BY <1>1, <1>2, NextNotify, PTL DEF Spec

-----------------------------------------------------------------------------
(* Counts are current or a recount is on its way *)

\* Advisories of events that are put into a queue or taken out of it.
LEMMA GroupedQueue ==
    ASSUME NEW q \in Seq(SUBSET Advisories)
    PROVE  /\ \A x \in SUBSET Advisories :
                Append(q, x) \in Seq(SUBSET Advisories) /\ Grouped(Append(q, x)) = Grouped(q) \union x
           /\ q # <<>> => /\ Head(q) \in SUBSET Advisories /\ Tail(q) \in Seq(SUBSET Advisories)
                          /\ Grouped(q) = Head(q) \union Grouped(Tail(q))
<1>1. ASSUME NEW x \in SUBSET Advisories
      PROVE  Append(q, x) \in Seq(SUBSET Advisories) /\ Grouped(Append(q, x)) = Grouped(q) \union x
  <2>1. /\ Append(q, x) \in Seq(SUBSET Advisories) /\ DOMAIN Append(q, x) = 1 .. Len(q) + 1
        /\ Append(q, x)[Len(q) + 1] = x /\ Len(q) \in Nat /\ DOMAIN q = 1 .. Len(q)
        /\ \A i \in 1 .. Len(q) : Append(q, x)[i] = q[i]
    OBVIOUS
  <2>2. ToSet(Append(q, x)) = ToSet(q) \union {x}
    BY <2>1 DEF ToSet
  <2> QED
    BY <2>1, <2>2 DEF Grouped
<1>2. ASSUME q # <<>>
      PROVE  /\ Head(q) \in SUBSET Advisories /\ Tail(q) \in Seq(SUBSET Advisories)
             /\ Grouped(q) = Head(q) \union Grouped(Tail(q))
  <2>1. /\ Head(q) = q[1] /\ Tail(q) \in Seq(SUBSET Advisories) /\ Len(q) \in Nat \ {0}
        /\ DOMAIN q = 1 .. Len(q) /\ DOMAIN Tail(q) = 1 .. Len(q) - 1
        /\ \A i \in 1 .. Len(q) - 1 : Tail(q)[i] = q[i + 1]
    BY <1>2
  <2>2. ToSet(q) \subseteq ToSet(Tail(q)) \union {q[1]}
    <3> SUFFICES ASSUME NEW i \in 1 .. Len(q)
                 PROVE  q[i] \in ToSet(Tail(q)) \union {q[1]}
      BY <2>1 DEF ToSet
    <3>1. CASE i = 1
      BY <3>1
    <3>2. CASE i # 1
      <4>1. i - 1 \in 1 .. Len(q) - 1 /\ Tail(q)[i - 1] = q[i]
        BY <2>1, <3>2
      <4> QED
        BY <2>1, <4>1 DEF ToSet
    <3> QED
      BY <3>1, <3>2
  <2>3. ToSet(Tail(q)) \union {q[1]} \subseteq ToSet(q)
    BY <2>1 DEF ToSet
  <2> QED
    BY <2>1, <2>2, <2>3 DEF Grouped
<1> QED
  BY <1>1, <1>2

\* What it is to be announced, and to be written.
LEMMA AnnouncedIs ==
    /\ \A a : a \in Announced <=>
         \/ a \in Grouped(Unread) \/ a \in Grouped(buffer)
         \/ \E k \in Workers : worker[k].pc = "refresh" /\ a \in worker[k].ids
    /\ \A a : a \in Announced' <=>
         \/ a \in Grouped(Unread') \/ a \in Grouped(buffer')
         \/ \E k \in Workers : worker'[k].pc = "refresh" /\ a \in worker'[k].ids
    /\ \A a : a \in Writing <=> \E k \in Workers : worker[k].pc = "write" /\ a \in worker[k].ids
    /\ \A a : a \in Writing' <=>
         \E k \in Workers : worker'[k].pc = "write" /\ a \in worker'[k].ids
<1>1. \A a : a \in Recounting <=> \E k \in Workers : worker[k].pc = "refresh" /\ a \in worker[k].ids
  BY DEF Recounting
<1>2. \A a : a \in Recounting' <=>
         \E k \in Workers : worker'[k].pc = "refresh" /\ a \in worker'[k].ids
  BY DEF Recounting
<1>3. \A a : a \in Writing <=> \E k \in Workers : worker[k].pc = "write" /\ a \in worker[k].ids
  BY DEF Writing
<1>4. \A a : a \in Writing' <=>
         \E k \in Workers : worker'[k].pc = "write" /\ a \in worker'[k].ids
  BY DEF Writing
<1>5. \A a : a \in Announced <=>
         a \in Grouped(Unread) \/ a \in Grouped(buffer) \/ a \in Recounting
  BY DEF Announced
<1>6. \A a : a \in Announced' <=>
         a \in Grouped(Unread') \/ a \in Grouped(buffer') \/ a \in Recounting'
  BY DEF Announced, Grouped
<1> QED
  BY <1>1, <1>2, <1>3, <1>4, <1>5, <1>6

\* An advisory that is announced stays so through the changes of the inputs.
LEMMA InputsAnnounced ==
    ASSUME TypeInv, NEW s \in Systems,
           \/ EvalPublish(s) \/ EvalPublishFails(s) \/ EvalCommit(s) \/ EvalRollback(s)
           \/ StaleFlip(s) \/ MoveWorkspace(s) \/ DeleteSystem(s)
    PROVE  Announced \subseteq Announced'
<1>0. worker' = worker
  BY InputsQuiet
<1>1. reading' = reading /\ buffer' = buffer
  BY Zenon DEF EvalPublish, EvalPublishFails, EvalCommit, EvalRollback, StaleFlip, MoveWorkspace,
               DeleteSystem, Quiet, queue
<1>2. CASE UNCHANGED topic
  BY <1>0, <1>1, <1>2, AnnouncedIs DEF Unread
<1>3. CASE EvalPublish(s)
  <2>1. PICK x \in SUBSET Advisories : topic' = Append(topic, x)
    BY <1>3 DEF EvalPublish, Changed
  <2>2. topic \in Seq(SUBSET Advisories) /\ (reading # "fetch" => topic # <<>>)
    BY TypeParts DEF QueueType, QueueShape
  <2>3. Grouped(Unread) \subseteq Grouped(Unread')
    <3>1. CASE reading = "fetch"
      BY <1>1, <2>1, <2>2, <3>1, GroupedQueue DEF Unread
    <3>2. CASE reading # "fetch"
      <4>1. Tail(Append(topic, x)) = Append(Tail(topic), x)
        BY <2>2, <3>2, HeadTailAppend
      <4>2. Tail(topic) \in Seq(SUBSET Advisories)
        BY <2>2, <3>2, GroupedQueue
      <4>3. Grouped(Append(Tail(topic), x)) = Grouped(Tail(topic)) \union x
        BY <4>2, GroupedQueue
      <4>4. Unread = Tail(topic) /\ Unread' = Append(Tail(topic), x)
        BY <1>1, <2>1, <3>2, <4>1 DEF Unread
      <4> QED
        BY <4>3, <4>4
    <3> QED
      BY <3>1, <3>2
  <2> QED
    BY <1>0, <1>1, <2>3, AnnouncedIs
<1>4. EvalPublish(s) \/ UNCHANGED topic
  BY Zenon DEF EvalPublishFails, EvalCommit, EvalRollback, StaleFlip, MoveWorkspace,
               DeleteSystem, Quiet, queue
<1> QED
  BY <1>2, <1>3, <1>4

\* The reader and the timer hand an advisory on, from the topic to the buffer and from the
\* buffer to a batch, and do not lose it.
LEMMA FlushAnnounced ==
    ASSUME TypeInv, ReaderStep \/ (\E k \in Timers : TimerFlush(k)) \/ Backfill
    PROVE  Announced \subseteq Announced'
<1>0. /\ topic \in Seq(SUBSET Advisories) /\ (reading # "fetch" => topic # <<>>)
      /\ buffer \in Seq(SUBSET Advisories) /\ worker \in [Workers -> Batch]
  BY TypeParts DEF QueueType, QueueShape, WorkerType
<1>1. Grouped(<<>>) = {}
  BY DEF Grouped, ToSet
<1>2. CASE Handler
  <2>1. /\ reading = "fetch" /\ topic # <<>> /\ buffer' = Append(buffer, Head(topic))
        /\ topic' = topic /\ worker' = worker
        /\ reading' = IF Len(buffer') >= BatchSize THEN "flush" ELSE "commit"
    BY <1>2, Zenon DEF Handler
  <2>2. Unread = topic /\ Unread' = Tail(topic)
    BY <2>1 DEF Unread
  <2>3. /\ Grouped(topic) = Head(topic) \union Grouped(Tail(topic))
        /\ Grouped(buffer') = Grouped(buffer) \union Head(topic)
    BY <1>0, <2>1, GroupedQueue
  <2> QED
    BY <2>1, <2>2, <2>3, AnnouncedIs
<1>3. ASSUME NEW k \in Workers, worker[k].pc = "idle", Unread' = Unread,
             \/ UNCHANGED <<buffer, worker>>
             \/ buffer' = <<>> /\ Start(k, Grouped(buffer))
             \/ buffer' = buffer /\ Start(k, Advisories)
      PROVE  Announced \subseteq Announced'
  <2>1. CASE UNCHANGED <<buffer, worker>>
    BY <1>3, <2>1, AnnouncedIs
  <2>2. CASE buffer' = <<>> /\ Start(k, Grouped(buffer))
    <3>1. /\ worker'[k].pc = "refresh" /\ worker'[k].ids = Grouped(buffer)
          /\ \A j \in Workers : j # k => worker'[j] = worker[j]
      BY <1>0, <2>2, Started
    <3> QED
      BY <1>1, <1>3, <2>2, <3>1, AnnouncedIs
  <2>3. CASE buffer' = buffer /\ Start(k, Advisories)
    <3>1. \A j \in Workers : j # k => worker'[j] = worker[j]
      BY <1>0, <2>3, Started
    <3> QED
      BY <1>3, <2>3, <3>1, AnnouncedIs
  <2> QED
    BY <1>3, <2>1, <2>2, <2>3
<1>4. CASE ReaderFlush
  <2>1. /\ "reader" \in Workers /\ worker["reader"].pc = "idle"
        /\ topic' = topic /\ reading = "flush" /\ reading' = "commit"
    BY <1>4 DEF ReaderFlush, Workers
  <2>2. Unread' = Unread
    BY <2>1 DEF Unread
  <2> QED
    BY <1>3, <1>4, <2>1, <2>2, Zenon DEF ReaderFlush
<1>5. CASE ReaderCommit
  <2>1. Unread' = Unread
    BY <1>5 DEF ReaderCommit, Unread
  <2>2. UNCHANGED <<buffer, worker>>
    BY <1>5, Zenon DEF ReaderCommit
  <2> QED
    BY <2>1, <2>2, AnnouncedIs
<1>6. CASE \E k \in Timers : TimerFlush(k)
  <2> PICK k \in Timers : TimerFlush(k)
    BY <1>6
  <2>1. k \in Workers /\ worker[k].pc = "idle" /\ topic' = topic /\ reading' = reading
    BY DEF TimerFlush, Workers
  <2>2. Unread' = Unread
    BY <2>1 DEF Unread
  <2> QED
    BY <1>3, <2>1, <2>2, Zenon DEF TimerFlush
<1>7. CASE Backfill
  <2>1. /\ "backfill" \in Workers /\ worker["backfill"].pc = "idle"
        /\ topic' = topic /\ reading' = reading /\ buffer' = buffer
    BY <1>7 DEF Backfill, Workers, queue
  <2>2. Unread' = Unread
    BY <2>1 DEF Unread
  <2> QED
    BY <1>3, <1>7, <2>1, <2>2, Zenon DEF Backfill
<1> QED
  BY <1>2, <1>4, <1>5, <1>6, <1>7 DEF ReaderStep

\* A batch uses up an announcement when it takes its snapshot, or fails.
LEMMA BatchAnnounced ==
    ASSUME TypeInv, NEW k \in Workers, BatchStep(k) \/ RefreshFails(k) \/ NotifyFails(k)
    PROVE  /\ RefreshRead(k) \/ RefreshFails(k) => Announced \subseteq Announced' \union worker[k].ids
           /\ RefreshWrite(k) \/ NotifyRead(k) \/ NotifySend(k) \/ NotifyMark(k) \/ NotifyFails(k)
              => Announced \subseteq Announced'
<1>0. worker \in [Workers -> Batch]
  BY TypeParts DEF WorkerType
<1>1. Unread' = Unread /\ buffer' = buffer
  <2>1. UNCHANGED queue
    BY Zenon DEF BatchStep, RefreshRead, RefreshWrite, RefreshFails, NotifyRead, NotifySend,
                 NotifyMark, NotifyFails
  <2> QED
    BY <2>1 DEF queue, Unread
<1>2. ASSUME RefreshRead(k) \/ RefreshFails(k)
      PROVE  Announced \subseteq Announced' \union worker[k].ids
  <2>1. \A j \in Workers : j # k => worker'[j] = worker[j]
    BY <1>0, <1>2, BatchMoves, Zenon
  <2> QED
    BY <1>1, <2>1, AnnouncedIs
<1>3. ASSUME RefreshWrite(k)
      PROVE  Announced \subseteq Announced'
  <2>1. worker[k].pc # "refresh"
    BY <1>3 DEF RefreshWrite
  <2>2. ASSUME NEW j \in Workers, j # k
        PROVE  worker'[j].pc = worker[j].pc /\ worker'[j].ids = worker[j].ids
    BY <1>0, <1>3, <2>2, Written
  <2> QED
    BY <1>1, <2>1, <2>2, AnnouncedIs
<1>4. ASSUME NotifyRead(k) \/ NotifySend(k) \/ NotifyMark(k) \/ NotifyFails(k)
      PROVE  Announced \subseteq Announced'
  <2>1. worker[k].pc # "refresh"
    BY <1>4 DEF NotifyRead, NotifySend, NotifyMark, NotifyFails
  <2>2. \A j \in Workers : j # k => worker'[j] = worker[j]
    BY <1>0, <1>4, BatchMoves, Zenon
  <2> QED
    BY <1>1, <2>1, <2>2, AnnouncedIs
<1> QED
  BY <1>2, <1>3, <1>4

\* What a crash takes from the announced advisories is counted as missed.
LEMMA CrashAnnounced ==
    ASSUME TypeInv, Crash
    PROVE  Announced \subseteq Announced' \union missed'
<1>0. /\ topic \in Seq(SUBSET Advisories) /\ (reading # "fetch" => topic # <<>>)
      /\ worker \in [Workers -> Batch]
  BY TypeParts DEF QueueType, QueueShape, WorkerType
<1>1. topic' = topic /\ reading' = "fetch"
  BY DEF Crash
<1>2. Unread' = topic
  BY <1>1 DEF Unread
<1>3. Grouped(Unread) \subseteq Grouped(Unread')
  BY <1>0, <1>2, GroupedQueue DEF Unread
<1>4. Grouped(buffer) \subseteq missed'
  BY DEF Crash
<1>5. \A k \in Workers : k # "backfill" => worker[k].ids \subseteq missed'
  BY DEF Crash
<1>6. \A k \in Workers : k = "backfill" => worker'[k] = worker[k]
  BY DEF Crash
<1> QED
  BY <1>3, <1>4, <1>5, <1>6, AnnouncedIs

\* The recount of a row only sees the status, the workspace and the stale flag of systems
\* that have the advisory.
LEMMA RecountOfOne ==
    ASSUME NEW s \in Systems, NEW r \in Rows,
           \A t \in Systems \ {s} : /\ status'[t] = status[t] /\ place'[t] = place[t]
                                    /\ stale'[t] = stale[t],
           /\ status'[s][r[2]] = status[s][r[2]]
           /\ \/ status[s][r[2]] = "none"
              \/ place'[s] = place[s] /\ stale'[s] = stale[s]
    PROVE  Recount(r)' = Recount(r)
<1>1. {t \in Systems : Counted(t, r) /\ status[t][r[2]] = "installable"}'
        = {t \in Systems : Counted(t, r) /\ status[t][r[2]] = "installable"}
  BY DEF Counted
<1>2. {t \in Systems : Counted(t, r) /\ status[t][r[2]] # "none"}'
        = {t \in Systems : Counted(t, r) /\ status[t][r[2]] # "none"}
  BY DEF Counted
<1> QED
  BY <1>1, <1>2, Zenon DEF Recount

\* A step that writes no counts and takes no snapshot preserves the invariant when it keeps
\* the announced and missed advisories, puts the advisories of the recounts it changes and
\* of the batches it ends among them, and leaves the other snapshots alone.
LEMMA CurrentKept ==
    ASSUME Current,
           \A r \in Rows : row'[r].inst = row[r].inst /\ row'[r].app = row[r].app,
           Announced \union missed \subseteq Announced' \union missed',
           \A r \in Rows : Recount(r)' = Recount(r) \/ r[2] \in Announced' \union missed',
           \A k \in Workers : worker'[k].pc = "write" => worker'[k] = worker[k],
           \A k \in Workers : worker[k].pc = "write" /\ worker'[k].pc # "write"
                                => worker[k].ids \subseteq Announced' \union missed'
    PROVE  Current'
<1> DEFINE covered(r) == r[2] \in Announced' \union missed'
<1>1. ASSUME NEW k \in Workers, NEW r \in Rows, Writes(k, r)'
      PROVE  Writes(k, r) /\ worker'[k] = worker[k]
  BY <1>1 DEF Writes
<1>2. ASSUME NEW k \in Workers, NEW r \in Rows, Writes(k, r)
      PROVE  Writes(k, r)' \/ covered(r)
  BY <1>2 DEF Writes
<1>3. UnseenIsMissing'
  <2> SUFFICES ASSUME NEW k \in Workers, NEW r \in Rows,
                      Writes(k, r)', r \notin worker'[k].seen, r[2] \notin worker'[k].over
               PROVE  row'[r].app = 0
    BY DEF UnseenIsMissing
  <2> QED
    BY <1>1 DEF Current, UnseenIsMissing
<1>4. SnapCurrentUnlessMissed'
  <2> SUFFICES ASSUME NEW k \in Workers, NEW r \in Rows,
                      Writes(k, r)', worker'[k].snap[r] # Recount(r)', ~covered(r)
               PROVE  \/ r[2] \in worker'[k].over
                      \/ \E l \in Workers : Writes(l, r)' /\ worker'[l].snap[r] = Recount(r)'
    BY DEF SnapCurrentUnlessMissed
  <2>1. Recount(r)' = Recount(r) /\ Writes(k, r) /\ worker'[k] = worker[k]
    BY <1>1
  <2>2. \/ r[2] \in worker[k].over
        \/ \E l \in Workers : Writes(l, r) /\ worker[l].snap[r] = Recount(r)
    BY <2>1 DEF Current, SnapCurrentUnlessMissed
  <2> QED
    BY <1>1, <1>2, <2>1, <2>2
<1>5. CountsCurrentUnlessMissed'
  <2> SUFFICES ASSUME NEW r \in Rows, RowCount(r)' # Recount(r)', ~covered(r)
               PROVE  r[2] \in Writing'
    BY DEF CountsCurrentUnlessMissed
  <2>1. RowCount(r)' = RowCount(r) /\ Recount(r)' = Recount(r)
    BY DEF RowCount
  <2>2. r[2] \in Writing
    BY <2>1 DEF Current, CountsCurrentUnlessMissed
  <2>3. PICK k \in Workers : Writes(k, r)
    BY <2>2, AnnouncedIs DEF Writes
  <2>4. Writes(k, r)'
    BY <1>2, <2>3
  <2> QED
    BY <2>4, AnnouncedIs DEF Writes
<1> QED
  BY <1>3, <1>4, <1>5 DEF Current

\* The changes of the inputs preserve it: the advisories they change were announced, or are
\* missed.
LEMMA InputsCurrent ==
    ASSUME TypeInv, Current, NEW s \in Systems,
           \/ EvalPublish(s) \/ EvalPublishFails(s) \/ EvalCommit(s) \/ EvalRollback(s)
           \/ StaleFlip(s) \/ MoveWorkspace(s) \/ DeleteSystem(s)
    PROVE  Current'
<1>0. /\ status \in [Systems -> Statuses] /\ place \in [Systems -> Workspaces]
      /\ stale \in [Systems -> BOOLEAN] /\ ev \in [Systems -> [open : BOOLEAN, new : Statuses]]
  BY TypeParts DEF InputType
<1>1. UNCHANGED <<worker, row>> /\ Announced \subseteq Announced'
  BY InputsQuiet, InputsAnnounced
<1>2. missed \subseteq missed'
  BY DEF EvalPublish, EvalPublishFails, EvalCommit, EvalRollback, StaleFlip, MoveWorkspace,
         DeleteSystem, Quiet, hist
<1>3. ASSUME NEW r \in Rows, r[2] \notin Announced' \union missed'
      PROVE  Recount(r)' = Recount(r)
  <2>0. r[2] \notin Announced /\ r[2] \in Advisories
    BY <1>1, <1>3, RowAdvisory
  <2>1. CASE EvalPublish(s) \/ EvalPublishFails(s) \/ EvalRollback(s)
    <3>1. UNCHANGED <<status, place, stale>>
      BY <2>1, Zenon DEF EvalPublish, EvalPublishFails, EvalRollback
    <3> QED
      BY <3>1, RecountOfOne
  <2>2. CASE EvalCommit(s)
    <3>1. r[2] \notin Changed(s, ev[s].new)
      BY <1>3, <2>0, <2>2 DEF EvalCommit
    <3>2. /\ status' = [status EXCEPT ![s] = ev[s].new]
          /\ UNCHANGED <<place, stale>>
      BY <2>2 DEF EvalCommit
    <3> QED
      BY <1>0, <2>0, <3>1, <3>2, RecountOfOne DEF Changed
  <2>3. CASE Quiet(s)
    <3>1. status[s][r[2]] = "none"
      BY <1>3, <2>0, <2>3 DEF Quiet
    <3>2. CASE StaleFlip(s) \/ MoveWorkspace(s)
      <4>1. \A t \in Systems \ {s} : stale'[t] = stale[t] /\ place'[t] = place[t]
        BY <1>0, <3>2 DEF StaleFlip, MoveWorkspace
      <4>2. status' = status
        BY <3>2 DEF StaleFlip, MoveWorkspace
      <4> QED
        BY <3>1, <4>1, <4>2, RecountOfOne
    <3>3. CASE DeleteSystem(s)
      <4>1. /\ UNCHANGED <<place, stale>> /\ status' = [status EXCEPT ![s] = Nothing]
        BY <3>3 DEF DeleteSystem
      <4>2. status'[s][r[2]] = "none"
        BY <1>0, <2>0, <4>1 DEF Nothing
      <4> QED
        BY <1>0, <3>1, <4>1, <4>2, RecountOfOne
    <3>4. CASE EvalCommit(s)
      BY <2>2, <3>4
    <3>5. CASE EvalPublish(s) \/ EvalPublishFails(s) \/ EvalRollback(s)
      BY <2>1, <3>5
    <3> QED
      BY <3>2, <3>3, <3>4, <3>5
  <2> QED
    BY <2>1, <2>2, <2>3 DEF StaleFlip, MoveWorkspace, DeleteSystem
<1> QED
  BY <1>1, <1>2, <1>3, CurrentKept

\* So do the steps of the reader, the timer and the start of the backfill job.
LEMMA FlushCurrent ==
    ASSUME TypeInv, Current, ReaderStep \/ (\E k \in Timers : TimerFlush(k)) \/ Backfill
    PROVE  Current'
<1>1. UNCHANGED <<row, missed, status, place, stale>> /\ Announced \subseteq Announced'
  BY FlushStarts, FlushAnnounced
<1>2. \A r \in Rows : Recount(r)' = Recount(r)
  BY <1>1 DEF Recount, Counted
<1>3. CASE UNCHANGED worker
  BY <1>1, <1>2, <1>3, CurrentKept
<1>4. ASSUME NEW k \in Workers, worker[k].pc = "idle", NEW ids, Start(k, ids)
      PROVE  Current'
  <2>1. worker \in [Workers -> Batch]
    BY TypeParts DEF WorkerType
  <2>2. /\ worker'[k].pc = "refresh"
        /\ \A j \in Workers : j # k => worker'[j] = worker[j]
    BY <1>4, <2>1, Started
  <2>3. \A j \in Workers : worker'[j].pc = "write" => worker'[j] = worker[j]
    BY <2>2
  <2>4. \A j \in Workers : worker[j].pc = "write" => worker'[j].pc = "write"
    BY <1>4, <2>2
  <2> QED
    BY <1>1, <1>2, <2>3, <2>4, CurrentKept
<1> QED
  BY <1>3, <1>4, FlushStarts

\* So do the steps of a batch that write no counts and take no snapshot.
LEMMA NotifyCurrent ==
    ASSUME TypeInv, Current, NEW k \in Workers,
           \/ RefreshFails(k) \/ NotifyRead(k) \/ NotifySend(k) \/ NotifyMark(k) \/ NotifyFails(k)
    PROVE  Current'
<1>0. worker \in [Workers -> Batch] /\ RowType
  BY TypeParts DEF WorkerType
<1>1. UNCHANGED <<status, place, stale>>
  BY Zenon DEF RefreshFails, NotifyRead, NotifySend, NotifyMark, NotifyFails, inputs
<1>2. \A r \in Rows : Recount(r)' = Recount(r)
  BY <1>1 DEF Recount, Counted
<1>3. \A r \in Rows : row'[r].inst = row[r].inst /\ row'[r].app = row[r].app
  <2>1. CASE NotifyMark(k)
    <3> TAKE r \in Rows
    <3> DEFINE n == row[r].notified \/ (r \in Present /\ r[2] \in worker[k].todo)
    <3>1. row'[r] = [row[r] EXCEPT !.notified = n]
      BY <2>1 DEF NotifyMark
    <3>2. row[r] \in [inst : Nat, app : Nat, notified : BOOLEAN]
      BY <1>0 DEF RowType
    <3> HIDE DEF n
    <3> QED
      BY <3>1, <3>2
  <2>2. CASE row' = row
    BY <2>2
  <2> QED
    BY <2>1, <2>2 DEF RefreshFails, NotifyRead, NotifySend, NotifyFails
<1>4. \A j \in Workers : j # k => worker'[j] = worker[j]
  BY <1>0, BatchMoves, Zenon
<1>5. worker'[k].pc # "write"
  <2>1. worker'[k] = Idle \/ worker'[k].pc = "send" \/ worker'[k].pc = "mark"
    BY <1>0, BatchMoves, Zenon
  <2> QED
    BY <2>1 DEF Idle
<1>6. CASE RefreshFails(k)
  <2>1. /\ missed' = missed \union worker[k].ids
        /\ Announced \subseteq Announced' \union worker[k].ids
    BY <1>6, BatchAnnounced DEF RefreshFails
  <2>2. Announced \union missed \subseteq Announced' \union missed'
    BY <2>1
  <2>3. \A j \in Workers : worker[j].pc = "write" /\ worker'[j].pc # "write"
                             => worker[j].ids \subseteq Announced' \union missed'
    BY <1>4, <2>1
  <2>4. \A j \in Workers : worker'[j].pc = "write" => worker'[j] = worker[j]
    BY <1>4, <1>5
  <2> QED
    BY <1>2, <1>3, <2>2, <2>3, <2>4, CurrentKept
<1>7. CASE NotifyRead(k) \/ NotifySend(k) \/ NotifyMark(k) \/ NotifyFails(k)
  <2>1. missed' = missed /\ worker[k].pc \in {"notify", "send", "mark"}
    BY <1>7 DEF NotifyRead, NotifySend, NotifyMark, NotifyFails, hist
  <2>2. Announced \subseteq Announced'
    BY <1>7, BatchAnnounced DEF BatchStep
  <2>3. \A j \in Workers : worker[j].pc = "write" => worker'[j].pc = "write"
    BY <1>4, <2>1
  <2>4. \A j \in Workers : worker'[j].pc = "write" => worker'[j] = worker[j]
    BY <1>4, <1>5
  <2> QED
    BY <1>2, <1>3, <2>1, <2>2, <2>3, <2>4, CurrentKept
<1> QED
  BY <1>6, <1>7

\* So does a crash: the batches it ends are counted as missed.
LEMMA CrashCurrent ==
    ASSUME TypeInv, Current, Crash
    PROVE  Current'
<1>1. UNCHANGED <<status, place, stale, row>> /\ missed \subseteq missed'
  BY DEF Crash, inputs
<1>2. \A r \in Rows : Recount(r)' = Recount(r)
  BY <1>1 DEF Recount, Counted
<1>3. Announced \union missed \subseteq Announced' \union missed'
  BY <1>1, CrashAnnounced
<1>4. \A k \in Workers : worker'[k] = worker[k] \/ worker'[k] = Idle
  BY DEF Crash
<1>5. \A k \in Workers : worker'[k] = worker[k] \/ worker[k].ids \subseteq missed'
  BY DEF Crash
<1> QED
  BY <1>1, <1>2, <1>3, <1>4, <1>5, CurrentKept DEF Idle

\* A snapshot is current when it is taken, and replaces the announcement.
LEMMA ReadCurrent ==
    ASSUME TypeInv, Current, NEW k \in Workers, RefreshRead(k)
    PROVE  Current'
<1>0. worker \in [Workers -> Batch] /\ RowType
  BY TypeParts DEF WorkerType
<1>1. /\ UNCHANGED <<status, place, stale, row>> /\ missed' = missed \ worker[k].ids
      /\ worker[k].pc = "refresh"
  BY Zenon DEF RefreshRead, inputs
<1>2. /\ \A r \in Rows : Recount(r)' = Recount(r)
      /\ \A r \in Rows : RowCount(r)' = RowCount(r)
  BY <1>1 DEF Recount, Counted, RowCount
<1>3. Announced \subseteq Announced' \union worker[k].ids
  BY BatchAnnounced DEF BatchStep
<1>4. \A j \in Workers : j # k => worker'[j] = worker[j]
  BY <1>0, BatchMoves, Zenon
<1>5. /\ worker'[k].pc = "write" /\ worker'[k].ids = worker[k].ids
      /\ worker'[k].seen = Present \intersect Of(worker[k].ids)
      /\ \A r \in Rows : r[2] \in worker[k].ids => worker'[k].snap[r] = Recount(r)
  BY <1>0, BatchMoves
<1>6. \A j \in Workers, r \in Rows : Writes(j, r) => Writes(j, r)' /\ worker'[j] = worker[j]
  BY <1>1, <1>4 DEF Writes
<1>7. UnseenIsMissing'
  <2> SUFFICES ASSUME NEW j \in Workers, NEW r \in Rows,
                      Writes(j, r)', r \notin worker'[j].seen, r[2] \notin worker'[j].over
               PROVE  row'[r].app = 0
    BY DEF UnseenIsMissing
  <2>1. CASE j = k
    <3>1. r \notin Present
      BY <1>5, <2>1 DEF Writes, Of
    <3> QED
      BY <1>0, <1>1, <3>1 DEF Present, RowType
  <2>2. CASE j # k
    BY <1>1, <1>4, <2>2 DEF Current, UnseenIsMissing, Writes
  <2> QED
    BY <2>1, <2>2
<1>8. SnapCurrentUnlessMissed'
  <2> SUFFICES ASSUME NEW j \in Workers, NEW r \in Rows,
                      Writes(j, r)', worker'[j].snap[r] # Recount(r)'
               PROVE  \/ r[2] \in Announced' \union missed' \union worker'[j].over
                      \/ \E l \in Workers : Writes(l, r)' /\ worker'[l].snap[r] = Recount(r)'
    BY DEF SnapCurrentUnlessMissed
  <2>1. CASE r[2] \in worker[k].ids
    <3>1. Writes(k, r)' /\ worker'[k].snap[r] = Recount(r)'
      BY <1>2, <1>5, <2>1 DEF Writes
    <3> QED
      BY <3>1
  <2>2. CASE r[2] \notin worker[k].ids
    <3>1. j # k
      BY <1>5, <2>2 DEF Writes
    <3>2. Writes(j, r) /\ worker'[j] = worker[j] /\ worker[j].snap[r] # Recount(r)
      BY <1>2, <1>4, <3>1 DEF Writes
    <3>3. \/ r[2] \in Announced \union missed \union worker[j].over
          \/ \E l \in Workers : Writes(l, r) /\ worker[l].snap[r] = Recount(r)
      BY <3>2 DEF Current, SnapCurrentUnlessMissed
    <3> QED
      BY <1>1, <1>2, <1>3, <1>6, <2>2, <3>2, <3>3
  <2> QED
    BY <2>1, <2>2
<1>9. CountsCurrentUnlessMissed'
  <2> SUFFICES ASSUME NEW r \in Rows, RowCount(r)' # Recount(r)'
               PROVE  r[2] \in Announced' \union Writing' \union missed'
    BY DEF CountsCurrentUnlessMissed
  <2>1. r[2] \in Announced \union Writing \union missed
    BY <1>2 DEF Current, CountsCurrentUnlessMissed
  <2>2. Writing \subseteq Writing' /\ worker[k].ids \subseteq Writing'
    BY <1>1, <1>4, <1>5, AnnouncedIs
  <2> QED
    BY <1>1, <1>3, <2>1, <2>2
<1> QED
  BY <1>7, <1>8, <1>9 DEF Current

\* A batch that was not overtaken writes its snapshot; one that was leaves its advisories to
\* another recount or counts them as missed.
LEMMA WriteCurrent ==
    ASSUME TypeInv, Current, NEW k \in Workers, RefreshWrite(k)
    PROVE  Current'
<1>0. worker \in [Workers -> Batch] /\ RowType /\ SnapShape
  BY TypeParts DEF WorkerType
<1>1. /\ UNCHANGED <<status, place, stale>> /\ missed' = missed \union (worker[k].over \ Announced)
      /\ worker[k].pc = "write"
      /\ row' = [r \in Rows |-> IF r[2] \in worker[k].ids THEN Refreshed(k, r) ELSE row[r]]
  BY Zenon DEF RefreshWrite, inputs
<1>2. \A r \in Rows : Recount(r)' = Recount(r)
  BY <1>1 DEF Recount, Counted
<1>3. Announced \subseteq Announced'
  BY BatchAnnounced DEF BatchStep
<1>4. ASSUME NEW j \in Workers, j # k
      PROVE  /\ worker'[j].pc = worker[j].pc /\ worker'[j].ids = worker[j].ids
             /\ worker'[j].snap = worker[j].snap /\ worker'[j].seen = worker[j].seen
             /\ worker[j].pc = "write" => worker'[j].over =
                  worker[j].over \union (worker[j].ids \intersect worker[k].ids)
  <2>1. worker \in [Workers -> Batch]
    BY <1>0
  <2> QED
    BY <1>4, <2>1, Written
<1>5. worker'[k].pc # "write"
  <2>1. worker'[k] = Idle \/ worker'[k].pc = "notify"
    BY <1>0, Written, Zenon
  <2> QED
    BY <2>1 DEF Idle
<1>6. \A j \in Workers, r \in Rows : Writes(j, r)' <=> j # k /\ Writes(j, r)
  BY <1>4, <1>5 DEF Writes
<1>7. \A r \in Rows : r[2] \notin worker[k].ids => row'[r] = row[r]
  BY <1>1
\* The row has the counts of the snapshot, unless another batch wrote it in between.
<1>8. ASSUME NEW r \in Rows, r[2] \in worker[k].ids, r[2] \notin worker[k].over
      PROVE  RowCount(r)' = worker[k].snap[r]
  <2>1. /\ worker[k].snap[r] \in Count /\ worker[k].snap[r].inst <= worker[k].snap[r].app
        /\ row[r] \in [inst : Nat, app : Nat, notified : BOOLEAN] /\ row[r].inst <= row[r].app
    BY <1>0 DEF Batch, SnapShape, RowType
  <2>2. row'[r] = Refreshed(k, r)
    BY <1>1, <1>8
  <2>3. Refreshed(k, r).inst = worker[k].snap[r].inst /\ Refreshed(k, r).app = worker[k].snap[r].app
    <3>1. CASE worker[k].snap[r].app > 0
      BY <3>1 DEF Refreshed
    <3>2. CASE ~(worker[k].snap[r].app > 0)
      <4>1. worker[k].snap[r].app = 0 /\ worker[k].snap[r].inst = 0
        BY <2>1, <3>2 DEF Count
      <4>2. CASE r \in worker[k].seen
        BY <4>1, <4>2 DEF Refreshed
      <4>3. CASE r \notin worker[k].seen
        <5>1. row[r].app = 0
          BY <1>1, <1>8, <4>3 DEF Current, UnseenIsMissing, Writes
        <5>2. row[r].inst = 0
          BY <2>1, <5>1
        <5> QED
          BY <3>2, <4>1, <4>3, <5>1, <5>2 DEF Refreshed
      <4> QED
        BY <4>2, <4>3
    <3> QED
      BY <3>1, <3>2
  <2>4. worker[k].snap[r] = [inst |-> worker[k].snap[r].inst, app |-> worker[k].snap[r].app]
    BY <2>1 DEF Count
  <2> QED
    BY <2>2, <2>3, <2>4 DEF RowCount
<1>9. UnseenIsMissing'
  <2> SUFFICES ASSUME NEW j \in Workers, NEW r \in Rows,
                      Writes(j, r)', r \notin worker'[j].seen, r[2] \notin worker'[j].over
               PROVE  row'[r].app = 0
    BY DEF UnseenIsMissing
  <2>1. j # k /\ Writes(j, r)
    BY <1>6
  <2>2. r[2] \notin worker[k].ids /\ r[2] \notin worker[j].over /\ r \notin worker[j].seen
    BY <1>4, <2>1 DEF Writes
  <2> QED
    BY <1>7, <2>1, <2>2 DEF Current, UnseenIsMissing
<1>10. SnapCurrentUnlessMissed'
  <2> SUFFICES ASSUME NEW j \in Workers, NEW r \in Rows,
                      Writes(j, r)', worker'[j].snap[r] # Recount(r)'
               PROVE  \/ r[2] \in Announced' \union missed' \union worker'[j].over
                      \/ \E l \in Workers : Writes(l, r)' /\ worker'[l].snap[r] = Recount(r)'
    BY DEF SnapCurrentUnlessMissed
  <2>1. j # k /\ Writes(j, r) /\ worker[j].snap[r] # Recount(r)
    BY <1>2, <1>4, <1>6
  <2>2. /\ worker[j].over \subseteq worker'[j].over
        /\ r[2] \in worker[k].ids => r[2] \in worker'[j].over
    BY <1>4, <2>1 DEF Writes
  <2>3. CASE r[2] \in Announced \union missed \union worker[j].over
    BY <1>1, <1>3, <2>2, <2>3
  <2>4. CASE \E l \in Workers : Writes(l, r) /\ worker[l].snap[r] = Recount(r)
    <3> PICK l \in Workers : Writes(l, r) /\ worker[l].snap[r] = Recount(r)
      BY <2>4
    <3>1. CASE l = k
      BY <2>2, <3>1 DEF Writes
    <3>2. CASE l # k
      BY <1>2, <1>4, <1>6, <3>2
    <3> QED
      BY <3>1, <3>2
  <2> QED
    BY <2>1, <2>3, <2>4 DEF Current, SnapCurrentUnlessMissed
<1>11. CountsCurrentUnlessMissed'
  <2> SUFFICES ASSUME NEW r \in Rows, RowCount(r)' # Recount(r)'
               PROVE  r[2] \in Announced' \union Writing' \union missed'
    BY DEF CountsCurrentUnlessMissed
  <2>0. \A l \in Workers : l # k /\ Writes(l, r) => r[2] \in Writing'
    BY <1>4, AnnouncedIs DEF Writes
  <2>1. CASE r[2] \notin worker[k].ids
    <3>1. RowCount(r) # Recount(r)
      BY <1>2, <1>7, <2>1 DEF RowCount
    <3>2. r[2] \in Announced \union Writing \union missed
      BY <3>1 DEF Current, CountsCurrentUnlessMissed
    <3>3. CASE r[2] \in Writing
      BY <2>0, <2>1, <3>3, AnnouncedIs DEF Writes
    <3> QED
      BY <1>1, <1>3, <3>2, <3>3
  <2>2. CASE r[2] \in worker[k].over
    BY <1>1, <1>3, <2>2
  <2>3. CASE r[2] \in worker[k].ids /\ r[2] \notin worker[k].over
    <3>1. Writes(k, r) /\ worker[k].snap[r] # Recount(r)
      BY <1>1, <1>2, <1>8, <2>3 DEF Writes
    <3>2. \/ r[2] \in Announced \union missed
          \/ \E l \in Workers : Writes(l, r) /\ worker[l].snap[r] = Recount(r)
      BY <2>3, <3>1 DEF Current, SnapCurrentUnlessMissed
    <3> QED
      BY <1>1, <1>3, <2>0, <3>1, <3>2
  <2> QED
    BY <2>1, <2>2, <2>3
<1> QED
  BY <1>9, <1>10, <1>11 DEF Current

\* Every step preserves the invariant.
LEMMA NextCurrent == CurrentInv /\ [Next]_vars => CurrentInv'
<1> SUFFICES ASSUME CurrentInv, [Next]_vars
             PROVE  CurrentInv'
  OBVIOUS
<1>0. TypeInv /\ Current /\ TypeInv'
  BY NextType DEF CurrentInv
<1>1. ASSUME UNCHANGED vars
      PROVE  Current'
  <2>1. Recounting' = Recounting /\ Writing' = Writing /\ Unread' = Unread
    BY <1>1 DEF vars, Recounting, Writing, Unread
  <2>2. Announced' = Announced
    BY <1>1, <2>1 DEF vars, Announced
  <2>3. \A r \in Rows : Recount(r)' = Recount(r)
    BY <1>1 DEF vars, Recount, Counted
  <2> QED
    BY <1>0, <1>1, <2>2, <2>3, CurrentKept DEF vars
<1>2. ASSUME NEW k \in Workers, BatchStep(k) \/ RefreshFails(k) \/ NotifyFails(k)
      PROVE  Current'
  BY <1>0, <1>2, ReadCurrent, WriteCurrent, NotifyCurrent, Zenon DEF BatchStep
<1>3. Current'
  BY <1>0, <1>1, <1>2, InputsCurrent, FlushCurrent, CrashCurrent, Zenon DEF Next
<1> QED
  BY <1>0, <1>3 DEF CurrentInv

\* The counts of account_advisory are those of a recount, or a recount of the advisory is
\* on its way, unless a step that is known to lose one was involved: whatever number of
\* goroutines run refresh_account_advisory_caches_multi at the same time, two recounts
\* that overlap are the only way in which they spoil each other's counts.
THEOREM CountsCurrent == Spec => []CountsCurrentUnlessMissed
<1>1. Init => CurrentInv
  <2> SUFFICES ASSUME Init
               PROVE  CurrentInv
    OBVIOUS
  <2>1. TypeInv
    BY InitType
  <2>2. UnseenIsMissing /\ SnapCurrentUnlessMissed
    BY DEF Init, Idle, UnseenIsMissing, SnapCurrentUnlessMissed, Writes
  <2>3. ASSUME NEW r \in Rows
        PROVE  RowCount(r) = Recount(r)
    <3>1. \A s \in Systems : status[s][r[2]] = "none"
      BY RowAdvisory DEF Init, Nothing
    <3>2. /\ {s \in Systems : Counted(s, r) /\ status[s][r[2]] = "installable"} = {}
          /\ {s \in Systems : Counted(s, r) /\ status[s][r[2]] # "none"} = {}
      BY <3>1
    <3>3. Recount(r) = [inst |-> 0, app |-> 0]
      BY <3>2, FS_EmptySet DEF Recount
    <3> QED
      BY <3>3 DEF Init, RowCount
  <2> QED
    BY <2>1, <2>2, <2>3 DEF CurrentInv, Current, CountsCurrentUnlessMissed
<1>2. CurrentInv => CountsCurrentUnlessMissed
  BY DEF CurrentInv, Current
<1> QED
  BY <1>1, <1>2, NextCurrent, PTL DEF Spec

=============================================================================
