---------------------------- MODULE ListenerProofs ----------------------------
(***************************************************************************)
(* Theorems about the process of the listener.  About HostLifecycle, for   *)
(* any number of hosts and readers, any leases, threshold and limit: type  *)
(* correctness, and that a host whose delete event was handled stays gone  *)
(* or due for culling.  About MQueueReader, from which it reads its        *)
(* events, for any number of partitions, consumers, messages, retries and  *)
(* faults: an offset is never committed past a message whose handler has   *)
(* not returned, and the consumers implement AtLeastOnce.                  *)
(***************************************************************************)
EXTENDS HostLifecycle, MQueueReader, TLAPS

-----------------------------------------------------------------------------
(* HostLifecycle *)

\* No upload is past its check of deleted_system while its host is to be ignored,
\* unless the delete event found it there: the check comes before the record, or the
\* record sets excused.
CheckedIsExcused ==
    \A h \in Hosts, l \in Readers :
        RecentlyDeleted(h) /\ ~excused[h] => ~(rd[l].pc = "checked" /\ rd[l].h = h)

\* The inductive invariant.
DoomedInv == TypeOK /\ CheckedIsExcused /\ DeletedIsDoomed

-----------------------------------------------------------------------------
(* Types *)

\* An idle reader, an idle job and a missing row have their types.
LEMMA Defaults == NoEvent \in Event /\ NoJob \in Job /\ NoRow \in Row
<1>1. (CHOOSE h \in Hosts : TRUE) \in Hosts
  BY LifecycleAssumption
<1> QED
  BY <1>1 DEF NoEvent, Event, NoJob, Job, NoRow, Row

\* The initial state has its type.
LEMMA InitType == Init => TypeOK
BY Defaults DEF Init, TypeOK

\* The steps of the listener's readers preserve the type invariant.
LEMMA ReaderType ==
    ASSUME TypeOK, NEW l \in Readers,
           \/ \E h \in Hosts, lease \in Leases : UploadCheck(l, h, lease)
           \/ \E h \in Hosts : UploadIgnored(l, h) \/ DeleteRecord(l, h)
           \/ ReaderStep(l) \/ EventFail(l)
    PROVE  TypeOK'
<1>1. CASE \E h \in Hosts, lease \in Leases : UploadCheck(l, h, lease)
  <2> PICK h \in Hosts, lease \in Leases : UploadCheck(l, h, lease)
    BY <1>1
  <2> DEFINE new == [pc |-> "checked", h |-> h, warn |-> clock + lease.warn,
                     culled |-> clock + lease.cull]
  <2>1. lease.warn \in Nat /\ lease.cull \in Nat
    BY LifecycleAssumption
  <2>2. new \in Event
    BY <2>1 DEF TypeOK, Event
  <2>3. rd' = [rd EXCEPT ![l] = new]
    BY DEF UploadCheck
  <2> HIDE DEF new
  <2>4. rd' \in [Readers -> Event]
    BY <2>2, <2>3 DEF TypeOK
  <2> QED
    BY <2>4 DEF UploadCheck, Receive, TypeOK
<1>2. CASE \E h \in Hosts : UploadIgnored(l, h)
  BY <1>2 DEF UploadIgnored, Receive, TypeOK
<1>3. CASE \E h \in Hosts : DeleteRecord(l, h)
  <2> PICK h \in Hosts : DeleteRecord(l, h)
    BY <1>3
  <2> DEFINE new == [NoEvent EXCEPT !.pc = "recorded", !.h = h]
  <2>1. new \in Event
    BY Defaults DEF Event
  <2>2. rd' = [rd EXCEPT ![l] = new]
    BY DEF DeleteRecord
  <2> HIDE DEF new
  <2>3. rd' \in [Readers -> Event]
    BY <2>1, <2>2 DEF TypeOK
  <2>4. deleted' \in [Hosts -> Nat]
    BY DEF DeleteRecord, TypeOK
  <2> DEFINE met == \E k \in Readers : rd[k].pc = "checked" /\ rd[k].h = h
  <2>a. excused' = [excused EXCEPT ![h] = met] /\ met \in BOOLEAN
    BY DEF DeleteRecord
  <2> HIDE DEF met
  <2>5. excused' \in [Hosts -> BOOLEAN]
    BY <2>a DEF TypeOK
  <2>6. events' = events + 1 /\ UNCHANGED <<clock, row, nextId, job, faults>>
    BY Zenon DEF DeleteRecord, Receive
  <2> QED
    BY <2>3, <2>4, <2>5, <2>6 DEF TypeOK
<1>4. CASE UploadCommit(l)
  <2> DEFINE u == rd[l]
             r == row[u.h]
             new == [id |-> IF r.id = 0 THEN nextId ELSE r.id, warn |-> u.warn,
                     culled |-> u.culled, stale |-> IF r.id = 0 THEN FALSE ELSE r.stale]
  <2>1. u \in Event /\ r \in Row
    BY DEF TypeOK, Event
  <2>2. new \in Row
    BY <2>1 DEF TypeOK, Event, Row
  <2>3. row' = [row EXCEPT ![u.h] = new]
    BY <1>4 DEF UploadCommit
  <2> HIDE DEF new
  <2>4. row' \in [Hosts -> Row]
    BY <2>2, <2>3 DEF TypeOK
  <2>5. nextId' \in Nat \ {0}
    BY <1>4 DEF UploadCommit, TypeOK
  <2> QED
    BY <1>4, <2>4, <2>5, Defaults DEF UploadCommit, TypeOK
<1>5. CASE DeleteMark(l)
  <2>1. rd[l].h \in Hosts
    BY DEF TypeOK, Event
  <2>2. row' \in [Hosts -> Row]
    BY <1>5, <2>1 DEF DeleteMark, TypeOK, Row
  <2> QED
    BY <1>5, <2>2, Defaults DEF DeleteMark, TypeOK
<1>6. CASE EventFail(l)
  BY <1>6, Defaults DEF EventFail, TypeOK, Event
<1> QED
  BY <1>1, <1>2, <1>3, <1>4, <1>5, <1>6 DEF ReaderStep

\* The clock and the steps of the culling job preserve it.
LEMMA JobType ==
    ASSUME TypeOK, Tick \/ JobStep \/ CandidateFail \/ JobAbort
    PROVE  TypeOK'
<1>1. CASE Tick
  BY <1>1 DEF Tick, TypeOK
<1>2. CASE CullBegin
  <2>1. job' \in Job
    BY <1>2 DEF CullBegin, Job, NoJob, FirstById
  <2> QED
    BY <1>2, <2>1 DEF CullBegin, TypeOK
<1>3. CASE MarkBegin
  <2> DEFINE mark == {[id |-> row[h].id, expired |-> row[h].warn < clock] :
                         h \in FirstById({g \in Hosts : Mismarked(g)})}
  <2>1. \A h \in Hosts : [id |-> row[h].id, expired |-> row[h].warn < clock] \in Mark
    BY DEF TypeOK, Row, Mark
  <2>2. mark \subseteq Mark
    BY <2>1 DEF FirstById
  <2>3. job' = [job EXCEPT !.pc = "stale", !.mark = mark]
    BY <1>3 DEF MarkBegin
  <2> HIDE DEF mark
  <2>4. job' \in Job
    BY <2>2, <2>3 DEF TypeOK, Job
  <2> QED
    BY <1>3, <2>4 DEF MarkBegin, TypeOK
<1>4. CASE Prune
  <2>1. deleted' \in [Hosts -> Nat]
    BY <1>4 DEF Prune, TypeOK
  <2> QED
    BY <1>4, <2>1, Defaults DEF Prune, TypeOK
<1>5. CASE \E h \in Hosts : CullDelete(h)
  BY <1>5, Defaults DEF CullDelete, TypeOK, Job
<1>6. CASE \E c \in job.mark : MarkStale(c)
  <2> PICK c \in job.mark : MarkStale(c)
    BY <1>6
  <2>1. c \in Mark
    BY DEF TypeOK, Job
  <2>2. \A h \in Hosts : [row[h] EXCEPT !.stale = c.expired] \in Row
    BY <2>1 DEF TypeOK, Row, Mark
  <2>3. row' \in [Hosts -> Row]
    BY <2>2 DEF MarkStale, TypeOK
  <2>4. job' \in Job
    BY DEF MarkStale, TypeOK, Job
  <2> QED
    BY <2>3, <2>4 DEF MarkStale, TypeOK
<1>7. CASE CandidateFail
  BY <1>7 DEF CandidateFail, TypeOK, Job
<1>8. CASE JobAbort
  BY <1>8, Defaults DEF JobAbort, TypeOK
<1> QED
  BY <1>1, <1>2, <1>3, <1>4, <1>5, <1>6, <1>7, <1>8 DEF JobStep

\* Every step preserves the type invariant.
LEMMA NextType == TypeOK /\ [Next]_vars => TypeOK'
<1> SUFFICES ASSUME TypeOK, [Next]_vars PROVE TypeOK'
  OBVIOUS
<1>1. CASE UNCHANGED vars
  BY <1>1 DEF vars, TypeOK
<1>2. CASE Next
  BY <1>2, ReaderType, JobType DEF Next
<1> QED
  BY <1>1, <1>2

\* HostLifecycle keeps its types: in particular timestamps and ids stay natural numbers
\* whatever leases inventory sends.
THEOREM TypeCorrect == Spec => []TypeOK
BY InitType, NextType, PTL DEF Spec

-----------------------------------------------------------------------------
(* A deleted host is doomed *)

\* A step that leaves rows, deleted_system, the readers and excused alone, and does not
\* turn the clock back, keeps the two conjuncts about deleted hosts.
LEMMA QuietKeeps ==
    ASSUME TypeOK, CheckedIsExcused, DeletedIsDoomed,
           clock' \in Nat, clock' >= clock,
           \A h \in Hosts : row'[h].id = 0 \/ (row'[h].id = row[h].id /\ row'[h].culled = row[h].culled),
           \A h \in Hosts : deleted'[h] \in {0, deleted[h]},
           UNCHANGED <<rd, excused>>
    PROVE  CheckedIsExcused' /\ DeletedIsDoomed'
<1>1. \A h \in Hosts : RecentlyDeleted(h)' => RecentlyDeleted(h)
  BY LifecycleAssumption DEF RecentlyDeleted, TypeOK
<1>2. CheckedIsExcused'
  BY <1>1 DEF CheckedIsExcused
<1>3. \A h \in Hosts : row[h].culled \in Nat
  BY DEF TypeOK, Row
<1>4. DeletedIsDoomed'
  BY <1>1, <1>3 DEF DeletedIsDoomed, TypeOK
<1> QED
  BY <1>2, <1>4

\* The clock, ignored uploads and the job: rows only disappear or change their flag.
LEMMA JobDoomed ==
    ASSUME DoomedInv,
           \/ Tick \/ JobStep \/ CandidateFail \/ JobAbort
           \/ \E l \in Readers, h \in Hosts : UploadIgnored(l, h)
    PROVE  CheckedIsExcused' /\ DeletedIsDoomed'
<1> USE DEF DoomedInv
<1>1. CASE Tick
  BY <1>1, QuietKeeps DEF Tick, TypeOK
<1>2. CASE CullBegin \/ MarkBegin \/ CandidateFail \/ JobAbort
            \/ \E l \in Readers, h \in Hosts : UploadIgnored(l, h)
  BY <1>2, QuietKeeps DEF CullBegin, MarkBegin, CandidateFail, JobAbort, UploadIgnored, TypeOK
<1>3. CASE Prune
  <2>1. \A h \in Hosts : deleted'[h] \in {0, deleted[h]}
    BY <1>3 DEF Prune
  <2> QED
    BY <1>3, <2>1, QuietKeeps DEF Prune, TypeOK
<1>4. CASE \E h \in Hosts : CullDelete(h)
  <2>1. \A h \in Hosts : row'[h] \in {NoRow, row[h]}
    BY <1>4 DEF CullDelete, TypeOK
  <2>2. \A h \in Hosts : row'[h].id = 0 \/ row'[h] = row[h]
    BY <2>1 DEF NoRow
  <2> QED
    BY <1>4, <2>2, QuietKeeps DEF CullDelete, TypeOK
<1>5. CASE \E c \in job.mark : MarkStale(c)
  <2>1. \A h \in Hosts : row'[h].id = row[h].id /\ row'[h].culled = row[h].culled
    BY <1>5 DEF MarkStale, TypeOK, Row
  <2> QED
    BY <1>5, <2>1, QuietKeeps DEF MarkStale, TypeOK
<1> QED
  BY <1>1, <1>2, <1>3, <1>4, <1>5 DEF JobStep

\* The readers.  A commit of an upload finds its host excused or not deleted recently.
LEMMA ReaderDoomed ==
    ASSUME DoomedInv, NEW l \in Readers,
           \/ \E h \in Hosts, lease \in Leases : UploadCheck(l, h, lease)
           \/ \E h \in Hosts : DeleteRecord(l, h)
           \/ ReaderStep(l) \/ EventFail(l)
    PROVE  CheckedIsExcused' /\ DeletedIsDoomed'
<1> USE DEF DoomedInv
<1>e. NoEvent.pc = "idle" /\ rd[l].h \in Hosts
  BY DEF NoEvent, TypeOK, Event
<1>1. CASE \E h \in Hosts, lease \in Leases : UploadCheck(l, h, lease)
  <2> PICK h \in Hosts, lease \in Leases : UploadCheck(l, h, lease)
    BY <1>1
  <2>1. /\ rd'[l].pc = "checked" /\ rd'[l].h = h
        /\ \A k \in Readers \ {l} : rd'[k] = rd[k]
        /\ rd[l].pc = "idle" /\ ~RecentlyDeleted(h)
    BY DEF UploadCheck, TypeOK
  <2>2. \A g \in Hosts : RecentlyDeleted(g)' = RecentlyDeleted(g)
    BY DEF UploadCheck, RecentlyDeleted
  <2>3. CheckedIsExcused'
    BY <2>1, <2>2 DEF CheckedIsExcused, UploadCheck
  <2>4. DeletedIsDoomed'
    BY <2>1, <2>2 DEF DeletedIsDoomed, UploadCheck
  <2> QED
    BY <2>3, <2>4
<1>2. CASE \E h \in Hosts : DeleteRecord(l, h)
  <2> PICK h \in Hosts : DeleteRecord(l, h)
    BY <1>2
  <2>1. /\ rd'[l].pc = "recorded" /\ rd'[l].h = h
        /\ \A k \in Readers \ {l} : rd'[k] = rd[k]
        /\ rd[l].pc = "idle"
    BY DEF DeleteRecord, TypeOK, NoEvent
  <2>2. \A g \in Hosts \ {h} : RecentlyDeleted(g)' = RecentlyDeleted(g) /\ excused'[g] = excused[g]
    BY DEF DeleteRecord, RecentlyDeleted, TypeOK
  <2>3. ~excused'[h] => \A k \in Readers : ~(rd[k].pc = "checked" /\ rd[k].h = h)
    BY DEF DeleteRecord, TypeOK
  <2>4. CheckedIsExcused'
    BY <2>1, <2>2, <2>3 DEF CheckedIsExcused
  <2>5. DeletedIsDoomed'
    BY <2>1, <2>2 DEF DeletedIsDoomed, DeleteRecord
  <2> QED
    BY <2>4, <2>5
<1>3. CASE UploadCommit(l)
  <2> DEFINE h == rd[l].h
  <2>1. /\ rd'[l].pc = "idle" /\ rd[l].pc = "checked"
        /\ \A k \in Readers \ {l} : rd'[k] = rd[k]
        /\ \A g \in Hosts \ {h} : row'[g] = row[g]
    BY <1>3, <1>e DEF UploadCommit, TypeOK
  <2>2. \A g \in Hosts : RecentlyDeleted(g)' = RecentlyDeleted(g)
    BY <1>3 DEF UploadCommit, RecentlyDeleted
  <2>3. ~RecentlyDeleted(h) \/ excused[h]
    BY <2>1, <1>e DEF CheckedIsExcused
  <2>4. CheckedIsExcused'
    BY <1>3, <2>1, <2>2 DEF CheckedIsExcused, UploadCommit
  <2>5. DeletedIsDoomed'
    BY <1>3, <2>1, <2>2, <2>3 DEF DeletedIsDoomed, UploadCommit
  <2> QED
    BY <2>4, <2>5
<1>4. CASE DeleteMark(l)
  <2> DEFINE h == rd[l].h
  <2>1. /\ rd'[l].pc = "idle" /\ rd[l].pc = "recorded"
        /\ \A k \in Readers \ {l} : rd'[k] = rd[k]
        /\ \A g \in Hosts \ {h} : row'[g] = row[g]
    BY <1>4, <1>e DEF DeleteMark, TypeOK
  <2>2. \A g \in Hosts : RecentlyDeleted(g)' = RecentlyDeleted(g)
    BY <1>4 DEF DeleteMark, RecentlyDeleted
  <2>3. row'[h].id = 0 \/ row'[h].culled = clock
    BY <1>4, <1>e DEF DeleteMark, TypeOK, Row
  <2>4. CheckedIsExcused'
    BY <1>4, <2>1, <2>2 DEF CheckedIsExcused, DeleteMark
  <2>5. DeletedIsDoomed'
    BY <1>4, <2>1, <2>2, <2>3 DEF DeletedIsDoomed, DeleteMark, TypeOK
  <2> QED
    BY <2>4, <2>5
<1>5. CASE EventFail(l)
  <2> DEFINE h == rd[l].h
  <2>1. /\ rd'[l].pc = "idle"
        /\ \A k \in Readers \ {l} : rd'[k] = rd[k]
        /\ \A g \in Hosts : excused[g] => excused'[g]
        /\ rd[l].pc = "recorded" => excused'[h]
    BY <1>5, <1>e DEF EventFail, TypeOK
  <2>2. \A g \in Hosts : RecentlyDeleted(g)' = RecentlyDeleted(g)
    BY <1>5 DEF EventFail, RecentlyDeleted
  <2>4. CheckedIsExcused'
    BY <1>5, <2>1, <2>2 DEF CheckedIsExcused, EventFail
  <2>5. DeletedIsDoomed'
    BY <1>5, <2>1, <2>2 DEF DeletedIsDoomed, EventFail
  <2> QED
    BY <2>4, <2>5
<1> QED
  BY <1>1, <1>2, <1>3, <1>4, <1>5 DEF ReaderStep

\* DoomedInv is inductive.
LEMMA NextDoomed == DoomedInv /\ [Next]_vars => DoomedInv'
<1> SUFFICES ASSUME DoomedInv, [Next]_vars PROVE DoomedInv'
  OBVIOUS
<1>1. TypeOK'
  BY NextType DEF DoomedInv
<1>2. CASE UNCHANGED vars
  BY <1>2, <1>1 DEF vars, DoomedInv, CheckedIsExcused, DeletedIsDoomed, RecentlyDeleted
<1>3. CASE Next
  <2>1. CheckedIsExcused' /\ DeletedIsDoomed'
    BY <1>3, JobDoomed, ReaderDoomed DEF Next
  <2> QED
    BY <1>1, <2>1 DEF DoomedInv
<1> QED
  BY <1>2, <1>3

\* A host whose delete event was handled is gone or due for culling for as long as its
\* uploads are ignored (HandleDelete, processUpload, deleteCulledSystems), unless the
\* event failed half-way or met an upload past its check.
THEOREM DeletionHolds == Spec => []DeletedIsDoomed
<1>1. Init => DoomedInv
  <2> SUFFICES ASSUME Init PROVE DoomedInv
    OBVIOUS
  <2>1. \A h \in Hosts : ~RecentlyDeleted(h)
    BY DEF Init, RecentlyDeleted
  <2> QED
    BY <2>1, InitType DEF DoomedInv, CheckedIsExcused, DeletedIsDoomed
<1>2. DoomedInv => DeletedIsDoomed
  BY DEF DoomedInv
<1> QED
  BY <1>1, <1>2, NextDoomed, PTL DEF Spec

-----------------------------------------------------------------------------
(* MQueueReader *)

USE ReaderAssumption

\* The inductive invariant: the types rest on the order of the messages as well, a busy
\* reader holds a message of the topic.
DeliveryInv == ConsumerTypeOK /\ NothingSkipped

-----------------------------------------------------------------------------
(* Restart and Fetching, shared by several actions *)

\* The idle value of cur is one.
LEMMA FetchingType == Fetching \in Current /\ Fetching.pc = "fetch"
  BY DEF Fetching, Current

\* A reader that starts over at the committed offsets keeps the invariant.
LEMMA RestartStep ==
  ASSUME DeliveryInv, NEW r \in Consumers, Restart(r), consumerFaults' \in Nat
  PROVE  DeliveryInv'
<1> USE DEF DeliveryInv, Restart, ConsumerTypeOK, NothingSkipped
<1>1. ConsumerTypeOK'
  BY FetchingType
<1>2. BusyInOrder'
  <2> SUFFICES ASSUME NEW q \in Consumers, cur'[q].pc # "fetch"
      PROVE  (/\ cur[q].o < Len /\ HandledUpTo(cur[q].p, cur[q].o)
              /\ cur[q].pc = "commit" => <<cur[q].p, cur[q].o>> \in handled)'
    BY DEF BusyInOrder
  <2>1. cur'[q] = cur[q] /\ q # r
    BY FetchingType
  <2> QED  BY <2>1 DEF BusyInOrder, HandledUpTo
<1>3. FetchedIsHandled'
  <2> SUFFICES ASSUME NEW p \in Partitions
      PROVE  (\/ HandledUpTo(p, pos[p])
              \/ /\ cur[owner[p]].pc = "handle" /\ cur[owner[p]].p = p
                 /\ pos[p] = cur[owner[p]].o + 1)'
    BY DEF FetchedIsHandled
  <2>1. CASE owner[p] = r
    BY <2>1 DEF CommittedIsHandled, HandledUpTo
  <2>2. CASE owner[p] # r
    BY <2>2 DEF FetchedIsHandled, HandledUpTo
  <2> QED  BY <2>1, <2>2
<1>4. CommittedIsHandled'
  BY DEF CommittedIsHandled, HandledUpTo
<1> QED  BY <1>1, <1>2, <1>3, <1>4

-----------------------------------------------------------------------------
(* The steps of a reader *)

\* A reader fetches only after it has handled what it fetched before, so the message it
\* takes has only handled ones before it.
LEMMA FetchStep ==
  ASSUME DeliveryInv, NEW r \in Consumers, NEW p \in Partitions, Fetch(r, p)
  PROVE  DeliveryInv'
<1> USE DEF DeliveryInv, Fetch, ConsumerTypeOK, NothingSkipped
<1>1. ConsumerTypeOK'
  BY DEF Current
<1>2. HandledUpTo(p, pos[p])
  BY DEF FetchedIsHandled
<1>3. BusyInOrder'
  <2> SUFFICES ASSUME NEW q \in Consumers, cur'[q].pc # "fetch"
      PROVE  (/\ cur[q].o < Len /\ HandledUpTo(cur[q].p, cur[q].o)
              /\ cur[q].pc = "commit" => <<cur[q].p, cur[q].o>> \in handled)'
    BY DEF BusyInOrder
  <2>1. CASE q = r
    BY <1>2, <2>1 DEF HandledUpTo
  <2>2. CASE q # r
    BY <2>2 DEF BusyInOrder, HandledUpTo
  <2> QED  BY <2>1, <2>2
<1>4. FetchedIsHandled'
  <2> SUFFICES ASSUME NEW s \in Partitions
      PROVE  (\/ HandledUpTo(s, pos[s])
              \/ /\ cur[owner[s]].pc = "handle" /\ cur[owner[s]].p = s
                 /\ pos[s] = cur[owner[s]].o + 1)'
    BY DEF FetchedIsHandled
  <2>1. CASE s = p
    BY <2>1
  <2>2. CASE s # p /\ owner[s] = r
    BY <2>2 DEF FetchedIsHandled, HandledUpTo
  <2>3. CASE s # p /\ owner[s] # r
    BY <2>3 DEF FetchedIsHandled, HandledUpTo
  <2> QED  BY <2>1, <2>2, <2>3
<1>5. CommittedIsHandled'
  BY DEF CommittedIsHandled, HandledUpTo
<1> QED  BY <1>1, <1>3, <1>4, <1>5

\* The handler's return adds the message that was missing before the next fetch.
LEMMA ReturnStep ==
  ASSUME DeliveryInv, NEW r \in Consumers, HandlerReturns(r)
  PROVE  DeliveryInv'
<1> USE DEF DeliveryInv, HandlerReturns, ConsumerTypeOK, NothingSkipped
<1>1. cur[r].o \in Nat /\ cur[r].o < Len /\ cur[r].p \in Partitions
      /\ HandledUpTo(cur[r].p, cur[r].o)
  BY DEF BusyInOrder, Current
<1>2. cur' \in [Consumers -> Current] /\ cur'[r].pc = "commit"
      /\ cur'[r].p = cur[r].p /\ cur'[r].o = cur[r].o
      /\ \A q \in Consumers : q # r => cur'[q] = cur[q]
  BY DEF Current
<1>3. ConsumerTypeOK'
  BY <1>1, <1>2 DEF Messages
<1>4. BusyInOrder'
  <2> SUFFICES ASSUME NEW q \in Consumers, cur'[q].pc # "fetch"
      PROVE  (/\ cur[q].o < Len /\ HandledUpTo(cur[q].p, cur[q].o)
              /\ cur[q].pc = "commit" => <<cur[q].p, cur[q].o>> \in handled)'
    BY DEF BusyInOrder
  <2>1. CASE q = r
    BY <1>1, <1>2, <2>1 DEF HandledUpTo
  <2>2. CASE q # r
    BY <1>2, <2>2 DEF BusyInOrder, HandledUpTo
  <2> QED  BY <2>1, <2>2
<1>5. FetchedIsHandled'
  <2> SUFFICES ASSUME NEW s \in Partitions
      PROVE  (\/ HandledUpTo(s, pos[s])
              \/ /\ cur[owner[s]].pc = "handle" /\ cur[owner[s]].p = s
                 /\ pos[s] = cur[owner[s]].o + 1)'
    BY DEF FetchedIsHandled
  <2>1. CASE HandledUpTo(s, pos[s])
    BY <2>1 DEF HandledUpTo
  <2>2. CASE ~HandledUpTo(s, pos[s]) /\ owner[s] = r
    BY <1>1, <2>2 DEF FetchedIsHandled, HandledUpTo
  <2>3. CASE ~HandledUpTo(s, pos[s]) /\ owner[s] # r
    BY <1>2, <2>3 DEF FetchedIsHandled
  <2> QED  BY <2>1, <2>2, <2>3
<1>6. CommittedIsHandled'
  BY DEF CommittedIsHandled, HandledUpTo
<1> QED  BY <1>3, <1>4, <1>5, <1>6

\* A retry changes the attempt only.
LEMMA RetriedStep ==
  ASSUME DeliveryInv, NEW r \in Consumers, HandlerRetried(r)
  PROVE  DeliveryInv'
<1> USE DEF DeliveryInv, HandlerRetried, Fault, ConsumerTypeOK, NothingSkipped
<1>1. /\ cur' \in [Consumers -> Current]
      /\ \A q \in Consumers : cur'[q].pc = cur[q].pc /\ cur'[q].p = cur[q].p /\ cur'[q].o = cur[q].o
  BY DEF Current
<1>2. ConsumerTypeOK'
  BY <1>1
<1>3. BusyInOrder' /\ CommittedIsHandled'
  BY <1>1 DEF BusyInOrder, CommittedIsHandled, HandledUpTo
<1>4. FetchedIsHandled'
  BY <1>1 DEF FetchedIsHandled, HandledUpTo
<1> QED  BY <1>2, <1>3, <1>4

\* A commit, also a late one by a former owner, stays behind handled messages.
LEMMA CommitStep ==
  ASSUME DeliveryInv, NEW r \in Consumers, CommitMessage(r)
  PROVE  DeliveryInv'
<1> USE DEF DeliveryInv, CommitMessage, ConsumerTypeOK, NothingSkipped
<1>1. cur[r].o \in Nat /\ cur[r].o < Len /\ cur[r].p \in Partitions
      /\ HandledUpTo(cur[r].p, cur[r].o) /\ <<cur[r].p, cur[r].o>> \in handled
  BY DEF BusyInOrder, Current
<1>2. ConsumerTypeOK'
  BY <1>1, FetchingType
<1>3. \A q \in Consumers : cur'[q] = cur[q] \/ cur'[q].pc = "fetch"
  BY FetchingType
<1>4. BusyInOrder'
  BY <1>3 DEF BusyInOrder, HandledUpTo
<1>5. FetchedIsHandled'
  BY <1>3 DEF FetchedIsHandled, HandledUpTo
<1>6. CommittedIsHandled'
  <2> SUFFICES ASSUME NEW s \in Partitions PROVE HandledUpTo(s, offset[s])'
    BY DEF CommittedIsHandled
  <2>1. CASE s = cur[r].p
    BY <1>1, <2>1 DEF HandledUpTo
  <2>2. CASE s # cur[r].p
    BY <2>2 DEF CommittedIsHandled, HandledUpTo
  <2> QED  BY <2>1, <2>2
<1> QED  BY <1>2, <1>4, <1>5, <1>6

\* A partition that moves is read again from its committed offset.
LEMMA RebalanceStep ==
  ASSUME DeliveryInv, NEW p \in Partitions, NEW r \in Consumers, Rebalance(p, r)
  PROVE  DeliveryInv'
<1> USE DEF DeliveryInv, Rebalance, Fault, ConsumerTypeOK, NothingSkipped
<1>1. ConsumerTypeOK'
  OBVIOUS
<1>2. BusyInOrder' /\ CommittedIsHandled'
  BY DEF BusyInOrder, CommittedIsHandled, HandledUpTo
<1>3. FetchedIsHandled'
  <2> SUFFICES ASSUME NEW s \in Partitions
      PROVE  (\/ HandledUpTo(s, pos[s])
              \/ /\ cur[owner[s]].pc = "handle" /\ cur[owner[s]].p = s
                 /\ pos[s] = cur[owner[s]].o + 1)'
    BY DEF FetchedIsHandled
  <2>1. CASE s = p
    BY <2>1 DEF CommittedIsHandled, HandledUpTo
  <2>2. CASE s # p
    BY <2>2 DEF FetchedIsHandled, HandledUpTo
  <2> QED  BY <2>1, <2>2
<1> QED  BY <1>1, <1>2, <1>3

-----------------------------------------------------------------------------
(* The theorems *)

\* Nothing is fetched, handled or committed at first.
LEMMA InitDelivery == ConsumerInit => DeliveryInv
<1> SUFFICES ASSUME ConsumerInit PROVE DeliveryInv
  OBVIOUS
<1>1. ConsumerTypeOK
  BY FetchingType DEF ConsumerInit, ConsumerTypeOK
<1>2. NothingSkipped
  BY FetchingType DEF ConsumerInit, NothingSkipped, BusyInOrder, FetchedIsHandled, CommittedIsHandled,
                      HandledUpTo
<1> QED  BY <1>1, <1>2 DEF DeliveryInv

\* Every step of the system keeps the invariant.
LEMMA DeliveryStep == DeliveryInv /\ [ConsumerNext]_consumerVars => DeliveryInv'
<1> SUFFICES ASSUME DeliveryInv, [ConsumerNext]_consumerVars PROVE DeliveryInv'
  OBVIOUS
<1>1. ASSUME NEW r \in Consumers, ConsumerStep(r) PROVE DeliveryInv'
  BY <1>1, FetchStep, ReturnStep, CommitStep DEF ConsumerStep
<1>2. ASSUME NEW r \in Consumers, HandlerRetried(r) PROVE DeliveryInv'
  BY <1>2, RetriedStep
<1>3. ASSUME NEW r \in Consumers, HandlerPanics(r) \/ CommitFails(r) \/ Crash(r) PROVE DeliveryInv'
  <2>1. Restart(r) /\ consumerFaults' \in Nat
    BY <1>3 DEF HandlerPanics, CommitFails, Crash, Fault, DeliveryInv, ConsumerTypeOK
  <2> QED  BY <2>1, RestartStep
<1>4. ASSUME NEW p \in Partitions, NEW r \in Consumers, Rebalance(p, r) PROVE DeliveryInv'
  BY <1>4, RebalanceStep
<1>5. CASE UNCHANGED consumerVars
  BY <1>5 DEF consumerVars, DeliveryInv, ConsumerTypeOK, NothingSkipped, BusyInOrder, FetchedIsHandled,
              CommittedIsHandled, HandledUpTo
<1> QED  BY <1>1, <1>2, <1>3, <1>4, <1>5 DEF ConsumerNext

\* Under HandleMessages' loop of fetch, handle and commit, nothing is ever skipped: every
\* reader's position and every committed offset has only handled messages behind it.
THEOREM Delivery == ConsumerSpec => [](ConsumerTypeOK /\ NothingSkipped)
  BY InitDelivery, DeliveryStep, PTL DEF ConsumerSpec, DeliveryInv

\* The messages below the committed offsets, the abstract committed set.
Committed == {m \in Messages : m[2] < offset[m[1]]}

\* They are handled after every step.
LEMMA CommittedDone == DeliveryInv' => (Committed \subseteq handled)'
<1> SUFFICES ASSUME DeliveryInv', NEW m \in Messages, m[2] < offset'[m[1]] PROVE m \in handled'
  BY DEF Committed
<1>1. PICK p \in Partitions, o \in 0 .. Len - 1 : m = <<p, o>>
  BY DEF Messages
<1>2. HandledUpTo(p, offset[p])' /\ offset'[p] \in Nat /\ o < offset'[p]
  BY <1>1 DEF DeliveryInv, NothingSkipped, CommittedIsHandled, ConsumerTypeOK
<1> QED  BY <1>1, <1>2 DEF HandledUpTo

\* A step of the readers is a step or a stutter of the abstract specification.
LEMMA AbstractStep ==
  DeliveryInv /\ DeliveryInv' /\ [ConsumerNext]_consumerVars => [Abstract!Next]_(Abstract!vars)
<1> SUFFICES ASSUME DeliveryInv, DeliveryInv', [ConsumerNext]_consumerVars
    PROVE  Abstract!Next \/ UNCHANGED <<handled, Committed>>
  BY DEF Abstract!vars, Committed
<1>1. ASSUME NEW r \in Consumers, HandlerReturns(r) PROVE Abstract!Next
  <2>1. <<cur[r].p, cur[r].o>> \in Messages
    BY <1>1 DEF HandlerReturns, DeliveryInv, ConsumerTypeOK, Current, NothingSkipped, BusyInOrder, Messages
  <2>2. handled' = handled \union {<<cur[r].p, cur[r].o>>} /\ Committed' = Committed
    BY <1>1 DEF HandlerReturns, Committed
  <2>3. Abstract!Handle(<<cur[r].p, cur[r].o>>)
    BY <2>2 DEF Abstract!Handle, Committed
  <2> QED  BY <2>1, <2>3 DEF Abstract!Next
<1>2. ASSUME NEW r \in Consumers, CommitMessage(r) PROVE Abstract!Next
  <2>1. handled' = handled
    BY <1>2 DEF CommitMessage
  <2>2. Committed' \subseteq handled /\ Committed' \in SUBSET Messages
    BY <2>1, CommittedDone DEF Committed
  <2> QED  BY <2>1, <2>2 DEF Abstract!Next, Abstract!Commit, Committed
<1>3. CASE UNCHANGED <<handled, offset>>
  BY <1>3 DEF Committed
<1>4. ASSUME NEW r \in Consumers, NEW p \in Partitions, Fetch(r, p)
      PROVE  UNCHANGED <<handled, offset>>
  BY <1>4 DEF Fetch
<1>5. ASSUME NEW r \in Consumers, HandlerRetried(r) PROVE UNCHANGED <<handled, offset>>
  BY <1>5 DEF HandlerRetried
<1>6. ASSUME NEW r \in Consumers, HandlerPanics(r) \/ CommitFails(r) \/ Crash(r)
      PROVE  UNCHANGED <<handled, offset>>
  BY <1>6 DEF HandlerPanics, CommitFails, Crash, Restart
<1>7. ASSUME NEW p \in Partitions, NEW r \in Consumers, Rebalance(p, r)
      PROVE  UNCHANGED <<handled, offset>>
  BY <1>7 DEF Rebalance
<1> QED
  BY <1>1, <1>2, <1>3, <1>4, <1>5, <1>6, <1>7 DEF ConsumerNext, ConsumerStep, consumerVars

\* The readers implement the abstract specification of at-least-once delivery.
THEOREM AtLeastOnceRefinement == ConsumerSpec => AtLeastOnceDelivery
<1>1. ConsumerInit => Abstract!Init
  BY DEF ConsumerInit, Abstract!Init, Messages
<1>2. ConsumerSpec => []DeliveryInv
  BY InitDelivery, DeliveryStep, PTL DEF ConsumerSpec
<1> QED
  BY <1>1, <1>2, AbstractStep, PTL DEF ConsumerSpec, AtLeastOnceDelivery, Abstract!Spec
=============================================================================
