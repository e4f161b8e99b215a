---------------------------- MODULE MQueueReader ----------------------------
(***************************************************************************)
(* base/mqueue: the consumers of one Kafka topic.                          *)
(*                                                                         *)
(* A reader fetches the messages of its partitions in order and, one at a  *)
(* time, runs the handler through MakeRetryingHandler and commits the      *)
(* offset.  A fatal error is retried; when the retries are used up the     *)
(* reader panics, the pod restarts, and its partitions are read again      *)
(* from the committed offset.  The consumer group may move a partition at  *)
(* any time, also while the old owner is busy with a message of it; the    *)
(* commit of that message may then be refused, or it may overwrite the     *)
(* newer offset of the new owner.                                          *)
(***************************************************************************)
EXTENDS Naturals

CONSTANTS
    Partitions,         \* partitions of the topic
    Consumers,          \* readers of the consumer group, over all pods
    Len,                \* messages in each partition
    MaxRetries,         \* retries of the backoff policy
    MaxConsumerFaults   \* bound on fatal errors, crashes and rebalances

ASSUME ReaderAssumption ==
    /\ Consumers # {} /\ Partitions # {}
    /\ Len \in Nat /\ MaxRetries \in Nat /\ MaxConsumerFaults \in Nat

Messages == Partitions \X (0 .. Len - 1)

VARIABLES
    owner,           \* owner[p]: reader the partition is assigned to
    pos,             \* pos[p]: next offset its owner will fetch
    offset,          \* offset[p]: committed offset
    cur,             \* cur[r]: message reader r is busy with
    handled,         \* messages whose handler returned nil to HandleMessages
    consumerFaults   \* faults so far

consumerVars == <<owner, pos, offset, cur, handled, consumerFaults>>

Current == [pc : {"fetch", "handle", "commit"}, p : Partitions, o : Nat, attempt : Nat]
Fetching == [pc |-> "fetch", p |-> CHOOSE p \in Partitions : TRUE, o |-> 0, attempt |-> 0]

ConsumerTypeOK ==
    /\ owner \in [Partitions -> Consumers]
    /\ pos \in [Partitions -> 0 .. Len]
    /\ offset \in [Partitions -> 0 .. Len]
    /\ cur \in [Consumers -> Current]
    /\ handled \subseteq Messages
    /\ consumerFaults \in Nat

ConsumerInit ==
    /\ owner \in [Partitions -> Consumers]
    /\ pos = [p \in Partitions |-> 0]
    /\ offset = [p \in Partitions |-> 0]
    /\ cur = [r \in Consumers |-> Fetching]
    /\ handled = {}
    /\ consumerFaults = 0

-----------------------------------------------------------------------------
Fault == consumerFaults < MaxConsumerFaults /\ consumerFaults' = consumerFaults + 1

\* FetchMessage
Fetch(r, p) ==
    /\ cur[r].pc = "fetch"
    /\ owner[p] = r /\ pos[p] < Len
    /\ cur' = [cur EXCEPT ![r] = [pc |-> "handle", p |-> p, o |-> pos[p], attempt |-> 0]]
    /\ pos' = [pos EXCEPT ![p] = @ + 1]
    /\ UNCHANGED <<owner, offset, handled, consumerFaults>>

\* The handler returned nil or an error that is not fatal: the latter is dropped.
HandlerReturns(r) ==
    /\ cur[r].pc = "handle"
    /\ handled' = handled \union {<<cur[r].p, cur[r].o>>}
    /\ cur' = [cur EXCEPT ![r].pc = "commit"]
    /\ UNCHANGED <<owner, pos, offset, consumerFaults>>

\* Mutant of HandlerRetried: a message that keeps failing is given up and committed.
BugSkipsPoison(r) ==
    /\ cur[r].pc = "handle"
    /\ Fault
    /\ cur' = [cur EXCEPT ![r] = IF @.attempt < MaxRetries
                                 THEN [@ EXCEPT !.attempt = @ + 1] ELSE [@ EXCEPT !.pc = "commit"]]
    /\ UNCHANGED <<owner, pos, offset, handled>>

\* The handler returned a fatal error, with retries left.
HandlerRetried(r) ==
    /\ cur[r].pc = "handle" /\ cur[r].attempt < MaxRetries
    /\ Fault
    /\ cur' = [cur EXCEPT ![r].attempt = @ + 1]
    /\ UNCHANGED <<owner, pos, offset, handled>>

\* Mutant of Restart: the reader comes back where it was, not at the committed offset.
BugResumes(r) ==
    /\ cur' = [cur EXCEPT ![r] = Fetching]
    /\ UNCHANGED <<owner, pos, offset, handled>>

\* The reader is gone and comes back; its partitions are read from the committed offset.
Restart(r) ==
    /\ cur' = [cur EXCEPT ![r] = Fetching]
    /\ pos' = [p \in Partitions |-> IF owner[p] = r THEN offset[p] ELSE pos[p]]
    /\ UNCHANGED <<owner, offset, handled>>

\* The last attempt failed: LogPanic("Handler failed"), without a commit.
HandlerPanics(r) ==
    /\ cur[r].pc = "handle" /\ cur[r].attempt = MaxRetries
    /\ Fault
    /\ Restart(r)

\* Mutant of CommitMessage: the next offset is computed twice, by the reader and by the
\* client library.
BugCommitsNext(r) ==
    /\ cur[r].pc = "commit"
    /\ offset' = [offset EXCEPT ![cur[r].p] = cur[r].o + 2]
    /\ cur' = [cur EXCEPT ![r] = Fetching]
    /\ UNCHANGED <<owner, pos, handled, consumerFaults>>

\* CommitMessages: the next offset of the partition, also for a partition that has
\* moved to another reader in the meantime.
CommitMessage(r) ==
    /\ cur[r].pc = "commit"
    /\ offset' = [offset EXCEPT ![cur[r].p] = cur[r].o + 1]
    /\ cur' = [cur EXCEPT ![r] = Fetching]
    /\ UNCHANGED <<owner, pos, handled, consumerFaults>>

\* CommitMessages fails or the context is cancelled: panic or break, no commit.
CommitFails(r) ==
    /\ cur[r].pc = "commit"
    /\ Fault
    /\ Restart(r)

\* The pod dies or is stopped at any point.
Crash(r) ==
    /\ Fault
    /\ Restart(r)

\* The group assigns p to another reader, which starts at the committed offset.
Rebalance(p, r) ==
    /\ owner[p] # r
    /\ Fault
    /\ owner' = [owner EXCEPT ![p] = r]
    /\ pos' = [pos EXCEPT ![p] = offset[p]]
    /\ UNCHANGED <<offset, cur, handled>>

-----------------------------------------------------------------------------
ConsumerStep(r) ==
    (\E p \in Partitions : Fetch(r, p)) \/ HandlerReturns(r) \/ CommitMessage(r)

ConsumerNext ==
    \/ \E r \in Consumers : \/ ConsumerStep(r) \/ HandlerRetried(r) \/ HandlerPanics(r)
                          \/ CommitFails(r) \/ Crash(r)
    \/ \E p \in Partitions, r \in Consumers : Rebalance(p, r)

ConsumerSpec == ConsumerInit /\ [][ConsumerNext]_consumerVars

\* Readers keep polling and handlers end.
FairConsumerSpec == ConsumerSpec /\ \A r \in Consumers : WF_consumerVars(ConsumerStep(r))

-----------------------------------------------------------------------------
(* Properties *)

\* The handler has returned for the first n messages of p.
HandledUpTo(p, n) == \A o \in 0 .. n - 1 : <<p, o>> \in handled

\* What a busy reader knows: everything before its message is handled, and the message
\* itself once it is about to commit it.
BusyInOrder ==
    \A r \in Consumers : cur[r].pc # "fetch" =>
        /\ cur[r].o < Len
        /\ HandledUpTo(cur[r].p, cur[r].o)
        /\ cur[r].pc = "commit" => <<cur[r].p, cur[r].o>> \in handled

\* No message between two fetches of a partition is left out: everything fetched is
\* handled, except the message the owner of the partition is busy with.
FetchedIsHandled ==
    \A p \in Partitions :
        \/ HandledUpTo(p, pos[p])
        \/ /\ cur[owner[p]].pc = "handle" /\ cur[owner[p]].p = p
           /\ pos[p] = cur[owner[p]].o + 1

\* An offset is committed only behind handled messages.
CommittedIsHandled == \A p \in Partitions : HandledUpTo(p, offset[p])

\* The position of every reader and every committed offset have only handled messages
\* behind them, whatever crashes, panics and rebalances came in between: the inductive
\* form of at-least-once delivery.
NothingSkipped == BusyInOrder /\ FetchedIsHandled /\ CommittedIsHandled

Abstract == INSTANCE AtLeastOnce
    WITH done <- handled, committed <- {m \in Messages : m[2] < offset[m[1]]}

\* The readers implement at-least-once delivery: an offset is committed only when the
\* handler has returned for that message and every message before it, although offsets
\* are committed per partition, partitions move, and a former owner may commit late.
AtLeastOnceDelivery == Abstract!Spec

\* Every message is handled in the end: retries, panics, crashes, rebalances and late
\* commits that move an offset back leave none behind.
EveryMessageHandled == Abstract!Live
=============================================================================
