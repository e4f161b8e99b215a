----------------------------- MODULE VmaasCache -----------------------------
(***************************************************************************)
(* The evaluator's cache of VMaaS answers (evaluator/vmaas_cache.go),      *)
(* composed with the job that puts it out of date.  A consumer takes a     *)
(* message, looks up the checksum of the system's profile, calls VMaaS on  *)
(* a miss, adds the answer and stores the evaluation with it, while        *)
(* CheckValidity compares, at every tick of its timer, the timestamp that  *)
(* vmaas_sync stored with the one that the cache was reset with.  A failed *)
(* evaluation is delivered again only when its error is fatal.             *)
(*                                                                         *)
(* An answer is the export of VMaaS that it was computed from.  Systems    *)
(* exist and are not stale; the evaluations of uploads, by other pods, are *)
(* the subject of module EvalPipeline.                                     *)
(***************************************************************************)
EXTENDS VmaasSync

CONSTANTS
  Consumers,    \* goroutines that evaluate
  Checksum      \* Checksum[s]: checksum of the profile of s, or NIL

Checksums == {Checksum[s] : s \in Systems} \ {NIL}

VARIABLES
  messages,   \* the topic: systems to evaluate
  cache,      \* the cached answer of a checksum, NIL: none
  validity,   \* VmaasCache.validity
  consumer,   \* what a consumer is doing
  evaluated,  \* the export that the last evaluation of a system used, 0: none
  old,        \* systems whose last request is older than their last evaluation
  overlapped, \* ghost: checksums whose call overlapped a reset of the cache
  outdated,   \* ghost: systems evaluated with an answer of an outdated cache, or
              \*        by two consumers at a time
  missed      \* ghost: systems whose last evaluation failed or did without VMaaS,
              \*        or whose request is skipped although that one cannot know it

answerVars == <<messages, consumer, evaluated, old, outdated, missed>>
cacheVars == <<cache, validity, overlapped, answerVars>>
vars == <<syncVars, cacheVars>>

Ready == [pc |-> "ready", sys |-> NIL, answer |-> NIL, reset |-> FALSE]
Evaluating(s) == {c \in Consumers : consumer[c].sys = s}

\* VmaasCache.Get
Get(k) == IF k = NIL THEN NIL ELSE cache[k]

\* VmaasCache.Add
Add(k, answer) == cache' = [j \in Checksums |-> IF j = k THEN answer ELSE cache[j]]

\* The answers of other systems fill the cache, and its library drops this one.
Evict(k) ==
  /\ cache[k] # NIL
  /\ cache' = [cache EXCEPT ![k] = NIL]
  /\ UNCHANGED <<validity, overlapped, answerVars>>

\* The cache does not answer for the updates that concern s: it was not reset yet
\* for the stored timestamp, an answer overlapped its reset, or the timestamp is
\* older than an update.  The job asks for evaluations without a new timestamp when
\* its request to /dbchange failed, and with an older one when VMaaS exported
\* after that request.
CacheOutdated(s) ==
  \/ validity # kv.exported
  \/ Checksum[s] \in overlapped
  \/ ConcernedBy(s) > (IF kv.exported = NIL THEN 0 ELSE kv.exported)

\* A request carries the time it was sent at.  It stays older than an evaluation of
\* the same second, because its time has no fraction; and it will be skipped when
\* the evaluation that is under way, whose answer VMaaS gave before, is stored.
Requests(delivered, sameSecond) ==
  /\ SendMessages(delivered)
  /\ sameSecond \subseteq delivered \cap old
  /\ messages' = messages \cup delivered
  /\ old' = old \ (delivered \ sameSecond)
  /\ missed' = missed \cup sameSecond
                  \cup {s \in delivered : \E c \in Evaluating(s) : consumer[c].answer # NIL}
  /\ UNCHANGED <<cache, validity, overlapped, consumer, evaluated, outdated>>

\* tryGetSystem: a request older than the last evaluation is skipped.
SkipOld(c, s) ==
  /\ consumer[c].pc = "ready" /\ s \in messages \cap old
  /\ messages' = messages \ {s}
  /\ UNCHANGED <<cache, validity, overlapped, consumer, evaluated, old, outdated, missed>>

\* tryGetSystem, and getVmaasUpdates up to the call.
TakeMessage(c, s) ==
  /\ consumer[c].pc = "ready" /\ s \in messages \ old
  /\ messages' = messages \ {s}
  /\ LET hit == Get(Checksum[s])
     IN  /\ consumer' = [consumer EXCEPT ![c] =
                           [pc |-> IF hit = NIL THEN "call" ELSE "store",
                            sys |-> s, answer |-> hit, reset |-> FALSE]]
         /\ outdated' = IF (hit # NIL /\ CacheOutdated(s)) \/ Evaluating(s) # {}
                          THEN outdated \cup {s} ELSE outdated \ {s}
  /\ missed' = missed \ {s}
  /\ UNCHANGED <<cache, validity, overlapped, evaluated, old>>

\* callVMaas: VMaaS answers from its last export.
CallVMaas(c) ==
  /\ consumer[c].pc = "call"
  /\ consumer' = [consumer EXCEPT ![c].pc = "add", ![c].answer = exported]
  /\ UNCHANGED <<cache, validity, overlapped, messages, evaluated, old, outdated, missed>>

\* The call failed for good.  Its error is not fatal, and the message is not delivered
\* again: the system is not evaluated, as after status 400, or it is evaluated by the
\* updates that yum reported alone.
CallFails(c, yumUpdates) ==
  /\ consumer[c].pc = "call"
  /\ consumer' = [consumer EXCEPT ![c] =
                    IF yumUpdates THEN [@ EXCEPT !.pc = "store", !.answer = 0] ELSE Ready]
  /\ missed' = missed \cup {consumer[c].sys}
  /\ UNCHANGED <<cache, validity, overlapped, messages, evaluated, old, outdated>>

\* The end of getVmaasUpdates.
AddAnswer(c) ==
  /\ consumer[c].pc = "add"
  /\ LET k == Checksum[consumer[c].sys]
     IN  /\ Add(k, consumer[c].answer)
         /\ overlapped' = IF consumer[c].reset THEN overlapped \cup {k} ELSE overlapped \ {k}
  /\ consumer' = [consumer EXCEPT ![c].pc = "store", ![c].reset = FALSE]
  /\ UNCHANGED <<validity, messages, evaluated, old, outdated, missed>>

\* The time of the evaluation is stored with it.
evaluateAndStore(c) ==
  /\ consumer[c].pc = "store"
  /\ evaluated' = [evaluated EXCEPT ![consumer[c].sys] = consumer[c].answer]
  /\ old' = old \cup {consumer[c].sys}
  /\ consumer' = [consumer EXCEPT ![c] = Ready]
  /\ UNCHANGED <<cache, validity, overlapped, messages, outdated, missed>>

\* The database failed.  Some errors are fatal, and then the message is delivered
\* again, unless the next system of the message has overwritten the error.
StoreFails(c, again) ==
  /\ consumer[c].pc = "store"
  /\ messages' = IF again THEN messages \cup {consumer[c].sys} ELSE messages
  /\ missed' = IF again THEN missed ELSE missed \cup {consumer[c].sys}
  /\ consumer' = [consumer EXCEPT ![c] = Ready]
  /\ UNCHANGED <<cache, validity, overlapped, evaluated, old, outdated>>

BugReset ==
  /\ cache' = cache
  /\ validity' = kv.exported
  /\ consumer' = [c \in Consumers |-> IF consumer[c].pc = "add"
                    THEN [consumer[c] EXCEPT !.reset = TRUE] ELSE consumer[c]]

\* VmaasCache.Reset
Reset ==
  /\ cache' = [k \in Checksums |-> NIL]
  /\ validity' = kv.exported
  /\ consumer' = [c \in Consumers |-> IF consumer[c].pc = "add"
                    THEN [consumer[c] EXCEPT !.reset = TRUE] ELSE consumer[c]]

\* VmaasCache.CheckValidity, one tick.
CheckValidity ==
  /\ ~(kv.exported # NIL /\ validity # NIL /\ validity >= kv.exported)
  /\ Reset
  /\ UNCHANGED <<overlapped, messages, evaluated, old, outdated, missed>>

\* The pod is started again (loadCache): what was being evaluated is delivered
\* again.
Restart ==
  /\ cache' = [k \in Checksums |-> NIL]
  /\ validity' = kv.exported
  /\ messages' = messages \cup {s \in Systems : Evaluating(s) # {}}
  /\ consumer' = [c \in Consumers |-> Ready]
  /\ overlapped' = {}
  /\ UNCHANGED <<evaluated, old, outdated, missed>>

Init ==
  /\ SyncInit
  /\ messages = {}
  /\ cache = [k \in Checksums |-> NIL]
  /\ validity = kv.exported
  /\ consumer = [c \in Consumers |-> Ready]
  /\ evaluated = [s \in Systems |-> 0]
  /\ old = {}
  /\ overlapped = {} /\ outdated = {} /\ missed = {}

Evaluator ==
  \/ \E c \in Consumers, s \in Systems : SkipOld(c, s) \/ TakeMessage(c, s)
  \/ \E c \in Consumers : CallVMaas(c) \/ AddAnswer(c) \/ evaluateAndStore(c)
  \/ \E c \in Consumers, yumUpdates \in BOOLEAN : CallFails(c, yumUpdates)
  \/ \E c \in Consumers, again \in BOOLEAN : StoreFails(c, again)
  \/ \E k \in Checksums : Evict(k)
  \/ CheckValidity
  \/ Restart

Next ==
  \/ (VmaasStep \/ SyncStep) /\ UNCHANGED cacheVars
  \/ \E delivered \in SUBSET Systems, sameSecond \in SUBSET Systems :
       Requests(delivered, sameSecond)
  \/ Evaluator /\ UNCHANGED syncVars

Spec == Init /\ [][Next]_vars

(***************************************************************************)
(* Properties.                                                             *)
(***************************************************************************)
\* The types of the job and of the cache: no answer and no validity is from
\* after the last export that was possible.
TypeOK ==
  /\ SyncTypeOK
  /\ messages \subseteq Systems
  /\ cache \in [Checksums -> Times \cup {NIL}] /\ validity \in Times \cup {NIL}
  /\ evaluated \in [Systems -> Times]
  /\ consumer \in [Consumers -> [pc : {"ready", "call", "add", "store"}, sys : Systems \cup {NIL},
                                answer : Times \cup {NIL}, reset : BOOLEAN]]
  /\ overlapped \subseteq Checksums \cup {NIL} /\ outdated \subseteq Systems
  /\ old \subseteq Systems /\ missed \subseteq Systems

\* A cached answer is older than the timestamp that the cache was reset with
\* only if its call to VMaaS was under way when the cache was reset: Reset
\* purges the cache, but an answer computed before it is added after it
\* (vmaas_cache.go, Reset and Add).
CacheOldOnlyIfOverlapped ==
  \A k \in Checksums \ overlapped :
    cache[k] # NIL /\ validity # NIL => cache[k] >= validity

\* From VMaaS to the evaluation: once vmaas_sync has handled an update of a
\* package in a repo of a system, and the messages are consumed, the system was
\* evaluated with that update, unless the request was dropped, a cached answer
\* was used that need not hold the update (CacheOutdated), two consumers
\* evaluated the system at a time, or the last evaluation failed: the call to
\* VMaaS or the transaction, with an error after which the message is committed,
\* or the request was skipped as older than an evaluation that began before it
\* or was stored in the same second.
EvaluatedUnlessLost ==
  config.repoBased /\ config.recalc =>
    \A s \in Systems \ (dropped \cup outdated \cup missed) :
      \/ ConcernedBy(s) <= evaluated[s]
      \/ kv.eval = NIL \/ ConcernedBy(s) > kv.eval
      \/ job.pc = "send" /\ s \in job.ids
      \/ s \in messages \/ Evaluating(s) # {}
=============================================================================
