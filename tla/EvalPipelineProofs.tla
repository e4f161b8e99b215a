------------------------- MODULE EvalPipelineProofs -------------------------
(***************************************************************************)
(* Theorems about EvalPipeline, for any number of systems, readers,        *)
(* evaluators, payloads and faults: type correctness, and the freshness    *)
(* of "no eval required" by induction over the steps.                      *)
(***************************************************************************)
EXTENDS EvalPipeline, TLAPS

\* Serializing a timestamp (Rfc3339NoTz) never moves it out of the modelled time.
LEMMA Rfc3339Type == \A t \in Times : Rfc3339(t) \in Times
<1> SUFFICES ASSUME NEW t \in Times PROVE Rfc3339(t) \in Times
  OBVIOUS
<1>1. t \in Nat /\ Second \in Nat /\ Second > 0 /\ MaxTime \in Nat /\ t <= MaxTime
  BY PipelineAssumption DEF Times
<1>2. t % Second \in 0 .. t
  BY <1>1
<1> QED
  BY <1>1, <1>2 DEF Rfc3339, Times

\* The rows and records that stand for "nothing" have their types.
LEMMA Defaults ==
    /\ NoRow \in Row
    /\ IdleUpload \in Upload
    /\ NoMessage \in Message
    /\ IdleEvaluation \in Evaluation
<1>1. 0 \in Times
  BY PipelineAssumption DEF Times
<1>2. /\ (CHOOSE s \in Systems : TRUE) \in Systems
      /\ (CHOOSE j \in Jsons : TRUE) \in Jsons
      /\ (CHOOSE y \in Yums : TRUE) \in Yums
  BY PipelineAssumption
<1>3. NoRow \in Row
  BY <1>1, <1>2 DEF NoRow, Row
<1>4. NoMessage \in Message
  BY <1>1 DEF NoMessage, Message
<1>5. IdleUpload \in Upload
  BY <1>1, <1>2, <1>3 DEF IdleUpload, Upload, NoRow
<1>6. IdleEvaluation \in Evaluation
  BY <1>1, <1>2, <1>3, <1>4 DEF IdleEvaluation, Evaluation
<1> QED
  BY <1>3, <1>4, <1>5, <1>6

\* The initial state has its type.
LEMMA InitType == Init => TypeOK
<1> SUFFICES ASSUME Init PROVE TypeOK
  OBVIOUS
<1>1. 1 \in Times
  BY PipelineAssumption DEF Times
<1> QED
  BY <1>1, Defaults DEF Init, TypeOK

\* The listener's actions preserve the type invariant.
LEMMA ListenerType ==
    ASSUME TypeOK, NEW l \in Readers,
           \/ \E s \in Systems, j \in Jsons, y \in Yums : UploadBegin(l, s, j, y)
           \/ ListenerStep(l) \/ UploadFail(l)
    PROVE  TypeOK'
<1>1. CASE \E s \in Systems, j \in Jsons, y \in Yums : UploadBegin(l, s, j, y)
  <2> PICK s \in Systems, j \in Jsons, y \in Yums : UploadBegin(l, s, j, y)
    BY <1>1
  <2> DEFINE new == [IdleUpload EXCEPT !.pc = "began", !.s = s, !.json = j, !.yum = y,
                                       !.begin = clock]
  <2>1. new \in Upload
    BY Defaults DEF Upload, TypeOK
  <2>2. up' = [up EXCEPT ![l] = new]
    BY DEF UploadBegin
  <2> HIDE DEF new
  <2>3. up' \in [Readers -> Upload]
    BY <2>1, <2>2 DEF TypeOK
  <2>4. /\ uploads' = uploads + 1
        /\ UNCHANGED <<clock, row, nextId, raced, buffer, topic, ev, sent, faults>>
    BY DEF UploadBegin, dbVars
  <2> QED
    BY <2>3, <2>4 DEF TypeOK
<1>2. CASE UploadWrite(l)
  <2> DEFINE u == up[l]
             since == IF Changed(row[u.s], u.json, u.yum) THEN u.begin ELSE row[u.s].since
             new == [u EXCEPT !.pc = "written", !.since = since, !.seen = row[u.s].lastEval]
  <2>1. u \in Upload /\ row[u.s] \in Row
    BY DEF TypeOK, Upload
  <2>2. since \in Times /\ row[u.s].lastEval \in Times
    BY <2>1 DEF Upload, Row
  <2>3. up' = [up EXCEPT ![l] = new]
    BY <1>2 DEF UploadWrite
  <2> HIDE DEF since
  <2>4. new \in Upload
    BY <2>1, <2>2 DEF Upload
  <2> HIDE DEF new
  <2>5. up' \in [Readers -> Upload]
    BY <2>3, <2>4 DEF TypeOK
  <2> QED
    BY <1>2, <2>5 DEF UploadWrite, TypeOK, dbVars
<1>3. CASE UploadCommit(l)
  <2> DEFINE u == up[l]
             r == row[u.s]
             new == [r EXCEPT !.id = IF r.id = 0 THEN nextId ELSE r.id,
                              !.json = u.json, !.yum = u.yum, !.since = u.since]
  <2>1. u \in Upload /\ r \in Row
    BY DEF TypeOK, Upload
  <2>2. new \in Row
    BY <2>1 DEF TypeOK, Upload, Row
  <2>3. row' = [row EXCEPT ![u.s] = new]
    BY <1>3 DEF UploadCommit
  <2>4. row' \in [Systems -> Row]
    BY <2>1, <2>2, <2>3 DEF TypeOK
  <2>5. nextId' \in Nat \ {0}
    BY <1>3 DEF UploadCommit, TypeOK
  <2>6. (u.begin < r.lastEval) \in BOOLEAN
    OBVIOUS
  <2>7. raced' \in [Systems -> BOOLEAN]
    BY <1>3, <2>6 DEF UploadCommit, TypeOK
  <2>8. up' \in [Readers -> Upload]
    BY <1>3 DEF UploadCommit, TypeOK, Upload
  <2> QED
    BY <1>3, <2>4, <2>5, <2>7, <2>8 DEF UploadCommit, TypeOK
<1>4. CASE UploadNoEval(l)
  BY <1>4, Defaults DEF UploadNoEval, TypeOK, dbVars
<1>5. CASE UploadBuffer(l)
  BY <1>5, Defaults DEF UploadBuffer, TypeOK, Upload, dbVars
<1>6. CASE UploadFail(l)
  BY <1>6, Defaults DEF UploadFail, TypeOK, dbVars
<1> QED
  BY <1>1, <1>2, <1>3, <1>4, <1>5, <1>6 DEF ListenerStep

\* Publishing, the flush timer, crashes, recalculation and deletion do, too.
LEMMA SharedType ==
    ASSUME TypeOK,
           \/ Tick \/ Flush \/ FlushFail \/ ListenerCrash
           \/ \E S \in SUBSET Systems : Recalc(S)
           \/ \E s \in Systems : DeleteSystem(s)
    PROVE  TypeOK'
<1>1. CASE Tick
  <2>1. clock' \in Times
    BY <1>1, PipelineAssumption DEF Tick, TypeOK, Times
  <2> QED
    BY <1>1, <2>1 DEF Tick, TypeOK, dbVars
<1>2. ASSUME NEW S \in SUBSET Systems, Publish(S)
      PROVE  topic' \subseteq Message /\ sent' \in Nat
  <2>1. Rfc3339(clock) \in Times
    BY Rfc3339Type DEF TypeOK
  <2>2. [id |-> sent + 1, ts |-> Rfc3339(clock), systems |-> S] \in Message
    BY <2>1 DEF Message, TypeOK
  <2> QED
    BY <1>2, <2>2 DEF Publish, TypeOK
<1>3. CASE Flush
  <2>1. topic' \subseteq Message /\ sent' \in Nat
    BY <1>2, <1>3 DEF Flush, TypeOK
  <2> QED
    BY <1>3, <2>1 DEF Flush, TypeOK, dbVars
<1>4. CASE FlushFail
  BY <1>4 DEF FlushFail, TypeOK, dbVars
<1>5. CASE ListenerCrash
  BY <1>5, Defaults DEF ListenerCrash, TypeOK, dbVars
<1>6. CASE \E S \in SUBSET Systems : Recalc(S)
  <2>1. topic' \subseteq Message /\ sent' \in Nat
    BY <1>2, <1>6 DEF Recalc
  <2> QED
    BY <1>6, <2>1 DEF Recalc, TypeOK, dbVars
<1>7. CASE \E s \in Systems : DeleteSystem(s)
  BY <1>7, Defaults DEF DeleteSystem, TypeOK
<1> QED
  BY <1>1, <1>3, <1>4, <1>5, <1>6, <1>7

\* What the evaluator's actions leave to its own record and to the committed rows.
LEMMA ReturnType ==
    ASSUME TypeOK, NEW e \in Evaluators, NEW s \in Systems,
           NEW err \in {"nil", "plain", "fatal"}, Return(e, s, err)
    PROVE  ev' \in [Evaluators -> Evaluation]
<1> DEFINE x == ev[e]
           new == [x EXCEPT !.pc = "next", !.s = s, !.todo = @ \ {s}, !.err = err,
                            !.snap = NoRow, !.stored = {}, !.stamp = 0]
<1>1. x \in Evaluation
  BY DEF TypeOK
<1>2. x.todo \ {s} \in SUBSET Systems
  BY <1>1 DEF Evaluation
<1>3. 0 \in Times
  BY PipelineAssumption DEF Times
<1>4. ev' = [ev EXCEPT ![e] = new]
  BY DEF Return
<1>5. new \in Evaluation
  BY <1>1, <1>2, <1>3, Defaults DEF Evaluation
<1> HIDE DEF new
<1> QED
  BY <1>4, <1>5 DEF TypeOK

\* An evaluated row is a row, whatever was stored or reported.
LEMMA EvaluatedType ==
    ASSUME NEW r \in Row, NEW x \in Evaluation
    PROVE  Evaluated(r, x) \in Row
<1>1. /\ x.snap.json \in Jsons /\ x.snap.yum \in Yums
      /\ x.stored \in SUBSET Advisories /\ x.stamp \in Times
  BY DEF Evaluation, Row
<1>2. Report(x.snap.json, x.snap.yum) \in SUBSET Advisories
  BY <1>1, PipelineAssumption
<1> QED
  BY <1>1, <1>2 DEF Evaluated, Row

\* The evaluator's actions preserve the type invariant.
LEMMA EvaluatorType ==
    ASSUME TypeOK, NEW e \in Evaluators,
           \/ EvaluatorStep(e) \/ EvaluatorCrash(e)
           \/ \E err \in {"plain", "fatal"} : EvalFail(e, err)
    PROVE  TypeOK'
<1> DEFINE x == ev[e]
<1>x. x \in Evaluation
  BY DEF TypeOK
<1>1. CASE EvalTake(e)
  <2> PICK m \in topic : EvalTake(e)!(m)
    BY <1>1 DEF EvalTake
  <2> DEFINE new == [IdleEvaluation EXCEPT !.pc = "next", !.msg = m, !.todo = m.systems]
  <2>1. m \in Message /\ m.systems \in SUBSET Systems
    BY DEF TypeOK, Message
  <2>2. new \in Evaluation
    BY <2>1, Defaults DEF Evaluation
  <2>3. ev' = [ev EXCEPT ![e] = new]
    OBVIOUS
  <2> HIDE DEF new
  <2>4. ev' \in [Evaluators -> Evaluation]
    BY <2>2, <2>3 DEF TypeOK
  <2>5. UNCHANGED <<clock, up, buffer, uploads, sent, row, nextId, raced, topic, faults>>
    BY <1>1 DEF EvalTake, Stay, dbVars
  <2> QED
    BY <2>4, <2>5 DEF TypeOK
<1>2. ASSUME NEW s \in Systems, EvalSkip(e, s)
      PROVE  TypeOK'
  <2>1. ev' \in [Evaluators -> Evaluation]
    BY <1>2, ReturnType DEF EvalSkip
  <2> QED
    BY <1>2, <2>1 DEF EvalSkip, TypeOK, Stay, dbVars
<1>3. ASSUME NEW s \in Systems, EvalLoad(e, s)
      PROVE  TypeOK'
  <2> DEFINE new == [x EXCEPT !.pc = "loaded", !.s = s, !.snap = row[s]]
  <2>1. row[s] \in Row
    BY DEF TypeOK
  <2>2. new \in Evaluation
    BY <1>x, <2>1 DEF Evaluation
  <2>3. ev' = [ev EXCEPT ![e] = new]
    BY <1>3 DEF EvalLoad
  <2> HIDE DEF new
  <2> QED
    BY <1>3, <2>2, <2>3 DEF EvalLoad, TypeOK, Stay, dbVars
<1>4. CASE EvalNoUpdates(e)
  <2>1. ev' \in [Evaluators -> Evaluation]
    BY <1>4, <1>x, ReturnType DEF EvalNoUpdates, Evaluation
  <2> QED
    BY <1>4, <2>1 DEF EvalNoUpdates, TypeOK, Stay, dbVars
<1>5. CASE EvalCompare(e)
  <2> DEFINE stored == IF row[x.s].id = x.snap.id THEN row[x.s].adv ELSE {}
             new == [x EXCEPT !.pc = "compared", !.stored = stored]
  <2>1. row[x.s] \in Row
    BY <1>x DEF TypeOK, Evaluation
  <2>2. stored \in SUBSET Advisories
    BY <2>1 DEF Row
  <2>3. ev' = [ev EXCEPT ![e] = new]
    BY <1>5 DEF EvalCompare
  <2> HIDE DEF stored
  <2>4. new \in Evaluation
    BY <1>x, <2>2 DEF Evaluation
  <2> HIDE DEF new
  <2>5. UNCHANGED <<clock, up, buffer, uploads, sent, row, nextId, raced, topic, faults>>
    BY <1>5 DEF EvalCompare, Stay, dbVars
  <2> QED
    BY <2>3, <2>4, <2>5 DEF TypeOK
<1>6. CASE EvalStore(e)
  <2> DEFINE new == [x EXCEPT !.pc = "stored", !.stamp = clock]
  <2>1. ev' = [ev EXCEPT ![e] = new]
    BY <1>6 DEF EvalStore
  <2>2. new \in Evaluation
    BY <1>x DEF Evaluation, TypeOK
  <2> HIDE DEF new
  <2> QED
    BY <1>6, <2>1, <2>2 DEF EvalStore, TypeOK, Stay, dbVars
<1>7. CASE EvalCommit(e)
  <2> DEFINE r == row[x.s]
             new == Evaluated(r, x)
             done == [x EXCEPT !.pc = "stateless"]
             race == r.json # x.snap.json \/ r.yum # x.snap.yum \/ r.adv # x.stored
  <2>1. x.s \in Systems /\ r \in Row
    BY <1>x DEF TypeOK, Evaluation
  <2>2. new \in Row
    BY <1>x, <2>1, EvaluatedType
  <2>3. done \in Evaluation
    BY <1>x DEF Evaluation
  <2>4. /\ row' = IF r.id = x.snap.id THEN [row EXCEPT ![x.s] = new] ELSE row
        /\ ev' = [ev EXCEPT ![e] = done]
        /\ raced' = [raced EXCEPT ![x.s] = IF r.id = x.snap.id THEN race ELSE @]
        /\ UNCHANGED <<clock, up, buffer, uploads, sent, nextId, topic, faults>>
    BY <1>7 DEF EvalCommit, Stay
  <2>5. race \in BOOLEAN
    OBVIOUS
  <2> HIDE DEF new, done, race, r
  <2>6. raced' \in [Systems -> BOOLEAN]
    BY <2>4, <2>5 DEF TypeOK
  <2> QED
    BY <2>2, <2>3, <2>4, <2>6 DEF TypeOK
<1>8. CASE EvalPublish(e)
  <2>1. ev' \in [Evaluators -> Evaluation]
    BY <1>8, <1>x, ReturnType DEF EvalPublish, Evaluation
  <2> QED
    BY <1>8, <2>1 DEF EvalPublish, TypeOK, Stay, dbVars
<1>9. ASSUME NEW err \in {"plain", "fatal"}, EvalFail(e, err)
      PROVE  TypeOK'
  <2>1. \E s \in Systems : Return(e, s, err)
    BY <1>9, <1>x DEF EvalFail, Evaluation
  <2>2. ev' \in [Evaluators -> Evaluation]
    BY <2>1, ReturnType
  <2>3. faults' \in Nat /\ UNCHANGED <<clock, up, buffer, uploads, sent, row, nextId, raced, topic>>
    BY <1>9 DEF EvalFail, TypeOK, Stay, dbVars
  <2> QED
    BY <2>2, <2>3 DEF TypeOK
<1>10. CASE MessageDone(e)
  BY <1>10, Defaults DEF MessageDone, TypeOK, Stay, dbVars
<1>11. CASE MessageRetry(e)
  <2> DEFINE new == [IdleEvaluation EXCEPT !.pc = "next", !.msg = x.msg,
                                           !.todo = x.msg.systems, !.attempt = x.attempt + 1]
  <2>1. x.msg \in Message /\ x.msg.systems \in SUBSET Systems /\ x.attempt + 1 \in Nat
    BY <1>x DEF Evaluation, Message
  <2>2. new \in Evaluation
    BY <2>1, Defaults DEF Evaluation
  <2>3. ev' = [ev EXCEPT ![e] = new]
    BY <1>11 DEF MessageRetry
  <2> HIDE DEF new
  <2>4. UNCHANGED <<clock, up, buffer, uploads, sent, row, nextId, raced, topic, faults>>
    BY <1>11 DEF MessageRetry, Stay, dbVars
  <2> QED
    BY <2>2, <2>3, <2>4 DEF TypeOK
<1>12. CASE MessagePanic(e)
  BY <1>12, Defaults DEF MessagePanic, TypeOK, Stay, dbVars
<1>13. CASE EvaluatorCrash(e)
  BY <1>13, Defaults DEF EvaluatorCrash, TypeOK, Stay, dbVars
<1> QED
  BY <1>1, <1>2, <1>3, <1>4, <1>5, <1>6, <1>7, <1>8, <1>9, <1>10, <1>11, <1>12, <1>13
     DEF EvaluatorStep

\* Every step, and every stuttering step, preserves the type invariant.
LEMMA NextType == TypeOK /\ [Next]_vars => TypeOK'
<1> SUFFICES ASSUME TypeOK, [Next]_vars PROVE TypeOK'
  OBVIOUS
<1>1. CASE UNCHANGED vars
  BY <1>1 DEF vars, TypeOK
<1>2. CASE Next
  BY <1>2, ListenerType, SharedType, EvaluatorType DEF Next
<1> QED
  BY <1>1, <1>2

\* TypeOK holds in every state of the pipeline.
THEOREM TypeCorrect == Spec => []TypeOK
  BY InitType, NextType, PTL DEF Spec

-----------------------------------------------------------------------------
(* Freshness of "no eval required" *)

\* A transaction that has written the row of a host excludes every other one on it
\* (SELECT ... FOR UPDATE, the unique key), so that what it decided about
\* unchanged_since still fits the committed row when it commits.
WriterFits ==
    /\ \A l1, l2 \in Readers :
          up[l1].pc = "written" /\ up[l2].pc = "written" /\ up[l1].s = up[l2].s => l1 = l2
    /\ \A l \in Readers : up[l].pc = "written" =>
          up[l].since = IF Changed(row[up[l].s], up[l].json, up[l].yum)
                        THEN up[l].begin ELSE row[up[l].s].since

FreshInv == TypeOK /\ WriterFits /\ FreshUnlessRaced

\* WriterFits and FreshUnlessRaced read nothing but the readers, the rows and raced.
LEMMA FreshFrame ==
    ASSUME WriterFits, FreshUnlessRaced, UNCHANGED <<row, up, raced>>
    PROVE  WriterFits' /\ FreshUnlessRaced'
  BY DEF WriterFits, FreshUnlessRaced, Changed, NoEvalRequired

\* A reader that stops, starts or moves on without having written disturbs no writer.
LEMMA ReaderLeaves ==
    ASSUME WriterFits, FreshUnlessRaced, UNCHANGED <<row, raced>>,
           \A l \in Readers : up'[l] = up[l] \/ up'[l].pc # "written"
    PROVE  WriterFits' /\ FreshUnlessRaced'
  BY DEF WriterFits, FreshUnlessRaced, Changed, NoEvalRequired

\* updateSystemPlatform: the new writer is alone on its row.
LEMMA WriteFresh ==
    ASSUME FreshInv, NEW l \in Readers, UploadWrite(l)
    PROVE  WriterFits' /\ FreshUnlessRaced'
<1> DEFINE u == up[l]
           since == IF Changed(row[u.s], u.json, u.yum) THEN u.begin ELSE row[u.s].since
<1>1. /\ UNCHANGED <<row, raced>>
      /\ u \in Upload
      /\ up' = [up EXCEPT ![l].pc = "written", ![l].since = since,
                          ![l].seen = row[u.s].lastEval]
      /\ \A k \in Readers : up[k].pc = "written" => up[k].s # u.s
  BY DEF UploadWrite, dbVars, Locked, FreshInv, TypeOK
<1>2. /\ up'[l].pc = "written" /\ up'[l].s = u.s /\ up'[l].json = u.json
      /\ up'[l].yum = u.yum /\ up'[l].begin = u.begin /\ up'[l].since = since
  BY <1>1 DEF FreshInv, TypeOK, Upload
<1>3. \A k \in Readers \ {l} : up'[k] = up[k]
  BY <1>1 DEF FreshInv, TypeOK
<1>4. FreshUnlessRaced'
  BY <1>1 DEF FreshInv, FreshUnlessRaced, NoEvalRequired
<1>5. \A k \in Readers : up'[k].pc = "written" /\ up'[k].s = u.s => k = l
  BY <1>1, <1>3
<1>6. \A l1, l2 \in Readers :
          up'[l1].pc = "written" /\ up'[l2].pc = "written" /\ up'[l1].s = up'[l2].s => l1 = l2
  BY <1>2, <1>3, <1>5 DEF FreshInv, WriterFits
<1>7. \A k \in Readers : up'[k].pc = "written" =>
          up'[k].since = IF Changed(row[up'[k].s], up'[k].json, up'[k].yum)
                         THEN up'[k].begin ELSE row[up'[k].s].since
  BY <1>2, <1>3 DEF FreshInv, WriterFits
<1>8. row' = row
  BY <1>1
<1>9. WriterFits'
  BY <1>6, <1>7, <1>8 DEF WriterFits, Changed
<1> QED
  BY <1>4, <1>9

\* tx.Commit of an upload: new data either needs an evaluation or is marked raced.
LEMMA CommitFresh ==
    ASSUME FreshInv, NEW l \in Readers, UploadCommit(l)
    PROVE  WriterFits' /\ FreshUnlessRaced'
<1> DEFINE u == up[l]
           r == row[u.s]
           new == [r EXCEPT !.id = IF r.id = 0 THEN nextId ELSE r.id,
                            !.json = u.json, !.yum = u.yum, !.since = u.since]
<1>1. /\ u.pc = "written" /\ u \in Upload /\ u.s \in Systems /\ r \in Row
      /\ row' = [row EXCEPT ![u.s] = new]
      /\ raced' = [raced EXCEPT ![u.s] = IF Changed(r, u.json, u.yum)
                                         THEN u.begin < r.lastEval ELSE @]
      /\ up' = [up EXCEPT ![l].pc = "committed"]
  BY DEF UploadCommit, FreshInv, TypeOK, Upload
<1>2. u.since = IF Changed(r, u.json, u.yum) THEN u.begin ELSE r.since
  BY <1>1 DEF FreshInv, WriterFits
<1>3. /\ new.json = u.json /\ new.yum = u.yum /\ new.since = u.since
      /\ new.lastEval = r.lastEval /\ new.adv = r.adv
      /\ u.begin \in Nat /\ r.lastEval \in Nat
  BY <1>1, PipelineAssumption DEF Row, Upload, Times
<1>4. \A s \in Systems \ {u.s} : row'[s] = row[s] /\ raced'[s] = raced[s]
  BY <1>1 DEF FreshInv, TypeOK
<1>5. row'[u.s] = new /\ raced'[u.s] = IF Changed(r, u.json, u.yum)
                                       THEN u.begin < r.lastEval ELSE raced[u.s]
  BY <1>1 DEF FreshInv, TypeOK
<1> HIDE DEF new
<1>6. WriterFits'
  <2>1. up'[l].pc = "committed" /\ \A k \in Readers \ {l} : up'[k] = up[k]
    BY <1>1 DEF FreshInv, TypeOK, Upload
  <2>2. \A k \in Readers \ {l} : up[k].pc = "written" => up[k].s # u.s
    BY <1>1 DEF FreshInv, WriterFits
  <2>3. \A k \in Readers : up[k].s \in Systems
    BY DEF FreshInv, TypeOK, Upload
  <2>4. \A k \in Readers : up'[k].pc = "written" => k # l /\ up'[k] = up[k]
                                                    /\ row'[up[k].s] = row[up[k].s]
    BY <2>1, <2>2, <2>3, <1>4
  <2> QED
    BY <2>4 DEF FreshInv, WriterFits
<1>7. CASE Changed(r, u.json, u.yum)
  <2>1. NoEvalRequired(new.since, new.lastEval) => raced'[u.s]
    BY <1>2, <1>3, <1>5, <1>7 DEF NoEvalRequired
  <2> QED
    BY <2>1, <1>4, <1>5, <1>6 DEF FreshInv, FreshUnlessRaced, NoEvalRequired
<1>8. CASE ~Changed(r, u.json, u.yum)
  <2>1. /\ r.id # 0 /\ raced'[u.s] = raced[u.s] /\ new.since = r.since
        /\ new.json = r.json /\ new.yum = r.yum
    BY <1>2, <1>3, <1>5, <1>8 DEF Changed
  <2>2. u.s \in Systems /\ row'[u.s] = new
    BY <1>1, <1>5
  <2>3. NoEvalRequired(r.since, r.lastEval) /\ ~raced[u.s] => r.adv = Report(r.json, r.yum)
    BY <2>1, <2>2 DEF FreshInv, FreshUnlessRaced
  <2>4. NoEvalRequired(new.since, new.lastEval) /\ ~raced'[u.s]
            => new.adv = Report(new.json, new.yum)
    BY <2>1, <2>3, <1>3
  <2> HIDE DEF r
  <2> QED
    BY <2>2, <2>4, <1>4, <1>6 DEF FreshInv, FreshUnlessRaced, NoEvalRequired
<1> QED
  BY <1>7, <1>8

\* delete_system waits for the writer of the row and leaves no row behind.
LEMMA DeleteFresh ==
    ASSUME FreshInv, NEW s \in Systems, DeleteSystem(s)
    PROVE  WriterFits' /\ FreshUnlessRaced'
<1>1. /\ \A t \in Systems \ {s} : row'[t] = row[t] /\ raced'[t] = raced[t]
      /\ row'[s].id = 0
      /\ up' = up
      /\ \A l \in Readers : up[l].pc = "written" => up[l].s # s
  BY DEF DeleteSystem, FreshInv, TypeOK, NoRow, Locked
<1>2. \A l \in Readers : up[l].pc = "written" => row'[up[l].s] = row[up[l].s]
  BY <1>1 DEF FreshInv, TypeOK, Upload
<1>3. WriterFits'
  BY <1>1, <1>2 DEF FreshInv, WriterFits, Changed
<1>4. FreshUnlessRaced'
  BY <1>1 DEF FreshInv, FreshUnlessRaced, NoEvalRequired
<1> QED
  BY <1>3, <1>4

\* An evaluation whose data and stored advisories are still the committed ones
\* leaves exactly the reported advisories; any other one is marked raced.
LEMMA EvalCommitFresh ==
    ASSUME FreshInv, NEW e \in Evaluators, EvalCommit(e)
    PROVE  WriterFits' /\ FreshUnlessRaced'
<1> DEFINE x == ev[e]
           r == row[x.s]
           new == Evaluated(r, x)
           rep == Report(x.snap.json, x.snap.yum)
           race == r.json # x.snap.json \/ r.yum # x.snap.yum \/ r.adv # x.stored
<1>1. /\ x \in Evaluation /\ x.s \in Systems /\ r \in Row
      /\ row' = IF r.id = x.snap.id THEN [row EXCEPT ![x.s] = new] ELSE row
      /\ raced' = [raced EXCEPT ![x.s] = IF r.id = x.snap.id THEN race ELSE @]
      /\ up' = up
  BY DEF EvalCommit, Stay, FreshInv, TypeOK, Evaluation
<1>2. /\ new.id = r.id /\ new.json = r.json /\ new.yum = r.yum /\ new.since = r.since
      /\ new.adv = (r.adv \ (x.stored \ rep)) \union (rep \ x.stored)
  BY <1>1 DEF Evaluated, Row
<1>3. ~race => new.adv = Report(r.json, r.yum)
  BY <1>2
<1>4. race \in BOOLEAN
  OBVIOUS
<1> HIDE DEF new, race
<1>5. CASE r.id = x.snap.id
  <2>1. /\ row'[x.s] = new /\ raced'[x.s] = race
        /\ \A s \in Systems \ {x.s} : row'[s] = row[s] /\ raced'[s] = raced[s]
    BY <1>1, <1>5 DEF FreshInv, TypeOK
  <2>2. FreshUnlessRaced'
    BY <1>2, <1>3, <2>1 DEF FreshInv, FreshUnlessRaced, NoEvalRequired
  <2>3. \A l \in Readers : /\ row'[up[l].s].id = row[up[l].s].id
                           /\ row'[up[l].s].json = row[up[l].s].json
                           /\ row'[up[l].s].yum = row[up[l].s].yum
                           /\ row'[up[l].s].since = row[up[l].s].since
    BY <1>2, <2>1 DEF FreshInv, TypeOK, Upload
  <2>4. WriterFits'
    BY <1>1, <2>3 DEF FreshInv, WriterFits, Changed
  <2> QED
    BY <2>2, <2>4
<1>6. CASE r.id # x.snap.id
  <2>1. UNCHANGED <<row, up, raced>>
    BY <1>1, <1>6 DEF FreshInv, TypeOK
  <2> QED
    BY <2>1, FreshFrame DEF FreshInv
<1> QED
  BY <1>5, <1>6

\* FreshInv is inductive.
LEMMA FreshStep == FreshInv /\ [Next]_vars => FreshInv'
<1> SUFFICES ASSUME FreshInv, [Next]_vars PROVE WriterFits' /\ FreshUnlessRaced'
  BY NextType DEF FreshInv
<1>1. ASSUME NEW l \in Readers,
             \/ \E s \in Systems, j \in Jsons, y \in Yums : UploadBegin(l, s, j, y)
             \/ UploadNoEval(l) \/ UploadBuffer(l) \/ UploadFail(l)
      PROVE  WriterFits' /\ FreshUnlessRaced'
  <2>1. UNCHANGED <<row, raced>>
    BY <1>1 DEF UploadBegin, UploadNoEval, UploadBuffer, UploadFail, dbVars
  <2>2. IdleUpload \in Upload /\ IdleUpload.pc = "idle"
    BY Defaults DEF IdleUpload
  <2>3. PICK new \in Upload : up' = [up EXCEPT ![l] = new] /\ new.pc # "written"
    <3>1. ASSUME NEW s \in Systems, NEW j \in Jsons, NEW y \in Yums, UploadBegin(l, s, j, y)
          PROVE  \E new \in Upload : up' = [up EXCEPT ![l] = new] /\ new.pc # "written"
      <4> DEFINE new == [IdleUpload EXCEPT !.pc = "began", !.s = s, !.json = j, !.yum = y,
                                           !.begin = clock]
      <4>1. new \in Upload /\ new.pc = "began"
        BY <2>2 DEF Upload, FreshInv, TypeOK
      <4>2. up' = [up EXCEPT ![l] = new]
        BY <3>1 DEF UploadBegin
      <4> HIDE DEF new
      <4> QED
        BY <4>1, <4>2
    <3>2. CASE UploadNoEval(l) \/ UploadBuffer(l) \/ UploadFail(l)
      BY <2>2, <3>2 DEF UploadNoEval, UploadBuffer, UploadFail
    <3> QED
      BY <1>1, <3>1, <3>2
  <2>4. \A k \in Readers : up'[k] = up[k] \/ up'[k].pc # "written"
    BY <2>3 DEF FreshInv, TypeOK
  <2> QED
    BY <2>1, <2>4, ReaderLeaves DEF FreshInv
<1>2. CASE ListenerCrash
  <2>1. UNCHANGED <<row, raced>> /\ \A k \in Readers : up'[k].pc # "written"
    BY <1>2 DEF ListenerCrash, IdleUpload, dbVars
  <2> QED
    BY <2>1, ReaderLeaves DEF FreshInv
<1>3. CASE Tick \/ Flush \/ FlushFail \/ \E S \in SUBSET Systems : Recalc(S)
  BY <1>3, FreshFrame DEF FreshInv, Tick, Flush, FlushFail, Recalc, dbVars
<1>4. ASSUME NEW e \in Evaluators, EvaluatorStep(e), ~EvalCommit(e)
      PROVE  UNCHANGED <<row, up, raced>>
  BY <1>4 DEF EvaluatorStep, EvalTake, EvalSkip, EvalLoad, EvalNoUpdates, EvalCompare,
              EvalStore, EvalPublish, MessageDone, MessageRetry, MessagePanic, Stay, dbVars
<1>5. ASSUME NEW e \in Evaluators,
             EvaluatorCrash(e) \/ \E err \in {"plain", "fatal"} : EvalFail(e, err)
      PROVE  UNCHANGED <<row, up, raced>>
  BY <1>5 DEF EvaluatorCrash, EvalFail, Stay, dbVars
<1>6. ASSUME NEW e \in Evaluators, EvaluatorStep(e) \/ EvaluatorCrash(e)
                                   \/ \E err \in {"plain", "fatal"} : EvalFail(e, err)
      PROVE  WriterFits' /\ FreshUnlessRaced'
  BY <1>4, <1>5, <1>6, FreshFrame, EvalCommitFresh DEF FreshInv
<1>7. CASE UNCHANGED vars
  BY <1>7, FreshFrame DEF FreshInv, vars
<1>8. CASE Next
  BY <1>1, <1>2, <1>3, <1>6, <1>8, WriteFresh, CommitFresh, DeleteFresh
     DEF Next, ListenerStep
<1> QED
  BY <1>7, <1>8

\* A host that would be answered "no eval required" shows the advisories of its stored
\* data, unless an evaluation overlapped another commit on it: for any number of
\* systems, pods, uploads, faults and any advisory database.
THEOREM Freshness == Spec => []FreshUnlessRaced
<1>1. Init => FreshInv
  <2> SUFFICES ASSUME Init PROVE FreshInv
    OBVIOUS
  <2>1. \A l \in Readers : up[l].pc = "idle"
    BY DEF Init, IdleUpload
  <2>2. \A s \in Systems : row[s].id = 0
    BY DEF Init, NoRow
  <2> QED
    BY <2>1, <2>2, InitType DEF FreshInv, WriterFits, FreshUnlessRaced
<1>2. FreshInv => FreshUnlessRaced
  BY DEF FreshInv
<1> QED
  BY <1>1, <1>2, FreshStep, PTL DEF Spec

=============================================================================
