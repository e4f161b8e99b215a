------------------------- MODULE TemplateSyncProofs -------------------------
(***************************************************************************)
(* Theorems about TemplateSync, for any templates, systems, advisories,    *)
(* readers, requests and evaluators: type correctness, that Candlepin and  *)
(* system_patch agree on the template of a system, that what a system      *)
(* shows as installable is what its template contains, and that a stored   *)
(* template is what Content Sources has, each with the exceptions its      *)
(* invariant names.                                                        *)
(***************************************************************************)
EXTENDS TemplateSync, FiniteSetTheorems, FunctionTheorems, SequenceTheorems, TLAPS

\* Ids of templates are given out once.
IdsBelow ==
    /\ \A t \in Templates : tmpl[t].id < nextId
    /\ \A s \in Systems : tid[s] < nextId
    /\ \A m \in Requests : mgr[m].id < nextId
    /\ upl.id < nextId

IdsUnique == \A t, u \in Templates : tmpl[t].id = tmpl[u].id /\ tmpl[t].id # 0 => t = u

\* The invariant about ids that the others rest on.
IdInv == TypeOK /\ IdsBelow /\ IdsUnique

\* A request has the id of the template it assigns; nobody else gets that id.
RequestShape ==
    \A m \in Requests :
        /\ mgr[m].pc = "idle" => mgr[m].S = {}
        /\ mgr[m].to = None => mgr[m].id = 0
        /\ mgr[m].to # None => /\ mgr[m].id # 0
                               /\ \A t \in Templates : tmpl[t].id = mgr[m].id => t = mgr[m].to

\* Requests and the upload that are at the same system know of each other.
OverlapKnown ==
    /\ \A m, n \in Requests : m # n /\ mgr[m].S \intersect mgr[n].S # {} => mgr[m].over
    /\ \A m \in Requests : upl.pc # "idle" /\ upl.s \in mgr[m].S => upl.over

\* What a request wrote to Candlepin stays until it writes system_patch.
AssignedSticks ==
    \A m \in Requests : mgr[m].pc = "assigned" /\ ~mgr[m].over =>
        \A s \in mgr[m].S : env[s] = mgr[m].to

\* The template an upload read is the one of the environment of the host.
UploadSticks ==
    upl.pc = "read" /\ upl.id # 0 /\ ~upl.over =>
        \A t \in Templates : tmpl[t].id = upl.id => env[upl.s] = t

\* The inductive invariant behind AssignmentAgreesUnlessApart.
AgreeInv ==
    /\ IdInv /\ RequestShape /\ OverlapKnown
    /\ AssignedSticks /\ UploadSticks /\ AssignmentAgreesUnlessApart

\* What a new evaluation of s would show.
Shown(s) == Installable(tid[s])

\* An evaluation of s is asked for, will be, or was missed.
Announced(s) ==
    \/ s \in requests \union missed
    \/ \E m \in Requests : mgr[m].pc = "stored" /\ s \in mgr[m].S
    \/ \E r \in Readers : rd[r].pc = "recalc" /\ rd[r].id = tid[s]

\* Somebody else than evaluator e will see to system s.
Excused(e, s) ==
    \/ Announced(s)
    \/ \E f \in Evaluators \ {e} : ev[f].pc # "idle" /\ ev[f].s = s

\* An evaluation has the template of its system, and then its advisories, unless it was
\* overtaken, when it says so itself, or another evaluation comes.
EvaluationCurrent ==
    \A e \in Evaluators, s \in Systems : ev[e].s = s /\ ~ev[e].over =>
        /\ ev[e].pc = "loaded" /\ ev[e].id # tid[s] => Excused(e, s)
        /\ ev[e].pc = "read" /\ ev[e].found # Shown(s) => Excused(e, s)

\* The inductive invariant behind InstallableCurrentUnlessMissed.
InstallableInv == IdInv /\ EvaluationCurrent /\ InstallableCurrentUnlessMissed

\* An event for template t is waiting.
Queued(t) == \E i \in 1 .. Len(events) : events[i].t = t

\* Template t is as Content Sources has it.
CurrentTemplate(t) ==
    (tmpl[t].id # 0) = (cs[t].state = "live") /\ tmpl[t].adv = cs[t].adv \intersect known

\* Stored advisories are known, a template without a row has none, one that is gone neither.
AdvisoriesShape ==
    /\ \A t \in Templates : /\ tmpl[t].adv \subseteq known
                            /\ tmpl[t].id = 0 => tmpl[t].adv = {}
                            /\ cs[t].state = "gone" => cs[t].adv = {}
    /\ \A r \in Readers : rd[r].add \subseteq known

\* A template whose "deleted" is on its way is gone for good.
DeletedIsGone ==
    /\ \A i \in 1 .. Len(events) : events[i].type = "deleted" => cs[events[i].t].state = "gone"
    /\ \A r \in Readers : rd[r].pc # "idle" /\ rd[r].event.type = "deleted" => cs[T(r)].state = "gone"

\* Two readers at a template, or one at its "created", leave it lagging.
SharedLags ==
    /\ \A q, r \in Readers : q # r /\ rd[q].pc # "idle" /\ rd[r].pc # "idle" /\ T(q) = T(r)
                                => T(r) \in lagging
    /\ \A r \in Readers : rd[r].pc # "idle" /\ rd[r].event.type = "created" => T(r) \in lagging

\* The steps an event takes.
HandlingShape ==
    \A r \in Readers :
        /\ rd[r].pc \in {"lookup", "announce", "unassign", "strip", "delete"}
               => rd[r].event.type = "deleted"
        /\ rd[r].pc = "upsert" => rd[r].event.type # "deleted"
        /\ rd[r].pc \notin {"idle", "upsert", "lookup"} => rd[r].id # 0

\* Reader r will make its template current, or has done so.
OnCourse(r) ==
    /\ rd[r].pc \notin {"idle", "upsert", "lookup"} => rd[r].id = tmpl[T(r)].id
    /\ rd[r].pc = "diff" => cs[T(r)].state = "live" /\ rd[r].cur = cs[T(r)].adv
    /\ rd[r].pc = "apply" => /\ cs[T(r)].state = "live"
                             /\ (tmpl[T(r)].adv \ rd[r].rem) \union rd[r].add
                                    = cs[T(r)].adv \intersect known
    /\ rd[r].pc = "recalc" => CurrentTemplate(T(r))

HandlingOnCourse ==
    \A r \in Readers : rd[r].pc # "idle" /\ T(r) \notin lagging /\ ~Queued(T(r)) => OnCourse(r)

\* The inductive invariant behind TemplateCurrentUnlessLagging.
TemplateInv ==
    /\ IdInv /\ AdvisoriesShape /\ DeletedIsGone /\ SharedLags
    /\ HandlingShape /\ HandlingOnCourse /\ TemplateCurrentUnlessLagging

-----------------------------------------------------------------------------
(* Types *)

\* The records of those who have nothing to do have their types.
LEMMA Defaults ==
    /\ NoHandling \in Handling /\ NoRequest \in Request
    /\ NoUpload \in Upload /\ NoEvaluation \in Evaluation
<1>1. (CHOOSE t \in Templates : TRUE) \in Templates /\ (CHOOSE s \in Systems : TRUE) \in Systems
  BY TemplateAssumption
<1> QED
  BY <1>1 DEF NoHandling, Handling, NoEvent, Event, NoRequest, Request, NoUpload, Upload,
              NoEvaluation, Evaluation, Environments

\* The ids of templates that were stored before are distinct.
LEMMA FirstIds ==
    /\ Cardinality(Templates) \in Nat
    /\ FirstId \in [Templates -> 1 .. Cardinality(Templates)]
    /\ \A t, u \in Templates : FirstId[t] = FirstId[u] => t = u
<1>1. Cardinality(Templates) \in Nat /\ ExistsBijection(1 .. Cardinality(Templates), Templates)
  BY TemplateAssumption, FS_CardinalityType
<1>2. ExistsBijection(Templates, 1 .. Cardinality(Templates))
  BY <1>1, Fun_ExistsBijSymmetric
<1>3. \E f \in [Templates -> 1 .. Cardinality(Templates)] :
          \A t, u \in Templates : f[t] = f[u] => t = u
  BY <1>2, Zenon DEF ExistsBijection, Bijection, Injection, IsInjective
<1> QED
  BY <1>1, <1>3 DEF FirstId

\* The type invariant by the parts of the state an action may change.
OutsideType ==
    /\ cs \in [Templates -> [state : {"new", "live", "gone"}, adv : SUBSET Advisories]]
    /\ known \subseteq Advisories /\ env \in [Systems -> Environments]
RowsType == tmpl \in [Templates -> [id : Nat, adv : SUBSET Advisories]] /\ nextId \in Nat \ {0}
TidType == tid \in [Systems -> Nat]
InstType == inst \in [Systems -> SUBSET Advisories]
EventsType == events \in Seq(Event)
ReaderType == rd \in [Readers -> Handling]
ManagerType == mgr \in [Requests -> Request]
UploadType == upl \in Upload
RequestsType == requests \subseteq Systems
EvaluatorType == ev \in [Evaluators -> Evaluation]
MissedType == missed \subseteq Systems
ApartType == apart \subseteq Systems
LaggingType == lagging \subseteq Templates
BoundType == changes \in Nat /\ faults \in Nat

\* The parts make up the type invariant, before and after a step.
LEMMA TypeParts ==
    /\ TypeOK <=> /\ OutsideType /\ RowsType /\ TidType /\ InstType /\ EventsType /\ ReaderType
                  /\ ManagerType /\ UploadType /\ RequestsType /\ EvaluatorType
                  /\ MissedType /\ ApartType /\ LaggingType /\ BoundType
    /\ TypeOK' <=> /\ OutsideType' /\ RowsType' /\ TidType' /\ InstType' /\ EventsType'
                   /\ ReaderType' /\ ManagerType' /\ UploadType' /\ RequestsType'
                   /\ EvaluatorType' /\ MissedType' /\ ApartType' /\ LaggingType' /\ BoundType'
BY Zenon DEF TypeOK, OutsideType, RowsType, TidType, InstType, EventsType, ReaderType, ManagerType,
   UploadType, RequestsType, EvaluatorType, MissedType, ApartType, LaggingType, BoundType

\* A part that a step leaves alone keeps its type.
LEMMA PartsKept ==
    /\ OutsideType /\ UNCHANGED outside => OutsideType'
    /\ RowsType /\ UNCHANGED <<tmpl, nextId>> => RowsType'
    /\ TidType /\ UNCHANGED tid => TidType'
    /\ InstType /\ UNCHANGED inst => InstType'
    /\ EventsType /\ UNCHANGED events => EventsType'
    /\ ReaderType /\ UNCHANGED rd => ReaderType'
    /\ ManagerType /\ UNCHANGED mgr => ManagerType'
    /\ UploadType /\ UNCHANGED upl => UploadType'
    /\ RequestsType /\ UNCHANGED requests => RequestsType'
    /\ EvaluatorType /\ UNCHANGED ev => EvaluatorType'
    /\ MissedType /\ UNCHANGED missed => MissedType'
    /\ ApartType /\ UNCHANGED apart => ApartType'
    /\ LaggingType /\ UNCHANGED lagging => LaggingType'
    /\ BoundType /\ UNCHANGED bounds => BoundType'
<1>1. /\ OutsideType /\ UNCHANGED outside => OutsideType'
      /\ RowsType /\ UNCHANGED <<tmpl, nextId>> => RowsType'
  BY Zenon DEF OutsideType, RowsType, outside
<1>2. /\ TidType /\ UNCHANGED tid => TidType'
      /\ InstType /\ UNCHANGED inst => InstType'
      /\ EventsType /\ UNCHANGED events => EventsType'
      /\ ReaderType /\ UNCHANGED rd => ReaderType'
      /\ ManagerType /\ UNCHANGED mgr => ManagerType'
      /\ UploadType /\ UNCHANGED upl => UploadType'
  BY Zenon DEF TidType, InstType, EventsType, ReaderType, ManagerType, UploadType
<1>3. /\ RequestsType /\ UNCHANGED requests => RequestsType'
      /\ EvaluatorType /\ UNCHANGED ev => EvaluatorType'
      /\ MissedType /\ UNCHANGED missed => MissedType'
      /\ ApartType /\ UNCHANGED apart => ApartType'
      /\ LaggingType /\ UNCHANGED lagging => LaggingType'
      /\ BoundType /\ UNCHANGED bounds => BoundType'
  BY Zenon DEF RequestsType, EvaluatorType, MissedType, ApartType, LaggingType, BoundType, bounds
<1> QED
  BY <1>1, <1>2, <1>3, Zenon

\* The counters stay numbers.
LEMMA BoundKept ==
    ASSUME BoundType, Change \/ UNCHANGED changes, Fault \/ UNCHANGED faults
    PROVE  BoundType'
BY DEF BoundType, Change, Fault

\* The initial state has the types.
LEMMA InitType == Init => TypeOK
<1> SUFFICES ASSUME Init
             PROVE  TypeOK
  OBVIOUS
<1>1. OutsideType
  BY DEF Init, OutsideType, Environments
<1>2. RowsType
  BY <1>1, FirstIds DEF Init, RowsType, NoTemplate, OutsideType
<1>3. TidType /\ InstType /\ EventsType
  BY DEF Init, TidType, InstType, EventsType
<1>4. ReaderType /\ ManagerType /\ UploadType /\ EvaluatorType
  BY Defaults DEF Init, ReaderType, ManagerType, UploadType, EvaluatorType
<1>5. RequestsType /\ MissedType /\ ApartType /\ LaggingType /\ BoundType
  BY DEF Init, RequestsType, MissedType, ApartType, LaggingType, BoundType
<1> QED
  BY <1>1, <1>2, <1>3, <1>4, <1>5, TypeParts

\* An id that is looked up is a number.
LEMMA IdType ==
    ASSUME TypeOK, NEW x \in Environments
    PROVE  TemplateOf(x) \in Nat
BY DEF TypeOK, TemplateOf, Environments

\* Touching a system changes no more than the marks of requests and of the upload.
LEMMA TouchType ==
    ASSUME TypeOK, NEW S, NEW me
    PROVE  /\ Touch(S, me) \in [Requests -> Request]
           /\ \A m \in Requests :
                 /\ Touch(S, me)[m].pc = mgr[m].pc /\ Touch(S, me)[m].S = mgr[m].S
                 /\ Touch(S, me)[m].to = mgr[m].to /\ Touch(S, me)[m].id = mgr[m].id
                 /\ Touch(S, me)[m].over
                       <=> mgr[m].over \/ (m # me /\ mgr[m].S \intersect S # {})
           /\ TouchUpload(S) \in Upload
           /\ TouchUpload(S).pc = upl.pc /\ TouchUpload(S).s = upl.s /\ TouchUpload(S).id = upl.id
           /\ TouchUpload(S).over <=> upl.over \/ (upl.pc # "idle" /\ upl.s \in S)
<1>1. mgr \in [Requests -> Request] /\ upl \in Upload
  BY DEF TypeOK
<1>2. ASSUME NEW m \in Requests
      PROVE  /\ Touch(S, me)[m] \in Request
             /\ Touch(S, me)[m].pc = mgr[m].pc /\ Touch(S, me)[m].S = mgr[m].S
             /\ Touch(S, me)[m].to = mgr[m].to /\ Touch(S, me)[m].id = mgr[m].id
             /\ Touch(S, me)[m].over
                   <=> mgr[m].over \/ (m # me /\ mgr[m].S \intersect S # {})
  <2> DEFINE b == [mgr[m] EXCEPT !.over = TRUE]
  <2>1. /\ b \in Request /\ b.pc = mgr[m].pc /\ b.S = mgr[m].S /\ b.to = mgr[m].to
        /\ b.id = mgr[m].id /\ b.over = TRUE /\ mgr[m].over \in BOOLEAN /\ mgr[m] \in Request
    BY <1>1 DEF Request
  <2>2. Touch(S, me)[m] = IF m # me /\ mgr[m].S \intersect S # {} THEN b ELSE mgr[m]
    BY DEF Touch
  <2> HIDE DEF b
  <2>3. CASE m # me /\ mgr[m].S \intersect S # {}
    BY <2>1, <2>2, <2>3
  <2>4. CASE ~(m # me /\ mgr[m].S \intersect S # {})
    BY <2>1, <2>2, <2>4
  <2> QED
    BY <2>3, <2>4
<1>3. Touch(S, me) \in [Requests -> Request]
  BY <1>2 DEF Touch
<1>4. /\ TouchUpload(S) \in Upload
      /\ TouchUpload(S).pc = upl.pc /\ TouchUpload(S).s = upl.s /\ TouchUpload(S).id = upl.id
      /\ TouchUpload(S).over <=> upl.over \/ (upl.pc # "idle" /\ upl.s \in S)
  BY <1>1 DEF TouchUpload, Upload
<1> QED
  BY <1>2, <1>3, <1>4

\* The steps of the world outside.
LEMMA ExternalType ==
    ASSUME TypeOK,
           \/ \E t \in Templates, adv \in SUBSET Advisories : CsCreate(t, adv) \/ CsUpdate(t, adv)
           \/ \E t \in Templates : CsDelete(t)
           \/ \E a \in Advisories : AdvisorySynced(a)
           \/ \E s \in Systems, x \in Environments : EnvChange(s, x)
    PROVE  TypeOK'
<1> USE TypeParts
<1>1. ASSUME External
      PROVE  /\ RowsType' /\ TidType' /\ InstType' /\ ReaderType' /\ RequestsType'
             /\ EvaluatorType' /\ MissedType' /\ BoundType'
  BY <1>1, PartsKept, BoundKept DEF External
<1>2. ASSUME NEW t \in Templates, NEW type \in {"created", "updated", "deleted"},
             Announce(type, t)
      PROVE  EventsType'
  BY <1>2 DEF Announce, EventsType, Event
<1>3. ASSUME NEW t \in Templates, NEW adv \in SUBSET Advisories, CsCreate(t, adv)
      PROVE  TypeOK'
  <2>1. OutsideType'
    BY <1>3 DEF CsCreate, OutsideType
  <2> QED
    BY <1>1, <1>2, <1>3, <2>1, PartsKept DEF CsCreate
<1>4. ASSUME NEW t \in Templates, NEW adv \in SUBSET Advisories, CsUpdate(t, adv)
      PROVE  TypeOK'
  <2>1. OutsideType'
    BY <1>4 DEF CsUpdate, OutsideType
  <2> QED
    BY <1>1, <1>2, <1>4, <2>1, PartsKept DEF CsUpdate
<1>5. ASSUME NEW t \in Templates, CsDelete(t)
      PROVE  TypeOK'
  <2>1. OutsideType'
    BY <1>5 DEF CsDelete, OutsideType
  <2> QED
    BY <1>1, <1>2, <1>5, <2>1, PartsKept DEF CsDelete
<1>6. ASSUME NEW a \in Advisories, AdvisorySynced(a)
      PROVE  TypeOK'
  <2>1. OutsideType' /\ LaggingType'
    BY <1>6 DEF AdvisorySynced, OutsideType, LaggingType
  <2> QED
    BY <1>1, <1>6, <2>1, PartsKept DEF AdvisorySynced
<1>7. ASSUME NEW s \in Systems, NEW x \in Environments, EnvChange(s, x)
      PROVE  TypeOK'
  <2>1. OutsideType' /\ ApartType'
    BY <1>7 DEF EnvChange, OutsideType, ApartType
  <2>2. ManagerType' /\ UploadType'
    BY <1>7, TouchType DEF EnvChange, ManagerType, UploadType
  <2> QED
    BY <1>1, <1>7, <2>1, <2>2, PartsKept DEF EnvChange
<1> QED
  BY <1>3, <1>4, <1>5, <1>6, <1>7

\* The sets of systems and advisories a handler works with.
LEMMA SetTypes ==
    ASSUME TypeOK
    PROVE  /\ \A i : Assigned(i) \subseteq Systems /\ AdvisoriesOf(i) \subseteq Advisories
           /\ \A i : Installable(i) \subseteq Advisories
           /\ \A r \in Readers : T(r) \in Templates /\ rd[r] \in Handling
<1>1. \A i : Assigned(i) \subseteq Systems
  BY DEF Assigned
<1>2. \A i : AdvisoriesOf(i) \subseteq Advisories
  BY DEF AdvisoriesOf, TypeOK
<1>3. \A i : Installable(i) \subseteq Advisories
  BY <1>2 DEF Installable
<1>4. \A r \in Readers : T(r) \in Templates /\ rd[r] \in Handling
  BY DEF TypeOK, Handling, Event, T
<1> QED
  BY <1>1, <1>2, <1>3, <1>4

\* The steps of an event that brings a template up to date.
LEMMA UpdateType ==
    ASSUME TypeOK, NEW r \in Readers,
           \/ TakeEvent(r) \/ TemplateUpsert(r) \/ FetchAdvisories(r) \/ FetchNotFound(r)
           \/ DiffAdvisories(r) \/ ApplyAdvisories(r) \/ SendTemplateRecalc(r)
    PROVE  TypeOK'
<1> USE TypeParts
<1>0. ASSUME ListenerOnly
      PROVE  /\ OutsideType' /\ InstType' /\ ManagerType' /\ UploadType' /\ EvaluatorType'
             /\ (UNCHANGED faults => BoundType')
  BY <1>0, PartsKept, BoundKept DEF ListenerOnly, outside
<1>a. T(r) \in Templates /\ rd[r] \in Handling /\ NoHandling \in Handling
  BY SetTypes, Defaults
<1>b. ASSUME NEW h \in Handling, rd' = [rd EXCEPT ![r] = h]
      PROVE  ReaderType'
  BY <1>b DEF ReaderType
<1>c. ASSUME Finish(r)
      PROVE  ReaderType'
  BY <1>a, <1>b, <1>c DEF Finish
<1>1. CASE TakeEvent(r)
  <2>1. Head(events) \in Event /\ Tail(events) \in Seq(Event)
    BY <1>1 DEF TakeEvent, EventsType
  <2> DEFINE h == [NoHandling EXCEPT !.event = Head(events),
                     !.pc = IF Head(events).type = "deleted" THEN "lookup" ELSE "upsert"]
  <2>2. h \in Handling
    BY <1>a, <2>1 DEF Handling
  <2>3. rd' = [rd EXCEPT ![r] = h] /\ events' = Tail(events)
    BY <1>1 DEF TakeEvent
  <2> HIDE DEF h
  <2>4. ReaderType' /\ EventsType'
    BY <1>b, <2>1, <2>2, <2>3 DEF EventsType
  <2>5. LaggingType'
    BY <1>1, <2>1 DEF TakeEvent, LaggingType, Event
  <2> QED
    BY <1>0, <1>1, <2>4, <2>5, PartsKept DEF TakeEvent
<1>2. CASE TemplateUpsert(r)
  <2> DEFINE id == IF tmpl[T(r)].id = 0 THEN nextId ELSE tmpl[T(r)].id
  <2>1. id \in Nat
    BY <1>a DEF RowsType
  <2> DEFINE h == [rd[r] EXCEPT !.pc = "fetch", !.id = id]
  <2>2. h \in Handling
    BY <1>a, <2>1 DEF Handling
  <2>3. /\ tmpl' = [tmpl EXCEPT ![T(r)].id = id]
        /\ nextId' = IF tmpl[T(r)].id = 0 THEN nextId + 1 ELSE nextId
        /\ rd' = [rd EXCEPT ![r] = IF rd[r].event.type = "updated" THEN h ELSE NoHandling]
    BY <1>2 DEF TemplateUpsert, ReaderType
  <2>4. ApartType'
    BY <1>2 DEF TemplateUpsert, ApartType
  <2> HIDE DEF id, h
  <2>5. RowsType'
    BY <1>a, <2>1, <2>3 DEF RowsType
  <2>6. ReaderType'
    BY <1>a, <1>b, <2>2, <2>3
  <2> QED
    BY <1>0, <1>2, <2>4, <2>5, <2>6, PartsKept DEF TemplateUpsert
<1>3. CASE FetchAdvisories(r)
  <2> DEFINE h == [rd[r] EXCEPT !.pc = "diff", !.cur = cs[T(r)].adv]
  <2>1. h \in Handling
    BY <1>a DEF Handling, OutsideType
  <2>2. rd' = [rd EXCEPT ![r] = h]
    BY <1>3 DEF FetchAdvisories, ReaderType, Handling
  <2> HIDE DEF h
  <2>3. ReaderType'
    BY <1>b, <2>1, <2>2
  <2> QED
    BY <1>0, <1>3, <2>3, PartsKept DEF FetchAdvisories, hist
<1>4. CASE FetchNotFound(r)
  <2>1. LaggingType'
    BY <1>4, <1>a DEF FetchNotFound, LaggingType
  <2> QED
    BY <1>0, <1>c, <1>4, <2>1, PartsKept DEF FetchNotFound
<1>5. CASE DiffAdvisories(r)
  <2> DEFINE stored == AdvisoriesOf(rd[r].id)
             add == ToAdd(stored, rd[r].cur)
             rem == ToRemove(stored, rd[r].cur)
             h == [rd[r] EXCEPT !.pc = "apply", !.add = add \intersect known, !.rem = rem]
  <2>1. h \in Handling
    <3>1. add \subseteq Advisories /\ rem \subseteq Advisories
      BY <1>a, SetTypes DEF Handling, ToAdd, ToRemove
    <3> HIDE DEF add, rem
    <3> QED
      BY <1>a, <3>1 DEF Handling
  <2>2. rd' = [rd EXCEPT ![r] = IF add = {} /\ rem = {} THEN NoHandling ELSE h]
    BY <1>5 DEF DiffAdvisories
  <2> HIDE DEF h, add, rem
  <2>3. ReaderType'
    BY <1>a, <1>b, <2>1, <2>2
  <2> QED
    BY <1>0, <1>5, <2>3, PartsKept DEF DiffAdvisories, hist
<1>6. CASE ApplyAdvisories(r)
  <2>1. RowsType'
    BY <1>6, <1>a DEF ApplyAdvisories, RowsType, Handling
  <2>2. ASSUME Step(r, "recalc")
        PROVE  ReaderType'
    BY <1>a, <2>2 DEF Step, ReaderType, Handling
  <2>3. ReaderType'
    BY <1>6, <1>c, <2>2 DEF ApplyAdvisories
  <2> QED
    BY <1>0, <1>6, <2>1, <2>3, PartsKept DEF ApplyAdvisories, hist
<1>7. CASE SendTemplateRecalc(r)
  <2>1. RequestsType'
    BY <1>7, SetTypes DEF SendTemplateRecalc, RequestsType
  <2> QED
    BY <1>0, <1>c, <1>7, <2>1, PartsKept DEF SendTemplateRecalc, hist
<1> QED
  BY <1>1, <1>2, <1>3, <1>4, <1>5, <1>6, <1>7

\* The steps of an event that deletes a template, and its failures.
LEMMA DeleteType ==
    ASSUME TypeOK, NEW r \in Readers,
           \/ LookupTemplate(r) \/ AnnounceDelete(r) \/ AnnounceLost(r) \/ UnassignSystems(r)
           \/ DeleteTemplateAdvisories(r) \/ DeleteTemplate(r) \/ TemplateEventFails(r)
    PROVE  TypeOK'
<1> USE TypeParts
<1>0. ASSUME ListenerOnly
      PROVE  /\ OutsideType' /\ InstType' /\ ManagerType' /\ UploadType' /\ EvaluatorType'
             /\ (Fault \/ UNCHANGED faults => BoundType')
  BY <1>0, PartsKept, BoundKept DEF ListenerOnly, outside
<1>a. T(r) \in Templates /\ rd[r] \in Handling /\ NoHandling \in Handling
  BY SetTypes, Defaults
<1>b. ASSUME NEW h \in Handling, rd' = [rd EXCEPT ![r] = h]
      PROVE  ReaderType'
  BY <1>b DEF ReaderType
<1>c. ASSUME Finish(r)
      PROVE  ReaderType'
  BY <1>a, <1>b, <1>c DEF Finish
<1>d. ASSUME NEW pc \in {"unassign", "strip", "delete"}, Step(r, pc)
      PROVE  ReaderType'
  BY <1>a, <1>d DEF Step, ReaderType, Handling
<1>1. CASE LookupTemplate(r)
  <2> DEFINE h == [rd[r] EXCEPT !.pc = "announce", !.id = tmpl[T(r)].id]
  <2>1. h \in Handling
    BY <1>a DEF Handling, RowsType
  <2>2. rd' = [rd EXCEPT ![r] = IF tmpl[T(r)].id = 0 THEN NoHandling ELSE h]
    BY <1>1 DEF LookupTemplate
  <2> HIDE DEF h
  <2>3. ReaderType'
    BY <1>a, <1>b, <2>1, <2>2
  <2> QED
    BY <1>0, <1>1, <2>3, PartsKept DEF LookupTemplate, hist
<1>2. CASE AnnounceDelete(r)
  <2>1. RequestsType'
    BY <1>2, SetTypes DEF AnnounceDelete, RequestsType
  <2> QED
    BY <1>0, <1>d, <1>2, <2>1, PartsKept DEF AnnounceDelete, hist
<1>3. CASE AnnounceLost(r)
  BY <1>0, <1>d, <1>3, PartsKept DEF AnnounceLost, hist
<1>4. CASE UnassignSystems(r)
  <2>1. TidType' /\ MissedType' /\ ApartType'
    BY <1>4, SetTypes DEF UnassignSystems, TidType, MissedType, ApartType
  <2> QED
    BY <1>0, <1>d, <1>4, <2>1, PartsKept DEF UnassignSystems
<1>5. CASE DeleteTemplateAdvisories(r)
  <2>1. RowsType' /\ MissedType'
    BY <1>5, <1>a, SetTypes DEF DeleteTemplateAdvisories, RowsType, MissedType
  <2> QED
    BY <1>0, <1>d, <1>5, <2>1, PartsKept DEF DeleteTemplateAdvisories
<1>6. CASE DeleteTemplate(r)
  <2>1. RowsType' /\ LaggingType'
    BY <1>6, <1>a DEF DeleteTemplate, RowsType, LaggingType, NoTemplate
  <2> QED
    BY <1>0, <1>c, <1>6, <2>1, PartsKept DEF DeleteTemplate
<1>7. CASE TemplateEventFails(r)
  <2>1. <<rd[r].event>> \o events \in Seq(Event)
    BY <1>a DEF Handling, EventsType
  <2>2. EventsType'
    BY <1>7, <2>1 DEF TemplateEventFails, EventsType
  <2>3. LaggingType' /\ MissedType'
    BY <1>7, <1>a, SetTypes DEF TemplateEventFails, LaggingType, MissedType
  <2> QED
    BY <1>0, <1>c, <1>7, <2>2, <2>3, PartsKept DEF TemplateEventFails
<1> QED
  BY <1>1, <1>2, <1>3, <1>4, <1>5, <1>6, <1>7

\* The steps of the requests to the manager.
ManagerSteps(m) ==
    \/ \E S \in SUBSET Systems :
           TemplateSystemsDelete(m, S) \/ \E t \in Templates : TemplateSystemsUpdate(m, S, t)
    \/ \E s \in Systems, t \in Templates : TemplateSubscribedSystemsUpdate(m, s, t)
    \/ RequestStep(m) \/ CandlepinFails(m) \/ AssignStoreFails(m) \/ AssignRecalcFails(m)

\* A request starts in one way, however it was made.
LEMMA Starts ==
    ASSUME NEW m,
           \/ \E S \in SUBSET Systems :
                TemplateSystemsDelete(m, S) \/ \E t \in Templates : TemplateSystemsUpdate(m, S, t)
           \/ \E s \in Systems, t \in Templates : TemplateSubscribedSystemsUpdate(m, s, t)
    PROVE  \E S \in SUBSET Systems, x \in Environments :
               (x # None => TemplateFound(x)) /\ CheckedRequest(m, S, x)
<1>1. ASSUME NEW S \in SUBSET Systems, TemplateSystemsDelete(m, S)
      PROVE  \E U \in SUBSET Systems, x \in Environments :
               (x # None => TemplateFound(x)) /\ CheckedRequest(m, U, x)
  BY <1>1 DEF TemplateSystemsDelete, Environments
<1>2. ASSUME NEW S \in SUBSET Systems, NEW t \in Templates, TemplateSystemsUpdate(m, S, t)
      PROVE  \E U \in SUBSET Systems, x \in Environments :
               (x # None => TemplateFound(x)) /\ CheckedRequest(m, U, x)
  BY <1>2 DEF TemplateSystemsUpdate, Environments
<1>3. ASSUME NEW s \in Systems, NEW t \in Templates, TemplateSubscribedSystemsUpdate(m, s, t)
      PROVE  \E U \in SUBSET Systems, x \in Environments :
               (x # None => TemplateFound(x)) /\ CheckedRequest(m, U, x)
  <2>1. {s} \in SUBSET Systems /\ t \in Environments
    BY DEF Environments
  <2> QED
    BY <1>3, <2>1 DEF TemplateSubscribedSystemsUpdate
<1> QED
  BY <1>1, <1>2, <1>3

\* What a request is when it starts.
LEMMA StartedRequest ==
    ASSUME TypeOK, NEW m \in Requests, NEW S \in SUBSET Systems, NEW x \in Environments,
           CheckedRequest(m, S, x)
    PROVE  /\ mgr' \in [Requests -> Request]
           /\ mgr'[m] = [pc |-> "checked", S |-> S, to |-> x, id |-> TemplateOf(x),
                         over |-> Busy(S)]
           /\ \A n \in Requests \ {m} : mgr'[n] = Touch(S, m)[n]
           /\ upl' = TouchUpload(S)
<1> DEFINE new == [pc |-> "checked", S |-> S, to |-> x, id |-> TemplateOf(x), over |-> Busy(S)]
<1>1. Busy(S) \in BOOLEAN /\ TemplateOf(x) \in Nat
  BY IdType DEF Busy
<1>2. new \in Request
  BY <1>1 DEF Request
<1>3. mgr' = [Touch(S, m) EXCEPT ![m] = new] /\ upl' = TouchUpload(S)
  BY DEF CheckedRequest
<1> HIDE DEF new
<1>4. /\ mgr' \in [Requests -> Request] /\ mgr'[m] = new
      /\ \A n \in Requests \ {m} : mgr'[n] = Touch(S, m)[n]
  BY <1>2, <1>3, TouchType
<1> QED
  BY <1>3, <1>4 DEF new

\* The steps of the requests have the types.
LEMMA ManagerStepType ==
    ASSUME TypeOK, NEW m \in Requests, ManagerSteps(m)
    PROVE  TypeOK'
<1> USE TypeParts
<1>0. ASSUME ManagerOnly
      PROVE  /\ (UNCHANGED env => OutsideType') /\ RowsType' /\ InstType' /\ EventsType'
             /\ ReaderType' /\ EvaluatorType' /\ LaggingType'
  BY <1>0, PartsKept DEF ManagerOnly, outside
<1>a. mgr[m] \in Request /\ NoRequest \in Request
  BY Defaults DEF ManagerType
<1>b. ASSUME NEW q \in Request, mgr' = [mgr EXCEPT ![m] = q]
      PROVE  ManagerType'
  BY <1>b DEF ManagerType
<1>c. ASSUME NEW pc \in {"assigned", "stored"}, mgr' = [mgr EXCEPT ![m].pc = pc]
      PROVE  ManagerType'
  BY <1>a, <1>c DEF ManagerType, Request
<1>d. ASSUME env' \in {env, [s \in Systems |-> IF s \in mgr[m].S THEN mgr[m].to ELSE env[s]]},
             ManagerOnly
      PROVE  OutsideType'
  BY <1>a, <1>d DEF OutsideType, Request, ManagerOnly
<1>1. ASSUME NEW S \in SUBSET Systems, NEW x \in Environments, CheckedRequest(m, S, x)
      PROVE  TypeOK'
  <2>1. ManagerType' /\ UploadType'
    BY <1>1, StartedRequest, TouchType DEF ManagerType, UploadType
  <2>2. BoundType'
    BY <1>1, BoundKept DEF CheckedRequest
  <2> QED
    BY <1>0, <1>1, <2>1, <2>2, PartsKept DEF CheckedRequest
<1>2. CASE AssignCandlepin(m)
  BY <1>0, <1>c, <1>d, <1>2, PartsKept DEF AssignCandlepin
<1>3. CASE CandlepinFails(m)
  <2>1. ApartType'
    BY <1>3, <1>a DEF CandlepinFails, ApartType, Request
  <2>2. BoundType'
    BY <1>3, BoundKept DEF CandlepinFails
  <2> QED
    BY <1>0, <1>a, <1>b, <1>d, <1>3, <2>1, <2>2, PartsKept DEF CandlepinFails
<1>4. CASE AssignStore(m)
  <2>1. ApartType'
    BY <1>4, <1>a DEF AssignStore, ApartType, Request
  <2>2. TidType'
    BY <1>4, <1>a DEF AssignStore, TidType, Request, StoredId
  <2>3. ManagerType'
    BY <1>4, <1>a, <1>b, <1>c DEF AssignStore
  <2> QED
    BY <1>0, <1>4, <2>1, <2>2, <2>3, PartsKept DEF AssignStore
<1>5. CASE AssignStoreFails(m)
  <2>1. ApartType'
    BY <1>5, <1>a DEF AssignStoreFails, ApartType, Request
  <2>2. BoundType'
    BY <1>5, BoundKept DEF AssignStoreFails
  <2> QED
    BY <1>0, <1>a, <1>b, <1>5, <2>1, <2>2, PartsKept DEF AssignStoreFails
<1>6. CASE AssignRecalc(m)
  <2>1. RequestsType'
    BY <1>6, <1>a DEF AssignRecalc, RequestsType, Request
  <2> QED
    BY <1>0, <1>a, <1>b, <1>6, <2>1, PartsKept DEF AssignRecalc
<1>7. CASE AssignRecalcFails(m)
  <2>1. MissedType'
    BY <1>7, <1>a DEF AssignRecalcFails, MissedType, Request
  <2>2. BoundType'
    BY <1>7, BoundKept DEF AssignRecalcFails
  <2> QED
    BY <1>0, <1>a, <1>b, <1>7, <2>1, <2>2, PartsKept DEF AssignRecalcFails
<1> QED
  BY <1>1, <1>2, <1>3, <1>4, <1>5, <1>6, <1>7, Starts DEF ManagerSteps, RequestStep

\* The steps of an upload have the types.
LEMMA UploadStepType ==
    ASSUME TypeOK,
           \/ \E s \in Systems : \E id \in {0, TemplateOf(env[s])} : HostTemplate(s, id)
           \/ \E changed \in BOOLEAN : UploadStore(changed)
    PROVE  TypeOK'
<1> USE TypeParts
<1>0. ASSUME UploadOnly
      PROVE  /\ OutsideType' /\ RowsType' /\ InstType' /\ EventsType' /\ ReaderType'
             /\ EvaluatorType' /\ LaggingType' /\ (Change \/ UNCHANGED changes => BoundType')
  BY <1>0, PartsKept, BoundKept DEF UploadOnly, outside
<1>1. ASSUME NEW s \in Systems, NEW id \in {0, TemplateOf(env[s])}, HostTemplate(s, id)
      PROVE  TypeOK'
  <2>1. id \in Nat /\ Busy({s}) \in BOOLEAN
    BY IdType DEF OutsideType, Busy
  <2>2. UploadType'
    BY <1>1, <2>1 DEF HostTemplate, UploadType, Upload
  <2>3. ManagerType'
    BY <1>1, TouchType DEF HostTemplate, ManagerType
  <2> QED
    BY <1>0, <1>1, <2>2, <2>3, PartsKept DEF HostTemplate
<1>2. ASSUME NEW changed \in BOOLEAN, UploadStore(changed)
      PROVE  TypeOK'
  <2>1. upl.s \in Systems /\ upl.id \in Nat
    BY DEF UploadType, Upload
  <2>2. UploadType'
    BY <1>2, Defaults DEF UploadStore, UploadType
  <2>3. TidType' /\ RequestsType' /\ MissedType' /\ ApartType'
    <3>1. CASE upl.id # 0 /\ ~Exists(upl.id)
      <4>1. UNCHANGED <<tid, requests, missed, apart>>
        BY <1>2, <3>1 DEF UploadStore
      <4> QED
        BY <4>1, PartsKept
    <3>2. CASE ~(upl.id # 0 /\ ~Exists(upl.id))
      BY <1>2, <2>1, <3>2 DEF UploadStore, TidType, RequestsType, MissedType, ApartType
    <3> QED
      BY <3>1, <3>2
  <2> QED
    BY <1>0, <1>2, <2>2, <2>3, PartsKept DEF UploadStore
<1> QED
  BY <1>1, <1>2

\* The steps of an evaluator have the types.
LEMMA EvaluatorStepType ==
    ASSUME TypeOK, NEW e \in Evaluators,
           (\E s \in Systems : EvalLoad(e, s)) \/ EvalRead(e) \/ EvalStore(e) \/ EvalFails(e)
    PROVE  TypeOK'
<1> USE TypeParts
<1>0. ASSUME EvaluatorOnly
      PROVE  /\ OutsideType' /\ RowsType' /\ TidType' /\ EventsType' /\ ReaderType' /\ ManagerType'
             /\ UploadType' /\ ApartType' /\ LaggingType' /\ (Fault \/ UNCHANGED faults => BoundType')
  BY <1>0, PartsKept, BoundKept DEF EvaluatorOnly, outside
<1>a. \A f \in Evaluators : ev[f] \in Evaluation
  BY DEF EvaluatorType
<1>b. NoEvaluation \in Evaluation
  BY Defaults
<1>1. ASSUME NEW s \in Systems, EvalLoad(e, s)
      PROVE  TypeOK'
  <2> DEFINE new == [NoEvaluation EXCEPT !.pc = "loaded", !.s = s, !.id = tid[s]]
  <2>1. new \in Evaluation
    BY <1>b DEF Evaluation, TidType
  <2>2. ev' = [ev EXCEPT ![e] = new]
    BY <1>1 DEF EvalLoad
  <2> HIDE DEF new
  <2>3. EvaluatorType'
    BY <2>1, <2>2 DEF EvaluatorType
  <2>4. RequestsType' /\ MissedType'
    BY <1>1 DEF EvalLoad, RequestsType, MissedType
  <2> QED
    BY <1>0, <1>1, <2>3, <2>4, PartsKept DEF EvalLoad
<1>2. CASE EvalRead(e)
  <2>1. Installable(ev[e].id) \subseteq Advisories
    BY SetTypes
  <2>2. EvaluatorType'
    BY <1>2, <1>a, <2>1 DEF EvalRead, EvaluatorType, Evaluation
  <2> QED
    BY <1>0, <1>2, <2>2, PartsKept DEF EvalRead
<1>3. CASE EvalStore(e)
  <2>1. InstType' /\ MissedType'
    BY <1>3, <1>a DEF EvalStore, InstType, MissedType, Evaluation
  <2>2. ASSUME NEW f \in Evaluators
        PROVE  [ev[f] EXCEPT !.over = ev[f].over \/ (ev[f].pc # "idle" /\ ev[f].s = ev[e].s)]
                   \in Evaluation
    BY <1>a DEF Evaluation
  <2>3. EvaluatorType'
    BY <1>3, <1>b, <2>2 DEF EvalStore, EvaluatorType
  <2> QED
    BY <1>0, <1>3, <2>1, <2>3, PartsKept DEF EvalStore
<1>4. CASE EvalFails(e)
  <2>1. MissedType' /\ EvaluatorType'
    BY <1>4, <1>a, <1>b DEF EvalFails, MissedType, EvaluatorType, Evaluation
  <2> QED
    BY <1>0, <1>4, <2>1, PartsKept DEF EvalFails
<1> QED
  BY <1>1, <1>2, <1>3, <1>4

\* The steps by who takes them.
LEMMA NextCases ==
    ASSUME Next
    PROVE  \/ \/ \E t \in Templates, adv \in SUBSET Advisories : CsCreate(t, adv) \/ CsUpdate(t, adv)
              \/ \E t \in Templates : CsDelete(t)
              \/ \E a \in Advisories : AdvisorySynced(a)
              \/ \E s \in Systems, x \in Environments : EnvChange(s, x)
           \/ \E r \in Readers :
                \/ TakeEvent(r) \/ TemplateUpsert(r) \/ FetchAdvisories(r) \/ FetchNotFound(r)
                \/ DiffAdvisories(r) \/ ApplyAdvisories(r) \/ SendTemplateRecalc(r)
           \/ \E r \in Readers :
                \/ LookupTemplate(r) \/ AnnounceDelete(r) \/ AnnounceLost(r) \/ UnassignSystems(r)
                \/ DeleteTemplateAdvisories(r) \/ DeleteTemplate(r) \/ TemplateEventFails(r)
           \/ \E m \in Requests : ManagerSteps(m)
           \/ \/ \E s \in Systems : \E id \in {0, TemplateOf(env[s])} : HostTemplate(s, id)
              \/ \E changed \in BOOLEAN : UploadStore(changed)
           \/ \E e \in Evaluators :
                (\E s \in Systems : EvalLoad(e, s)) \/ EvalRead(e) \/ EvalStore(e) \/ EvalFails(e)
BY Zenon DEF Next, ReaderStep, RequestStep, ManagerSteps

\* Every step keeps the types.
LEMMA NextType == TypeOK /\ [Next]_vars => TypeOK'
<1> SUFFICES ASSUME TypeOK, [Next]_vars
             PROVE  TypeOK'
  OBVIOUS
<1>1. CASE Next
  BY <1>1, NextCases, ExternalType, UpdateType, DeleteType, ManagerStepType, UploadStepType,
     EvaluatorStepType
<1>2. CASE UNCHANGED vars
  BY <1>2, TypeParts, PartsKept DEF vars, outside, bounds
<1> QED
  BY <1>1, <1>2

\* The rows, the requests and the evaluations always have their types, whatever the readers,
\* the manager, the upload and the evaluators do, and wherever they fail.
THEOREM TypeCorrect == Spec => []TypeOK
<1>1. Init => TypeOK
  BY InitType
<1>2. TypeOK /\ [Next]_vars => TypeOK'
  BY NextType
<1> QED
  BY <1>1, <1>2, PTL DEF Spec

-----------------------------------------------------------------------------
(* Ids *)

\* A step that leaves the assignments, the environments and those at work on them alone.
QuietStep ==
    /\ UNCHANGED <<nextId, tid, env, mgr, upl>> /\ apart' = apart
    /\ \A t \in Templates : tmpl'[t].id = tmpl[t].id

\* Content Sources, VMaaS, the evaluators and most steps of the readers take such steps.
LEMMA QuietSteps ==
    ASSUME TypeOK,
           \/ \E t \in Templates, adv \in SUBSET Advisories : CsCreate(t, adv) \/ CsUpdate(t, adv)
           \/ \E t \in Templates : CsDelete(t)
           \/ \E a \in Advisories : AdvisorySynced(a)
           \/ \E r \in Readers :
                \/ TakeEvent(r) \/ FetchAdvisories(r) \/ FetchNotFound(r)
                \/ DiffAdvisories(r) \/ ApplyAdvisories(r) \/ SendTemplateRecalc(r)
           \/ \E r \in Readers :
                \/ LookupTemplate(r) \/ AnnounceDelete(r) \/ AnnounceLost(r)
                \/ DeleteTemplateAdvisories(r) \/ TemplateEventFails(r)
           \/ \E e \in Evaluators :
                (\E s \in Systems : EvalLoad(e, s)) \/ EvalRead(e) \/ EvalStore(e) \/ EvalFails(e)
    PROVE  QuietStep
<1>0. ASSUME UNCHANGED <<tmpl, nextId, tid, env, mgr, upl, apart>>
      PROVE  QuietStep
  BY <1>0 DEF QuietStep
<1>1. ASSUME \/ \E t \in Templates, adv \in SUBSET Advisories : CsCreate(t, adv) \/ CsUpdate(t, adv)
             \/ \E t \in Templates : CsDelete(t)
             \/ \E a \in Advisories : AdvisorySynced(a)
      PROVE  QuietStep
  BY <1>0, <1>1, Zenon DEF CsCreate, CsUpdate, CsDelete, AdvisorySynced, External
<1>2. ASSUME NEW r \in Readers, TakeEvent(r) \/ FetchAdvisories(r) \/ FetchNotFound(r)
                                \/ DiffAdvisories(r) \/ SendTemplateRecalc(r)
      PROVE  QuietStep
  BY <1>0, <1>2, Zenon DEF TakeEvent, FetchAdvisories, FetchNotFound, DiffAdvisories,
     SendTemplateRecalc, ListenerOnly, hist, outside
<1>3. ASSUME NEW r \in Readers, LookupTemplate(r) \/ AnnounceDelete(r) \/ AnnounceLost(r)
                                \/ TemplateEventFails(r)
      PROVE  QuietStep
  BY <1>0, <1>3, Zenon DEF LookupTemplate, AnnounceDelete, AnnounceLost, TemplateEventFails,
     ListenerOnly, hist, outside
<1>4. ASSUME NEW r \in Readers, ApplyAdvisories(r)
      PROVE  QuietStep
  <2>1. UNCHANGED <<nextId, tid, env, mgr, upl, apart>>
    BY <1>4, Zenon DEF ApplyAdvisories, ListenerOnly, hist, outside
  <2>2. \/ UNCHANGED tmpl
        \/ tmpl' = [tmpl EXCEPT ![T(r)].adv = (tmpl[T(r)].adv \ rd[r].rem) \union rd[r].add]
    BY <1>4 DEF ApplyAdvisories
  <2>3. tmpl \in [Templates -> [id : Nat, adv : SUBSET Advisories]] /\ T(r) \in Templates
    BY SetTypes DEF TypeOK
  <2>4. \A t \in Templates : tmpl'[t].id = tmpl[t].id
    BY <2>2, <2>3
  <2> QED
    BY <2>1, <2>4 DEF QuietStep
<1>5. ASSUME NEW r \in Readers, DeleteTemplateAdvisories(r)
      PROVE  QuietStep
  <2>1. UNCHANGED <<nextId, tid, env, mgr, upl, apart>>
    BY <1>5, Zenon DEF DeleteTemplateAdvisories, ListenerOnly, hist, outside
  <2>2. UNCHANGED tmpl \/ tmpl' = [tmpl EXCEPT ![T(r)].adv = {}]
    BY <1>5 DEF DeleteTemplateAdvisories
  <2>3. tmpl \in [Templates -> [id : Nat, adv : SUBSET Advisories]] /\ T(r) \in Templates
    BY SetTypes DEF TypeOK
  <2>4. \A t \in Templates : tmpl'[t].id = tmpl[t].id
    BY <2>2, <2>3
  <2> QED
    BY <2>1, <2>4 DEF QuietStep
<1>6. ASSUME NEW e \in Evaluators, (\E s \in Systems : EvalLoad(e, s)) \/ EvalRead(e)
                                   \/ EvalStore(e) \/ EvalFails(e)
      PROVE  QuietStep
  BY <1>0, <1>6, Zenon DEF EvalLoad, EvalRead, EvalStore, EvalFails, EvaluatorOnly, outside
<1> QED
  BY <1>1, <1>2, <1>3, <1>4, <1>5, <1>6

\* Ids are kept, or templates lose them, or known ids are handed on.
LEMMA IdsKept ==
    ASSUME IdInv, TypeOK', nextId' = nextId,
           \A t \in Templates : tmpl'[t].id \in {0, tmpl[t].id},
           \A s \in Systems : tid'[s] < nextId,
           \A m \in Requests : mgr'[m].id < nextId,
           upl'.id < nextId
    PROVE  IdInv'
<1>0. nextId \in Nat \ {0} /\ \A t \in Templates : tmpl[t].id < nextId
  BY DEF IdInv, TypeOK, IdsBelow
<1>1. IdsBelow'
  BY <1>0 DEF IdsBelow
<1>2. IdsUnique'
  BY DEF IdInv, IdsUnique
<1> QED
  BY <1>1, <1>2 DEF IdInv

\* What a new row of a template is.
LEMMA UpsertedRow ==
    ASSUME TypeOK, NEW r \in Readers, TemplateUpsert(r)
    PROVE  /\ T(r) \in Templates /\ nextId' >= nextId /\ nextId' \in Nat
           /\ \A t \in Templates \ {T(r)} : tmpl'[t] = tmpl[t]
           /\ tmpl'[T(r)].adv = tmpl[T(r)].adv
           /\ tmpl[T(r)].id # 0 => tmpl'[T(r)].id = tmpl[T(r)].id /\ apart' = apart
           /\ tmpl[T(r)].id = 0 => /\ tmpl'[T(r)].id = nextId /\ nextId' = nextId + 1
                                   /\ apart' = apart \union {s \in Systems : env[s] = T(r)}
           /\ UNCHANGED <<cs, known, env, tid, inst, mgr, upl, events, requests, ev, missed, lagging>>
<1> DEFINE id == IF tmpl[T(r)].id = 0 THEN nextId ELSE tmpl[T(r)].id
<1>1. T(r) \in Templates
  BY SetTypes
<1>2. UNCHANGED <<cs, known, env, tid, inst, mgr, upl, events, requests, ev, missed, lagging>>
  BY DEF TemplateUpsert, ListenerOnly, outside
<1>3. /\ tmpl' = [tmpl EXCEPT ![T(r)].id = id]
      /\ nextId' = IF tmpl[T(r)].id = 0 THEN nextId + 1 ELSE nextId
      /\ apart' = IF tmpl[T(r)].id = 0 THEN apart \union {s \in Systems : env[s] = T(r)} ELSE apart
  BY Zenon DEF TemplateUpsert
<1>4. id \in Nat /\ nextId \in Nat
  BY <1>1 DEF TypeOK
<1>5. tmpl'[T(r)].id = id /\ tmpl'[T(r)].adv = tmpl[T(r)].adv
  BY <1>1, <1>3, <1>4 DEF TypeOK
<1>6. \A t \in Templates \ {T(r)} : tmpl'[t] = tmpl[t]
  BY <1>1, <1>3 DEF TypeOK
<1> QED
  BY <1>1, <1>2, <1>3, <1>4, <1>5, <1>6

\* What a deleted row of a template is.
LEMMA DeletedRow ==
    ASSUME TypeOK, NEW r \in Readers, DeleteTemplate(r)
    PROVE  /\ T(r) \in Templates
           /\ UNCHANGED <<cs, known, env, nextId, tid, inst, mgr, upl, events, requests, ev,
                          missed, apart>>
           /\ \/ UNCHANGED tmpl
              \/ /\ tmpl' = [tmpl EXCEPT ![T(r)] = NoTemplate]
                 /\ Assigned(rd[r].id) = {} /\ tmpl[T(r)].id = rd[r].id
BY SetTypes DEF DeleteTemplate, ListenerOnly, outside, RowOf

\* Ids are given out once, and only ids that were given out are handed on.
LEMMA NextIds == IdInv /\ [Next]_vars => IdInv'
<1> SUFFICES ASSUME IdInv, [Next]_vars
             PROVE  IdInv'
  OBVIOUS
<1>0. TypeOK /\ TypeOK'
  BY NextType DEF IdInv
<1>a. /\ \A t \in Templates : tmpl[t].id \in Nat /\ tmpl[t].id < nextId
      /\ \A s \in Systems : tid[s] < nextId
      /\ \A m \in Requests : mgr[m].id < nextId
      /\ upl.id < nextId /\ nextId \in Nat /\ nextId # 0
  BY <1>0 DEF IdInv, IdsBelow, TypeOK
<1>b. \A x \in Environments : TemplateOf(x) < nextId
  BY <1>a DEF TemplateOf, Environments
<1>1. CASE QuietStep \/ UNCHANGED vars
  BY <1>0, <1>1, <1>a, IdsKept DEF QuietStep, vars
<1>2. ASSUME NEW s \in Systems, NEW x \in Environments, EnvChange(s, x)
      PROVE  IdInv'
  <2>1. /\ UNCHANGED <<tmpl, nextId, tid>>
        /\ mgr' = Touch({s}, None) /\ upl' = TouchUpload({s})
    BY <1>2 DEF EnvChange, External
  <2>2. (\A m \in Requests : mgr'[m].id = mgr[m].id) /\ upl'.id = upl.id
    BY <1>0, <2>1, TouchType
  <2> QED
    BY <1>0, <1>a, <2>1, <2>2, IdsKept
<1>3. ASSUME NEW r \in Readers, TemplateUpsert(r)
      PROVE  IdInv'
  <2>1. /\ \A s \in Systems : tid[s] \in Nat
        /\ \A m \in Requests : mgr[m].id \in Nat
        /\ upl.id \in Nat
    BY <1>0 DEF TypeOK, Request, Upload
  <2>2. /\ nextId' >= nextId /\ nextId' \in Nat /\ UNCHANGED <<tid, mgr, upl>>
        /\ \A t \in Templates \ {T(r)} : tmpl'[t] = tmpl[t]
    BY <1>0, <1>3, UpsertedRow
  <2>3. tmpl'[T(r)].id < nextId'
    BY <1>0, <1>3, <1>a, UpsertedRow
  <2>4. IdsBelow'
    BY <1>a, <2>1, <2>2, <2>3 DEF IdsBelow
  <2>5. IdsUnique'
    BY <1>0, <1>3, <1>a, UpsertedRow DEF IdInv, IdsUnique
  <2> QED
    BY <1>0, <2>4, <2>5 DEF IdInv
<1>4. ASSUME NEW r \in Readers, UnassignSystems(r)
      PROVE  IdInv'
  <2>1. /\ UNCHANGED <<tmpl, nextId, mgr, upl>>
        /\ tid' = [s \in Systems |-> IF tid[s] = rd[r].id THEN 0 ELSE tid[s]]
    BY <1>4 DEF UnassignSystems, ListenerOnly
  <2>2. \A s \in Systems : tid'[s] < nextId
    BY <1>a, <2>1
  <2> QED
    BY <1>0, <1>a, <2>1, <2>2, IdsKept
<1>5. ASSUME NEW r \in Readers, DeleteTemplate(r)
      PROVE  IdInv'
  <2>1. \A t \in Templates : tmpl'[t].id \in {0, tmpl[t].id}
    <3>1. tmpl \in [Templates -> [id : Nat, adv : SUBSET Advisories]] /\ T(r) \in Templates
      BY <1>0, SetTypes DEF TypeOK
    <3>2. UNCHANGED tmpl \/ tmpl' = [tmpl EXCEPT ![T(r)] = NoTemplate]
      BY <1>0, <1>5, DeletedRow
    <3> QED
      BY <3>1, <3>2 DEF NoTemplate
  <2> QED
    BY <1>0, <1>5, <1>a, <2>1, DeletedRow, IdsKept
<1>6. ASSUME NEW m \in Requests, ManagerSteps(m)
      PROVE  IdInv'
  <2>1. UNCHANGED <<tmpl, nextId>> => (\A t \in Templates : tmpl'[t].id \in {0, tmpl[t].id})
    OBVIOUS
  <2>2. ASSUME ManagerOnly, UNCHANGED upl,
               tid' = tid \/ tid' = [s \in Systems |-> StoredId(m, s)],
               \/ mgr' = [mgr EXCEPT ![m] = NoRequest]
               \/ \E pc \in {"assigned", "stored"} : mgr' = [mgr EXCEPT ![m].pc = pc]
        PROVE  IdInv'
    <3>1. UNCHANGED <<tmpl, nextId>>
      BY <2>2 DEF ManagerOnly
    <3>2. \A s \in Systems : tid'[s] < nextId
      BY <1>0, <1>a, <2>2 DEF StoredId
    <3>3. \A n \in Requests : mgr'[n].id \in {0, mgr[n].id}
      <4>1. CASE mgr' = [mgr EXCEPT ![m] = NoRequest]
        BY <1>0, <4>1 DEF TypeOK, NoRequest
      <4>2. ASSUME NEW pc \in {"assigned", "stored"}, mgr' = [mgr EXCEPT ![m].pc = pc]
            PROVE  \A n \in Requests : mgr'[n].id = mgr[n].id
        BY <1>0, <4>2 DEF TypeOK, Request
      <4> QED
        BY <2>2, <4>1, <4>2
    <3> QED
      BY <1>0, <1>a, <2>1, <2>2, <3>1, <3>2, <3>3, IdsKept
  <2>3. ASSUME NEW S \in SUBSET Systems, NEW x \in Environments, CheckedRequest(m, S, x)
        PROVE  IdInv'
    <3>1. UNCHANGED <<tmpl, nextId, tid>>
      BY <2>3 DEF CheckedRequest, ManagerOnly
    <3>2. \A n \in Requests : mgr'[n].id < nextId
      <4>1. \A n \in Requests : Touch(S, m)[n].id = mgr[n].id
        BY <1>0, TouchType
      <4>2. /\ mgr'[m] = [pc |-> "checked", S |-> S, to |-> x, id |-> TemplateOf(x),
                           over |-> Busy(S)]
            /\ \A n \in Requests \ {m} : mgr'[n] = Touch(S, m)[n]
        BY <1>0, <2>3, StartedRequest, Zenon
      <4>3. mgr'[m].id = TemplateOf(x)
        BY <4>2
      <4> QED
        BY <1>a, <1>b, <4>1, <4>2, <4>3
    <3>3. upl'.id < nextId
      <4>1. TouchUpload(S).id = upl.id
        BY <1>0, TouchType
      <4>2. upl' = TouchUpload(S)
        BY <2>3, Zenon DEF CheckedRequest
      <4> QED
        BY <1>a, <4>1, <4>2
    <3> QED
      BY <1>0, <1>a, <2>1, <3>1, <3>2, <3>3, IdsKept
  <2>4. CASE RequestStep(m) \/ CandlepinFails(m) \/ AssignStoreFails(m) \/ AssignRecalcFails(m)
    BY <2>2, <2>4, Zenon DEF RequestStep, AssignCandlepin, AssignStore, AssignRecalc,
       CandlepinFails, AssignStoreFails, AssignRecalcFails
  <2> QED
    BY <1>6, <2>3, <2>4, Starts DEF ManagerSteps
<1>7. ASSUME NEW s \in Systems, NEW id \in {0, TemplateOf(env[s])}, HostTemplate(s, id)
      PROVE  IdInv'
  <2>1. env[s] \in Environments /\ id < nextId
    BY <1>0, <1>a, <1>b DEF TypeOK
  <2>2. UNCHANGED <<tmpl, nextId, tid>> /\ mgr' = Touch({s}, None) /\ upl'.id = id
    BY <1>7 DEF HostTemplate, UploadOnly
  <2>3. \A n \in Requests : mgr'[n].id < nextId
    BY <1>0, <1>a, <2>2, TouchType
  <2> QED
    BY <1>0, <1>a, <2>1, <2>2, <2>3, IdsKept
<1>8. ASSUME NEW changed \in BOOLEAN, UploadStore(changed)
      PROVE  IdInv'
  <2>1. UNCHANGED <<tmpl, nextId, mgr>> /\ upl'.id = 0
    BY <1>8 DEF UploadStore, UploadOnly, NoUpload
  <2>2. \A s \in Systems : tid'[s] < nextId
    BY <1>0, <1>8, <1>a DEF UploadStore, TypeOK, Upload
  <2> QED
    BY <1>0, <1>a, <2>1, <2>2, IdsKept
<1>9. CASE Next
  BY <1>0, <1>1, <1>2, <1>3, <1>4, <1>5, <1>6, <1>7, <1>8, <1>9, NextCases, QuietSteps
<1> QED
  BY <1>1, <1>9

-----------------------------------------------------------------------------
(* Candlepin and system_patch *)

\* The initial state satisfies the invariants about ids and assignments.
LEMMA InitAgree == Init => AgreeInv
<1> SUFFICES ASSUME Init
             PROVE  AgreeInv
  OBVIOUS
<1>1. TypeOK
  BY InitType
<1>2. \A t \in Templates : tmpl[t].id = IF cs[t].state = "new" THEN 0 ELSE FirstId[t]
  BY DEF Init, NoTemplate
<1>3. /\ \A m \in Requests : mgr[m] = NoRequest
      /\ upl = NoUpload /\ tid = [s \in Systems |-> 0] /\ env = [s \in Systems |-> None]
      /\ nextId = Cardinality(Templates) + 1
  BY DEF Init
<1>4. IdsUnique
  BY <1>2, FirstIds DEF IdsUnique
<1>5. IdsBelow
  BY <1>2, <1>3, FirstIds DEF IdsBelow, NoRequest, NoUpload
<1>6. RequestShape /\ OverlapKnown /\ AssignedSticks /\ UploadSticks
  BY <1>3 DEF RequestShape, OverlapKnown, AssignedSticks, UploadSticks, NoRequest, NoUpload
<1>7. AssignmentAgreesUnlessApart
  BY <1>3 DEF AssignmentAgreesUnlessApart, TemplateOf
<1> QED
  BY <1>1, <1>4, <1>5, <1>6, <1>7 DEF AgreeInv, IdInv

\* A quiet step changes nothing of it.
LEMMA QuietAgree ==
    ASSUME AgreeInv, IdInv', QuietStep
    PROVE  AgreeInv'
<1>1. /\ UNCHANGED <<tid, env, mgr, upl, apart>>
      /\ \A t \in Templates : tmpl'[t].id = tmpl[t].id
  BY DEF QuietStep
<1>2. RequestShape' /\ OverlapKnown' /\ AssignedSticks' /\ UploadSticks'
  BY <1>1 DEF AgreeInv, RequestShape, OverlapKnown, AssignedSticks, UploadSticks
<1>3. \A s \in Systems : env[s] \in Environments
  BY DEF AgreeInv, IdInv, TypeOK
<1>4. AssignmentAgreesUnlessApart'
  BY <1>1, <1>3 DEF AgreeInv, AssignmentAgreesUnlessApart, TemplateOf, Environments
<1> QED
  BY <1>2, <1>4 DEF AgreeInv

\* The host changes its environment: those at work on it learn of it.
LEMMA EnvChangeAgree ==
    ASSUME AgreeInv, IdInv', NEW s \in Systems, NEW x \in Environments, EnvChange(s, x)
    PROVE  AgreeInv'
<1>0. TypeOK /\ env \in [Systems -> Environments]
  BY DEF AgreeInv, IdInv, TypeOK
<1>1. /\ UNCHANGED <<tmpl, tid>> /\ env' = [env EXCEPT ![s] = x] /\ apart' = apart \union {s}
      /\ mgr' = Touch({s}, None) /\ upl' = TouchUpload({s})
  BY DEF EnvChange, External
<1>2. \A m \in Requests :
        /\ mgr'[m].pc = mgr[m].pc /\ mgr'[m].S = mgr[m].S
        /\ mgr'[m].to = mgr[m].to /\ mgr'[m].id = mgr[m].id
        /\ mgr'[m].over <=> mgr[m].over \/ s \in mgr[m].S
  BY <1>0, <1>1, TouchType, TemplateAssumption
<1>3. /\ upl'.pc = upl.pc /\ upl'.s = upl.s /\ upl'.id = upl.id
      /\ upl'.over <=> upl.over \/ (upl.pc # "idle" /\ upl.s \in {s})
  BY <1>0, <1>1, TouchType
<1>a. UNCHANGED <<tmpl, tid>> /\ env' = [env EXCEPT ![s] = x] /\ apart' = apart \union {s}
  BY <1>1
<1>4. RequestShape'
  BY <1>a, <1>2 DEF AgreeInv, RequestShape
<1>5. OverlapKnown'
  BY <1>2, <1>3 DEF AgreeInv, OverlapKnown
<1>6. AssignedSticks'
  <2>1. \A m \in Requests : mgr[m].S \subseteq Systems
    BY <1>0 DEF TypeOK, Request
  <2> QED
    BY <1>0, <1>a, <1>2, <2>1 DEF AgreeInv, AssignedSticks
<1>7. UploadSticks'
  <2>1. upl.s \in Systems
    BY <1>0 DEF TypeOK, Upload
  <2> QED
    BY <1>0, <1>a, <1>3, <2>1 DEF AgreeInv, UploadSticks
<1>8. AssignmentAgreesUnlessApart'
  BY <1>0, <1>a, <1>2 DEF AgreeInv, AssignmentAgreesUnlessApart, TemplateOf
<1> QED
  BY <1>4, <1>5, <1>6, <1>7, <1>8 DEF AgreeInv

\* A row that is new, or gone, or without systems.
LEMMA RowsAgree ==
    ASSUME AgreeInv, IdInv', NEW r \in Readers,
           TemplateUpsert(r) \/ UnassignSystems(r) \/ DeleteTemplate(r)
    PROVE  AgreeInv'
<1>0. TypeOK /\ T(r) \in Templates
  BY SetTypes DEF AgreeInv, IdInv
<1>a. /\ env \in [Systems -> Environments] /\ tid \in [Systems -> Nat]
      /\ \A m \in Requests : mgr[m].id < nextId /\ mgr[m].id \in Nat
      /\ upl.id < nextId /\ upl.id \in Nat /\ nextId \in Nat
      /\ tmpl \in [Templates -> [id : Nat, adv : SUBSET Advisories]]
  BY <1>0 DEF AgreeInv, IdInv, IdsBelow, TypeOK, Request, Upload
<1>b. ASSUME UNCHANGED <<env, mgr, upl>>,
             \A t \in Templates : tmpl'[t].id \in {0, nextId, tmpl[t].id}
      PROVE  RequestShape' /\ OverlapKnown' /\ AssignedSticks' /\ UploadSticks'
  <2>1. RequestShape'
    BY <1>a, <1>b DEF AgreeInv, RequestShape
  <2>2. OverlapKnown' /\ AssignedSticks'
    BY <1>b DEF AgreeInv, OverlapKnown, AssignedSticks
  <2>3. UploadSticks'
    BY <1>a, <1>b DEF AgreeInv, UploadSticks
  <2> QED
    BY <2>1, <2>2, <2>3
<1>1. CASE TemplateUpsert(r)
  <2>1. /\ UNCHANGED <<env, tid, mgr, upl>>
        /\ \A t \in Templates \ {T(r)} : tmpl'[t] = tmpl[t]
        /\ tmpl[T(r)].id # 0 => tmpl'[T(r)].id = tmpl[T(r)].id /\ apart' = apart
        /\ tmpl[T(r)].id = 0 => /\ tmpl'[T(r)].id = nextId
                                /\ apart' = apart \union {s \in Systems : env[s] = T(r)}
    BY <1>0, <1>1, UpsertedRow
  <2>2. \A t \in Templates : tmpl'[t].id \in {0, nextId, tmpl[t].id}
    BY <2>1
  <2>3. AssignmentAgreesUnlessApart'
    BY <1>a, <2>1 DEF AgreeInv, AssignmentAgreesUnlessApart, TemplateOf, Environments
  <2> QED
    BY <1>b, <2>1, <2>2, <2>3 DEF AgreeInv
<1>2. CASE UnassignSystems(r)
  <2>1. /\ UNCHANGED <<tmpl, env, mgr, upl>>
        /\ tid' = [s \in Systems |-> IF tid[s] = rd[r].id THEN 0 ELSE tid[s]]
        /\ apart' = apart \union Assigned(rd[r].id)
    BY <1>2 DEF UnassignSystems, ListenerOnly, outside
  <2>2. AssignmentAgreesUnlessApart'
    BY <2>1 DEF AgreeInv, AssignmentAgreesUnlessApart, TemplateOf, Assigned
  <2> QED
    BY <1>b, <2>1, <2>2 DEF AgreeInv
<1>3. CASE DeleteTemplate(r)
  <2>1. /\ UNCHANGED <<env, tid, mgr, upl, apart>>
        /\ \/ UNCHANGED tmpl
           \/ /\ tmpl' = [tmpl EXCEPT ![T(r)] = NoTemplate]
              /\ Assigned(rd[r].id) = {} /\ tmpl[T(r)].id = rd[r].id
    BY <1>0, <1>3, DeletedRow
  <2>2. \A t \in Templates : \/ tmpl'[t].id = tmpl[t].id
                             \/ t = T(r) /\ tmpl'[t].id = 0 /\ Assigned(tmpl[t].id) = {}
    BY <1>0, <1>a, <2>1 DEF NoTemplate
  <2>3. AssignmentAgreesUnlessApart'
    BY <1>a, <2>1, <2>2 DEF AgreeInv, AssignmentAgreesUnlessApart, TemplateOf, Assigned, Environments
  <2> QED
    BY <1>b, <2>1, <2>2, <2>3 DEF AgreeInv
<1> QED
  BY <1>1, <1>2, <1>3

\* A request that goes on to its next step, and one that ends.
LEMMA MovedRequest ==
    ASSUME TypeOK, NEW m \in Requests,
           NEW pc \in {"assigned", "stored"}, mgr' = [mgr EXCEPT ![m].pc = pc]
    PROVE  /\ \A n \in Requests \ {m} : mgr'[n] = mgr[n]
           /\ mgr'[m].pc = pc /\ mgr'[m].S = mgr[m].S /\ mgr'[m].to = mgr[m].to
           /\ mgr'[m].id = mgr[m].id /\ mgr'[m].over = mgr[m].over
<1>1. mgr \in [Requests -> Request]
  BY DEF TypeOK
<1> QED
  BY <1>1 DEF Request

LEMMA EndedRequest ==
    ASSUME TypeOK, NEW m \in Requests, mgr' = [mgr EXCEPT ![m] = NoRequest]
    PROVE  /\ \A n \in Requests \ {m} : mgr'[n] = mgr[n]
           /\ mgr'[m].pc = "idle" /\ mgr'[m].S = {} /\ mgr'[m].to = None /\ mgr'[m].id = 0
           /\ ~mgr'[m].over
<1>1. mgr \in [Requests -> Request]
  BY DEF TypeOK
<1> QED
  BY <1>1 DEF NoRequest

\* A request that ends gives up what it knew about itself; the others keep it.
LEMMA EndShape ==
    ASSUME AgreeInv, NEW m \in Requests, mgr' = [mgr EXCEPT ![m] = NoRequest],
           UNCHANGED <<tmpl, upl>>
    PROVE  RequestShape' /\ OverlapKnown'
<1>1. /\ \A n \in Requests \ {m} : mgr'[n] = mgr[n]
      /\ mgr'[m].pc = "idle" /\ mgr'[m].S = {} /\ mgr'[m].to = None /\ mgr'[m].id = 0
  BY EndedRequest DEF AgreeInv, IdInv
<1>2. RequestShape'
  BY <1>1 DEF AgreeInv, RequestShape
<1>3. OverlapKnown'
  BY <1>1 DEF AgreeInv, OverlapKnown
<1> QED
  BY <1>2, <1>3

\* The same for one that goes on.
LEMMA MoveShape ==
    ASSUME AgreeInv, NEW m \in Requests, mgr[m].pc # "idle",
           NEW pc \in {"assigned", "stored"}, mgr' = [mgr EXCEPT ![m].pc = pc],
           UNCHANGED <<tmpl, upl>>
    PROVE  RequestShape' /\ OverlapKnown'
<1>1. /\ \A n \in Requests \ {m} : mgr'[n] = mgr[n]
      /\ mgr'[m].pc = pc /\ mgr'[m].S = mgr[m].S /\ mgr'[m].to = mgr[m].to
      /\ mgr'[m].id = mgr[m].id /\ mgr'[m].over = mgr[m].over
  BY MovedRequest DEF AgreeInv, IdInv
<1>2. RequestShape'
  BY <1>1 DEF AgreeInv, RequestShape
<1>3. OverlapKnown'
  BY <1>1 DEF AgreeInv, OverlapKnown
<1> QED
  BY <1>2, <1>3

\* A request starts: it learns who is at its systems, and they learn of it.
LEMMA StartAgree ==
    ASSUME AgreeInv, IdInv', NEW m \in Requests, NEW S \in SUBSET Systems, NEW x \in Environments,
           CheckedRequest(m, S, x), x # None => TemplateFound(x)
    PROVE  AgreeInv'
<1>0. TypeOK
  BY DEF AgreeInv, IdInv
<1>1. UNCHANGED <<tmpl, tid, env, apart>> /\ mgr[m].pc = "idle"
  BY DEF CheckedRequest, ManagerOnly
<1>2. /\ mgr'[m].pc = "checked" /\ mgr'[m].S = S /\ mgr'[m].to = x /\ mgr'[m].id = TemplateOf(x)
      /\ mgr'[m].over = Busy(S)
  <2>1. mgr'[m] = [pc |-> "checked", S |-> S, to |-> x, id |-> TemplateOf(x), over |-> Busy(S)]
    BY <1>0, StartedRequest, Zenon
  <2> QED
    BY <2>1
<1>3. \A n \in Requests \ {m} :
        /\ mgr'[n].pc = mgr[n].pc /\ mgr'[n].S = mgr[n].S
        /\ mgr'[n].to = mgr[n].to /\ mgr'[n].id = mgr[n].id
        /\ mgr'[n].over <=> mgr[n].over \/ mgr[n].S \intersect S # {}
  <2>1. \A n \in Requests \ {m} : mgr'[n] = Touch(S, m)[n]
    BY <1>0, StartedRequest, Zenon
  <2> QED
    BY <1>0, <2>1, TouchType
<1>4. /\ upl'.pc = upl.pc /\ upl'.s = upl.s /\ upl'.id = upl.id
      /\ upl'.over <=> upl.over \/ (upl.pc # "idle" /\ upl.s \in S)
  <2>1. upl' = TouchUpload(S)
    BY DEF CheckedRequest
  <2> QED
    BY <1>0, <2>1, TouchType
<1>5. RequestShape'
  <2>1. /\ x = None => TemplateOf(x) = 0
        /\ x # None => TemplateOf(x) = tmpl[x].id /\ tmpl[x].id # 0 /\ x \in Templates
    BY DEF TemplateOf, TemplateFound, Environments
  <2>2. x # None => \A t \in Templates : tmpl[t].id = TemplateOf(x) => t = x
    BY <2>1 DEF AgreeInv, IdInv, IdsUnique
  <2> QED
    BY <1>1, <1>2, <1>3, <2>1, <2>2 DEF AgreeInv, RequestShape
<1>6. OverlapKnown'
  <2>1. \A n \in Requests \ {m} : mgr[n].S \intersect S # {} => mgr'[n].over /\ mgr'[m].over
    BY <1>2, <1>3 DEF Busy
  <2>2. upl.pc # "idle" /\ upl.s \in S => upl'.over
    BY <1>4
  <2>3. \A n, k \in Requests : n # k /\ mgr'[n].S \intersect mgr'[k].S # {} => mgr'[n].over
    <3> SUFFICES ASSUME NEW n \in Requests, NEW k \in Requests, n # k,
                        mgr'[n].S \intersect mgr'[k].S # {}
                 PROVE  mgr'[n].over
      OBVIOUS
    <3>1. CASE n = m
      BY <1>2, <1>3, <2>1, <3>1
    <3>2. CASE k = m
      BY <1>2, <1>3, <2>1, <3>2
    <3>3. CASE n # m /\ k # m
      BY <1>3, <3>3 DEF AgreeInv, OverlapKnown
    <3> QED
      BY <3>1, <3>2, <3>3
  <2>4. \A n \in Requests : upl'.pc # "idle" /\ upl'.s \in mgr'[n].S => upl'.over
    BY <1>2, <1>3, <1>4, <2>2 DEF AgreeInv, OverlapKnown
  <2> QED
    BY <2>3, <2>4 DEF OverlapKnown
<1>7. AssignedSticks'
  BY <1>1, <1>2, <1>3 DEF AgreeInv, AssignedSticks
<1>8. UploadSticks'
  BY <1>1, <1>4 DEF AgreeInv, UploadSticks
<1>9. AssignmentAgreesUnlessApart'
  BY <1>1, <1>2, <1>3 DEF AgreeInv, AssignmentAgreesUnlessApart, TemplateOf
<1> QED
  BY <1>5, <1>6, <1>7, <1>8, <1>9 DEF AgreeInv

\* The call to Candlepin, whether it answers or not.
LEMMA CandlepinAgree ==
    ASSUME AgreeInv, IdInv', NEW m \in Requests, AssignCandlepin(m) \/ CandlepinFails(m)
    PROVE  AgreeInv'
<1>0. TypeOK
  BY DEF AgreeInv, IdInv
<1>1. UNCHANGED <<tmpl, tid, upl>> /\ mgr[m].pc = "checked"
  BY DEF AssignCandlepin, CandlepinFails, ManagerOnly
<1>2. \A s \in Systems \ mgr[m].S : env'[s] = env[s]
  BY DEF AssignCandlepin, CandlepinFails
<1>3. ASSUME NEW n \in Requests \ {m}, mgr[n].pc = "assigned", ~mgr[n].over, NEW s \in mgr[n].S
      PROVE  env'[s] = mgr[n].to
  <2>1. s \in Systems
    BY <1>0 DEF TypeOK, Request
  <2>2. s \notin mgr[m].S
    BY <1>3 DEF AgreeInv, OverlapKnown
  <2> QED
    BY <1>2, <1>3, <2>1, <2>2 DEF AgreeInv, AssignedSticks
<1>4. UploadSticks'
  <2>1. upl.s \in Systems
    BY <1>0 DEF TypeOK, Upload
  <2>2. upl.pc = "read" /\ ~upl.over => upl.s \notin mgr[m].S
    BY DEF AgreeInv, OverlapKnown
  <2> QED
    BY <1>1, <1>2, <2>1, <2>2 DEF AgreeInv, UploadSticks
<1>5. CASE AssignCandlepin(m)
  <2>1. /\ env' = [s \in Systems |-> IF s \in mgr[m].S THEN mgr[m].to ELSE env[s]]
        /\ mgr' = [mgr EXCEPT ![m].pc = "assigned"] /\ apart' = apart
    BY <1>5 DEF AssignCandlepin
  <2>2. /\ \A n \in Requests \ {m} : mgr'[n] = mgr[n]
        /\ mgr'[m].pc = "assigned" /\ mgr'[m].S = mgr[m].S /\ mgr'[m].to = mgr[m].to
    BY <1>0, <2>1, MovedRequest
  <2>3. RequestShape' /\ OverlapKnown'
    BY <1>1, <2>1, MoveShape
  <2>4. mgr[m].S \subseteq Systems
    BY <1>0 DEF TypeOK, Request
  <2>5. AssignedSticks'
    BY <1>3, <2>1, <2>2, <2>4 DEF AssignedSticks
  <2>6. AssignmentAgreesUnlessApart'
    BY <1>1, <1>2, <2>1, <2>2 DEF AgreeInv, AssignmentAgreesUnlessApart, TemplateOf
  <2> QED
    BY <1>4, <2>3, <2>5, <2>6 DEF AgreeInv
<1>6. CASE CandlepinFails(m)
  <2>1. mgr' = [mgr EXCEPT ![m] = NoRequest] /\ apart' = apart \union mgr[m].S
    BY <1>6 DEF CandlepinFails
  <2>2. /\ \A n \in Requests \ {m} : mgr'[n] = mgr[n]
        /\ mgr'[m].pc = "idle" /\ mgr'[m].S = {}
    BY <1>0, <2>1, EndedRequest
  <2>3. RequestShape' /\ OverlapKnown'
    BY <1>1, <2>1, EndShape
  <2>4. AssignedSticks'
    BY <1>3, <2>2 DEF AssignedSticks
  <2>5. AssignmentAgreesUnlessApart'
    BY <1>1, <1>2, <2>1, <2>2 DEF AgreeInv, AssignmentAgreesUnlessApart, TemplateOf
  <2> QED
    BY <1>4, <2>3, <2>4, <2>5 DEF AgreeInv
<1> QED
  BY <1>5, <1>6

\* The rest of a request: it writes what Candlepin has, if nobody came between.
LEMMA StoreAgree ==
    ASSUME AgreeInv, IdInv', NEW m \in Requests,
           AssignStore(m) \/ AssignStoreFails(m) \/ AssignRecalc(m) \/ AssignRecalcFails(m)
    PROVE  AgreeInv'
<1>0. TypeOK
  BY DEF AgreeInv, IdInv
<1>1. UNCHANGED <<tmpl, env, upl>> /\ mgr[m].pc # "idle"
  BY DEF AssignStore, AssignStoreFails, AssignRecalc, AssignRecalcFails, ManagerOnly
<1>2. UploadSticks'
  BY <1>1 DEF AgreeInv, UploadSticks
<1>3. ASSUME mgr' = [mgr EXCEPT ![m] = NoRequest], UNCHANGED tid,
             \/ apart' = apart \union mgr[m].S
             \/ apart' = apart /\ mgr[m].pc = "stored"
      PROVE  AgreeInv'
  <2>1. /\ \A n \in Requests \ {m} : mgr'[n] = mgr[n]
        /\ mgr'[m].pc = "idle" /\ mgr'[m].S = {}
    BY <1>0, <1>3, EndedRequest
  <2>2. RequestShape' /\ OverlapKnown'
    BY <1>1, <1>3, EndShape
  <2>3. AssignedSticks'
    BY <1>1, <2>1 DEF AgreeInv, AssignedSticks
  <2>4. AssignmentAgreesUnlessApart'
    BY <1>1, <1>3, <2>1 DEF AgreeInv, AssignmentAgreesUnlessApart, TemplateOf
  <2> QED
    BY <1>2, <2>2, <2>3, <2>4 DEF AgreeInv
<1>4. CASE AssignStoreFails(m)
  BY <1>3, <1>4, Zenon DEF AssignStoreFails
<1>5. CASE AssignRecalc(m) \/ AssignRecalcFails(m)
  BY <1>3, <1>5, Zenon DEF AssignRecalc, AssignRecalcFails
<1>6. CASE AssignStore(m) /\ mgr[m].id # 0 /\ ~Exists(mgr[m].id)
  BY <1>3, <1>6 DEF AssignStore
<1>7. CASE AssignStore(m) /\ ~(mgr[m].id # 0 /\ ~Exists(mgr[m].id))
  <2>1. /\ tid' = [s \in Systems |-> StoredId(m, s)]
        /\ mgr' = [mgr EXCEPT ![m].pc = "stored"] /\ mgr[m].pc = "assigned"
        /\ apart' = IF mgr[m].over THEN apart \union mgr[m].S ELSE apart \ mgr[m].S
    BY <1>7 DEF AssignStore
  <2>2. /\ \A n \in Requests \ {m} : mgr'[n] = mgr[n]
        /\ mgr'[m].pc = "stored" /\ mgr'[m].S = mgr[m].S
    BY <1>0, <2>1, MovedRequest
  <2>3. RequestShape' /\ OverlapKnown'
    BY <1>1, <2>1, MoveShape
  <2>4. AssignedSticks'
    BY <1>1, <2>2 DEF AgreeInv, AssignedSticks
  <2>5. ASSUME ~mgr[m].over, NEW s \in mgr[m].S
        PROVE  mgr[m].id = TemplateOf(env[s])
    <3>1. env[s] = mgr[m].to
      BY <2>1, <2>5 DEF AgreeInv, AssignedSticks
    <3>2. mgr[m].to = None => mgr[m].id = 0
      BY DEF AgreeInv, RequestShape
    <3>3. mgr[m].to # None => mgr[m].id = tmpl[mgr[m].to].id
      BY <1>7 DEF AgreeInv, RequestShape, Exists
    <3> QED
      BY <3>1, <3>2, <3>3 DEF TemplateOf
  <2>6. \A s \in Systems : tid'[s] = IF s \in mgr[m].S THEN mgr[m].id ELSE tid[s]
    BY <2>1 DEF StoredId
  <2>7. AssignmentAgreesUnlessApart'
    BY <1>1, <2>1, <2>2, <2>5, <2>6 DEF AgreeInv, AssignmentAgreesUnlessApart, TemplateOf
  <2> QED
    BY <1>2, <2>3, <2>4, <2>7 DEF AgreeInv
<1> QED
  BY <1>4, <1>5, <1>6, <1>7

\* An upload reads the environment, and writes the template of it, if nobody came between.
LEMMA UploadAgree ==
    ASSUME AgreeInv, IdInv',
           \/ \E s \in Systems : \E id \in {0, TemplateOf(env[s])} : HostTemplate(s, id)
           \/ \E changed \in BOOLEAN : UploadStore(changed)
    PROVE  AgreeInv'
<1>0. TypeOK
  BY DEF AgreeInv, IdInv
<1>1. ASSUME NEW s \in Systems, NEW id \in {0, TemplateOf(env[s])}, HostTemplate(s, id)
      PROVE  AgreeInv'
  <2>1. UNCHANGED <<tmpl, env, tid, apart>>
    BY <1>1 DEF HostTemplate, UploadOnly, outside
  <2>2. \A m \in Requests :
          /\ mgr'[m].pc = mgr[m].pc /\ mgr'[m].S = mgr[m].S
          /\ mgr'[m].to = mgr[m].to /\ mgr'[m].id = mgr[m].id
          /\ mgr'[m].over <=> mgr[m].over \/ s \in mgr[m].S
    <3>1. mgr' = Touch({s}, None)
      BY <1>1 DEF HostTemplate
    <3> QED
      BY <1>0, <3>1, TouchType, TemplateAssumption
  <2>3. upl'.pc = "read" /\ upl'.s = s /\ upl'.id = id /\ upl'.over = Busy({s})
    BY <1>1 DEF HostTemplate
  <2>4. RequestShape'
    BY <2>1, <2>2 DEF AgreeInv, RequestShape
  <2>5. OverlapKnown'
    <3>1. \A m \in Requests : s \in mgr[m].S => Busy({s})
      BY DEF Busy
    <3> QED
      BY <2>2, <2>3, <3>1 DEF AgreeInv, OverlapKnown
  <2>6. AssignedSticks'
    BY <2>1, <2>2 DEF AgreeInv, AssignedSticks
  <2>7. UploadSticks'
    <3>1. env[s] \in Environments
      BY <1>0 DEF TypeOK
    <3>2. id # 0 => \A t \in Templates : tmpl[t].id = id => env[s] = t
      BY <3>1 DEF TemplateOf, Environments, AgreeInv, IdInv, IdsUnique
    <3> QED
      BY <2>1, <2>3, <3>2 DEF UploadSticks
  <2>8. AssignmentAgreesUnlessApart'
    BY <2>1, <2>2 DEF AgreeInv, AssignmentAgreesUnlessApart, TemplateOf
  <2> QED
    BY <2>4, <2>5, <2>6, <2>7, <2>8 DEF AgreeInv
<1>2. ASSUME NEW changed \in BOOLEAN, UploadStore(changed)
      PROVE  AgreeInv'
  <2>1. /\ UNCHANGED <<tmpl, env, mgr>> /\ upl.pc = "read"
        /\ upl'.pc = "idle"
    BY <1>2 DEF UploadStore, UploadOnly, outside, NoUpload
  <2>2. RequestShape' /\ OverlapKnown' /\ AssignedSticks' /\ UploadSticks'
    BY <2>1 DEF AgreeInv, RequestShape, OverlapKnown, AssignedSticks, UploadSticks
  <2>3. upl.s \in Systems /\ tid \in [Systems -> Nat] /\ env \in [Systems -> Environments]
    BY <1>0 DEF TypeOK, Upload
  <2>4. CASE upl.id = 0 \/ ~Exists(upl.id)
    <3>1. tid' = tid /\ apart' = apart
      BY <1>2, <2>4 DEF UploadStore, Overwrites
    <3>2. AssignmentAgreesUnlessApart'
      BY <2>1, <3>1 DEF AgreeInv, AssignmentAgreesUnlessApart, TemplateOf
    <3> QED
      BY <2>2, <3>2 DEF AgreeInv
  <2>5. CASE upl.id # 0 /\ Exists(upl.id)
    <3>1. /\ tid' = [tid EXCEPT ![upl.s] = upl.id]
          /\ apart' = IF upl.over THEN apart \union {upl.s} ELSE apart \ {upl.s}
      BY <1>2, <2>5 DEF UploadStore, Overwrites
    <3>2. ~upl.over => upl.id = TemplateOf(env[upl.s])
      <4>1. PICK t \in Templates : tmpl[t].id = upl.id
        BY <2>5 DEF Exists
      <4>2. ~upl.over => env[upl.s] = t
        BY <2>1, <2>5, <4>1 DEF AgreeInv, UploadSticks
      <4>3. t # None
        BY TemplateAssumption
      <4> QED
        BY <4>1, <4>2, <4>3 DEF TemplateOf
    <3>3. AssignmentAgreesUnlessApart'
      BY <2>1, <2>3, <3>1, <3>2 DEF AgreeInv, AssignmentAgreesUnlessApart, TemplateOf
    <3> QED
      BY <2>2, <3>3 DEF AgreeInv
  <2> QED
    BY <2>4, <2>5
<1> QED
  BY <1>1, <1>2

\* Every step keeps the agreement.
LEMMA NextAgree == AgreeInv /\ [Next]_vars => AgreeInv'
<1> SUFFICES ASSUME AgreeInv, [Next]_vars
             PROVE  AgreeInv'
  OBVIOUS
<1>0. IdInv' /\ TypeOK
  BY NextIds DEF AgreeInv, IdInv
<1>1. CASE UNCHANGED vars
  <2>1. QuietStep
    BY <1>1 DEF vars, QuietStep
  <2> QED
    BY <1>0, <2>1, QuietAgree
<1>2. ASSUME NEW m \in Requests, ManagerSteps(m)
      PROVE  AgreeInv'
  BY <1>0, <1>2, Starts, StartAgree, CandlepinAgree, StoreAgree DEF ManagerSteps, RequestStep
<1>3. CASE Next
  BY <1>0, <1>2, <1>3, NextCases, QuietSteps, QuietAgree, EnvChangeAgree, RowsAgree, UploadAgree
<1> QED
  BY <1>1, <1>3

\* Candlepin and system_patch agree on the template of a system no request is busy with,
\* however requests, uploads, template events and changes by the host interleave, with no
\* exceptions but the ones AssignmentAgreesUnlessApart names.
THEOREM AssignmentAgrees == Spec => []AssignmentAgreesUnlessApart
<1>1. Init => AgreeInv
  BY InitAgree
<1>2. AgreeInv /\ [Next]_vars => AgreeInv'
  BY NextAgree
<1>3. AgreeInv => AssignmentAgreesUnlessApart
  BY DEF AgreeInv
<1> QED
  BY <1>1, <1>2, <1>3, PTL DEF Spec

-----------------------------------------------------------------------------
(* Installable advisories *)

\* The initial state shows every advisory as installable, and no system has a template.
LEMMA InitInstallable == Init => InstallableInv
<1> SUFFICES ASSUME Init
             PROVE  InstallableInv
  OBVIOUS
<1>1. IdInv
  BY InitAgree DEF AgreeInv
<1>2. \A e \in Evaluators : ev[e].pc = "idle"
  BY DEF Init, NoEvaluation
<1>3. EvaluationCurrent
  BY <1>2 DEF EvaluationCurrent
<1>4. InstallableCurrentUnlessMissed
  BY DEF Init, InstallableCurrentUnlessMissed, Installable
<1> QED
  BY <1>1, <1>3, <1>4 DEF InstallableInv

\* The property in terms of who will see to a system.
LEMMA InstallableParts ==
    /\ InstallableCurrentUnlessMissed <=>
          \A s \in Systems : inst[s] # Shown(s) =>
              Announced(s) \/ \E e \in Evaluators : ev[e].pc # "idle" /\ ev[e].s = s
    /\ InstallableCurrentUnlessMissed' <=>
          \A s \in Systems : inst'[s] # Shown(s)' =>
              Announced(s)' \/ \E e \in Evaluators : ev'[e].pc # "idle" /\ ev'[e].s = s
BY DEF InstallableCurrentUnlessMissed, Pending, Shown, Announced

\* A step outside the evaluators changes what a system shows only when it announces it.
LEMMA CurrentKept ==
    ASSUME InstallableInv, IdInv', UNCHANGED <<inst, ev>>,
           \A s \in Systems : Announced(s) => Announced(s)',
           \A s \in Systems : \/ tid'[s] = tid[s] /\ Shown(s)' = Shown(s)
                              \/ Announced(s)'
    PROVE  InstallableInv'
<1>1. \A e \in Evaluators, s \in Systems : /\ Announced(s)' => Excused(e, s)'
                                           /\ Excused(e, s) => Excused(e, s)'
  BY DEF Excused
<1>2. EvaluationCurrent'
  <2> SUFFICES ASSUME NEW e \in Evaluators, NEW s \in Systems, ev[e].s = s, ~ev[e].over
               PROVE  /\ ev[e].pc = "loaded" /\ ev[e].id # tid'[s] => Excused(e, s)'
                      /\ ev[e].pc = "read" /\ ev[e].found # Shown(s)' => Excused(e, s)'
    BY DEF EvaluationCurrent
  <2>1. /\ ev[e].pc = "loaded" /\ ev[e].id # tid[s] => Excused(e, s)
        /\ ev[e].pc = "read" /\ ev[e].found # Shown(s) => Excused(e, s)
    BY DEF InstallableInv, EvaluationCurrent
  <2> QED
    BY <1>1, <2>1
<1>3. InstallableCurrentUnlessMissed'
  BY InstallableParts DEF InstallableInv
<1> QED
  BY <1>2, <1>3 DEF InstallableInv

\* What a system shows depends on the rows of its template only.
LEMMA ShownKept ==
    ASSUME NEW s, tid'[s] = tid[s],
           tid[s] # 0 =>
             \A t \in Templates : /\ tmpl'[t].id = tid[s] <=> tmpl[t].id = tid[s]
                                  /\ tmpl[t].id = tid[s] => tmpl'[t].adv = tmpl[t].adv
    PROVE  Shown(s)' = Shown(s)
<1>1. CASE tid[s] = 0
  BY <1>1 DEF Shown, Installable
<1>2. CASE tid[s] # 0
  <2>1. AdvisoriesOf(tid[s])' = AdvisoriesOf(tid[s])
    BY <1>2 DEF AdvisoriesOf
  <2> QED
    BY <1>2, <2>1 DEF Shown, Installable
<1> QED
  BY <1>1, <1>2

\* A step that leaves all that alone.
LEMMA AloneInstallable ==
    ASSUME InstallableInv, IdInv', UNCHANGED <<inst, ev, tid, tmpl, requests, missed, rd>>,
           \A m \in Requests : mgr[m].pc = "stored" => mgr'[m].pc = "stored" /\ mgr'[m].S = mgr[m].S
    PROVE  InstallableInv'
<1>1. \A s \in Systems : Announced(s) => Announced(s)'
  BY DEF Announced
<1>2. \A s \in Systems : Shown(s)' = Shown(s)
  BY DEF Shown, Installable, AdvisoriesOf
<1> QED
  BY <1>1, <1>2, CurrentKept

\* A step of a reader that has nothing to announce, or does it at once.
LEMMA ReaderAnnounced ==
    ASSUME NEW r \in Readers, UNCHANGED mgr,
           requests \subseteq requests', missed \subseteq missed',
           \A q \in Readers \ {r} : rd'[q] = rd[q],
           NEW s \in Systems, tid'[s] = tid[s],
           rd[r].pc = "recalc" /\ rd[r].id = tid[s] => Announced(s)'
    PROVE  Announced(s) => Announced(s)'
BY DEF Announced

LEMMA ReaderMoves ==
    ASSUME InstallableInv, IdInv', NEW r \in Readers,
           rd[r].pc # "recalc", \A q \in Readers \ {r} : rd'[q] = rd[q],
           UNCHANGED <<inst, ev, tid, tmpl, missed, mgr>>, requests \subseteq requests'
    PROVE  InstallableInv'
<1>1. \A s \in Systems : Announced(s) => Announced(s)'
  BY ReaderAnnounced
<1>2. \A s \in Systems : Shown(s)' = Shown(s)
  BY DEF Shown, Installable, AdvisoriesOf
<1> QED
  BY <1>1, <1>2, CurrentKept

\* The events of templates: what they change of a system they announce.
LEMMA ReaderInstallable ==
    ASSUME InstallableInv, IdInv', NEW r \in Readers,
           ReaderStep(r) \/ AnnounceLost(r) \/ TemplateEventFails(r)
    PROVE  InstallableInv'
<1>0. TypeOK /\ T(r) \in Templates
  BY SetTypes DEF InstallableInv, IdInv
<1>a. /\ tmpl \in [Templates -> [id : Nat, adv : SUBSET Advisories]] /\ rd \in [Readers -> Handling]
      /\ tid \in [Systems -> Nat] /\ nextId \in Nat
      /\ \A s \in Systems : tid[s] < nextId
  BY <1>0 DEF InstallableInv, IdInv, IdsBelow, TypeOK
<1>b. /\ \A pc : Step(r, pc) => \A q \in Readers \ {r} : rd'[q] = rd[q]
      /\ Finish(r) => \A q \in Readers \ {r} : rd'[q] = rd[q]
  BY <1>a DEF Step, Finish
<1>1. CASE TakeEvent(r) \/ FetchAdvisories(r) \/ DiffAdvisories(r) \/ LookupTemplate(r)
  <2>1. /\ rd[r].pc # "recalc" /\ UNCHANGED <<inst, ev, tid, tmpl, missed, mgr>>
        /\ requests' = requests
    BY <1>1 DEF TakeEvent, FetchAdvisories, DiffAdvisories, LookupTemplate, ListenerOnly, hist
  <2>2. \A q \in Readers \ {r} : rd'[q] = rd[q]
    BY <1>1, <1>a DEF TakeEvent, FetchAdvisories, DiffAdvisories, LookupTemplate
  <2> QED
    BY <2>1, <2>2, ReaderMoves
<1>2. CASE FetchNotFound(r) \/ AnnounceDelete(r) \/ AnnounceLost(r)
  <2>1. /\ rd[r].pc # "recalc" /\ UNCHANGED <<inst, ev, tid, tmpl, missed, mgr>>
        /\ requests \subseteq requests'
    BY <1>2 DEF FetchNotFound, AnnounceDelete, AnnounceLost, ListenerOnly, hist
  <2>2. \A q \in Readers \ {r} : rd'[q] = rd[q]
    BY <1>2, <1>b DEF FetchNotFound, AnnounceDelete, AnnounceLost
  <2> QED
    BY <2>1, <2>2, ReaderMoves
<1>3. CASE TemplateUpsert(r)
  <2>1. /\ UNCHANGED <<inst, ev, tid, requests, missed, mgr>>
        /\ \A t \in Templates \ {T(r)} : tmpl'[t] = tmpl[t]
        /\ tmpl'[T(r)].adv = tmpl[T(r)].adv
        /\ tmpl[T(r)].id # 0 => tmpl'[T(r)].id = tmpl[T(r)].id
        /\ tmpl[T(r)].id = 0 => tmpl'[T(r)].id = nextId
    BY <1>0, <1>3, UpsertedRow
  <2>2. rd[r].pc # "recalc" /\ \A q \in Readers \ {r} : rd'[q] = rd[q]
    BY <1>3, <1>a DEF TemplateUpsert
  <2>3. \A s \in Systems : Announced(s) => Announced(s)'
    BY <2>1, <2>2, ReaderAnnounced
  <2>4. ASSUME NEW s \in Systems
        PROVE  Shown(s)' = Shown(s)
    <3>1. tid[s] # nextId /\ tid'[s] = tid[s]
      BY <1>a, <2>1
    <3>2. tid[s] # 0 =>
            \A t \in Templates : /\ tmpl'[t].id = tid[s] <=> tmpl[t].id = tid[s]
                                 /\ tmpl[t].id = tid[s] => tmpl'[t].adv = tmpl[t].adv
      BY <2>1, <3>1
    <3> QED
      BY <3>1, <3>2, ShownKept
  <2> QED
    BY <2>1, <2>3, <2>4, CurrentKept
<1>4. CASE ApplyAdvisories(r)
  <2>1. /\ UNCHANGED <<inst, ev, tid, requests, missed, mgr>> /\ rd[r].pc = "apply"
        /\ \/ UNCHANGED tmpl
           \/ /\ tmpl' = [tmpl EXCEPT ![T(r)].adv = (tmpl[T(r)].adv \ rd[r].rem) \union rd[r].add]
              /\ tmpl[T(r)].id = rd[r].id /\ Step(r, "recalc")
    BY <1>4 DEF ApplyAdvisories, RowOf, ListenerOnly, hist
  <2>2. \A q \in Readers \ {r} : rd'[q] = rd[q]
    BY <1>4, <1>b DEF ApplyAdvisories
  <2>3. \A s \in Systems : Announced(s) => Announced(s)'
    BY <2>1, <2>2, ReaderAnnounced
  <2>4. ASSUME NEW s \in Systems
        PROVE  Shown(s)' = Shown(s) \/ Announced(s)'
    <3>1. CASE UNCHANGED tmpl
      BY <2>1, <3>1, ShownKept
    <3>2. CASE ~UNCHANGED tmpl /\ tid[s] = rd[r].id
      <4>1. rd'[r].pc = "recalc" /\ rd'[r].id = rd[r].id
        BY <1>a, <2>1, <3>2 DEF Step, Handling
      <4> QED
        BY <2>1, <3>2, <4>1 DEF Announced
    <3>3. CASE ~UNCHANGED tmpl /\ tid[s] # rd[r].id
      <4>1. \A t \in Templates : /\ tmpl'[t].id = tmpl[t].id
                                 /\ t # T(r) => tmpl'[t].adv = tmpl[t].adv
        BY <1>0, <1>a, <2>1, <3>3
      <4>2. tid[s] # 0 =>
              \A t \in Templates : /\ tmpl'[t].id = tid[s] <=> tmpl[t].id = tid[s]
                                   /\ tmpl[t].id = tid[s] => tmpl'[t].adv = tmpl[t].adv
        BY <2>1, <3>3, <4>1
      <4> QED
        BY <2>1, <4>2, ShownKept
    <3> QED
      BY <3>1, <3>2, <3>3
  <2> QED
    BY <2>1, <2>3, <2>4, CurrentKept
<1>5. CASE SendTemplateRecalc(r) \/ TemplateEventFails(r)
  <2>1. /\ UNCHANGED <<inst, ev, tid, tmpl, mgr>>
        /\ requests \subseteq requests' /\ missed \subseteq missed'
        /\ rd[r].pc = "recalc" => Assigned(rd[r].id) \subseteq requests' \union missed'
    BY <1>5 DEF SendTemplateRecalc, TemplateEventFails, ListenerOnly, hist
  <2>2. \A q \in Readers \ {r} : rd'[q] = rd[q]
    BY <1>5, <1>b DEF SendTemplateRecalc, TemplateEventFails
  <2>3. ASSUME NEW s \in Systems
        PROVE  Announced(s) => Announced(s)'
    <3>1. rd[r].pc = "recalc" /\ rd[r].id = tid[s] => Announced(s)'
      BY <2>1 DEF Announced, Assigned
    <3> QED
      BY <2>1, <2>2, <3>1, ReaderAnnounced
  <2>4. \A s \in Systems : Shown(s)' = Shown(s)
    BY <2>1, ShownKept
  <2> QED
    BY <2>1, <2>3, <2>4, CurrentKept
<1>6. CASE UnassignSystems(r)
  <2>1. /\ UNCHANGED <<inst, ev, tmpl, requests, mgr>> /\ rd[r].pc = "unassign"
        /\ tid' = [s \in Systems |-> IF tid[s] = rd[r].id THEN 0 ELSE tid[s]]
        /\ missed' = missed \union (Assigned(rd[r].id) \ requests)
    BY <1>6 DEF UnassignSystems, ListenerOnly
  <2>2. \A q \in Readers \ {r} : rd'[q] = rd[q]
    BY <1>6, <1>b DEF UnassignSystems
  <2>3. ASSUME NEW s \in Systems, tid[s] = rd[r].id
        PROVE  Announced(s)'
    BY <2>1, <2>3 DEF Announced, Assigned
  <2>4. ASSUME NEW s \in Systems, tid[s] # rd[r].id
        PROVE  tid'[s] = tid[s] /\ Shown(s)' = Shown(s) /\ (Announced(s) => Announced(s)')
    <3>1. tid'[s] = tid[s]
      BY <2>1, <2>4
    <3>2. Announced(s) => Announced(s)'
      BY <2>1, <2>2, <3>1, ReaderAnnounced
    <3> QED
      BY <2>1, <3>1, <3>2, ShownKept
  <2> QED
    BY <2>1, <2>3, <2>4, CurrentKept
<1>7. CASE DeleteTemplateAdvisories(r)
  <2>1. /\ UNCHANGED <<inst, ev, tid, requests, mgr>> /\ rd[r].pc = "strip"
        /\ missed' = missed \union (Assigned(rd[r].id) \ requests)
        /\ \/ UNCHANGED tmpl
           \/ tmpl' = [tmpl EXCEPT ![T(r)].adv = {}] /\ tmpl[T(r)].id = rd[r].id
    BY <1>7 DEF DeleteTemplateAdvisories, RowOf, ListenerOnly
  <2>2. \A q \in Readers \ {r} : rd'[q] = rd[q]
    BY <1>7, <1>b DEF DeleteTemplateAdvisories
  <2>3. \A s \in Systems : Announced(s) => Announced(s)'
    BY <2>1, <2>2, ReaderAnnounced
  <2>4. ASSUME NEW s \in Systems, tid[s] = rd[r].id
        PROVE  Announced(s)'
    BY <2>1, <2>4 DEF Announced, Assigned
  <2>5. ASSUME NEW s \in Systems, tid[s] # rd[r].id
        PROVE  Shown(s)' = Shown(s)
    <3>1. \A t \in Templates : /\ tmpl'[t].id = tmpl[t].id
                               /\ tmpl[t].id = tid[s] => tmpl'[t].adv = tmpl[t].adv
      BY <1>0, <1>a, <2>1, <2>5
    <3> QED
      BY <2>1, <3>1, ShownKept
  <2> QED
    BY <2>1, <2>3, <2>4, <2>5, CurrentKept
<1>8. CASE DeleteTemplate(r)
  <2>1. /\ UNCHANGED <<tid, inst, mgr, requests, ev, missed>>
        /\ \/ UNCHANGED tmpl
           \/ /\ tmpl' = [tmpl EXCEPT ![T(r)] = NoTemplate]
              /\ Assigned(rd[r].id) = {} /\ tmpl[T(r)].id = rd[r].id
    BY <1>0, <1>8, DeletedRow
  <2>2. rd[r].pc # "recalc" /\ \A q \in Readers \ {r} : rd'[q] = rd[q]
    BY <1>8, <1>b DEF DeleteTemplate
  <2>3. \A s \in Systems : Announced(s) => Announced(s)'
    BY <2>1, <2>2, ReaderAnnounced
  <2>4. ASSUME NEW s \in Systems
        PROVE  Shown(s)' = Shown(s)
    <3>1. CASE UNCHANGED tmpl
      BY <2>1, <3>1, ShownKept
    <3>2. CASE ~UNCHANGED tmpl
      <4>1. tmpl[T(r)].id # tid[s]
        BY <2>1, <3>2 DEF Assigned
      <4>2. tmpl'[T(r)].id = 0 /\ \A t \in Templates \ {T(r)} : tmpl'[t] = tmpl[t]
        BY <1>0, <1>a, <2>1, <3>2 DEF NoTemplate
      <4>3. tid[s] # 0 =>
              \A t \in Templates : /\ tmpl'[t].id = tid[s] <=> tmpl[t].id = tid[s]
                                   /\ tmpl[t].id = tid[s] => tmpl'[t].adv = tmpl[t].adv
        BY <4>1, <4>2
      <4> QED
        BY <2>1, <4>3, ShownKept
    <3> QED
      BY <3>1, <3>2
  <2> QED
    BY <2>1, <2>3, <2>4, CurrentKept
<1> QED
  BY <1>1, <1>2, <1>3, <1>4, <1>5, <1>6, <1>7, <1>8 DEF ReaderStep

\* A request announces the new template of its systems after it has stored it.
LEMMA ManagerInstallable ==
    ASSUME InstallableInv, IdInv', NEW m \in Requests, ManagerSteps(m)
    PROVE  InstallableInv'
<1>0. TypeOK
  BY DEF InstallableInv, IdInv
<1>a. ASSUME ManagerOnly
      PROVE  UNCHANGED <<inst, ev, tmpl, rd>>
  BY <1>a DEF ManagerOnly
<1>1. ASSUME NEW S \in SUBSET Systems, NEW x \in Environments, CheckedRequest(m, S, x)
      PROVE  InstallableInv'
  <2>1. UNCHANGED <<tid, requests, missed>> /\ ManagerOnly /\ mgr[m].pc = "idle"
    BY <1>1 DEF CheckedRequest
  <2>2. \A n \in Requests \ {m} : mgr'[n] = Touch(S, m)[n]
    BY <1>0, <1>1, StartedRequest, Zenon
  <2>3. \A n \in Requests : Touch(S, m)[n].pc = mgr[n].pc /\ Touch(S, m)[n].S = mgr[n].S
    BY <1>0, TouchType
  <2>4. \A n \in Requests : mgr[n].pc = "stored" => mgr'[n].pc = "stored" /\ mgr'[n].S = mgr[n].S
    BY <2>1, <2>2, <2>3
  <2> QED
    BY <1>a, <2>1, <2>4, AloneInstallable
<1>2. CASE AssignCandlepin(m) \/ CandlepinFails(m) \/ AssignStoreFails(m)
           \/ (AssignStore(m) /\ mgr[m].id # 0 /\ ~Exists(mgr[m].id))
  <2>1. UNCHANGED <<tid, requests, missed>> /\ ManagerOnly /\ mgr[m].pc # "stored"
    BY <1>2 DEF AssignCandlepin, CandlepinFails, AssignStoreFails, AssignStore
  <2>2. mgr' = [mgr EXCEPT ![m] = NoRequest] \/ mgr' = [mgr EXCEPT ![m].pc = "assigned"]
    BY <1>2, Zenon DEF AssignCandlepin, CandlepinFails, AssignStoreFails, AssignStore
  <2>3. \A n \in Requests \ {m} : mgr'[n] = mgr[n]
    BY <1>0, <2>2, MovedRequest, EndedRequest
  <2>4. \A n \in Requests : mgr[n].pc = "stored" => mgr'[n].pc = "stored" /\ mgr'[n].S = mgr[n].S
    BY <2>1, <2>3
  <2> QED
    BY <1>a, <2>1, <2>4, AloneInstallable
<1>3. CASE AssignStore(m) /\ ~(mgr[m].id # 0 /\ ~Exists(mgr[m].id))
  <2>1. /\ tid' = [s \in Systems |-> StoredId(m, s)] /\ UNCHANGED <<requests, missed>> /\ ManagerOnly
        /\ mgr' = [mgr EXCEPT ![m].pc = "stored"] /\ mgr[m].pc = "assigned"
    BY <1>3 DEF AssignStore
  <2>2. /\ \A n \in Requests \ {m} : mgr'[n] = mgr[n]
        /\ mgr'[m].pc = "stored" /\ mgr'[m].S = mgr[m].S
    BY <1>0, <2>1, MovedRequest
  <2>3. ASSUME NEW s \in Systems, s \in mgr[m].S
        PROVE  Announced(s)'
    BY <2>2, <2>3 DEF Announced
  <2>4. ASSUME NEW s \in Systems, s \notin mgr[m].S
        PROVE  tid'[s] = tid[s] /\ Shown(s)' = Shown(s) /\ (Announced(s) => Announced(s)')
    <3>1. tid'[s] = tid[s] /\ UNCHANGED <<tmpl, rd, requests, missed>>
      BY <1>a, <2>1, <2>4 DEF StoredId
    <3>2. Announced(s) => Announced(s)'
      BY <2>1, <2>2, <3>1 DEF Announced
    <3> QED
      BY <3>1, <3>2, ShownKept
  <2> QED
    BY <1>a, <2>1, <2>3, <2>4, CurrentKept
<1>4. CASE AssignRecalc(m) \/ AssignRecalcFails(m)
  <2>1. /\ UNCHANGED tid /\ ManagerOnly /\ mgr' = [mgr EXCEPT ![m] = NoRequest]
        /\ requests \subseteq requests' /\ missed \subseteq missed'
        /\ mgr[m].S \subseteq requests' \union missed'
    BY <1>4 DEF AssignRecalc, AssignRecalcFails
  <2>2. \A n \in Requests \ {m} : mgr'[n] = mgr[n]
    BY <1>0, <2>1, EndedRequest
  <2>3. UNCHANGED <<inst, ev, tmpl, rd>>
    BY <1>a, <2>1
  <2>4. \A s \in Systems : Announced(s) => Announced(s)'
    BY <2>1, <2>2, <2>3 DEF Announced
  <2>5. \A s \in Systems : Shown(s)' = Shown(s)
    BY <2>1, <2>3, ShownKept
  <2> QED
    BY <2>1, <2>3, <2>4, <2>5, CurrentKept
<1> QED
  BY <1>1, <1>2, <1>3, <1>4, Starts DEF ManagerSteps, RequestStep

\* An upload that changes the template of a system asks for an evaluation, or misses it.
LEMMA UploadInstallable ==
    ASSUME InstallableInv, IdInv', NEW changed \in BOOLEAN, UploadStore(changed)
    PROVE  InstallableInv'
<1>0. TypeOK
  BY DEF InstallableInv, IdInv
<1>a. upl.s \in Systems /\ tid \in [Systems -> Nat]
  BY <1>0 DEF TypeOK, Upload
<1>1. UNCHANGED <<inst, ev, tmpl, rd, mgr>>
  BY DEF UploadStore, UploadOnly
<1>2. CASE upl.id # 0 /\ ~Exists(upl.id)
  <2>1. UNCHANGED <<tid, requests, missed>>
    BY <1>2 DEF UploadStore
  <2> QED
    BY <1>1, <2>1, AloneInstallable
<1>3. CASE ~(upl.id # 0 /\ ~Exists(upl.id))
  <2>1. /\ tid' = tid \/ tid' = [tid EXCEPT ![upl.s] = upl.id]
        /\ requests \subseteq requests' /\ missed \subseteq missed'
    BY <1>3 DEF UploadStore
  <2>2. tid' # tid => upl.s \in requests' \union missed'
    BY <1>3 DEF UploadStore
  <2>3. ASSUME NEW s \in Systems
        PROVE  /\ Announced(s) => Announced(s)'
               /\ (tid'[s] = tid[s] /\ Shown(s)' = Shown(s)) \/ Announced(s)'
    <3>1. CASE tid'[s] = tid[s]
      <4>1. Announced(s) => Announced(s)'
        BY <1>1, <2>1, <3>1 DEF Announced
      <4> QED
        BY <1>1, <3>1, <4>1, ShownKept
    <3>2. CASE tid'[s] # tid[s]
      <4>1. tid' # tid /\ s = upl.s
        BY <1>a, <2>1, <3>2
      <4>2. Announced(s)'
        BY <2>2, <4>1 DEF Announced
      <4> QED
        BY <3>2, <4>2
    <3> QED
      BY <3>1, <3>2
  <2> QED
    BY <1>1, <2>3, CurrentKept
<1> QED
  BY <1>2, <1>3

\* What the evaluators leave alone.
LEMMA EvaluatorAlone ==
    ASSUME EvaluatorOnly
    PROVE  /\ UNCHANGED <<tid, mgr, rd>>
           /\ \A s \in Systems : Shown(s)' = Shown(s)
<1>1. UNCHANGED <<tid, mgr, rd, tmpl>>
  BY DEF EvaluatorOnly
<1> QED
  BY <1>1, ShownKept

\* An evaluation takes a request, and is pending from then on.
LEMMA LoadInstallable ==
    ASSUME InstallableInv, IdInv', NEW e \in Evaluators, NEW s \in Systems, EvalLoad(e, s)
    PROVE  InstallableInv'
<1>0. TypeOK
  BY DEF InstallableInv, IdInv
<1>a. ev \in [Evaluators -> Evaluation] /\ NoEvaluation \in Evaluation /\ tid[s] \in Nat
  BY <1>0, Defaults DEF TypeOK
<1>1. /\ UNCHANGED <<tid, mgr, rd, inst>> /\ \A u \in Systems : Shown(u)' = Shown(u)
      /\ requests' = requests \ {s} /\ missed' = missed \ {s}
  BY EvaluatorAlone DEF EvalLoad
<1>2. /\ ev'[e].pc = "loaded" /\ ev'[e].s = s /\ ev'[e].id = tid[s]
      /\ \A f \in Evaluators \ {e} : ev'[f] = ev[f]
  <2> DEFINE new == [NoEvaluation EXCEPT !.pc = "loaded", !.s = s, !.id = tid[s]]
  <2>1. new.pc = "loaded" /\ new.s = s /\ new.id = tid[s]
    BY <1>a DEF Evaluation
  <2>2. ev' = [ev EXCEPT ![e] = new]
    BY DEF EvalLoad
  <2> HIDE DEF new
  <2> QED
    BY <1>a, <2>1, <2>2
<1>3. \A u \in Systems \ {s} : Announced(u) => Announced(u)'
  BY <1>1 DEF Announced
<1>4. ev[e].pc = "idle"
  BY DEF EvalLoad
<1>5. EvaluationCurrent'
  <2>1. ASSUME NEW f \in Evaluators \ {e}
        PROVE  Excused(f, s)'
    BY <1>2, <2>1 DEF Excused
  <2>2. ASSUME NEW f \in Evaluators \ {e}, NEW u \in Systems \ {s}, Excused(f, u)
        PROVE  Excused(f, u)'
    BY <1>2, <1>3, <1>4, <2>2 DEF Excused
  <2> QED
    BY <1>1, <1>2, <2>1, <2>2 DEF InstallableInv, EvaluationCurrent
<1>6. InstallableCurrentUnlessMissed'
  <2>1. \A u \in Systems : (\E f \in Evaluators : ev[f].pc # "idle" /\ ev[f].s = u)
          => \E f \in Evaluators : ev'[f].pc # "idle" /\ ev'[f].s = u
    BY <1>2, <1>4
  <2>2. \E f \in Evaluators : ev'[f].pc # "idle" /\ ev'[f].s = s
    BY <1>2
  <2> QED
    BY <1>1, <1>3, <2>1, <2>2, InstallableParts DEF InstallableInv
<1> QED
  BY <1>5, <1>6 DEF InstallableInv

\* An evaluation that reads the advisories of the template it has.
LEMMA ReadInstallable ==
    ASSUME InstallableInv, IdInv', NEW e \in Evaluators, EvalRead(e)
    PROVE  InstallableInv'
<1>0. TypeOK
  BY DEF InstallableInv, IdInv
<1>a. ev \in [Evaluators -> Evaluation]
  BY <1>0 DEF TypeOK
<1>1. /\ UNCHANGED <<tid, mgr, rd, inst, requests, missed>>
      /\ \A u \in Systems : Shown(u)' = Shown(u)
  BY EvaluatorAlone DEF EvalRead
<1>2. /\ ev'[e].pc = "read" /\ ev'[e].s = ev[e].s /\ ev'[e].over = ev[e].over
      /\ ev'[e].found = Installable(ev[e].id)
      /\ \A f \in Evaluators \ {e} : ev'[f] = ev[f]
  <2> DEFINE found == Installable(ev[e].id)
  <2>1. ev' = [ev EXCEPT ![e].pc = "read", ![e].found = found]
    BY DEF EvalRead
  <2> HIDE DEF found
  <2>2. /\ ev'[e].pc = "read" /\ ev'[e].s = ev[e].s /\ ev'[e].over = ev[e].over
        /\ ev'[e].found = found /\ \A f \in Evaluators \ {e} : ev'[f] = ev[f]
    BY <1>a, <2>1 DEF Evaluation
  <2> QED
    BY <2>2 DEF found
<1>3. \A u : Announced(u)' <=> Announced(u)
  BY <1>1 DEF Announced
<1>4. ev[e].pc = "loaded"
  BY DEF EvalRead
<1>5. \A f \in Evaluators : (ev'[f].pc # "idle" <=> ev[f].pc # "idle") /\ ev'[f].s = ev[f].s
  BY <1>2, <1>4
<1>6. \A f \in Evaluators, u \in Systems : Excused(f, u)' <=> Excused(f, u)
  BY <1>3, <1>5 DEF Excused
<1>7. EvaluationCurrent'
  <2> SUFFICES ASSUME NEW f \in Evaluators, NEW u \in Systems, ev'[f].s = u, ~ev'[f].over
               PROVE  /\ ev'[f].pc = "loaded" /\ ev'[f].id # tid'[u] => Excused(f, u)'
                      /\ ev'[f].pc = "read" /\ ev'[f].found # Shown(u)' => Excused(f, u)'
    BY DEF EvaluationCurrent
  <2>1. CASE f = e
    <3>1. ev[e].id # tid[u] => Excused(e, u)
      BY <1>2, <1>4, <2>1 DEF InstallableInv, EvaluationCurrent
    <3>2. ev[e].id = tid[u] => ev'[e].found = Shown(u)
      BY <1>2 DEF Shown
    <3> QED
      BY <1>1, <1>2, <1>6, <2>1, <3>1, <3>2
  <2>2. CASE f # e
    BY <1>1, <1>2, <1>6, <2>2 DEF InstallableInv, EvaluationCurrent
  <2> QED
    BY <2>1, <2>2
<1>8. InstallableCurrentUnlessMissed'
  BY <1>1, <1>3, <1>5, InstallableParts DEF InstallableInv
<1> QED
  BY <1>7, <1>8 DEF InstallableInv

\* An evaluation that fails is missed.
LEMMA FailInstallable ==
    ASSUME InstallableInv, IdInv', NEW e \in Evaluators, EvalFails(e)
    PROVE  InstallableInv'
<1>a. ev \in [Evaluators -> Evaluation]
  BY DEF InstallableInv, IdInv, TypeOK
<1>1. /\ UNCHANGED <<tid, mgr, rd, requests, inst>> /\ missed' = missed \union {ev[e].s}
      /\ \A u \in Systems : Shown(u)' = Shown(u)
  BY EvaluatorAlone DEF EvalFails
<1>2. ev'[e].pc = "idle" /\ \A f \in Evaluators \ {e} : ev'[f] = ev[f]
  BY <1>a DEF EvalFails, NoEvaluation
<1>3. \A u \in Systems : Announced(u) \/ u = ev[e].s => Announced(u)'
  BY <1>1 DEF Announced
<1>4. ASSUME NEW f \in Evaluators, NEW u \in Systems, Excused(f, u)
      PROVE  Excused(f, u)'
  BY <1>2, <1>3, <1>4 DEF Excused
<1>5. EvaluationCurrent'
  BY <1>1, <1>2, <1>4 DEF InstallableInv, EvaluationCurrent
<1>6. InstallableCurrentUnlessMissed'
  BY <1>1, <1>2, <1>3, InstallableParts DEF InstallableInv
<1> QED
  BY <1>5, <1>6 DEF InstallableInv

\* An evaluation that stores what it found: the others of the system are overtaken.
LEMMA StoreInstallable ==
    ASSUME InstallableInv, IdInv', NEW e \in Evaluators, EvalStore(e)
    PROVE  InstallableInv'
<1>a. /\ ev \in [Evaluators -> Evaluation] /\ inst \in [Systems -> SUBSET Advisories]
      /\ \A f \in Evaluators : ev[f].s \in Systems /\ ev[f].over \in BOOLEAN
  BY DEF InstallableInv, IdInv, TypeOK, Evaluation
<1>1. /\ UNCHANGED <<tid, mgr, rd, requests>> /\ missed \subseteq missed' /\ ev[e].pc = "read"
      /\ inst' = [inst EXCEPT ![ev[e].s] = ev[e].found] /\ (ev[e].over => ev[e].s \in missed')
      /\ \A u \in Systems : Shown(u)' = Shown(u)
  BY EvaluatorAlone DEF EvalStore
<1>2. \A u \in Systems : Announced(u) => Announced(u)'
  BY <1>1 DEF Announced
<1>3. ASSUME NEW f \in Evaluators
      PROVE  /\ f = e => ev'[f].pc = "idle"
             /\ f # e => /\ ev'[f].pc = ev[f].pc /\ ev'[f].s = ev[f].s
                         /\ ev'[f].id = ev[f].id /\ ev'[f].found = ev[f].found
                         /\ ev'[f].over = (ev[f].over \/ (ev[f].pc # "idle" /\ ev[f].s = ev[e].s))
  <2> DEFINE b == [ev[f] EXCEPT !.over = ev[f].over \/ (ev[f].pc # "idle" /\ ev[f].s = ev[e].s)]
  <2>1. /\ b.pc = ev[f].pc /\ b.s = ev[f].s /\ b.id = ev[f].id /\ b.found = ev[f].found
        /\ b.over = (ev[f].over \/ (ev[f].pc # "idle" /\ ev[f].s = ev[e].s))
    BY <1>a DEF Evaluation
  <2>2. ev'[f] = IF f = e THEN NoEvaluation ELSE b
    BY DEF EvalStore
  <2> HIDE DEF b
  <2>3. CASE f = e
    BY <2>2, <2>3 DEF NoEvaluation
  <2>4. CASE f # e
    <3>1. ev'[f] = b
      BY <2>2, <2>4
    <3> QED
      BY <2>1, <2>4, <3>1, Zenon
  <2> QED
    BY <2>3, <2>4
<1>4. ASSUME NEW f \in Evaluators, NEW u \in Systems, Excused(f, u), u # ev[e].s
      PROVE  Excused(f, u)'
  BY <1>2, <1>3, <1>4 DEF Excused
<1>5. EvaluationCurrent'
  <2> SUFFICES ASSUME NEW f \in Evaluators, NEW u \in Systems, ev'[f].s = u, ~ev'[f].over,
                      ev'[f].pc # "idle"
               PROVE  /\ ev'[f].pc = "loaded" /\ ev'[f].id # tid'[u] => Excused(f, u)'
                      /\ ev'[f].pc = "read" /\ ev'[f].found # Shown(u)' => Excused(f, u)'
    BY DEF EvaluationCurrent
  <2>1. /\ f # e /\ ev'[f].pc = ev[f].pc /\ ev[f].s = u /\ u # ev[e].s /\ ~ev[f].over
        /\ ev'[f].id = ev[f].id /\ ev'[f].found = ev[f].found
    BY <1>3
  <2> QED
    BY <1>1, <1>4, <2>1 DEF InstallableInv, EvaluationCurrent
<1>6. ASSUME NEW u \in Systems, inst'[u] # Shown(u)'
      PROVE  Announced(u)' \/ \E f \in Evaluators : ev'[f].pc # "idle" /\ ev'[f].s = u
  <2>1. CASE u # ev[e].s
    <3>1. inst'[u] = inst[u]
      BY <1>a, <1>1, <2>1
    <3>2. Announced(u) \/ \E f \in Evaluators : ev[f].pc # "idle" /\ ev[f].s = u
      BY <1>1, <1>6, <3>1, InstallableParts DEF InstallableInv
    <3> QED
      BY <1>2, <1>3, <2>1, <3>2
  <2>2. CASE u = ev[e].s /\ ev[e].over
    BY <1>1, <2>2 DEF Announced
  <2>3. CASE u = ev[e].s /\ ~ev[e].over
    <3>1. inst'[u] = ev[e].found
      BY <1>a, <1>1, <2>3
    <3>2. Excused(e, u)
      BY <1>1, <1>6, <2>3, <3>1 DEF InstallableInv, EvaluationCurrent
    <3> QED
      BY <1>2, <1>3, <3>2 DEF Excused
  <2> QED
    BY <2>1, <2>2, <2>3
<1>7. InstallableCurrentUnlessMissed'
  BY <1>6, InstallableParts
<1> QED
  BY <1>5, <1>7 DEF InstallableInv

\* Every step keeps what systems show current, or announces it.
LEMMA NextInstallable == InstallableInv /\ [Next]_vars => InstallableInv'
<1> SUFFICES ASSUME InstallableInv, [Next]_vars
             PROVE  InstallableInv'
  OBVIOUS
<1>0. IdInv' /\ TypeOK
  BY NextIds DEF InstallableInv, IdInv
<1>1. CASE UNCHANGED vars
  <2>1. UNCHANGED <<inst, ev, tid, tmpl, requests, missed, rd, mgr>>
    BY <1>1 DEF vars
  <2> QED
    BY <1>0, <2>1, AloneInstallable
<1>2. CASE \/ \E t \in Templates, adv \in SUBSET Advisories : CsCreate(t, adv) \/ CsUpdate(t, adv)
           \/ \E t \in Templates : CsDelete(t)
           \/ \E a \in Advisories : AdvisorySynced(a)
  <2>1. UNCHANGED <<inst, ev, tid, tmpl, requests, missed, rd, mgr>>
    BY <1>2, Zenon DEF CsCreate, CsUpdate, CsDelete, AdvisorySynced, External
  <2> QED
    BY <1>0, <2>1, AloneInstallable
<1>3. CASE \/ \E s \in Systems, x \in Environments : EnvChange(s, x)
           \/ \E s \in Systems : \E id \in {0, TemplateOf(env[s])} : HostTemplate(s, id)
  <2>1. /\ UNCHANGED <<inst, ev, tid, tmpl, requests, missed, rd>>
        /\ \E s \in Systems : mgr' = Touch({s}, None)
    BY <1>3 DEF EnvChange, External, HostTemplate, UploadOnly
  <2>2. \A m \in Requests : mgr'[m].pc = mgr[m].pc /\ mgr'[m].S = mgr[m].S
    BY <1>0, <2>1, TouchType
  <2> QED
    BY <1>0, <2>1, <2>2, AloneInstallable
<1>4. CASE Next
  BY <1>0, <1>2, <1>3, <1>4, NextCases, ReaderInstallable, ManagerInstallable, UploadInstallable,
     LoadInstallable, ReadInstallable, StoreInstallable, FailInstallable DEF ReaderStep
<1> QED
  BY <1>1, <1>4

\* What a system shows as installable is what its template contains, or an evaluation is on
\* its way, however assignments, template events, uploads and evaluations interleave, with no
\* exceptions but the ones InstallableCurrentUnlessMissed names.
THEOREM InstallableCurrent == Spec => []InstallableCurrentUnlessMissed
<1>1. Init => InstallableInv
  BY InitInstallable
<1>2. InstallableInv /\ [Next]_vars => InstallableInv'
  BY NextInstallable
<1>3. InstallableInv => InstallableCurrentUnlessMissed
  BY DEF InstallableInv
<1> QED
  BY <1>1, <1>2, <1>3, PTL DEF Spec

-----------------------------------------------------------------------------
(* Templates and Content Sources *)

\* Reader r is at an event of template t.
At(r, t) == rd[r].pc # "idle" /\ T(r) = t

\* The property by its parts.
LEMMA TemplateParts ==
    /\ TemplateCurrentUnlessLagging <=>
          \A t \in Templates : \/ t \in lagging \/ Queued(t)
                               \/ (\E r \in Readers : At(r, t)) \/ CurrentTemplate(t)
    /\ TemplateCurrentUnlessLagging' <=>
          \A t \in Templates : \/ t \in lagging' \/ Queued(t)'
                               \/ (\E r \in Readers : At(r, t)') \/ CurrentTemplate(t)'
BY DEF TemplateCurrentUnlessLagging, Queued, At, CurrentTemplate

\* The initial state satisfies the invariant.
LEMMA InitTemplate == Init => TemplateInv
<1> SUFFICES ASSUME Init
             PROVE  TemplateInv
  OBVIOUS
<1>1. IdInv /\ TypeOK
  BY InitAgree DEF AgreeInv, IdInv
<1>2. /\ events = <<>> /\ \A r \in Readers : rd[r] = NoHandling
      /\ tmpl = [t \in Templates |-> IF cs[t].state = "new" THEN NoTemplate
                                     ELSE [id |-> FirstId[t], adv |-> cs[t].adv \intersect known]]
      /\ cs \in [Templates -> {[state |-> "new", adv |-> {}]}
                                \union [state : {"live"}, adv : SUBSET Advisories]]
  BY DEF Init
<1>3. ASSUME NEW t \in Templates
      PROVE  /\ CurrentTemplate(t) /\ tmpl[t].adv \subseteq known /\ (tmpl[t].id = 0 => tmpl[t].adv = {})
             /\ cs[t].state # "gone"
  <2>1. cs[t] = [state |-> "new", adv |-> {}] \/ cs[t] \in [state : {"live"}, adv : SUBSET Advisories]
    BY <1>2
  <2>2. FirstId[t] \in Nat /\ FirstId[t] # 0
    BY FirstIds
  <2>3. CASE cs[t] = [state |-> "new", adv |-> {}]
    BY <1>2, <2>3 DEF NoTemplate, CurrentTemplate
  <2>4. CASE cs[t] \in [state : {"live"}, adv : SUBSET Advisories]
    <3>1. cs[t].state = "live"
      BY <2>4
    <3>2. tmpl[t] = [id |-> FirstId[t], adv |-> cs[t].adv \intersect known]
      BY <1>2, <3>1
    <3> QED
      BY <2>2, <3>1, <3>2 DEF CurrentTemplate
  <2> QED
    BY <2>1, <2>3, <2>4
<1>4. AdvisoriesShape
  BY <1>2, <1>3 DEF AdvisoriesShape, NoHandling
<1>5. \A r \in Readers : rd[r].pc = "idle"
  BY <1>2 DEF NoHandling
<1>6. DeletedIsGone /\ SharedLags /\ HandlingShape /\ HandlingOnCourse
  BY <1>2, <1>5 DEF DeletedIsGone, SharedLags, HandlingShape, HandlingOnCourse
<1>7. TemplateCurrentUnlessLagging
  BY <1>3, TemplateParts
<1> QED
  BY <1>1, <1>4, <1>6, <1>7 DEF TemplateInv

\* Manager, uploads and evaluators change nothing of it.
LEMMA AloneTemplate ==
    ASSUME TemplateInv, IdInv', UNCHANGED <<cs, known, tmpl, events, rd, lagging>>
    PROVE  TemplateInv'
<1>1. AdvisoriesShape' /\ DeletedIsGone' /\ SharedLags' /\ HandlingShape'
  BY DEF TemplateInv, AdvisoriesShape, DeletedIsGone, SharedLags, HandlingShape, T
<1>2. HandlingOnCourse'
  BY DEF TemplateInv, HandlingOnCourse, OnCourse, CurrentTemplate, Queued, T
<1>3. TemplateCurrentUnlessLagging'
  BY DEF TemplateInv, TemplateCurrentUnlessLagging, T
<1> QED
  BY <1>1, <1>2, <1>3 DEF TemplateInv

\* Content Sources changes a template and announces it.
LEMMA AnnouncedTemplate ==
    ASSUME TemplateInv, IdInv', NEW t \in Templates, NEW type \in {"created", "updated", "deleted"},
           Announce(type, t), UNCHANGED <<known, tmpl, rd, lagging>>,
           cs[t].state # "gone", \A u \in Templates \ {t} : cs'[u] = cs[u],
           cs'[t].state = "gone" => cs'[t].adv = {},
           type = "deleted" => cs'[t].state = "gone"
    PROVE  TemplateInv'
<1> DEFINE e == [type |-> type, t |-> t]
<1>0. events \in Seq(Event) /\ e \in Event /\ \A r \in Readers : T(r) \in Templates
  BY SetTypes DEF TemplateInv, IdInv, TypeOK, Event
<1>1. /\ Len(events') = Len(events) + 1 /\ events'[Len(events) + 1] = e
      /\ \A i \in 1 .. Len(events) : events'[i] = events[i] /\ events[i].t \in Templates
      /\ Len(events) \in Nat
  <2>1. events' = Append(events, e)
    BY DEF Announce
  <2> HIDE DEF e
  <2>2. ASSUME NEW i \in 1 .. Len(events)
        PROVE  events[i].t \in Templates
    <3>1. events[i] \in Event
      BY <1>0
    <3> QED
      BY <3>1 DEF Event
  <2> QED
    BY <1>0, <2>1, <2>2, AppendProperties
<1>2. \A u : Queued(u)' <=> Queued(u) \/ u = t
  BY <1>1 DEF Queued
<1>3. AdvisoriesShape'
  BY DEF TemplateInv, AdvisoriesShape
<1>4. DeletedIsGone'
  <2>1. \A i \in 1 .. Len(events') : events'[i].type = "deleted" => cs'[events'[i].t].state = "gone"
    <3> SUFFICES ASSUME NEW i \in 1 .. Len(events'), events'[i].type = "deleted"
                 PROVE  cs'[events'[i].t].state = "gone"
      OBVIOUS
    <3>1. CASE i = Len(events) + 1
      BY <1>1, <3>1
    <3>2. CASE i \in 1 .. Len(events)
      <4>1. cs[events[i].t].state = "gone" /\ events'[i] = events[i]
        BY <1>1, <3>2 DEF TemplateInv, DeletedIsGone
      <4> QED
        BY <1>1, <3>2, <4>1
    <3> QED
      BY <1>1, <3>1, <3>2
  <2>2. \A r \in Readers : rd'[r].pc # "idle" /\ rd'[r].event.type = "deleted"
                              => cs'[T(r)'].state = "gone"
    BY <1>0 DEF TemplateInv, DeletedIsGone, T
  <2> QED
    BY <2>1, <2>2 DEF DeletedIsGone, T
<1>5. SharedLags' /\ HandlingShape'
  BY DEF TemplateInv, SharedLags, HandlingShape, T
<1>6. HandlingOnCourse'
  <2> SUFFICES ASSUME NEW r \in Readers, rd[r].pc # "idle", T(r) \notin lagging, ~Queued(T(r))'
               PROVE  OnCourse(r)'
    BY DEF HandlingOnCourse, T
  <2>1. T(r)' = T(r)
    BY DEF T
  <2>2. T(r) # t /\ ~Queued(T(r))
    <3> PICK u \in Templates : u = T(r)
      BY <1>0
    <3>1. Queued(T(r))' <=> Queued(u)'
      BY <2>1 DEF Queued
    <3>2. Queued(u)' <=> Queued(u) \/ u = t
      BY <1>2
    <3>3. Queued(T(r)) <=> Queued(u)
      BY DEF Queued
    <3> QED
      BY <3>1, <3>2, <3>3
  <2>3. OnCourse(r)
    BY <2>2 DEF TemplateInv, HandlingOnCourse
  <2>4. cs'[T(r)] = cs[T(r)]
    BY <1>0, <2>2
  <2> QED
    BY <2>1, <2>3, <2>4 DEF OnCourse, CurrentTemplate
<1>7. TemplateCurrentUnlessLagging'
  <2>1. ASSUME NEW u \in Templates \ {t}
        PROVE  CurrentTemplate(u)' <=> CurrentTemplate(u)
    BY <2>1 DEF CurrentTemplate
  <2>2. \A r \in Readers, u \in Templates : At(r, u)' <=> At(r, u)
    BY DEF At, T
  <2> QED
    BY <1>2, <2>1, <2>2, TemplateParts DEF TemplateInv
<1> QED
  BY <1>3, <1>4, <1>5, <1>6, <1>7 DEF TemplateInv

\* An advisory that is synchronized leaves the templates that have it lagging.
LEMMA SyncedTemplate ==
    ASSUME TemplateInv, IdInv', NEW a \in Advisories, AdvisorySynced(a)
    PROVE  TemplateInv'
<1>0. \A r \in Readers : T(r) \in Templates
  BY SetTypes DEF TemplateInv, IdInv
<1>1. /\ UNCHANGED <<cs, tmpl, rd, events>> /\ known' = known \union {a}
      /\ lagging' = lagging \union {t \in Templates : a \in cs[t].adv}
  BY DEF AdvisorySynced, External
<1>2. \A t \in Templates \ lagging' : cs[t].adv \intersect known' = cs[t].adv \intersect known
  BY <1>1
<1>3. AdvisoriesShape' /\ DeletedIsGone' /\ SharedLags' /\ HandlingShape'
  BY <1>1 DEF TemplateInv, AdvisoriesShape, DeletedIsGone, SharedLags, HandlingShape, T
<1>4. \A r \in Readers : T(r)' = T(r) /\ (Queued(T(r))' <=> Queued(T(r)))
  BY <1>1 DEF T, Queued
<1>5. ASSUME NEW t \in Templates \ lagging'
      PROVE  /\ CurrentTemplate(t)' <=> CurrentTemplate(t)
             /\ Queued(t)' <=> Queued(t)
             /\ \A r \in Readers : At(r, t)' <=> At(r, t)
  BY <1>1, <1>2 DEF CurrentTemplate, Queued, At, T
<1>6. HandlingOnCourse'
  <2> SUFFICES ASSUME NEW r \in Readers, rd[r].pc # "idle", T(r) \notin lagging', ~Queued(T(r))'
               PROVE  OnCourse(r)'
    BY <1>1, <1>4 DEF HandlingOnCourse
  <2>1. OnCourse(r)
    BY <1>1, <1>4 DEF TemplateInv, HandlingOnCourse
  <2>2. cs[T(r)].adv \intersect known' = cs[T(r)].adv \intersect known
    BY <1>0, <1>2
  <2> QED
    BY <1>1, <1>4, <2>1, <2>2 DEF OnCourse, CurrentTemplate
<1>7. TemplateCurrentUnlessLagging'
  BY <1>1, <1>5, TemplateParts DEF TemplateInv
<1> QED
  BY <1>3, <1>6, <1>7 DEF TemplateInv

\* A reader takes an event: nobody else is at its template, or the template lags.
LEMMA TakenTemplate ==
    ASSUME TemplateInv, IdInv', NEW r \in Readers, TakeEvent(r)
    PROVE  TemplateInv'
<1> DEFINE e == Head(events)
<1>0. TypeOK /\ NoHandling \in Handling /\ \A q \in Readers : T(q) \in Templates
  BY SetTypes, Defaults DEF TemplateInv, IdInv
<1>a. events \in Seq(Event) /\ events # <<>> /\ rd \in [Readers -> Handling]
  BY <1>0 DEF TakeEvent, TypeOK
<1>b. /\ e \in Event /\ e.t \in Templates /\ Len(events) \in Nat \ {0} /\ events[1] = e
      /\ Len(Tail(events)) = Len(events) - 1
      /\ \A i \in 1 .. Len(events) - 1 : Tail(events)[i] = events[i + 1]
  <2>1. e \in Event /\ Len(events) \in Nat \ {0} /\ events[1] = e
    BY <1>a
  <2>2. e.t \in Templates
    BY <2>1 DEF Event
  <2> QED
    BY <1>a, <2>1, <2>2, HeadTailProperties
<1>1. /\ UNCHANGED <<cs, known, tmpl>> /\ rd[r].pc = "idle" /\ events' = Tail(events)
      /\ rd' = [rd EXCEPT ![r] = [NoHandling EXCEPT !.event = e,
                   !.pc = IF e.type = "deleted" THEN "lookup" ELSE "upsert"]]
      /\ lagging' = IF (\E q \in Readers : rd[q].pc # "idle" /\ T(q) = e.t) \/ e.type = "created"
                    THEN lagging \union {e.t} ELSE lagging \ {e.t}
  BY DEF TakeEvent, ListenerOnly, outside
<1>2. /\ rd'[r].event = e /\ rd'[r].pc = IF e.type = "deleted" THEN "lookup" ELSE "upsert"
      /\ rd'[r].add = {} /\ \A q \in Readers \ {r} : rd'[q] = rd[q]
  <2> DEFINE h == [NoHandling EXCEPT !.event = e,
                     !.pc = IF e.type = "deleted" THEN "lookup" ELSE "upsert"]
  <2>1. h.event = e /\ h.pc = (IF e.type = "deleted" THEN "lookup" ELSE "upsert") /\ h.add = {}
    BY DEF NoHandling
  <2>2. rd' = [rd EXCEPT ![r] = h]
    BY <1>1
  <2> HIDE DEF h, e
  <2> QED
    BY <1>a, <2>1, <2>2
<1> HIDE DEF e
<1>3. T(r)' = e.t /\ \A q \in Readers \ {r} : T(q)' = T(q)
  BY <1>2 DEF T
<1>4. \A u : (Queued(u) => Queued(u)' \/ u = e.t)
  <2> SUFFICES ASSUME NEW u, NEW i \in 1 .. Len(events), events[i].t = u, u # e.t
               PROVE  Queued(u)'
    BY DEF Queued
  <2>1. i # 1 /\ i - 1 \in 1 .. Len(events) - 1
    BY <1>b
  <2>2. events'[i - 1] = events[i]
    BY <1>1, <1>b, <2>1
  <2> QED
    BY <1>1, <1>b, <2>1, <2>2 DEF Queued
<1>5. ASSUME NEW q \in Readers \ {r}, rd[q].pc # "idle"
      PROVE  IF T(q) = e.t THEN T(q) \in lagging' ELSE (T(q) \in lagging' <=> T(q) \in lagging)
  BY <1>1, <1>5
<1>6. AdvisoriesShape' /\ HandlingShape'
  BY <1>1, <1>2 DEF TemplateInv, AdvisoriesShape, HandlingShape
<1>7. DeletedIsGone'
  <2>1. e.type = "deleted" => cs[e.t].state = "gone"
    <3>1. 1 \in 1 .. Len(events)
      BY <1>b
    <3> QED
      BY <1>b, <3>1 DEF TemplateInv, DeletedIsGone
  <2>2. \A i \in 1 .. Len(events') : events'[i].type = "deleted" => cs[events'[i].t].state = "gone"
    <3> SUFFICES ASSUME NEW i \in 1 .. Len(events')
                 PROVE  events'[i].type = "deleted" => cs[events'[i].t].state = "gone"
      OBVIOUS
    <3>1. i + 1 \in 1 .. Len(events) /\ events'[i] = events[i + 1]
      BY <1>1, <1>b
    <3> QED
      BY <3>1 DEF TemplateInv, DeletedIsGone
  <2>3. ASSUME NEW q \in Readers, rd'[q].pc # "idle", rd'[q].event.type = "deleted"
        PROVE  cs[T(q)'].state = "gone"
    BY <1>2, <1>3, <2>1, <2>3 DEF TemplateInv, DeletedIsGone
  <2> QED
    BY <1>1, <2>2, <2>3 DEF DeletedIsGone
<1>8. SharedLags'
  <2>1. ASSUME NEW q \in Readers \ {r}, rd[q].pc # "idle", T(q) = e.t
        PROVE  e.t \in lagging'
    BY <1>1, <2>1
  <2>2. ASSUME NEW p \in Readers, NEW q \in Readers, p # q, rd'[p].pc # "idle", rd'[q].pc # "idle",
               T(p)' = T(q)'
        PROVE  T(q)' \in lagging'
    <3>1. CASE p = r
      BY <1>2, <1>3, <2>1, <2>2, <3>1
    <3>2. CASE q = r
      BY <1>2, <1>3, <2>1, <2>2, <3>2
    <3>3. CASE p # r /\ q # r
      <4>1. T(q) \in lagging
        BY <1>2, <1>3, <2>2, <3>3 DEF TemplateInv, SharedLags
      <4> QED
        BY <1>2, <1>3, <1>5, <2>2, <3>3, <4>1
    <3> QED
      BY <3>1, <3>2, <3>3
  <2>3. ASSUME NEW q \in Readers, rd'[q].pc # "idle", rd'[q].event.type = "created"
        PROVE  T(q)' \in lagging'
    <3>1. CASE q = r
      BY <1>1, <1>2, <1>3, <2>3, <3>1
    <3>2. CASE q # r
      <4>1. T(q) \in lagging
        BY <1>2, <2>3, <3>2 DEF TemplateInv, SharedLags
      <4> QED
        BY <1>2, <1>3, <1>5, <2>3, <3>2, <4>1
    <3> QED
      BY <3>1, <3>2
  <2> QED
    BY <2>2, <2>3 DEF SharedLags
<1>9. HandlingOnCourse'
  <2> SUFFICES ASSUME NEW q \in Readers, rd'[q].pc # "idle", T(q)' \notin lagging', ~Queued(T(q))'
               PROVE  OnCourse(q)'
    BY DEF HandlingOnCourse
  <2>1. CASE q = r
    BY <1>2, <2>1 DEF OnCourse
  <2>2. CASE q # r
    <3>1. /\ rd'[q] = rd[q] /\ T(q)' = T(q) /\ T(q) # e.t /\ T(q) \notin lagging
      BY <1>2, <1>3, <1>5, <2>2
    <3> PICK u \in Templates : u = T(q)
      BY <1>0
    <3>2. ~Queued(u)'
      BY <3>1 DEF Queued
    <3>3. ~Queued(u)
      BY <1>4, <3>1, <3>2
    <3>4. ~Queued(T(q))
      BY <3>3 DEF Queued
    <3>5. OnCourse(q)
      BY <3>1, <3>4 DEF TemplateInv, HandlingOnCourse
    <3> QED
      BY <1>1, <3>1, <3>5 DEF OnCourse, CurrentTemplate
  <2> QED
    BY <2>1, <2>2
<1>10. TemplateCurrentUnlessLagging'
  <2>1. ASSUME NEW u \in Templates, u # e.t
        PROVE  \/ u \in lagging' \/ Queued(u)'
               \/ (\E q \in Readers : At(q, u)') \/ CurrentTemplate(u)'
    <3>1. \/ u \in lagging \/ Queued(u)
          \/ (\E q \in Readers : At(q, u)) \/ CurrentTemplate(u)
      BY TemplateParts DEF TemplateInv
    <3>2. u \in lagging => u \in lagging'
      BY <1>1, <2>1
    <3>3. CurrentTemplate(u) => CurrentTemplate(u)'
      BY <1>1 DEF CurrentTemplate
    <3>4. \A q \in Readers : At(q, u) => At(q, u)'
      BY <1>1, <1>2, <1>3 DEF At
    <3> QED
      BY <1>4, <2>1, <3>1, <3>2, <3>3, <3>4
  <2>2. ASSUME NEW u \in Templates, u = e.t
        PROVE  At(r, u)'
    BY <1>2, <1>3, <2>2 DEF At
  <2> QED
    BY <2>1, <2>2, TemplateParts
<1> QED
  BY <1>6, <1>7, <1>8, <1>9, <1>10 DEF TemplateInv

\* A reader that goes on with an event disturbs no other template, and no other reader that
\* is at a template that does not lag.
LEMMA ReaderTemplate ==
    ASSUME TemplateInv, IdInv', NEW r \in Readers, rd[r].pc # "idle",
           UNCHANGED <<cs, known>>, lagging \subseteq lagging',
           events' = events \/ events' = <<rd[r].event>> \o events,
           \A q \in Readers \ {r} : rd'[q] = rd[q],
           \A t \in Templates \ {T(r)} : tmpl'[t] = tmpl[t],
           rd'[r].pc # "idle" => rd'[r].event = rd[r].event,
           AdvisoriesShape', HandlingShape',
           NEW t \in Templates, t = T(r),
           t \notin lagging' /\ ~Queued(t) =>
               IF rd'[r].pc # "idle" THEN OnCourse(r)' ELSE CurrentTemplate(t)'
    PROVE  TemplateInv'
<1>0. /\ events \in Seq(Event) /\ rd[r].event \in Event /\ (\A q \in Readers : T(q) \in Templates)
      /\ rd[r].event.t = t
  BY SetTypes DEF TemplateInv, IdInv, TypeOK, Handling, T
<1>1. /\ Len(events) \in Nat
      /\ events' # events =>
            /\ Len(events') = Len(events) + 1 /\ events'[1] = rd[r].event
            /\ \A i \in 2 .. Len(events) + 1 : events'[i] = events[i - 1]
  <2>1. <<rd[r].event>> \in Seq(Event) /\ Len(<<rd[r].event>>) = 1 /\ <<rd[r].event>>[1] = rd[r].event
    BY <1>0
  <2>2. /\ Len(<<rd[r].event>> \o events) = 1 + Len(events)
        /\ \A i \in 1 .. 1 + Len(events) : (<<rd[r].event>> \o events)[i] =
               IF i <= 1 THEN <<rd[r].event>>[i] ELSE events[i - 1]
    BY <1>0, <2>1, ConcatProperties
  <2> QED
    BY <1>0, <2>1, <2>2
<1>2. \A u : Queued(u) => Queued(u)'
  <2> SUFFICES ASSUME NEW u, NEW i \in 1 .. Len(events), events[i].t = u
               PROVE  Queued(u)'
    BY DEF Queued
  <2>1. CASE events' = events
    BY <2>1 DEF Queued
  <2>2. CASE events' # events
    <3>1. i + 1 \in 1 .. Len(events') /\ events'[i + 1] = events[i]
      BY <1>1, <2>2
    <3> QED
      BY <3>1 DEF Queued
  <2> QED
    BY <2>1, <2>2
<1>3. /\ \A q \in Readers \ {r} : T(q)' = T(q)
      /\ rd'[r].pc # "idle" => T(r)' = t
  BY <1>0 DEF T
<1>4. DeletedIsGone'
  <2>1. \A i \in 1 .. Len(events') : events'[i].type = "deleted" => cs[events'[i].t].state = "gone"
    <3>1. CASE events' = events
      BY <3>1 DEF TemplateInv, DeletedIsGone
    <3>2. CASE events' # events
      <4> SUFFICES ASSUME NEW i \in 1 .. Len(events'), events'[i].type = "deleted"
                   PROVE  cs[events'[i].t].state = "gone"
        OBVIOUS
      <4>1. CASE i = 1
        BY <1>0, <1>1, <3>2, <4>1 DEF TemplateInv, DeletedIsGone, T
      <4>2. CASE i # 1
        <5>1. i - 1 \in 1 .. Len(events) /\ events'[i] = events[i - 1]
          BY <1>1, <3>2, <4>2
        <5> QED
          BY <5>1 DEF TemplateInv, DeletedIsGone
      <4> QED
        BY <4>1, <4>2
    <3> QED
      BY <3>1, <3>2
  <2>2. ASSUME NEW q \in Readers, rd'[q].pc # "idle", rd'[q].event.type = "deleted"
        PROVE  cs[T(q)'].state = "gone"
    BY <1>3, <2>2 DEF TemplateInv, DeletedIsGone
  <2> QED
    BY <2>1, <2>2 DEF DeletedIsGone
<1>5. \A q \in Readers : rd'[q].pc # "idle" =>
          rd[q].pc # "idle" /\ rd'[q].event = rd[q].event /\ T(q)' = T(q)
  BY <1>3
<1>6. SharedLags'
  BY <1>5 DEF TemplateInv, SharedLags
<1>7. HandlingOnCourse'
  <2> SUFFICES ASSUME NEW q \in Readers, rd'[q].pc # "idle", T(q)' \notin lagging', ~Queued(T(q))'
               PROVE  OnCourse(q)'
    BY DEF HandlingOnCourse
  <2> PICK u \in Templates : u = T(q)
    BY <1>0
  <2>1. T(q)' = u /\ ~Queued(u)' /\ u \notin lagging'
    BY <1>5 DEF Queued
  <2>2. ~Queued(u) /\ u \notin lagging
    BY <1>2, <2>1
  <2>3. CASE q = r
    BY <2>1, <2>2, <2>3
  <2>4. CASE q # r
    <3>1. u # t
      BY <1>5, <2>2, <2>4 DEF TemplateInv, SharedLags
    <3>2. tmpl'[u] = tmpl[u] /\ rd'[q] = rd[q]
      BY <2>4, <3>1
    <3>3. ~Queued(T(q))
      BY <2>2 DEF Queued
    <3>4. OnCourse(q)
      BY <2>2, <3>2, <3>3 DEF TemplateInv, HandlingOnCourse
    <3> QED
      BY <2>1, <3>2, <3>4 DEF OnCourse, CurrentTemplate
  <2> QED
    BY <2>3, <2>4
<1>8. TemplateCurrentUnlessLagging'
  <2>1. ASSUME NEW u \in Templates, u # t
        PROVE  \/ u \in lagging' \/ Queued(u)'
               \/ (\E q \in Readers : At(q, u)') \/ CurrentTemplate(u)'
    <3>1. \/ u \in lagging \/ Queued(u)
          \/ (\E q \in Readers : At(q, u)) \/ CurrentTemplate(u)
      BY TemplateParts DEF TemplateInv
    <3>2. CurrentTemplate(u) => CurrentTemplate(u)'
      BY <2>1 DEF CurrentTemplate
    <3>3. \A q \in Readers : At(q, u) => At(q, u)'
      BY <1>3, <2>1 DEF At
    <3> QED
      BY <1>2, <3>1, <3>2, <3>3
  <2>2. \/ t \in lagging' \/ Queued(t)'
        \/ (\E q \in Readers : At(q, t)') \/ CurrentTemplate(t)'
    <3>1. CASE rd'[r].pc # "idle"
      BY <1>3, <3>1 DEF At
    <3>2. CASE rd'[r].pc = "idle"
      BY <1>2, <3>2
    <3> QED
      BY <3>1, <3>2
  <2> QED
    BY <2>1, <2>2, TemplateParts
<1> QED
  BY <1>4, <1>6, <1>7, <1>8 DEF TemplateInv

\* The same, for a reader whose event becomes h.
LEMMA HandledTemplate ==
    ASSUME TemplateInv, IdInv', NEW r \in Readers, rd[r].pc # "idle",
           UNCHANGED <<cs, known>>, lagging \subseteq lagging',
           events' = events \/ events' = <<rd[r].event>> \o events,
           NEW h, rd' = [rd EXCEPT ![r] = h], h.add \subseteq known,
           h.pc # "idle" => h.event = rd[r].event,
           h.pc \in {"announce", "unassign", "strip", "delete"} => rd[r].event.type = "deleted",
           h.pc \notin {"idle", "upsert", "lookup"} => h.id # 0,
           h.pc \notin {"upsert", "lookup"},
           \A u \in Templates \ {T(r)} : tmpl'[u] = tmpl[u],
           tmpl'[T(r)].adv \subseteq known, tmpl'[T(r)].id = 0 => tmpl'[T(r)].adv = {},
           NEW t \in Templates, t = T(r),
           t \notin lagging' /\ ~Queued(t) =>
               IF h.pc # "idle"
               THEN /\ h.id = tmpl'[t].id
                    /\ h.pc = "diff" => cs[t].state = "live" /\ h.cur = cs[t].adv
                    /\ h.pc = "apply" => /\ cs[t].state = "live"
                                         /\ (tmpl'[t].adv \ h.rem) \union h.add
                                                = cs[t].adv \intersect known
                    /\ h.pc = "recalc" => CurrentTemplate(t)'
               ELSE CurrentTemplate(t)'
    PROVE  TemplateInv'
<1>0. rd \in [Readers -> Handling]
  BY DEF TemplateInv, IdInv, TypeOK
<1>1. rd'[r] = h /\ \A q \in Readers \ {r} : rd'[q] = rd[q]
  BY <1>0
<1>2. AdvisoriesShape'
  BY <1>1 DEF TemplateInv, AdvisoriesShape
<1>3. HandlingShape'
  BY <1>1 DEF TemplateInv, HandlingShape
<1>4. ASSUME t \notin lagging', ~Queued(t), rd'[r].pc # "idle"
      PROVE  OnCourse(r)'
  <2>1. T(r)' = t
    BY <1>1, <1>4 DEF T
  <2>2. CurrentTemplate(t)' => CurrentTemplate(T(r))'
    BY <2>1 DEF CurrentTemplate
  <2> QED
    BY <1>1, <1>4, <2>1, <2>2 DEF OnCourse
<1>5. t \notin lagging' /\ ~Queued(t) =>
        IF rd'[r].pc # "idle" THEN OnCourse(r)' ELSE CurrentTemplate(t)'
  BY <1>1, <1>4
<1> QED
  BY <1>1, <1>2, <1>3, <1>5, ReaderTemplate

\* What the listener's steps have in common.
LEMMA ReaderFacts ==
    ASSUME TemplateInv, NEW r \in Readers, rd[r].pc # "idle"
    PROVE  /\ TypeOK /\ T(r) \in Templates /\ rd[r] \in Handling /\ rd[r].add \subseteq known
           /\ tmpl[T(r)] \in [id : Nat, adv : SUBSET Advisories]
           /\ tmpl[T(r)].adv \subseteq known /\ (tmpl[T(r)].id = 0 => tmpl[T(r)].adv = {})
           /\ cs[T(r)].state = "gone" => cs[T(r)].adv = {}
           /\ rd[r].pc \in {"lookup", "announce", "unassign", "strip", "delete"}
                => rd[r].event.type = "deleted" /\ cs[T(r)].state = "gone"
           /\ rd[r].pc \notin {"upsert", "lookup"} => rd[r].id # 0
           /\ T(r) \notin lagging /\ ~Queued(T(r)) => OnCourse(r)
           /\ NoHandling.pc = "idle" /\ NoHandling.add = {}
<1>1. TypeOK /\ T(r) \in Templates /\ rd[r] \in Handling
  BY SetTypes DEF TemplateInv, IdInv
<1>2. tmpl[T(r)] \in [id : Nat, adv : SUBSET Advisories]
  BY <1>1 DEF TypeOK
<1>3. /\ rd[r].add \subseteq known
      /\ tmpl[T(r)].adv \subseteq known /\ (tmpl[T(r)].id = 0 => tmpl[T(r)].adv = {})
      /\ cs[T(r)].state = "gone" => cs[T(r)].adv = {}
  BY <1>1 DEF TemplateInv, AdvisoriesShape
<1>4. /\ rd[r].pc \in {"lookup", "announce", "unassign", "strip", "delete"}
            => rd[r].event.type = "deleted" /\ cs[T(r)].state = "gone"
      /\ rd[r].pc \notin {"upsert", "lookup"} => rd[r].id # 0
  BY DEF TemplateInv, HandlingShape, DeletedIsGone
<1>5. T(r) \notin lagging /\ ~Queued(T(r)) => OnCourse(r)
  BY DEF TemplateInv, HandlingOnCourse
<1> QED
  BY <1>1, <1>2, <1>3, <1>4, <1>5 DEF NoHandling

\* The steps of an event that brings a template up to date.
LEMMA UpdateTemplate ==
    ASSUME TemplateInv, IdInv', NEW r \in Readers,
           \/ TemplateUpsert(r) \/ FetchAdvisories(r) \/ FetchNotFound(r)
           \/ DiffAdvisories(r) \/ ApplyAdvisories(r) \/ SendTemplateRecalc(r)
    PROVE  TemplateInv'
<1>0. rd[r].pc # "idle" /\ UNCHANGED <<cs, known, events>> /\ lagging \subseteq lagging'
  BY DEF TemplateUpsert, FetchAdvisories, FetchNotFound, DiffAdvisories, ApplyAdvisories,
         SendTemplateRecalc, ListenerOnly, outside, hist
<1>a. /\ TypeOK /\ T(r) \in Templates /\ rd[r] \in Handling /\ rd[r].add \subseteq known
      /\ tmpl[T(r)] \in [id : Nat, adv : SUBSET Advisories]
      /\ tmpl[T(r)].adv \subseteq known /\ (tmpl[T(r)].id = 0 => tmpl[T(r)].adv = {})
      /\ rd[r].pc \notin {"upsert", "lookup"} => rd[r].id # 0
      /\ T(r) \notin lagging /\ ~Queued(T(r)) => OnCourse(r)
      /\ NoHandling.pc = "idle" /\ NoHandling.add = {}
  BY <1>0, ReaderFacts
<1>b. PICK t \in Templates : t = T(r)
  BY <1>a
<1>c. rd \in [Readers -> Handling] /\ tmpl \in [Templates -> [id : Nat, adv : SUBSET Advisories]]
  BY <1>a DEF TypeOK
<1>d. t \notin lagging /\ ~Queued(t) => OnCourse(r)
  BY <1>a, <1>b DEF Queued
<1>1. CASE TemplateUpsert(r)
  <2> DEFINE id == IF tmpl[T(r)].id = 0 THEN nextId ELSE tmpl[T(r)].id
             h == [rd[r] EXCEPT !.pc = "fetch", !.id = id]
             g == IF rd[r].event.type = "updated" THEN h ELSE NoHandling
  <2>1. id \in Nat /\ id # 0
    BY <1>a, <1>c DEF TypeOK
  <2>2. /\ rd' = [rd EXCEPT ![r] = g] /\ rd[r].pc = "upsert"
        /\ tmpl' = [tmpl EXCEPT ![T(r)].id = id]
    BY <1>1 DEF TemplateUpsert
  <2> HIDE DEF id
  <2>3. h.pc = "fetch" /\ h.event = rd[r].event /\ h.id = id /\ h.add = rd[r].add
    BY <1>a DEF Handling
  <2>4. /\ tmpl'[T(r)].id = id /\ tmpl'[T(r)].adv = tmpl[T(r)].adv
        /\ \A u \in Templates \ {T(r)} : tmpl'[u] = tmpl[u]
    BY <1>a, <1>c, <2>2
  <2> HIDE DEF h
  <2>5. CASE rd[r].event.type = "updated"
    <3>1. g = h
      BY <2>5
    <3> HIDE DEF g
    <3> QED
      BY <1>0, <1>a, <1>b, <2>1, <2>2, <2>3, <2>4, <3>1, HandledTemplate
  <2>6. CASE rd[r].event.type # "updated"
    <3>1. g = NoHandling
      BY <2>6
    <3>2. rd[r].event.type = "created"
      BY <1>a, <2>2, <2>6 DEF TemplateInv, HandlingShape, Handling, Event
    <3>3. t \in lagging'
      BY <1>0, <1>b, <3>2 DEF TemplateInv, SharedLags
    <3> HIDE DEF g
    <3> QED
      BY <1>0, <1>a, <1>b, <2>1, <2>2, <2>4, <3>1, <3>3, HandledTemplate
  <2> QED
    BY <2>5, <2>6
<1>2. CASE FetchAdvisories(r)
  <2> DEFINE h == [rd[r] EXCEPT !.pc = "diff", !.cur = cs[T(r)].adv]
  <2>1. /\ rd' = [rd EXCEPT ![r] = h] /\ rd[r].pc = "fetch" /\ cs[T(r)].state = "live"
        /\ tmpl' = tmpl
    BY <1>2, <1>c DEF FetchAdvisories
  <2>2. /\ h.pc = "diff" /\ h.event = rd[r].event /\ h.id = rd[r].id /\ h.add = rd[r].add
        /\ h.cur = cs[T(r)].adv
    BY <1>a DEF Handling
  <2> HIDE DEF h
  <2>3. t \notin lagging' /\ ~Queued(t) => h.id = tmpl'[t].id
    BY <1>0, <1>b, <1>d, <2>1, <2>2 DEF OnCourse
  <2> QED
    BY <1>0, <1>a, <1>b, <2>1, <2>2, <2>3, HandledTemplate
<1>3. CASE FetchNotFound(r)
  <2>1. rd' = [rd EXCEPT ![r] = NoHandling] /\ tmpl' = tmpl /\ T(r) \in lagging'
    BY <1>3 DEF FetchNotFound, Finish
  <2> QED
    BY <1>0, <1>a, <1>b, <2>1, HandledTemplate
<1>4. CASE DiffAdvisories(r)
  <2> DEFINE stored == AdvisoriesOf(rd[r].id)
             add == ToAdd(stored, rd[r].cur)
             rem == ToRemove(stored, rd[r].cur)
             h == [rd[r] EXCEPT !.pc = "apply", !.add = add \intersect known, !.rem = rem]
             g == IF add = {} /\ rem = {} THEN NoHandling ELSE h
  <2>1. rd' = [rd EXCEPT ![r] = g] /\ rd[r].pc = "diff" /\ tmpl' = tmpl
    BY <1>4 DEF DiffAdvisories
  <2>2. add = rd[r].cur \ stored /\ rem = stored \ rd[r].cur
    BY DEF ToAdd, ToRemove
  <2> HIDE DEF add, rem
  <2>3. /\ h.pc = "apply" /\ h.event = rd[r].event /\ h.id = rd[r].id
        /\ h.add = add \intersect known /\ h.rem = rem
    BY <1>a DEF Handling
  <2> HIDE DEF h
  <2>4. ASSUME t \notin lagging', ~Queued(t)
        PROVE  /\ rd[r].id = tmpl[t].id /\ cs[t].state = "live" /\ rd[r].cur = cs[t].adv
               /\ stored = tmpl[t].adv
    <3>1. rd[r].id = tmpl[t].id /\ cs[t].state = "live" /\ rd[r].cur = cs[t].adv
      BY <1>0, <1>b, <1>d, <2>1, <2>4 DEF OnCourse
    <3>2. {u \in Templates : tmpl[u].id = rd[r].id} = {t}
      BY <1>a, <2>1, <3>1 DEF TemplateInv, IdInv, IdsUnique
    <3>3. stored = tmpl[t].adv
      BY <3>2 DEF AdvisoriesOf
    <3> QED
      BY <3>1, <3>3
  <2> HIDE DEF stored
  <2>5. CASE add = {} /\ rem = {}
    <3>1. g = NoHandling
      BY <2>5
    <3>2. t \notin lagging' /\ ~Queued(t) => CurrentTemplate(t)'
      <4>1. ASSUME t \notin lagging', ~Queued(t)
            PROVE  CurrentTemplate(t)'
        <5>1. tmpl[t].id # 0 /\ tmpl[t].adv = cs[t].adv /\ tmpl[t].adv \subseteq known
          BY <1>a, <1>b, <2>1, <2>2, <2>4, <2>5, <4>1
        <5> QED
          BY <1>0, <2>1, <2>4, <4>1, <5>1 DEF CurrentTemplate
      <4> QED
        BY <4>1
    <3> HIDE DEF g
    <3> QED
      BY <1>0, <1>a, <1>b, <2>1, <3>1, <3>2, HandledTemplate
  <2>6. CASE ~(add = {} /\ rem = {})
    <3>1. g = h
      BY <2>6
    <3>2. ASSUME t \notin lagging', ~Queued(t)
          PROVE  /\ h.id = tmpl'[t].id /\ cs[t].state = "live"
                 /\ (tmpl'[t].adv \ h.rem) \union h.add = cs[t].adv \intersect known
      BY <1>a, <1>b, <2>1, <2>2, <2>3, <2>4, <3>2
    <3>3. h.add \subseteq known
      BY <2>3
    <3> HIDE DEF g
    <3> QED
      BY <1>0, <1>a, <1>b, <2>1, <2>3, <3>1, <3>2, <3>3, HandledTemplate
  <2> QED
    BY <2>5, <2>6
<1>5. CASE ApplyAdvisories(r)
  <2> DEFINE h == [rd[r] EXCEPT !.pc = "recalc"]
             adv == (tmpl[T(r)].adv \ rd[r].rem) \union rd[r].add
  <2>0. rd[r].pc = "apply" /\ rd[r].id # 0
    BY <1>5, <1>a DEF ApplyAdvisories
  <2>1. h.pc = "recalc" /\ h.event = rd[r].event /\ h.id = rd[r].id /\ h.add = rd[r].add
    BY <1>a DEF Handling
  <2>2. CASE tmpl[T(r)].id = rd[r].id
    <3>1. tmpl' = [tmpl EXCEPT ![T(r)].adv = adv] /\ rd' = [rd EXCEPT ![r] = h]
      BY <1>5, <1>c, <2>2 DEF ApplyAdvisories, RowOf, Step
    <3>2. adv \subseteq known /\ adv \in SUBSET Advisories
      BY <1>a DEF Handling
    <3> HIDE DEF h
    <3>3. ASSUME t \notin lagging', ~Queued(t)
          PROVE  cs[t].state = "live" /\ adv = cs[t].adv \intersect known
      BY <1>0, <1>b, <1>d, <2>0, <3>3 DEF OnCourse
    <3> HIDE DEF adv
    <3>4. /\ tmpl'[T(r)].id = rd[r].id /\ tmpl'[T(r)].adv = adv
          /\ \A u \in Templates \ {T(r)} : tmpl'[u] = tmpl[u]
      BY <1>a, <1>c, <2>2, <3>1
    <3>5. ASSUME t \notin lagging', ~Queued(t)
          PROVE  CurrentTemplate(t)' /\ h.id = tmpl'[t].id
      BY <1>0, <1>b, <2>0, <2>1, <3>3, <3>4, <3>5 DEF CurrentTemplate
    <3>6. rd' = [rd EXCEPT ![r] = h] /\ events' = events
      BY <1>0, <3>1
    <3>7. /\ tmpl'[T(r)].adv \subseteq known /\ (tmpl'[T(r)].id = 0 => tmpl'[T(r)].adv = {})
          /\ \A u \in Templates \ {T(r)} : tmpl'[u] = tmpl[u]
      BY <2>0, <3>2, <3>4
    <3>8. h.pc = "recalc" /\ h.event = rd[r].event /\ h.id # 0 /\ h.add \subseteq known
      BY <1>a, <2>0, <2>1
    <3> QED
      BY <1>0, <1>b, <3>5, <3>6, <3>7, <3>8, HandledTemplate
  <2>3. CASE tmpl[T(r)].id # rd[r].id
    <3>1. tmpl' = tmpl /\ (rd' = [rd EXCEPT ![r] = h] \/ rd' = [rd EXCEPT ![r] = NoHandling])
      BY <1>5, <1>c, <2>3 DEF ApplyAdvisories, RowOf, Step, Finish
    <3>2. t \in lagging' \/ Queued(t)
      BY <1>0, <1>b, <1>d, <2>0, <2>3 DEF OnCourse
    <3> HIDE DEF h
    <3>3. CASE rd' = [rd EXCEPT ![r] = h]
      BY <1>0, <1>a, <1>b, <2>0, <2>1, <3>1, <3>2, <3>3, HandledTemplate
    <3>4. CASE rd' = [rd EXCEPT ![r] = NoHandling]
      BY <1>0, <1>a, <1>b, <3>1, <3>2, <3>4, HandledTemplate
    <3> QED
      BY <3>1, <3>3, <3>4
  <2> QED
    BY <2>2, <2>3
<1>6. CASE SendTemplateRecalc(r)
  <2>1. rd' = [rd EXCEPT ![r] = NoHandling] /\ tmpl' = tmpl /\ rd[r].pc = "recalc"
    BY <1>6 DEF SendTemplateRecalc, Finish
  <2>2. t \notin lagging' /\ ~Queued(t) => CurrentTemplate(t)'
    BY <1>0, <1>b, <1>d, <2>1 DEF OnCourse, CurrentTemplate
  <2> QED
    BY <1>0, <1>a, <1>b, <2>1, <2>2, HandledTemplate
<1> QED
  BY <1>1, <1>2, <1>3, <1>4, <1>5, <1>6

\* The steps of an event that deletes a template, and its failures.
LEMMA DeleteTemplateSteps ==
    ASSUME TemplateInv, IdInv', NEW r \in Readers,
           \/ LookupTemplate(r) \/ AnnounceDelete(r) \/ AnnounceLost(r) \/ UnassignSystems(r)
           \/ DeleteTemplateAdvisories(r) \/ DeleteTemplate(r) \/ TemplateEventFails(r)
    PROVE  TemplateInv'
<1>0. /\ rd[r].pc # "idle" /\ UNCHANGED <<cs, known>> /\ lagging \subseteq lagging'
      /\ events' = events \/ events' = <<rd[r].event>> \o events
  BY DEF LookupTemplate, AnnounceDelete, AnnounceLost, UnassignSystems, DeleteTemplateAdvisories,
         DeleteTemplate, TemplateEventFails, ListenerOnly, outside, hist
<1>a. /\ TypeOK /\ T(r) \in Templates /\ rd[r] \in Handling /\ rd[r].add \subseteq known
      /\ tmpl[T(r)].adv \subseteq known /\ (tmpl[T(r)].id = 0 => tmpl[T(r)].adv = {})
      /\ cs[T(r)].state = "gone" => cs[T(r)].adv = {}
      /\ rd[r].pc \in {"lookup", "announce", "unassign", "strip", "delete"}
            => rd[r].event.type = "deleted" /\ cs[T(r)].state = "gone"
      /\ rd[r].pc \notin {"upsert", "lookup"} => rd[r].id # 0
      /\ T(r) \notin lagging /\ ~Queued(T(r)) => OnCourse(r)
      /\ NoHandling.pc = "idle" /\ NoHandling.add = {}
  BY <1>0, ReaderFacts
<1>b. PICK t \in Templates : t = T(r)
  BY <1>a
<1>c. rd \in [Readers -> Handling] /\ tmpl \in [Templates -> [id : Nat, adv : SUBSET Advisories]]
  BY <1>a DEF TypeOK
<1>d. t \notin lagging /\ ~Queued(t) => OnCourse(r)
  BY <1>a, <1>b DEF Queued
<1>1. CASE LookupTemplate(r)
  <2> DEFINE h == [rd[r] EXCEPT !.pc = "announce", !.id = tmpl[T(r)].id]
  <2>1. /\ rd' = [rd EXCEPT ![r] = IF tmpl[T(r)].id = 0 THEN NoHandling ELSE h]
        /\ rd[r].pc = "lookup" /\ tmpl' = tmpl
    BY <1>1 DEF LookupTemplate
  <2>2. /\ h.pc = "announce" /\ h.event = rd[r].event /\ h.id = tmpl[T(r)].id /\ h.add = rd[r].add
    BY <1>a DEF Handling
  <2> HIDE DEF h
  <2>3. CASE tmpl[T(r)].id = 0
    <3>1. rd' = [rd EXCEPT ![r] = NoHandling]
      BY <2>1, <2>3
    <3>2. CurrentTemplate(t)'
      BY <1>0, <1>a, <1>b, <2>1, <2>3 DEF CurrentTemplate
    <3> QED
      BY <1>0, <1>a, <1>b, <2>1, <3>1, <3>2, HandledTemplate
  <2>4. CASE tmpl[T(r)].id # 0
    <3>1. rd' = [rd EXCEPT ![r] = h]
      BY <2>1, <2>4
    <3> QED
      BY <1>0, <1>a, <1>b, <2>1, <2>2, <2>4, <3>1, HandledTemplate
  <2> QED
    BY <2>3, <2>4
<1>2. ASSUME rd[r].pc \in {"announce", "unassign", "strip"}, NEW pc \in {"unassign", "strip", "delete"},
             Step(r, pc), tmpl' = tmpl \/ tmpl' = [tmpl EXCEPT ![T(r)].adv = {}]
      PROVE  TemplateInv'
  <2> DEFINE h == [rd[r] EXCEPT !.pc = pc]
  <2>1. rd' = [rd EXCEPT ![r] = h]
    BY <1>2, <1>c DEF Step
  <2>2. h.pc = pc /\ h.event = rd[r].event /\ h.id = rd[r].id /\ h.add = rd[r].add
    BY <1>a DEF Handling
  <2> HIDE DEF h
  <2>3. /\ tmpl'[T(r)].id = tmpl[T(r)].id /\ tmpl'[T(r)].adv \subseteq known
        /\ tmpl'[T(r)].id = 0 => tmpl'[T(r)].adv = {}
        /\ \A u \in Templates \ {T(r)} : tmpl'[u] = tmpl[u]
    BY <1>2, <1>a, <1>c
  <2>4. t \notin lagging' /\ ~Queued(t) => h.id = tmpl'[t].id
    BY <1>0, <1>2, <1>b, <1>d, <2>2, <2>3 DEF OnCourse
  <2>5. h.pc \in {"unassign", "strip", "delete"} /\ h.id # 0 /\ rd[r].event.type = "deleted"
    BY <1>2, <1>a, <2>2
  <2>6. h.add \subseteq known
    BY <1>a, <2>2
  <2> QED
    BY <1>0, <1>b, <2>1, <2>2, <2>3, <2>4, <2>5, <2>6, HandledTemplate
<1>3. CASE AnnounceDelete(r) \/ AnnounceLost(r)
  <2>1. rd[r].pc = "announce" /\ Step(r, "unassign") /\ tmpl' = tmpl
    BY <1>3 DEF AnnounceDelete, AnnounceLost
  <2> QED
    BY <1>2, <2>1
<1>4. CASE UnassignSystems(r)
  <2>1. rd[r].pc = "unassign" /\ Step(r, "strip") /\ tmpl' = tmpl
    BY <1>4 DEF UnassignSystems
  <2> QED
    BY <1>2, <2>1
<1>5. CASE DeleteTemplateAdvisories(r)
  <2>1. /\ rd[r].pc = "strip" /\ Step(r, "delete")
        /\ tmpl' = tmpl \/ tmpl' = [tmpl EXCEPT ![T(r)].adv = {}]
    BY <1>5 DEF DeleteTemplateAdvisories
  <2> QED
    BY <1>2, <2>1
<1>6. CASE DeleteTemplate(r)
  <2>1. rd' = [rd EXCEPT ![r] = NoHandling] /\ rd[r].pc = "delete"
    BY <1>6 DEF DeleteTemplate, Finish
  <2>2. CASE Assigned(rd[r].id) # {}
    <3>1. tmpl' = tmpl /\ T(r) \in lagging'
      BY <1>6, <2>2 DEF DeleteTemplate
    <3> QED
      BY <1>0, <1>a, <1>b, <2>1, <3>1, HandledTemplate
  <2>3. CASE Assigned(rd[r].id) = {} /\ tmpl[T(r)].id = rd[r].id
    <3>1. tmpl' = [tmpl EXCEPT ![T(r)] = NoTemplate]
      BY <1>6, <2>3 DEF DeleteTemplate, RowOf
    <3>2. /\ tmpl'[T(r)].id = 0 /\ tmpl'[T(r)].adv = {}
          /\ \A u \in Templates \ {T(r)} : tmpl'[u] = tmpl[u]
      BY <1>a, <1>c, <3>1 DEF NoTemplate
    <3>3. CurrentTemplate(t)'
      BY <1>0, <1>a, <1>b, <2>1, <3>2 DEF CurrentTemplate
    <3>4. tmpl'[T(r)].adv \subseteq known
      BY <3>2
    <3> QED
      BY <1>0, <1>a, <1>b, <2>1, <3>2, <3>3, <3>4, HandledTemplate
  <2>4. CASE Assigned(rd[r].id) = {} /\ tmpl[T(r)].id # rd[r].id
    <3>1. tmpl' = tmpl
      BY <1>6, <2>4 DEF DeleteTemplate, RowOf
    <3>2. t \in lagging' \/ Queued(t)
      BY <1>0, <1>b, <1>d, <2>1, <2>4 DEF OnCourse
    <3> QED
      BY <1>0, <1>a, <1>b, <2>1, <3>1, <3>2, HandledTemplate
  <2> QED
    BY <2>2, <2>3, <2>4
<1>7. CASE TemplateEventFails(r)
  <2>1. rd' = [rd EXCEPT ![r] = NoHandling] /\ tmpl' = tmpl /\ T(r) \in lagging'
    BY <1>7 DEF TemplateEventFails, Finish
  <2> QED
    BY <1>0, <1>a, <1>b, <2>1, HandledTemplate
<1> QED
  BY <1>1, <1>3, <1>4, <1>5, <1>6, <1>7

\* Every step keeps the templates current, or leaves an event, a reader or a mark.
LEMMA NextTemplate == TemplateInv /\ [Next]_vars => TemplateInv'
<1> SUFFICES ASSUME TemplateInv, [Next]_vars
             PROVE  TemplateInv'
  OBVIOUS
<1>0. IdInv' /\ cs \in [Templates -> [state : {"new", "live", "gone"}, adv : SUBSET Advisories]]
  BY NextIds DEF TemplateInv, IdInv, TypeOK
<1>1. CASE UNCHANGED vars
  <2>1. UNCHANGED <<cs, known, tmpl, events, rd, lagging>>
    BY <1>1 DEF vars
  <2> QED
    BY <1>0, <2>1, AloneTemplate
<1>2. ASSUME NEW t \in Templates, NEW adv \in SUBSET Advisories, CsCreate(t, adv) \/ CsUpdate(t, adv)
      PROVE  TemplateInv'
  <2>1. /\ Announce("created", t) \/ Announce("updated", t)
        /\ UNCHANGED <<known, tmpl, rd, lagging>> /\ cs[t].state # "gone"
    BY <1>2 DEF CsCreate, CsUpdate, External
  <2>2. /\ cs'[t].state = "live" /\ \A u \in Templates \ {t} : cs'[u] = cs[u]
    BY <1>0, <1>2 DEF CsCreate, CsUpdate
  <2> QED
    BY <1>0, <2>1, <2>2, AnnouncedTemplate
<1>3. ASSUME NEW t \in Templates, CsDelete(t)
      PROVE  TemplateInv'
  <2>1. /\ Announce("deleted", t)
        /\ UNCHANGED <<known, tmpl, rd, lagging>> /\ cs[t].state # "gone"
    BY <1>3 DEF CsDelete, External
  <2>2. /\ cs'[t].state = "gone" /\ cs'[t].adv = {} /\ \A u \in Templates \ {t} : cs'[u] = cs[u]
    BY <1>0, <1>3 DEF CsDelete
  <2> QED
    BY <1>0, <2>1, <2>2, AnnouncedTemplate
<1>4. ASSUME NEW s \in Systems, NEW x \in Environments, EnvChange(s, x)
      PROVE  TemplateInv'
  <2>1. UNCHANGED <<cs, known, tmpl, events, rd, lagging>>
    BY <1>4 DEF EnvChange, External
  <2> QED
    BY <1>0, <2>1, AloneTemplate
<1>5. ASSUME NEW m \in Requests, ManagerSteps(m)
      PROVE  TemplateInv'
  <2>1. \A S, x : CheckedRequest(m, S, x) => ManagerOnly
    BY DEF CheckedRequest
  <2>2. RequestStep(m) \/ CandlepinFails(m) \/ AssignStoreFails(m) \/ AssignRecalcFails(m)
          => ManagerOnly
    BY Zenon DEF RequestStep, AssignCandlepin, AssignStore, AssignRecalc, CandlepinFails,
       AssignStoreFails, AssignRecalcFails
  <2>3. ManagerOnly
    BY <1>5, <2>1, <2>2, Starts DEF ManagerSteps
  <2>4. UNCHANGED <<cs, known, tmpl, events, rd, lagging>>
    BY <2>3 DEF ManagerOnly
  <2> QED
    BY <1>0, <2>4, AloneTemplate
<1>6. CASE \/ \E s \in Systems : \E id \in {0, TemplateOf(env[s])} : HostTemplate(s, id)
           \/ \E changed \in BOOLEAN : UploadStore(changed)
  <2>1. UploadOnly
    BY <1>6, Zenon DEF HostTemplate, UploadStore
  <2>2. UNCHANGED <<cs, known, tmpl, events, rd, lagging>>
    BY <2>1 DEF UploadOnly, outside
  <2> QED
    BY <1>0, <2>2, AloneTemplate
<1>7. CASE \E e \in Evaluators :
             (\E s \in Systems : EvalLoad(e, s)) \/ EvalRead(e) \/ EvalStore(e) \/ EvalFails(e)
  <2>1. EvaluatorOnly
    BY <1>7, Zenon DEF EvalLoad, EvalRead, EvalStore, EvalFails
  <2>2. UNCHANGED <<cs, known, tmpl, events, rd, lagging>>
    BY <2>1 DEF EvaluatorOnly, outside
  <2> QED
    BY <1>0, <2>2, AloneTemplate
<1>8. CASE Next
  BY <1>0, <1>2, <1>3, <1>4, <1>5, <1>6, <1>7, <1>8, NextCases, SyncedTemplate, TakenTemplate,
     UpdateTemplate, DeleteTemplateSteps
<1> QED
  BY <1>1, <1>8

\* Once its events are handled, a template is there if and only if Content Sources has it,
\* with its known advisories, however many readers there are and however their steps
\* interleave, with no exceptions but the ones TemplateCurrentUnlessLagging names.
THEOREM TemplateCurrent == Spec => []TemplateCurrentUnlessLagging
<1>1. Init => TemplateInv
  BY InitTemplate
<1>2. TemplateInv /\ [Next]_vars => TemplateInv'
  BY NextTemplate
<1>3. TemplateInv => TemplateCurrentUnlessLagging
  BY DEF TemplateInv
<1> QED
  BY <1>1, <1>2, <1>3, PTL DEF Spec

=============================================================================
