---------------------------- MODULE TemplateSync ----------------------------
(***************************************************************************)
(* Templates of one account: their content, their systems, and what the    *)
(* evaluation of a system makes of them.                                   *)
(*                                                                         *)
(* Content Sources announces templates on a topic; listener readers keep   *)
(* template and template_advisory up to date and ask for a re-evaluation   *)
(* of the systems of a template.  The manager assigns systems to a         *)
(* template, first in Candlepin and then in system_patch.  An upload reads *)
(* the environment of the host in Candlepin and writes the template it     *)
(* belongs to.  An evaluator reads template_id, then the advisories of     *)
(* that template, and stores which advisories are installable.  None of    *)
(* them holds a lock between its steps.                                    *)
(*                                                                         *)
(* The flags template_advisory_eval and template_change_eval are on.       *)
(* VMaaS reports every advisory for every system.  environment_id is       *)
(* derived from the uuid of the template, so both are t.                   *)
(***************************************************************************)
EXTENDS Naturals, FiniteSets, Sequences

CONSTANTS
    Templates,    \* uuids of templates
    None,         \* no environment
    Systems,      \* systems of the account
    Advisories,   \* names of advisories
    Readers,      \* consumers of the template topic
    Requests,     \* requests the manager handles at a time
    Evaluators,   \* consumers of the evaluation topics
    MaxChanges,   \* bound on events, requests and uploads
    MaxFaults     \* bound on faults

ASSUME TemplateAssumption ==
    /\ None \notin Templates \union Requests
    /\ Templates # {} /\ IsFiniteSet(Templates) /\ Systems # {}
    /\ MaxChanges \in Nat /\ MaxFaults \in Nat

VARIABLES
    cs,         \* cs[t]: the template as Content Sources has it
    known,      \* advisory_metadata
    env,        \* env[s]: environment of s in Candlepin
    tmpl,       \* tmpl[t]: template and its template_advisory rows; id = 0: no row
    nextId,     \* next template.id
    tid,        \* tid[s]: system_patch.template_id; 0: NULL
    inst,       \* inst[s]: advisories the stored evaluation calls installable
    events,     \* the template topic behind the committed offset
    rd,         \* rd[r]: the event reader r handles
    mgr,        \* mgr[m]: the request m is handling
    upl,        \* the upload in progress
    requests,   \* systems with a request for evaluation
    ev,         \* ev[e]: the evaluation in progress
    missed,     \* history: systems whose re-evaluation was lost, overtaken or not asked for
    apart,      \* history: systems for which Candlepin and the database were put out of step
    lagging,    \* history: templates that were not brought up to date
    changes, faults

outside == <<cs, known, env>>
hist == <<missed, apart, lagging>>
bounds == <<changes, faults>>
vars == <<cs, known, env, tmpl, nextId, tid, inst, events, rd, mgr, upl, requests, ev, missed,
          apart, lagging, changes, faults>>

Environments == Templates \union {None}
Event == [type : {"created", "updated", "deleted"}, t : Templates]

Handling == [pc : {"idle", "upsert", "fetch", "diff", "apply", "recalc", "lookup", "announce",
                   "unassign", "strip", "delete"},
             event : Event, id : Nat, cur : SUBSET Advisories, add : SUBSET Advisories,
             rem : SUBSET Advisories]
Request == [pc : {"idle", "checked", "assigned", "stored"}, S : SUBSET Systems,
            to : Environments, id : Nat, over : BOOLEAN]
Upload == [pc : {"idle", "read"}, s : Systems, id : Nat, over : BOOLEAN]
Evaluation == [pc : {"idle", "loaded", "read"}, s : Systems, id : Nat,
               found : SUBSET Advisories, over : BOOLEAN]

NoEvent == [type |-> "created", t |-> CHOOSE t \in Templates : TRUE]
NoHandling == [pc |-> "idle", event |-> NoEvent, id |-> 0, cur |-> {}, add |-> {}, rem |-> {}]
NoRequest == [pc |-> "idle", S |-> {}, to |-> None, id |-> 0, over |-> FALSE]
NoUpload == [pc |-> "idle", s |-> CHOOSE s \in Systems : TRUE, id |-> 0, over |-> FALSE]
NoEvaluation == [pc |-> "idle", s |-> CHOOSE s \in Systems : TRUE, id |-> 0, found |-> {},
                 over |-> FALSE]
NoTemplate == [id |-> 0, adv |-> {}]

TypeOK ==
    /\ cs \in [Templates -> [state : {"new", "live", "gone"}, adv : SUBSET Advisories]]
    /\ known \subseteq Advisories
    /\ env \in [Systems -> Environments]
    /\ tmpl \in [Templates -> [id : Nat, adv : SUBSET Advisories]]
    /\ nextId \in Nat \ {0}
    /\ tid \in [Systems -> Nat]
    /\ inst \in [Systems -> SUBSET Advisories]
    /\ events \in Seq(Event)
    /\ rd \in [Readers -> Handling] /\ mgr \in [Requests -> Request] /\ upl \in Upload
    /\ requests \subseteq Systems
    /\ ev \in [Evaluators -> Evaluation]
    /\ missed \subseteq Systems /\ apart \subseteq Systems /\ lagging \subseteq Templates
    /\ changes \in Nat /\ faults \in Nat

\* Ids of templates that were stored before.
FirstId == CHOOSE f \in [Templates -> 1 .. Cardinality(Templates)] :
               \A t, u \in Templates : f[t] = f[u] => t = u

\* Some templates are stored and up to date, none has systems yet.
Init ==
    /\ cs \in [Templates -> {[state |-> "new", adv |-> {}]}
                              \union [state : {"live"}, adv : SUBSET Advisories]]
    /\ known \in SUBSET Advisories
    /\ env = [s \in Systems |-> None]
    /\ tmpl = [t \in Templates |-> IF cs[t].state = "new" THEN NoTemplate
                                   ELSE [id |-> FirstId[t], adv |-> cs[t].adv \intersect known]]
    /\ nextId = Cardinality(Templates) + 1
    /\ tid = [s \in Systems |-> 0]
    /\ inst = [s \in Systems |-> Advisories]
    /\ events = <<>>
    /\ rd = [r \in Readers |-> NoHandling]
    /\ mgr = [m \in Requests |-> NoRequest]
    /\ upl = NoUpload
    /\ requests = {}
    /\ ev = [e \in Evaluators |-> NoEvaluation]
    /\ missed = {} /\ apart = {} /\ lagging = {}
    /\ changes = 0 /\ faults = 0

-----------------------------------------------------------------------------
Change == changes < MaxChanges /\ changes' = changes + 1
Fault == faults < MaxFaults /\ faults' = faults + 1

\* The systems of template_id i, and the template_advisory rows of it.
Assigned(i) == {s \in Systems : tid[s] = i}
AdvisoriesOf(i) == UNION {tmpl[t].adv : t \in {u \in Templates : tmpl[u].id = i}}
Exists(i) == \E t \in Templates : tmpl[t].id = i

\* The template an environment stands for: listener/rhsm.go getTemplate.
TemplateOf(x) == IF x = None THEN 0 ELSE tmpl[x].id

\* applyTemplateAdvisoryInstallability for a system of template_id i.
Installable(i) == IF i = 0 THEN Advisories ELSE AdvisoriesOf(i)

\* Others that are between their steps on a system of S learn that it was touched.
Busy(S) == (\E m \in Requests : mgr[m].S \intersect S # {}) \/ (upl.pc # "idle" /\ upl.s \in S)
Touch(S, me) == [m \in Requests |-> IF m # me /\ mgr[m].S \intersect S # {}
                                    THEN [mgr[m] EXCEPT !.over = TRUE] ELSE mgr[m]]
TouchUpload(S) == [upl EXCEPT !.over = @ \/ (upl.pc # "idle" /\ upl.s \in S)]

-----------------------------------------------------------------------------
(* Content Sources, VMaaS and Candlepin, from outside *)

Announce(type, t) == events' = Append(events, [type |-> type, t |-> t])

External ==
    /\ Change
    /\ UNCHANGED <<tmpl, nextId, tid, inst, rd, requests, ev, missed, faults>>

CsCreate(t, adv) ==
    /\ External
    /\ cs[t].state = "new"
    /\ cs' = [cs EXCEPT ![t] = [state |-> "live", adv |-> adv]]
    /\ Announce("created", t)
    /\ UNCHANGED <<known, env, mgr, upl, apart, lagging>>

CsUpdate(t, adv) ==
    /\ External
    /\ cs[t].state = "live"
    /\ cs' = [cs EXCEPT ![t].adv = adv]
    /\ Announce("updated", t)
    /\ UNCHANGED <<known, env, mgr, upl, apart, lagging>>

CsDelete(t) ==
    /\ External
    /\ cs[t].state = "live"
    /\ cs' = [cs EXCEPT ![t] = [state |-> "gone", adv |-> {}]]
    /\ Announce("deleted", t)
    /\ UNCHANGED <<known, env, mgr, upl, apart, lagging>>

\* vmaas_sync stores an advisory Content Sources may have known before.
AdvisorySynced(a) ==
    /\ External
    /\ a \notin known
    /\ known' = known \union {a}
    /\ lagging' = lagging \union {t \in Templates : a \in cs[t].adv}
    /\ UNCHANGED <<cs, env, events, mgr, upl, apart>>

\* The host changes its environment itself.
EnvChange(s, x) ==
    /\ External
    /\ x # env[s]
    /\ env' = [env EXCEPT ![s] = x]
    /\ apart' = apart \union {s}
    /\ mgr' = Touch({s}, None) /\ upl' = TouchUpload({s})
    /\ UNCHANGED <<cs, known, events, lagging>>

-----------------------------------------------------------------------------
(* Listener: TemplatesMessageHandler, which drops its errors *)

Step(r, pc) == rd' = [rd EXCEPT ![r].pc = pc]
Finish(r) == rd' = [rd EXCEPT ![r] = NoHandling]
T(r) == rd[r].event.t
RowOf(r) == tmpl[T(r)].id = rd[r].id
ListenerOnly == UNCHANGED <<outside, inst, mgr, upl, ev, changes>>

\* An event is taken.  It brings the template up to date, unless another reader is at an
\* event of the same template; but "created" does not bring its advisories.
TakeEvent(r) ==
    LET e == Head(events)
        shared == \E q \in Readers : rd[q].pc # "idle" /\ T(q) = e.t
    IN  /\ rd[r].pc = "idle" /\ events # <<>>
        /\ events' = Tail(events)
        /\ rd' = [rd EXCEPT ![r] = [NoHandling EXCEPT !.event = e,
                     !.pc = IF e.type = "deleted" THEN "lookup" ELSE "upsert"]]
        /\ lagging' = IF shared \/ e.type = "created" THEN lagging \union {e.t}
                                                      ELSE lagging \ {e.t}
        /\ UNCHANGED <<tmpl, nextId, tid, requests, missed, apart, faults>> /\ ListenerOnly

\* TemplateUpdate: OnConflictUpdateMulti.  Systems of the environment have no template yet.
TemplateUpsert(r) ==
    LET new == tmpl[T(r)].id = 0
        id == IF new THEN nextId ELSE tmpl[T(r)].id
    IN  /\ rd[r].pc = "upsert"
        /\ tmpl' = [tmpl EXCEPT ![T(r)].id = id]
        /\ nextId' = IF new THEN nextId + 1 ELSE nextId
        /\ apart' = IF new THEN apart \union {s \in Systems : env[s] = T(r)} ELSE apart
        /\ rd' = [rd EXCEPT ![r] = IF @.event.type = "updated"
                                   THEN [@ EXCEPT !.pc = "fetch", !.id = id] ELSE NoHandling]
        /\ UNCHANGED <<tid, events, requests, missed, lagging, faults>> /\ ListenerOnly

\* callCSTemplateAdvisories
FetchAdvisories(r) ==
    /\ rd[r].pc = "fetch" /\ cs[T(r)].state = "live"
    /\ rd' = [rd EXCEPT ![r].pc = "diff", ![r].cur = cs[T(r)].adv]
    /\ UNCHANGED <<tmpl, nextId, tid, events, requests, hist, faults>> /\ ListenerOnly

\* 404: the template is gone; only a "deleted" event still to come will remove the row.
FetchNotFound(r) ==
    /\ rd[r].pc = "fetch" /\ cs[T(r)].state # "live"
    /\ Finish(r)
    /\ lagging' = lagging \union {T(r)}
    /\ UNCHANGED <<tmpl, nextId, tid, events, requests, missed, apart, faults>> /\ ListenerOnly

\* Mutant of ToRemove: advisories that left the template are kept.
BugRemovesNothing(stored, cur) == {}

\* diffTemplateAdvisories
ToRemove(stored, cur) == stored \ cur
ToAdd(stored, cur) == cur \ stored

\* lookUpTemplateAdvisories, diffTemplateAdvisories and buildTemplateAdvisoryRows.
DiffAdvisories(r) ==
    LET stored == AdvisoriesOf(rd[r].id)
        add == ToAdd(stored, rd[r].cur)
        rem == ToRemove(stored, rd[r].cur)
    IN  /\ rd[r].pc = "diff"
        /\ rd' = [rd EXCEPT ![r] = IF add = {} /\ rem = {} THEN NoHandling
                                   ELSE [@ EXCEPT !.pc = "apply", !.add = add \intersect known,
                                                  !.rem = rem]]
        /\ UNCHANGED <<tmpl, nextId, tid, events, requests, hist, faults>> /\ ListenerOnly

\* The transaction; an insert for a template that is gone violates the foreign key.
ApplyAdvisories(r) ==
    /\ rd[r].pc = "apply"
    /\ IF RowOf(r)
       THEN /\ tmpl' = [tmpl EXCEPT ![T(r)].adv = (@ \ rd[r].rem) \union rd[r].add]
            /\ Step(r, "recalc")
       ELSE /\ UNCHANGED tmpl
            /\ IF rd[r].add = {} THEN Step(r, "recalc") ELSE Finish(r)
    /\ UNCHANGED <<nextId, tid, events, requests, hist, faults>> /\ ListenerOnly

\* After the commit: the systems of the template by then.
SendTemplateRecalc(r) ==
    /\ rd[r].pc = "recalc"
    /\ requests' = requests \union Assigned(rd[r].id)
    /\ Finish(r)
    /\ UNCHANGED <<tmpl, nextId, tid, events, hist, faults>> /\ ListenerOnly

\* TemplateDelete
LookupTemplate(r) ==
    /\ rd[r].pc = "lookup"
    /\ rd' = [rd EXCEPT ![r] = IF tmpl[T(r)].id = 0 THEN NoHandling
                               ELSE [@ EXCEPT !.pc = "announce", !.id = tmpl[T(r)].id]]
    /\ UNCHANGED <<tmpl, nextId, tid, events, requests, hist, faults>> /\ ListenerOnly

\* The request is sent while the systems still have the template.
AnnounceDelete(r) ==
    /\ rd[r].pc = "announce"
    /\ requests' = requests \union Assigned(rd[r].id)
    /\ Step(r, "unassign")
    /\ UNCHANGED <<tmpl, nextId, tid, events, hist, faults>> /\ ListenerOnly

\* A send that fails is only logged.
AnnounceLost(r) ==
    /\ rd[r].pc = "announce"
    /\ Fault
    /\ Step(r, "unassign")
    /\ UNCHANGED <<tmpl, nextId, tid, events, requests, hist>> /\ ListenerOnly

UnassignSystems(r) ==
    /\ rd[r].pc = "unassign"
    /\ tid' = [s \in Systems |-> IF tid[s] = rd[r].id THEN 0 ELSE tid[s]]
    /\ missed' = missed \union (Assigned(rd[r].id) \ requests)
    /\ apart' = apart \union Assigned(rd[r].id)
    /\ Step(r, "strip")
    /\ UNCHANGED <<tmpl, nextId, events, requests, lagging, faults>> /\ ListenerOnly

DeleteTemplateAdvisories(r) ==
    /\ rd[r].pc = "strip"
    /\ tmpl' = IF RowOf(r) THEN [tmpl EXCEPT ![T(r)].adv = {}] ELSE tmpl
    /\ missed' = missed \union (Assigned(rd[r].id) \ requests)
    /\ Step(r, "delete")
    /\ UNCHANGED <<nextId, tid, events, requests, apart, lagging, faults>> /\ ListenerOnly

\* A system that got the template in the meantime keeps the row: foreign key.
DeleteTemplate(r) ==
    /\ rd[r].pc = "delete"
    /\ IF Assigned(rd[r].id) = {}
       THEN /\ tmpl' = IF RowOf(r) THEN [tmpl EXCEPT ![T(r)] = NoTemplate] ELSE tmpl
            /\ UNCHANGED lagging
       ELSE /\ lagging' = lagging \union {T(r)}
            /\ UNCHANGED tmpl
    /\ Finish(r)
    /\ UNCHANGED <<nextId, tid, events, requests, missed, apart, faults>> /\ ListenerOnly

\* A statement, a call or a send fails, or the pod dies; then the event may come again.
TemplateEventFails(r) ==
    /\ rd[r].pc # "idle"
    /\ Fault
    /\ Finish(r)
    /\ events' \in {events, <<rd[r].event>> \o events}
    /\ lagging' = lagging \union {T(r)}
    /\ missed' = IF rd[r].pc = "recalc" THEN missed \union Assigned(rd[r].id) ELSE missed
    /\ UNCHANGED <<tmpl, nextId, tid, requests, apart>> /\ ListenerOnly

-----------------------------------------------------------------------------
(* Manager: three handlers that differ in how they begin *)

ManagerOnly == UNCHANGED <<cs, known, tmpl, nextId, inst, events, rd, ev, lagging>>

\* getTemplate
TemplateFound(t) == tmpl[t].id # 0

\* checkTemplateSystems: what a request goes on with.
CheckedRequest(m, S, to) ==
    /\ mgr[m].pc = "idle" /\ S # {}
    /\ Change
    /\ mgr' = [Touch(S, m) EXCEPT ![m] = [pc |-> "checked", S |-> S, to |-> to,
                                          id |-> TemplateOf(to), over |-> Busy(S)]]
    /\ upl' = TouchUpload(S)
    /\ UNCHANGED <<env, tid, requests, missed, apart, faults>> /\ ManagerOnly

TemplateSystemsUpdate(m, S, t) == TemplateFound(t) /\ CheckedRequest(m, S, t)
TemplateSystemsDelete(m, S) == CheckedRequest(m, S, None)

\* The host asks for itself.
TemplateSubscribedSystemsUpdate(m, s, t) == TemplateFound(t) /\ CheckedRequest(m, {s}, t)

\* assignCandlepinEnvironment
AssignCandlepin(m) ==
    /\ mgr[m].pc = "checked"
    /\ env' = [s \in Systems |-> IF s \in mgr[m].S THEN mgr[m].to ELSE env[s]]
    /\ mgr' = [mgr EXCEPT ![m].pc = "assigned"]
    /\ UNCHANGED <<tid, upl, requests, missed, apart, bounds>> /\ ManagerOnly

\* The call fails, with or without an effect: the request ends before the database.
CandlepinFails(m) ==
    /\ mgr[m].pc = "checked"
    /\ Fault
    /\ env' \in {env, [s \in Systems |-> IF s \in mgr[m].S THEN mgr[m].to ELSE env[s]]}
    /\ apart' = apart \union mgr[m].S
    /\ mgr' = [mgr EXCEPT ![m] = NoRequest]
    /\ UNCHANGED <<tid, upl, requests, missed, changes>> /\ ManagerOnly

\* Mutant of StoredId: no template leaves template_id as it is.
BugRemoveKeeps(m, s) == IF s \in mgr[m].S /\ mgr[m].id # 0 THEN mgr[m].id ELSE tid[s]

\* Mutant of StoredId: the environment instead of the id.
BugStoresEnvironment(m, s) == IF s \in mgr[m].S THEN mgr[m].to ELSE tid[s]

\* The template_id of s after assignTemplateSystems.
StoredId(m, s) == IF s \in mgr[m].S THEN mgr[m].id ELSE tid[s]

\* assignTemplateSystems: the template may be gone (foreign key).
AssignStore(m) ==
    /\ mgr[m].pc = "assigned"
    /\ IF mgr[m].id # 0 /\ ~Exists(mgr[m].id)
       THEN /\ mgr' = [mgr EXCEPT ![m] = NoRequest]
            /\ apart' = apart \union mgr[m].S
            /\ UNCHANGED tid
       ELSE /\ tid' = [s \in Systems |-> StoredId(m, s)]
            /\ mgr' = [mgr EXCEPT ![m].pc = "stored"]
            /\ apart' = IF mgr[m].over THEN apart \union mgr[m].S ELSE apart \ mgr[m].S
    /\ UNCHANGED <<env, upl, requests, missed, bounds>> /\ ManagerOnly

\* The transaction fails, or a system was deleted and the numbers of rows differ.
AssignStoreFails(m) ==
    /\ mgr[m].pc = "assigned"
    /\ Fault
    /\ apart' = apart \union mgr[m].S
    /\ mgr' = [mgr EXCEPT ![m] = NoRequest]
    /\ UNCHANGED <<env, tid, upl, requests, missed, changes>> /\ ManagerOnly

\* Mutant of AssignRecalc: only systems that got a template are evaluated again.
BugNoRecalcOnRemove(m) ==
    /\ mgr[m].pc = "stored"
    /\ requests' = IF mgr[m].to = None THEN requests ELSE requests \union mgr[m].S
    /\ mgr' = [mgr EXCEPT ![m] = NoRequest]
    /\ UNCHANGED <<env, tid, upl, missed, apart, bounds>> /\ ManagerOnly

\* RecalcSystems
AssignRecalc(m) ==
    /\ mgr[m].pc = "stored"
    /\ requests' = requests \union mgr[m].S
    /\ mgr' = [mgr EXCEPT ![m] = NoRequest]
    /\ UNCHANGED <<env, tid, upl, missed, apart, bounds>> /\ ManagerOnly

\* The send fails or the pod dies with the request in its channel.
AssignRecalcFails(m) ==
    /\ mgr[m].pc = "stored"
    /\ Fault
    /\ missed' = missed \union mgr[m].S
    /\ mgr' = [mgr EXCEPT ![m] = NoRequest]
    /\ UNCHANGED <<env, tid, upl, requests, apart, changes>> /\ ManagerOnly

-----------------------------------------------------------------------------
(* Listener: the template of an uploaded host *)

UploadOnly == UNCHANGED <<outside, tmpl, nextId, inst, events, rd, ev, lagging, faults>>

\* hostTemplate: Candlepin, then the template of the environment; no template when the host
\* has no template repository or a call fails.
HostTemplate(s, id) ==
    /\ upl.pc = "idle"
    /\ Change
    /\ upl' = [pc |-> "read", s |-> s, id |-> id, over |-> Busy({s})]
    /\ mgr' = Touch({s}, None)
    /\ UNCHANGED <<tid, requests, missed, apart>> /\ UploadOnly

\* upsertSystemPatch: template_id is among the updated columns only when there is one.
Overwrites(id) == id # 0

\* The commit.  Only a change of the data, and not of the template, asks for an evaluation;
\* a template that is gone violates the foreign key, and the upload is handled again.
UploadStore(changed) ==
    LET s == upl.s
    IN  /\ upl.pc = "read"
        /\ upl' = NoUpload
        /\ IF upl.id # 0 /\ ~Exists(upl.id)
           THEN UNCHANGED <<tid, requests, missed, apart>>
           ELSE /\ tid' = IF Overwrites(upl.id) THEN [tid EXCEPT ![s] = upl.id] ELSE tid
                /\ requests' = IF changed THEN requests \union {s} ELSE requests
                /\ missed' = IF ~changed /\ tid' # tid /\ s \notin requests
                             THEN missed \union {s} ELSE missed
                /\ apart' = IF ~Overwrites(upl.id) THEN apart
                            ELSE IF upl.over THEN apart \union {s} ELSE apart \ {s}
        /\ UNCHANGED <<mgr, changes>> /\ UploadOnly

-----------------------------------------------------------------------------
(* Evaluator *)

EvaluatorOnly ==
    UNCHANGED <<outside, tmpl, nextId, tid, events, rd, mgr, upl, apart, lagging, changes>>

\* loadSystemData
EvalLoad(e, s) ==
    /\ ev[e].pc = "idle" /\ s \in requests
    /\ requests' = requests \ {s}
    /\ ev' = [ev EXCEPT ![e] = [NoEvaluation EXCEPT !.pc = "loaded", !.s = s, !.id = tid[s]]]
    /\ missed' = missed \ {s}
    /\ UNCHANGED <<inst, faults>> /\ EvaluatorOnly

\* getTemplateAdvisoryUpdatesData, after VMaaS has answered.
EvalRead(e) ==
    /\ ev[e].pc = "loaded"
    /\ ev' = [ev EXCEPT ![e].pc = "read", ![e].found = Installable(ev[e].id)]
    /\ UNCHANGED <<inst, requests, missed, faults>> /\ EvaluatorOnly

\* evaluateAndStore; another evaluation of the system that is still going on is overtaken.
EvalStore(e) ==
    LET s == ev[e].s
    IN  /\ ev[e].pc = "read"
        /\ inst' = [inst EXCEPT ![s] = ev[e].found]
        /\ missed' = IF ev[e].over THEN missed \union {s} ELSE missed
        /\ ev' = [f \in Evaluators |->
                    IF f = e THEN NoEvaluation
                    ELSE [ev[f] EXCEPT !.over = @ \/ (ev[f].pc # "idle" /\ ev[f].s = s)]]
        /\ UNCHANGED <<requests, faults>> /\ EvaluatorOnly

EvalFails(e) ==
    /\ ev[e].pc # "idle"
    /\ Fault
    /\ missed' = missed \union {ev[e].s}
    /\ ev' = [ev EXCEPT ![e] = NoEvaluation]
    /\ UNCHANGED <<inst, requests>> /\ EvaluatorOnly

-----------------------------------------------------------------------------
ReaderStep(r) ==
    \/ TakeEvent(r) \/ TemplateUpsert(r) \/ FetchAdvisories(r) \/ FetchNotFound(r)
    \/ DiffAdvisories(r) \/ ApplyAdvisories(r) \/ SendTemplateRecalc(r)
    \/ LookupTemplate(r) \/ AnnounceDelete(r) \/ UnassignSystems(r)
    \/ DeleteTemplateAdvisories(r) \/ DeleteTemplate(r)

RequestStep(m) == AssignCandlepin(m) \/ AssignStore(m) \/ AssignRecalc(m)

Next ==
    \/ \E t \in Templates, adv \in SUBSET Advisories : CsCreate(t, adv) \/ CsUpdate(t, adv)
    \/ \E t \in Templates : CsDelete(t)
    \/ \E a \in Advisories : AdvisorySynced(a)
    \/ \E s \in Systems, x \in Environments : EnvChange(s, x)
    \/ \E r \in Readers : ReaderStep(r) \/ AnnounceLost(r) \/ TemplateEventFails(r)
    \/ \E m \in Requests, S \in SUBSET Systems :
           TemplateSystemsDelete(m, S) \/ \E t \in Templates : TemplateSystemsUpdate(m, S, t)
    \/ \E m \in Requests, s \in Systems, t \in Templates :
           TemplateSubscribedSystemsUpdate(m, s, t)
    \/ \E m \in Requests : \/ RequestStep(m) \/ CandlepinFails(m) \/ AssignStoreFails(m)
                           \/ AssignRecalcFails(m)
    \/ \E s \in Systems : \E id \in {0, TemplateOf(env[s])} : HostTemplate(s, id)
    \/ \E changed \in BOOLEAN : UploadStore(changed)
    \/ \E e \in Evaluators, s \in Systems : EvalLoad(e, s)
    \/ \E e \in Evaluators : EvalRead(e) \/ EvalStore(e) \/ EvalFails(e)

Spec == Init /\ [][Next]_vars

-----------------------------------------------------------------------------
(* Properties *)

\* An evaluation of s is asked for, going on, or will be asked for by a handler.
Pending(s) ==
    \/ s \in requests
    \/ \E e \in Evaluators : ev[e].pc # "idle" /\ ev[e].s = s
    \/ \E m \in Requests : mgr[m].pc = "stored" /\ s \in mgr[m].S
    \/ \E r \in Readers : rd[r].pc = "recalc" /\ rd[r].id = tid[s]

\* What a system shows as installable is what its template contains, or a re-evaluation is
\* on its way, however assignments, changes of content, uploads and evaluations interleave;
\* except when the request was lost, was overtaken by an older evaluation, was sent before
\* its cause (a deleted template), or was not sent (an upload that only changes the template).
InstallableCurrentUnlessMissed ==
    \A s \in Systems : inst[s] # Installable(tid[s]) => Pending(s) \/ s \in missed

\* system_patch and Candlepin agree on the template of a system no request is busy with,
\* unless a request failed between the two, two of them overlapped on the system, the host
\* changed its environment, or the template was created or deleted around it.
AssignmentAgreesUnlessApart ==
    \A s \in Systems :
        s \notin apart /\ ~(\E m \in Requests : mgr[m].pc = "assigned" /\ s \in mgr[m].S)
            => tid[s] = TemplateOf(env[s])

\* Once its events are handled, a template is there if and only if Content Sources has it,
\* with those of its advisories that are in advisory_metadata; unless two readers were at it
\* at a time, an event failed, a new system kept a deleted template, or the advisory was
\* synchronized after the event.
TemplateCurrentUnlessLagging ==
    \A t \in Templates :
        \/ t \in lagging
        \/ \E i \in 1 .. Len(events) : events[i].t = t
        \/ \E r \in Readers : rd[r].pc # "idle" /\ T(r) = t
        \/ (tmpl[t].id # 0) = (cs[t].state = "live") /\ tmpl[t].adv = cs[t].adv \intersect known

=============================================================================
