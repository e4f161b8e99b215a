--------------------------- MODULE ManagerQueries ---------------------------
(***************************************************************************)
(* The read-only API of the manager.  A client reads a list page by page,  *)
(* following the links of the answers, while systems are uploaded, marked  *)
(* or deleted, caches are refreshed, the permissions of the client change, *)
(* the pod restarts and, for GET, a read replica lags behind.  A request   *)
(* is a call of RBAC or Kessel, a lookup of the account, for some          *)
(* endpoints a statement that prepares the list, and the statement that    *)
(* reads the page.                                                         *)
(*                                                                         *)
(* A system is its si.id.  A row of a list of systems is <<system, n>>,    *)
(* where n is the version of the package in the list of a package and 0    *)
(* in the other lists; a row of a list of advisories, packages, templates  *)
(* or tags is <<id, what is shown beside it>>.                             *)
(***************************************************************************)
EXTENDS ManagerAccess, SequencesExt

CONSTANTS
  SystemIDs,     \* si.id
  Account,       \* Account[s]: rh_account_id of a system
  Own,           \* the account of the client
  Workspaces,
  Rows,          \* rows of system_inventory and what hangs on it
  Advisories,
  Versions,      \* versions of the package
  Tags,
  Tables,        \* what the tables of systems hold at first
  Metadata,      \* and advisory_metadata
  Configs,       \* settings of the pod
  Grants,        \* what RBAC and Kessel may answer for the client
  Requests,      \* what the client, or a link, asks for
  Unescaped,     \* Unescaped[q]: what the links of q ask for when its filters have
                 \* characters that mean something else in a URL
  MaxChanges     \* bound: changes around the client

ASSUME QueryAssumption ==
  /\ SystemIDs \subseteq Nat /\ Advisories \subseteq Nat /\ Versions \subseteq Nat /\ Tags \subseteq Nat
  /\ IsFiniteSet(SystemIDs) /\ IsFiniteSet(Advisories) /\ IsFiniteSet(Versions)
  /\ IsFiniteSet(Tags) /\ IsFiniteSet(Workspaces)
  /\ 0 \notin SystemIDs \cup Advisories \cup Versions
  /\ Account \in [SystemIDs -> Nat \ {0}] /\ Own \in Nat \ {0}
  /\ MaxChanges \in Nat

(* A null value is not a number, not an answer and not a list of rows. *)
ASSUME NilAssumption ==
  /\ NIL \notin Int /\ NIL \notin {"auth", "bad", "notfound", "failed"}
  /\ NIL \notin Seq(Nat \X (Nat \cup SUBSET SystemIDs))

(* The columns of a row; the foreign key of system_advisories. *)
ASSUME TableAssumption ==
  /\ \A row \in Rows : /\ row.workspace \in Workspaces /\ row.versions \subseteq Versions
                       /\ row.key \in Nat \cup {NIL}
  /\ Tables \subseteq [SystemIDs -> Rows \cup {NIL}] /\ Metadata \subseteq [Advisories -> 0 .. 3]
  /\ \A sys \in Tables, meta \in Metadata, s \in SystemIDs, a \in Advisories :
       sys[s] # NIL /\ sys[s].advisories[a] # "none" => meta[a] # 0

(* A grant names workspaces. *)
ASSUME GrantAssumption ==
  /\ \A c \in Configs : c.auth \in {"kessel", "rbac", "off"}
  /\ \A g \in Grants :
       /\ g.kessel \subseteq Workspaces
       /\ \A i \in DOMAIN g.rbac : \A rd \in g.rbac[i].definitions :
            IsGroupDefinition(rd) => {WorkspaceOf(v) : v \in rd.values \ Malformed} \subseteq Workspaces

(* The filters of the inventory are a map: one of group_name at most, and it has a value. *)
ASSUME RequestAssumption ==
  \A q \in Requests :
    /\ q.endpoint \in {"systems", "advisory_systems", "package_systems", "template_systems",
                       "advisories", "packages", "templates", "tags", "versions",
                       "system_advisories", "system_packages", "views_systems",
                       "views_advisories", "advisory"}
    /\ q.mode \in {"next", "last", "ids", "export"} /\ q.limit \in Int
    /\ \A f \in q.inventory : f.type \in {"tag", "workload", "group"}
    /\ \A f, g \in q.inventory : f.type = "group" => f.names # {} /\ (g.type = "group" => f = g)

(* A '+' comes back as a blank; '&' and '#' cut a value, '#' also the order
   behind it; what '%' or ';' make malformed is dropped. *)
ASSUME LinkAssumption ==
  \A q \in DOMAIN Unescaped :
    LET back == Unescaped[q]
    IN /\ back \in Requests
       /\ back.endpoint = q.endpoint /\ back.method = q.method /\ back.mode = q.mode
       /\ back.limit = q.limit /\ back.ids = q.ids /\ back.target = q.target

VARIABLES
  config,    \* auth, replica, accountAdvisory, cachedCounts, packageCache, limitPageSize,
             \* preload
  primary,   \* the database: systems, advisory_metadata and the cached counts
  replica,   \* the read replica
  grant,     \* what RBAC and Kessel answer for the client
  changes,   \* number of changes
  idCache,   \* AccountIDCache of the pod knows the client
  details,   \* advisoryDetailCache of the pod
  call,      \* the context of the request
  walk       \* what the client has asked for and got

vars == <<config, primary, replica, grant, changes, idCache, details, call, walk>>
podVars == <<config, idCache, details>>
aroundVars == <<primary, replica, grant, changes>>

(* advisory_metadata: absent, inserted from yum_updates, synchronized, modified *)
Absent == 0
Hollow == 1
Complete == 2
Modified == 3

NullWord == -1      \* the value "null" of a filter
NotNullWord == -2   \* the value "notnull"

-----------------------------------------------------------------------------
(* Queries.  D is the database that is read. *)

Systems(D, account, workspaces) ==
  {s \in SystemIDs : /\ D.sys[s] # NIL
                     /\ Account[s] = account
                     /\ workspaces = {} \/ D.sys[s].workspace \in workspaces}

(* A tag without a namespace is stored under its key alone, which ParseTag
   refuses: ApplyTag gets nil and restricts nothing. *)
ApplyTag(f, row) == f.namespaced => f.tag \in row.tags

ApplyInventoryWhere(inventory, row) ==
  LET workload == {f \in inventory : f.type = "workload"}
  IN /\ \A f \in inventory : f.type = "tag" => ApplyTag(f, row)
     /\ \A f \in inventory : f.type = "group" => row.name \in f.names
     /\ workload # {} => \E f \in workload : f.workload \in row.workloads

(* Repeated filters of a column: the values add up, the last operator wins. *)
ParseFilters(raw) ==
  IF raw = <<>> THEN NIL
  ELSE [op |-> IF Last(raw).op = NIL THEN "eq" ELSE Last(raw).op,
        values |-> FlattenSeq(Reverse([i \in DOMAIN raw |-> raw[i].values]))]

BugToQueryParams(q, raw) ==
  IF raw = <<>> THEN <<>> ELSE <<[op |-> NIL, values |-> ParseFilters(raw).values]>>

(* The filters of a link, as they are read again: written without escaping. *)
ToQueryParams(q, raw) ==
  CASE q \in DOMAIN Unescaped -> Unescaped[q].raw
    [] q \notin DOMAIN Unescaped /\ raw = <<>> -> <<>>
    [] q \notin DOMAIN Unescaped /\ raw # <<>> -> <<ParseFilters(raw)>>

createLink(q) == IF q \in DOMAIN Unescaped THEN Unescaped[q] ELSE q

checkValueCount(op, n) ==
  CASE op = "between" -> n = 2
    [] op \in {"in", "notin"} -> n > 0
    [] OTHER -> n = 1

transformParams(f) ==
  IF f.values \in {<<NullWord>>, <<NotNullWord>>}
    THEN [op |-> IF f.values[1] = NullWord THEN "null" ELSE "notnull", values |-> <<0>>]
    ELSE f

IsAccepted(f) ==
  LET t == transformParams(f)
  IN /\ \A v \in Range(t.values) : v \in Nat
     /\ checkValueCount(t.op, Len(t.values))
     /\ t.op \in {"eq", "neq", "gt", "lt", "gte", "lte", "between", "in", "notin", "null", "notnull"}

(* SQL: a comparison with NULL selects nothing. *)
ToWhere(f, v) ==
  LET t == transformParams(f)
  IN CASE t.op = "null" -> v = NIL
       [] t.op = "notnull" -> v # NIL
       [] t.op \notin {"null", "notnull"} /\ v = NIL -> FALSE
       [] t.op = "eq" /\ v # NIL -> v = t.values[1]
       [] t.op = "neq" /\ v # NIL -> v # t.values[1]
       [] t.op = "gt" /\ v # NIL -> v > t.values[1]
       [] t.op = "lt" /\ v # NIL -> v < t.values[1]
       [] t.op = "gte" /\ v # NIL -> v >= t.values[1]
       [] t.op = "lte" /\ v # NIL -> v <= t.values[1]
       [] t.op = "between" /\ v # NIL -> t.values[1] <= v /\ v <= t.values[2]
       [] t.op = "in" /\ v # NIL -> v \in Range(t.values)
       [] t.op = "notin" /\ v # NIL -> v \notin Range(t.values)

Affects(D, a, s) == D.sys[s].advisories[a] # "none"

BugAdvisorySystemsQuery(D, account, workspaces, a) ==
  {s \in Systems(D, account, workspaces) : Affects(D, a, s)}

buildAdvisorySystemsQuery(D, account, workspaces, a) ==
  {s \in Systems(D, account, workspaces) : Affects(D, a, s) /\ ~D.sys[s].stale}

(* One row for each installed version. *)
packageSystemsQuery(D, account, workspaces) ==
  {r \in Systems(D, account, workspaces) \X Versions :
     r[2] \in D.sys[r[1]].versions /\ ~D.sys[r[1]].stale}

templateSystemsQuery(D, account, workspaces) ==
  {s \in Systems(D, account, workspaces) : D.sys[s].template}

One(S) == {<<s, 0>> : s \in S}

(* The body of POST /systems names the systems it asks for. *)
systemsCommon(D, account, workspaces, ids) ==
  {s \in Systems(D, account, workspaces) : ids # {} => s \in ids}

(* LEFT JOIN system_advisories: the systems without advisories too. *)
systemsAdvisoriesQuery(D, account, workspaces, ids) ==
  {s \in Systems(D, account, workspaces) : ids # {} => s \in ids}

SystemRows(q, D, account, workspaces) ==
  CASE q.endpoint = "systems" -> One(systemsCommon(D, account, workspaces, q.ids))
    [] q.endpoint = "views_systems" -> One(systemsAdvisoriesQuery(D, account, workspaces, q.ids))
    [] q.endpoint = "advisory_systems" ->
         One(buildAdvisorySystemsQuery(D, account, workspaces, q.target))
    [] q.endpoint = "package_systems" -> packageSystemsQuery(D, account, workspaces)
    [] q.endpoint = "template_systems" -> One(templateSystemsQuery(D, account, workspaces))

(* A finite set as a list: the i-th element has i - 1 elements before it. *)
Ordered(S, Before(_, _)) ==
  [i \in 1 .. Cardinality(S) |-> CHOOSE r \in S : Cardinality({x \in S : Before(x, r)}) = i - 1]

(* NULLS LAST in both directions; then si.id, which leaves the versions of
   one system in any order. *)
ApplySort(rows, D, desc, byID, tie) ==
  LET Key(r) == D.sys[r[1]].key
      KeyBefore(r1, r2) ==
        CASE Key(r1) = NIL -> FALSE
          [] Key(r1) # NIL /\ Key(r2) = NIL -> TRUE
          [] Key(r1) # NIL /\ Key(r2) # NIL ->
               IF desc THEN Key(r1) > Key(r2) ELSE Key(r1) < Key(r2)
      TieBefore(r1, r2) == IF tie = "asc" THEN r1[2] < r2[2] ELSE r1[2] > r2[2]
      Before(r1, r2) ==
        \/ ~byID /\ KeyBefore(r1, r2)
        \/ /\ byID \/ ~KeyBefore(r2, r1)
           /\ r1[1] < r2[1] \/ (r1[1] = r2[1] /\ TieBefore(r1, r2))
  IN Ordered(rows, Before)

SystemList(q, filter, D, account, workspaces, byID, tie) ==
  LET selected == {r \in SystemRows(q, D, account, workspaces) :
                     /\ ApplyInventoryWhere(q.inventory, D.sys[r[1]])
                     /\ filter # NIL => ToWhere(filter, D.sys[r[1]].key)}
  IN ApplySort(selected, D, q.desc, byID, tie)

-----------------------------------------------------------------------------
(* Lists with counts.  path is where the counts of advisories come from. *)

hasNonGroupInventoryFilter(inventory) == \E f \in inventory : f.type = "tag"
GroupNames(inventory) == UNION {f.names : f \in {g \in inventory : g.type = "group"}}

resolveWorkspaceNameToIDs(D, account, names, allowed) ==
  {D.sys[s].workspace : s \in {t \in Systems(D, account, allowed) : D.sys[t].name \in names}}

resolveAdvisoriesQuery(D, account, workspaces, inventory) ==
  LET names == GroupNames(inventory)
      effective == IF names = {} THEN workspaces
                   ELSE resolveWorkspaceNameToIDs(D, account, names, workspaces)
  IN CASE config.accountAdvisory /\ ~hasNonGroupInventoryFilter(inventory) ->
            [path |-> IF effective = {} THEN "nothing" ELSE "account_advisory",
             workspaces |-> effective]
       [] ~config.accountAdvisory /\ config.cachedCounts /\ inventory = {} /\ workspaces = {} ->
            [path |-> "advisory_account_data", workspaces |-> {}]
       [] OTHER -> [path |-> "tagged", workspaces |-> workspaces]

buildAccountAdvisorySubquery(D, account, workspaces, a) ==
  IF account = Own
    THEN MapThenSumSet(LAMBDA w : D.accountAdvisory[w][a], workspaces \cap Workspaces)
    ELSE 0

buildQueryAdvisories(D, account, a) == IF account = Own THEN D.advisoryData[a] ELSE 0

buildQueryAdvisoriesTagged(D, account, workspaces, inventory, a) ==
  Cardinality({s \in Systems(D, account, workspaces) :
                 /\ Affects(D, a, s) /\ ~D.sys[s].stale
                 /\ ApplyInventoryWhere(inventory, D.sys[s])})

AdvisoryCount(D, account, prepared, inventory, a) ==
  CASE prepared.path = "nothing" -> 0
    [] prepared.path = "account_advisory" ->
         buildAccountAdvisorySubquery(D, account, prepared.workspaces, a)
    [] prepared.path = "advisory_account_data" -> buildQueryAdvisories(D, account, a)
    [] prepared.path = "tagged" ->
         buildQueryAdvisoriesTagged(D, account, prepared.workspaces, inventory, a)

shouldUseCache(D, workspaces, inventory) ==
  config.packageCache /\ inventory = {} /\ workspaces = {} /\ D.validPackages

\* packages_installed > 0 holds for a system with package rows: both are written in
\* one transaction (evaluator/evaluate.go, evaluateAndStore).
packagesQuery(D, account, workspaces, inventory, useCache) ==
  IF useCache THEN IF account = Own THEN D.packageData ELSE 0
  ELSE Cardinality({r \in packageSystemsQuery(D, account, workspaces) :
                      ApplyInventoryWhere(inventory, D.sys[r[1]])})

templatesQuery(D, account, workspaces, inventory) ==
  Cardinality({s \in templateSystemsQuery(D, account, workspaces) :
                 ApplyInventoryWhere(inventory, D.sys[s])})

TagCount(D, account, workspaces, t) ==
  Cardinality({s \in Systems(D, account, workspaces) : t \in D.sys[s].tags})

ByID(S) == Ordered(S, LAMBDA r1, r2 : r1[1] < r2[1])
Counted(S, count(_)) == ByID({r \in {<<i, count(i)>> : i \in S} : r[2] > 0})

(* POST /views/advisories/systems: the advisories of the page, and of those
   the ones with systems that are fresh and can install them. *)
advisoriesSystemsQuery(D, account, workspaces) ==
  {a \in Advisories : \E s \in Systems(D, account, workspaces) : Affects(D, a, s)}
SystemsOfAdvisory(D, account, a) ==
  {s \in Systems(D, account, {}) : D.sys[s].advisories[a] = "installable" /\ ~D.sys[s].stale}

packageVersionsQuery(D, account, workspaces) ==
  {<<r[2], 0>> : r \in packageSystemsQuery(D, account, workspaces)}

buildSystemAdvisoriesQuery(D, account, workspaces, s) ==
  {<<a, 0>> : a \in {b \in Advisories : s \in Systems(D, account, workspaces) /\ Affects(D, b, s)}}

systemPackageQuery(D, account, workspaces, s) ==
  {<<v, 0>> : v \in {w \in Versions :
                       s \in Systems(D, account, workspaces) /\ w \in D.sys[s].versions}}

(* The list behind a request, before paging. *)
List(q, filter, D, account, workspaces, prepared, tie) ==
  CASE q.endpoint \in {"systems", "advisory_systems", "package_systems", "template_systems",
                       "views_systems"} ->
         SystemList(q, filter, D, account, workspaces, FALSE, tie)
    [] q.endpoint = "advisories" ->
         Counted(Advisories, LAMBDA a : AdvisoryCount(D, account, prepared, q.inventory, a))
    [] q.endpoint = "packages" ->
         Counted({1}, LAMBDA p : packagesQuery(D, account, workspaces, q.inventory,
                                               prepared.path = "package_account_data"))
    [] q.endpoint = "templates" ->
         IF account = Own THEN <<<<1, templatesQuery(D, account, workspaces, q.inventory)>>>>
         ELSE <<>>
    [] q.endpoint = "tags" -> Counted(Tags, LAMBDA t : TagCount(D, account, workspaces, t))
    [] q.endpoint = "versions" -> ByID(packageVersionsQuery(D, account, workspaces))
    [] q.endpoint = "system_advisories" ->
         ByID(buildSystemAdvisoriesQuery(D, account, workspaces, q.target))
    [] q.endpoint = "system_packages" ->
         ByID(systemPackageQuery(D, account, workspaces, q.target))
    [] q.endpoint = "views_advisories" ->
         ByID({<<a, SystemsOfAdvisory(D, account, a)>> :
                 a \in advisoriesSystemsQuery(D, account, workspaces)})

(* count(star) over (): before DISTINCT, so the versions of a package count
   once for each system. *)
MetaTotalHelper(q, list, D, account, workspaces) ==
  IF q.endpoint = "versions" THEN Cardinality(packageSystemsQuery(D, account, workspaces))
  ELSE Len(list)

(* /views/advisories/systems leaves out the advisories without a system. *)
WithSystems(rows) ==
  LET kept[i \in 0 .. Len(rows)] ==
        IF i = 0 THEN <<>>
        ELSE IF rows[i][2] = {} THEN kept[i - 1]
        ELSE Append(kept[i - 1], rows[i])
  IN  kept[Len(rows)]

Shown(q, rows) == IF q.endpoint = "views_advisories" THEN WithSystems(rows) ELSE rows

(* The exports of systems and of the systems of an advisory are ordered by
   id before anything else. *)
ExportList(q, filter, D, account, workspaces, prepared) ==
  IF q.endpoint \in {"systems", "advisory_systems"}
    THEN SystemList(q, filter, D, account, workspaces, TRUE, "asc")
    ELSE List(q, filter, D, account, workspaces, prepared, "asc")

-----------------------------------------------------------------------------
(* Paging *)

Quotient(a, b) == IF b > 0 THEN a \div b ELSE -(a \div (-b))   \* Go

CheckLimitOffset(limit, offset) ==
  /\ offset >= 0
  /\ config.limitPageSize => limit \in 1..100
  /\ limit >= 1 \/ limit = -1

ApplyLimitOffset(list, limit, offset) ==
  SubSeq(list, offset + 1, IF limit = -1 THEN Len(list) ELSE Min({offset + limit, Len(list)}))

BugLastLink(limit, total) == (Quotient(total, limit) - 1) * limit

createLastLink(limit, total) ==
  LET last == (Quotient(total, limit) - 1) * limit
  IN IF last < 0 THEN 0 ELSE last

createNextLink(offset, limit, total) ==
  IF total <= offset + limit THEN NIL ELSE offset + limit

createPreviousLink(offset, limit) ==
  IF offset = 0 THEN NIL
  ELSE LET page == Quotient(offset, limit) IN IF page > 0 THEN (page - 1) * limit ELSE 0

CreateLinks(offset, limit, total) ==
  [next |-> createNextLink(offset, limit, total), previous |-> createPreviousLink(offset, limit),
   last |-> createLastLink(limit, total)]


-----------------------------------------------------------------------------
(* The cached counts, as the jobs and the aggregator recount them. *)

Fresh(D, workspaces) == {s \in Systems(D, Own, workspaces) : ~D.sys[s].stale}
Recounted(D) ==
  [D EXCEPT !.advisoryData =
              [a \in Advisories |-> Cardinality({s \in Fresh(D, {}) : Affects(D, a, s)})],
            !.accountAdvisory =
              [w \in Workspaces |->
                 [a \in Advisories |-> Cardinality({s \in Fresh(D, {w}) : Affects(D, a, s)})]],
            !.packageData = Cardinality(packageSystemsQuery(D, Own, {})),
            !.validPackages = TRUE]

NoCall == [account |-> 0, workspaces |-> {}, prepared |-> NIL]
NoLinks == [next |-> NIL, previous |-> NIL, last |-> 0]
NoWalk == [pc |-> "idle", request |-> NIL, raw |-> <<>>, badTag |-> FALSE, altered |-> FALSE,
           offset |-> 0, back |-> FALSE, seen |-> <<>>, expected |-> NIL, changed |-> FALSE, unknown |-> FALSE,
           links |-> NoLinks, err |-> NIL]

Init ==
  /\ config \in Configs /\ grant \in Grants
  /\ \E sys \in Tables, meta \in Metadata :
       primary = Recounted([sys |-> sys, meta |-> meta, advisoryData |-> NIL,
                            accountAdvisory |-> NIL, packageData |-> NIL,
                            validPackages |-> TRUE])
  /\ replica = primary
  /\ changes = 0 /\ idCache = FALSE
  /\ details = [a \in Advisories |-> IF config.preload THEN primary.meta[a] ELSE Absent]
  /\ call = NoCall /\ walk = NoWalk

-----------------------------------------------------------------------------
(* What happens around the client. *)

Change == changes < MaxChanges /\ changes' = changes + 1

(* A deletion, or another value of the column stale alone. *)
IsEvaluated(old, row) ==
  ~(row = NIL \/ (old # NIL /\ row = [old EXCEPT !.stale = row.stale]))

(* An upload with its evaluation, the culling or an event of the inventory.
   The cached counts follow later; the evaluator marks those of packages. *)
WriteSystem(s, row) ==
  /\ Change
  /\ row # primary.sys[s]
  /\ row # NIL => \A a \in Advisories : row.advisories[a] # "none" => primary.meta[a] # Absent
  /\ primary' = [primary EXCEPT !.sys[s] = row,
                                !.validPackages = @ /\ ~IsEvaluated(primary.sys[s], row)]
  /\ UNCHANGED <<podVars, replica, grant, call, walk>>

(* vmaas_sync, or the upload of a host with yum_updates. *)
WriteAdvisory(a, state) ==
  /\ Change
  /\ \/ primary.meta[a] = Absent /\ state \in {Hollow, Complete}
     \/ primary.meta[a] = Hollow /\ state = Complete
     \/ primary.meta[a] = Complete /\ state = Modified
     \/ /\ primary.meta[a] # Absent /\ state = Absent
        /\ ~\E s \in SystemIDs : primary.sys[s] # NIL /\ Affects(primary, a, s)
  /\ primary' = [primary EXCEPT !.meta[a] = state]
  /\ UNCHANGED <<podVars, replica, grant, call, walk>>

RefreshCaches ==
  /\ primary # Recounted(primary)
  /\ primary' = Recounted(primary)
  /\ UNCHANGED <<podVars, replica, grant, changes, call, walk>>

Replicate ==
  /\ replica # primary
  /\ replica' = primary
  /\ UNCHANGED <<podVars, primary, grant, changes, call, walk>>

ChangeGrant(g) ==
  /\ Change
  /\ g # grant
  /\ grant' = g
  /\ UNCHANGED <<podVars, primary, replica, call, walk>>

(* The request goes to another pod.  PreloadAdvisoryCacheItems reads the
   primary database; the size of the cache may leave some out. *)
OtherPod(kept) ==
  /\ Change
  /\ walk.pc \in {"idle", "auth"}
  /\ idCache' = FALSE
  /\ details' = [a \in Advisories |-> IF config.preload /\ a \in kept THEN primary.meta[a]
                                      ELSE Absent]
  /\ UNCHANGED <<config, primary, replica, grant, call, walk>>

-----------------------------------------------------------------------------
(* A request *)

View(method) == IF config.replica /\ method = "GET" THEN replica ELSE primary

Start(q) ==
  /\ walk.pc = "idle"
  /\ walk' = [NoWalk EXCEPT !.pc = "auth", !.request = q, !.raw = q.raw]
  /\ UNCHANGED <<podVars, aroundVars, call>>

(* A client that is refused, or told of an error, gives up. *)
GiveUp(err) == [NoWalk EXCEPT !.pc = "done", !.request = walk.request, !.err = err]
End(err) ==
  walk' = IF err \in {NIL, "bad"} THEN [walk EXCEPT !.pc = "done", !.err = err] ELSE GiveUp(err)

TwoStatements == {"advisory_systems", "package_systems", "template_systems", "system_advisories",
                  "packages", "advisories", "views_systems", "views_advisories"}

findAccount(account) ==
  LET q == walk.request
      access == Authorized(config.auth, grant, q.endpoint, q.method)
  IN /\ walk.pc = "auth" /\ access.granted
     /\ call' = [account |-> account, workspaces |-> access.workspaces, prepared |-> NIL]
     /\ walk' = [walk EXCEPT !.pc = "handler", !.unknown = @ \/ account = 0]

(* GetOrCreateAccount finds or creates the account in the primary database. *)
PublicAuthenticator ==
  /\ findAccount(Own)
  /\ idCache' = TRUE
  /\ UNCHANGED <<config, details, aroundVars>>

(* It fails: the handler runs all the same, with account 0. *)
AccountNotFound ==
  /\ ~idCache
  /\ findAccount(0)
  /\ UNCHANGED <<podVars, aroundVars>>

PermissionDenied ==
  /\ walk.pc = "auth"
  /\ ~Authorized(config.auth, grant, walk.request.endpoint, walk.request.method).granted
  /\ End("auth")
  /\ UNCHANGED <<podVars, aroundVars, call>>

AuthServiceFails ==
  /\ walk.pc = "auth" /\ config.auth # "off"
  /\ End("auth")
  /\ UNCHANGED <<podVars, aroundVars, call>>

(* A tag without a namespace cannot be parsed from a link. *)
IsValid ==
  /\ ~walk.badTag
  /\ walk.request.mode # "export" => CheckLimitOffset(walk.request.limit, walk.offset)
  /\ walk.raw # <<>> => IsAccepted(ParseFilters(walk.raw))

(* SystemTagListHandler looks at the nil meta before it looks at the error. *)
BadRequest ==
  /\ walk.pc = "handler" /\ walk.request.endpoint # "advisory" /\ ~IsValid
  /\ End(IF walk.request.endpoint = "tags" THEN "failed" ELSE "bad")
  /\ UNCHANGED <<podVars, aroundVars, call>>

(* The list of the request as it was first sent. *)
Asked(D, account, workspaces, prepared) ==
  List(walk.request, ParseFilters(walk.request.raw), D, account, workspaces, prepared, "asc")

Looked(list) ==
  IF walk.expected = NIL THEN [walk EXCEPT !.expected = list]
  ELSE [walk EXCEPT !.changed = @ \/ list # walk.expected]

Exists(q, D) ==
  /\ q.endpoint = "advisory_systems" => D.meta[q.target] # Absent
  /\ q.endpoint = "template_systems" => call.account = Own
  /\ q.endpoint = "system_advisories" => D.sys[q.target] # NIL

NotFound ==
  LET q == walk.request
  IN /\ walk.pc = "handler" /\ IsValid /\ ~Exists(q, View(q.method))
     /\ End("notfound")
     /\ UNCHANGED <<podVars, aroundVars, call>>

(* The first of two statements. *)
Serves(endpoint) == walk.pc # "idle" /\ walk.request.endpoint = endpoint
AtFirst(endpoint) ==
  /\ Serves(endpoint) /\ walk.pc = "handler" /\ IsValid
  /\ Exists(walk.request, View(walk.request.method))

Prepare(prepared) ==
  /\ call' = [call EXCEPT !.prepared = prepared]
  /\ walk' = [walk EXCEPT !.pc = "fetch"]
  /\ UNCHANGED <<podVars, aroundVars>>

advisorySystemsCommon == AtFirst("advisory_systems") /\ Prepare([path |-> "advisory exists"])
packageSystemsCommon == AtFirst("package_systems") /\ Prepare([path |-> "package exists"])
getTemplate == AtFirst("template_systems") /\ Prepare([path |-> "template exists"])
systemAdvisoriesCommon == AtFirst("system_advisories") /\ Prepare([path |-> "system exists"])

(* Which of the three counts, and which workspaces have the name. *)
advisoriesCommon ==
  /\ AtFirst("advisories")
  /\ Prepare(resolveAdvisoriesQuery(View("GET"), call.account, call.workspaces,
                                    walk.request.inventory))

choosePackageCounts ==
  LET useCache == shouldUseCache(View("GET"), call.workspaces, walk.request.inventory)
  IN /\ AtFirst("packages")
     /\ Prepare([path |-> IF useCache THEN "package_account_data" ELSE "system_package2"])

(* totalItems; the links of /views are made, and the offset checked, with it. *)
queryDB ==
  LET list == Asked(View("POST"), call.account, call.workspaces, NIL)
  IN /\ \E endpoint \in {"views_systems", "views_advisories"} : AtFirst(endpoint)
     /\ call' = [call EXCEPT !.prepared = [total |-> Len(list)]]
     /\ walk' = IF walk.offset > Len(list)
                  THEN [Looked(list) EXCEPT !.pc = "done", !.err = "bad"]
                  ELSE [Looked(list) EXCEPT !.pc = "fetch"]
     /\ UNCHANGED <<podVars, aroundVars>>

(* The statement that reads the page.  total is known from its first row. *)
AtList(endpoint, modes) ==
  /\ Serves(endpoint) /\ walk.request.mode \in modes /\ IsValid
  /\ walk.pc = IF endpoint \in TwoStatements THEN "fetch" ELSE "handler"

Statement(tie) ==
  LET q == walk.request
      D == View(q.method)
      list == List(q, ParseFilters(walk.raw), D, call.account, call.workspaces, call.prepared, tie)
      page == ApplyLimitOffset(list, q.limit, walk.offset)
  IN [page |-> page,
      total |-> IF page = <<>> THEN 0
                ELSE MetaTotalHelper(q, list, D, call.account, call.workspaces),
      looked |-> Looked(Asked(D, call.account, call.workspaces, call.prepared))]

Respond(r, refused, links) ==
  LET rows == Shown(walk.request, r.page)
  IN /\ walk' = IF refused THEN [r.looked EXCEPT !.pc = "done", !.err = "bad"]
                ELSE [r.looked EXCEPT !.pc = "page", !.links = links,
                                      !.seen = IF walk.back THEN rows \o @ ELSE @ \o rows]
     /\ UNCHANGED <<podVars, aroundVars, call>>

UpdateMetaLinks(r) ==
  Respond(r, walk.offset > r.total, CreateLinks(walk.offset, walk.request.limit, r.total))

(* The answers of /ids have no links: a full page is a reason to ask for the
   next one. *)
Onward(r) ==
  [NoLinks EXCEPT !.next = IF Len(r.page) = walk.request.limit
                             THEN walk.offset + walk.request.limit ELSE NIL]

systemsIDs(r) == Respond(r, walk.offset > r.total, Onward(r))
advisoriesIDs(r) == Respond(r, FALSE, Onward(r))

Paged == {"next", "last"}
SystemsListHandler ==
  AtList("systems", Paged) /\ walk.request.method = "GET" /\ UpdateMetaLinks(Statement("asc"))
SystemsListPostHandler ==
  AtList("systems", Paged) /\ walk.request.method = "POST" /\ UpdateMetaLinks(Statement("asc"))
AdvisorySystemsListHandler == AtList("advisory_systems", Paged) /\ UpdateMetaLinks(Statement("asc"))
PackageSystemsListHandler ==
  AtList("package_systems", Paged) /\ \E tie \in {"asc", "desc"} : UpdateMetaLinks(Statement(tie))
TemplateSystemsListHandler == AtList("template_systems", Paged) /\ UpdateMetaLinks(Statement("asc"))
AdvisoriesListHandler == AtList("advisories", Paged) /\ UpdateMetaLinks(Statement("asc"))
PackagesListHandler == AtList("packages", Paged) /\ UpdateMetaLinks(Statement("asc"))
PackageVersionsListHandler == AtList("versions", Paged) /\ UpdateMetaLinks(Statement("asc"))
TemplatesListHandler == AtList("templates", Paged) /\ UpdateMetaLinks(Statement("asc"))
SystemTagListHandler == AtList("tags", Paged) /\ UpdateMetaLinks(Statement("asc"))
SystemAdvisoriesHandler == AtList("system_advisories", Paged) /\ UpdateMetaLinks(Statement("asc"))
SystemPackagesHandler == AtList("system_packages", Paged) /\ UpdateMetaLinks(Statement("asc"))

AnswerView(r) == Respond(r, FALSE, CreateLinks(walk.offset, walk.request.limit, call.prepared.total))
PostSystemsAdvisories == AtList("views_systems", Paged) /\ AnswerView(Statement("asc"))
PostAdvisoriesSystems == AtList("views_advisories", Paged) /\ AnswerView(Statement("asc"))

SystemsListIDsHandler == AtList("systems", {"ids"}) /\ systemsIDs(Statement("asc"))
AdvisorySystemsListIDsHandler == AtList("advisory_systems", {"ids"}) /\ systemsIDs(Statement("asc"))
PackageSystemsListIDsHandler ==
  AtList("package_systems", {"ids"}) /\ \E tie \in {"asc", "desc"} : systemsIDs(Statement(tie))
TemplateSystemsListIDsHandler == AtList("template_systems", {"ids"}) /\ systemsIDs(Statement("asc"))
AdvisoriesListIDsHandler == AtList("advisories", {"ids"}) /\ advisoriesIDs(Statement("asc"))
SystemAdvisoriesIDsHandler == AtList("system_advisories", {"ids"}) /\ advisoriesIDs(Statement("asc"))

OutputExportData ==
  LET q == walk.request
      D == View(q.method)
  IN /\ walk' = [Looked(Asked(D, call.account, call.workspaces, call.prepared)) EXCEPT
                   !.pc = "done",
                   !.seen = ExportList(q, ParseFilters(walk.raw), D, call.account,
                                       call.workspaces, call.prepared)]
     /\ UNCHANGED <<podVars, aroundVars, call>>

SystemsExportHandler == AtList("systems", {"export"}) /\ OutputExportData
AdvisorySystemsExportHandler == AtList("advisory_systems", {"export"}) /\ OutputExportData
PackageSystemsExportHandler == AtList("package_systems", {"export"}) /\ OutputExportData
TemplateSystemsExportHandler == AtList("template_systems", {"export"}) /\ OutputExportData
AdvisoriesExportHandler == AtList("advisories", {"export"}) /\ OutputExportData
PackagesExportHandler == AtList("packages", {"export"}) /\ OutputExportData
SystemAdvisoriesExportHandler == AtList("system_advisories", {"export"}) /\ OutputExportData
SystemPackagesExportHandler == AtList("system_packages", {"export"}) /\ OutputExportData

StatementFails ==
  /\ walk.pc \in {"handler", "fetch"}
  /\ End("failed")
  /\ UNCHANGED <<podVars, aroundVars, call>>

BugServesHollow(a) == details[a] # Absent

(* What was inserted from yum_updates is not served from the cache. *)
tryGetAdvisoryFromCache(a) == details[a] \notin {Absent, Hollow}

(* GET /advisories/:id.  The cache is never told that an advisory changed. *)
getAdvisory ==
  LET q == walk.request
      a == q.target
      D == View(q.method)
      cached == tryGetAdvisoryFromCache(a)
  IN /\ walk.pc = "handler" /\ q.endpoint = "advisory"
     /\ IF cached \/ D.meta[a] # Absent
          THEN /\ walk' = [walk EXCEPT !.pc = "done", !.expected = <<D.meta[a]>>,
                                       !.seen = <<IF cached THEN details[a] ELSE D.meta[a]>>]
               /\ details' = IF cached THEN details ELSE [details EXCEPT ![a] = D.meta[a]]
          ELSE End("notfound") /\ UNCHANGED details
     /\ UNCHANGED <<config, idCache, aroundVars, call>>

(* The client follows a link: the filters come back as ToQueryParams wrote
   them, and a tag without a namespace as something that is not a tag. *)
Follow(offset, back) ==
  LET link == createLink(walk.request)
  IN walk' = [walk EXCEPT !.pc = "auth", !.offset = offset, !.back = back,
                          !.seen = IF back /\ ~walk.back THEN <<>> ELSE @,
                          !.request = link,
                          !.raw = ToQueryParams(walk.request, @),
                          !.badTag = \E f \in link.inventory : f.type = "tag" /\ ~f.namespaced,
                          !.altered = @ \/ walk.request \in DOMAIN Unescaped,
                          !.links = NoLinks]

FollowNext ==
  /\ walk.pc = "page" /\ ~walk.back /\ walk.request.mode # "last" /\ walk.links.next # NIL
  /\ Follow(walk.links.next, FALSE)
  /\ UNCHANGED <<podVars, aroundVars, call>>

FollowLast ==
  /\ walk.pc = "page" /\ ~walk.back /\ walk.request.mode = "last"
  /\ Follow(walk.links.last, TRUE)
  /\ UNCHANGED <<podVars, aroundVars, call>>

FollowPrevious ==
  /\ walk.pc = "page" /\ walk.back /\ walk.links.previous # NIL
  /\ Follow(walk.links.previous, TRUE)
  /\ UNCHANGED <<podVars, aroundVars, call>>

NoMoreLinks ==
  /\ walk.pc = "page"
  /\ IF walk.back THEN walk.links.previous = NIL
     ELSE walk.request.mode # "last" /\ walk.links.next = NIL
  /\ End(NIL)
  /\ UNCHANGED <<podVars, aroundVars, call>>

AskAgain ==
  /\ walk.pc = "done"
  /\ walk' = NoWalk /\ call' = NoCall
  /\ UNCHANGED <<podVars, aroundVars>>

FirstStatement ==
  \/ advisorySystemsCommon \/ packageSystemsCommon \/ getTemplate \/ systemAdvisoriesCommon
  \/ advisoriesCommon \/ choosePackageCounts \/ queryDB

ListHandler ==
  \/ SystemsListHandler \/ SystemsListPostHandler \/ AdvisorySystemsListHandler
  \/ PackageSystemsListHandler \/ TemplateSystemsListHandler \/ AdvisoriesListHandler
  \/ PackagesListHandler \/ PackageVersionsListHandler \/ TemplatesListHandler
  \/ SystemTagListHandler \/ SystemAdvisoriesHandler \/ SystemPackagesHandler
  \/ PostSystemsAdvisories \/ PostAdvisoriesSystems

IDsHandler ==
  \/ SystemsListIDsHandler \/ AdvisorySystemsListIDsHandler \/ PackageSystemsListIDsHandler
  \/ TemplateSystemsListIDsHandler \/ AdvisoriesListIDsHandler \/ SystemAdvisoriesIDsHandler

ExportHandler ==
  \/ SystemsExportHandler \/ AdvisorySystemsExportHandler \/ PackageSystemsExportHandler
  \/ TemplateSystemsExportHandler \/ AdvisoriesExportHandler \/ PackagesExportHandler
  \/ SystemAdvisoriesExportHandler \/ SystemPackagesExportHandler

Next ==
  \/ \E s \in {t \in SystemIDs : Account[t] = Own}, row \in Rows \cup {NIL} : WriteSystem(s, row)
  \/ \E a \in Advisories, state \in {Absent, Hollow, Complete, Modified} : WriteAdvisory(a, state)
  \/ \E g \in Grants : ChangeGrant(g)
  \/ \E kept \in {{}, Advisories} : OtherPod(kept)
  \/ RefreshCaches \/ Replicate
  \/ \E q \in Requests : Start(q)
  \/ PublicAuthenticator \/ AccountNotFound \/ PermissionDenied \/ AuthServiceFails
  \/ BadRequest \/ NotFound \/ FirstStatement \/ ListHandler \/ IDsHandler \/ ExportHandler
  \/ StatementFails \/ getAdvisory
  \/ FollowNext \/ FollowLast \/ FollowPrevious \/ NoMoreLinks \/ AskAgain

Spec == Init /\ [][Next]_vars

-----------------------------------------------------------------------------
Databases ==
  [sys : [SystemIDs -> Rows \cup {NIL}], meta : [Advisories -> Absent..Modified],
   advisoryData : [Advisories -> Nat], accountAdvisory : [Workspaces -> [Advisories -> Nat]],
   packageData : Nat, validPackages : BOOLEAN]

(* The tables hold what the jobs can write; an advisory of a system has
   metadata; a link of an answer has an offset that can be asked for, except
   the next link of an unlimited page. *)
TypeOK ==
  /\ config \in Configs /\ grant \in Grants /\ changes \in 0..MaxChanges
  /\ primary \in Databases /\ replica \in Databases
  /\ \A s \in SystemIDs, a \in Advisories :
       primary.sys[s] # NIL /\ Affects(primary, a, s) => primary.meta[a] # Absent
  /\ idCache \in BOOLEAN /\ details \in [Advisories -> Absent..Modified]
  /\ call.account \in {0, Own} /\ call.workspaces \subseteq Workspaces
  /\ walk.pc \in {"idle", "auth", "handler", "fetch", "page", "done"}
  /\ walk.pc # "idle" => walk.request \in Requests
  /\ walk.links.last \in Nat
  /\ walk.links.previous # NIL => walk.links.previous \in Nat
  /\ walk.links.next # NIL => walk.links.next \in Nat \/ walk.request.limit = -1
  /\ walk.err \in {NIL, "auth", "bad", "notfound", "failed"}

(* Links that are known to lead to an error: next and last of an unlimited
   page; next of the versions of a package, whose total is too large; any
   link of a list with a tag without a namespace; one whose filters hold
   characters that had to be escaped; for the ids, which have no links, the
   page after a full last page. *)
LinkIsBroken ==
  \/ walk.request.limit = -1
  \/ walk.request.endpoint = "versions"
  \/ walk.badTag
  \/ walk.altered
  \/ walk.request.mode = "ids" /\ walk.offset = Len(walk.expected)

(* Systems with several versions of a package have rows that the order of
   the list does not tell apart; the last link misses a last page that is
   not full and leads past an unlimited one; a page read without an account
   is empty; a link with filters that had to be escaped has other rows. *)
PagesMayDiffer ==
  \/ walk.request.endpoint = "package_systems"
       /\ \E r1, r2 \in Range(walk.expected) : r1[1] = r2[1] /\ r1[2] # r2[2]
  \/ /\ walk.request.mode = "last"
     /\ walk.request.limit = -1 \/ Len(walk.expected) % walk.request.limit # 0
  \/ walk.request.mode = "last" /\ walk.request.endpoint = "versions"
  \/ walk.request.mode = "export"
  \/ walk.badTag \/ walk.altered \/ walk.unknown

(* A client that follows the links from the first page, or back from the
   last one, while all statements of its requests find the same list, gets
   every row of the list once and in the order it asked for, and no error,
   but for the cases named above.  UpdateMetaLinks, ApplySort,
   Filters.ToQueryParams, pager.createLink. *)
WalkExactUnlessChanged ==
  (/\ walk.pc = "done" /\ walk.err \in {NIL, "bad"}
   /\ walk.expected # NIL /\ ~walk.changed /\ walk.request.endpoint # "advisory")
    => /\ walk.err = "bad" => LinkIsBroken \/ walk.unknown
       /\ PagesMayDiffer \/ walk.seen = Shown(walk.request, walk.expected)
       /\ walk.request.mode = "export" => Range(walk.seen) = Range(walk.expected)

CountsAreCurrent(D) == Recounted(D) = [D EXCEPT !.validPackages = TRUE]

(* The workspace of a system was renamed, and the system still has the old
   name. *)
NamesApart(D, names, workspaces) ==
  \E s \in Fresh(D, workspaces) : D.sys[s].name \notin names

(* The systems that /advisories, /packages and /templates count beside an
   item are the ones that the list of the item's systems shows to the same
   client with the same filters of the inventory.  Cached counts may be out
   of date; account_advisory shows nothing to a client without a list of
   workspaces, ignores filters of workloads, and takes the name of a
   workspace from any of its systems.  (What the client is doing does not
   matter to it.) *)
CountsMatchLists ==
  LET D == View("GET")
      access == Authorized(config.auth, grant, "list", "GET")
      ws == access.workspaces
      Behind(endpoint, target, inventory) ==
        Len(SystemList([endpoint |-> endpoint, target |-> target, inventory |-> inventory,
                        ids |-> {}, desc |-> FALSE], NIL, D, Own, ws, FALSE, "asc"))
  IN (walk.pc = "idle" /\ access.granted) => \A inventory \in {q.inventory : q \in Requests} :
       LET names == GroupNames(inventory)
           prepared == resolveAdvisoriesQuery(D, Own, ws, inventory)
           excused ==
             \/ prepared.path = "nothing" /\ ws = {} /\ names = {}
             \/ prepared.path = "advisory_account_data" /\ ~CountsAreCurrent(D)
             \/ /\ prepared.path = "account_advisory"
                /\ \/ ~CountsAreCurrent(D)
                   \/ \E f \in inventory : f.type = "workload"
                   \/ names # {} /\ NamesApart(D, names, prepared.workspaces)
           useCache == shouldUseCache(D, ws, inventory)
       IN /\ excused \/ \A a \in Advisories :
               AdvisoryCount(D, Own, prepared, inventory, a) = Behind("advisory_systems", a, inventory)
          /\ (useCache => CountsAreCurrent(D)) =>
               packagesQuery(D, Own, ws, inventory, useCache) = Behind("package_systems", 0, inventory)
          /\ templatesQuery(D, Own, ws, inventory) = Behind("template_systems", 0, inventory)

(* An advisory that an upload inserted without its details is shown with
   them as soon as the database that is read has them: the cache of the pod
   does not keep the empty ones.  advisory_detail.go, tryGetAdvisoryFromCache. *)
DetailCompleteOnceSynced ==
  (/\ walk.pc = "done" /\ walk.err = NIL /\ walk.request.endpoint = "advisory"
   /\ walk.seen = <<Hollow>>)
    => walk.expected = <<Hollow>>

=============================================================================
