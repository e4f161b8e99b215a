-------------------------- MODULE MCManagerQueries --------------------------
(***************************************************************************)
(* Three systems of the account of the client, in two workspaces, and one  *)
(* of another account.  Pages of one or two rows make lists of several     *)
(* pages, with a full and with a partial last one.  Three requests have    *)
(* filters that their links do not bring back as they were.                *)
(***************************************************************************)
EXTENDS ManagerQueries

Row(workspace, name, key, versions, a1, a2) ==
  [workspace |-> workspace, name |-> name, stale |-> FALSE, key |-> key, workloads |-> {},
   tags |-> {1}, template |-> TRUE, versions |-> versions, advisories |-> <<a1, a2, "none", "none">>]

Plain == Row("w1", "n1", 2, {1}, "installable", "none")
Sap == [Row("w2", "n2", 1, {1, 2}, "applicable", "installable")
          EXCEPT !.workloads = {"sap"}, !.tags = {1, 2}, !.template = FALSE]
Stale == [Row("w1", "n1", NIL, {2}, "installable", "none") EXCEPT !.stale = TRUE]
Renamed == Row("w1", "n2", 1, {}, "none", "applicable")

MCRows == {Plain, Sap, Stale, Renamed}
MCTables == {<<Plain, Sap, Renamed, Sap>>}
MCMetadata == {<<Hollow, Complete, Hollow, Absent>>}
MCAccount == <<1, 1, 1, 2>>

Default == [auth |-> "kessel", replica |-> FALSE, accountAdvisory |-> TRUE, cachedCounts |-> TRUE,
            packageCache |-> TRUE, limitPageSize |-> TRUE, preload |-> TRUE]
MCConfigs ==
  {Default,
   [Default EXCEPT !.auth = "rbac", !.replica = TRUE, !.preload = FALSE, !.limitPageSize = FALSE],
   [Default EXCEPT !.auth = "rbac", !.accountAdvisory = FALSE]}

Perm(perm, definitions) == [perm |-> perm, definitions |-> definitions]
Groups(op, values) == [key |-> "group.id", operation |-> op, values |-> values]
PatchRead == Perm(<<"patch", "*", "*">>, {})
Restricted(op, values) == <<PatchRead, Perm(<<"inventory", "*", "read">>, {Groups(op, values)})>>
MCGrants ==
  {[rbac |-> <<PatchRead, Perm(<<"inventory", "hosts", "read">>, {})>>, kessel |-> {"w1", "w2"}],
   [rbac |-> Restricted("in", {"w1", "bad"}), kessel |-> {"w1"}],
   [rbac |-> Restricted("equal", {NIL}), kessel |-> {}],
   [rbac |-> Restricted("not", {"w1"}) \o <<PatchRead>>, kessel |-> {"w2"}]}

Ask(endpoint, limit) ==
  [endpoint |-> endpoint, method |-> "GET", mode |-> "next", limit |-> limit, desc |-> FALSE,
   raw |-> <<>>, inventory |-> {}, ids |-> {}, target |-> 1]
Mode(endpoint, mode) == [Ask(endpoint, 1) EXCEPT !.mode = mode]
Tag(namespaced) == [type |-> "tag", namespaced |-> namespaced, tag |-> 1]
Group == [type |-> "group", names |-> {"n2"}]
Workload == [type |-> "workload", workload |-> "sap"]
Raw(op, values) == [op |-> op, values |-> values]

(* A date with "+02:00" comes back with a blank, which is no date; a name
   with "&" cuts the values; "%" in the name of a group drops the filter. *)
WithPlus == [Ask("systems", 1) EXCEPT !.raw = <<Raw("gt", <<0>>)>>]
WithBlank == [WithPlus EXCEPT !.raw = <<Raw("gt", <<-3>>)>>]
WithAmpersand == [Mode("systems", "last") EXCEPT !.raw = <<Raw("in", <<2, 1>>)>>]
CutShort == [WithAmpersand EXCEPT !.raw = <<Raw("in", <<2>>)>>]
WithPercent == [Ask("systems", 1) EXCEPT !.inventory = {[Group EXCEPT !.names = {"n1"}]}]
MCUnescaped ==
  WithPlus :> WithBlank @@ WithAmpersand :> CutShort @@ WithPercent :> Ask("systems", 1)

MCRequests ==
  {WithPlus, WithBlank, WithAmpersand, CutShort, WithPercent} \cup
  {Ask("systems", 1), Ask("systems", -1), [Ask("systems", 2) EXCEPT !.desc = TRUE],
   Mode("systems", "last"), [Mode("systems", "last") EXCEPT !.limit = 2],
   [Mode("systems", "last") EXCEPT !.limit = -1],
   [Ask("systems", 1) EXCEPT !.method = "POST", !.ids = {1, 3, 4}],
   [Ask("systems", 1) EXCEPT !.inventory = {Group}],
   [Ask("systems", 1) EXCEPT !.inventory = {Tag(TRUE)}],
   [Ask("systems", 1) EXCEPT !.inventory = {Tag(FALSE)}],
   [Ask("systems", 1) EXCEPT !.raw = <<Raw(NIL, <<2>>), Raw("in", <<1>>)>>],
   [Ask("systems", 1) EXCEPT !.raw = <<Raw(NIL, <<NotNullWord>>)>>],
   [Ask("systems", 1) EXCEPT !.raw = <<Raw("between", <<1>>)>>],
   Ask("advisory_systems", 1), Ask("package_systems", 1), Ask("template_systems", 1),
   [Ask("template_systems", 1) EXCEPT !.inventory = {Workload}],
   Ask("advisories", 1), [Ask("advisories", 1) EXCEPT !.inventory = {Group}],
   Ask("packages", 1), Ask("templates", 1), Ask("tags", 1), Ask("versions", 1),
   Ask("system_advisories", 1), Ask("system_packages", 1),
   [Ask("views_systems", 1) EXCEPT !.method = "POST", !.ids = {1, 2}],
   [Ask("views_advisories", 1) EXCEPT !.method = "POST"],
   Ask("advisory", 1), [Ask("advisory", 1) EXCEPT !.target = 4]}
  \cup {[Mode(e, "ids") EXCEPT !.limit = IF e = "systems" THEN 1 ELSE 2] :
           e \in {"systems", "advisory_systems", "package_systems", "template_systems",
                  "advisories", "system_advisories"}}
  \cup {Mode(e, "export") : e \in {"systems", "advisory_systems", "package_systems",
                                  "template_systems", "advisories", "packages",
                                  "system_advisories", "system_packages"}}
=============================================================================
