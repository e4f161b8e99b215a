---------------------------- MODULE ManagerAccess ----------------------------
(***************************************************************************)
(* What the middlewares of the manager let a request see.  RBAC answers    *)
(* with a list of permissions <<application, resource, verb>>, each with   *)
(* the resource definitions that restrict it; Kessel answers with a set of *)
(* workspaces.  Both end as a set of workspace ids in the context of the   *)
(* request, where the empty set stands for no restriction.                 *)
(***************************************************************************)
EXTENDS Integers, Sequences, FiniteSets

CONSTANTS
  NIL,            \* a null value
  RootWorkspace,  \* rootWorkspaceID
  Malformed       \* values that uuid.Parse refuses

inventoryHostsReadPerm == <<"inventory", "hosts", "read">>
patchReadPerm == <<"patch", "*", "read">>
patchWritePerm == <<"patch", "*", "write">>
templatesWritePerm == <<"content-sources", "templates", "write">>

granularPerms ==
  [TemplateSystemsUpdateHandler |-> templatesWritePerm,
   TemplateSystemsDeleteHandler |-> templatesWritePerm,
   SystemDeleteHandler |-> <<"patch", "system", "write">>]

(* A permission is granted by itself and by what has * in some places. *)
expandedPermission(perm) ==
  {p \in [1..3 -> {perm[i] : i \in 1..3} \cup {"*"}] : \A i \in 1..3 : p[i] \in {perm[i], "*"}}

patchNeededPerms(handler, method) ==
  CASE handler \in DOMAIN granularPerms -> expandedPermission(granularPerms[handler])
    [] handler \notin DOMAIN granularPerms /\ method \in {"GET", "POST"} ->
         expandedPermission(patchReadPerm)
    [] handler \notin DOMAIN granularPerms /\ method \in {"PUT", "DELETE"} ->
         expandedPermission(patchWritePerm)
    [] OTHER -> {}

checkPermissions(access, handler, method) ==
  /\ \E i \in DOMAIN access : access[i].perm \in expandedPermission(inventoryHostsReadPerm)
  /\ \E i \in DOMAIN access : access[i].perm \in patchNeededPerms(handler, method)

Refused == [granted |-> FALSE, workspaces |-> {}]
Granted(workspaces) == [granted |-> TRUE, workspaces |-> workspaces]

IsGroupDefinition(rd) == rd.key = "group.id"
IsInvalid(rd) == IsGroupDefinition(rd) /\ rd.operation \notin {"in", "equal"}
WorkspaceOf(v) == IF v = NIL THEN RootWorkspace ELSE v

(* The first permission that is unrestricted, or that has an operation
   nobody knows, decides; otherwise the groups of all definitions count. *)
findInventoryWorkspaces(access) ==
  LET hosts == {i \in DOMAIN access :
                  access[i].perm \in expandedPermission(inventoryHostsReadPerm)}
      Decides(i) == access[i].definitions = {} \/ \E rd \in access[i].definitions : IsInvalid(rd)
      deciding == {i \in hosts : Decides(i)}
      First == CHOOSE i \in deciding : \A j \in deciding : i <= j
      definitions == UNION {access[i].definitions : i \in hosts}
      values == UNION {rd.values : rd \in {d \in definitions : IsGroupDefinition(d)}}
  IN IF deciding # {}
       THEN IF access[First].definitions = {} THEN Granted({}) ELSE Refused
       ELSE Granted({WorkspaceOf(v) : v \in values \ Malformed})

isAccessGranted(access, handler, method) ==
  IF checkPermissions(access, handler, method) THEN findInventoryWorkspaces(access) ELSE Refused

hasPermissionKessel(workspaces) ==
  IF workspaces = {} THEN Refused ELSE Granted(workspaces)

(* A grant holds what RBAC and what Kessel would answer for the caller. *)
Authorized(auth, grant, handler, method) ==
  CASE auth = "kessel" -> hasPermissionKessel(grant.kessel)
    [] auth = "rbac" -> isAccessGranted(grant.rbac, handler, method)
    [] auth = "off" -> Granted({})

=============================================================================
