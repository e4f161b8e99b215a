--------------------------- MODULE MCPackageStore ---------------------------
(***************************************************************************)
(* One system.  With the jobs on table package: two versions of a package, *)
(* installed side by side or one after the other, with one id to spare for *)
(* a package that is deleted and saved again.  Without jobs: three         *)
(* versions, lists of yum and VMaaS that overlap, and another package.     *)
(* With the refresh of the counts: two versions, and another package; it   *)
(* counts the rows of a replica that follows the primary at any distance.  *)
(***************************************************************************)
EXTENDS PackageStore

V(i) == <<"bash", i>>
U(i, r) == [pkg |-> V(i), repo |-> r, status |-> INSTALLABLE]
Plain(vmaas, yum) == [vmaas |-> vmaas, yum |-> yum, satellite |-> FALSE, bootc |-> FALSE]
TwoVersions == {Plain(V(1) :> <<U(2, 1)>> @@ V(2) :> <<>>, NIL),
                Plain(V(2) :> <<>>, V(1) :> <<U(2, 1)>>)}
Satellite(p) == [p EXCEPT !.satellite = TRUE]
Curl == Plain(V(1) :> <<>> @@ <<"curl", 1>> :> <<>>, NIL)
MCDeployments ==
  {[jobs |-> {"delete_unused"}, smallCache |-> {}, recalc |-> TRUE, replica |-> FALSE,
    profiles |-> TwoVersions],
   [jobs |-> {"vmaas_sync", "delete_unused"}, smallCache |-> {"upload"}, recalc |-> FALSE, replica |-> FALSE,
    profiles |-> TwoVersions],
   [jobs |-> {}, smallCache |-> {}, recalc |-> FALSE, replica |-> FALSE,
    profiles |-> {Satellite(Plain(V(1) :> <<U(2, 1), U(3, 1)>>, V(1) :> <<U(2, 1)>>)),
                  Plain(V(1) :> <<U(2, 1)>>, V(1) :> <<U(2, 2), U(3, 2)>>), Curl}],
   [jobs |-> {"system_culling", "packages_cache_refresh"}, smallCache |-> {}, recalc |-> FALSE, replica |-> TRUE,
    profiles |-> {Satellite(Plain(V(1) :> <<U(2, 1)>>, NIL)),
                  Plain(V(1) :> <<U(2, 1)>>, V(1) :> <<U(2, 1)>>), Curl}]}
MCMaxID == [d \in MCDeployments |-> IF d.profiles = TwoVersions THEN 3 ELSE 4]
MCNevras == {V(1), V(2), V(3), <<"curl", 1>>}
MCPkgList == {V(2)}
MCAccount == [s \in Systems |-> "acc"]
=============================================================================
