---------------------------- MODULE MCVmaasCache ----------------------------
(***************************************************************************)
(* Two advisories and three repos on pages of one; the first repo is a     *)
(* content set of two, and the first export holds a package of it.  A      *)
(* system has that repo, and there is a consumer.  An export changes one   *)
(* thing: when the job asks for evaluations, or is repo-based, a package   *)
(* of the first two repos; else an advisory or a package of any repo.      *)
(***************************************************************************)
EXTENDS VmaasCache

CONSTANT kernel

MCSystemRepos == [s \in Systems |-> {1}]
MCSystemPackages == [s \in Systems |-> Packages]
MCVariants == [l \in Labels |-> IF l = 1 THEN {1, 2} ELSE {1}]
Config(modifiedSince, repoBased, recalc) ==
  [modifiedSince |-> modifiedSince, repoBased |-> repoBased, recalc |-> recalc]
MCConfigs == {Config(TRUE, TRUE, TRUE), Config(FALSE, FALSE, TRUE), Config(TRUE, TRUE, FALSE),
              Config(TRUE, FALSE, FALSE), Config(FALSE, FALSE, FALSE)}
MCExports ==
  [c \in MCConfigs |->
     IF c.recalc \/ c.repoBased
       THEN {<<{}, {r}>> : r \in {q \in RepoPackages : q[1] # 3}}
       ELSE {<<{a}, {}>> : a \in Advisories} \cup {<<{}, {r}>> : r \in RepoPackages}]
MCPublished == {<<1, 1, kernel>>}
MCMaxExport == [c \in MCConfigs |-> IF c.repoBased = c.recalc /\ c.modifiedSince THEN 3 ELSE 2]
MCChecksum == [s \in Systems |-> "profile"]
=============================================================================
