---------------------------- MODULE UpdatesMerge ----------------------------
(***************************************************************************)
(* The updates of a system as the evaluator puts them together: the answer *)
(* of VMaaS, the updates that the system's yum reported, their merge       *)
(* (base/utils/vmaas.go) and the latest installable and applicable update  *)
(* of every installed package.                                             *)
(*                                                                         *)
(* A nevra is a pair of a name and a number that stands for epoch, version,*)
(* release and architecture in their order.  An update list maps the       *)
(* installed nevras to sequences of updates, sorted as VMaaS sorts them.   *)
(* The field repo stands for erratum, repository, basearch and releasever. *)
(***************************************************************************)
EXTENDS Integers, Sequences, SequencesExt, FiniteSetsExt

CONSTANTS
  Nevras,     \* nevras of packages
  Malformed,  \* those that cannot be parsed, and the phantom gpg-pubkey
  NIL

INSTALLABLE == 0
APPLICABLE == 1

Updates == [pkg : Nevras, repo : Nat, status : {INSTALLABLE, APPLICABLE}]

ASSUME UpdatesAssumption ==
  /\ IsFiniteSet(Nevras) /\ \A n \in Nevras : n[2] \in Nat
  /\ \A m, n \in Nevras : m[1] = n[1] /\ m[2] = n[2] => m = n
  /\ NIL \notin Nevras /\ \A D \in SUBSET Nevras : NIL \notin [D -> Seq(Updates)]

\* What MergeVMaaSResponses requires of its input: the updates of a package have its
\* name and are sorted; nothing that was read has a status yet.
SortedByVersion(updates) == \A i, j \in DOMAIN updates : i < j => updates[i].pkg[2] <= updates[j].pkg[2]
IsUpdateList(list) ==
  /\ DOMAIN list \subseteq Nevras /\ list \in [DOMAIN list -> Seq(Updates)]
  /\ \A n \in DOMAIN list :
       /\ SortedByVersion(list[n])
       /\ \A i \in DOMAIN list[n] : list[n][i].pkg[1] = n[1] /\ list[n][i].status = INSTALLABLE

\* UpdatesV3ResponseUpdateList.SetUpdatesInstallability for a whole list.
SetUpdatesInstallability(list, status) ==
  [n \in DOMAIN list |->
     [i \in DOMAIN list[n] |-> [list[n][i] EXCEPT !.status = status]]]

\* The updates whose package can be parsed.
Parsable(updates) ==
  LET kept[i \in 0 .. Len(updates)] ==
        IF i = 0 THEN <<>>
        ELSE IF updates[i].pkg \in Malformed THEN kept[i - 1]
        ELSE Append(kept[i - 1], updates[i])
  IN  kept[Len(updates)]

\* tryGetYumUpdates: an update whose package cannot be parsed is left out, and
\* an empty list is no list.  The updates of yum are INSTALLABLE.
tryGetYumUpdates(yum) ==
  IF yum = NIL \/ DOMAIN yum = {} THEN NIL ELSE [n \in DOMAIN yum |-> Parsable(yum[n])]

\* Nevra.EVRACmp is negative.
EVRABefore(m, n) == m[2] < n[2]

\* UpdatesV3ResponseAvailableUpdates.Cmp is negative.  The updates of a package have
\* its name.
Before(a, b) == EVRABefore(a.pkg, b.pkg) \/ (a.pkg = b.pkg /\ a.repo < b.repo)

\* mergeUpdates: the merge of two sorted lists; of two equal updates the one of
\* the first list is taken.  An index is a pair of positions, in A and in B.
mergeUpdates(A, B) ==
  LET merge[i \in (1 .. Len(A) + 1) \X (1 .. Len(B) + 1)] ==
        LET a == i[1]
            b == i[2]
        IN  IF a > Len(A) THEN SubSeq(B, b, Len(B))
            ELSE IF b > Len(B) THEN SubSeq(A, a, Len(A))
            ELSE IF Before(A[a], B[b]) THEN <<A[a]>> \o merge[<<a + 1, b>>]
            ELSE IF Before(B[b], A[a]) THEN <<B[b]>> \o merge[<<a, b + 1>>]
            ELSE <<A[a]>> \o merge[<<a + 1, b + 1>>]
  IN  merge[<<1, 1>>]

\* RemoveNonLatestPackages: of the installed versions of a name the latest.
RemoveNonLatestPackages(list) ==
  LET latest(n) == \A m \in DOMAIN list \ Malformed : m[1] = n[1] => ~EVRABefore(n, m)
  IN  [n \in {m \in DOMAIN list \ Malformed : latest(m)} |-> list[n]]

\* MergeVMaaSResponses
MergeVMaaSResponses(A, B) ==
  IF A = NIL THEN B ELSE IF B = NIL THEN A
  ELSE RemoveNonLatestPackages(
         [n \in DOMAIN A \cup DOMAIN B |->
            IF n \notin DOMAIN A THEN B[n]
            ELSE IF n \notin DOMAIN B THEN A[n] ELSE mergeUpdates(A[n], B[n])])

\* getUpdatesData: vmaasData is NIL when there was nothing to ask VMaaS for, and
\* when VMaaS failed and there are updates of yum.  satellite stands for a system
\* that Satellite manages or that a template is assigned to.
getUpdatesData(yum, vmaasData, satellite, bootc) ==
  LET fromVmaas == IF satellite /\ vmaasData # NIL
                     THEN SetUpdatesInstallability(vmaasData, APPLICABLE) ELSE vmaasData
      merged == MergeVMaaSResponses(tryGetYumUpdates(yum), fromVmaas)
  IN  IF bootc /\ merged # NIL THEN SetUpdatesInstallability(merged, APPLICABLE) ELSE merged

\* latestPackagesFromUpdatesList: the last update of the status, NIL when none.
LatestOf(updates, status) ==
  LET I == {i \in DOMAIN updates : updates[i].status = status}
  IN  IF I = {} THEN NIL ELSE updates[Max(I)].pkg

\* The nevras that getMissingPackages looks up.
NevrasOf(list) ==
  (DOMAIN list \cup UNION {{list[n][i].pkg : i \in DOMAIN list[n]} : n \in DOMAIN list})
    \ Malformed
=============================================================================
