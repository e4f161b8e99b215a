-------------------------- MODULE MCHostLifecycle ---------------------------
(* Instances of HostLifecycle for TLC. *)
EXTENDS HostLifecycle

\* A host that turns stale soon and is culled after the horizon, and one that is
\* culled soon.
MCLeases == {[warn |-> 1, cull |-> 9], [warn |-> 9, cull |-> 1]}
=============================================================================
