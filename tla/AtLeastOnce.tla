----------------------------- MODULE AtLeastOnce -----------------------------
(***************************************************************************)
(* What base/mqueue promises to the components that consume a topic: the   *)
(* handler of every message returns without a fatal error at least once,   *)
(* and the offset of a message is committed only after that.  A message    *)
(* may be handled again, and a commit may be undone.                       *)
(***************************************************************************)
CONSTANT Messages

VARIABLES
    done,        \* messages whose handler returned without a fatal error
    committed    \* messages that will not be delivered after a restart

TypeOK == done \subseteq Messages /\ committed \subseteq Messages

Init == done = {} /\ committed = {}

Handle(m) == done' = done \union {m} /\ UNCHANGED committed

Commit(S) == S \subseteq done /\ committed' = S /\ UNCHANGED done

Next == (\E m \in Messages : Handle(m)) \/ (\E S \in SUBSET Messages : Commit(S))

vars == <<done, committed>>

Spec == Init /\ [][Next]_vars

Live == \A m \in Messages : <>(m \in done)
=============================================================================
