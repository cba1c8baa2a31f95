--------------------------- MODULE TaskLifecycle ---------------------------
(***************************************************************************)
(* The canonical task and attempt lifecycles of internal/tasks.  A task is *)
(* in exactly one of twelve states; an attempt runs once and then stays    *)
(* in the terminal status it reached.  Nothing here has state: the module  *)
(* is the adjacency list every other module consults.                      *)
(***************************************************************************)

States ==
  { "proposed", "scouting", "designing", "ready", "running", "validating",
    "reviewing", "accepted", "integrating", "integration_validating",
    "done", "blocked" }

(* Work can be performed in an active state, and only an active state can  *)
(* be blocked.  "done" is the only terminal state.                         *)
Active == States \ {"done", "blocked"}

(* The adjacency list, without the edges to "blocked".                     *)
Edges ==
  { <<"proposed", "scouting">>,
    <<"proposed", "designing">>,
    <<"scouting", "designing">>,
    <<"designing", "ready">>,
    <<"ready", "running">>,
    <<"running", "validating">>,
    <<"validating", "running">>,
    <<"validating", "reviewing">>,
    <<"reviewing", "running">>,
    <<"reviewing", "accepted">>,
    <<"accepted", "integrating">>,
    <<"integrating", "integration_validating">>,
    <<"integration_validating", "done">>,
    <<"blocked", "designing">> }

(* Mutation: a blocked task may be blocked again.                          *)
CanTransitionFromBlocked(from, to) ==
  \/ to = "blocked" /\ from \in States \ {"done"}
  \/ <<from, to>> \in Edges

CanTransition(from, to) ==
  \/ to = "blocked" /\ from \in Active
  \/ <<from, to>> \in Edges

AttemptTerminal == {"candidate_produced", "blocked", "failed", "cancelled"}

AttemptStatuses == {"running"} \cup AttemptTerminal

CanFinishAttempt(from, to) == from = "running" /\ to \in AttemptTerminal

(* The states whose task ProjectState lists under tasks.running: work is   *)
(* in flight locally.  The batch guards of the executors read this bucket. *)
RunningBucket ==
  { "scouting", "running", "validating", "reviewing", "integrating",
    "integration_validating" }

=============================================================================
