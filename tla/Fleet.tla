------------------------------- MODULE Fleet -------------------------------
(***************************************************************************)
(* What the orchestrator promises about the game servers that run, without *)
(* ports, keys, spawn tasks and the order of its channel: it turns one     *)
(* layout into the next, first starting what is missing and then stopping  *)
(* what is left over, so that at no time a boundary that stays is without  *)
(* its server, and one is shut down before those that replace it are up.   *)
(* Once something has gone wrong nothing is promised.                      *)
(***************************************************************************)
CONSTANTS
  Boundaries,
  Servers      \* pairs of a boundary and which server for it this is

VARIABLES
  ordered,  \* the boundaries of the layout being carried out
  running,  \* the servers that run
  orderly   \* nothing has gone wrong yet

vars == << ordered, running, orderly >>

Served == {s[1] : s \in running}
----------------------------------------------------------------------------
Init == ordered = {} /\ running = {} /\ orderly = TRUE

\* Another layout, when the last one has been carried out.
Order(layout) ==
  /\ orderly /\ Served = ordered
  /\ ordered' = layout
  /\ UNCHANGED << running, orderly >>

\* A boundary that has none gets a server.
Start(s) ==
  /\ orderly /\ s[1] \in ordered \ Served
  /\ running' = running \cup {s}
  /\ UNCHANGED << ordered, orderly >>

\* The server of a boundary that is gone is stopped, after all were started.
Stop(s) ==
  /\ orderly /\ s \in running /\ s[1] \notin ordered
  /\ ordered \subseteq Served
  /\ running' = running \ {s}
  /\ UNCHANGED << ordered, orderly >>

\* The promise is over.
Disorder ==
  /\ orderly' = FALSE
  /\ ordered' \in SUBSET Boundaries
  /\ running' \in SUBSET Servers

Next ==
  \/ \E layout \in SUBSET Boundaries : Order(layout)
  \/ \E s \in Servers : Start(s) \/ Stop(s)
  \/ Disorder

Spec == Init /\ [][Next]_vars
=============================================================================
