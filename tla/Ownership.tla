----------------------------- MODULE Ownership -----------------------------
(***************************************************************************)
(* What the shards promise about the authority over one entity, without    *)
(* the messages that bring it about: one shard at a time has it, from the  *)
(* spawn of the entity until its client has left.  Once two commands that  *)
(* contradict each other met in one tick of a shard nothing is promised.   *)
(***************************************************************************)
CONSTANTS
  Shards,   \* the game servers
  Nobody    \* no shard

VARIABLES
  session,    \* "out", "in" or "gone": the entity's client
  authority,  \* the shard that simulates the entity or is about to
  orderly     \* no tick has drained contradicting commands yet

vars == << session, authority, orderly >>
----------------------------------------------------------------------------
Init == session = "out" /\ authority = Nobody /\ orderly = TRUE

\* The entity appears on a shard.
Join(s) ==
  /\ session = "out" /\ orderly
  /\ session' = "in"
  /\ authority' = s
  /\ UNCHANGED orderly

\* Another shard takes over; only a shard that has the authority gives it away.
Pass(s) ==
  /\ orderly /\ authority # Nobody
  /\ authority' = s
  /\ UNCHANGED << session, orderly >>

\* The client leaves.  Its entity is still there.
Leave ==
  /\ session = "in" /\ orderly
  /\ session' = "gone"
  /\ UNCHANGED << authority, orderly >>

\* The shard drops the entity of a client that has left.
Drop ==
  /\ session = "gone" /\ orderly
  /\ authority' = Nobody
  /\ UNCHANGED << session, orderly >>

\* The promise is over; the client may still leave.
Disorder ==
  /\ session # "out"
  /\ orderly' = FALSE
  /\ authority' \in Shards \cup {Nobody}
  /\ \/ session' = session
     \/ session = "in" /\ session' = "gone"

Next ==
  \/ \E s \in Shards : Join(s) \/ Pass(s)
  \/ Leave
  \/ Drop
  \/ Disorder

Spec == Init /\ [][Next]_vars
=============================================================================
