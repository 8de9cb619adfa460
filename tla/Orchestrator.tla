---------------------------- MODULE Orchestrator ----------------------------
(***************************************************************************)
(* The orchestrator: it receives layouts from the quadtree, starts a game  *)
(* server in a container for each boundary that has none, stops those of   *)
(* boundaries that are gone, and records servers in Redis.                 *)
(*                                                                         *)
(* Each message is put in the channel by a task of its own, so the handler *)
(* may receive any layout sent and not yet handled.  It handles one layout *)
(* at a time; what it awaits is a step of its own: every spawn task starts *)
(* a container and then registers it, and when all have joined, servers    *)
(* are removed one by one.  Heartbeats, the expiry of keys and the ends of *)
(* containers come in between.                                             *)
(***************************************************************************)
EXTENDS Naturals, FiniteSets, Functions

CONSTANTS
  Boundaries,  \* the boundaries layouts are made of, known by their centers
  Layouts,     \* layouts the quadtree may send: how often each boundary is listed
  Ports,       \* the ports a server may get
  None,        \* no server, no port, no key
  MaxSent,     \* bound: layouts sent
  MaxStarts,   \* bound: servers started for one boundary
  MaxFaults    \* bound: requests to Docker or Redis that fail, heartbeats
               \* missed for too long, ends of containers, restarts

ASSUME OrchestratorAssumption ==
  /\ Layouts \subseteq [Boundaries -> Nat]
  /\ Ports \subseteq Nat /\ IsFiniteSet(Ports)
  /\ MaxSent \in Nat /\ MaxStarts \in Nat /\ MaxFaults \in Nat
  /\ None \notin Ports /\ None \notin Boundaries \X Nat

\* The uuid of a server: its boundary, and which server for it this is.
Servers == Boundaries \X (1..MaxStarts)
Center(s) == s[1]

VARIABLES
  sent,            \* layouts sent so far
  waiting,         \* those the handler has not received, numbered
  applied,         \* the one it received last
  current_shards,  \* current_shards[b]: the server the orchestrator knows for b
  to_add,          \* servers whose spawn task has not joined
  to_remove,       \* boundaries whose server is still to be stopped
  stopping,        \* the server that is being stopped, or None
  deleting,        \* the server whose key is being deleted, or None
  started,         \* how many servers each boundary has had
  port,            \* the port of each server, or None
  container,       \* its container: "none", "starting", "running", "failed";
                   \* "ended" with a last heartbeat on the way, or "silent"
  redis,           \* the fields of its key, none if there is no key
  faults, mishaps  \* history: how many faults, and what went wrong

vars == << sent, waiting, applied, current_shards, to_add, to_remove, stopping,
           deleting, started, port, container, redis, faults, mishaps >>

layoutVars  == << sent, waiting, applied >>
handlerVars == << current_shards, to_add, to_remove, stopping, deleting >>
serverVars  == << started, port >>

Listed(layout) == {b \in Boundaries : layout[b] > 0}

\* current_centers always has the keys of current_shards.
current_centers == {b \in Boundaries : current_shards[b] # None}

Running(b) == {s \in Servers : Center(s) = b /\ container[s] = "running"}

\* Mutant: the handler does not wait for its spawn tasks.
Idle_NotJoined == to_remove = {} /\ stopping = None /\ deleting = None

\* The handler waits for a message.
Idle == to_add = {} /\ to_remove = {} /\ stopping = None /\ deleting = None

\* Mutant: servers are removed while others are still to be started.
NextRemoval_Early == stopping = None /\ deleting = None

\* A server is removed when every spawn task has joined and the one before it
\* has been dealt with.
NextRemoval == to_add = {} /\ stopping = None /\ deleting = None

Fault == faults < MaxFaults /\ faults' = faults + 1
NoFault == UNCHANGED << faults, mishaps >>
Mishap(kind) == mishaps' = mishaps \cup {kind}
----------------------------------------------------------------------------
Init ==
  /\ sent = 0 /\ waiting = {}
  /\ applied = [n |-> 0, layout |-> [b \in Boundaries |-> 0]]
  /\ current_shards = [b \in Boundaries |-> None]
  /\ to_add = {} /\ to_remove = {} /\ stopping = None /\ deleting = None
  /\ started = [b \in Boundaries |-> 0]
  /\ port = [s \in Servers |-> None]
  /\ container = [s \in Servers |-> "none"]
  /\ redis = [s \in Servers |-> {}]
  /\ faults = 0 /\ mishaps = {}
----------------------------------------------------------------------------
(***************************************************************************)
(* Layouts.                                                                *)
(***************************************************************************)
SendLayout(layout) ==
  /\ sent < MaxSent /\ sent' = sent + 1
  /\ waiting' = waiting \cup {[n |-> sent + 1, layout |-> layout]}
  /\ UNCHANGED << applied, handlerVars, serverVars, container, redis, faults, mishaps >>

\* Mutant: ports are counted from the base port whether they are used or not.
AvailablePorts_All(unread) == Ports

\* Ports of no server that has a key, except where the port could not be read.
AvailablePorts(unread) == Ports \ {port[s] : s \in {t \in Servers \ unread : redis[t] # {}}}

\* find_available_ports: the lowest ones, in the order of the boundaries.
PortsFor(new, unread) ==
  LET available == AvailablePorts(unread)
      lowest == {p \in available :
                   Cardinality({q \in available : q < p}) < Cardinality(new)}
  IN  {f \in [new -> lowest] : IsInjective(f)}

\* Mutant: boundaries that have a server get another one.
NewServers_Again(layout) ==
  {s \in Servers : s[2] > started[Center(s)] /\ s[2] <= started[Center(s)] + layout[Center(s)]}

\* to_add: every entry of the layout without a server known, duplicates included.
NewServers(layout) ==
  {s \in Servers : /\ Center(s) \notin current_centers
                   /\ s[2] > started[Center(s)]
                   /\ s[2] <= started[Center(s)] + layout[Center(s)]}

\* Mutant: a layout that only takes boundaries away counts as unchanged.
LayoutUnchanged_Subset(layout) == Listed(layout) \subseteq current_centers

LayoutUnchanged(layout) == current_centers = Listed(layout)

\* Mutant: the servers that are to be stopped are those that stay.
ToRemove_Stay(layout) == current_centers \cap Listed(layout)

\* Mutant: boundaries without a server are to be removed as well.
ToRemove_Unknown(layout) == Boundaries \ Listed(layout)

ToRemove(layout) == current_centers \ Listed(layout)

\* Spawn tasks for the servers that were given a port.
Launch(layout, ports) ==
  /\ to_add' = DOMAIN ports
  /\ port' = [s \in Servers |-> IF s \in DOMAIN ports THEN ports[s] ELSE port[s]]
  /\ container' = [s \in Servers |-> IF s \in DOMAIN ports THEN "starting" ELSE container[s]]
  /\ started' = [b \in Boundaries |->
                   IF b \in current_centers THEN started[b] ELSE started[b] + layout[b]]

LaunchMishaps(new, unread) ==
  {k \in {"startedTwice", "portUnread"} :
     \/ k = "startedTwice" /\ \E s, t \in new : s # t /\ Center(s) = Center(t)
     \/ k = "portUnread" /\ unread # {}}

HandleShardUpdate(m) ==
  /\ Idle /\ m \in waiting
  /\ \A b \in Boundaries \ current_centers : started[b] + m.layout[b] <= MaxStarts
  /\ waiting' = waiting \ {m} /\ applied' = m
  /\ \/ /\ LayoutUnchanged(m.layout) /\ NoFault
        /\ UNCHANGED << to_add, to_remove, serverVars, container >>
     \/ /\ ~LayoutUnchanged(m.layout)
        /\ to_remove' = ToRemove(m.layout)
        /\ \E new \in {NewServers(m.layout)} :
             \/ \E unread \in {{}} \cup {{t} : t \in Servers} :
                  /\ \E ports \in PortsFor(new, unread) : Launch(m.layout, ports)
                  /\ Fault \/ (unread = {} /\ UNCHANGED faults)
                  /\ mishaps' = mishaps \cup LaunchMishaps(new, unread)
             \* there are not enough ports, or Redis does not answer
             \/ /\ new # {} /\ (Fault \/ (PortsFor(new, {}) = {} /\ UNCHANGED faults))
                /\ Mishap("noPorts")
                /\ UNCHANGED << to_add, serverVars, container >>
  /\ UNCHANGED << sent, current_shards, stopping, deleting, redis >>
----------------------------------------------------------------------------
(***************************************************************************)
(* Spawn tasks: spawn_server_for_boundary, then join_next.                 *)
(***************************************************************************)

\* Docker starts no container on a port another one has.
PortTaken(s) == \E t \in Servers : container[t] = "running" /\ port[t] = port[s]

StartContainer(s) ==
  /\ s \in to_add /\ container[s] = "starting"
  /\ \/ /\ ~PortTaken(s) /\ NoFault
        /\ container' = [container EXCEPT ![s] = "running"]
        /\ UNCHANGED to_add
     \/ /\ Fault \/ (PortTaken(s) /\ UNCHANGED faults)
        /\ Mishap("startFailed")
        /\ container' = [container EXCEPT ![s] = "failed"]
        /\ to_add' = to_add \ {s}
  /\ UNCHANGED << layoutVars, current_shards, to_remove, stopping, deleting, serverVars, redis >>

\* A key set anew keeps its expiry.
WithField(key, field) == key \cup {"port", field}

RegisterServer(s) ==
  /\ s \in to_add /\ container[s] # "starting"
  /\ to_add' = to_add \ {s}
  /\ \/ /\ redis' = [redis EXCEPT ![s] = WithField(@, "container_id")]
        /\ current_shards' = [current_shards EXCEPT ![Center(s)] = s]
        /\ NoFault
     \/ /\ Fault /\ Mishap("registerFailed")
        /\ UNCHANGED << redis, current_shards >>
  /\ UNCHANGED << layoutVars, to_remove, stopping, deleting, serverVars, container >>
----------------------------------------------------------------------------
(***************************************************************************)
(* Servers of boundaries that are gone.                                    *)
(***************************************************************************)

\* The entry is removed first.  Without a container_id nothing is stopped.
RemoveServer(b) ==
  /\ NextRemoval /\ b \in to_remove
  /\ to_remove' = to_remove \ {b}
  /\ current_shards' = [current_shards EXCEPT ![b] = None]
  /\ LET s == current_shards[b]
         found == "container_id" \in redis[s]
     IN  \/ /\ found /\ stopping' = s /\ NoFault /\ UNCHANGED deleting
         \/ /\ Fault \/ (~found /\ UNCHANGED faults)
            /\ Mishap("containerUnknown")
            /\ deleting' = s /\ UNCHANGED stopping
  /\ UNCHANGED << layoutVars, to_add, serverVars, container, redis >>

\* Stops the container and removes it.  When either fails, the key is left;
\* Docker need not stop a container that has ended.
StopContainer ==
  /\ stopping # None /\ stopping' = None
  /\ \/ /\ container' = [container EXCEPT ![stopping] = IF @ = "running" THEN "ended" ELSE @]
        /\ \/ deleting' = stopping /\ NoFault
           \/ Fault /\ UNCHANGED << deleting, mishaps >>
     \/ /\ Fault \/ (container[stopping] # "running" /\ UNCHANGED faults)
        /\ Mishap("stopFailed")
        /\ UNCHANGED << container, deleting >>
  /\ UNCHANGED << layoutVars, current_shards, to_add, to_remove, serverVars, redis >>

DeleteKey ==
  /\ deleting # None /\ deleting' = None
  /\ \/ redis' = [redis EXCEPT ![deleting] = {}] /\ UNCHANGED faults
     \/ Fault /\ UNCHANGED redis
  /\ UNCHANGED << layoutVars, current_shards, to_add, to_remove, stopping, serverVars,
                  container, mishaps >>
----------------------------------------------------------------------------
(***************************************************************************)
(* Meanwhile.                                                              *)
(***************************************************************************)

\* A heartbeat sets its own fields and the expiry of the key, and makes a key
\* where there is none.
HandleHeartbeat(s) ==
  /\ container[s] \in {"running", "ended"}
  /\ redis' = [redis EXCEPT ![s] = WithField(@, "ttl")]
  /\ container' = [container EXCEPT ![s] = IF @ = "ended" THEN "silent" ELSE @]
  /\ UNCHANGED << layoutVars, handlerVars, serverVars, faults, mishaps >>

\* The key of a server that was not heard of for heartbeat_ttl_seconds.
Expire(s) ==
  /\ "ttl" \in redis[s]
  /\ redis' = [redis EXCEPT ![s] = {}]
  /\ \/ container[s] = "running" /\ Fault /\ Mishap("keyExpired")
     \/ container[s] # "running" /\ NoFault
  /\ UNCHANGED << layoutVars, handlerVars, serverVars, container >>

\* A container ends by itself.
Crash(s) ==
  /\ container[s] = "running" /\ Fault /\ Mishap("crashed")
  /\ container' = [container EXCEPT ![s] = "ended"]
  /\ UNCHANGED << layoutVars, handlerVars, serverVars, redis >>

\* The orchestrator is started anew: Docker and Redis keep what they have, and
\* carry out requests under way or not.
Restart ==
  /\ Fault /\ Mishap("restarted")
  /\ current_shards' = [b \in Boundaries |-> None]
  /\ to_add' = {} /\ to_remove' = {} /\ stopping' = None /\ deleting' = None
  /\ waiting' = {}
  /\ \E done \in SUBSET (to_add \cup ({stopping} \ {None})) :
       container' = [s \in Servers |->
         CASE container[s] = "starting" -> IF s \in done /\ ~PortTaken(s) THEN "running" ELSE "failed"
           [] container[s] = "running" /\ s = stopping /\ s \in done -> "ended"
           [] OTHER -> container[s]]
  /\ UNCHANGED << sent, applied, serverVars, redis >>
----------------------------------------------------------------------------
Next ==
  \/ \E layout \in Layouts : SendLayout(layout)
  \/ \E m \in waiting : HandleShardUpdate(m)
  \/ \E s \in Servers : StartContainer(s) \/ RegisterServer(s)
  \/ \E b \in Boundaries : RemoveServer(b)
  \/ StopContainer \/ DeleteKey
  \/ \E s \in Servers : HandleHeartbeat(s) \/ Expire(s) \/ Crash(s)
  \/ Restart

Spec == Init /\ [][Next]_vars

\* The handler goes on handling layouts, and Docker and Redis answer.
FairSpec ==
  /\ Spec
  /\ WF_vars(\E m \in waiting : HandleShardUpdate(m))
  /\ \A s \in Servers : WF_vars(StartContainer(s)) /\ WF_vars(RegisterServer(s))
  /\ \A b \in Boundaries : WF_vars(RemoveServer(b))
  /\ WF_vars(StopContainer) /\ WF_vars(DeleteKey)
----------------------------------------------------------------------------
Kinds == {"startedTwice", "portUnread", "noPorts", "startFailed", "registerFailed",
          "containerUnknown", "stopFailed", "keyExpired", "crashed", "restarted"}

TypeOK ==
  /\ sent \in 0..MaxSent /\ faults \in 0..MaxFaults
  /\ waiting \subseteq [n : 1..MaxSent, layout : Layouts]
  /\ applied \in [n : 0..MaxSent, layout : [Boundaries -> Nat]]
  /\ current_shards \in [Boundaries -> Servers \cup {None}]
  /\ \A b \in current_centers : Center(current_shards[b]) = b
  /\ to_add \subseteq Servers
  /\ to_remove \subseteq current_centers
  /\ stopping \in Servers \cup {None} /\ deleting \in Servers \cup {None}
  /\ started \in [Boundaries -> 0..MaxStarts]
  /\ port \in [Servers -> Ports \cup {None}]
  /\ container \in [Servers -> {"none", "starting", "running", "failed", "ended", "silent"}]
  /\ redis \in [Servers -> SUBSET {"port", "container_id", "ttl"}]
  /\ mishaps \subseteq Kinds

\* What makes the orchestrator lose a container that runs.
Losses == {"startedTwice", "registerFailed", "containerUnknown", "stopFailed", "restarted"}

\* Every container that runs is one the orchestrator will stop when its boundary
\* goes: it knows it, is still starting it, or is stopping it.  Otherwise one of
\* a few things went wrong.
NobodyForgotten ==
  mishaps \cap Losses = {} =>
    \A s \in Servers : container[s] = "running" =>
      s \in to_add \/ s = current_shards[Center(s)] \/ s = stopping

\* No boundary is simulated by two servers, unless one of them was lost.
OneServerPerBoundary ==
  mishaps \cap Losses = {} =>
    \A s, t \in Servers :
      container[s] = "running" /\ container[t] = "running" /\ Center(s) = Center(t) => s = t

\* What hides the port of a container that runs.
PortLosses == {"portUnread", "registerFailed", "containerUnknown", "keyExpired", "restarted"}

\* A server about to be started gets a port no running server has, unless that
\* one has no key, as it was not registered or lost it, or its key was not read.
PortsAreFree ==
  mishaps \cap PortLosses = {} =>
    \A s \in to_add, t \in Servers :
      container[s] = "starting" /\ container[t] \in {"starting", "running"} /\ port[s] = port[t]
        => s = t

\* Between two layouts the servers known are for boundaries of the one handled
\* last, and for all of them unless a start failed.
FleetFollowsLayout ==
  Idle =>
    /\ current_centers \subseteq Listed(applied.layout)
    /\ mishaps \cap {"noPorts", "startFailed", "registerFailed", "restarted"} = {} =>
         current_centers = Listed(applied.layout)

\* After these a layout is not carried out as it should be.  A key that is lost or
\* a port that is not read does no harm until one of them follows.
Failures == Kinds \ {"portUnread", "keyExpired"}

\* The handler with its tasks implements the turn from one layout to the next:
\* none is taken up before the last one is carried out, a boundary that stays
\* keeps its server, and no server is stopped before those of all boundaries of
\* the layout run.
F == INSTANCE Fleet WITH ordered <- Listed(applied.layout),
                         running <- {s \in Servers : container[s] = "running"},
                         orderly <- (mishaps \cap Failures = {})
LayoutsAreCarriedOut == F!Spec

\* When layouts stop coming and nothing went wrong, one server runs for each
\* boundary of the layout handled last and none for any other.
FleetSettles ==
  \/ <>(mishaps # {})
  \/ <>[](waiting = {} /\ Idle /\
          \A b \in Boundaries : (Running(b) # {}) <=> b \in Listed(applied.layout))
=============================================================================
