------------------------- MODULE OrchestratorProofs -------------------------
(***************************************************************************)
(* Proofs about Orchestrator, for any boundaries, layouts, ports and       *)
(* bounds.                                                                 *)
(***************************************************************************)
EXTENDS Orchestrator, TLAPS

\* The servers that have been started are the first ones of each boundary.
FreshAreUnborn ==
  \A s \in Servers : s[2] > started[Center(s)] <=> container[s] = "none"

\* Spawn tasks have servers that were never known and never stopped, and only
\* they have containers about to start.
TasksAreNew ==
  /\ \A s \in Servers : container[s] = "starting" => s \in to_add
  /\ \A s \in to_add : container[s] # "none"
  /\ \A b \in current_centers :
       container[current_shards[b]] \notin {"none", "starting"}

\* A boundary gets a server only when none is known for it, and only one unless
\* it was listed twice.
TasksAreNeeded ==
  /\ "startedTwice" \notin mishaps =>
       /\ \A s \in to_add : Center(s) \notin current_centers
       /\ \A s, t \in to_add : Center(s) = Center(t) => s = t

\* Nothing is stopped before every spawn task has joined, and what is stopped is
\* not known any more.
StopsAreLast ==
  stopping # None \/ deleting # None =>
    /\ to_add = {}
    /\ stopping # None => /\ deleting = None
                          /\ Center(stopping) \notin current_centers
                          /\ container[stopping] \notin {"none", "starting"}

\* What a layout changes is known, about to be known, or about to go.
LayoutUnderWay ==
  /\ current_centers \ to_remove \subseteq Listed(applied.layout)
  /\ to_remove \cap Listed(applied.layout) = {}
  /\ \A s \in to_add : Center(s) \in Listed(applied.layout)
  /\ mishaps \cap {"noPorts", "startFailed", "registerFailed", "restarted"} = {} =>
       Listed(applied.layout) \subseteq current_centers \cup {Center(s) : s \in to_add}

\* A running server has a key, or its spawn task will make one; a key is deleted
\* only when its container has been stopped.
RunningHaveKeys ==
  mishaps \cap PortLosses = {} =>
    /\ \A s \in Servers : container[s] = "running" => redis[s] # {} \/ s \in to_add
    /\ deleting # None => container[deleting] # "running"

OrchestratorInv ==
  /\ TypeOK /\ FreshAreUnborn /\ TasksAreNew /\ TasksAreNeeded /\ StopsAreLast
  /\ LayoutUnderWay /\ NobodyForgotten /\ RunningHaveKeys /\ PortsAreFree
----------------------------------------------------------------------------
\* The shape of a uuid.
LEMMA ServersHaveCenters ==
  /\ \A s \in Servers : Center(s) \in Boundaries /\ s[2] \in 1..MaxStarts /\ s # None
  /\ None \notin Servers
<1>1. Servers \subseteq Boundaries \X Nat
  BY OrchestratorAssumption DEF Servers
<1>2. None \notin Servers
  <2> DEFINE uuids == Boundaries \X Nat
  <2> HIDE DEF uuids
  <2>1. None \notin uuids /\ Servers \subseteq uuids
    BY <1>1, OrchestratorAssumption DEF uuids
  <2> QED
    BY <2>1
<1>3. \A s \in Servers : Center(s) \in Boundaries /\ s[2] \in 1..MaxStarts
  BY DEF Servers, Center
<1> QED
  BY <1>2, <1>3

\* No server is there at first.
LEMMA OrchestratorInit == Init => OrchestratorInv
<1> SUFFICES ASSUME Init PROVE OrchestratorInv
  OBVIOUS
<1> USE ServersHaveCenters, OrchestratorAssumption
<1>1. current_centers = {}
  BY DEF Init, current_centers
<1>2. TypeOK
  BY <1>1 DEF Init, TypeOK
<1>3. FreshAreUnborn
  BY DEF Init, FreshAreUnborn
<1>4. TasksAreNew /\ TasksAreNeeded /\ StopsAreLast
  BY <1>1 DEF Init, TasksAreNew, TasksAreNeeded, StopsAreLast
<1>5. LayoutUnderWay
  BY <1>1 DEF Init, LayoutUnderWay, Listed
<1>6. NobodyForgotten /\ RunningHaveKeys /\ PortsAreFree
  BY DEF Init, NobodyForgotten, RunningHaveKeys, PortsAreFree
<1> QED
  BY <1>2, <1>3, <1>4, <1>5, <1>6 DEF OrchestratorInv

\* A layout that is sent waits.
LEMMA SendLayoutStep ==
  ASSUME OrchestratorInv, NEW layout \in Layouts, SendLayout(layout)
  PROVE  OrchestratorInv'
<1> USE DEF OrchestratorInv, SendLayout, handlerVars, serverVars
<1>1. TypeOK'
  <2>1. sent' \in 0..MaxSent /\ sent + 1 \in 1..MaxSent
    BY OrchestratorAssumption DEF TypeOK
  <2>2. current_centers' = current_centers
    BY DEF current_centers
  <2>3. waiting' \subseteq [n : 1..MaxSent, layout : Layouts]
    BY <2>1 DEF TypeOK
  <2> QED
    BY <2>1, <2>2, <2>3 DEF TypeOK
<1>2. FreshAreUnborn' /\ TasksAreNew' /\ TasksAreNeeded' /\ StopsAreLast'
  BY DEF FreshAreUnborn, TasksAreNew, TasksAreNeeded, StopsAreLast, current_centers
<1>3. LayoutUnderWay' /\ NobodyForgotten' /\ RunningHaveKeys' /\ PortsAreFree'
  BY DEF LayoutUnderWay, NobodyForgotten, RunningHaveKeys, PortsAreFree, current_centers
<1> QED
  BY <1>1, <1>2, <1>3

\* The spawn tasks of a layout: their servers and ports.
LEMMA NewServersAreFresh ==
  ASSUME OrchestratorInv, NEW layout \in Layouts, NEW unread,
         NEW ports \in PortsFor(NewServers(layout), unread),
         \A b \in Boundaries \ current_centers : started[b] + layout[b] <= MaxStarts
  PROVE  /\ DOMAIN ports = NewServers(layout)
         /\ \A s \in NewServers(layout) :
              /\ s \in Servers /\ container[s] = "none"
              /\ Center(s) \in Listed(layout) \ current_centers
              /\ ports[s] \in AvailablePorts(unread)
         /\ \A s, t \in NewServers(layout) : ports[s] = ports[t] => s = t
         /\ \A b \in Listed(layout) \ current_centers :
              \E s \in NewServers(layout) : Center(s) = b
<1>1. /\ DOMAIN ports = NewServers(layout)
      /\ \A s \in NewServers(layout) : ports[s] \in AvailablePorts(unread)
      /\ \A s, t \in NewServers(layout) : ports[s] = ports[t] => s = t
  BY DEF PortsFor, IsInjective
<1>2. ASSUME NEW s \in NewServers(layout)
      PROVE  /\ s \in Servers /\ container[s] = "none"
             /\ Center(s) \in Listed(layout) \ current_centers
  <2>1. s \in Servers /\ Center(s) \in Boundaries \ current_centers
    BY ServersHaveCenters DEF NewServers
  <2>2. s[2] > started[Center(s)] /\ s[2] <= started[Center(s)] + layout[Center(s)]
    BY DEF NewServers
  <2>3. started[Center(s)] \in Nat /\ layout[Center(s)] \in Nat /\ s[2] \in Nat
    BY <2>1, ServersHaveCenters, OrchestratorAssumption DEF OrchestratorInv, TypeOK
  <2>4. layout[Center(s)] > 0
    BY <2>2, <2>3
  <2> QED
    BY <2>1, <2>2, <2>4 DEF OrchestratorInv, FreshAreUnborn, Listed
<1>3. ASSUME NEW b \in Listed(layout) \ current_centers
      PROVE  \E s \in NewServers(layout) : Center(s) = b
  <2>1. b \in Boundaries /\ layout[b] \in Nat /\ layout[b] > 0 /\ started[b] \in Nat
        /\ started[b] + layout[b] <= MaxStarts
    BY <1>3, OrchestratorAssumption DEF OrchestratorInv, TypeOK, Listed
  <2>2. started[b] + 1 \in 1..MaxStarts /\ started[b] + 1 <= started[b] + layout[b]
    BY <2>1, OrchestratorAssumption
  <2>3. << b, started[b] + 1 >> \in Servers /\ Center(<< b, started[b] + 1 >>) = b
    BY <2>1, <2>2 DEF Servers, Center
  <2>4. << b, started[b] + 1 >> \in NewServers(layout)
    BY <2>1, <2>2, <2>3 DEF NewServers
  <2> QED
    BY <2>3, <2>4
<1> QED
  BY <1>1, <1>2, <1>3

\* A layout is received whose servers are started.
LEMMA LaunchStep ==
  ASSUME OrchestratorInv, NEW m \in waiting, HandleShardUpdate(m),
         to_remove' = ToRemove(m.layout),
         NEW unread, NEW ports \in PortsFor(NewServers(m.layout), unread),
         Launch(m.layout, ports), Fault \/ UNCHANGED faults,
         mishaps' = mishaps \cup LaunchMishaps(NewServers(m.layout), unread)
  PROVE  OrchestratorInv'
<1> DEFINE new == NewServers(m.layout)
<1> USE DEF OrchestratorInv
<1>1. /\ Idle /\ waiting' = waiting \ {m} /\ applied' = m
      /\ UNCHANGED << sent, current_shards, stopping, deleting, redis >>
      /\ \A b \in Boundaries \ current_centers : started[b] + m.layout[b] <= MaxStarts
  BY DEF HandleShardUpdate
<1>2. m \in [n : 1..MaxSent, layout : Layouts] /\ m.layout \in [Boundaries -> Nat]
  BY OrchestratorAssumption DEF TypeOK
<1>3. /\ DOMAIN ports = new
      /\ \A s \in new : /\ s \in Servers /\ container[s] = "none"
                        /\ Center(s) \in Listed(m.layout) \ current_centers
                        /\ ports[s] \in AvailablePorts(unread)
      /\ \A s, t \in new : ports[s] = ports[t] => s = t
      /\ \A b \in Listed(m.layout) \ current_centers : \E s \in new : Center(s) = b
  BY <1>1, <1>2, NewServersAreFresh
<1>4. /\ to_add' = new
      /\ port' = [s \in Servers |-> IF s \in new THEN ports[s] ELSE port[s]]
      /\ container' = [s \in Servers |-> IF s \in new THEN "starting" ELSE container[s]]
      /\ started' = [b \in Boundaries |->
                       IF b \in current_centers THEN started[b] ELSE started[b] + m.layout[b]]
  BY <1>3 DEF Launch
<1>5. current_centers' = current_centers
  BY <1>1 DEF current_centers
<1>6. TypeOK'
  <2>1. AvailablePorts(unread) \subseteq Ports
    BY DEF AvailablePorts
  <2>2. port' \in [Servers -> Ports \cup {None}]
    BY <1>3, <1>4, <2>1 DEF TypeOK
  <2>3. started' \in [Boundaries -> 0..MaxStarts]
    <3> SUFFICES ASSUME NEW b \in Boundaries PROVE started'[b] \in 0..MaxStarts
      BY <1>4
    <3>1. started[b] \in 0..MaxStarts /\ m.layout[b] \in Nat
      BY <1>2 DEF TypeOK
    <3> QED
      BY <1>1, <1>4, <3>1, OrchestratorAssumption
  <2>4. container' \in [Servers -> {"none", "starting", "running", "failed", "ended", "silent"}]
    BY <1>4 DEF TypeOK
  <2>5. to_remove' \subseteq current_centers'
    BY <1>5 DEF ToRemove
  <2>6. applied' \in [n : 0..MaxSent, layout : [Boundaries -> Nat]]
    BY <1>1, <1>2, OrchestratorAssumption
  <2>7. to_add' \subseteq Servers
    BY <1>3, <1>4
  <2>8. faults' \in 0..MaxFaults
    BY OrchestratorAssumption DEF TypeOK, Fault
  <2>9. mishaps' \subseteq Kinds
    BY DEF TypeOK, LaunchMishaps, Kinds
  <2> QED
    BY <1>1, <1>5, <2>2, <2>3, <2>4, <2>5, <2>6, <2>7, <2>8, <2>9 DEF TypeOK
<1>7. FreshAreUnborn'
  <2> SUFFICES ASSUME NEW s \in Servers
               PROVE  s[2] > started'[Center(s)] <=> container'[s] = "none"
    BY DEF FreshAreUnborn
  <2>1. /\ Center(s) \in Boundaries /\ s[2] \in Nat
        /\ started[Center(s)] \in Nat /\ m.layout[Center(s)] \in Nat
    BY <1>2, ServersHaveCenters, OrchestratorAssumption DEF TypeOK
  <2>2. s \in new <=> /\ Center(s) \notin current_centers /\ s[2] > started[Center(s)]
                      /\ s[2] <= started[Center(s)] + m.layout[Center(s)]
    BY DEF NewServers
  <2>3. container'[s] = IF s \in new THEN "starting" ELSE container[s]
    BY <1>4
  <2>4. s[2] > started[Center(s)] <=> container[s] = "none"
    BY DEF FreshAreUnborn
  <2>5. started'[Center(s)] = IF Center(s) \in current_centers THEN started[Center(s)]
                              ELSE started[Center(s)] + m.layout[Center(s)]
    BY <1>4, <2>1
  <2>6. CASE s \in new
    BY <2>1, <2>2, <2>3, <2>5, <2>6
  <2>7. CASE s \notin new
    BY <2>1, <2>2, <2>3, <2>4, <2>5, <2>7
  <2> QED
    BY <2>6, <2>7
<1>8. TasksAreNew'
  <2>1. \A b \in current_centers : current_shards[b] \in Servers \ new
    BY <1>3 DEF TypeOK, TasksAreNew, current_centers
  <2> QED
    BY <1>1, <1>3, <1>4, <1>5, <2>1 DEF TasksAreNew, Idle, current_centers
<1>9. TasksAreNeeded'
  BY <1>3, <1>4, <1>5 DEF TasksAreNeeded, LaunchMishaps
<1>10. StopsAreLast'
  BY <1>1 DEF StopsAreLast, Idle
<1>11. LayoutUnderWay'
  BY <1>1, <1>3, <1>4, <1>5 DEF LayoutUnderWay, ToRemove, Listed
<1>12. NobodyForgotten'
  BY <1>1, <1>3, <1>4 DEF NobodyForgotten, Idle
<1>13. RunningHaveKeys'
  BY <1>1, <1>3, <1>4 DEF RunningHaveKeys, Idle
<1>14. PortsAreFree'
  <2> SUFFICES ASSUME mishaps' \cap PortLosses = {},
                      NEW s \in new, NEW t \in Servers,
                      container'[t] \in {"starting", "running"}, port'[s] = port'[t]
               PROVE  s = t
    BY <1>4 DEF PortsAreFree
  <2>1. CASE t \in new
    BY <1>3, <1>4, <2>1
  <2>2. CASE t \notin new
    <3>1. container[t] = "running"
      BY <1>1, <1>4, <2>2 DEF TasksAreNew, Idle
    <3>2. redis[t] # {}
      BY <1>1, <3>1 DEF RunningHaveKeys, Idle
    <3>3. unread = {}
      BY DEF LaunchMishaps, PortLosses
    <3>4. port[t] \notin AvailablePorts(unread)
      BY <3>2, <3>3 DEF AvailablePorts
    <3> QED
      BY <1>3, <1>4, <2>2, <3>4
  <2> QED
    BY <2>1, <2>2
<1> QED
  BY <1>6, <1>7, <1>8, <1>9, <1>10, <1>11, <1>12, <1>13, <1>14

\* A layout is received and starts nothing.
LEMMA NoLaunchStep ==
  ASSUME OrchestratorInv, NEW m \in waiting, HandleShardUpdate(m),
         UNCHANGED << to_add, serverVars, container >>,
         \/ LayoutUnchanged(m.layout) /\ NoFault /\ UNCHANGED to_remove
         \/ /\ to_remove' = ToRemove(m.layout) /\ Mishap("noPorts")
            /\ Fault \/ UNCHANGED faults
  PROVE  OrchestratorInv'
<1> USE DEF OrchestratorInv, serverVars, NoFault, Mishap
<1>1. /\ Idle /\ waiting' = waiting \ {m} /\ applied' = m
      /\ UNCHANGED << sent, current_shards, stopping, deleting, redis >>
  BY DEF HandleShardUpdate
<1>2. m \in [n : 1..MaxSent, layout : Layouts] /\ m.layout \in [Boundaries -> Nat]
  BY OrchestratorAssumption DEF TypeOK
<1>3. current_centers' = current_centers
  BY <1>1 DEF current_centers
<1>4. to_remove' \subseteq current_centers' /\ current_centers \ to_remove' \subseteq Listed(m.layout)
      /\ to_remove' \cap Listed(m.layout) = {}
  BY <1>1, <1>3 DEF ToRemove, LayoutUnchanged, Idle
<1>5. TypeOK'
  <2>1. faults' \in 0..MaxFaults
    BY OrchestratorAssumption DEF TypeOK, Fault
  <2>2. applied' \in [n : 0..MaxSent, layout : [Boundaries -> Nat]]
    BY <1>1, <1>2, OrchestratorAssumption
  <2> QED
    BY <1>1, <1>3, <1>4, <2>1, <2>2 DEF TypeOK, Kinds
<1>6. FreshAreUnborn' /\ TasksAreNew' /\ TasksAreNeeded' /\ StopsAreLast'
  BY <1>1, <1>3 DEF FreshAreUnborn, TasksAreNew, TasksAreNeeded, StopsAreLast
<1>7. LayoutUnderWay'
  BY <1>1, <1>3, <1>4 DEF LayoutUnderWay, LayoutUnchanged, Idle
<1>8. NobodyForgotten' /\ RunningHaveKeys' /\ PortsAreFree'
  BY <1>1 DEF NobodyForgotten, Losses, RunningHaveKeys, PortsAreFree
<1> QED
  BY <1>5, <1>6, <1>7, <1>8

\* A layout starts servers where none is known and marks the others.
LEMMA ShardUpdateStep ==
  ASSUME OrchestratorInv, NEW m \in waiting, HandleShardUpdate(m)
  PROVE  OrchestratorInv'
<1>1. CASE LayoutUnchanged(m.layout) /\ NoFault
           /\ UNCHANGED << to_add, to_remove, serverVars, container >>
  BY <1>1, NoLaunchStep
<1>2. CASE \E unread \in {{}} \cup {{t} : t \in Servers} :
             \E ports \in PortsFor(NewServers(m.layout), unread) :
               /\ to_remove' = ToRemove(m.layout)
               /\ Launch(m.layout, ports) /\ (Fault \/ UNCHANGED faults)
               /\ mishaps' = mishaps \cup LaunchMishaps(NewServers(m.layout), unread)
  BY <1>2, LaunchStep
<1>3. CASE /\ to_remove' = ToRemove(m.layout) /\ Mishap("noPorts")
           /\ Fault \/ UNCHANGED faults
           /\ UNCHANGED << to_add, serverVars, container >>
  BY <1>3, NoLaunchStep
<1> QED
  BY <1>1, <1>2, <1>3 DEF HandleShardUpdate

\* A container starts on a port that is free, or its task is over.
LEMMA StartContainerStep ==
  ASSUME OrchestratorInv, NEW s \in Servers, StartContainer(s)
  PROVE  OrchestratorInv'
<1> USE DEF OrchestratorInv
<1>1. /\ s \in to_add /\ container[s] = "starting"
      /\ UNCHANGED << sent, waiting, applied, current_shards, to_remove, stopping, deleting,
                      started, port, redis >>
  BY DEF StartContainer, layoutVars, serverVars
<1>2. \/ /\ ~PortTaken(s) /\ UNCHANGED << to_add, faults, mishaps >>
         /\ container' = [container EXCEPT ![s] = "running"]
      \/ /\ faults' = faults \/ (faults < MaxFaults /\ faults' = faults + 1)
         /\ mishaps' = mishaps \cup {"startFailed"}
         /\ container' = [container EXCEPT ![s] = "failed"] /\ to_add' = to_add \ {s}
  BY DEF StartContainer, Fault, NoFault, Mishap
<1>3. current_centers' = current_centers
  BY <1>1 DEF current_centers
<1>4. TypeOK'
  <2>1. container' \in [Servers -> {"none", "starting", "running", "failed", "ended", "silent"}]
    BY <1>2 DEF TypeOK
  <2>2. faults' \in 0..MaxFaults /\ to_add' \subseteq Servers
    BY <1>2, OrchestratorAssumption DEF TypeOK
  <2> QED
    BY <1>1, <1>2, <1>3, <2>1, <2>2 DEF TypeOK, Kinds
<1>5. FreshAreUnborn'
  BY <1>1, <1>2 DEF FreshAreUnborn, TypeOK
<1>6. TasksAreNew'
  <2>1. \A b \in current_centers : current_shards[b] \in Servers \ {s}
    BY <1>1 DEF TypeOK, TasksAreNew, current_centers
  <2> QED
    BY <1>1, <1>2, <1>3, <2>1 DEF TasksAreNew, TypeOK
<1>7. TasksAreNeeded' /\ StopsAreLast'
  BY <1>1, <1>2, <1>3 DEF TasksAreNeeded, StopsAreLast, TypeOK
<1>8. LayoutUnderWay'
  BY <1>1, <1>2, <1>3 DEF LayoutUnderWay
<1>9. NobodyForgotten'
  BY <1>1, <1>2 DEF NobodyForgotten, Losses, TypeOK
<1>10. RunningHaveKeys'
  <2>1. deleting = None
    BY <1>1 DEF StopsAreLast
  <2>2. ASSUME NEW t \in Servers, container'[t] = "running"
        PROVE  \/ container[t] = "running" /\ (t \in to_add => t \in to_add')
               \/ t \in to_add'
    <3>1. t # s => container[t] = "running" /\ (t \in to_add => t \in to_add')
      BY <1>2, <2>2 DEF TypeOK
    <3>2. t = s => t \in to_add'
      BY <1>1, <1>2, <2>2 DEF TypeOK
    <3> QED
      BY <3>1, <3>2
  <2>3. mishaps \subseteq mishaps' /\ UNCHANGED << redis, deleting >>
    BY <1>1, <1>2
  <2> QED
    BY <2>1, <2>2, <2>3 DEF RunningHaveKeys
<1>11. PortsAreFree'
  BY <1>1, <1>2 DEF PortsAreFree, TypeOK
<1> QED
  BY <1>4, <1>5, <1>6, <1>7, <1>8, <1>9, <1>10, <1>11

\* A server that is registered has a key and is known.
LEMMA RegisterServerStep ==
  ASSUME OrchestratorInv, NEW s \in Servers, RegisterServer(s)
  PROVE  OrchestratorInv'
<1> USE DEF OrchestratorInv
<1>1. /\ s \in to_add /\ container[s] # "starting" /\ to_add' = to_add \ {s}
      /\ UNCHANGED << sent, waiting, applied, to_remove, stopping, deleting,
                      started, port, container >>
  BY DEF RegisterServer, layoutVars, serverVars
<1>2. \/ /\ redis' = [redis EXCEPT ![s] = WithField(@, "container_id")]
         /\ current_shards' = [current_shards EXCEPT ![Center(s)] = s]
         /\ UNCHANGED << faults, mishaps >>
      \/ /\ faults < MaxFaults /\ faults' = faults + 1
         /\ mishaps' = mishaps \cup {"registerFailed"}
         /\ UNCHANGED << redis, current_shards >>
  BY DEF RegisterServer, Fault, NoFault, Mishap
<1>3. /\ Center(s) \in Boundaries /\ s # None
      /\ stopping = None /\ deleting = None
  BY <1>1, ServersHaveCenters DEF StopsAreLast
<1>4. /\ current_centers \subseteq current_centers'
      /\ current_centers' \subseteq current_centers \cup {Center(s)}
      /\ UNCHANGED current_shards \/ Center(s) \in current_centers'
  BY <1>2, <1>3 DEF current_centers, TypeOK
<1>5. TypeOK'
  <2>1. redis' \in [Servers -> SUBSET {"port", "container_id", "ttl"}]
    <3>1. WithField(redis[s], "container_id") \in SUBSET {"port", "container_id", "ttl"}
      BY DEF TypeOK, WithField
    <3> QED
      BY <1>2, <3>1 DEF TypeOK
  <2>2. current_shards' \in [Boundaries -> Servers \cup {None}]
    BY <1>2, <1>3 DEF TypeOK
  <2>3. ASSUME NEW b \in current_centers' PROVE Center(current_shards'[b]) = b
    <3>1. b \in Boundaries /\ (b \in current_centers \/ b = Center(s))
      BY <1>3, <1>4 DEF current_centers
    <3>2. current_shards'[b] = current_shards[b] \/ (b = Center(s) /\ current_shards'[b] = s)
      BY <1>2, <3>1 DEF TypeOK
    <3>3. b \in current_centers => Center(current_shards[b]) = b
      BY DEF TypeOK
    <3>4. current_shards'[b] = current_shards[b] => b \in current_centers
      BY <3>1 DEF current_centers
    <3> QED
      BY <3>2, <3>3, <3>4
  <2>4. faults' \in 0..MaxFaults
    BY <1>2, OrchestratorAssumption DEF TypeOK
  <2>5. to_remove' \subseteq current_centers'
    BY <1>1, <1>4 DEF TypeOK
  <2> QED
    BY <1>1, <1>2, <2>1, <2>2, <2>3, <2>4, <2>5 DEF TypeOK, Kinds
<1>6. FreshAreUnborn'
  BY <1>1 DEF FreshAreUnborn
<1>7. TasksAreNew'
  <2>1. \A b \in Boundaries : current_shards'[b] = current_shards[b] \/ current_shards'[b] = s
    BY <1>2 DEF TypeOK
  <2>2. \A b \in current_centers' : b \in Boundaries /\
          (b \in current_centers \/ current_shards'[b] = s)
    BY <1>2, <1>3, <1>4 DEF current_centers, TypeOK
  <2> QED
    BY <1>1, <2>1, <2>2 DEF TasksAreNew, current_centers
<1>8. TasksAreNeeded'
  BY <1>1, <1>2, <1>4 DEF TasksAreNeeded
<1>9. StopsAreLast'
  BY <1>1, <1>3 DEF StopsAreLast
<1>10. LayoutUnderWay'
  <2>1. Center(s) \in Listed(applied.layout)
    BY <1>1 DEF LayoutUnderWay
  <2>2. mishaps' \cap {"noPorts", "startFailed", "registerFailed", "restarted"} = {} =>
          /\ mishaps \cap {"noPorts", "startFailed", "registerFailed", "restarted"} = {}
          /\ Center(s) \in current_centers'
    BY <1>2, <1>3 DEF current_centers, TypeOK
  <2>3. \A t \in to_add : t = s \/ t \in to_add'
    BY <1>1
  <2> QED
    BY <1>1, <1>4, <2>1, <2>2, <2>3 DEF LayoutUnderWay
<1>11. NobodyForgotten'
  <2> SUFFICES ASSUME mishaps' \cap Losses = {}, NEW t \in Servers, container[t] = "running"
               PROVE  t \in to_add' \/ t = current_shards'[Center(t)] \/ t = stopping'
    BY <1>1 DEF NobodyForgotten
  <2>1. /\ mishaps' = mishaps /\ "startedTwice" \notin mishaps
        /\ current_shards' = [current_shards EXCEPT ![Center(s)] = s]
    BY <1>2 DEF Losses
  <2>2. CASE t = s
    BY <1>3, <2>1, <2>2 DEF TypeOK
  <2>3. CASE t # s
    <3>1. t \in to_add \/ t = current_shards[Center(t)]
      BY <1>3, <2>1, ServersHaveCenters DEF NobodyForgotten
    <3>2. t \in to_add => t \in to_add'
      BY <1>1, <2>3
    <3>3. t = current_shards[Center(t)] => Center(t) \in current_centers
      BY ServersHaveCenters DEF current_centers
    <3>4. Center(s) \notin current_centers
      BY <1>1, <2>1 DEF TasksAreNeeded
    <3>5. t = current_shards[Center(t)] => t = current_shards'[Center(t)]
      BY <2>1, <3>3, <3>4, ServersHaveCenters DEF TypeOK
    <3> QED
      BY <3>1, <3>2, <3>5
  <2> QED
    BY <2>2, <2>3
<1>12. RunningHaveKeys'
  <2> DEFINE key == WithField(redis[s], "container_id")
  <2>1. key # {}
    BY DEF WithField
  <2> HIDE DEF key
  <2>2. "registerFailed" \notin mishaps' =>
          redis'[s] # {} /\ \A t \in Servers \ {s} : redis'[t] = redis[t]
    BY <1>2, <2>1 DEF TypeOK, key
  <2> QED
    BY <1>1, <1>2, <1>3, <2>2 DEF RunningHaveKeys, PortLosses
<1>13. PortsAreFree'
  BY <1>1, <1>2 DEF PortsAreFree
<1> QED
  BY <1>5, <1>6, <1>7, <1>8, <1>9, <1>10, <1>11, <1>12, <1>13

\* A server that goes is forgotten and stopped, or named as lost.
LEMMA RemoveServerStep ==
  ASSUME OrchestratorInv, NEW b \in Boundaries, RemoveServer(b)
  PROVE  OrchestratorInv'
<1> USE DEF OrchestratorInv
<1> DEFINE s == current_shards[b]
<1>1. /\ to_add = {} /\ stopping = None /\ deleting = None
      /\ b \in to_remove /\ to_remove' = to_remove \ {b}
      /\ current_shards' = [current_shards EXCEPT ![b] = None]
      /\ UNCHANGED << sent, waiting, applied, to_add, started, port, container, redis >>
  BY DEF RemoveServer, NextRemoval, layoutVars, serverVars
<1>2. \/ stopping' = s /\ deleting' = None /\ UNCHANGED << faults, mishaps >>
      \/ /\ faults' = faults \/ (faults < MaxFaults /\ faults' = faults + 1)
         /\ mishaps' = mishaps \cup {"containerUnknown"}
         /\ deleting' = s /\ stopping' = None
  BY <1>1 DEF RemoveServer, NextRemoval, Fault, NoFault, Mishap
<1>3. /\ b \in current_centers /\ s \in Servers /\ s # None /\ Center(s) = b
      /\ container[s] \notin {"none", "starting"}
  BY <1>1, ServersHaveCenters DEF TypeOK, TasksAreNew, current_centers
<1>4. /\ current_centers' = current_centers \ {b}
      /\ \A c \in current_centers' : current_shards'[c] = current_shards[c]
  BY <1>1 DEF current_centers, TypeOK
<1>5. TypeOK'
  <2>1. current_shards' \in [Boundaries -> Servers \cup {None}]
    BY <1>1 DEF TypeOK
  <2>2. \A c \in current_centers' : Center(current_shards'[c]) = c
    BY <1>4 DEF TypeOK
  <2>3. to_remove' \subseteq current_centers'
    BY <1>1, <1>4 DEF TypeOK
  <2>4. faults' \in 0..MaxFaults
    BY <1>2, OrchestratorAssumption DEF TypeOK
  <2>5. stopping' \in Servers \cup {None} /\ deleting' \in Servers \cup {None}
    BY <1>2, <1>3
  <2> HIDE DEF s
  <2> QED
    BY <1>1, <1>2, <2>1, <2>2, <2>3, <2>4, <2>5 DEF TypeOK, Kinds
<1>6. FreshAreUnborn' /\ TasksAreNew' /\ TasksAreNeeded'
  BY <1>1, <1>4 DEF FreshAreUnborn, TasksAreNew, TasksAreNeeded
<1>7. StopsAreLast'
  BY <1>1, <1>2, <1>3, <1>4 DEF StopsAreLast
<1>8. LayoutUnderWay'
  <2>1. b \notin Listed(applied.layout)
    BY <1>1 DEF LayoutUnderWay
  <2>2. mishaps \subseteq mishaps'
    BY <1>2
  <2> QED
    BY <1>1, <1>4, <2>1, <2>2 DEF LayoutUnderWay
<1>9. NobodyForgotten'
  <2> SUFFICES ASSUME mishaps' \cap Losses = {}, NEW t \in Servers, container[t] = "running"
               PROVE  t \in to_add' \/ t = current_shards'[Center(t)] \/ t = stopping'
    BY <1>1 DEF NobodyForgotten
  <2>1. mishaps' = mishaps /\ stopping' = s
    BY <1>2 DEF Losses
  <2>2. t = current_shards[Center(t)]
    BY <1>1, <2>1, ServersHaveCenters DEF NobodyForgotten
  <2>3. CASE Center(t) = b
    BY <2>1, <2>2, <2>3
  <2>4. CASE Center(t) # b
    BY <1>1, <2>2, <2>4, ServersHaveCenters DEF TypeOK
  <2> QED
    BY <2>3, <2>4
<1>10. RunningHaveKeys'
  BY <1>1, <1>2 DEF RunningHaveKeys, PortLosses
<1>11. PortsAreFree'
  BY <1>1 DEF PortsAreFree
<1> QED
  BY <1>5, <1>6, <1>7, <1>8, <1>9, <1>10, <1>11

\* Steps that leave the tasks and the entries alone and start no container.
LEMMA QuietStep ==
  ASSUME OrchestratorInv,
         UNCHANGED << sent, waiting, applied, current_shards, to_add, to_remove, started, port >>,
         stopping' \in {stopping, None}, deleting' \in {deleting, stopping, None},
         stopping' = None \/ deleting' = deleting,
         faults' = faults \/ (faults < MaxFaults /\ faults' = faults + 1),
         mishaps \subseteq mishaps', mishaps' \subseteq Kinds,
         redis' \in [Servers -> SUBSET {"port", "container_id", "ttl"}],
         container' \in [Servers -> {"none", "starting", "running", "failed", "ended", "silent"}],
         \A s \in Servers :
           \/ container'[s] = container[s]
           \/ container[s] = "running" /\ container'[s] = "ended"
           \/ container[s] = "ended" /\ container'[s] = "silent"
  PROVE  /\ FreshAreUnborn' /\ TasksAreNew' /\ TasksAreNeeded' /\ StopsAreLast'
         /\ LayoutUnderWay' /\ PortsAreFree' /\ TypeOK'
<1> USE DEF OrchestratorInv
<1>1. current_centers' = current_centers
  BY DEF current_centers
<1>2. \A s \in Servers : /\ container'[s] = "none" <=> container[s] = "none"
                         /\ container'[s] = "starting" <=> container[s] = "starting"
                         /\ container'[s] = "running" => container[s] = "running"
  OBVIOUS
<1>3. FreshAreUnborn'
  BY <1>2 DEF FreshAreUnborn
<1>4. TasksAreNew'
  <2>1. \A c \in current_centers : current_shards[c] \in Servers
    BY DEF TypeOK, current_centers
  <2> QED
    BY <1>1, <1>2, <2>1 DEF TasksAreNew, TypeOK
<1>5. TasksAreNeeded' /\ LayoutUnderWay'
  BY <1>1 DEF TasksAreNeeded, LayoutUnderWay
<1>6. StopsAreLast'
  BY <1>1, <1>2, ServersHaveCenters DEF StopsAreLast, TypeOK
<1>7. PortsAreFree'
  <2> SUFFICES ASSUME mishaps' \cap PortLosses = {},
                      NEW s \in to_add, NEW t \in Servers, container'[s] = "starting",
                      container'[t] \in {"starting", "running"}, port[s] = port[t]
               PROVE  s = t
    BY DEF PortsAreFree
  <2>1. s \in Servers
    BY DEF TypeOK
  <2>2. container[s] = "starting" /\ container[t] \in {"starting", "running"}
    BY <1>2, <2>1
  <2> QED
    BY <2>2 DEF PortsAreFree
<1>8. TypeOK'
  <2>1. faults' \in 0..MaxFaults
    BY OrchestratorAssumption DEF TypeOK
  <2> QED
    BY <1>1, <2>1 DEF TypeOK
<1> QED
  BY <1>3, <1>4, <1>5, <1>6, <1>7, <1>8

\* A container that stops is no server any more, or is named as lost.
LEMMA StopContainerStep == ASSUME OrchestratorInv, StopContainer PROVE OrchestratorInv'
<1> USE DEF OrchestratorInv, Kinds
<1>1. /\ stopping # None /\ stopping \in Servers /\ stopping' = None /\ deleting = None
      /\ UNCHANGED << sent, waiting, applied, current_shards, to_add, to_remove,
                      started, port, redis >>
  BY DEF StopContainer, layoutVars, serverVars, TypeOK, StopsAreLast
<1>2. /\ faults' = faults \/ (faults < MaxFaults /\ faults' = faults + 1)
      /\ \/ /\ container' = [container EXCEPT ![stopping] = IF @ = "running" THEN "ended" ELSE @]
            /\ deleting' \in {stopping, None} /\ UNCHANGED mishaps
         \/ /\ mishaps' = mishaps \cup {"stopFailed"} /\ UNCHANGED << container, deleting >>
  BY <1>1 DEF StopContainer, Fault, NoFault, Mishap
<1>3. /\ container' \in [Servers -> {"none", "starting", "running", "failed", "ended", "silent"}]
      /\ \A s \in Servers : \/ container'[s] = container[s]
                            \/ container[s] = "running" /\ container'[s] = "ended"
      /\ container' = container \/ container'[stopping] # "running"
  BY <1>1, <1>2 DEF TypeOK
<1>4. /\ FreshAreUnborn' /\ TasksAreNew' /\ TasksAreNeeded' /\ StopsAreLast'
      /\ LayoutUnderWay' /\ PortsAreFree' /\ TypeOK'
  <2>1. mishaps \subseteq mishaps' /\ mishaps' \subseteq Kinds
    BY <1>2 DEF TypeOK
  <2>2. redis' \in [Servers -> SUBSET {"port", "container_id", "ttl"}]
    BY <1>1 DEF TypeOK
  <2>3. deleting' \in {deleting, stopping, None}
    BY <1>2
  <2> QED
    BY <1>1, <1>2, <1>3, <2>1, <2>2, <2>3, QuietStep
<1>5. NobodyForgotten'
  <2> SUFFICES ASSUME mishaps' \cap Losses = {}, NEW t \in Servers, container'[t] = "running"
               PROVE  t \in to_add \/ t = current_shards[Center(t)]
    BY <1>1 DEF NobodyForgotten
  <2>1. mishaps' = mishaps /\ container'[stopping] # "running"
    BY <1>1, <1>2 DEF Losses, TypeOK
  <2>2. container[t] = "running" /\ t # stopping
    BY <1>3, <2>1
  <2> QED
    BY <2>1, <2>2 DEF NobodyForgotten
<1>6. RunningHaveKeys'
  <2>1. deleting' # None => container'[deleting'] # "running"
    BY <1>1, <1>2 DEF TypeOK
  <2> QED
    BY <1>1, <1>2, <1>3, <2>1 DEF RunningHaveKeys
<1> QED
  BY <1>4, <1>5, <1>6

\* Only the key of a container that is stopped is deleted.
LEMMA DeleteKeyStep == ASSUME OrchestratorInv, DeleteKey PROVE OrchestratorInv'
<1> USE DEF OrchestratorInv, Kinds
<1>1. /\ deleting # None /\ deleting \in Servers /\ deleting' = None
      /\ stopping = None /\ stopping' = None
      /\ UNCHANGED << sent, waiting, applied, current_shards, to_add, to_remove,
                      started, port, container, mishaps >>
  BY DEF DeleteKey, layoutVars, serverVars, TypeOK, StopsAreLast
<1>2. /\ faults' = faults \/ (faults < MaxFaults /\ faults' = faults + 1)
      /\ redis' = [redis EXCEPT ![deleting] = {}] \/ UNCHANGED redis
  BY DEF DeleteKey, Fault
<1>3. /\ redis' \in [Servers -> SUBSET {"port", "container_id", "ttl"}]
      /\ \A s \in Servers \ {deleting} : redis'[s] = redis[s]
  BY <1>1, <1>2 DEF TypeOK
<1>4. /\ FreshAreUnborn' /\ TasksAreNew' /\ TasksAreNeeded' /\ StopsAreLast'
      /\ LayoutUnderWay' /\ PortsAreFree' /\ TypeOK'
  <2>1. /\ mishaps' \subseteq Kinds
        /\ container' \in [Servers -> {"none", "starting", "running", "failed", "ended", "silent"}]
    BY <1>1 DEF TypeOK
  <2> QED
    BY <1>1, <1>2, <1>3, <2>1, QuietStep
<1>5. NobodyForgotten' /\ RunningHaveKeys'
  BY <1>1, <1>3 DEF NobodyForgotten, RunningHaveKeys
<1> QED
  BY <1>4, <1>5

\* A heartbeat makes a key where there is none.
LEMMA HeartbeatStep ==
  ASSUME OrchestratorInv, NEW s \in Servers, HandleHeartbeat(s) PROVE OrchestratorInv'
<1> USE DEF OrchestratorInv
<1> DEFINE key == WithField(redis[s], "ttl")
<1>1. /\ UNCHANGED << sent, waiting, applied, current_shards, to_add, to_remove, stopping,
                      deleting, started, port, faults, mishaps >>
      /\ container' = [container EXCEPT ![s] = IF @ = "ended" THEN "silent" ELSE @]
      /\ redis' = [redis EXCEPT ![s] = key]
  BY DEF HandleHeartbeat, layoutVars, handlerVars, serverVars
<1>2. key \in SUBSET {"port", "container_id", "ttl"} /\ key # {}
  BY DEF WithField, TypeOK
<1> HIDE DEF key
<1>3. /\ container' \in [Servers -> {"none", "starting", "running", "failed", "ended", "silent"}]
      /\ \A t \in Servers : \/ container'[t] = container[t]
                            \/ container[t] = "ended" /\ container'[t] = "silent"
  BY <1>1 DEF TypeOK
<1>4. /\ redis' \in [Servers -> SUBSET {"port", "container_id", "ttl"}]
      /\ \A t \in Servers : redis[t] # {} => redis'[t] # {}
  BY <1>1, <1>2 DEF TypeOK
<1>5. /\ FreshAreUnborn' /\ TasksAreNew' /\ TasksAreNeeded' /\ StopsAreLast'
      /\ LayoutUnderWay' /\ PortsAreFree' /\ TypeOK'
  <2>1. mishaps' \subseteq Kinds
    BY <1>1 DEF TypeOK
  <2> QED
    BY <1>1, <1>3, <1>4, <2>1, QuietStep
<1>6. NobodyForgotten'
  BY <1>1, <1>3 DEF NobodyForgotten
<1>7. RunningHaveKeys'
  BY <1>1, <1>3, <1>4 DEF RunningHaveKeys, TypeOK
<1> QED
  BY <1>5, <1>6, <1>7

\* A key expires of a container that has ended, or is named.
LEMMA ExpireStep ==
  ASSUME OrchestratorInv, NEW s \in Servers, Expire(s) PROVE OrchestratorInv'
<1> USE DEF OrchestratorInv
<1>1. /\ UNCHANGED << sent, waiting, applied, current_shards, to_add, to_remove, stopping,
                      deleting, started, port, container >>
      /\ redis' = [redis EXCEPT ![s] = {}]
      /\ faults' = faults \/ (faults < MaxFaults /\ faults' = faults + 1)
      /\ \/ container[s] # "running" /\ UNCHANGED mishaps
         \/ mishaps' = mishaps \cup {"keyExpired"}
  BY DEF Expire, layoutVars, handlerVars, serverVars, Fault, NoFault, Mishap
<1>2. /\ FreshAreUnborn' /\ TasksAreNew' /\ TasksAreNeeded' /\ StopsAreLast'
      /\ LayoutUnderWay' /\ PortsAreFree' /\ TypeOK'
  <2>1. mishaps \subseteq mishaps' /\ mishaps' \subseteq Kinds
    BY <1>1 DEF TypeOK, Kinds
  <2>2. redis' \in [Servers -> SUBSET {"port", "container_id", "ttl"}]
    BY <1>1 DEF TypeOK
  <2>3. container' \in [Servers -> {"none", "starting", "running", "failed", "ended", "silent"}]
    BY <1>1 DEF TypeOK
  <2> QED
    BY <1>1, <2>1, <2>2, <2>3, QuietStep
<1>3. NobodyForgotten'
  BY <1>1 DEF NobodyForgotten
<1>4. RunningHaveKeys'
  <2>1. \A t \in Servers \ {s} : redis'[t] = redis[t]
    BY <1>1 DEF TypeOK
  <2> QED
    BY <1>1, <2>1 DEF RunningHaveKeys, PortLosses
<1> QED
  BY <1>2, <1>3, <1>4

\* A container that ends is no server any more.
LEMMA CrashStep ==
  ASSUME OrchestratorInv, NEW s \in Servers, Crash(s) PROVE OrchestratorInv'
<1> USE DEF OrchestratorInv
<1>1. /\ UNCHANGED << sent, waiting, applied, current_shards, to_add, to_remove, stopping,
                      deleting, started, port, redis >>
      /\ container[s] = "running" /\ container' = [container EXCEPT ![s] = "ended"]
      /\ faults < MaxFaults /\ faults' = faults + 1
      /\ mishaps' = mishaps \cup {"crashed"}
  BY DEF Crash, layoutVars, handlerVars, serverVars, Fault, Mishap
<1>2. /\ container' \in [Servers -> {"none", "starting", "running", "failed", "ended", "silent"}]
      /\ \A t \in Servers : \/ container'[t] = container[t]
                            \/ container[t] = "running" /\ container'[t] = "ended"
  BY <1>1 DEF TypeOK
<1>3. /\ FreshAreUnborn' /\ TasksAreNew' /\ TasksAreNeeded' /\ StopsAreLast'
      /\ LayoutUnderWay' /\ PortsAreFree' /\ TypeOK'
  <2>1. mishaps \subseteq mishaps' /\ mishaps' \subseteq Kinds
    BY <1>1 DEF TypeOK, Kinds
  <2>2. redis' \in [Servers -> SUBSET {"port", "container_id", "ttl"}]
    BY <1>1 DEF TypeOK
  <2> QED
    BY <1>1, <1>2, <2>1, <2>2, QuietStep
<1>4. NobodyForgotten' /\ RunningHaveKeys'
  BY <1>1, <1>2 DEF NobodyForgotten, RunningHaveKeys, TypeOK
<1> QED
  BY <1>3, <1>4

\* A restart loses every server, and is named.
LEMMA RestartStep == ASSUME OrchestratorInv, Restart PROVE OrchestratorInv'
<1> USE DEF OrchestratorInv
<1>1. /\ UNCHANGED << sent, applied, started, port, redis >>
      /\ current_shards' = [b \in Boundaries |-> None] /\ waiting' = {}
      /\ to_add' = {} /\ to_remove' = {} /\ stopping' = None /\ deleting' = None
      /\ faults < MaxFaults /\ faults' = faults + 1
      /\ mishaps' = mishaps \cup {"restarted"}
  BY DEF Restart, serverVars, Fault, Mishap
<1>2. PICK done \in SUBSET (to_add \cup ({stopping} \ {None})) :
        container' = [s \in Servers |->
          CASE container[s] = "starting" -> IF s \in done /\ ~PortTaken(s) THEN "running" ELSE "failed"
            [] container[s] = "running" /\ s = stopping /\ s \in done -> "ended"
            [] OTHER -> container[s]]
  BY DEF Restart
<1>3. ASSUME NEW s \in Servers
      PROVE  /\ container'[s] \in {"none", "running", "failed", "ended", "silent"}
             /\ container'[s] = "none" <=> container[s] = "none"
  <2>1. container[s] \in {"none", "starting", "running", "failed", "ended", "silent"}
    BY DEF TypeOK
  <2>2. CASE container[s] = "starting"
    BY <1>2, <2>2
  <2>3. CASE container[s] # "starting"
    BY <1>2, <2>1, <2>3
  <2> QED
    BY <2>2, <2>3
<1>4. current_centers' = {}
  BY <1>1 DEF current_centers
<1>5. TypeOK'
  <2>1. container' \in [Servers -> {"none", "starting", "running", "failed", "ended", "silent"}]
    BY <1>2, <1>3
  <2>2. faults' \in 0..MaxFaults
    BY <1>1, OrchestratorAssumption DEF TypeOK
  <2>3. mishaps' \subseteq Kinds
    BY <1>1 DEF TypeOK, Kinds
  <2> QED
    BY <1>1, <1>4, <2>1, <2>2, <2>3 DEF TypeOK
<1>6. FreshAreUnborn' /\ TasksAreNew' /\ TasksAreNeeded' /\ StopsAreLast'
  BY <1>1, <1>3, <1>4 DEF FreshAreUnborn, TasksAreNew, TasksAreNeeded, StopsAreLast
<1>7. LayoutUnderWay' /\ NobodyForgotten' /\ RunningHaveKeys' /\ PortsAreFree'
  BY <1>1, <1>4 DEF LayoutUnderWay, NobodyForgotten, Losses, RunningHaveKeys, PortsAreFree, PortLosses
<1> QED
  BY <1>5, <1>6, <1>7

\* Every step keeps the invariant.
LEMMA OrchestratorStep == OrchestratorInv /\ [Next]_vars => OrchestratorInv'
<1> SUFFICES ASSUME OrchestratorInv, [Next]_vars PROVE OrchestratorInv'
  OBVIOUS
<1>1. ASSUME NEW layout \in Layouts, SendLayout(layout) PROVE OrchestratorInv'
  BY <1>1, SendLayoutStep
<1>2. ASSUME NEW m \in waiting, HandleShardUpdate(m) PROVE OrchestratorInv'
  BY <1>2, ShardUpdateStep
<1>3. ASSUME NEW s \in Servers, StartContainer(s) PROVE OrchestratorInv'
  BY <1>3, StartContainerStep
<1>4. ASSUME NEW s \in Servers, RegisterServer(s) PROVE OrchestratorInv'
  BY <1>4, RegisterServerStep
<1>5. ASSUME NEW b \in Boundaries, RemoveServer(b) PROVE OrchestratorInv'
  BY <1>5, RemoveServerStep
<1>6. CASE StopContainer
  BY <1>6, StopContainerStep
<1>7. CASE DeleteKey
  BY <1>7, DeleteKeyStep
<1>8. ASSUME NEW s \in Servers, HandleHeartbeat(s) PROVE OrchestratorInv'
  BY <1>8, HeartbeatStep
<1>9. ASSUME NEW s \in Servers, Expire(s) PROVE OrchestratorInv'
  BY <1>9, ExpireStep
<1>10. ASSUME NEW s \in Servers, Crash(s) PROVE OrchestratorInv'
  BY <1>10, CrashStep
<1>11. CASE Restart
  BY <1>11, RestartStep
<1>12. CASE UNCHANGED vars
  <2>1. current_centers' = current_centers
    BY <1>12 DEF vars, current_centers
  <2> QED
    BY <1>12, <2>1 DEF vars, OrchestratorInv, TypeOK, FreshAreUnborn, TasksAreNew,
         TasksAreNeeded, StopsAreLast, LayoutUnderWay, NobodyForgotten, RunningHaveKeys,
         PortsAreFree
<1> QED
  BY <1>1, <1>2, <1>3, <1>4, <1>5, <1>6, <1>7, <1>8, <1>9, <1>10, <1>11, <1>12 DEF Next

\* The invariant holds in every behaviour.
LEMMA OrchestratorInvariant == Spec => []OrchestratorInv
BY OrchestratorInit, OrchestratorStep, PTL DEF Spec

\* The tables of the orchestrator keep their types: a server is known for its
\* own boundary, and only known servers are to be removed.
THEOREM OrchestratorType == Spec => []TypeOK
<1>1. OrchestratorInv => TypeOK
  BY DEF OrchestratorInv
<1> QED
  BY <1>1, OrchestratorInvariant, PTL

\* A container that runs will be stopped when its boundary goes, unless one of
\* five things went wrong.
THEOREM NoServerIsForgotten == Spec => []NobodyForgotten
<1>1. OrchestratorInv => NobodyForgotten
  BY DEF OrchestratorInv
<1> QED
  BY <1>1, OrchestratorInvariant, PTL

\* Nor do two servers run for one boundary.
THEOREM BoundariesHaveOneServer == Spec => []OneServerPerBoundary
<1>1. ASSUME OrchestratorInv PROVE OneServerPerBoundary
  <2> SUFFICES ASSUME mishaps \cap Losses = {}, NEW s \in Servers, NEW t \in Servers,
                      container[s] = "running", container[t] = "running",
                      Center(s) = Center(t)
               PROVE  s = t
    BY DEF OneServerPerBoundary
  <2>1. "startedTwice" \notin mishaps
    BY DEF Losses
  <2>2. /\ s \in to_add \/ s = current_shards[Center(s)] \/ s = stopping
        /\ t \in to_add \/ t = current_shards[Center(s)] \/ t = stopping
    BY <1>1 DEF OrchestratorInv, NobodyForgotten
  <2>3. /\ s = current_shards[Center(s)] => Center(s) \in current_centers
        /\ t = current_shards[Center(s)] => Center(s) \in current_centers
        /\ s = stopping \/ t = stopping => stopping # None
    BY ServersHaveCenters DEF current_centers
  <2>4. /\ s \in to_add \/ t \in to_add => Center(s) \notin current_centers
        /\ s \in to_add /\ t \in to_add => s = t
    BY <1>1, <2>1 DEF OrchestratorInv, TasksAreNeeded
  <2>5. stopping # None => to_add = {} /\ Center(stopping) \notin current_centers
    BY <1>1 DEF OrchestratorInv, StopsAreLast
  <2> QED
    BY <2>2, <2>3, <2>4, <2>5
<1> QED
  BY <1>1, OrchestratorInvariant, PTL

\* A server is started on a port of no other, unless that one has no key.
THEOREM ServersGetFreePorts == Spec => []PortsAreFree
<1>1. OrchestratorInv => PortsAreFree
  BY DEF OrchestratorInv
<1> QED
  BY <1>1, OrchestratorInvariant, PTL

\* Between two layouts the servers known are those of the layout handled last.
THEOREM FleetIsAsOrdered == Spec => []FleetFollowsLayout
<1>1. ASSUME OrchestratorInv PROVE FleetFollowsLayout
  <2>1. Idle => to_remove = {} /\ to_add = {}
    BY DEF Idle
  <2> QED
    BY <1>1, <2>1 DEF OrchestratorInv, LayoutUnderWay, FleetFollowsLayout
<1> QED
  BY <1>1, OrchestratorInvariant, PTL
----------------------------------------------------------------------------
(***************************************************************************)
(* Fleet.                                                                  *)
(***************************************************************************)
Orderly == mishaps \cap Failures = {}

Runs == {s \in Servers : container[s] = "running"}

\* As long as nothing went wrong, what is known runs and spawn tasks have servers
\* that will run or run already.
FleetRuns ==
  Orderly => /\ \A s \in to_add : container[s] \in {"starting", "running"}
             /\ \A b \in current_centers : container[current_shards[b]] = "running"

FleetInv == OrchestratorInv /\ FleetRuns

\* While nothing goes wrong, a step that neither starts or stops a container nor
\* takes up another layout is none of the fleet.
LEMMA FleetStutters ==
  ASSUME Orderly, Orderly', Runs' = Runs,
         Listed(applied.layout)' = Listed(applied.layout)
  PROVE  UNCHANGED F!vars
BY DEF F!vars, Runs, Orderly

\* Nothing that went wrong is forgotten.
LEMMA MishapsStay == [Next]_vars => mishaps \subseteq mishaps'
BY DEF Next, vars, SendLayout, HandleShardUpdate, StartContainer, RegisterServer, RemoveServer,
       StopContainer, DeleteKey, HandleHeartbeat, Expire, Crash, Restart, NoFault, Mishap

\* Between two layouts exactly the boundaries of the last one are served.
LEMMA CarriedOut ==
  ASSUME FleetInv, Orderly, Idle
  PROVE  /\ current_centers = Listed(applied.layout)
         /\ {Center(s) : s \in Runs} = Listed(applied.layout)
<1>1. to_add = {} /\ to_remove = {} /\ stopping = None
  BY DEF Idle
<1>2. current_centers = Listed(applied.layout)
  BY <1>1 DEF FleetInv, OrchestratorInv, LayoutUnderWay, Orderly, Failures, Kinds
<1>3. ASSUME NEW s \in Runs PROVE Center(s) \in current_centers
  BY <1>1, ServersHaveCenters DEF Runs, FleetInv, OrchestratorInv, NobodyForgotten, Orderly,
     Failures, Kinds, Losses, current_centers
<1>4. ASSUME NEW b \in current_centers PROVE \E s \in Runs : Center(s) = b
  BY DEF FleetInv, FleetRuns, OrchestratorInv, TypeOK, Runs, current_centers
<1> QED
  BY <1>2, <1>3, <1>4

\* As soon as every spawn task has joined all boundaries of the layout are served.
LEMMA AllServed ==
  ASSUME FleetInv, Orderly, to_add = {}
  PROVE  /\ Listed(applied.layout) \subseteq current_centers
         /\ Listed(applied.layout) \subseteq {Center(s) : s \in Runs}
<1>1. Listed(applied.layout) \subseteq current_centers
  BY DEF FleetInv, OrchestratorInv, LayoutUnderWay, Orderly, Failures, Kinds
<1>2. ASSUME NEW b \in current_centers PROVE \E s \in Runs : Center(s) = b
  BY DEF FleetInv, FleetRuns, OrchestratorInv, TypeOK, Runs, current_centers
<1> QED
  BY <1>1, <1>2

\* Taking up a layout is an order of the fleet, or nothing new.
LEMMA FleetShardUpdate ==
  ASSUME FleetInv, Orderly, Orderly', NEW m \in waiting, HandleShardUpdate(m)
  PROVE  FleetRuns' /\ [F!Next]_(F!vars)
<1>1. /\ Idle /\ applied' = m /\ UNCHANGED current_shards
  BY DEF HandleShardUpdate
<1>2. current_centers' = current_centers
  BY <1>1 DEF current_centers
<1>3. m.layout \in [Boundaries -> Nat] /\ m.layout \in Layouts
  BY OrchestratorAssumption DEF FleetInv, OrchestratorInv, TypeOK
<1>4. CASE LayoutUnchanged(m.layout) /\ UNCHANGED << to_add, container >>
  <2>1. FleetRuns'
    BY <1>1, <1>2, <1>4 DEF FleetInv, FleetRuns
  <2>2. Listed(applied'.layout) = Listed(applied.layout) /\ Runs' = Runs
    BY <1>1, <1>4, CarriedOut DEF LayoutUnchanged, Runs
  <2> QED
    BY <2>1, <2>2, FleetStutters DEF Listed
<1>5. ASSUME NEW unread, NEW ports \in PortsFor(NewServers(m.layout), unread),
             Launch(m.layout, ports)
      PROVE  FleetRuns' /\ [F!Next]_(F!vars)
  <2>1. /\ DOMAIN ports = NewServers(m.layout)
        /\ \A s \in NewServers(m.layout) : s \in Servers /\ container[s] = "none"
    BY <1>1, <1>3, NewServersAreFresh DEF FleetInv, HandleShardUpdate
  <2>2. /\ to_add' = DOMAIN ports
        /\ container' = [s \in Servers |->
             IF s \in DOMAIN ports THEN "starting" ELSE container[s]]
    BY <1>5 DEF Launch
  <2>3. Runs' = Runs
    BY <2>1, <2>2 DEF Runs
  <2>4. FleetRuns'
    BY <1>1, <1>2, <2>1, <2>2 DEF FleetInv, FleetRuns, OrchestratorInv, TypeOK, current_centers
  <2>5. F!Order(Listed(m.layout))
    BY <1>1, <2>3, CarriedOut DEF F!Order, F!Served, Runs, Orderly, Center
  <2> QED
    BY <2>4, <2>5 DEF F!Next, Listed
<1>6. ASSUME Mishap("noPorts") PROVE FALSE
  BY <1>6 DEF Mishap, Orderly, Failures, Kinds
<1> QED
  BY <1>4, <1>5, <1>6 DEF HandleShardUpdate

\* A container that starts is the first of its boundary.
LEMMA FleetStartContainer ==
  ASSUME FleetInv, Orderly, Orderly', NEW s \in Servers, StartContainer(s)
  PROVE  FleetRuns' /\ [F!Next]_(F!vars)
<1>1. /\ s \in to_add /\ container[s] = "starting"
      /\ container' = [container EXCEPT ![s] = "running"]
      /\ UNCHANGED << to_add, current_shards, applied >>
  BY DEF StartContainer, layoutVars, Mishap, Orderly, Failures, Kinds
<1>2. Runs' = Runs \cup {s}
  BY <1>1 DEF Runs, FleetInv, OrchestratorInv, TypeOK
<1>3. FleetRuns'
  BY <1>1 DEF FleetInv, FleetRuns, OrchestratorInv, TypeOK, current_centers
<1>4. Center(s) \in Listed(applied.layout)
  BY <1>1 DEF FleetInv, OrchestratorInv, LayoutUnderWay
<1>5. ASSUME NEW t \in Runs PROVE Center(t) # Center(s)
  <2>1. t \in to_add \/ t = current_shards[Center(t)] \/ t = stopping
    BY DEF Runs, FleetInv, OrchestratorInv, NobodyForgotten, Orderly, Failures, Kinds, Losses
  <2>2. t # stopping
    BY <1>1, ServersHaveCenters DEF Runs, FleetInv, OrchestratorInv, StopsAreLast
  <2>3. t # s
    BY <1>1 DEF Runs
  <2>4. "startedTwice" \notin mishaps
    BY DEF Orderly, Failures, Kinds
  <2>5. CASE t \in to_add
    BY <1>1, <2>3, <2>4, <2>5 DEF FleetInv, OrchestratorInv, TasksAreNeeded
  <2>6. CASE t = current_shards[Center(t)]
    BY <1>1, <2>4, <2>6, ServersHaveCenters DEF Runs, FleetInv, OrchestratorInv, TasksAreNeeded,
       current_centers
  <2> QED
    BY <2>1, <2>2, <2>5, <2>6
<1>6. F!Start(s)
  BY <1>1, <1>2, <1>4, <1>5 DEF F!Start, F!Served, Runs, Orderly, Center
<1> QED
  BY <1>3, <1>6 DEF F!Next

\* A container is stopped when all that the layout has run.
LEMMA FleetStopContainer ==
  ASSUME FleetInv, Orderly, Orderly', StopContainer
  PROVE  FleetRuns' /\ [F!Next]_(F!vars)
<1>1. /\ stopping # None
      /\ container' = [container EXCEPT ![stopping] = IF @ = "running" THEN "ended" ELSE @]
      /\ UNCHANGED << to_add, current_shards, applied >>
  BY DEF StopContainer, layoutVars, Mishap, Orderly, Failures, Kinds
<1>2. stopping \in Servers /\ to_add = {} /\ Center(stopping) \notin current_centers
  BY <1>1 DEF FleetInv, OrchestratorInv, TypeOK, StopsAreLast
<1>3. Runs' = Runs \ {stopping}
  BY <1>1, <1>2 DEF Runs, FleetInv, OrchestratorInv, TypeOK
<1>4. FleetRuns'
  <2>1. current_centers' = current_centers
    BY <1>1 DEF current_centers
  <2>2. ASSUME NEW b \in current_centers
        PROVE  container'[current_shards[b]] = "running"
    BY <1>1, <1>2 DEF FleetInv, FleetRuns, OrchestratorInv, TypeOK, current_centers
  <2> QED
    BY <1>1, <1>2, <2>1, <2>2 DEF FleetRuns
<1>5. CASE stopping \notin Runs
  BY <1>1, <1>3, <1>4, <1>5, FleetStutters DEF Listed
<1>6. CASE stopping \in Runs
  <2>1. /\ Listed(applied.layout) \subseteq {Center(s) : s \in Runs}
        /\ Center(stopping) \notin Listed(applied.layout)
    BY <1>2, AllServed
  <2>2. PICK s \in Servers : s = stopping
    BY <1>2
  <2>3. F!Stop(s)
    BY <1>1, <1>3, <1>6, <2>1, <2>2 DEF F!Stop, F!Served, Runs, Orderly, Center
  <2> QED
    BY <1>4, <2>3 DEF F!Next
<1> QED
  BY <1>5, <1>6

\* Everything else leaves the containers that run as they are.
LEMMA FleetOtherStep ==
  ASSUME FleetInv, Orderly, Orderly',
         \/ \E layout \in Layouts : SendLayout(layout)
         \/ \E s \in Servers : RegisterServer(s) \/ HandleHeartbeat(s) \/ Expire(s) \/ Crash(s)
         \/ \E b \in Boundaries : RemoveServer(b)
         \/ DeleteKey \/ Restart \/ UNCHANGED vars
  PROVE  FleetRuns' /\ UNCHANGED F!vars
<1>1. /\ ~Restart
      /\ \A s \in Servers : ~Crash(s)
  BY DEF Restart, Crash, Mishap, Orderly, Failures, Kinds
<1>2. applied' = applied /\ Runs' = Runs
  BY <1>1 DEF SendLayout, RegisterServer, HandleHeartbeat, Expire, RemoveServer, DeleteKey, vars,
     layoutVars, Runs, FleetInv, OrchestratorInv, TypeOK
<1>3. ASSUME NEW s \in Servers, RegisterServer(s) PROVE FleetRuns'
  <2>1. /\ s \in to_add /\ container[s] # "starting" /\ to_add' = to_add \ {s}
        /\ current_shards' = [current_shards EXCEPT ![Center(s)] = s]
        /\ UNCHANGED container
    BY <1>3 DEF RegisterServer, Mishap, Orderly, Failures, Kinds
  <2>2. container[s] = "running"
    BY <2>1 DEF FleetInv, FleetRuns
  <2>3. ASSUME NEW b \in current_centers' PROVE container[current_shards'[b]] = "running"
    BY <2>1, <2>2 DEF FleetInv, FleetRuns, OrchestratorInv, TypeOK, current_centers
  <2> QED
    BY <2>1, <2>3 DEF FleetInv, FleetRuns
<1>4. ASSUME NEW b \in Boundaries, RemoveServer(b) PROVE FleetRuns'
  <2>1. /\ current_shards' = [current_shards EXCEPT ![b] = None]
        /\ UNCHANGED << to_add, container >>
    BY <1>4 DEF RemoveServer
  <2>2. ASSUME NEW c \in current_centers' PROVE container[current_shards'[c]] = "running"
    BY <2>1 DEF FleetInv, FleetRuns, OrchestratorInv, TypeOK, current_centers
  <2> QED
    BY <2>1, <2>2 DEF FleetInv, FleetRuns
<1>5. ASSUME NEW s \in Servers, HandleHeartbeat(s) PROVE FleetRuns'
  <2>1. /\ UNCHANGED << to_add, current_shards >>
        /\ container' = [container EXCEPT ![s] = IF @ = "ended" THEN "silent" ELSE @]
    BY <1>5 DEF HandleHeartbeat, handlerVars
  <2>2. \A t \in Servers : container[t] # "ended" => container'[t] = container[t]
    BY <2>1 DEF FleetInv, OrchestratorInv, TypeOK
  <2> QED
    BY <2>1, <2>2 DEF FleetInv, FleetRuns, OrchestratorInv, TypeOK, current_centers
<1>6. ASSUME \/ \E layout \in Layouts : SendLayout(layout)
             \/ \E s \in Servers : Expire(s)
             \/ DeleteKey \/ UNCHANGED vars
      PROVE  FleetRuns'
  <2>1. UNCHANGED << to_add, current_shards, container >>
    BY <1>1, <1>6 DEF SendLayout, Expire, DeleteKey, vars, handlerVars
  <2>2. current_centers' = current_centers
    BY <2>1 DEF current_centers
  <2> QED
    BY <2>1, <2>2 DEF FleetInv, FleetRuns
<1> QED
  BY <1>1, <1>2, <1>3, <1>4, <1>5, <1>6, FleetStutters DEF Listed

\* Every step is one of the fleet, or of a fleet in disorder, or none.
LEMMA FleetStep == FleetInv /\ [Next]_vars => FleetInv' /\ [F!Next]_(F!vars)
<1> SUFFICES ASSUME FleetInv, [Next]_vars PROVE FleetInv' /\ [F!Next]_(F!vars)
  OBVIOUS
<1>1. OrchestratorInv'
  BY OrchestratorStep DEF FleetInv
<1>2. CASE Orderly /\ Orderly'
  <2>1. FleetRuns' /\ [F!Next]_(F!vars)
    BY <1>2, FleetShardUpdate, FleetStartContainer, FleetStopContainer, FleetOtherStep DEF Next
  <2> QED
    BY <1>1, <2>1 DEF FleetInv
<1>3. CASE ~Orderly'
  <2>1. Listed(applied.layout)' \in SUBSET Boundaries /\ Runs' \in SUBSET Servers
    BY DEF Listed, Runs
  <2>2. F!Disorder
    BY <1>3, <2>1 DEF F!Disorder, Orderly, Runs
  <2> QED
    BY <1>1, <1>3, <2>2 DEF F!Next, FleetInv, FleetRuns
<1>4. Orderly' => Orderly
  BY MishapsStay DEF Orderly
<1> QED
  BY <1>2, <1>3, <1>4

\* At first nothing is ordered and nothing runs.
LEMMA FleetInit == Init => FleetInv /\ F!Init
<1> SUFFICES ASSUME Init PROVE FleetInv /\ F!Init
  OBVIOUS
<1>1. FleetRuns
  BY DEF Init, FleetRuns, current_centers
<1>2. Listed(applied.layout) = {} /\ Runs = {} /\ Orderly
  BY DEF Init, Listed, Runs, Orderly
<1> QED
  BY <1>1, <1>2, OrchestratorInit DEF FleetInv, F!Init, Runs, Orderly

\* The orchestrator implements the turn from one layout to the next, with any
\* layouts in any order: a boundary that stays keeps its server, and none is shut
\* down before those of all boundaries of the layout run.
THEOREM OrchestratorImplementsFleet == Spec => LayoutsAreCarriedOut
<1>1. Spec => []FleetInv
  BY FleetInit, FleetStep, PTL DEF Spec
<1> QED
  BY <1>1, FleetInit, FleetStep, PTL DEF Spec, F!Spec, LayoutsAreCarriedOut
=============================================================================
