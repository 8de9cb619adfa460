------------------------ MODULE AreaOfInterestProofs ------------------------
(***************************************************************************)
(* Proofs about AreaOfInterest, for any entities, places, topics and       *)
(* bounds.                                                                 *)
(***************************************************************************)
EXTENDS AreaOfInterest, TLAPS

\* The broadcasts about e that are on their way, by their place in the queue.
StartAt(e, i) ==
  i \in 1 .. Len(broadcasts) /\ broadcasts[i].type = "Start" /\ broadcasts[i].entity = e

EndAt(e, i) == i \in 1 .. Len(broadcasts) /\ broadcasts[i] = EndMsg(e)

\* Of a client that has come back only when it was forgotten, the quadtree has
\* one entry, one player that waits or one broadcast, and it reads the end of
\* the former connection before any of them.
OneEntry ==
  \A e \in Entities : client[e] # "off" /\ e \notin returned =>
    /\ client[e] = "connected" => ~Held(e)
    /\ Known(e) => ~Waits(e)
    /\ \A p, q \in Places : << e, p >> \in pending_players /\ << e, q >> \in pending_players => p = q
    /\ \A i \in Nat : StartAt(e, i) => ~Known(e) /\ ~Waits(e)
    /\ \A i, j \in Nat : StartAt(e, i) /\ StartAt(e, j) => i = j
    /\ \A i \in Nat : EndAt(e, i) => /\ ~Known(e) /\ ~Waits(e)
                                     /\ \A j \in Nat : StartAt(e, j) => i < j

\* The end of a client follows whatever would make it an entry.
EndsAreComing ==
  \A e \in Entities : client[e] = "off" /\ e \notin missed =>
    /\ Known(e) \/ Waits(e) => \E i \in Nat : EndAt(e, i)
    /\ \A j \in Nat : StartAt(e, j) => \E i \in Nat : j < i /\ EndAt(e, i)

\* The changes of a pass lead to the interest that was stored before it.
ChangesAreStored ==
  /\ \A c \in pending_updates :
       Known(c.entity) /\ (c.subscribes <=> c.other \in entities_in_interest[c.entity])
  /\ \A c, d \in pending_updates : c.entity = d.entity /\ c.other = d.other => c = d

\* The i-th message of a change has not been sent.
Unsent(e, o, i) ==
  \E c \in pending_updates : c.entity = e /\ c.other = o /\ c.next <= i

\* A subscription differs from the interest exactly if its message is unsent.
SubscriptionsFollow ==
  \A e \in Entities : client[e] # "off" /\ e \notin returned =>
    \A i \in 1 .. Len(Topics), o \in Entities :
      (o \in subscriptions[i][e] <=> o \in entities_in_interest[e]) <=> ~Unsent(e, o, i)

InterestInv ==
  TypeOK /\ OneEntry /\ EndsAreComing /\ ChangesAreStored /\ SubscriptionsFollow
----------------------------------------------------------------------------
\* The shape of the broadcasts.
LEMMA MessageShapes ==
  /\ \A e \in Entities : EndMsg(e) \in Messages
  /\ \A e \in Entities, p \in Places : PosMsg(e, p) \in Messages /\ StartMsg(e, p) \in Messages
  /\ \A m \in Messages : /\ m.entity \in Entities
                         /\ m.type \in {"Position", "Start", "Disconnect"}
                         /\ m.type # "Disconnect" => m.pos \in Places
                         /\ m.type = "Disconnect" => m = EndMsg(m.entity)
  /\ \A e, f \in Entities : EndMsg(e) = EndMsg(f) => e = f
  /\ \A e, f \in Entities, p \in Places : EndMsg(e) # PosMsg(f, p) /\ EndMsg(e) # StartMsg(f, p)
<1>1. /\ \A e \in Entities : EndMsg(e) \in Messages
      /\ \A e \in Entities, p \in Places : PosMsg(e, p) \in Messages /\ StartMsg(e, p) \in Messages
  BY DEF Messages
<1>2. /\ \A e : EndMsg(e).type = "Disconnect" /\ EndMsg(e).entity = e
      /\ \A e, p : /\ PosMsg(e, p).type = "Position" /\ PosMsg(e, p).entity = e
                   /\ PosMsg(e, p).pos = p
                   /\ StartMsg(e, p).type = "Start" /\ StartMsg(e, p).entity = e
                   /\ StartMsg(e, p).pos = p
  BY DEF EndMsg, PosMsg, StartMsg
<1>3. \A m \in Messages :
        \/ \E e \in Entities, p \in Places : m = PosMsg(e, p) \/ m = StartMsg(e, p)
        \/ \E e \in Entities : m = EndMsg(e)
  BY DEF Messages
<1>4. \A m \in Messages : /\ m.entity \in Entities
                          /\ m.type \in {"Position", "Start", "Disconnect"}
                          /\ m.type # "Disconnect" => m.pos \in Places
                          /\ m.type = "Disconnect" => m = EndMsg(m.entity)
  BY <1>2, <1>3
<1>5. /\ \A e, f \in Entities : EndMsg(e) = EndMsg(f) => e = f
      /\ \A e, f \in Entities, p \in Places :
           EndMsg(e) # PosMsg(f, p) /\ EndMsg(e) # StartMsg(f, p)
  BY <1>2
<1> QED
  BY <1>1, <1>4, <1>5

\* A broadcast more comes last.
LEMMA AppendAt ==
  ASSUME broadcasts \in Seq(Messages), NEW m \in Messages, broadcasts' = Append(broadcasts, m)
  PROVE  /\ broadcasts' \in Seq(Messages)
         /\ \A e \in Entities, i \in Nat :
              /\ StartAt(e, i)' <=>
                   StartAt(e, i) \/ (i = Len(broadcasts) + 1 /\ m.type = "Start" /\ m.entity = e)
              /\ EndAt(e, i)' <=> EndAt(e, i) \/ (i = Len(broadcasts) + 1 /\ m = EndMsg(e))
<1>1. Len(broadcasts) \in Nat /\ Len(broadcasts') = Len(broadcasts) + 1
  OBVIOUS
<1>2. \A i \in 1 .. Len(broadcasts') :
        broadcasts'[i] = IF i = Len(broadcasts) + 1 THEN m ELSE broadcasts[i]
  OBVIOUS
<1> QED
  BY <1>1, <1>2 DEF StartAt, EndAt

\* Reading a broadcast moves the others one place on.
LEMMA TailAt ==
  ASSUME broadcasts \in Seq(Messages), broadcasts # << >>, broadcasts' = Tail(broadcasts)
  PROVE  /\ broadcasts' \in Seq(Messages)
         /\ Head(broadcasts) \in Messages
         /\ \A e \in Entities, i \in Nat :
              /\ StartAt(e, i)' <=> i # 0 /\ StartAt(e, i + 1)
              /\ EndAt(e, i)' <=> i # 0 /\ EndAt(e, i + 1)
         /\ \A e \in Entities :
              /\ StartAt(e, 1) <=> Head(broadcasts).type = "Start" /\ Head(broadcasts).entity = e
              /\ EndAt(e, 1) <=> Head(broadcasts) = EndMsg(e)
         /\ \A e \in Entities : ~StartAt(e, 0) /\ ~EndAt(e, 0)
<1>1. /\ Len(broadcasts) \in Nat \ {0} /\ Len(broadcasts') = Len(broadcasts) - 1
      /\ Head(broadcasts) = broadcasts[1] /\ broadcasts[1] \in Messages
      /\ broadcasts' \in Seq(Messages)
  OBVIOUS
<1>2. \A i \in 1 .. Len(broadcasts') : broadcasts'[i] = broadcasts[i + 1]
  OBVIOUS
<1> QED
  BY <1>1, <1>2 DEF StartAt, EndAt

\* Held, by the places of the queue.
LEMMA HeldAt ==
  \A e \in Entities : Held(e) <=> Known(e) \/ Waits(e) \/ \E i \in Nat : StartAt(e, i)
BY DEF Held, StartAt
----------------------------------------------------------------------------
\* A number from two on follows another one.
LEMMA Predecessor == \A i \in Nat : i = 0 \/ i = 1 \/ \E j \in Nat \ {0} : i = j + 1
<1> SUFFICES ASSUME NEW i \in Nat \ {0, 1} PROVE \E j \in Nat \ {0} : i = j + 1
  OBVIOUS
<1>1. i - 1 \in Nat \ {0} /\ i = (i - 1) + 1
  OBVIOUS
<1> QED
  BY <1>1

\* Nobody is there at first.
LEMMA InterestInit == Init => InterestInv
<1> SUFFICES ASSUME Init PROVE InterestInv
  OBVIOUS
<1> USE InterestAssumption DEF Init
<1>1. Len(Topics) \in Nat /\ Len(broadcasts) = 0 /\ broadcasts \in Seq(Messages)
  OBVIOUS
<1>2. TypeOK
  BY <1>1 DEF TypeOK, Known
<1>3. OneEntry /\ EndsAreComing
  BY <1>1 DEF OneEntry, EndsAreComing, Known, Waits, StartAt
<1>4. ChangesAreStored /\ SubscriptionsFollow
  BY DEF ChangesAreStored, SubscriptionsFollow, Unsent
<1> QED
  BY <1>2, <1>3, <1>4 DEF InterestInv

\* Whoever connects starts without subscriptions; it has come back too early if
\* anything of it is held.
LEMMA ConnectStep ==
  ASSUME InterestInv, NEW e \in Entities, Connect(e)
  PROVE  InterestInv'
<1> USE DEF InterestInv, Connect, clientVars, quadtreeVars, history
<1>0. /\ \A f \in Entities : (Known(f)' <=> Known(f)) /\ (Waits(f)' <=> Waits(f))
      /\ \A f \in Entities, i \in Nat :
           (StartAt(f, i)' <=> StartAt(f, i)) /\ (EndAt(f, i)' <=> EndAt(f, i))
      /\ \A f \in Entities : Held(f)' <=> Held(f)
  BY DEF Known, Waits, StartAt, EndAt, Held
<1>1. subscriptions' \in [1 .. Len(Topics) -> [Entities -> SUBSET Entities]]
  BY DEF TypeOK, Unsubscribed
<1>2. TypeOK'
  BY <1>0, <1>1 DEF TypeOK
<1>3. OneEntry'
  <2> SUFFICES ASSUME NEW f \in Entities, client'[f] # "off", f \notin returned'
               PROVE  /\ client'[f] = "connected" => ~Held(f)'
                      /\ Known(f)' => ~Waits(f)'
                      /\ \A p, q \in Places : << f, p >> \in pending_players' /\ << f, q >> \in pending_players' => p = q
                      /\ \A i \in Nat : StartAt(f, i)' => ~Known(f)' /\ ~Waits(f)'
                      /\ \A i, j \in Nat : StartAt(f, i)' /\ StartAt(f, j)' => i = j
                      /\ \A i \in Nat : EndAt(f, i)' => /\ ~Known(f)' /\ ~Waits(f)'
                                                       /\ \A j \in Nat : StartAt(f, j)' => i < j
    BY DEF OneEntry
  <2>1. CASE f = e
    <3>1. ~Held(e)
      BY <2>1
    <3> QED
      BY <1>0, <2>1, <3>1, HeldAt DEF Waits
  <2>2. CASE f # e
    <3>1. client[f] # "off" /\ f \notin returned /\ client'[f] = client[f]
      BY <2>2 DEF TypeOK
    <3> QED
      BY <1>0, <3>1 DEF OneEntry
  <2> QED
    BY <2>1, <2>2
<1>4. EndsAreComing'
  BY <1>0 DEF EndsAreComing, TypeOK
<1>5. ChangesAreStored'
  BY DEF ChangesAreStored, Known
<1>6. SubscriptionsFollow'
  <2> SUFFICES ASSUME NEW f \in Entities, client'[f] # "off", f \notin returned',
                      NEW i \in 1 .. Len(Topics), NEW o \in Entities
               PROVE  (o \in subscriptions'[i][f] <=> o \in entities_in_interest[f]) <=> ~Unsent(f, o, i)
    BY DEF SubscriptionsFollow, Unsent
  <2>1. CASE f = e
    <3>1. ~Known(e)
      BY <2>1 DEF Held
    <3>2. entities_in_interest[e] = {} /\ ~Unsent(e, o, i)
      BY <3>1 DEF TypeOK, ChangesAreStored, Unsent
    <3>3. subscriptions'[i][e] = {}
      BY DEF TypeOK, Unsubscribed
    <3> QED
      BY <2>1, <3>2, <3>3
  <2>2. CASE f # e
    BY <2>2 DEF TypeOK, Unsubscribed, SubscriptionsFollow
  <2> QED
    BY <2>1, <2>2
<1> QED
  BY <1>2, <1>3, <1>4, <1>5, <1>6

\* The start of a client nothing is held of comes after the end of its former
\* connection.
LEMMA StartStep ==
  ASSUME InterestInv, NEW e \in Entities, NEW p \in Places, Start(e, p)
  PROVE  InterestInv'
<1> USE DEF InterestInv, Start, quadtreeVars, history
<1>0. /\ \A f \in Entities : (Known(f)' <=> Known(f)) /\ (Waits(f)' <=> Waits(f))
      /\ StartMsg(e, p) \in Messages /\ StartMsg(e, p).type = "Start"
      /\ StartMsg(e, p).entity = e /\ \A f \in Entities : StartMsg(e, p) # EndMsg(f)
  BY MessageShapes DEF Known, Waits, StartMsg
<1>1. /\ broadcasts' \in Seq(Messages) /\ Len(broadcasts) \in Nat
      /\ \A f \in Entities, i \in Nat :
           /\ StartAt(f, i)' <=> StartAt(f, i) \/ (i = Len(broadcasts) + 1 /\ e = f)
           /\ EndAt(f, i)' <=> EndAt(f, i)
  BY <1>0, AppendAt DEF TypeOK
<1>2. \A f \in Entities, i \in Nat : StartAt(f, i) \/ EndAt(f, i) => i <= Len(broadcasts)
  BY <1>1 DEF StartAt, EndAt
<1>3. TypeOK'
  BY <1>0, <1>1 DEF TypeOK
<1>4. OneEntry'
  <2> SUFFICES ASSUME NEW f \in Entities, client'[f] # "off", f \notin returned
               PROVE  /\ client'[f] = "connected" => ~Held(f)'
                      /\ Known(f) => ~Waits(f)
                      /\ \A q, r \in Places : << f, q >> \in pending_players /\ << f, r >> \in pending_players => q = r
                      /\ \A i \in Nat : StartAt(f, i)' => ~Known(f) /\ ~Waits(f)
                      /\ \A i, j \in Nat : StartAt(f, i)' /\ StartAt(f, j)' => i = j
                      /\ \A i \in Nat : EndAt(f, i) => /\ ~Known(f) /\ ~Waits(f)
                                                      /\ \A j \in Nat : StartAt(f, j)' => i < j
    BY <1>0, <1>1 DEF OneEntry
  <2>1. CASE f = e
    <3>1. client[f] = "connected" /\ client'[f] = "started" /\ ~Held(f)
      BY <2>1 DEF TypeOK, OneEntry
    <3>2. ~Known(f) /\ ~Waits(f) /\ \A i \in Nat : ~StartAt(f, i)
      BY <3>1, HeldAt
    <3>3. \A i \in Nat : StartAt(f, i)' => i = Len(broadcasts) + 1
      BY <1>1, <3>2
    <3>4. \A i \in Nat : EndAt(f, i) => i < Len(broadcasts) + 1
      BY <1>1, <1>2
    <3>5. \A q \in Places : << f, q >> \notin pending_players
      BY <3>2 DEF Waits
    <3> QED
      BY <3>1, <3>2, <3>3, <3>4, <3>5
  <2>2. CASE f # e
    <3>1. client[f] # "off" /\ client'[f] = client[f]
      BY <2>2 DEF TypeOK
    <3>2. \A i \in Nat : StartAt(f, i)' <=> StartAt(f, i)
      BY <1>1, <2>2
    <3>3. Held(f)' <=> Held(f)
      <4>1. Held(f)' <=> Known(f)' \/ Waits(f)' \/ \E i \in Nat : StartAt(f, i)'
        BY DEF Held, StartAt
      <4> QED
        BY <1>0, <3>2, <4>1, HeldAt
    <3> QED
      BY <1>1, <3>1, <3>2, <3>3 DEF OneEntry
  <2> QED
    BY <2>1, <2>2
<1>5. EndsAreComing'
  <2> SUFFICES ASSUME NEW f \in Entities, client'[f] = "off", f \notin missed
               PROVE  /\ Known(f) \/ Waits(f) => \E i \in Nat : EndAt(f, i)
                      /\ \A j \in Nat : StartAt(f, j)' => \E i \in Nat : j < i /\ EndAt(f, i)
    BY <1>0, <1>1 DEF EndsAreComing
  <2>1. f # e /\ client[f] = "off"
    BY DEF TypeOK
  <2> QED
    BY <1>1, <2>1 DEF EndsAreComing
<1>6. ChangesAreStored' /\ SubscriptionsFollow'
  <2>1. \A f \in Entities : client'[f] # "off" => client[f] # "off"
    BY DEF TypeOK
  <2>2. ChangesAreStored'
    BY DEF ChangesAreStored, Known
  <2>3. SubscriptionsFollow'
    BY <2>1 DEF SubscriptionsFollow, Unsent
  <2> QED
    BY <2>2, <2>3
<1> QED
  BY <1>3, <1>4, <1>5, <1>6

\* The end of a client that is watched is put last; of one that is not, nothing
\* is due.
LEMMA DisconnectStep ==
  ASSUME InterestInv, NEW e \in Entities, Disconnect(e)
  PROVE  InterestInv'
<1> USE DEF InterestInv, Disconnect, quadtreeVars
<1>0. /\ \A f \in Entities : (Known(f)' <=> Known(f)) /\ (Waits(f)' <=> Waits(f))
      /\ EndMsg(e) \in Messages /\ EndMsg(e).type # "Start" /\ EndMsg(e).entity = e
  BY MessageShapes DEF Known, Waits, EndMsg
<1>1. /\ broadcasts' \in Seq(Messages) /\ Len(broadcasts) \in Nat
      /\ \A f \in Entities, i \in Nat :
           /\ StartAt(f, i)' <=> StartAt(f, i)
           /\ EndAt(f, i)' <=> EndAt(f, i) \/ (e \in watched /\ i = Len(broadcasts) + 1 /\ f = e)
  <2>1. CASE e \in watched
    <3>1. broadcasts' = Append(broadcasts, EndMsg(e))
      BY <1>0, <2>1 DEF Heard
    <3>2. \A f \in Entities : EndMsg(e) = EndMsg(f) <=> f = e
      BY MessageShapes
    <3> QED
      BY <1>0, <2>1, <3>1, <3>2, AppendAt DEF TypeOK
  <2>2. CASE e \notin watched
    <3>1. broadcasts' = broadcasts
      BY <1>0, <2>2 DEF Heard
    <3> QED
      BY <2>2, <3>1 DEF TypeOK, StartAt, EndAt
  <2> QED
    BY <2>1, <2>2
<1>2. \A f \in Entities, i \in Nat : StartAt(f, i) => i < Len(broadcasts) + 1
  BY <1>1 DEF StartAt
<1>3. TypeOK'
  <2>1. subscriptions' \in [1 .. Len(Topics) -> [Entities -> SUBSET Entities]]
    BY DEF TypeOK, Unsubscribed
  <2> QED
    BY <1>0, <1>1, <2>1 DEF TypeOK
<1>4. \A f \in Entities : client'[f] # "off" => f # e /\ client[f] = client'[f]
  BY DEF TypeOK
<1>5. OneEntry'
  <2>1. \A f \in Entities : Held(f)' <=> Held(f)
    <3>1. \A f \in Entities : Held(f)' <=> Known(f)' \/ Waits(f)' \/ \E i \in Nat : StartAt(f, i)'
      BY DEF Held, StartAt
    <3> QED
      BY <1>0, <1>1, <3>1, HeldAt
  <2> QED
    BY <1>0, <1>1, <1>4, <2>1 DEF OneEntry
<1>6. EndsAreComing'
  <2> SUFFICES ASSUME NEW f \in Entities, client'[f] = "off", f \notin missed'
               PROVE  /\ Known(f) \/ Waits(f) => \E i \in Nat : EndAt(f, i)'
                      /\ \A j \in Nat : StartAt(f, j) => \E i \in Nat : j < i /\ EndAt(f, i)'
    BY <1>0, <1>1 DEF EndsAreComing
  <2>1. CASE f = e
    <3>1. e \in watched
      BY <2>1
    <3>2. PICK last \in Nat : last = Len(broadcasts) + 1
      BY <1>1
    <3>3. EndAt(f, last)'
      BY <1>1, <2>1, <3>1, <3>2
    <3> QED
      BY <1>2, <3>2, <3>3
  <2>2. CASE f # e
    <3>1. client[f] = "off" /\ f \notin missed
      BY <2>2 DEF TypeOK
    <3> QED
      BY <1>1, <3>1 DEF EndsAreComing
  <2> QED
    BY <2>1, <2>2
<1>7. ChangesAreStored'
  BY DEF ChangesAreStored, Known
<1>8. SubscriptionsFollow'
  <2>1. \A i \in 1 .. Len(Topics), f \in Entities \ {e} : subscriptions'[i][f] = subscriptions[i][f]
    BY DEF TypeOK, Unsubscribed
  <2> QED
    BY <1>4, <2>1 DEF SubscriptionsFollow, Unsent
<1> QED
  BY <1>3, <1>5, <1>6, <1>7, <1>8

\* What a broadcast position leaves as it is.
LEMMA PositionSent ==
  ASSUME InterestInv, NEW e \in Entities, NEW p \in Places, broadcasts' = Heard(PosMsg(e, p))
  PROVE  /\ broadcasts' \in Seq(Messages)
         /\ \A f \in Entities, i \in Nat :
              (StartAt(f, i)' <=> StartAt(f, i)) /\ (EndAt(f, i)' <=> EndAt(f, i))
<1>0. /\ PosMsg(e, p) \in Messages /\ PosMsg(e, p).type # "Start"
      /\ \A f \in Entities : PosMsg(e, p) # EndMsg(f)
  BY MessageShapes DEF PosMsg
<1>1. broadcasts \in Seq(Messages)
  BY DEF InterestInv, TypeOK
<1>2. CASE broadcasts' = Append(broadcasts, PosMsg(e, p))
  BY <1>0, <1>1, <1>2, AppendAt
<1>3. CASE broadcasts' = broadcasts
  BY <1>1, <1>3 DEF StartAt, EndAt
<1> QED
  BY <1>2, <1>3 DEF Heard

\* A position adds no start and no end.
LEMMA MoveStep ==
  ASSUME InterestInv, NEW e \in Entities, NEW p \in Places, Move(e, p)
  PROVE  InterestInv'
<1> USE DEF InterestInv, Move, quadtreeVars, history
<1>1. /\ broadcasts' \in Seq(Messages)
      /\ \A f \in Entities, i \in Nat :
           (StartAt(f, i)' <=> StartAt(f, i)) /\ (EndAt(f, i)' <=> EndAt(f, i))
  BY PositionSent
<1>2. \A f \in Entities : (Known(f)' <=> Known(f)) /\ (Waits(f)' <=> Waits(f))
  BY DEF Known, Waits
<1>3. \A f \in Entities : Held(f)' <=> Held(f)
  <2>1. \A f \in Entities : Held(f)' <=> Known(f)' \/ Waits(f)' \/ \E i \in Nat : StartAt(f, i)'
    BY DEF Held, StartAt
  <2> QED
    BY <1>1, <1>2, <2>1, HeldAt
<1>4. TypeOK'
  BY <1>1, <1>2 DEF TypeOK
<1>5. OneEntry' /\ EndsAreComing'
  BY <1>1, <1>2, <1>3 DEF OneEntry, EndsAreComing
<1>6. ChangesAreStored' /\ SubscriptionsFollow'
  BY DEF ChangesAreStored, SubscriptionsFollow, Known, Unsent
<1> QED
  BY <1>4, <1>5, <1>6
----------------------------------------------------------------------------
\* Reading the first broadcast brings the others one place forward.
LEMMA PollAt ==
  ASSUME InterestInv, NEW type, Poll(type)
  PROVE  /\ broadcasts' \in Seq(Messages)
         /\ Head(broadcasts) \in Messages /\ Head(broadcasts).type = type
         /\ Head(broadcasts).entity \in Entities
         /\ type = "Start" => StartAt(Head(broadcasts).entity, 1)
         /\ type = "Disconnect" => EndAt(Head(broadcasts).entity, 1)
         /\ \A e \in Entities, i \in Nat :
              (StartAt(e, i)' => StartAt(e, i + 1)) /\ (EndAt(e, i)' => EndAt(e, i + 1))
         /\ \A e \in Entities, i \in Nat : StartAt(e, i) =>
              \/ i = 1 /\ type = "Start" /\ Head(broadcasts).entity = e
              \/ \E j \in Nat : i = j + 1 /\ StartAt(e, j)'
         /\ \A e \in Entities, i \in Nat : EndAt(e, i) =>
              \/ i = 1 /\ type = "Disconnect" /\ Head(broadcasts).entity = e
              \/ \E j \in Nat : i = j + 1 /\ EndAt(e, j)'
<1>1. broadcasts \in Seq(Messages) /\ broadcasts # << >> /\ broadcasts' = Tail(broadcasts)
  BY DEF InterestInv, TypeOK, Poll
<1>2. /\ broadcasts' \in Seq(Messages)
      /\ Head(broadcasts) \in Messages /\ Head(broadcasts).type = type
      /\ Head(broadcasts).entity \in Entities
      /\ type = "Disconnect" => Head(broadcasts) = EndMsg(Head(broadcasts).entity)
  BY <1>1, TailAt, MessageShapes DEF Poll
<1>3. \A e \in Entities :
        /\ StartAt(e, 1) <=> type = "Start" /\ Head(broadcasts).entity = e
        /\ EndAt(e, 1) => type = "Disconnect" /\ Head(broadcasts).entity = e
  <2>1. \A e \in Entities : EndMsg(e).type = "Disconnect" /\ EndMsg(e).entity = e
    BY DEF EndMsg
  <2> QED
    BY <1>1, <1>2, <2>1, TailAt
<1>4. type = "Disconnect" => EndAt(Head(broadcasts).entity, 1)
  BY <1>1, <1>2, TailAt
<1>5. \A e \in Entities, i \in Nat :
        /\ StartAt(e, i)' <=> i # 0 /\ StartAt(e, i + 1)
        /\ EndAt(e, i)' <=> i # 0 /\ EndAt(e, i + 1)
        /\ ~StartAt(e, 0) /\ ~EndAt(e, 0)
  BY <1>1, TailAt
<1> QED
  BY <1>2, <1>3, <1>4, <1>5, Predecessor

\* The table of subscriptions and the pass are left alone by a poll that changes
\* no interest.
LEMMA PollKeepsInterest ==
  ASSUME InterestInv, NEW type, Poll(type), UNCHANGED entities_in_interest
  PROVE  SubscriptionsFollow' /\ ChangesAreStored'
<1>1. pending_updates = {} /\ pending_updates' = {}
  BY DEF InterestInv, TypeOK, Poll
<1> QED
  BY <1>1 DEF InterestInv, Poll, clientVars, SubscriptionsFollow, ChangesAreStored, Unsent

\* A poll that makes no entry and lets no player wait keeps the order of what is
\* still to come.
LEMMA PollsKeepOrder ==
  ASSUME InterestInv, NEW type, Poll(type), type # "Start",
         pending_players' = pending_players,
         \A f \in Entities : Known(f)' => Known(f),
         \A f \in Entities : f = Head(broadcasts).entity /\ type = "Disconnect" =>
           ~Known(f)' /\ (Waits(f) => f \in missed'),
         \A f \in Entities : f \in missed => f \in missed'
  PROVE  OneEntry' /\ EndsAreComing'
<1> USE DEF InterestInv
<1>1. \A f \in Entities : Waits(f)' <=> Waits(f)
  BY DEF Waits
<1>2. client' = client /\ returned' = returned
  BY DEF Poll, clientVars
<1>3. /\ \A f \in Entities, i \in Nat :
           (StartAt(f, i)' => StartAt(f, i + 1)) /\ (EndAt(f, i)' => EndAt(f, i + 1))
      /\ \A f \in Entities, i \in Nat : EndAt(f, i) =>
           \/ i = 1 /\ type = "Disconnect" /\ Head(broadcasts).entity = f
           \/ \E j \in Nat : i = j + 1 /\ EndAt(f, j)'
  BY PollAt
<1>4. \A f \in Entities : Held(f)' => Held(f)
  <2>1. \A f \in Entities : Held(f)' <=> Known(f)' \/ Waits(f)' \/ \E i \in Nat : StartAt(f, i)'
    BY DEF Held, StartAt
  <2> QED
    BY <1>1, <1>3, <2>1, HeldAt
<1>5. OneEntry'
  <2> SUFFICES ASSUME NEW f \in Entities, client[f] # "off", f \notin returned
               PROVE  /\ client[f] = "connected" => ~Held(f)'
                      /\ Known(f)' => ~Waits(f)
                      /\ \A p, q \in Places : << f, p >> \in pending_players /\ << f, q >> \in pending_players => p = q
                      /\ \A i \in Nat : StartAt(f, i)' => ~Known(f)' /\ ~Waits(f)
                      /\ \A i, j \in Nat : StartAt(f, i)' /\ StartAt(f, j)' => i = j
                      /\ \A i \in Nat : EndAt(f, i)' => /\ ~Known(f)' /\ ~Waits(f)
                                                       /\ \A j \in Nat : StartAt(f, j)' => i < j
    BY <1>1, <1>2 DEF OneEntry
  <2>1. /\ client[f] = "connected" => ~Held(f)
        /\ Known(f) => ~Waits(f)
        /\ \A p, q \in Places : << f, p >> \in pending_players /\ << f, q >> \in pending_players => p = q
        /\ \A i \in Nat : StartAt(f, i) => ~Known(f) /\ ~Waits(f)
        /\ \A i, j \in Nat : StartAt(f, i) /\ StartAt(f, j) => i = j
        /\ \A i \in Nat : EndAt(f, i) => /\ ~Known(f) /\ ~Waits(f)
                                        /\ \A j \in Nat : StartAt(f, j) => i < j
    BY DEF OneEntry
  <2>2. \A i \in Nat : StartAt(f, i)' => i + 1 \in Nat /\ StartAt(f, i + 1)
    BY <1>3
  <2>3. \A i \in Nat : EndAt(f, i)' => i + 1 \in Nat /\ EndAt(f, i + 1)
    BY <1>3
  <2>4. \A i, j \in Nat : StartAt(f, i)' /\ StartAt(f, j)' => i = j
    <3>1. \A i, j \in Nat : StartAt(f, i)' /\ StartAt(f, j)' => i + 1 = j + 1
      BY <2>1, <2>2
    <3> QED
      BY <3>1
  <2>5. \A i, j \in Nat : EndAt(f, i)' /\ StartAt(f, j)' => i < j
    <3>1. \A i, j \in Nat : EndAt(f, i)' /\ StartAt(f, j)' => i + 1 < j + 1
      BY <2>1, <2>2, <2>3
    <3> QED
      BY <3>1
  <2> QED
    BY <1>4, <2>1, <2>2, <2>3, <2>4, <2>5
<1>6. EndsAreComing'
  <2> SUFFICES ASSUME NEW f \in Entities, client[f] = "off", f \notin missed'
               PROVE  /\ Known(f)' \/ Waits(f) => \E i \in Nat : EndAt(f, i)'
                      /\ \A j \in Nat : StartAt(f, j)' => \E i \in Nat : j < i /\ EndAt(f, i)'
    BY <1>1, <1>2 DEF EndsAreComing
  <2>1. f \notin missed
    OBVIOUS
  <2>2. ASSUME Known(f)' \/ Waits(f) PROVE \E i \in Nat : EndAt(f, i)'
    <3>1. PICK i \in Nat : EndAt(f, i)
      BY <2>1, <2>2 DEF EndsAreComing
    <3> QED
      BY <1>3, <2>2, <3>1
  <2>3. ASSUME NEW j \in Nat, StartAt(f, j)' PROVE \E i \in Nat : j < i /\ EndAt(f, i)'
    <3>1. j + 1 \in Nat /\ StartAt(f, j + 1)
      BY <1>3, <2>3
    <3>2. PICK i \in Nat : j + 1 < i /\ EndAt(f, i)
      BY <2>1, <3>1 DEF EndsAreComing
    <3>3. PICK k \in Nat : i = k + 1 /\ EndAt(f, k)'
      BY <1>3, <3>2
    <3> QED
      BY <3>2, <3>3
  <2> QED
    BY <2>2, <2>3
<1> QED
  BY <1>5, <1>6

\* Reading a position moves the entry of an entity that has one.
LEMMA HandlePositionStep ==
  ASSUME InterestInv, HandlePosition
  PROVE  InterestInv'
<1> USE DEF InterestInv, HandlePosition
<1> DEFINE m == Head(broadcasts)
<1>1. Poll("Position") /\ UNCHANGED entities_in_interest
  OBVIOUS
<1>2. m \in Messages /\ m.entity \in Entities /\ m.pos \in Places /\ m.pos # Nowhere
  BY <1>1, PollAt, MessageShapes, InterestAssumption
<1>3. /\ entity_map' \in [Entities -> Places \cup {Nowhere}]
      /\ \A f \in Entities : Known(f)' <=> Known(f)
      /\ \A f \in Entities : Waits(f)' <=> Waits(f)
  <2> HIDE DEF m
  <2>1. \/ Known(m.entity) /\ entity_map' = [entity_map EXCEPT ![m.entity] = m.pos]
        \/ entity_map' = entity_map
    BY DEF m
  <2> QED
    BY <1>2, <2>1 DEF Known, Waits, TypeOK
<1>4. TypeOK'
  BY <1>1, <1>3, PollAt DEF TypeOK, Poll, clientVars
<1>5. OneEntry' /\ EndsAreComing'
  BY <1>1, <1>3, PollsKeepOrder
<1> QED
  BY <1>1, <1>4, <1>5, PollKeepsInterest

\* Reading the end of a client takes its entry and its interest away.
LEMMA HandleDisconnectStep ==
  ASSUME InterestInv, HandleDisconnect
  PROVE  InterestInv'
<1> USE DEF InterestInv, HandleDisconnect
<1> DEFINE e == Head(broadcasts).entity
<1>1. Poll("Disconnect") /\ e \in Entities /\ EndAt(e, 1)
  BY PollAt
<1>2. /\ entity_map' = [entity_map EXCEPT ![e] = Nowhere]
      /\ entities_in_interest' = [entities_in_interest EXCEPT ![e] = {}]
      /\ missed' = IF Waits(e) THEN missed \cup {e} ELSE missed
      /\ pending_players' = pending_players
  OBVIOUS
<1> HIDE DEF e, HandleDisconnect
<1>3. /\ \A f \in Entities : Known(f)' <=> Known(f) /\ f # e
      /\ \A f \in Entities : f = e => ~Known(f)' /\ (Waits(f) => f \in missed')
      /\ \A f \in Entities : f \in missed => f \in missed'
  BY <1>1, <1>2 DEF Known, TypeOK
<1>4. OneEntry' /\ EndsAreComing'
  BY <1>1, <1>2, <1>3, PollsKeepOrder DEF e
<1>5. broadcasts' \in Seq(Messages)
  BY <1>1, PollAt
<1>6. TypeOK'
  BY <1>1, <1>2, <1>3, <1>5 DEF TypeOK, Poll, clientVars
<1>7. pending_updates = {} /\ pending_updates' = {}
  BY <1>1 DEF TypeOK, Poll
<1>8. SubscriptionsFollow'
  <2> SUFFICES ASSUME NEW f \in Entities, client[f] # "off", f \notin returned
               PROVE  entities_in_interest'[f] = entities_in_interest[f]
    BY <1>1, <1>7 DEF SubscriptionsFollow, Unsent, Poll, clientVars
  <2>1. CASE f = e
    <3>1. ~Known(e)
      BY <1>1, <2>1 DEF OneEntry
    <3> QED
      BY <1>2, <2>1, <3>1 DEF TypeOK
  <2>2. CASE f # e
    BY <1>2, <2>2 DEF TypeOK
  <2> QED
    BY <2>1, <2>2
<1> QED
  BY <1>4, <1>6, <1>7, <1>8 DEF ChangesAreStored

\* Reading a start makes a player wait who has no entry.
LEMMA HandleStartStep ==
  ASSUME InterestInv, HandleStart
  PROVE  InterestInv'
<1> USE DEF InterestInv, HandleStart
<1> DEFINE e == Head(broadcasts).entity
           p == Head(broadcasts).pos
<1>1. /\ Poll("Start") /\ e \in Entities /\ p \in Places /\ StartAt(e, 1)
      /\ broadcasts' \in Seq(Messages)
  BY PollAt, MessageShapes
<1>2. pending_players' = pending_players \cup {<< e, p >>}
  OBVIOUS
<1>3. /\ \A f \in Entities, i \in Nat :
           (StartAt(f, i)' => StartAt(f, i + 1)) /\ (EndAt(f, i)' => EndAt(f, i + 1))
      /\ \A f \in Entities, i \in Nat :
           EndAt(f, i) => \E j \in Nat : i = j + 1 /\ EndAt(f, j)'
  BY <1>1, PollAt
<1>4. /\ client' = client /\ returned' = returned /\ missed' = missed
      /\ entities_in_interest' = entities_in_interest
      /\ \A f \in Entities : Known(f)' <=> Known(f)
  BY DEF Poll, clientVars, Known
<1> HIDE DEF e, p, HandleStart
<1>5. \A f \in Entities : Waits(f)' <=> Waits(f) \/ f = e
  BY <1>1, <1>2 DEF Waits
<1>6. OneEntry'
  <2> SUFFICES ASSUME NEW f \in Entities, client[f] # "off", f \notin returned
               PROVE  /\ client[f] = "connected" => ~Held(f)'
                      /\ Known(f) => ~Waits(f)'
                      /\ \A q, r \in Places : << f, q >> \in pending_players' /\ << f, r >> \in pending_players' => q = r
                      /\ \A i \in Nat : StartAt(f, i)' => ~Known(f) /\ ~Waits(f)'
                      /\ \A i, j \in Nat : StartAt(f, i)' /\ StartAt(f, j)' => i = j
                      /\ \A i \in Nat : EndAt(f, i)' => /\ ~Known(f) /\ ~Waits(f)'
                                                       /\ \A j \in Nat : StartAt(f, j)' => i < j
    BY <1>4 DEF OneEntry
  <2>1. /\ client[f] = "connected" => ~Held(f)
        /\ Known(f) => ~Waits(f)
        /\ \A q, r \in Places : << f, q >> \in pending_players /\ << f, r >> \in pending_players => q = r
        /\ \A i \in Nat : StartAt(f, i) => ~Known(f) /\ ~Waits(f)
        /\ \A i, j \in Nat : StartAt(f, i) /\ StartAt(f, j) => i = j
        /\ \A i \in Nat : EndAt(f, i) => /\ ~Known(f) /\ ~Waits(f)
                                        /\ \A j \in Nat : StartAt(f, j) => i < j
    BY DEF OneEntry
  <2>2. \A i \in Nat : /\ StartAt(f, i)' => i + 1 \in Nat /\ StartAt(f, i + 1)
                       /\ EndAt(f, i)' => i + 1 \in Nat /\ EndAt(f, i + 1)
    BY <1>3
  <2>3. \A i \in Nat : ~StartAt(f, 0)' /\ ~EndAt(f, 0)'
    BY DEF StartAt, EndAt
  <2>4. CASE f = e
    <3>1. ~Known(f) /\ ~Waits(f) /\ client[f] # "connected"
      BY <1>1, <2>1, <2>4, HeldAt
    <3>2. \A i \in Nat : ~StartAt(f, i)'
      <4>1. \A i \in Nat : StartAt(f, i)' => i + 1 = 1
        BY <1>1, <2>1, <2>2, <2>4
      <4> QED
        BY <2>3, <4>1
    <3>3. \A i \in Nat : ~EndAt(f, i)'
      <4>1. \A i \in Nat : EndAt(f, i)' => i + 1 < 1
        BY <1>1, <2>1, <2>2, <2>4
      <4> QED
        BY <4>1
    <3>4. \A q \in Places : << f, q >> \in pending_players' => q = p
      BY <1>2, <3>1 DEF Waits
    <3> QED
      BY <3>1, <3>2, <3>3, <3>4
  <2>5. CASE f # e
    <3>1. \A i, j \in Nat : StartAt(f, i)' /\ StartAt(f, j)' => i = j
      <4>1. \A i, j \in Nat : StartAt(f, i)' /\ StartAt(f, j)' => i + 1 = j + 1
        BY <2>1, <2>2
      <4> QED
        BY <4>1
    <3>2. \A i, j \in Nat : EndAt(f, i)' /\ StartAt(f, j)' => i < j
      <4>1. \A i, j \in Nat : EndAt(f, i)' /\ StartAt(f, j)' => i + 1 < j + 1
        BY <2>1, <2>2
      <4> QED
        BY <4>1
    <3>3. Held(f)' => Held(f)
      <4>1. Held(f)' <=> Known(f)' \/ Waits(f)' \/ \E i \in Nat : StartAt(f, i)'
        BY DEF Held, StartAt
      <4> QED
        BY <1>4, <1>5, <2>2, <2>5, <4>1, HeldAt
    <3>4. \A q \in Places : << f, q >> \in pending_players' => << f, q >> \in pending_players
      BY <1>2, <2>5
    <3>5. Waits(f)' <=> Waits(f)
      BY <1>5, <2>5
    <3> QED
      BY <2>1, <2>2, <3>1, <3>2, <3>3, <3>4, <3>5
  <2> QED
    BY <2>4, <2>5
<1>7. EndsAreComing'
  <2> SUFFICES ASSUME NEW f \in Entities, client[f] = "off", f \notin missed
               PROVE  /\ Known(f) \/ Waits(f)' => \E i \in Nat : EndAt(f, i)'
                      /\ \A j \in Nat : StartAt(f, j)' => \E i \in Nat : j < i /\ EndAt(f, i)'
    BY <1>4 DEF EndsAreComing
  <2>1. ASSUME Known(f) \/ Waits(f)' PROVE \E i \in Nat : EndAt(f, i)'
    <3>1. PICK i \in Nat : EndAt(f, i)
      BY <1>1, <1>5, <2>1 DEF EndsAreComing
    <3> QED
      BY <1>3, <3>1
  <2>2. ASSUME NEW j \in Nat, StartAt(f, j)' PROVE \E i \in Nat : j < i /\ EndAt(f, i)'
    <3>1. j + 1 \in Nat /\ StartAt(f, j + 1)
      BY <1>3, <2>2
    <3>2. PICK i \in Nat : j + 1 < i /\ EndAt(f, i)
      BY <3>1 DEF EndsAreComing
    <3>3. PICK k \in Nat : i = k + 1 /\ EndAt(f, k)'
      BY <1>3, <3>2
    <3> QED
      BY <3>2, <3>3
  <2> QED
    BY <2>1, <2>2
<1>8. TypeOK'
  BY <1>1, <1>2, <1>4 DEF TypeOK, Poll, clientVars, HandleStart
<1> QED
  BY <1>1, <1>4, <1>6, <1>7, <1>8, PollKeepsInterest

\* The end of the poll changes no table.
LEMMA PollEndsStep ==
  ASSUME InterestInv, PollEnds
  PROVE  InterestInv'
<1> USE DEF InterestInv, PollEnds, clientVars, history
<1>1. TypeOK'
  BY DEF TypeOK, Known
<1>2. OneEntry' /\ EndsAreComing'
  <2>1. /\ \A f \in Entities : /\ Known(f)' <=> Known(f)
                               /\ Waits(f)' <=> Waits(f)
                               /\ Held(f)' <=> Held(f)
        /\ \A f \in Entities, i \in Nat :
             (StartAt(f, i)' <=> StartAt(f, i)) /\ (EndAt(f, i)' <=> EndAt(f, i))
    BY DEF Known, Waits, Held, StartAt, EndAt
  <2>2. OneEntry'
    BY <2>1 DEF OneEntry
  <2>3. EndsAreComing'
    BY <2>1 DEF EndsAreComing
  <2> QED
    BY <2>2, <2>3
<1>3. ChangesAreStored' /\ SubscriptionsFollow'
  BY DEF ChangesAreStored, SubscriptionsFollow, Known, Unsent
<1> QED
  BY <1>1, <1>2, <1>3

\* A player that is spawned gets an entry without interest, as its subscriptions
\* are none.
LEMMA SpawnStep ==
  ASSUME InterestInv, NEW e \in Entities, NEW p \in Places, SpawnPlayerOnShard(e, p)
  PROVE  InterestInv'
<1> USE DEF InterestInv, SpawnPlayerOnShard, history
<1>1. /\ broadcasts' \in Seq(Messages)
      /\ \A f \in Entities, i \in Nat :
           (StartAt(f, i)' <=> StartAt(f, i)) /\ (EndAt(f, i)' <=> EndAt(f, i))
  BY PositionSent
<1>2. Waits(e) /\ \A f \in Entities : Known(f)' <=> Known(f) \/ f = e
  BY InterestAssumption DEF Waits, Known, TypeOK
<1>3. /\ \A f \in Entities : Waits(f)' => Waits(f)
      /\ \A f \in Entities \ {e} : Waits(f) => Waits(f)'
  BY DEF Waits
<1>4. TypeOK'
  BY <1>1, <1>2 DEF TypeOK
<1>5. OneEntry'
  <2> SUFFICES ASSUME NEW f \in Entities, client[f] # "off", f \notin returned
               PROVE  /\ client[f] = "connected" => ~Held(f)'
                      /\ Known(f)' => ~Waits(f)'
                      /\ \A q, r \in Places : << f, q >> \in pending_players' /\ << f, r >> \in pending_players' => q = r
                      /\ \A i \in Nat : StartAt(f, i)' => ~Known(f)' /\ ~Waits(f)'
                      /\ \A i, j \in Nat : StartAt(f, i)' /\ StartAt(f, j)' => i = j
                      /\ \A i \in Nat : EndAt(f, i)' => /\ ~Known(f)' /\ ~Waits(f)'
                                                       /\ \A j \in Nat : StartAt(f, j)' => i < j
    BY DEF OneEntry
  <2>1. CASE f = e
    <3>1. /\ client[f] # "connected" /\ \A i \in Nat : ~StartAt(f, i) /\ ~EndAt(f, i)
      BY <1>2, <2>1, HeldAt DEF OneEntry
    <3>2. \A q \in Places : << f, q >> \in pending_players => q = p
      BY <2>1 DEF OneEntry
    <3>3. \A q \in Places : << f, q >> \notin pending_players'
      BY <2>1, <3>2
    <3> QED
      BY <1>1, <3>1, <3>3 DEF Waits
  <2>2. CASE f # e
    <3>1. Held(f)' => Held(f)
      <4>1. Held(f)' <=> Known(f)' \/ Waits(f)' \/ \E i \in Nat : StartAt(f, i)'
        BY DEF Held, StartAt
      <4> QED
        BY <1>1, <1>2, <1>3, <2>2, <4>1, HeldAt
    <3>2. \A q \in Places : << f, q >> \in pending_players' => << f, q >> \in pending_players
      OBVIOUS
    <3> QED
      BY <1>1, <1>2, <1>3, <2>2, <3>1, <3>2 DEF OneEntry
  <2> QED
    BY <2>1, <2>2
<1>6. EndsAreComing'
  BY <1>1, <1>2, <1>3 DEF EndsAreComing
<1>7. pending_updates = {} /\ pending_updates' = {}
  BY DEF TypeOK
<1>8. SubscriptionsFollow'
  <2> SUFFICES ASSUME NEW f \in Entities, client[f] # "off", f \notin returned
               PROVE  entities_in_interest'[f] = entities_in_interest[f]
    BY <1>7 DEF SubscriptionsFollow, Unsent
  <2>1. CASE f = e
    <3>1. ~Known(e)
      BY <1>2, <2>1 DEF OneEntry
    <3> QED
      BY <2>1, <3>1 DEF TypeOK
  <2>2. CASE f # e
    BY <2>2 DEF TypeOK
  <2> QED
    BY <2>1, <2>2
<1> QED
  BY <1>4, <1>5, <1>6, <1>7, <1>8 DEF ChangesAreStored

\* A player whose time is up leaves nothing behind.
LEMMA DropStep ==
  ASSUME InterestInv, NEW e \in Entities, NEW p \in Places, DropPlayer(e, p)
  PROVE  InterestInv'
<1> USE DEF InterestInv, DropPlayer, clientVars
<1>1. \A f \in Entities, i \in Nat :
        (StartAt(f, i)' <=> StartAt(f, i)) /\ (EndAt(f, i)' <=> EndAt(f, i))
  BY DEF StartAt, EndAt
<1>2. \A f \in Entities : (Known(f)' <=> Known(f)) /\ (Waits(f)' => Waits(f)) /\ (Held(f)' => Held(f))
  BY DEF Waits, Known, Held
<1>3. TypeOK'
  BY <1>2 DEF TypeOK
<1>4. OneEntry'
  <2>1. \A f \in Entities, q \in Places : << f, q >> \in pending_players' => << f, q >> \in pending_players
    OBVIOUS
  <2> QED
    BY <1>1, <1>2, <2>1 DEF OneEntry
<1>5. EndsAreComing'
  BY <1>1, <1>2 DEF EndsAreComing
<1>6. ChangesAreStored' /\ SubscriptionsFollow'
  BY DEF ChangesAreStored, SubscriptionsFollow, Known, Unsent
<1> QED
  BY <1>3, <1>4, <1>5, <1>6
----------------------------------------------------------------------------
\* What a pass finds to change.
LEMMA ChangesShape ==
  ASSUME TypeOK
  PROVE  /\ Changes \in SUBSET [entity : Entities, other : Entities, subscribes : BOOLEAN,
                                next : 1 .. Len(Topics)]
         /\ \A c \in Changes :
              /\ Known(c.entity) /\ c.next = 1
              /\ c.subscribes <=> c.other \in Nearby(c.entity)
              /\ c.other \in Nearby(c.entity) <=> c.other \notin entities_in_interest[c.entity]
         /\ \A e \in Entities, o \in Entities :
              (o \in Nearby(e) <=> o \notin entities_in_interest[e])
                => \E c \in Changes : c.entity = e /\ c.other = o /\ c.next = 1
<1>1. 1 \in 1 .. Len(Topics)
  BY InterestAssumption
<1>2. \A e \in Entities : /\ Nearby(e) \subseteq Entities /\ entities_in_interest[e] \subseteq Entities
                          /\ ~Known(e) => Nearby(e) = {} /\ entities_in_interest[e] = {}
  BY DEF TypeOK, Nearby
<1>3. \A c : c \in Changes <=>
        \E e \in Entities :
          \/ \E o \in Nearby(e) \ entities_in_interest[e] : c = Change(e, o, TRUE)
          \/ \E o \in entities_in_interest[e] \ Nearby(e) : c = Change(e, o, FALSE)
  <2> DEFINE Ours(e) == {Change(e, o, TRUE) : o \in Nearby(e) \ entities_in_interest[e]}
                          \cup {Change(e, o, FALSE) : o \in entities_in_interest[e] \ Nearby(e)}
  <2>1. \A e, c : c \in Ours(e) <=>
          \/ \E o \in Nearby(e) \ entities_in_interest[e] : c = Change(e, o, TRUE)
          \/ \E o \in entities_in_interest[e] \ Nearby(e) : c = Change(e, o, FALSE)
    OBVIOUS
  <2>2. Changes = UNION {Ours(e) : e \in Entities}
    BY DEF Changes
  <2> HIDE DEF Ours
  <2>3. \A c : c \in Changes <=> \E e \in Entities : c \in Ours(e)
    BY <2>2
  <2> SUFFICES ASSUME NEW c
               PROVE  (\E e \in Entities : c \in Ours(e)) <=>
                        \E e \in Entities :
                          \/ \E o \in Nearby(e) \ entities_in_interest[e] : c = Change(e, o, TRUE)
                          \/ \E o \in entities_in_interest[e] \ Nearby(e) : c = Change(e, o, FALSE)
    BY <2>3
  <2> QED
    BY <2>1
<1>4. ASSUME NEW c \in Changes
      PROVE  /\ c \in [entity : Entities, other : Entities, subscribes : BOOLEAN,
                       next : 1 .. Len(Topics)]
             /\ Known(c.entity) /\ c.next = 1
             /\ c.subscribes <=> c.other \in Nearby(c.entity)
             /\ c.other \in Nearby(c.entity) <=> c.other \notin entities_in_interest[c.entity]
  <2>1. PICK e \in Entities :
          \/ \E o \in Nearby(e) \ entities_in_interest[e] : c = Change(e, o, TRUE)
          \/ \E o \in entities_in_interest[e] \ Nearby(e) : c = Change(e, o, FALSE)
    BY <1>3, <1>4
  <2>2. CASE \E o \in Nearby(e) \ entities_in_interest[e] : c = Change(e, o, TRUE)
    <3>1. PICK o \in Nearby(e) \ entities_in_interest[e] : c = Change(e, o, TRUE)
      BY <2>2
    <3> QED
      BY <1>1, <1>2, <3>1 DEF Change
  <2>3. CASE \E o \in entities_in_interest[e] \ Nearby(e) : c = Change(e, o, FALSE)
    <3>1. PICK o \in entities_in_interest[e] \ Nearby(e) : c = Change(e, o, FALSE)
      BY <2>3
    <3> QED
      BY <1>1, <1>2, <3>1 DEF Change
  <2> QED
    BY <2>1, <2>2, <2>3
<1>5. ASSUME NEW e \in Entities, NEW o \in Entities, o \in Nearby(e) <=> o \notin entities_in_interest[e]
      PROVE  \E c \in Changes : c.entity = e /\ c.other = o /\ c.next = 1
  <2>1. CASE o \in Nearby(e)
    <3>1. Change(e, o, TRUE) \in Changes
      BY <1>3, <1>5, <2>1
    <3> QED
      BY <3>1 DEF Change
  <2>2. CASE o \notin Nearby(e)
    <3>1. Change(e, o, FALSE) \in Changes
      BY <1>3, <1>5, <2>2
    <3> QED
      BY <3>1 DEF Change
  <2> QED
    BY <2>1, <2>2
<1> QED
  BY <1>4, <1>5

\* A pass remembers new interests and has as many changes to send.
LEMMA ApplyStep ==
  ASSUME InterestInv, ApplyAreaOfInterest
  PROVE  InterestInv'
<1> USE DEF InterestInv, ApplyAreaOfInterest, clientVars, history
<1>1. pending_updates = {} /\ pending_updates' = Changes
  BY DEF TypeOK
<1>2. /\ \A f \in Entities : Known(f)' <=> Known(f)
      /\ \A f \in Entities : entities_in_interest'[f] = Nearby(f)
      /\ \A f \in Entities : f \notin Nearby(f) /\ (~Known(f) => Nearby(f) = {})
      /\ entities_in_interest' \in [Entities -> SUBSET Entities]
  BY DEF Known, Nearby
<1>3. TypeOK'
  BY <1>1, <1>2, ChangesShape DEF TypeOK
<1>4. OneEntry' /\ EndsAreComing'
  <2>1. /\ \A f \in Entities : /\ Known(f)' <=> Known(f)
                               /\ Waits(f)' <=> Waits(f)
                               /\ Held(f)' <=> Held(f)
        /\ \A f \in Entities, i \in Nat :
             (StartAt(f, i)' <=> StartAt(f, i)) /\ (EndAt(f, i)' <=> EndAt(f, i))
    BY DEF Known, Waits, Held, StartAt, EndAt
  <2>2. OneEntry'
    BY <2>1 DEF OneEntry
  <2>3. EndsAreComing'
    BY <2>1 DEF EndsAreComing
  <2> QED
    BY <2>2, <2>3
<1>5. ChangesAreStored'
  <2>1. \A c \in Changes : Known(c.entity)' /\ (c.subscribes <=> c.other \in entities_in_interest'[c.entity])
    BY <1>2, ChangesShape
  <2>2. ASSUME NEW c \in Changes, NEW d \in Changes, c.entity = d.entity, c.other = d.other
        PROVE  c = d
    <3>1. c.next = d.next /\ (c.subscribes <=> d.subscribes)
      BY <2>2, ChangesShape
    <3> QED
      BY <2>2, <3>1, ChangesShape
  <2> QED
    BY <1>1, <2>1, <2>2 DEF ChangesAreStored
<1>6. SubscriptionsFollow'
  <2> SUFFICES ASSUME NEW f \in Entities, client[f] # "off", f \notin returned,
                      NEW i \in 1 .. Len(Topics), NEW o \in Entities
               PROVE  (o \in subscriptions[i][f] <=> o \in Nearby(f)) <=>
                        ~\E c \in Changes : c.entity = f /\ c.other = o /\ c.next <= i
    BY <1>1, <1>2 DEF SubscriptionsFollow, Unsent
  <2>1. o \in subscriptions[i][f] <=> o \in entities_in_interest[f]
    BY <1>1 DEF SubscriptionsFollow, Unsent
  <2>2. 1 <= i
    OBVIOUS
  <2> QED
    BY <2>1, <2>2, ChangesShape
<1> QED
  BY <1>3, <1>4, <1>5, <1>6

\* One message of a change is sent, and its subscription then is as stored.
LEMMA SendStep ==
  ASSUME InterestInv, NEW c \in pending_updates, Subscribe(c) \/ Unsubscribe(c)
  PROVE  InterestInv'
<1> USE DEF InterestInv
<1>1. /\ Send(c) /\ c.subscribes \in BOOLEAN /\ c.entity \in Entities /\ c.other \in Entities
      /\ c.next \in 1 .. Len(Topics) /\ Len(Topics) \in Nat
  BY InterestAssumption DEF TypeOK, Subscribe, Unsubscribe
<1>2. /\ c.subscribes => subscriptions' = Subscribed(c)
      /\ ~c.subscribes => subscriptions' = NotSubscribed(c)
  BY DEF Subscribe, Unsubscribe
<1> DEFINE d == [c EXCEPT !.next = @ + 1]
<1>3. /\ d.entity = c.entity /\ d.other = c.other /\ d.subscribes = c.subscribes
      /\ d.next = c.next + 1
      /\ c.next < Len(Topics) => d \in [entity : Entities, other : Entities, subscribes : BOOLEAN,
                                        next : 1 .. Len(Topics)]
  BY <1>1 DEF TypeOK
<1>4. \A x : x \in pending_updates' <=>
        (x \in pending_updates /\ x # c) \/ (c.next < Len(Topics) /\ x = d)
  BY <1>1 DEF Send, Remaining
<1> HIDE DEF d
<1>5. /\ UNCHANGED << clientVars, watched, broadcasts, pending_players, entity_map,
                      entities_in_interest, history >>
      /\ step = "send" /\ step' \in {"poll", "send"}
      /\ step' = "send" <=> pending_updates' # {}
  BY <1>1 DEF Send
<1>6. \E S \in SUBSET Entities :
        /\ subscriptions' = [subscriptions EXCEPT
                               ![c.next] = [subscriptions[c.next] EXCEPT ![c.entity] = S]]
        /\ \A o \in Entities : o # c.other => (o \in S <=> o \in subscriptions[c.next][c.entity])
        /\ client[c.entity] # "off" => (c.other \in S <=> c.subscribes)
  <2> DEFINE T == subscriptions[c.next][c.entity]
  <2>1. T \in SUBSET Entities
    BY <1>1 DEF TypeOK
  <2>2. CASE client[c.entity] = "off"
    <3>1. subscriptions' = subscriptions
      BY <1>1, <1>2, <2>2 DEF Subscribed, NotSubscribed
    <3>2. subscriptions = [subscriptions EXCEPT
                             ![c.next] = [subscriptions[c.next] EXCEPT ![c.entity] = T]]
      BY <1>1 DEF TypeOK
    <3> QED
      BY <2>1, <2>2, <3>1, <3>2
  <2>3. CASE client[c.entity] # "off" /\ c.subscribes
    <3>1. subscriptions' = [subscriptions EXCEPT
                              ![c.next] = [subscriptions[c.next] EXCEPT ![c.entity] = T \cup {c.other}]]
      BY <1>2, <2>3 DEF Subscribed
    <3>2. /\ T \cup {c.other} \in SUBSET Entities
          /\ \A o \in Entities : o # c.other => (o \in T \cup {c.other} <=> o \in T)
          /\ c.other \in T \cup {c.other} <=> c.subscribes
      BY <1>1, <2>1, <2>3
    <3> QED
      BY <3>1, <3>2
  <2>4. CASE client[c.entity] # "off" /\ ~c.subscribes
    <3>1. subscriptions' = [subscriptions EXCEPT
                              ![c.next] = [subscriptions[c.next] EXCEPT ![c.entity] = T \ {c.other}]]
      BY <1>2, <2>4 DEF NotSubscribed
    <3>2. /\ T \ {c.other} \in SUBSET Entities
          /\ \A o \in Entities : o # c.other => (o \in T \ {c.other} <=> o \in T)
          /\ c.other \in T \ {c.other} <=> c.subscribes
      BY <1>1, <2>1, <2>4
    <3> QED
      BY <3>1, <3>2
  <2> QED
    BY <2>2, <2>3, <2>4
<1>6a. /\ subscriptions' \in [1 .. Len(Topics) -> [Entities -> SUBSET Entities]]
       /\ \A f \in Entities, i \in 1 .. Len(Topics), o \in Entities :
            ~(i = c.next /\ f = c.entity /\ o = c.other) =>
              (o \in subscriptions'[i][f] <=> o \in subscriptions[i][f])
       /\ client[c.entity] # "off" =>
            (c.other \in subscriptions'[c.next][c.entity] <=> c.subscribes)
  BY <1>1, <1>6 DEF TypeOK
<1>7. TypeOK'
  <2>1. \A f \in Entities : Known(f)' <=> Known(f)
    BY <1>5 DEF Known
  <2>2. pending_updates' \in SUBSET [entity : Entities, other : Entities, subscribes : BOOLEAN,
                                    next : 1 .. Len(Topics)]
    BY <1>3, <1>4 DEF TypeOK
  <2> QED
    BY <1>5, <1>6a, <2>1, <2>2 DEF TypeOK, clientVars, history
<1>8. OneEntry' /\ EndsAreComing'
  <2>1. /\ \A f \in Entities : /\ Known(f)' <=> Known(f)
                               /\ Waits(f)' <=> Waits(f)
                               /\ Held(f)' <=> Held(f)
        /\ \A f \in Entities, i \in Nat :
             (StartAt(f, i)' <=> StartAt(f, i)) /\ (EndAt(f, i)' <=> EndAt(f, i))
    BY <1>5 DEF Known, Waits, Held, StartAt, EndAt
  <2>2. OneEntry'
    BY <1>5, <2>1 DEF OneEntry, clientVars, history
  <2>3. EndsAreComing'
    BY <1>5, <2>1 DEF EndsAreComing, clientVars, history
  <2> QED
    BY <2>2, <2>3
<1>9. ChangesAreStored'
  <2>1. \A x \in pending_updates' : Known(x.entity) /\ (x.subscribes <=> x.other \in entities_in_interest[x.entity])
    BY <1>3, <1>4 DEF ChangesAreStored
  <2>2. \A x, y \in pending_updates' : x.entity = y.entity /\ x.other = y.other => x = y
    BY <1>3, <1>4 DEF ChangesAreStored
  <2> QED
    BY <1>5, <2>1, <2>2 DEF ChangesAreStored, Known
<1>10. SubscriptionsFollow'
  <2> SUFFICES ASSUME NEW f \in Entities, client[f] # "off", f \notin returned,
                      NEW i \in 1 .. Len(Topics), NEW o \in Entities
               PROVE  (o \in subscriptions'[i][f] <=> o \in entities_in_interest[f]) <=> ~Unsent(f, o, i)'
    BY <1>5 DEF SubscriptionsFollow, clientVars, history
  <2>1. (o \in subscriptions[i][f] <=> o \in entities_in_interest[f]) <=> ~Unsent(f, o, i)
    BY DEF SubscriptionsFollow
  <2>2. Unsent(f, o, i)' <=> \E x \in pending_updates' : x.entity = f /\ x.other = o /\ x.next <= i
    BY DEF Unsent
  <2>3. CASE f = c.entity /\ o = c.other
    <3>1. Unsent(f, o, i)' <=> c.next + 1 <= i
      BY <1>1, <1>3, <1>4, <2>2, <2>3 DEF ChangesAreStored
    <3>2. Unsent(f, o, i) <=> c.next <= i
      BY <2>3 DEF ChangesAreStored, Unsent
    <3>3. c.subscribes <=> o \in entities_in_interest[f]
      BY <2>3 DEF ChangesAreStored
    <3>4. o \in subscriptions'[i][f] <=>
            IF i = c.next THEN c.subscribes ELSE o \in subscriptions[i][f]
      BY <1>6a, <2>3
    <3>5. CASE i = c.next
      BY <1>1, <3>1, <3>3, <3>4, <3>5
    <3>6. CASE i # c.next
      <4>1. c.next + 1 <= i <=> c.next <= i
        BY <1>1, <3>6
      <4> QED
        BY <2>1, <3>1, <3>2, <3>4, <3>6, <4>1
    <3> QED
      BY <3>5, <3>6
  <2>4. CASE ~(f = c.entity /\ o = c.other)
    <3>1. Unsent(f, o, i)' <=> Unsent(f, o, i)
      BY <1>3, <1>4, <2>2, <2>4 DEF Unsent
    <3>2. o \in subscriptions'[i][f] <=> o \in subscriptions[i][f]
      BY <1>6a, <2>4
    <3> QED
      BY <2>1, <3>1, <3>2
  <2> QED
    BY <2>3, <2>4
<1> QED
  BY <1>7, <1>8, <1>9, <1>10
----------------------------------------------------------------------------
\* A step that changes nothing keeps the invariant.
LEMMA StutterStep ==
  ASSUME InterestInv, UNCHANGED vars
  PROVE  InterestInv'
<1> USE DEF InterestInv, vars, clientVars, quadtreeVars, history
<1>1. /\ \A e \in Entities : /\ Known(e)' <=> Known(e)
                             /\ Waits(e)' <=> Waits(e)
                             /\ Held(e)' <=> Held(e)
      /\ \A e \in Entities, i \in Nat :
           (StartAt(e, i)' <=> StartAt(e, i)) /\ (EndAt(e, i)' <=> EndAt(e, i))
  BY DEF Known, Waits, Held, StartAt, EndAt
<1>2. TypeOK'
  BY <1>1 DEF TypeOK
<1>3. OneEntry' /\ EndsAreComing'
  <2>1. OneEntry'
    BY <1>1 DEF OneEntry
  <2>2. EndsAreComing'
    BY <1>1 DEF EndsAreComing
  <2> QED
    BY <2>1, <2>2
<1>4. ChangesAreStored' /\ SubscriptionsFollow'
  BY DEF ChangesAreStored, SubscriptionsFollow, Unsent, Known
<1> QED
  BY <1>2, <1>3, <1>4

\* Every step keeps the invariant.
LEMMA InterestNext == InterestInv /\ [Next]_vars => InterestInv'
<1> SUFFICES ASSUME InterestInv, [Next]_vars PROVE InterestInv'
  OBVIOUS
<1>1. CASE Environment
  BY <1>1, ConnectStep, DisconnectStep, StartStep, MoveStep DEF Environment
<1>2. CASE Spawns
  BY <1>2, SpawnStep, DropStep DEF Spawns
<1>3. CASE Tick
  BY <1>3, HandlePositionStep, HandleStartStep, HandleDisconnectStep, PollEndsStep, ApplyStep,
     SendStep DEF Tick
<1>4. CASE UNCHANGED vars
  BY <1>4, StutterStep
<1> QED
  BY <1>1, <1>2, <1>3, <1>4 DEF Next

\* The invariant holds in every behaviour.
LEMMA InterestInvariant == Spec => []InterestInv
BY InterestInit, InterestNext, PTL DEF Spec

\* The tables have their types: nobody is of interest to itself, and whoever has
\* no entry has no interest.
THEOREM InterestType == Spec => []TypeOK
<1>1. InterestInv => TypeOK
  BY DEF InterestInv
<1> QED
  BY <1>1, InterestInvariant, PTL

\* Between two passes a client is subscribed to every topic of exactly the
\* entities that the quadtree remembers as of interest to it.
THEOREM SubscriptionsMatchInterest == Spec => []InterestIsSubscribed
<1>1. ASSUME InterestInv PROVE InterestIsSubscribed
  <2> SUFFICES ASSUME NEW e \in Entities, step # "send", client[e] # "off", e \notin returned,
                      NEW i \in 1 .. Len(Topics)
               PROVE  subscriptions[i][e] = entities_in_interest[e]
    BY DEF InterestIsSubscribed
  <2>1. pending_updates = {}
    BY <1>1 DEF InterestInv, TypeOK
  <2>2. \A o \in Entities : o \in subscriptions[i][e] <=> o \in entities_in_interest[e]
    BY <1>1, <2>1 DEF InterestInv, SubscriptionsFollow, Unsent
  <2>3. subscriptions[i][e] \subseteq Entities /\ entities_in_interest[e] \subseteq Entities
    BY <1>1 DEF InterestInv, TypeOK
  <2> QED
    BY <2>2, <2>3
<1> QED
  BY <1>1, InterestInvariant, PTL

\* The entry of an entity whose client is gone is about to go, unless the end of
\* the client came before the spawn.
THEOREM NoEntryWithoutClient == Spec => []EntriesHaveClients
<1>1. ASSUME InterestInv PROVE EntriesHaveClients
  BY <1>1 DEF InterestInv, EndsAreComing, EntriesHaveClients, EndAt
<1> QED
  BY <1>1, InterestInvariant, PTL
=============================================================================
