------------------------------ MODULE Transport ------------------------------
(***************************************************************************)
(* The socket library over QUIC: a GamePeer, whose owner sends commands    *)
(* and polls events, and the backend thread, one loop that selects among   *)
(* three channels: connections to register, streams to register, commands. *)
(* When several are ready it takes any of them.  Beside the loop run the   *)
(* task that accepts connections and, for each connection, a reader of     *)
(* datagrams, an acceptor of streams and a reader for each stream.         *)
(*                                                                         *)
(* What the owner learns is a set, since it may act on an event as soon as *)
(* it is sent; the order of two events is kept where a property is about   *)
(* it.  Payloads are left out.  Errors that are only logged or reported    *)
(* change nothing.  A peer dials or listens; no program does both.         *)
(***************************************************************************)
EXTENDS Naturals, Sequences, FiniteSets

CONSTANTS
  Outgoing,     \* connections this peer dials
  Incoming,     \* connections it accepts
  Streams,      \* stream ids, drawn in turn by the peer that dials; the id that is
                \* sent and reported holds the reliability as well
  Reliable,     \* Reliable[s]: the reliability of the stream of that id
  MaxCommands   \* bound: commands waiting in the channel

Conns == Outgoing \cup Incoming

ASSUME TransportAssumption ==
  /\ Outgoing \cap Incoming = {}
  /\ Reliable \in [Streams -> BOOLEAN]
  /\ MaxCommands \in Nat

VARIABLES
  link,          \* link[c]: "none", "up" or "cut"
  accepting,     \* the accept task: "yes", "panicked", or "no" in a peer that dials
  running,       \* the loop runs
  commands,      \* the channel of commands
  conn_reg,      \* the channel of accepted connections
  stream_reg,    \* the channel of streams: << connection, stream, has a send half >>
  connections,   \* the connections the loop can send on
  reliable_send_streams, unreliable_send_streams,  \* << connection, stream >>
  open,          \* << connection, stream >>: created, by either side
  reading,       \* connections whose datagram reader runs
  known_streams, \* << connection, stream >>: datagram streams a reader knows
  told,          \* events sent: << kind, connection, stream or None >>
  ends,          \* ends[c]: how often the end of c was reported
  lost           \* history: << connection, stream, was the stream reported as
                 \* created >> of Sends that were dropped

tables  == << connections, reliable_send_streams, unreliable_send_streams >>
readers == << reading, known_streams >>
history == << told, ends, lost >>
vars == << link, accepting, running, commands, conn_reg, stream_reg, tables, open, readers, history >>

None == 0

Init ==
  /\ link = [c \in Conns |-> "none"]
  /\ accepting \in {"yes", "no"} /\ running = TRUE
  /\ commands = << >> /\ conn_reg = << >> /\ stream_reg = << >>
  /\ connections = {} /\ reliable_send_streams = {} /\ unreliable_send_streams = {}
  /\ open = {} /\ reading = {} /\ known_streams = {}
  /\ told = {} /\ ends = [c \in Conns |-> 0] /\ lost = {}

Knows(kind, c, s) == << kind, c, s >> \in told
----------------------------------------------------------------------------
(***************************************************************************)
(* The owner of the peer.  It creates a stream when it hears of the        *)
(* connection, and sends on streams it has heard of: a stream created, or  *)
(* the stream of a message, as the broker does.                            *)
(***************************************************************************)
SendCommand(command) ==
  /\ Len(commands) < MaxCommands
  /\ commands' = Append(commands, command)
  /\ UNCHANGED << link, accepting, running, conn_reg, stream_reg, tables, open, readers, history >>

Command(type, c, s) == [type |-> type, conn |-> c, stream |-> s]

Connect(c) ==
  /\ accepting = "no" /\ c \in Outgoing /\ link[c] = "none"
  /\ \A i \in DOMAIN commands : commands[i] # Command("Connect", c, None)
  /\ SendCommand(Command("Connect", c, None))

CreateStream(c, s) ==
  /\ c \in Outgoing /\ Knows("Connected", c, None) /\ ~Knows("StreamCreated", c, s)
  /\ \A i \in DOMAIN commands : commands[i] # Command("CreateStream", c, s)
  /\ << c, s >> \notin open
  /\ SendCommand(Command("CreateStream", c, s))

Send(c, s) ==
  /\ Knows("StreamCreated", c, s) \/ Knows("Message", c, s)
  /\ SendCommand(Command("Send", c, s))

CloseStream(c, s) ==
  /\ Knows("StreamCreated", c, s)
  /\ SendCommand(Command("CloseStream", c, s))

Shutdown == SendCommand(Command("Shutdown", None, None))
----------------------------------------------------------------------------
(***************************************************************************)
(* The branches of the loop.                                               *)
(***************************************************************************)
HandleConnReg ==
  /\ running /\ conn_reg # << >>
  /\ connections' = connections \cup {Head(conn_reg)}
  /\ conn_reg' = Tail(conn_reg)
  /\ UNCHANGED << link, accepting, running, commands, stream_reg, reliable_send_streams,
                  unreliable_send_streams, open, readers, history >>

\* Mutant: a stream whose connection is not registered yet is refused.
Sendable_Known(keys, key) == IF key[1] \in connections THEN keys \cup {key} ELSE keys

Sendable(keys, key) == keys \cup {key}

\* A stream that is listed already is not reported again.
HandleStreamReg ==
  /\ running /\ stream_reg # << >>
  /\ stream_reg' = Tail(stream_reg)
  /\ LET key == Head(stream_reg)
     IN  /\ IF Reliable[key[2]]
            THEN /\ reliable_send_streams' = Sendable(reliable_send_streams, key)
                 /\ UNCHANGED unreliable_send_streams
            ELSE /\ unreliable_send_streams' = unreliable_send_streams \cup {key}
                 /\ UNCHANGED reliable_send_streams
         /\ told' = IF key \in unreliable_send_streams THEN told
                    ELSE told \cup {<< "StreamCreated", key[1], key[2] >>}
  /\ UNCHANGED << link, accepting, running, commands, conn_reg, connections, open, readers,
                  ends, lost >>

Takes(type) ==
  /\ running /\ commands # << >> /\ Head(commands).type = type
  /\ commands' = Tail(commands)

\* Mutant: a dialled connection is registered through the channel, as an
\* accepted one is.
Dialled_Registers(c) == connections' = connections /\ conn_reg' = Append(conn_reg, c)

Dialled(c) == connections' = connections \cup {c} /\ conn_reg' = conn_reg

\* The loop waits for the handshake.  Each way to fail is reported as an error
\* of no connection.
HandleConnect ==
  /\ Takes("Connect")
  /\ LET c == Head(commands).conn
     IN  \/ /\ link' = [link EXCEPT ![c] = "up"]
            /\ Dialled(c)
            /\ told' = told \cup {<< "Connected", c, None >>}
            /\ reading' = reading \cup {c}
         \/ UNCHANGED << link, connections, conn_reg, told, reading >>
  /\ UNCHANGED << accepting, running, stream_reg, reliable_send_streams,
                  unreliable_send_streams, open, known_streams, ends, lost >>

\* A stream of a connection that has ended cannot be opened: the loop panics.
HandleCreateStream ==
  /\ Takes("CreateStream")
  /\ LET c   == Head(commands).conn
         key == << c, Head(commands).stream >>
     IN  \/ /\ c \in connections \/ ~Reliable[key[2]]
            /\ Reliable[key[2]] => link[c] = "up"
            /\ stream_reg' = Append(stream_reg, key)
            /\ open' = open \cup {key}
            /\ UNCHANGED running
         \/ /\ c \in connections /\ Reliable[key[2]] /\ link[c] = "cut"
            /\ running' = FALSE
            /\ UNCHANGED << stream_reg, open >>
         \/ /\ c \notin connections /\ Reliable[key[2]]
            /\ UNCHANGED << stream_reg, open, running >>
  /\ UNCHANGED << link, accepting, conn_reg, tables, readers, history >>

\* A message to an unknown connection or reliable stream is dropped; one that a
\* link which has ended does not take is reported as an error.
HandleSend ==
  /\ Takes("Send")
  /\ LET key     == << Head(commands).conn, Head(commands).stream >>
         dropped == \/ key[1] \notin connections
                    \/ Reliable[key[2]] /\ key \notin reliable_send_streams
     IN  lost' = IF dropped /\ << "StreamClosed", key[1], key[2] >> \notin told
                 THEN lost \cup {<< key[1], key[2], Knows("StreamCreated", key[1], key[2]) >>}
                 ELSE lost
  /\ UNCHANGED << link, accepting, running, conn_reg, stream_reg, tables, open, readers,
                  told, ends >>

HandleCloseStream ==
  /\ Takes("CloseStream")
  /\ LET key == << Head(commands).conn, Head(commands).stream >>
     IN  /\ reliable_send_streams' = reliable_send_streams \ {key}
         /\ unreliable_send_streams' = unreliable_send_streams \ {key}
         /\ told' = told \cup {<< "StreamClosed", key[1], key[2] >>}
  /\ UNCHANGED << link, accepting, running, conn_reg, stream_reg, connections, open, readers,
                  ends, lost >>

\* Every connection in the table is closed and reported, an ended one again.
HandleShutdown ==
  /\ Takes("Shutdown")
  /\ running' = FALSE
  /\ link' = [c \in Conns |-> IF c \in connections THEN "cut" ELSE link[c]]
  /\ connections' = {}
  /\ told' = told \cup {<< "Disconnected", c, None >> : c \in connections}
  /\ ends' = [c \in Conns |-> IF c \in connections THEN ends[c] + 1 ELSE ends[c]]
  /\ UNCHANGED << accepting, conn_reg, stream_reg, reliable_send_streams,
                  unreliable_send_streams, open, readers, lost >>
----------------------------------------------------------------------------
(***************************************************************************)
(* The tasks, which end with the loop, and the network.                    *)
(***************************************************************************)
\* The accept task reports the connection, registers it and starts its readers.
Accept(c) ==
  /\ running /\ accepting = "yes" /\ c \in Incoming /\ link[c] = "none"
  /\ link' = [link EXCEPT ![c] = "up"]
  /\ told' = told \cup {<< "Connected", c, None >>}
  /\ conn_reg' = Append(conn_reg, c)
  /\ reading' = reading \cup {c}
  /\ UNCHANGED << accepting, running, commands, stream_reg, tables, open, known_streams,
                  ends, lost >>

\* A handshake that fails ends the accept task.
AcceptPanics ==
  /\ running /\ accepting = "yes"
  /\ \E c \in Incoming : link[c] = "none"
  /\ accepting' = "panicked"
  /\ UNCHANGED << link, running, commands, conn_reg, stream_reg, tables, open, readers, history >>

\* A stream the other side has created.
AcceptStream(c, s) ==
  /\ running /\ c \in Incoming /\ link[c] = "up" /\ Reliable[s] /\ << c, s >> \notin open
  /\ open' = open \cup {<< c, s >>}
  /\ stream_reg' = Append(stream_reg, << c, s >>)
  /\ UNCHANGED << link, accepting, running, commands, conn_reg, tables, readers, history >>

\* A message on a stream; what had arrived is read after the end as well.
ReadStream(c, s) ==
  /\ running /\ << c, s >> \in open /\ Reliable[s]
  /\ told' = told \cup {<< "Message", c, s >>}
  /\ UNCHANGED << link, accepting, running, commands, conn_reg, stream_reg, tables, open,
                  readers, ends, lost >>

\* A datagram; the first of a stream registers the stream.
ReadDatagram(c, s) ==
  /\ running /\ c \in reading /\ link[c] = "up" /\ ~Reliable[s]
  /\ << "Message", c, s >> \notin told
  /\ known_streams' = known_streams \cup {<< c, s >>}
  /\ stream_reg' = IF << c, s >> \in known_streams THEN stream_reg
                   ELSE Append(stream_reg, << c, s >>)
  /\ told' = told \cup {<< "Message", c, s >>}
  /\ UNCHANGED << link, accepting, running, commands, conn_reg, tables, open, reading,
                  ends, lost >>

\* Mutant: who never sent a datagram has no reader to report the end.
Ends_WithDatagrams(c) == link[c] = "cut" /\ \E s \in Streams : << c, s >> \in known_streams

\* The reader of a link that was cut ends.
Ends(c) == link[c] = "cut"

\* The connection stays in the table of the loop.
ReportEnd(c) ==
  /\ running /\ c \in reading /\ Ends(c)
  /\ reading' = reading \ {c}
  /\ told' = told \cup {<< "Disconnected", c, None >>}
  /\ ends' = [ends EXCEPT ![c] = @ + 1]
  /\ UNCHANGED << link, accepting, running, commands, conn_reg, stream_reg, tables, open,
                  known_streams, lost >>

Cut(c) ==
  /\ link[c] = "up"
  /\ link' = [link EXCEPT ![c] = "cut"]
  /\ UNCHANGED << accepting, running, commands, conn_reg, stream_reg, tables, open, readers, history >>
----------------------------------------------------------------------------
Owner ==
  \/ \E c \in Conns : Connect(c)
  \/ \E c \in Conns, s \in Streams : CreateStream(c, s) \/ Send(c, s) \/ CloseStream(c, s)
  \/ Shutdown

Loop ==
  \/ HandleConnReg \/ HandleStreamReg
  \/ HandleConnect \/ HandleCreateStream \/ HandleSend \/ HandleCloseStream \/ HandleShutdown

Tasks ==
  \/ AcceptPanics
  \/ \E c \in Conns : Accept(c) \/ ReportEnd(c) \/ Cut(c)
  \/ \E c \in Conns, s \in Streams : AcceptStream(c, s) \/ ReadStream(c, s) \/ ReadDatagram(c, s)

Next == Owner \/ Loop \/ Tasks

Spec == Init /\ [][Next]_vars

\* The select of the loop picks among the ready channels at random, so none is
\* passed over for ever; the tasks are scheduled.
FairSpec ==
  /\ Spec
  /\ WF_vars(HandleConnReg) /\ WF_vars(HandleStreamReg)
  /\ \A c \in Conns : WF_vars(ReportEnd(c))
----------------------------------------------------------------------------
Keys     == Conns \X Streams
Kinds    == {"Connected", "Disconnected", "StreamCreated", "StreamClosed", "Message"}
Commands ==
  [type : {"Connect"}, conn : Outgoing, stream : {None}]
    \cup [type : {"CreateStream"}, conn : Outgoing, stream : Streams]
    \cup [type : {"Send", "CloseStream"}, conn : Conns, stream : Streams]
    \cup [type : {"Shutdown"}, conn : {None}, stream : {None}]

TypeOK ==
  /\ link \in [Conns -> {"none", "up", "cut"}]
  /\ accepting \in {"yes", "no", "panicked"} /\ running \in BOOLEAN
  /\ commands \in Seq(Commands) /\ conn_reg \in Seq(Conns) /\ stream_reg \in Seq(Keys)
  /\ connections \subseteq Conns /\ reading \subseteq Conns
  /\ reliable_send_streams \subseteq Keys /\ unreliable_send_streams \subseteq Keys
  /\ open \subseteq Keys /\ known_streams \subseteq Keys
  /\ told \subseteq Kinds \X Conns \X (Streams \cup {None})
  /\ ends \in [Conns -> Nat]
  /\ lost \subseteq Conns \X Streams \X BOOLEAN

Closed(c, s) == << "StreamClosed", c, s >> \in told

\* A message sent on a stream that was reported as created is not dropped, on
\* the connections this peer has dialled and until it closes the stream: the
\* tables the loop sends with never lag behind the events its owner acts on.
AnnouncedIsCarried ==
  \A c \in Outgoing, s \in Streams : << c, s, TRUE >> \notin lost

\* The comment of the accept task: the loop is told of a connection "so we can
\* send data back".  An answer to a message that was reported is carried.
AnswersAreCarried ==
  \A c \in Incoming, s \in Streams, told_of \in BOOLEAN : << c, s, told_of >> \notin lost

\* A stream the other side has opened becomes one to answer on, however the
\* registrations of its connection and of the stream are taken in, unless the
\* link ends, the stream is closed or the loop stops.
BecomesReachable ==
  \A c \in Incoming, s \in Streams :
    (<< c, s >> \in open /\ link[c] = "up" /\ running)
      ~> \/ c \in connections /\ << c, s >> \in reliable_send_streams
         \/ link[c] = "cut" \/ Closed(c, s) \/ ~running

\* The end of every connection that was reported is reported, as long as the
\* loop runs: the owner forgets a connection only then.
EndIsReported ==
  \A c \in Conns : (Knows("Connected", c, None) /\ link[c] = "cut") ~> ends[c] > 0 \/ ~running
=============================================================================
