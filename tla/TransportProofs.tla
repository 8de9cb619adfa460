--------------------------- MODULE TransportProofs ---------------------------
(***************************************************************************)
(* Theorems about Transport for any connections, streams and bounds.       *)
(***************************************************************************)
EXTENDS Transport, SequenceTheorems, TLAPS

Events == Kinds \X Conns \X (Streams \cup {None})

\* A set of sequences is closed under what the channels do.
LEMMA Channels ==
  ASSUME NEW S, NEW q \in Seq(S)
  PROVE  /\ \A e \in S : Append(q, e) \in Seq(S)
         /\ q # << >> => Head(q) \in S /\ Tail(q) \in Seq(S)
OBVIOUS

\* Who is at the other end of a command.
LEMMA CommandFields ==
  ASSUME NEW m \in Commands
  PROVE  /\ m.type = "Connect" => m.conn \in Outgoing
         /\ m.type = "CreateStream" => m.conn \in Outgoing /\ m.stream \in Streams
         /\ m.type \in {"Send", "CloseStream"} => m.conn \in Conns /\ m.stream \in Streams
BY DEF Commands

\* A command that is taken is one of the commands, and leaves the channel.
LEMMA TakesOne ==
  ASSUME TypeOK, NEW type, Takes(type)
  PROVE  /\ running /\ Head(commands).type = type
         /\ Head(commands) \in Commands /\ commands' \in Seq(Commands)
BY Channels DEF Takes, TypeOK

\* The channels and tables are empty at first.
LEMMA TypeInit == Init => TypeOK
BY TransportAssumption DEF Init, TypeOK, Keys, Conns

\* What the owner does keeps the types.
LEMMA TypeOwner == TypeOK /\ Owner => TypeOK'
<1> SUFFICES ASSUME TypeOK, Owner PROVE TypeOK'
  OBVIOUS
<1>1. \E m \in Commands : SendCommand(m)
  <2>1. CASE \E c \in Conns : Connect(c)
    BY <2>1 DEF Connect, Command, Commands
  <2>2. CASE \E c \in Conns, s \in Streams : CreateStream(c, s)
    BY <2>2 DEF CreateStream, Command, Commands
  <2>3. CASE \E c \in Conns, s \in Streams : Send(c, s)
    BY <2>3 DEF Send, Command, Commands
  <2>4. CASE \E c \in Conns, s \in Streams : CloseStream(c, s)
    BY <2>4 DEF CloseStream, Command, Commands
  <2>5. CASE Shutdown
    BY <2>5 DEF Shutdown, Command, Commands
  <2> QED
    BY <2>1, <2>2, <2>3, <2>4, <2>5 DEF Owner
<1>2. commands' \in Seq(Commands)
  BY <1>1, Channels DEF SendCommand, TypeOK
<1> QED
  BY <1>1, <1>2 DEF SendCommand, TypeOK, tables, readers, history

\* What the loop does keeps the types.
LEMMA TypeLoop == TypeOK /\ Loop => TypeOK'
<1> SUFFICES ASSUME TypeOK, Loop PROVE TypeOK'
  OBVIOUS
<1>1. CASE HandleConnReg
  <2>1. Head(conn_reg) \in Conns /\ Tail(conn_reg) \in Seq(Conns)
    BY <1>1, Channels DEF HandleConnReg, TypeOK
  <2> QED
    BY <1>1, <2>1 DEF HandleConnReg, TypeOK, readers, history
<1>2. CASE HandleStreamReg
  <2>1. Head(stream_reg) \in Keys /\ Tail(stream_reg) \in Seq(Keys)
    BY <1>2, Channels DEF HandleStreamReg, TypeOK
  <2>2. /\ reliable_send_streams' \subseteq Keys /\ unreliable_send_streams' \subseteq Keys
    BY <1>2, <2>1 DEF HandleStreamReg, TypeOK, Sendable
  <2>3. told' \subseteq Events
    BY <1>2, <2>1 DEF HandleStreamReg, TypeOK, Keys, Kinds, Events
  <2> QED
    BY <1>2, <2>1, <2>2, <2>3 DEF HandleStreamReg, TypeOK, readers, Events
<1>3. CASE HandleConnect
  <2>1. Head(commands).conn \in Conns /\ commands' \in Seq(Commands)
    BY <1>3, TakesOne, CommandFields DEF HandleConnect, Conns
  <2>2. /\ link' \in [Conns -> {"none", "up", "cut"}] /\ connections' \subseteq Conns
        /\ conn_reg' \in Seq(Conns) /\ reading' \subseteq Conns
    BY <1>3, <2>1 DEF HandleConnect, Dialled, TypeOK
  <2>3. told' \subseteq Events
    BY <1>3, <2>1 DEF HandleConnect, TypeOK, Kinds, Events
  <2> QED
    BY <1>3, <2>1, <2>2, <2>3 DEF HandleConnect, TypeOK, Events
<1>4. CASE HandleCreateStream
  <2>1. /\ Head(commands).conn \in Conns /\ Head(commands).stream \in Streams
        /\ commands' \in Seq(Commands)
    BY <1>4, TakesOne, CommandFields DEF HandleCreateStream, Conns
  <2>2. << Head(commands).conn, Head(commands).stream >> \in Keys
    BY <2>1 DEF Keys
  <2>3. /\ stream_reg' \in Seq(Keys) /\ open' \subseteq Keys
        /\ running' = FALSE \/ running' = running
    <3>1. Append(stream_reg, << Head(commands).conn, Head(commands).stream >>) \in Seq(Keys)
      BY <2>2, Channels DEF TypeOK
    <3> QED
      BY <1>4, <2>2, <3>1 DEF HandleCreateStream, TypeOK
  <2> QED
    BY <1>4, <2>1, <2>3 DEF HandleCreateStream, TypeOK, tables, readers, history
<1>5. CASE HandleSend
  <2>1. /\ Head(commands).conn \in Conns /\ Head(commands).stream \in Streams
        /\ commands' \in Seq(Commands)
    BY <1>5, TakesOne, CommandFields DEF HandleSend
  <2>2. lost' \subseteq Conns \X Streams \X BOOLEAN
    <3>1. Knows("StreamCreated", Head(commands).conn, Head(commands).stream) \in BOOLEAN
      BY DEF Knows
    <3> QED
      BY <1>5, <2>1, <3>1 DEF HandleSend, TypeOK
  <2> QED
    BY <1>5, <2>1, <2>2 DEF HandleSend, TypeOK, tables, readers
<1>6. CASE HandleCloseStream
  <2>1. /\ Head(commands).conn \in Conns /\ Head(commands).stream \in Streams
        /\ commands' \in Seq(Commands)
    BY <1>6, TakesOne, CommandFields DEF HandleCloseStream
  <2>2. told' \subseteq Events
    BY <1>6, <2>1 DEF HandleCloseStream, TypeOK, Kinds, Events
  <2> QED
    BY <1>6, <2>1, <2>2 DEF HandleCloseStream, TypeOK, readers, Events
<1>7. CASE HandleShutdown
  <2>1. commands' \in Seq(Commands)
    BY <1>7, TakesOne DEF HandleShutdown
  <2>2. told' \subseteq Events
    BY <1>7 DEF HandleShutdown, TypeOK, Kinds, Events
  <2>3. /\ link' \in [Conns -> {"none", "up", "cut"}] /\ ends' \in [Conns -> Nat]
    BY <1>7 DEF HandleShutdown, TypeOK
  <2> QED
    BY <1>7, <2>1, <2>2, <2>3 DEF HandleShutdown, TypeOK, readers, Events
<1> QED
  BY <1>1, <1>2, <1>3, <1>4, <1>5, <1>6, <1>7 DEF Loop

\* What the tasks do keeps the types.
LEMMA TypeTasks == TypeOK /\ Tasks => TypeOK'
<1> SUFFICES ASSUME TypeOK, Tasks PROVE TypeOK'
  OBVIOUS
<1>1. CASE AcceptPanics
  BY <1>1 DEF AcceptPanics, TypeOK, tables, readers, history
<1>2. CASE \E c \in Conns : Accept(c)
  <2>1. PICK c \in Conns : Accept(c)
    BY <1>2
  <2>2. conn_reg' \in Seq(Conns)
    BY <2>1, Channels DEF Accept, TypeOK
  <2>3. told' \subseteq Events
    BY <2>1 DEF Accept, TypeOK, Kinds, Events
  <2> QED
    BY <2>1, <2>2, <2>3 DEF Accept, TypeOK, tables, Events
<1>3. CASE \E c \in Conns : ReportEnd(c)
  <2>1. PICK c \in Conns : ReportEnd(c)
    BY <1>3
  <2>2. told' \subseteq Events /\ ends' \in [Conns -> Nat]
    BY <2>1 DEF ReportEnd, TypeOK, Kinds, Events
  <2> QED
    BY <2>1, <2>2 DEF ReportEnd, TypeOK, tables, Events
<1>4. CASE \E c \in Conns : Cut(c)
  BY <1>4 DEF Cut, TypeOK, tables, readers, history
<1>5. CASE \E c \in Conns, s \in Streams : AcceptStream(c, s)
  <2>1. PICK c \in Conns, s \in Streams : AcceptStream(c, s)
    BY <1>5
  <2>2. << c, s >> \in Keys
    BY DEF Keys
  <2>3. stream_reg' \in Seq(Keys)
    BY <2>1, <2>2, Channels DEF AcceptStream, TypeOK
  <2> QED
    BY <2>1, <2>2, <2>3 DEF AcceptStream, TypeOK, tables, readers, history
<1>6. CASE \E c \in Conns, s \in Streams : ReadStream(c, s)
  <2>1. PICK c \in Conns, s \in Streams : ReadStream(c, s)
    BY <1>6
  <2>2. told' \subseteq Events
    BY <2>1 DEF ReadStream, TypeOK, Kinds, Events
  <2> QED
    BY <2>1, <2>2 DEF ReadStream, TypeOK, tables, readers, Events
<1>7. CASE \E c \in Conns, s \in Streams : ReadDatagram(c, s)
  <2>1. PICK c \in Conns, s \in Streams : ReadDatagram(c, s)
    BY <1>7
  <2>2. << c, s >> \in Keys
    BY DEF Keys
  <2>3. stream_reg' \in Seq(Keys)
    BY <2>1, <2>2, Channels DEF ReadDatagram, TypeOK
  <2>4. told' \subseteq Events
    BY <2>1 DEF ReadDatagram, TypeOK, Kinds, Events
  <2> QED
    BY <2>1, <2>2, <2>3, <2>4 DEF ReadDatagram, TypeOK, tables, Events
<1> QED
  BY <1>1, <1>2, <1>3, <1>4, <1>5, <1>6, <1>7 DEF Tasks

\* The tables, channels and events of a peer have their types, for any
\* connections, streams and number of commands.
THEOREM TransportType == Spec => []TypeOK
<1>1. TypeOK /\ [Next]_vars => TypeOK'
  <2>1. TypeOK /\ UNCHANGED vars => TypeOK'
    BY DEF vars, tables, readers, history, TypeOK
  <2> QED
    BY <2>1, TypeOwner, TypeLoop, TypeTasks DEF Next
<1> QED
  BY TypeInit, <1>1, PTL DEF Spec
(***************************************************************************)
(* AnnouncedIsCarried.  The tables lag behind no event of a dialled        *)
(* connection: the loop puts the connection in its table before it sends   *)
(* Connected, and the stream before StreamCreated, in one branch each.     *)
(* The rest says that no stream is registered before its connection.       *)
(***************************************************************************)
Announced(c) == Knows("Connected", c, None)

\* A dialled connection that was announced is in the table.
InTable == \A c \in Outgoing : running /\ Announced(c) => c \in connections

\* Streams are created, and datagrams read, on announced connections only.
CreatesKnown ==
  \A i \in 1 .. Len(commands) : commands[i].type = "CreateStream" => Announced(commands[i].conn)
ReadsKnown == \A c \in reading : Announced(c)
RegistersKnown ==
  \A i \in 1 .. Len(stream_reg) : stream_reg[i][1] \in Outgoing => Announced(stream_reg[i][1])

\* A stream that was reported and is not closed is one to send on.
StreamsKnown ==
  \A c \in Outgoing, s \in Streams :
    Knows("StreamCreated", c, s) /\ ~Closed(c, s) =>
      /\ Announced(c)
      /\ Reliable[s] => << c, s >> \in reliable_send_streams

TablesKeepUp ==
  /\ InTable /\ CreatesKnown /\ ReadsKnown /\ RegistersKnown /\ StreamsKnown
  /\ AnnouncedIsCarried

\* What has been told stays told, but for the reports of ends the tables matter to.
Quiet ==
  /\ told \subseteq told' /\ (running' => running)
  /\ \A c \in Outgoing :
       /\ Announced(c)' => Announced(c)
       /\ \A s \in Streams : Knows("StreamCreated", c, s)' => Knows("StreamCreated", c, s)
  /\ connections \subseteq connections' \/ ~running'
  /\ reliable_send_streams \subseteq reliable_send_streams' /\ lost' = lost

\* A channel with one element more, or one less.
LEMMA ChannelElements ==
  ASSUME NEW S, NEW q \in Seq(S)
  PROVE  /\ \A e \in S : \A i \in 1 .. Len(Append(q, e)) :
              (i \in 1 .. Len(q) /\ Append(q, e)[i] = q[i]) \/ Append(q, e)[i] = e
         /\ q # << >> => \A i \in 1 .. Len(Tail(q)) :
              i + 1 \in 1 .. Len(q) /\ Tail(q)[i] = q[i + 1]
         /\ q # << >> => 1 \in 1 .. Len(q) /\ Head(q) = q[1]
OBVIOUS

\* Nothing was announced at first.
LEMMA KnownInit == Init => TablesKeepUp
BY DEF Init, TablesKeepUp, InTable, CreatesKnown, ReadsKnown, RegistersKnown, StreamsKnown,
       AnnouncedIsCarried, Knows, Announced

\* Steps that neither announce nor drop anything keep three of the parts.
LEMMA QuietStep ==
  ASSUME TypeOK, TablesKeepUp, Quiet
  PROVE  InTable' /\ StreamsKnown' /\ AnnouncedIsCarried'
<1>1. InTable'
  <2>1. SUFFICES ASSUME NEW c \in Outgoing, running', Announced(c)'
                 PROVE  c \in connections'
    BY DEF InTable
  <2>2. running /\ Announced(c) /\ connections \subseteq connections'
    BY <2>1 DEF Quiet
  <2> QED
    BY <2>2 DEF TablesKeepUp, InTable
<1>2. StreamsKnown'
  BY DEF TablesKeepUp, StreamsKnown, Quiet, Closed, Announced, Knows
<1>3. AnnouncedIsCarried'
  BY DEF TablesKeepUp, AnnouncedIsCarried, Quiet
<1> QED
  BY <1>1, <1>2, <1>3

\* What waits in the channels was announced, and stays so.
LEMMA CreatesKept ==
  ASSUME TypeOK, TablesKeepUp, told \subseteq told',
         \/ commands' = commands
         \/ commands # << >> /\ commands' = Tail(commands)
         \/ \E m \in Commands : /\ commands' = Append(commands, m)
                                /\ m.type = "CreateStream" => Announced(m.conn)
  PROVE  CreatesKnown'
<1>1. \A i \in 1 .. Len(commands') :
        commands'[i].type = "CreateStream" => Announced(commands'[i].conn)
  <2>1. commands \in Seq(Commands) /\ CreatesKnown
    BY DEF TypeOK, TablesKeepUp
  <2>2. CASE commands' = commands
    BY <2>1, <2>2 DEF CreatesKnown
  <2>3. CASE commands # << >> /\ commands' = Tail(commands)
    BY <2>1, <2>3, ChannelElements DEF CreatesKnown
  <2>4. CASE \E m \in Commands : /\ commands' = Append(commands, m)
                                 /\ m.type = "CreateStream" => Announced(m.conn)
    BY <2>1, <2>4, ChannelElements DEF CreatesKnown
  <2> QED
    BY <2>2, <2>3, <2>4
<1> QED
  BY <1>1 DEF CreatesKnown, Announced, Knows

\* Nor does a stream wait whose connection was not announced.
LEMMA RegistersKept ==
  ASSUME TypeOK, TablesKeepUp, told \subseteq told',
         \/ stream_reg' = stream_reg
         \/ stream_reg # << >> /\ stream_reg' = Tail(stream_reg)
         \/ \E key \in Keys : /\ stream_reg' = Append(stream_reg, key)
                              /\ key[1] \in Outgoing => Announced(key[1])
  PROVE  RegistersKnown'
<1>1. \A i \in 1 .. Len(stream_reg') :
        stream_reg'[i][1] \in Outgoing => Announced(stream_reg'[i][1])
  <2>1. stream_reg \in Seq(Keys) /\ RegistersKnown
    BY DEF TypeOK, TablesKeepUp
  <2>2. CASE stream_reg' = stream_reg
    BY <2>1, <2>2 DEF RegistersKnown
  <2>3. CASE stream_reg # << >> /\ stream_reg' = Tail(stream_reg)
    BY <2>1, <2>3, ChannelElements DEF RegistersKnown
  <2>4. CASE \E key \in Keys : /\ stream_reg' = Append(stream_reg, key)
                               /\ key[1] \in Outgoing => Announced(key[1])
    BY <2>1, <2>4, ChannelElements DEF RegistersKnown
  <2> QED
    BY <2>2, <2>3, <2>4
<1> QED
  BY <1>1 DEF RegistersKnown, Announced, Knows

\* The owner creates streams on connections that were announced.
LEMMA OwnerStep == TypeOK /\ TablesKeepUp /\ Owner => TablesKeepUp'
<1> SUFFICES ASSUME TypeOK, TablesKeepUp, Owner PROVE TablesKeepUp'
  OBVIOUS
<1>1. \E m \in Commands : /\ SendCommand(m)
                          /\ m.type = "CreateStream" => Announced(m.conn)
  <2>1. CASE \E c \in Conns : Connect(c)
    BY <2>1 DEF Connect, Command, Commands
  <2>2. CASE \E c \in Conns, s \in Streams : CreateStream(c, s)
    BY <2>2 DEF CreateStream, Command, Commands, Announced
  <2>3. CASE \E c \in Conns, s \in Streams : Send(c, s)
    BY <2>3 DEF Send, Command, Commands
  <2>4. CASE \E c \in Conns, s \in Streams : CloseStream(c, s)
    BY <2>4 DEF CloseStream, Command, Commands
  <2>5. CASE Shutdown
    BY <2>5 DEF Shutdown, Command, Commands
  <2> QED
    BY <2>1, <2>2, <2>3, <2>4, <2>5 DEF Owner
<1>2. /\ UNCHANGED << running, stream_reg, connections, reliable_send_streams, reading >>
      /\ UNCHANGED << told, lost >>
  BY <1>1 DEF SendCommand, tables, readers, history
<1>3. Quiet
  BY <1>2 DEF Quiet, Announced, Knows
<1>4. CreatesKnown'
  BY <1>1, <1>2, CreatesKept DEF SendCommand
<1>5. RegistersKnown' /\ ReadsKnown'
  BY <1>2, RegistersKept DEF TablesKeepUp, ReadsKnown, Announced, Knows
<1> QED
  BY <1>3, <1>4, <1>5, QuietStep DEF TablesKeepUp

\* A stream enters the table in the branch that reports it.
LEMMA StreamRegStep == TypeOK /\ TablesKeepUp /\ HandleStreamReg => TablesKeepUp'
<1> SUFFICES ASSUME TypeOK, TablesKeepUp, HandleStreamReg PROVE TablesKeepUp'
  OBVIOUS
<1> DEFINE key == Head(stream_reg)
<1>1. /\ stream_reg # << >> /\ stream_reg' = Tail(stream_reg) /\ key \in Keys
      /\ UNCHANGED << running, commands, connections, reading, lost >>
      /\ Reliable[key[2]] => reliable_send_streams' = reliable_send_streams \cup {key}
      /\ ~Reliable[key[2]] => reliable_send_streams' = reliable_send_streams
      /\ \/ told' = told
         \/ told' = told \cup {<< "StreamCreated", key[1], key[2] >>}
  BY ChannelElements DEF HandleStreamReg, Sendable, readers, TypeOK
<1>2. told \subseteq told' /\ \A c \in Conns : Announced(c)' <=> Announced(c)
  BY <1>1 DEF Announced, Knows
<1>3. key[1] \in Outgoing => Announced(key[1])
  BY <1>1, ChannelElements DEF TablesKeepUp, RegistersKnown, TypeOK
<1>4. StreamsKnown'
  <2>1. SUFFICES ASSUME NEW c \in Outgoing, NEW s \in Streams,
                        Knows("StreamCreated", c, s)', ~Closed(c, s)'
                 PROVE  /\ Announced(c)'
                        /\ Reliable[s] => << c, s >> \in reliable_send_streams'
    BY DEF StreamsKnown
  <2>2. ~Closed(c, s)
    BY <1>2, <2>1 DEF Closed
  <2>3. CASE Knows("StreamCreated", c, s)
    BY <1>1, <1>2, <2>2, <2>3 DEF TablesKeepUp, StreamsKnown, Conns
  <2>4. CASE ~Knows("StreamCreated", c, s)
    <3>1. key = << c, s >>
      BY <1>1, <2>1, <2>4 DEF Knows, Keys
    <3> QED
      BY <1>1, <1>2, <1>3, <3>1 DEF Conns
  <2> QED
    BY <2>3, <2>4
<1>5. InTable' /\ ReadsKnown' /\ AnnouncedIsCarried'
  <2>1. reading' \subseteq Conns
    BY <1>1 DEF TypeOK
  <2> QED
    BY <1>1, <1>2, <2>1 DEF TablesKeepUp, InTable, ReadsKnown, AnnouncedIsCarried, Conns
<1> QED
  BY <1>1, <1>2, <1>4, <1>5, CreatesKept, RegistersKept DEF TablesKeepUp

\* A dialled connection enters the table in the branch that reports it.
LEMMA ConnectStep == TypeOK /\ TablesKeepUp /\ HandleConnect => TablesKeepUp'
<1> SUFFICES ASSUME TypeOK, TablesKeepUp, HandleConnect PROVE TablesKeepUp'
  OBVIOUS
<1> DEFINE c == Head(commands).conn
<1>1. /\ commands # << >> /\ commands' = Tail(commands)
      /\ UNCHANGED << running, stream_reg, reliable_send_streams, lost >>
      /\ \/ /\ told' = told \cup {<< "Connected", c, None >>}
            /\ connections' = connections \cup {c}
            /\ reading' = reading \cup {c}
         \/ UNCHANGED << told, connections, reading >>
  BY DEF HandleConnect, Dialled, Takes
<1>2. told \subseteq told' /\ connections \subseteq connections'
  BY <1>1
<1>3. InTable'
  BY <1>1, <1>2 DEF TablesKeepUp, InTable, Announced, Knows
<1>4. ReadsKnown'
  BY <1>1, <1>2 DEF TablesKeepUp, ReadsKnown, Announced, Knows
<1>5. StreamsKnown'
  <2>1. \A o \in Outgoing, s \in Streams :
          /\ Knows("StreamCreated", o, s)' => Knows("StreamCreated", o, s)
          /\ Closed(o, s) => Closed(o, s)'
          /\ Announced(o) => Announced(o)'
    BY <1>1 DEF Knows, Closed, Announced
  <2> QED
    BY <1>1, <2>1 DEF TablesKeepUp, StreamsKnown
<1>6. AnnouncedIsCarried'
  BY <1>1 DEF TablesKeepUp, AnnouncedIsCarried
<1> QED
  BY <1>1, <1>2, <1>3, <1>4, <1>5, <1>6, CreatesKept, RegistersKept DEF TablesKeepUp

\* What is sent on a stream that was reported finds its tables.
LEMMA SendStep == TypeOK /\ TablesKeepUp /\ HandleSend => TablesKeepUp'
<1> SUFFICES ASSUME TypeOK, TablesKeepUp, HandleSend PROVE TablesKeepUp'
  OBVIOUS
<1> DEFINE c == Head(commands).conn
           s == Head(commands).stream
<1>1. /\ commands # << >> /\ commands' = Tail(commands) /\ running
      /\ UNCHANGED << running, stream_reg, connections, reliable_send_streams, reading, told >>
  BY DEF HandleSend, Takes, tables, readers
<1>2. c \in Conns /\ s \in Streams
  BY TakesOne, CommandFields DEF HandleSend
<1>3. AnnouncedIsCarried'
  <2>1. CASE lost' = lost
    BY <2>1 DEF TablesKeepUp, AnnouncedIsCarried
  <2>2. CASE lost' # lost
    <3>1. /\ lost' = lost \cup {<< c, s, Knows("StreamCreated", c, s) >>}
          /\ \/ c \notin connections
             \/ Reliable[s] /\ << c, s >> \notin reliable_send_streams
          /\ ~Closed(c, s)
      BY <2>2 DEF HandleSend, Closed
    <3>2. c \in Outgoing => ~Knows("StreamCreated", c, s)
      BY <1>1, <1>2, <3>1 DEF TablesKeepUp, StreamsKnown, InTable
    <3>3. ASSUME NEW o \in Outgoing, NEW t \in Streams, << o, t, TRUE >> \in lost'
          PROVE  FALSE
      <4>1. << o, t, TRUE >> \notin lost
        BY DEF TablesKeepUp, AnnouncedIsCarried
      <4>2. << o, t, TRUE >> = << c, s, Knows("StreamCreated", c, s) >>
        BY <3>1, <3>3, <4>1
      <4>3. o = c /\ TRUE = Knows("StreamCreated", c, s)
        BY <4>2
      <4> QED
        BY <3>2, <4>3
    <3> QED
      BY <3>3 DEF AnnouncedIsCarried
  <2> QED
    BY <2>1, <2>2
<1>4. InTable' /\ StreamsKnown' /\ ReadsKnown'
  BY <1>1 DEF TablesKeepUp, InTable, StreamsKnown, ReadsKnown, Announced, Knows, Closed
<1> QED
  BY <1>1, <1>3, <1>4, CreatesKept, RegistersKept DEF TablesKeepUp

\* A stream that is closed is reported as closed.
LEMMA CloseStep == TypeOK /\ TablesKeepUp /\ HandleCloseStream => TablesKeepUp'
<1> SUFFICES ASSUME TypeOK, TablesKeepUp, HandleCloseStream PROVE TablesKeepUp'
  OBVIOUS
<1> DEFINE c == Head(commands).conn
           s == Head(commands).stream
<1>1. /\ commands # << >> /\ commands' = Tail(commands)
      /\ UNCHANGED << running, stream_reg, connections, reading, lost >>
      /\ reliable_send_streams' = reliable_send_streams \ {<< c, s >>}
      /\ told' = told \cup {<< "StreamClosed", c, s >>}
  BY DEF HandleCloseStream, Takes, readers
<1>2. told \subseteq told'
  BY <1>1
<1>3. \A o \in Conns, t \in Streams :
        /\ Knows("StreamCreated", o, t)' => Knows("StreamCreated", o, t)
        /\ Announced(o)' <=> Announced(o)
        /\ Closed(o, t) => Closed(o, t)'
        /\ << o, t >> = << c, s >> => Closed(o, t)'
  BY <1>1 DEF Knows, Announced, Closed
<1>4. StreamsKnown'
  <2>1. ASSUME NEW o \in Outgoing, NEW t \in Streams,
               Knows("StreamCreated", o, t)', ~Closed(o, t)'
        PROVE  Announced(o)' /\ (Reliable[t] => << o, t >> \in reliable_send_streams')
    <3>1. /\ Announced(o) /\ (Reliable[t] => << o, t >> \in reliable_send_streams)
          /\ << o, t >> # << c, s >>
      BY <1>3, <2>1 DEF TablesKeepUp, StreamsKnown, Conns
    <3> QED
      BY <1>1, <1>3, <3>1 DEF Conns
  <2> QED
    BY <2>1 DEF StreamsKnown
<1>5. InTable' /\ ReadsKnown' /\ AnnouncedIsCarried'
  <2>1. reading' \subseteq Conns /\ \A o \in Conns : Announced(o)' <=> Announced(o)
    BY <1>1 DEF TypeOK, Announced, Knows
  <2> QED
    BY <1>1, <2>1 DEF TablesKeepUp, InTable, ReadsKnown, AnnouncedIsCarried, Conns
<1> QED
  BY <1>1, <1>2, <1>4, <1>5, CreatesKept, RegistersKept DEF TablesKeepUp

\* The branches of the loop, together.
LEMMA LoopStep == TypeOK /\ TablesKeepUp /\ Loop => TablesKeepUp'
<1> SUFFICES ASSUME TypeOK, TablesKeepUp, Loop PROVE TablesKeepUp'
  OBVIOUS
<1>1. CASE HandleConnReg
  <2>1. /\ UNCHANGED << running, commands, stream_reg, reliable_send_streams, reading >>
        /\ UNCHANGED << told, lost >> /\ connections \subseteq connections'
    BY <1>1 DEF HandleConnReg, readers, history
  <2>2. Quiet
    BY <2>1 DEF Quiet, Announced, Knows
  <2>3. ReadsKnown'
    BY <2>1 DEF TablesKeepUp, ReadsKnown, Announced, Knows
  <2> QED
    BY <2>1, <2>2, <2>3, QuietStep, CreatesKept, RegistersKept DEF TablesKeepUp
<1>2. CASE HandleCreateStream
  <2> DEFINE key == << Head(commands).conn, Head(commands).stream >>
  <2>1. /\ commands # << >> /\ commands' = Tail(commands)
        /\ running' => running
        /\ UNCHANGED << connections, reliable_send_streams, reading, told, lost >>
        /\ stream_reg' = stream_reg \/ stream_reg' = Append(stream_reg, key)
    BY <1>2 DEF HandleCreateStream, Takes, tables, readers, history
  <2>2. key \in Keys /\ key[1] = Head(commands).conn
    BY <1>2, TakesOne, CommandFields DEF HandleCreateStream, Keys, Conns
  <2>3. Announced(key[1])
    <3>1. 1 \in 1 .. Len(commands) /\ Head(commands) = commands[1]
      BY <2>1, ChannelElements DEF TypeOK
    <3>2. Head(commands).type = "CreateStream"
      BY <1>2, TakesOne DEF HandleCreateStream
    <3> QED
      BY <2>2, <3>1, <3>2 DEF TablesKeepUp, CreatesKnown
  <2>4. Quiet
    BY <2>1 DEF Quiet, Announced, Knows
  <2>5. ReadsKnown'
    BY <2>1 DEF TablesKeepUp, ReadsKnown, Announced, Knows
  <2>6. RegistersKnown'
    BY <2>1, <2>2, <2>3, RegistersKept
  <2> QED
    BY <2>1, <2>4, <2>5, <2>6, QuietStep, CreatesKept DEF TablesKeepUp
<1>3. CASE HandleShutdown
  <2>1. /\ commands # << >> /\ commands' = Tail(commands) /\ ~running'
        /\ UNCHANGED << stream_reg, reliable_send_streams, reading, lost >>
        /\ told' = told \cup {<< "Disconnected", c, None >> : c \in connections}
    BY <1>3 DEF HandleShutdown, Takes, readers
  <2>2. Quiet
    BY <2>1 DEF Quiet, Announced, Knows
  <2>3. ReadsKnown'
    BY <2>1 DEF TablesKeepUp, ReadsKnown, Announced, Knows
  <2> QED
    BY <2>1, <2>2, <2>3, QuietStep, CreatesKept, RegistersKept DEF TablesKeepUp
<1> QED
  BY <1>1, <1>2, <1>3, StreamRegStep, ConnectStep, SendStep, CloseStep DEF Loop

\* The tasks register what belongs to accepted connections, and streams of
\* datagrams, which are read on announced connections.
LEMMA TasksStep == TypeOK /\ TablesKeepUp /\ Tasks => TablesKeepUp'
<1> SUFFICES ASSUME TypeOK, TablesKeepUp, Tasks PROVE TablesKeepUp'
  OBVIOUS
<1>1. /\ UNCHANGED << running, commands, connections, reliable_send_streams, lost >>
      /\ told \subseteq told'
      /\ \A c \in Outgoing :
           /\ Announced(c)' => Announced(c)
           /\ \A s \in Streams : Knows("StreamCreated", c, s)' => Knows("StreamCreated", c, s)
  <2>1. CASE AcceptPanics \/ \E c \in Conns : Cut(c)
    BY <2>1 DEF AcceptPanics, Cut, tables, readers, history, Announced, Knows
  <2>2. CASE \E c \in Conns : Accept(c)
    BY <2>2, TransportAssumption DEF Accept, tables, Announced, Knows
  <2>3. CASE \E c \in Conns : ReportEnd(c)
    BY <2>3 DEF ReportEnd, tables, Announced, Knows
  <2>4. CASE \E c \in Conns, s \in Streams : AcceptStream(c, s)
    BY <2>4 DEF AcceptStream, tables, readers, history, Announced, Knows
  <2>5. CASE \E c \in Conns, s \in Streams : ReadStream(c, s)
    BY <2>5 DEF ReadStream, tables, readers, Announced, Knows
  <2>6. CASE \E c \in Conns, s \in Streams : ReadDatagram(c, s)
    BY <2>6 DEF ReadDatagram, tables, Announced, Knows
  <2> QED
    BY <2>1, <2>2, <2>3, <2>4, <2>5, <2>6 DEF Tasks
<1>2. Quiet
  BY <1>1 DEF Quiet
<1>3. ReadsKnown'
  <2>1. CASE \E c \in Conns : Accept(c)
    BY <2>1 DEF Accept, TablesKeepUp, ReadsKnown, Announced, Knows
  <2>2. CASE reading' \subseteq reading
    BY <1>1, <2>2 DEF TablesKeepUp, ReadsKnown, Announced, Knows
  <2> QED
    BY <2>1, <2>2 DEF Tasks, AcceptPanics, Cut, ReportEnd, AcceptStream, ReadStream,
                      ReadDatagram, readers
<1>4. \/ stream_reg' = stream_reg
      \/ \E key \in Keys : /\ stream_reg' = Append(stream_reg, key)
                           /\ key[1] \in Outgoing => Announced(key[1])
  <2>1. CASE \E c \in Conns, s \in Streams : AcceptStream(c, s)
    BY <2>1, TransportAssumption DEF AcceptStream, Keys
  <2>2. CASE \E c \in Conns, s \in Streams : ReadDatagram(c, s)
    <3>1. PICK c \in Conns, s \in Streams : ReadDatagram(c, s)
      BY <2>2
    <3>2. << c, s >> \in Keys /\ Announced(c)
      BY <3>1 DEF ReadDatagram, Keys, TablesKeepUp, ReadsKnown
    <3> QED
      BY <3>1, <3>2 DEF ReadDatagram
  <2> QED
    BY <2>1, <2>2 DEF Tasks, AcceptPanics, Cut, Accept, ReportEnd, ReadStream
<1> QED
  BY <1>1, <1>2, <1>3, <1>4, QuietStep, CreatesKept, RegistersKept DEF TablesKeepUp

\* A message on a stream of a dialled connection that was reported as created,
\* and that the owner has not closed, is never dropped by the loop.
THEOREM TablesNeverLag == Spec => []AnnouncedIsCarried
<1>1. TypeOK /\ TablesKeepUp /\ [Next]_vars => TablesKeepUp'
  <2>1. TypeOK /\ TablesKeepUp /\ UNCHANGED vars => TablesKeepUp'
    <3> SUFFICES ASSUME TypeOK, TablesKeepUp, UNCHANGED vars PROVE TablesKeepUp'
      OBVIOUS
    <3>1. /\ UNCHANGED << running, commands, stream_reg, connections >>
          /\ UNCHANGED << reliable_send_streams, reading, told, lost >>
      BY DEF vars, tables, readers, history
    <3>2. Quiet
      BY <3>1 DEF Quiet, Announced, Knows
    <3>3. ReadsKnown'
      BY <3>1 DEF TablesKeepUp, ReadsKnown, Announced, Knows
    <3> QED
      BY <3>1, <3>2, <3>3, QuietStep, CreatesKept, RegistersKept DEF TablesKeepUp
  <2> QED
    BY <2>1, OwnerStep, LoopStep, TasksStep DEF Next
<1>2. TablesKeepUp => AnnouncedIsCarried
  BY DEF TablesKeepUp
<1> QED
  BY KnownInit, TransportType, <1>1, <1>2, PTL DEF Spec
==============================================================================
