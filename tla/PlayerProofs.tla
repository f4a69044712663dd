---------------------------- MODULE PlayerProofs ----------------------------
(***************************************************************************)
(* A player: the messages between his client and the server, for any       *)
(* window, and any number of commands, maps and restarts; his download,    *)
(* for a file, blocks and a window of any size; and the bounds on his      *)
(* sprinting, for every sprint time, least time and length of a move, and  *)
(* any change of the cvars.                                                *)
(***************************************************************************)
EXTENDS ClientMessage, Download, SprintWindow, SharedLemmas, TLAPS

----------------------------------------------------------------------------
(* His messages. *)
Servers == [state : {"connected", "primed", "active", "zombie"},
            sequence : 0 .. MaxCommands, acknowledge : Int,
            downloadName : BOOLEAN, last : Commands, bit : {0, 1}]
Players == [id : Id, executed : 0 .. MaxCommands, lost : BOOLEAN, after : BOOLEAN,
            command : Commands, bit : {0, 1}, waits : BOOLEAN, honest : BOOLEAN]
Sent == [kind : {"snapshot", "gamestate"}, id : Id, after : BOOLEAN,
         from : Int, upto : 0 .. MaxCommands, bit : {0, 1}]
Mail == [id : Id, after : BOOLEAN, acknowledge : Int, command : Commands,
         bit : {0, 1}, moves : BOOLEAN]

Types == /\ serverId \in Id /\ cl \in Servers /\ client \in Players /\ overrun \in BOOLEAN
         /\ toClient \in Seq(Sent)
         /\ toServer = <<>> \/ \E x \in Mail : toServer = <<x>>

NotAfter(a, b) == a.map < b.map \/ (a.map = b.map /\ a.restart <= b.restart)

Came == toServer # <<>>

(* The gamestates under way. *)
Coming == {i \in DOMAIN toClient : toClient[i].kind = "gamestate"}

(* Nothing overtakes: maps and commands reach the client in their order.   *)
MapsInTurn ==
    /\ NotAfter(client.id, serverId)
    /\ \A i \in DOMAIN toClient : /\ NotAfter(toClient[i].id, serverId)
                                  /\ client.id.map <= toClient[i].id.map
    /\ \A i, j \in DOMAIN toClient : i < j => toClient[i].id.map <= toClient[j].id.map
    /\ Came => NotAfter(m.id, serverId) /\ m.id.map <= client.id.map

CommandsInTurn ==
    /\ client.executed <= cl.sequence
    /\ \A i \in DOMAIN toClient : /\ client.executed <= toClient[i].upto
                                  /\ toClient[i].upto <= cl.sequence
    /\ \A i, j \in DOMAIN toClient : i < j => toClient[i].upto <= toClient[j].upto

(* What the server takes for acknowledged, the client has executed.        *)
Trusted ==
    client.honest =>
        /\ Came => m.acknowledge \in 0 .. client.executed
        /\ ~overrun => /\ cl.acknowledge <= client.executed
                       /\ \A i \in DOMAIN toClient : toClient[i].from <= client.executed
                       /\ ~client.lost

(* While the gamestate of this map is under way, nothing that was received *)
(* is from after it, and it is not sent a second time.                     *)
SentOnce ==
    /\ \A i \in Coming : toClient[i].id.map = serverId.map =>
          /\ ~client.after
          /\ Came => ~m.after
          /\ \A j \in DOMAIN toClient : j <= i => ~toClient[j].after
    /\ \A i, j \in Coming : i < j => toClient[i].id.map < toClient[j].id.map
    /\ Came /\ m.after /\ client.id.map = serverId.map => m.id.map = serverId.map

(* The server executes only the command the client is at, and tells it     *)
(* apart by one bit.                                                       *)
OneCommand ==
    /\ \A i, j \in DOMAIN toClient :
          i < j /\ toClient[i].bit = client.bit => toClient[j].bit = client.bit
    /\ \A i \in DOMAIN toClient : toClient[i].bit = client.bit => cl.bit = client.bit
    /\ Came /\ Obeyed /\ New => m.command = client.command /\ m.bit = client.bit
    /\ client.command = "donedl" => ~cl.downloadName
    /\ client.command = "nextdl" /\ client.bit = cl.bit => ~cl.downloadName

(* While a gamestate is under way the server executes nothing.             *)
Quiet ==
    \A i \in Coming :
        /\ \A j \in DOMAIN toClient : i <= j => toClient[j].bit = cl.bit
        /\ ~cl.downloadName /\ cl.last # "nextdl"
        /\ Came /\ Obeyed => ~New
        /\ client.id.map = serverId.map => client.command = "donedl" /\ client.bit = cl.bit

(* Before the client has the gamestate it was sent, its messages are not   *)
(* obeyed.                                                                 *)
PrimedWaits ==
    cl.state = "primed" /\ client.id.map # serverId.map
        => ~cl.downloadName /\ cl.last # "nextdl"

MessageInv == /\ Types /\ MapsInTurn /\ CommandsInTurn /\ Trusted /\ SentOnce
              /\ OneCommand /\ Quiet /\ PrimedWaits /\ WindowKept /\ ActiveKnowsMap

----------------------------------------------------------------------------
LEMMA Label ==
    ASSUME NEW s \in Seq(Sent), NEW a \in BOOLEAN
    PROVE  /\ Labelled(s, a) \in Seq(Sent) /\ Len(Labelled(s, a)) = Len(s)
           /\ DOMAIN Labelled(s, a) = DOMAIN s
           /\ \A i \in DOMAIN s :
                 /\ s[i] \in Sent
                 /\ Labelled(s, a)[i].after = a
                 /\ Labelled(s, a)[i].kind = s[i].kind
                 /\ Labelled(s, a)[i].id = s[i].id
                 /\ Labelled(s, a)[i].from = s[i].from
                 /\ Labelled(s, a)[i].upto = s[i].upto
                 /\ Labelled(s, a)[i].bit = s[i].bit
  <1>1. \A i \in DOMAIN s : s[i] \in Sent
    OBVIOUS
  <1>2. ASSUME NEW x \in Sent
        PROVE  LET y == [x EXCEPT !.after = a]
               IN  /\ y \in Sent /\ y.after = a /\ y.kind = x.kind /\ y.id = x.id
                   /\ y.from = x.from /\ y.upto = x.upto /\ y.bit = x.bit
    BY Zenon DEF Sent
  <1>3. DOMAIN s = 1 .. Len(s) /\ Len(s) \in Nat
    OBVIOUS
  <1>4. \A i \in DOMAIN s : Labelled(s, a)[i] = [s[i] EXCEPT !.after = a]
    BY DEF Labelled
  <1>5. \A i \in DOMAIN s : Labelled(s, a)[i] \in Sent
    BY <1>1, <1>2, <1>4
  <1>6. Labelled(s, a) = [i \in 1 .. Len(s) |-> Labelled(s, a)[i]]
    BY <1>3 DEF Labelled
  <1>7. Labelled(s, a) \in Seq(Sent) /\ Len(Labelled(s, a)) = Len(s)
        /\ DOMAIN Labelled(s, a) = DOMAIN s
    BY <1>3, <1>5, <1>6
  <1>8. ASSUME NEW i \in DOMAIN s
        PROVE  /\ Labelled(s, a)[i].after = a
               /\ Labelled(s, a)[i].kind = s[i].kind
               /\ Labelled(s, a)[i].id = s[i].id
               /\ Labelled(s, a)[i].from = s[i].from
               /\ Labelled(s, a)[i].upto = s[i].upto
               /\ Labelled(s, a)[i].bit = s[i].bit
    <2>1. s[i] \in Sent /\ Labelled(s, a)[i] = [s[i] EXCEPT !.after = a]
      BY <1>1, <1>4
    <2> QED
      BY <1>2, <2>1, Zenon
  <1> QED
    BY <1>1, <1>7, <1>8

----------------------------------------------------------------------------
(* Writing to fields of the server's client. *)
Like(c, d) == /\ c.sequence = d.sequence /\ c.acknowledge = d.acknowledge
              /\ c.downloadName = d.downloadName /\ c.last = d.last /\ c.bit = d.bit

LEMMA SetState ==
    ASSUME NEW c \in Servers, NEW s \in {"connected", "primed", "active", "zombie"}
    PROVE  /\ [c EXCEPT !.state = s] \in Servers
           /\ [c EXCEPT !.state = s].state = s
           /\ Like([c EXCEPT !.state = s], c)
  BY Zenon DEF Servers, Like

LEMMA SetSequence ==
    ASSUME NEW c \in Servers, NEW n \in 0 .. MaxCommands
    PROVE  LET d == [c EXCEPT !.sequence = n]
           IN  /\ d \in Servers /\ d.sequence = n
               /\ d.state = c.state /\ d.acknowledge = c.acknowledge
               /\ d.downloadName = c.downloadName /\ d.last = c.last /\ d.bit = c.bit
  BY Zenon DEF Servers

LEMMA SetAcknowledge ==
    ASSUME NEW c \in Servers, NEW n \in Int
    PROVE  LET d == [c EXCEPT !.acknowledge = n]
           IN  /\ d \in Servers /\ d.acknowledge = n
               /\ d.state = c.state /\ d.sequence = c.sequence
               /\ d.downloadName = c.downloadName /\ d.last = c.last /\ d.bit = c.bit
  BY Zenon DEF Servers

LEMMA SetDropped ==
    ASSUME NEW c \in Servers
    PROVE  LET d == [c EXCEPT !.state = "zombie", !.downloadName = FALSE]
           IN  /\ d \in Servers /\ d.state = "zombie" /\ d.downloadName = FALSE
               /\ d.sequence = c.sequence /\ d.acknowledge = c.acknowledge
               /\ d.last = c.last /\ d.bit = c.bit
  BY Zenon DEF Servers

(* Messages to the client. *)
LEMMA MessageFields ==
    ASSUME Types, NEW c \in Servers, NEW kind \in {"snapshot", "gamestate"}
    PROVE  LET x == Message(c, kind)
           IN  /\ x \in Sent /\ x.kind = kind /\ x.id = serverId /\ x.from = c.acknowledge
               /\ x.upto = c.sequence /\ x.bit = c.bit /\ (x.after <=> kind = "snapshot")
  <1>1. /\ serverId \in Id /\ c.acknowledge \in Int /\ c.sequence \in 0 .. MaxCommands
        /\ c.bit \in {0, 1} /\ (kind = "snapshot") \in BOOLEAN
    BY DEF Types, Servers
  <1> QED
    BY <1>1, Zenon DEF Message, Sent

LEMMA Ids ==
    ASSUME Types
    PROVE  /\ client \in Players /\ client.id \in Id
           /\ \A i \in DOMAIN toClient :
                 /\ toClient[i] \in Sent /\ toClient[i].id \in Id
                 /\ toClient[i].upto \in Int /\ toClient[i].from \in Int
                 /\ toClient[i].bit \in {0, 1} /\ toClient[i].after \in BOOLEAN
  <1>1. \A i \in DOMAIN toClient : toClient[i] \in Sent
    BY DEF Types
  <1> QED
    BY <1>1 DEF Types, Players, Sent

(* The message that has come. *)
LEMMA MailFields ==
    ASSUME Types, Came
    PROVE  /\ m \in Mail /\ toServer = <<m>> /\ Tail(toServer) = <<>>
           /\ m.id \in Id /\ m.acknowledge \in Int /\ m.command \in Commands
           /\ m.bit \in {0, 1} /\ m.after \in BOOLEAN /\ m.moves \in BOOLEAN
  <1>1. PICK x \in Mail : toServer = <<x>>
    BY DEF Types, Came
  <1>2. m = x /\ Tail(toServer) = <<>>
    BY <1>1 DEF m
  <1> QED
    BY <1>1, <1>2 DEF Mail

----------------------------------------------------------------------------
(* What a message of the client may do to the server's side, and nothing   *)
(* else.                                                                   *)
Taken == /\ cl'.acknowledge = m.acknowledge /\ ~OutOfRange /\ overrun' = overrun
Forgotten == /\ cl'.acknowledge = cl.sequence /\ OutOfRange
             /\ overrun' = (overrun \/ cl.sequence - m.acknowledge >= Window)

NotExecuted == /\ cl'.bit = cl.bit /\ cl'.last = cl.last
               /\ cl'.downloadName = cl.downloadName
Executed == /\ Obeyed /\ New /\ m.command # "donedl"
            /\ cl'.bit = m.bit /\ cl'.last = m.command
            /\ cl'.downloadName = IF m.command = "download" THEN TRUE
                                  ELSE IF m.command = "nextdl" THEN FALSE
                                  ELSE cl.downloadName

LEMMA AcknowledgeStep ==
    ASSUME MessageInv, Came, Taken \/ Forgotten, cl'.sequence = cl.sequence,
           cl' \in Servers
    PROVE  /\ WindowKept'
           /\ client.honest /\ ~overrun' => cl'.acknowledge <= client.executed /\ ~overrun
  <1>1. /\ m.acknowledge \in Int /\ cl.sequence \in Nat /\ cl.acknowledge \in Int
        /\ client.executed \in Nat /\ Window \in Nat \ {0}
    BY MessageAssumption, MailFields DEF MessageInv, Types, Servers, Players
  <1>2. WindowKept'
    BY <1>1 DEF Taken, Forgotten, OutOfRange, WindowKept
  <1>3. ASSUME client.honest, ~overrun'
        PROVE  cl'.acknowledge <= client.executed /\ ~overrun
    <2>1. m.acknowledge \in 0 .. client.executed /\ client.executed <= cl.sequence
      BY <1>3 DEF MessageInv, Trusted, CommandsInTurn
    <2>2. CASE Taken
      BY <1>1, <1>3, <2>1, <2>2 DEF Taken
    <2>3. CASE Forgotten
      <3>1. ~overrun /\ ~(cl.sequence - m.acknowledge >= Window)
        BY <1>3, <2>3, Zenon DEF Forgotten
      <3> QED
        BY <1>1, <2>1, <2>3, <3>1 DEF Forgotten, OutOfRange
    <2> QED
      BY <2>2, <2>3
  <1> QED
    BY <1>2, <1>3

LEMMA MessageStep ==
    ASSUME MessageInv, Came, Taken \/ Forgotten, NotExecuted \/ Executed,
           cl' \in Servers, cl'.sequence = cl.sequence,
           cl'.state = cl.state \/ (cl'.state = "active" /\ client.id.map = serverId.map),
           toServer' = <<>>, UNCHANGED <<serverId, client, toClient>>
    PROVE  MessageInv'
  <1>0. overrun' \in BOOLEAN
    BY DEF MessageInv, Types, Taken, Forgotten
  <1>1. Types' /\ ~Came'
    BY <1>0 DEF MessageInv, Types, Came
  <1>2. WindowKept' /\ CommandsInTurn' /\ Trusted'
    BY <1>1, AcknowledgeStep DEF MessageInv, CommandsInTurn, Trusted
  <1>3. MapsInTurn' /\ SentOnce'
    BY <1>1 DEF MessageInv, MapsInTurn, SentOnce, Coming, NotAfter
  <1>4. OneCommand'
    <2>1. Executed => m.command = client.command /\ m.bit = client.bit /\ cl.bit # client.bit
      BY DEF MessageInv, OneCommand, Executed, New
    <2> QED
      BY <1>1, <2>1 DEF MessageInv, OneCommand, Executed, NotExecuted
  <1>5. Quiet'
    <2>1. ASSUME NEW i \in Coming
          PROVE  NotExecuted
      BY <2>1 DEF MessageInv, Quiet, Executed, New
    <2> QED
      BY <1>1, <2>1 DEF MessageInv, Quiet, NotExecuted, Coming
  <1>6. PrimedWaits'
    <2>1. ASSUME cl.state = "primed", client.id.map # serverId.map, Executed
          PROVE  FALSE
      <3>1. m.id = serverId
        BY <2>1 DEF MessageInv, PrimedWaits, Executed, Obeyed
      <3>2. /\ client.id.map \in Int /\ serverId.map \in Int
        BY DEF MessageInv, Types, Players, Id
      <3> QED
        BY <2>1, <3>1, <3>2 DEF MessageInv, MapsInTurn, NotAfter
    <2> QED
      BY <2>1 DEF MessageInv, PrimedWaits, NotExecuted
  <1>7. ActiveKnowsMap'
    BY DEF MessageInv, ActiveKnowsMap
  <1> QED
    BY <1>1, <1>2, <1>3, <1>4, <1>5, <1>6, <1>7 DEF MessageInv

(* Who is sent a gamestate it asks for has finished its download.          *)
LEMMA PacketWithoutAnswer ==
    ASSUME MessageInv, Came,
           \/ PacketOutOfRange \/ PacketOfZombie \/ MessageObeyed
           \/ MessageOfThisMap \/ MessageOfOtherMap
    PROVE  MessageInv'
  <1>0. /\ cl \in Servers /\ m.acknowledge \in Int /\ m.command \in Commands
        /\ m.bit \in {0, 1} /\ Tail(toServer) = <<>> /\ cl.sequence \in Int
        /\ cl.downloadName \in BOOLEAN
    BY MailFields DEF MessageInv, Types, Servers
  <1>1. /\ Acknowledged \in Servers /\ Acknowledged.acknowledge = m.acknowledge
        /\ Acknowledged.state = cl.state /\ Acknowledged.sequence = cl.sequence
        /\ Acknowledged.downloadName = cl.downloadName /\ Acknowledged.last = cl.last
        /\ Acknowledged.bit = cl.bit
    BY <1>0, SetAcknowledge DEF Acknowledged
  <1>2. CASE PacketOutOfRange
    <2>1. /\ cl' \in Servers /\ cl'.acknowledge = cl.sequence
          /\ cl'.state = cl.state /\ cl'.sequence = cl.sequence
          /\ cl'.downloadName = cl.downloadName /\ cl'.last = cl.last
          /\ cl'.bit = cl.bit
      BY <1>0, <1>2, SetAcknowledge DEF PacketOutOfRange
    <2> QED
      BY <1>0, <1>2, <2>1, MessageStep DEF PacketOutOfRange, Forgotten, NotExecuted
  <1>3. CASE PacketOfZombie \/ MessageOfOtherMap
    <2>1. cl' = Acknowledged /\ ~OutOfRange
      BY <1>3 DEF PacketOfZombie, MessageOfOtherMap, Execute
    <2> QED
      BY <1>0, <1>1, <1>3, <2>1, MessageStep
         DEF PacketOfZombie, MessageOfOtherMap, Taken, NotExecuted
  <1>4. ASSUME Execute, NEW c, c \in Servers, c.state = cl.state, cl.state = "primed",
               SameMap \/ (Obeyed /\ c.sequence = cl.sequence)
        PROVE  client.id.map = serverId.map
    <2>1. client.id.map # serverId.map => m.id.map = serverId.map
      BY <1>4 DEF MessageInv, PrimedWaits, Obeyed, SameMap
    <2>2. client.id.map \in Int /\ serverId.map \in Int
      BY DEF MessageInv, Types, Players, Id
    <2> QED
      BY <2>1, <2>2 DEF MessageInv, MapsInTurn, NotAfter
  <1>5. CASE MessageOfThisMap
    <2>1. cl' = (IF cl.state = "primed" THEN [Acknowledged EXCEPT !.state = "active"]
                 ELSE Acknowledged)
      BY <1>5 DEF MessageOfThisMap
    <2>2. /\ cl' \in Servers /\ cl'.acknowledge = m.acknowledge
          /\ cl'.sequence = cl.sequence
          /\ cl'.downloadName = cl.downloadName /\ cl'.last = cl.last
          /\ cl'.bit = cl.bit
          /\ cl'.state = cl.state \/ (cl'.state = "active" /\ cl.state = "primed")
      BY <1>1, <2>1, SetState DEF Like
    <2>3. cl.state = "primed" => client.id.map = serverId.map
      BY <1>0, <1>4, <1>5 DEF MessageOfThisMap
    <2> QED
      BY <1>0, <1>5, <2>2, <2>3, MessageStep
         DEF MessageOfThisMap, Execute, Taken, NotExecuted
  <1>6. CASE MessageObeyed
    <2>1. /\ Commanded \in Servers /\ Commanded.acknowledge = m.acknowledge
          /\ Commanded.state = cl.state /\ Commanded.sequence = cl.sequence
          /\ ~New => /\ Commanded.bit = cl.bit /\ Commanded.last = cl.last
                     /\ Commanded.downloadName = cl.downloadName
          /\ New => /\ Commanded.bit = m.bit /\ Commanded.last = m.command
                    /\ Commanded.downloadName =
                          IF m.command = "download" THEN TRUE
                          ELSE IF m.command = "nextdl" THEN FALSE ELSE cl.downloadName
      <3>1. CASE ~New
        BY <1>1, <3>1 DEF Commanded
      <3>2. CASE New
        <4> DEFINE n == IF m.command = "download" THEN TRUE
                        ELSE IF m.command = "nextdl" THEN FALSE
                        ELSE Acknowledged.downloadName
        <4>1. n \in BOOLEAN
          BY <1>0, <1>1
        <4>2. Commanded = [Acknowledged EXCEPT !.last = m.command, !.bit = m.bit,
                                               !.downloadName = n]
          BY <1>1, <3>2 DEF Commanded, Servers
        <4>3. n = IF m.command = "download" THEN TRUE
                  ELSE IF m.command = "nextdl" THEN FALSE ELSE cl.downloadName
          BY <1>1
        <4> HIDE DEF n
        <4>4. /\ Commanded \in Servers /\ Commanded.last = m.command
              /\ Commanded.bit = m.bit /\ Commanded.downloadName = n
              /\ Commanded.state = Acknowledged.state
              /\ Commanded.sequence = Acknowledged.sequence
              /\ Commanded.acknowledge = Acknowledged.acknowledge
          BY <1>0, <1>1, <4>1, <4>2, Zenon DEF Servers
        <4> QED
          BY <1>1, <3>2, <4>3, <4>4
      <3> QED
        BY <3>1, <3>2
    <2>2. cl' = (IF m.moves /\ cl.state = "primed"
                 THEN [Commanded EXCEPT !.state = "active"] ELSE Commanded)
      BY <1>6 DEF MessageObeyed
    <2>3. /\ cl' \in Servers /\ Like(cl', Commanded)
          /\ cl'.state = cl.state \/ (cl'.state = "active" /\ cl.state = "primed")
      BY <2>1, <2>2, SetState DEF Like
    <2>4. cl.state = "primed" => client.id.map = serverId.map
      BY <1>4, <1>6, <2>1 DEF MessageObeyed
    <2>5. NotExecuted \/ Executed
      BY <1>6, <2>1, <2>3 DEF MessageObeyed, NotExecuted, Executed, Like
    <2> QED
      BY <1>0, <1>6, <2>1, <2>3, <2>4, <2>5, MessageStep
         DEF MessageObeyed, Execute, Taken, Like
  <1> QED
    BY <1>2, <1>3, <1>5, <1>6

----------------------------------------------------------------------------
(* The queue to the client grows by g; the others stay but for "after".    *)
SameBody(x, y) == /\ x.kind = y.kind /\ x.id = y.id /\ x.from = y.from
                  /\ x.upto = y.upto /\ x.bit = y.bit

Grown(g) == \A i \in DOMAIN toClient' :
               \/ /\ i \in DOMAIN toClient /\ i \in 1 .. Len(toClient)
                  /\ SameBody(toClient'[i], toClient[i])
               \/ i = Len(toClient) + 1 /\ toClient'[i] = g

LEMMA GrownInTurn ==
    ASSUME MessageInv, NEW g \in Sent, Grown(g), serverId' = serverId,
           g.id = serverId, g.upto = cl.sequence,
           cl'.sequence = cl.sequence,
           client'.id = client.id, client'.executed = client.executed,
           ~Came' \/ toServer' = toServer
    PROVE  MapsInTurn' /\ CommandsInTurn'
  <1>1. /\ serverId.map \in Int /\ serverId.restart \in Int
        /\ cl.sequence \in Int /\ Len(toClient) \in Nat
    BY DEF MessageInv, Types, Id, Servers
  <1>2. \A i \in DOMAIN toClient : /\ toClient[i].id.map \in Int /\ toClient[i].upto \in Int
                                   /\ toClient[i].id.map <= serverId.map
    <2>1. \A i \in DOMAIN toClient : toClient[i] \in Sent
      BY DEF MessageInv, Types
    <2> QED
      BY <1>1, <2>1 DEF MessageInv, MapsInTurn, NotAfter, Sent, Id
  <1>3. client.id.map \in Int /\ client.id.map <= serverId.map
    BY <1>1 DEF MessageInv, Types, Players, Id, MapsInTurn, NotAfter
  <1>4. MapsInTurn'
    BY SMTT(30), <1>1, <1>2, <1>3 DEF MessageInv, MapsInTurn, NotAfter, Grown, SameBody, Came, m
  <1>5. CommandsInTurn'
    BY <1>1, <1>2 DEF MessageInv, CommandsInTurn, Grown, SameBody
  <1> QED
    BY <1>4, <1>5

(* The client asks for the gamestate after a download, or lacks one.       *)
AsksForIt == /\ Obeyed /\ New /\ m.command = "donedl" /\ cl'.bit = m.bit
             /\ cl'.last = "donedl" /\ cl'.downloadName = cl.downloadName
LacksIt == NotExecuted /\ ~Obeyed /\ ~SameMap /\ m.after

LEMMA GameStateStep ==
    ASSUME MessageInv, Came, Taken, AsksForIt \/ LacksIt,
           cl' \in Servers, cl'.sequence = cl.sequence, cl'.state = "primed",
           NEW g \in Sent, g.kind = "gamestate", g.id = serverId, ~g.after,
           g.upto = cl.sequence, g.from = m.acknowledge, g.bit = cl'.bit,
           toClient' \in Seq(Sent), Grown(g),
           \A i \in DOMAIN toClient' : ~toClient'[i].after,
           client' \in Players, ~client'.after,
           client' = [client EXCEPT !.after = FALSE],
           toServer' = <<>>, UNCHANGED serverId
    PROVE  MessageInv'
  <1>1. Types' /\ ~Came'
    BY DEF MessageInv, Types, Came, Taken
  <1>2. /\ client'.id = client.id /\ client'.executed = client.executed
        /\ client'.lost = client.lost /\ client'.honest = client.honest
        /\ client'.command = client.command /\ client'.bit = client.bit
    BY DEF MessageInv, Types, Players
  <1>3. MapsInTurn' /\ CommandsInTurn'
    BY <1>1, <1>2, GrownInTurn
  <1>4. Trusted' /\ WindowKept'
    <2>1. WindowKept' /\ (client.honest /\ ~overrun'
                             => cl'.acknowledge <= client.executed /\ ~overrun)
      BY AcknowledgeStep
    <2> QED
      BY <1>1, <1>2, <2>1 DEF MessageInv, Trusted, Grown, SameBody, Taken
  <1>5. AsksForIt => /\ client.command = "donedl" /\ client.bit = m.bit
                     /\ Coming = {} /\ ~cl.downloadName
    BY DEF AsksForIt, MessageInv, OneCommand, Quiet
  <1>6. LacksIt => /\ client.id.map # serverId.map
                   /\ \A i \in Coming : toClient[i].id.map # serverId.map
                   /\ ~cl.downloadName /\ cl.last # "nextdl"
    BY DEF LacksIt, MessageInv, SentOnce, SameMap, Obeyed
  <1>7. \A i \in Coming' : \/ i \in Coming /\ SameBody(toClient'[i], toClient[i])
                           \/ i = Len(toClient) + 1 /\ toClient'[i] = g
    BY DEF Coming, Grown, SameBody
  <1>8. SentOnce'
    <2>1. \A i \in Coming : toClient[i].id.map < serverId.map
      <3>1. \A i \in Coming : /\ toClient[i].id.map # serverId.map
                              /\ NotAfter(toClient[i].id, serverId)
        BY <1>5, <1>6 DEF MessageInv, MapsInTurn, Coming
      <3> QED
        BY <3>1 DEF NotAfter
    <2>2. Len(toClient) \in Nat /\ \A i \in Coming : i \in 1 .. Len(toClient)
      BY DEF MessageInv, Types, Coming
    <2>3. \A i, j \in Coming' : i < j => toClient'[i].id.map < toClient'[j].id.map
      BY <1>7, <2>1, <2>2 DEF MessageInv, SentOnce, SameBody
    <2> QED
      BY <1>1, <2>3 DEF SentOnce, Coming
  <1>9. OneCommand'
    <2>1. Len(toClient) \in Nat
      BY DEF MessageInv, Types
    <2> QED
      BY <1>1, <1>2, <1>5, <2>1
         DEF MessageInv, OneCommand, Grown, SameBody, AsksForIt, LacksIt, NotExecuted
  <1>10. Quiet'
    <2>1. ASSUME NEW i \in Coming', NEW j \in DOMAIN toClient', i <= j
          PROVE  toClient'[j].bit = cl'.bit
      <3>1. Len(toClient) \in Nat
        BY DEF MessageInv, Types
      <3> QED
        BY <1>5, <1>7, <2>1, <3>1
           DEF MessageInv, Quiet, Grown, SameBody, AsksForIt, LacksIt, NotExecuted, Coming
    <2>2. /\ ~cl'.downloadName /\ cl'.last # "nextdl"
          /\ client'.id.map = serverId'.map
                => client'.command = "donedl" /\ client'.bit = cl'.bit
      BY <1>2, <1>5, <1>6 DEF AsksForIt, LacksIt, NotExecuted
    <2> QED
      BY <1>1, <2>1, <2>2 DEF Quiet
  <1>11. PrimedWaits' /\ ActiveKnowsMap'
    BY <1>5, <1>6 DEF PrimedWaits, ActiveKnowsMap, AsksForIt, LacksIt, NotExecuted
  <1> QED
    BY <1>1, <1>3, <1>4, <1>8, <1>9, <1>10, <1>11 DEF MessageInv

(* Writing to fields of the client. *)
LEMMA SetAfter ==
    ASSUME NEW c \in Players, NEW a \in BOOLEAN
    PROVE  LET d == [c EXCEPT !.after = a]
           IN  /\ d \in Players /\ d.after = a /\ d.id = c.id /\ d.executed = c.executed
               /\ d.lost = c.lost /\ d.command = c.command /\ d.bit = c.bit
               /\ d.waits = c.waits /\ d.honest = c.honest
  BY Zenon DEF Players

LEMMA PacketWithAnswer ==
    ASSUME MessageInv, Came, MessageAsksForGameState \/ MessageWithoutGameState
    PROVE  MessageInv'
  <1> DEFINE c == IF New /\ m.command = "donedl" /\ Obeyed THEN Commanded ELSE Acknowledged
             g == Message(c, "gamestate")
  <1>0. /\ Types /\ cl \in Servers /\ client \in Players /\ toClient \in Seq(Sent)
        /\ m.acknowledge \in Int /\ m.command \in Commands
        /\ m.bit \in {0, 1} /\ Tail(toServer) = <<>>
    BY MailFields DEF MessageInv, Types
  <1>1. /\ Acknowledged \in Servers /\ Acknowledged.acknowledge = m.acknowledge
        /\ Acknowledged.sequence = cl.sequence
        /\ Acknowledged.downloadName = cl.downloadName /\ Acknowledged.last = cl.last
        /\ Acknowledged.bit = cl.bit
    BY <1>0, SetAcknowledge DEF Acknowledged
  <1>2. ASSUME New, m.command = "donedl"
        PROVE  /\ Commanded \in Servers /\ Commanded.acknowledge = m.acknowledge
               /\ Commanded.sequence = cl.sequence /\ Commanded.last = "donedl"
               /\ Commanded.downloadName = cl.downloadName /\ Commanded.bit = m.bit
    <2>1. Commanded = [Acknowledged EXCEPT !.last = m.command, !.bit = m.bit]
      BY <1>1, <1>2 DEF Commanded, Servers
    <2>2. /\ Commanded \in Servers /\ Commanded.acknowledge = Acknowledged.acknowledge
          /\ Commanded.sequence = Acknowledged.sequence /\ Commanded.last = m.command
          /\ Commanded.downloadName = Acknowledged.downloadName
          /\ Commanded.bit = m.bit
      BY <1>0, <1>1, <2>1, Zenon DEF Servers
    <2> QED
      BY <1>1, <1>2, <2>2
  <1>3. /\ SendClientGameState(c) /\ ~OutOfRange
        /\ serverId' = serverId /\ overrun' = overrun
        /\ \/ Obeyed /\ New /\ m.command = "donedl" /\ c = Commanded
           \/ ~Obeyed /\ ~SameMap /\ m.after /\ c = Acknowledged
    BY DEF MessageAsksForGameState, MessageWithoutGameState, Execute
  <1>4. /\ c \in Servers /\ c.acknowledge = m.acknowledge /\ c.sequence = cl.sequence
    BY <1>1, <1>2, <1>3
  <1>5. \/ /\ Obeyed /\ New /\ m.command = "donedl" /\ c.bit = m.bit /\ c.last = "donedl"
           /\ c.downloadName = cl.downloadName
        \/ /\ ~Obeyed /\ ~SameMap /\ m.after /\ c.bit = cl.bit /\ c.last = cl.last
           /\ c.downloadName = cl.downloadName
    BY <1>1, <1>2, <1>3
  <1> HIDE DEF c
  <1>6. /\ g \in Sent /\ g.kind = "gamestate" /\ g.id = serverId /\ g.from = m.acknowledge
        /\ g.upto = cl.sequence /\ g.bit = c.bit /\ ~g.after
    BY <1>0, <1>4, MessageFields
  <1> HIDE DEF g
  <1>7. /\ cl' = [c EXCEPT !.state = "primed"] /\ client' = [client EXCEPT !.after = FALSE]
        /\ toServer' = <<>> /\ toClient' = Append(Labelled(toClient, FALSE), g)
    <2>1. Labelled(<<>>, FALSE) = <<>>
      <3>1. <<>> \in Seq(Sent) /\ Len(<<>>) = 0
        OBVIOUS
      <3>2. Labelled(<<>>, FALSE) \in Seq(Sent) /\ Len(Labelled(<<>>, FALSE)) = 0
        BY <3>1, Label
      <3>3. \A s \in Seq(Sent) : Len(s) = 0 => s = <<>>
        OBVIOUS
      <3> QED
        BY <3>2, <3>3, Zenon
    <2> QED
      BY <1>0, <1>3, <2>1 DEF SendClientGameState, Relabel, g
  <1>8. /\ cl' \in Servers /\ cl'.state = "primed" /\ Like(cl', c)
    BY <1>4, <1>7, SetState
  <1>9. /\ client' \in Players /\ ~client'.after
    BY <1>0, <1>7, SetAfter
  <1>10. /\ toClient' \in Seq(Sent) /\ Grown(g)
         /\ \A i \in DOMAIN toClient' : ~toClient'[i].after
    <2> DEFINE s == Labelled(toClient, FALSE)
    <2>1. /\ s \in Seq(Sent) /\ Len(s) = Len(toClient) /\ DOMAIN s = DOMAIN toClient
          /\ \A i \in DOMAIN toClient : ~s[i].after /\ SameBody(s[i], toClient[i])
      BY <1>0, Label DEF SameBody
    <2>2. DOMAIN toClient = 1 .. Len(toClient)
      BY <1>0
    <2> HIDE DEF s
    <2>3. toClient' = Append(s, g)
      BY <1>7 DEF s
    <2>4. /\ Append(s, g) \in Seq(Sent)
          /\ \A i \in DOMAIN Append(s, g) :
                \/ i \in DOMAIN s /\ Append(s, g)[i] = s[i]
                \/ i = Len(s) + 1 /\ Append(s, g)[i] = g
      BY <1>6, <2>1, Grow
    <2> QED
      BY <1>6, <2>1, <2>2, <2>3, <2>4 DEF Grown
  <1>11. (AsksForIt \/ LacksIt) /\ Taken
    BY <1>3, <1>4, <1>5, <1>8 DEF AsksForIt, LacksIt, Taken, NotExecuted, Like
  <1> QED
    BY <1>3, <1>4, <1>6, <1>7, <1>8, <1>9, <1>10, <1>11, GameStateStep DEF Like

----------------------------------------------------------------------------
(* The server's own steps. *)
LEMMA SendSnapshotStep ==
    ASSUME MessageInv, SendSnapshot
    PROVE  MessageInv'
  <1> DEFINE g == Message(cl, "snapshot")
  <1>0. /\ Types /\ cl \in Servers /\ client \in Players /\ toClient \in Seq(Sent)
        /\ serverId \in Id
    BY DEF MessageInv, Types
  <1>1. /\ g \in Sent /\ g.kind = "snapshot" /\ g.id = serverId /\ g.from = cl.acknowledge
        /\ g.upto = cl.sequence /\ g.bit = cl.bit
    BY <1>0, MessageFields
  <1> HIDE DEF g
  <1>2. /\ toClient' = Append(toClient, g) /\ cl.state # "zombie"
        /\ cl' = IF cl.downloadName THEN [cl EXCEPT !.state = "connected"] ELSE cl
        /\ serverId' = serverId /\ client' = client /\ toServer' = toServer
        /\ overrun' = overrun
    BY DEF SendSnapshot, g
  <1>3. /\ toClient' \in Seq(Sent)
        /\ \A i \in DOMAIN toClient' :
              /\ i \in Int
              /\ \/ i \in DOMAIN toClient /\ toClient'[i] = toClient[i] /\ i <= Len(toClient)
                 \/ i = Len(toClient) + 1 /\ toClient'[i] = g
    BY <1>0, <1>1, <1>2, Grow
  <1>4. /\ cl' \in Servers /\ Like(cl', cl)
        /\ cl'.state = cl.state \/ cl'.state = "connected"
    <2>1. CASE cl.downloadName
      BY <1>0, <1>2, <2>1, SetState
    <2>2. CASE ~cl.downloadName
      BY <1>0, <1>2, <2>2 DEF Like
    <2> QED
      BY <2>1, <2>2
  <1>5. Types'
    BY <1>2, <1>3, <1>4 DEF MessageInv, Types
  <1>6. Grown(g) /\ Len(toClient) \in Nat /\ DOMAIN toClient = 1 .. Len(toClient)
    BY <1>0, <1>3 DEF Grown, SameBody
  <1>7. MapsInTurn' /\ CommandsInTurn'
    BY <1>1, <1>2, <1>4, <1>6, GrownInTurn DEF Like
  <1>8. Trusted' /\ WindowKept'
    BY <1>1, <1>2, <1>3, <1>4 DEF MessageInv, Trusted, WindowKept, Came, m, Like
  <1>9. Coming' = Coming /\ \A i \in Coming : i <= Len(toClient)
    <2>1. Coming' \subseteq Coming /\ \A i \in Coming : i <= Len(toClient)
      BY <1>1, <1>3, <1>6 DEF Coming
    <2>2. Coming \subseteq Coming'
      BY <1>0, <1>1, <1>2 DEF Coming
    <2> QED
      BY <2>1, <2>2
  <1>10. SentOnce'
    BY <1>2, <1>3, <1>6, <1>9 DEF MessageInv, SentOnce, Came, m, Coming
  <1>11. (Obeyed' <=> Obeyed) /\ (New' <=> New) /\ m' = m /\ (Came' <=> Came)
    BY <1>2, <1>4 DEF Obeyed, New, m, Came, Like
  <1>12. OneCommand'
    BY <1>1, <1>2, <1>3, <1>4, <1>6, <1>11 DEF MessageInv, OneCommand, Like
  <1>13. Quiet'
    BY <1>1, <1>2, <1>3, <1>4, <1>6, <1>9, <1>11 DEF MessageInv, Quiet, Like
  <1>14. PrimedWaits' /\ ActiveKnowsMap'
    BY <1>2, <1>4 DEF MessageInv, PrimedWaits, ActiveKnowsMap, Like
  <1> QED
    BY <1>5, <1>7, <1>8, <1>10, <1>12, <1>13, <1>14 DEF MessageInv

LEMMA AddServerCommandStep ==
    ASSUME MessageInv, AddServerCommand
    PROVE  MessageInv'
  <1>0. /\ cl \in Servers /\ cl.sequence \in 0 .. MaxCommands /\ cl.acknowledge \in Int
    BY DEF MessageInv, Types, Servers
  <1>1. /\ cl' = [cl EXCEPT !.sequence = cl.sequence + 1]
        /\ cl.sequence + 1 \in 0 .. MaxCommands
        /\ cl.sequence - cl.acknowledge < Window
    BY <1>0, MessageAssumption DEF AddServerCommand
  <1>2. /\ cl' \in Servers /\ cl'.sequence = cl.sequence + 1 /\ cl'.state = cl.state
        /\ cl'.acknowledge = cl.acknowledge /\ cl'.downloadName = cl.downloadName
        /\ cl'.last = cl.last /\ cl'.bit = cl.bit
    BY <1>0, <1>1, SetSequence
  <1>3. UNCHANGED <<serverId, client, toServer, toClient, overrun>>
    BY DEF AddServerCommand
  <1>4. Types' /\ MapsInTurn' /\ Trusted' /\ SentOnce'
    BY <1>2, <1>3
       DEF MessageInv, Types, MapsInTurn, Trusted, SentOnce, Came, m, Coming
  <1>5. CommandsInTurn'
    <2>1. client.executed \in Int /\ \A i \in DOMAIN toClient : toClient[i].upto \in Int
      BY Ids DEF MessageInv, Types, Players
    <2> QED
      BY <1>0, <1>2, <1>3, <2>1 DEF MessageInv, CommandsInTurn
  <1>6. (Obeyed' <=> Obeyed) /\ (New' <=> New) /\ m' = m /\ (Came' <=> Came)
    BY <1>2, <1>3 DEF Obeyed, New, m, Came
  <1>7. OneCommand' /\ Quiet' /\ PrimedWaits' /\ ActiveKnowsMap'
    BY <1>2, <1>3, <1>6
       DEF MessageInv, OneCommand, Quiet, Coming, PrimedWaits, ActiveKnowsMap
  <1>8. WindowKept'
    BY <1>0, <1>1, <1>2, MessageAssumption DEF MessageInv, WindowKept
  <1> QED
    BY <1>4, <1>5, <1>7, <1>8 DEF MessageInv

LEMMA DropClientStep ==
    ASSUME MessageInv, DropClient
    PROVE  MessageInv'
  <1>1. /\ cl' \in Servers /\ cl'.state = "zombie" /\ cl'.downloadName = FALSE
        /\ cl'.sequence = cl.sequence /\ cl'.acknowledge = cl.acknowledge
        /\ cl'.last = cl.last /\ cl'.bit = cl.bit
    BY SetDropped DEF DropClient, MessageInv, Types
  <1>2. UNCHANGED <<serverId, client, toServer, toClient, overrun>>
    BY DEF DropClient
  <1>3. /\ Types' /\ MapsInTurn' /\ CommandsInTurn' /\ Trusted' /\ SentOnce'
        /\ WindowKept' /\ PrimedWaits' /\ ActiveKnowsMap'
    BY <1>1, <1>2
       DEF MessageInv, Types, MapsInTurn, CommandsInTurn, Trusted, SentOnce, Came, m, Coming,
           WindowKept, PrimedWaits, ActiveKnowsMap
  <1>4. (Obeyed' => Obeyed) /\ (New' <=> New) /\ m' = m /\ (Came' <=> Came)
    BY <1>1, <1>2 DEF Obeyed, New, m, Came
  <1>5. OneCommand' /\ Quiet'
    BY <1>1, <1>2, <1>4 DEF MessageInv, OneCommand, Quiet, Coming
  <1> QED
    BY <1>3, <1>5 DEF MessageInv

LEMMA MapRestartStep ==
    ASSUME MessageInv, MapRestart
    PROVE  MessageInv'
  <1>0. /\ serverId \in Id /\ cl \in Servers /\ serverId.map \in Int /\ serverId.restart \in Int
        /\ serverId.restart \in 0 .. MaxRestarts
    BY DEF MessageInv, Types, Id
  <1>1. /\ serverId' \in Id /\ serverId'.map = serverId.map
        /\ serverId'.restart = serverId.restart + 1
    <2>1. serverId.restart + 1 \in 0 .. MaxRestarts
      BY <1>0, MessageAssumption DEF MapRestart
    <2> QED
      BY <1>0, <2>1 DEF MapRestart, Id
  <1>2. UNCHANGED <<client, toServer, toClient, overrun>>
    BY DEF MapRestart
  <1>3. /\ cl' \in Servers /\ Like(cl', cl)
        /\ cl'.state = cl.state \/ (cl.state = "active" /\ cl'.state = "primed")
    <2>1. CASE cl.state = "active"
      BY <1>0, <2>1, SetState DEF MapRestart
    <2>2. CASE cl.state # "active"
      BY <1>0, <2>2 DEF MapRestart, Like
    <2> QED
      BY <2>1, <2>2
  <1>4. Types' /\ CommandsInTurn' /\ Trusted' /\ WindowKept'
    BY <1>1, <1>2, <1>3
       DEF MessageInv, Types, CommandsInTurn, Trusted, WindowKept, Came, m, Like
  <1>5. \A a \in Id : NotAfter(a, serverId) => NotAfter(a, serverId') /\ a # serverId'
    BY <1>0, <1>1 DEF NotAfter, Id
  <1>6. /\ client.id \in Id /\ \A i \in DOMAIN toClient : toClient[i].id \in Id
        /\ Came => m.id \in Id
    <2>1. Came => m.id \in Id
      BY MailFields DEF MessageInv
    <2> QED
      BY <2>1, Ids DEF MessageInv
  <1>7. MapsInTurn'
    BY <1>1, <1>2, <1>5, <1>6 DEF MessageInv, MapsInTurn, Came, m
  <1>8. SentOnce'
    BY <1>1, <1>2 DEF MessageInv, SentOnce, Came, m, Coming
  <1>9. (Came' /\ Obeyed' => Obeyed) /\ (New' <=> New) /\ m' = m /\ (Came' <=> Came)
    BY <1>2, <1>3, <1>5, <1>6 DEF MessageInv, MapsInTurn, Obeyed, New, m, Came, Like
  <1>10. OneCommand' /\ Quiet'
    BY <1>1, <1>2, <1>3, <1>9 DEF MessageInv, OneCommand, Quiet, Coming, Like
  <1>11. PrimedWaits' /\ ActiveKnowsMap'
    BY <1>1, <1>2, <1>3 DEF MessageInv, PrimedWaits, ActiveKnowsMap, Like
  <1> QED
    BY <1>4, <1>7, <1>8, <1>10, <1>11 DEF MessageInv

(* A new map: what is under way is after no gamestate of it.               *)
LEMMA MailLabelled ==
    ASSUME Types, NEW a \in BOOLEAN, toServer' = Labelled(toServer, a)
    PROVE  /\ toServer' = <<>> \/ \E x \in Mail : toServer' = <<x>>
           /\ Came' <=> Came
           /\ Came => /\ m'.id = m.id /\ m'.after = a /\ m'.acknowledge = m.acknowledge
                      /\ m'.command = m.command /\ m'.bit = m.bit
  <1>1. CASE toServer = <<>>
    <2>1. Labelled(<<>>, a) = <<>>
      BY DEF Labelled
    <2> QED
      BY <1>1, <2>1 DEF Came
  <1>2. ASSUME NEW x \in Mail, toServer = <<x>>
        PROVE  /\ toServer' = <<[x EXCEPT !.after = a]>>
               /\ m = x /\ m' = [x EXCEPT !.after = a] /\ Came /\ Came'
    <2>1. Labelled(<<x>>, a) = <<[x EXCEPT !.after = a]>>
      BY DEF Labelled
    <2> QED
      BY <1>2, <2>1 DEF Came, m
  <1>3. ASSUME NEW x \in Mail
        PROVE  LET y == [x EXCEPT !.after = a]
               IN  /\ y \in Mail /\ y.id = x.id /\ y.after = a
                   /\ y.acknowledge = x.acknowledge /\ y.command = x.command /\ y.bit = x.bit
    BY Zenon DEF Mail
  <1> QED
    BY <1>1, <1>2, <1>3 DEF Types

LEMMA SpawnServerStep ==
    ASSUME MessageInv, SpawnServer
    PROVE  MessageInv'
  <1>0. /\ serverId \in Id /\ cl \in Servers /\ serverId.map \in Int /\ serverId.restart \in Int
        /\ serverId.map \in 0 .. MaxMaps /\ client \in Players /\ toClient \in Seq(Sent)
        /\ TRUE \in BOOLEAN /\ Types
    BY DEF MessageInv, Types, Id
  <1>1. /\ serverId' \in Id /\ serverId'.map = serverId.map + 1
    <2>1. serverId.map + 1 \in 0 .. MaxMaps
      BY <1>0, MessageAssumption DEF SpawnServer
    <2> QED
      BY <1>0, <2>1, MessageAssumption DEF SpawnServer, Id
  <1>2. /\ toClient' = Labelled(toClient, TRUE) /\ toServer' = Labelled(toServer, TRUE)
        /\ client' = [client EXCEPT !.after = TRUE] /\ overrun' = overrun
    BY DEF SpawnServer, Relabel
  <1>3. /\ cl' \in Servers /\ Like(cl', cl) /\ cl'.state \in {"connected", "zombie"}
    <2>1. CASE cl.state = "zombie"
      BY <1>0, <2>1 DEF SpawnServer, Like
    <2>2. CASE cl.state # "zombie"
      BY <1>0, <2>2, SetState DEF SpawnServer
    <2> QED
      BY <2>1, <2>2
  <1>4. /\ toClient' \in Seq(Sent) /\ DOMAIN toClient' = DOMAIN toClient
        /\ \A i \in DOMAIN toClient : SameBody(toClient'[i], toClient[i])
    BY <1>0, <1>2, Label DEF SameBody
  <1>5. /\ client' \in Players /\ client'.id = client.id
        /\ client'.executed = client.executed /\ client'.lost = client.lost
        /\ client'.command = client.command /\ client'.bit = client.bit
        /\ client'.honest = client.honest
    BY <1>0, <1>2, SetAfter
  <1>6. /\ toServer' = <<>> \/ \E x \in Mail : toServer' = <<x>>
        /\ Came' <=> Came
        /\ Came => /\ m'.id = m.id /\ m'.acknowledge = m.acknowledge
                   /\ m'.command = m.command /\ m'.bit = m.bit
    BY <1>0, <1>2, MailLabelled
  <1>7. Types'
    BY <1>0, <1>1, <1>2, <1>3, <1>4, <1>5, <1>6 DEF Types
  <1>8. \A a \in Id : NotAfter(a, serverId) =>
                         NotAfter(a, serverId') /\ a.map < serverId'.map /\ a # serverId'
    BY <1>0, <1>1 DEF NotAfter, Id
  <1>9. /\ client.id \in Id /\ \A i \in DOMAIN toClient : toClient[i].id \in Id
        /\ Came => m.id \in Id
    BY <1>0, Ids, MailFields
  <1>10. /\ NotAfter(client.id, serverId)
         /\ Came => NotAfter(m.id, serverId)
         /\ \A i \in DOMAIN toClient : NotAfter(toClient[i].id, serverId)
    BY DEF MessageInv, MapsInTurn
  <1>11. /\ client.id.map < serverId'.map
         /\ \A i \in DOMAIN toClient : toClient[i].id.map < serverId'.map
         /\ \A i \in DOMAIN toClient : toClient[i].id.map \in Int
         /\ client.id.map \in Int /\ serverId'.map \in Int
    BY <1>0, <1>1, <1>8, <1>9, <1>10 DEF Id
  <1>12. MapsInTurn'
    BY <1>4, <1>5, <1>6, <1>8, <1>9, <1>10 DEF MessageInv, MapsInTurn, SameBody
  <1>13. CommandsInTurn' /\ Trusted' /\ WindowKept'
    <2>1. CommandsInTurn' /\ WindowKept'
      BY <1>3, <1>4, <1>5 DEF MessageInv, CommandsInTurn, WindowKept, SameBody, Like
    <2>2. Trusted'
      BY <1>2, <1>3, <1>4, <1>5, <1>6 DEF MessageInv, Trusted, SameBody, Like
    <2> QED
      BY <2>1, <2>2
  <1>14. Coming' = Coming
    BY <1>4 DEF Coming, SameBody
  <1>15. SentOnce'
    <2>1. \A i \in Coming' : toClient'[i].id.map # serverId'.map
      BY <1>4, <1>11, <1>14 DEF Coming, SameBody
    <2>2. \A i, j \in Coming' : i < j => toClient'[i].id.map < toClient'[j].id.map
      BY <1>4, <1>14 DEF MessageInv, SentOnce, Coming, SameBody
    <2>3. client'.id.map # serverId'.map
      BY <1>5, <1>11
    <2> QED
      BY <2>1, <2>2, <2>3 DEF SentOnce
  <1>16. (Came' /\ Obeyed' => Obeyed) /\ (Came => (New' <=> New))
    BY <1>3, <1>6, <1>8, <1>9, <1>10 DEF Obeyed, New, Like
  <1>17. OneCommand'
    BY <1>3, <1>4, <1>5, <1>6, <1>16 DEF MessageInv, OneCommand, SameBody, Like
  <1>18. Quiet'
    BY <1>3, <1>4, <1>5, <1>6, <1>11, <1>14, <1>16
       DEF MessageInv, Quiet, SameBody, Like, Coming
  <1>19. PrimedWaits' /\ ActiveKnowsMap'
    BY <1>3 DEF PrimedWaits, ActiveKnowsMap
  <1> QED
    BY <1>7, <1>12, <1>13, <1>15, <1>17, <1>18, <1>19 DEF MessageInv

----------------------------------------------------------------------------
(* The steps of the client and of the network. *)
LEMMA ClientSendsStep ==
    ASSUME MessageInv, ClientSends
    PROVE  MessageInv'
  <1>1. PICK acknowledge \in {client.executed, -1, MaxCommands + 1} :
           /\ toServer' = <<[id |-> client.id, after |-> client.after,
                             acknowledge |-> acknowledge,
                             command |-> client.command, bit |-> client.bit,
                             moves |-> ~client.waits]>>
           /\ client' = [client EXCEPT !.honest = @ /\ acknowledge = client.executed]
    BY DEF ClientSends
  <1>2. UNCHANGED <<serverId, cl, toClient, overrun>>
    BY DEF ClientSends
  <1>3. /\ client \in Players /\ client.id \in Id /\ client.executed \in Int
        /\ client.executed \in 0 .. MaxCommands
        /\ client.after \in BOOLEAN /\ client.command \in Commands
        /\ client.bit \in {0, 1} /\ (~client.waits) \in BOOLEAN /\ client.honest \in BOOLEAN
        /\ acknowledge \in Int
    <2>1. client \in Players
      BY DEF MessageInv, Types
    <2>2. /\ client.id \in Id /\ client.executed \in 0 .. MaxCommands
          /\ client.after \in BOOLEAN /\ client.command \in Commands
          /\ client.bit \in {0, 1} /\ client.honest \in BOOLEAN
      BY <2>1 DEF Players
    <2>3. client.executed \in Int /\ acknowledge \in Int
      BY <2>2, MessageAssumption
    <2>4. (~client.waits) \in BOOLEAN
      OBVIOUS
    <2> QED
      BY <2>1, <2>2, <2>3, <2>4
  <1>4. /\ client' \in Players /\ client'.id = client.id /\ client'.after = client.after
        /\ client'.executed = client.executed /\ client'.lost = client.lost
        /\ client'.command = client.command /\ client'.bit = client.bit
        /\ client'.honest <=> client.honest /\ acknowledge = client.executed
    <2> DEFINE h == client.honest /\ acknowledge = client.executed
    <2>1. h \in BOOLEAN
      OBVIOUS
    <2>2. client' = [client EXCEPT !.honest = h]
      BY <1>1, <1>3 DEF Players
    <2> HIDE DEF h
    <2>3. /\ client' \in Players /\ client'.id = client.id /\ client'.after = client.after
          /\ client'.executed = client.executed /\ client'.lost = client.lost
          /\ client'.command = client.command /\ client'.bit = client.bit
          /\ client'.honest = h
      BY <1>3, <2>1, <2>2, Zenon DEF Players
    <2> QED
      BY <2>3 DEF h
  <1>5. /\ Came' /\ m'.id = client.id /\ m'.after = client.after
        /\ m'.acknowledge = acknowledge /\ m'.command = client.command
        /\ m'.bit = client.bit /\ \E x \in Mail : toServer' = <<x>>
    <2> DEFINE x == [id |-> client.id, after |-> client.after,
                     acknowledge |-> acknowledge, command |-> client.command,
                     bit |-> client.bit, moves |-> ~client.waits]
    <2>1. /\ x \in Mail /\ x.id = client.id /\ x.after = client.after
          /\ x.acknowledge = acknowledge /\ x.command = client.command
          /\ x.bit = client.bit
      BY <1>3, Zenon DEF Mail
    <2> HIDE DEF x
    <2>2. toServer' = <<x>>
      BY <1>1 DEF x
    <2> QED
      BY <2>1, <2>2 DEF Came, m
  <1>6. Types' /\ CommandsInTurn' /\ WindowKept' /\ PrimedWaits' /\ ActiveKnowsMap'
    BY <1>2, <1>4, <1>5
       DEF MessageInv, Types, CommandsInTurn, WindowKept, PrimedWaits, ActiveKnowsMap
  <1>7. MapsInTurn'
    BY <1>2, <1>3, <1>4, <1>5 DEF MessageInv, MapsInTurn, Id
  <1>8. Trusted'
    BY <1>2, <1>3, <1>4, <1>5 DEF MessageInv, Trusted
  <1>9. Coming' = Coming
    BY <1>2 DEF Coming
  <1>10. SentOnce'
    BY <1>2, <1>4, <1>5, <1>9 DEF MessageInv, SentOnce
  <1>11. OneCommand'
    BY <1>2, <1>4, <1>5 DEF MessageInv, OneCommand, Commands
  <1>12. Quiet'
    <2>1. ASSUME NEW i \in Coming, Obeyed'
          PROVE  ~New'
      <3>1. client.id = serverId
        BY <1>2, <1>5, <2>1 DEF MessageInv, Quiet, Obeyed
      <3>2. client.bit = cl.bit
        BY <2>1, <3>1 DEF MessageInv, Quiet
      <3> QED
        BY <1>2, <1>5, <3>2 DEF New
    <2> QED
      BY <1>2, <1>4, <1>9, <2>1 DEF MessageInv, Quiet
  <1> QED
    BY <1>6, <1>7, <1>8, <1>10, <1>11, <1>12 DEF MessageInv

(* The first message to the client is taken off. *)
LEMMA Taking ==
    ASSUME MessageInv, toClient # <<>>, toClient' = Tail(toClient)
    PROVE  /\ toClient' \in Seq(Sent)
           /\ 1 \in DOMAIN toClient /\ Head(toClient) = toClient[1]
           /\ toClient[1] \in Sent
           /\ \A i \in DOMAIN toClient' :
                 /\ i \in Int /\ 1 <= i /\ i + 1 \in DOMAIN toClient
                 /\ 1 < i + 1 /\ toClient'[i] = toClient[i + 1]
           /\ \A i \in Coming' : i \in DOMAIN toClient' /\ i + 1 \in Coming
  <1>1. toClient \in Seq(Sent)
    BY DEF MessageInv, Types
  <1>2. /\ toClient' \in Seq(Sent)
        /\ 1 \in DOMAIN toClient /\ Head(toClient) = toClient[1]
        /\ toClient[1] \in Sent
        /\ \A i \in DOMAIN toClient' :
              /\ i \in Int /\ 1 <= i /\ i + 1 \in DOMAIN toClient
              /\ toClient'[i] = toClient[i + 1]
    BY <1>1, Shift
  <1>3. \A i \in DOMAIN toClient' : 1 < i + 1
    BY <1>2
  <1> QED
    BY <1>2, <1>3 DEF Coming

LEMMA LoseStep ==
    ASSUME MessageInv, Lose
    PROVE  MessageInv'
  <1>1. CASE toServer' = <<>> /\ UNCHANGED <<serverId, cl, client, toClient, overrun>>
    BY <1>1
       DEF MessageInv, Types, MapsInTurn, CommandsInTurn, Trusted, SentOnce, OneCommand,
           Quiet, PrimedWaits, WindowKept, ActiveKnowsMap, Came, Coming
  <1>2. CASE /\ toClient # <<>> /\ toClient' = Tail(toClient)
             /\ UNCHANGED <<serverId, cl, client, toServer, overrun>>
    <2>1. /\ toClient' \in Seq(Sent)
          /\ \A i \in DOMAIN toClient' :
                /\ i \in Int /\ 1 <= i /\ i + 1 \in DOMAIN toClient
                /\ toClient'[i] = toClient[i + 1]
          /\ \A i \in Coming' : i \in DOMAIN toClient' /\ i + 1 \in Coming
      BY <1>2, Taking
    <2>2. /\ \A i, j \in DOMAIN toClient' : /\ i < j => i + 1 < j + 1
                                            /\ i <= j => i + 1 <= j + 1
          /\ Coming' \subseteq DOMAIN toClient'
      BY <2>1
    <2>3. Types' /\ WindowKept' /\ PrimedWaits' /\ ActiveKnowsMap'
      BY <1>2, <2>1 DEF MessageInv, Types, WindowKept, PrimedWaits, ActiveKnowsMap
    <2>4. MapsInTurn' /\ CommandsInTurn'
      BY <1>2, <2>1, <2>2 DEF MessageInv, MapsInTurn, CommandsInTurn, Came, m
    <2>5. Trusted'
      BY <1>2, <2>1 DEF MessageInv, Trusted, Came, m
    <2>6. SentOnce'
      BY <1>2, <2>1, <2>2 DEF MessageInv, SentOnce, Came, m
    <2>7. OneCommand'
      BY <1>2, <2>1, <2>2 DEF MessageInv, OneCommand, Came, m, Obeyed, New
    <2>8. Quiet'
      BY <1>2, <2>1, <2>2 DEF MessageInv, Quiet, Came, m, Obeyed, New
    <2> QED
      BY <2>3, <2>4, <2>5, <2>6, <2>7, <2>8 DEF MessageInv
  <1> QED
    BY <1>1, <1>2 DEF Lose

LEMMA ReceiveSnapshotStep ==
    ASSUME MessageInv, ReceiveSnapshot
    PROVE  MessageInv'
  <1> DEFINE s == Head(toClient)
             d == [client EXCEPT
                    !.after = s.after,
                    !.lost = @ \/ s.from > client.executed,
                    !.executed = IF s.upto > @ THEN s.upto ELSE @,
                    !.id = IF s.id.map = @.map /\ ~client.waits THEN s.id ELSE @]
             n == IF s.upto > client.executed THEN s.upto ELSE client.executed
             l == client.lost \/ s.from > client.executed
             k == IF s.id.map = client.id.map /\ ~client.waits THEN s.id ELSE client.id
  <1>1. /\ toClient # <<>> /\ toClient' = Tail(toClient) /\ s.kind = "snapshot"
        /\ client' = IF s.bit = client.bit THEN Answered(d) ELSE d
        /\ UNCHANGED <<serverId, cl, toServer, overrun>>
    BY DEF ReceiveSnapshot
  <1>2. /\ toClient' \in Seq(Sent) /\ 1 \in DOMAIN toClient /\ s = toClient[1]
        /\ s \in Sent
        /\ \A i \in DOMAIN toClient' :
              /\ i \in Int /\ 1 <= i /\ i + 1 \in DOMAIN toClient
              /\ 1 < i + 1 /\ toClient'[i] = toClient[i + 1]
        /\ \A i \in Coming' : i \in DOMAIN toClient' /\ i + 1 \in Coming
    BY <1>1, Taking
  <1>3. /\ client \in Players /\ s.id \in Id /\ s.upto \in 0 .. MaxCommands
        /\ s.after \in BOOLEAN /\ s.from \in Int /\ s.bit \in {0, 1}
        /\ client.id \in Id /\ client.executed \in 0 .. MaxCommands
        /\ client.bit \in {0, 1} /\ client.command \in Commands
    <2>1. client \in Players
      BY DEF MessageInv, Types
    <2> QED
      BY <1>2, <2>1 DEF Players, Sent
  <1>4. /\ n \in 0 .. MaxCommands /\ client.executed <= n /\ s.upto <= n
        /\ n = s.upto \/ n = client.executed
    BY <1>3, MessageAssumption
  <1>5. k \in Id /\ k.map = client.id.map /\ (k = s.id \/ k = client.id)
    BY <1>3
  <1>6. l \in BOOLEAN
    OBVIOUS
  <1>7. d = [client EXCEPT !.after = s.after, !.lost = l, !.executed = n, !.id = k]
    BY <1>3 DEF Players
  <1>8. /\ d \in Players /\ d.after = s.after /\ d.lost = l /\ d.executed = n /\ d.id = k
        /\ d.command = client.command /\ d.bit = client.bit /\ d.honest = client.honest
    <2> HIDE DEF n, l, k, s, d
    <2> QED
      BY <1>3, <1>4, <1>5, <1>6, <1>7, Zenon DEF Players
  <1> HIDE DEF d, n, k
  <1>9. ASSUME NEW command \in {"nextdl", "donedl"}
        PROVE  /\ Asks(d, command) \in Players /\ Asks(d, command).command = command
               /\ Asks(d, command).bit = 1 - client.bit
               /\ Asks(d, command).after = d.after /\ Asks(d, command).lost = d.lost
               /\ Asks(d, command).executed = d.executed /\ Asks(d, command).id = d.id
               /\ Asks(d, command).honest = d.honest
    <2>1. command \in Commands
      BY DEF Commands
    <2>2. 1 - d.bit \in {0, 1}
      BY <1>3, <1>8
    <2>3. /\ Asks(d, command) \in Players /\ Asks(d, command).command = command
          /\ Asks(d, command).bit = 1 - d.bit
          /\ Asks(d, command).after = d.after /\ Asks(d, command).lost = d.lost
          /\ Asks(d, command).executed = d.executed /\ Asks(d, command).id = d.id
          /\ Asks(d, command).honest = d.honest
      BY <1>8, <2>1, <2>2, Zenon DEF Asks, Players
    <2> QED
      BY <1>8, <2>3
  <1>10. /\ client' \in Players /\ client'.after = s.after /\ client'.lost = l
         /\ client'.executed = n /\ client'.id = k /\ client'.honest = client.honest
         /\ \/ client'.command = client.command /\ client'.bit = client.bit
            \/ /\ s.bit = client.bit /\ client'.bit = 1 - client.bit
               /\ \/ client.command = "download" /\ client'.command = "nextdl"
                  \/ client.command = "nextdl" /\ client'.command = "donedl"
    <2>1. CASE s.bit # client.bit
      BY <1>1, <1>8, <2>1
    <2>2. CASE s.bit = client.bit
      <3>1. CASE client.command = "download"
        BY <1>1, <1>8, <1>9, <2>2, <3>1 DEF Answered
      <3>2. CASE client.command = "nextdl"
        BY <1>1, <1>8, <1>9, <2>2, <3>2 DEF Answered
      <3>3. CASE client.command \notin {"download", "nextdl"}
        BY <1>1, <1>8, <2>2, <3>3 DEF Answered
      <3> QED
        BY <3>1, <3>2, <3>3
    <2> QED
      BY <2>1, <2>2
  <1> HIDE DEF s, l
  <1>11. /\ \A i, j \in DOMAIN toClient' : /\ i < j => i + 1 < j + 1
                                           /\ i <= j => i + 1 <= j + 1
         /\ Coming' \subseteq DOMAIN toClient'
    BY <1>2
  <1>12. (Came' <=> Came) /\ m' = m /\ (Obeyed' <=> Obeyed) /\ (New' <=> New)
    BY <1>1 DEF Came, m, Obeyed, New
  <1>13. Types' /\ WindowKept'
    BY <1>1, <1>2, <1>10 DEF MessageInv, Types, WindowKept
  <1>14. MapsInTurn'
    <2>1. NotAfter(client.id, serverId) /\ NotAfter(s.id, serverId)
      BY <1>2 DEF MessageInv, MapsInTurn
    <2>2. NotAfter(client'.id, serverId')
      BY <1>1, <1>5, <1>10, <2>1
    <2> QED
      BY <1>1, <1>2, <1>5, <1>10, <1>11, <1>12, <2>2 DEF MessageInv, MapsInTurn
  <1>15. CommandsInTurn'
    BY <1>1, <1>2, <1>4, <1>10, <1>11 DEF MessageInv, CommandsInTurn
  <1>16. Trusted'
    <2>1. cl.acknowledge \in Int /\ \A i \in DOMAIN toClient : toClient[i].from \in Int
      BY Ids DEF MessageInv, Types, Servers
    <2>2. client.honest /\ ~overrun => ~l
      BY <1>2, <1>3, <2>1 DEF MessageInv, Trusted, l
    <2>3. Came => m.acknowledge \in Int
      BY MailFields DEF MessageInv
    <2> QED
      BY SMTT(30), <1>1, <1>2, <1>3, <1>4, <1>10, <1>12, <2>1, <2>2, <2>3 DEF MessageInv, Trusted
  <1>17. SentOnce'
    <2>1. ASSUME NEW i \in Coming', toClient'[i].id.map = serverId'.map
          PROVE  /\ ~client'.after /\ Came' => ~m'.after
                 /\ \A j \in DOMAIN toClient' : j <= i => ~toClient'[j].after
      <3>1. /\ i + 1 \in Coming /\ toClient[i + 1].id.map = serverId.map /\ 1 <= i + 1
        BY <1>1, <1>2, <2>1
      <3>2. ~s.after
        BY <1>2, <3>1 DEF MessageInv, SentOnce
      <3> QED
        BY <1>2, <1>10, <1>11, <1>12, <3>1, <3>2 DEF MessageInv, SentOnce
    <2> QED
      BY <1>1, <1>2, <1>5, <1>10, <1>11, <1>12, <2>1 DEF MessageInv, SentOnce
  <1>18. OneCommand'
    <2>1. CASE client'.command = client.command /\ client'.bit = client.bit
      BY <1>1, <1>2, <1>11, <1>12, <2>1 DEF MessageInv, OneCommand
    <2>2. CASE /\ s.bit = client.bit /\ client'.bit = 1 - client.bit
               /\ \/ client.command = "download" /\ client'.command = "nextdl"
                  \/ client.command = "nextdl" /\ client'.command = "donedl"
      <3>1. cl.bit = client.bit /\ \A i \in DOMAIN toClient' : toClient'[i].bit = client.bit
        BY <1>2, <2>2 DEF MessageInv, OneCommand
      <3>2. client'.bit # client.bit
        BY <1>3, <2>2
      <3>3. Came /\ Obeyed => ~New
        BY <3>1 DEF MessageInv, OneCommand, New
      <3> QED
        BY <1>1, <1>12, <2>2, <3>1, <3>2, <3>3 DEF MessageInv, OneCommand
    <2> QED
      BY <1>10, <2>1, <2>2
  <1>19. Quiet'
    BY <1>1, <1>2, <1>5, <1>10, <1>11, <1>12 DEF MessageInv, Quiet
  <1>20. PrimedWaits' /\ ActiveKnowsMap'
    BY <1>1, <1>5, <1>10 DEF MessageInv, PrimedWaits, ActiveKnowsMap
  <1> QED
    BY <1>13, <1>14, <1>15, <1>16, <1>17, <1>18, <1>19, <1>20 DEF MessageInv

LEMMA ReceiveGameStateStep ==
    ASSUME MessageInv, ReceiveGameState
    PROVE  MessageInv'
  <1> DEFINE s == Head(toClient)
             d == [client EXCEPT !.id = s.id, !.after = s.after, !.executed = s.upto]
             e == [d EXCEPT !.waits = TRUE, !.bit = s.bit]
  <1>1. /\ toClient # <<>> /\ toClient' = Tail(toClient) /\ s.kind = "gamestate"
        /\ \/ client' = [d EXCEPT !.waits = FALSE, !.command = "none", !.bit = s.bit]
           \/ client' = Asks(e, "download")
        /\ UNCHANGED <<serverId, cl, toServer, overrun>>
    BY DEF ReceiveGameState
  <1>2. /\ toClient' \in Seq(Sent) /\ 1 \in DOMAIN toClient /\ s = toClient[1]
        /\ s \in Sent
        /\ \A i \in DOMAIN toClient' :
              /\ i \in Int /\ 1 <= i /\ i + 1 \in DOMAIN toClient
              /\ 1 < i + 1 /\ toClient'[i] = toClient[i + 1]
        /\ \A i \in Coming' : i \in DOMAIN toClient' /\ i + 1 \in Coming
    BY <1>1, Taking
  <1>3. /\ client \in Players /\ s.id \in Id /\ s.upto \in 0 .. MaxCommands
        /\ s.after \in BOOLEAN /\ s.from \in Int /\ s.bit \in {0, 1} /\ 1 - s.bit \in {0, 1}
        /\ client.id \in Id
        /\ "download" \in Commands /\ "none" \in Commands
    <2>1. client \in Players
      BY DEF MessageInv, Types
    <2> QED
      BY <1>2, <2>1 DEF Players, Sent, Commands
  <1> HIDE DEF s
  <1>4. /\ d \in Players /\ d.id = s.id /\ d.after = s.after /\ d.executed = s.upto
        /\ d.lost = client.lost /\ d.honest = client.honest
    BY <1>3, Zenon DEF Players
  <1> HIDE DEF d
  <1>5. /\ e \in Players /\ e.id = s.id /\ e.after = s.after /\ e.executed = s.upto
        /\ e.lost = client.lost /\ e.honest = client.honest /\ e.bit = s.bit
    BY <1>3, <1>4, Zenon DEF Players
  <1> HIDE DEF e
  <1>6. /\ client' \in Players /\ client'.id = s.id /\ client'.after = s.after
        /\ client'.executed = s.upto
        /\ client'.lost = client.lost /\ client'.honest = client.honest
        /\ \/ client'.command = "none" /\ client'.bit = s.bit
           \/ client'.command = "download" /\ client'.bit = 1 - s.bit
    <2>1. CASE client' = [d EXCEPT !.waits = FALSE, !.command = "none", !.bit = s.bit]
      BY <1>3, <1>4, <2>1, Zenon DEF Players
    <2>2. CASE client' = Asks(e, "download")
      <3>1. client' = [e EXCEPT !.command = "download", !.bit = 1 - s.bit]
        BY <1>5, <2>2 DEF Asks, Players
      <3> QED
        BY <1>3, <1>5, <3>1, Zenon DEF Players
    <2> QED
      BY <1>1, <2>1, <2>2
  <1>7. /\ \A i, j \in DOMAIN toClient' : /\ i < j => i + 1 < j + 1
                                          /\ i <= j => i + 1 <= j + 1
        /\ Coming' \subseteq DOMAIN toClient'
    BY <1>2
  <1>8. (Came' <=> Came) /\ m' = m /\ (Obeyed' <=> Obeyed) /\ (New' <=> New)
    BY <1>1 DEF Came, m, Obeyed, New
  <1>9. /\ 1 \in Coming /\ s.bit = cl.bit /\ \A j \in DOMAIN toClient' : toClient'[j].bit = cl.bit
        /\ ~cl.downloadName /\ cl.last # "nextdl"
        /\ Came /\ Obeyed => ~New
    <2>1. 1 \in Coming
      BY <1>1, <1>2 DEF Coming, s
    <2>2. /\ \A j \in DOMAIN toClient : 1 <= j => toClient[j].bit = cl.bit
          /\ ~cl.downloadName /\ cl.last # "nextdl"
          /\ Came /\ Obeyed => ~New
      BY <2>1 DEF MessageInv, Quiet
    <2> QED
      BY <1>2, <2>1, <2>2
  <1>10. /\ client.id.map <= s.id.map /\ s.id.map <= serverId.map
         /\ NotAfter(s.id, serverId)
         /\ client.id.map \in Int /\ s.id.map \in Int /\ serverId.map \in Int
         /\ \A i \in DOMAIN toClient : /\ toClient[i].id.map \in Int
                                       /\ toClient[i].id.map <= serverId.map
    <2>1. /\ serverId.map \in Int /\ client.id.map \in Int
          /\ \A i \in DOMAIN toClient : toClient[i].id.map \in Int
      BY Ids DEF MessageInv, Types, Id
    <2> QED
      BY <1>2, <2>1 DEF MessageInv, MapsInTurn, NotAfter
  <1>11. Types' /\ WindowKept'
    BY <1>1, <1>2, <1>6 DEF MessageInv, Types, WindowKept
  <1>12. MapsInTurn'
    <2>1. Came => m.id.map \in Int
      BY MailFields DEF MessageInv, Id
    <2>2. Came => m.id.map <= s.id.map
      BY <1>10, <2>1 DEF MessageInv, MapsInTurn
    <2>3. \A i \in DOMAIN toClient' : s.id.map <= toClient'[i].id.map
      BY <1>2 DEF MessageInv, MapsInTurn
    <2> QED
      BY <1>1, <1>2, <1>6, <1>7, <1>8, <1>10, <2>2, <2>3 DEF MessageInv, MapsInTurn
  <1>13. CommandsInTurn'
    BY <1>1, <1>2, <1>6, <1>7 DEF MessageInv, CommandsInTurn
  <1>14. Trusted'
    <2>1. /\ cl.acknowledge \in Int /\ \A i \in DOMAIN toClient : toClient[i].from \in Int
          /\ client.executed \in Int /\ s.upto \in Int /\ client.executed <= s.upto
      BY <1>2, Ids, MessageAssumption
         DEF MessageInv, Types, Servers, Players, CommandsInTurn
    <2>2. Came => m.acknowledge \in Int
      BY MailFields DEF MessageInv
    <2> QED
      BY <1>1, <1>2, <1>6, <1>8, <2>1, <2>2 DEF MessageInv, Trusted
  <1>15. SentOnce'
    <2>1. ASSUME NEW i \in Coming', toClient'[i].id.map = serverId'.map
          PROVE  /\ ~client'.after /\ Came' => ~m'.after
                 /\ \A j \in DOMAIN toClient' : j <= i => ~toClient'[j].after
      <3>1. /\ i + 1 \in Coming /\ toClient[i + 1].id.map = serverId.map /\ 1 <= i + 1
        BY <1>1, <1>2, <2>1
      <3>2. ~s.after
        BY <1>2, <3>1 DEF MessageInv, SentOnce
      <3> QED
        BY <1>2, <1>6, <1>7, <1>8, <3>1, <3>2 DEF MessageInv, SentOnce
    <2>2. Came /\ s.id.map = serverId.map => ~m.after
      BY <1>2, <1>9 DEF MessageInv, SentOnce
    <2> QED
      BY <1>1, <1>2, <1>6, <1>7, <1>8, <2>1, <2>2 DEF MessageInv, SentOnce
  <1>16. OneCommand'
    <2>1. CASE client'.command = "none" /\ client'.bit = s.bit
      BY <1>1, <1>8, <1>9, <2>1 DEF OneCommand
    <2>2. CASE client'.command = "download" /\ client'.bit = 1 - s.bit
      <3>1. client'.bit # cl.bit
        BY <1>3, <1>9, <2>2
      <3> QED
        BY <1>1, <1>8, <1>9, <2>2, <3>1 DEF OneCommand
    <2> QED
      BY <1>6, <2>1, <2>2
  <1>17. Quiet'
    <2>1. ASSUME NEW i \in Coming'
          PROVE  client'.id.map # serverId'.map
      <3>1. s.id.map < toClient[i + 1].id.map
        BY <1>2, <1>9, <2>1 DEF MessageInv, SentOnce, Coming
      <3>2. toClient[i + 1].id.map <= serverId.map /\ toClient[i + 1].id.map \in Int
        BY <1>2, <1>10, <2>1
      <3> QED
        BY <1>1, <1>6, <1>10, <3>1, <3>2
    <2> QED
      BY <1>1, <1>8, <1>9, <2>1 DEF Quiet
  <1>18. PrimedWaits' /\ ActiveKnowsMap'
    BY <1>1, <1>6, <1>9, <1>10 DEF MessageInv, PrimedWaits, ActiveKnowsMap
  <1> QED
    BY <1>11, <1>12, <1>13, <1>14, <1>15, <1>16, <1>17, <1>18 DEF MessageInv

----------------------------------------------------------------------------
LEMMA InitMessage ==
    ASSUME Init
    PROVE  MessageInv
  <1>1. cl \in Servers
    <2>1. 0 \in 0 .. MaxCommands /\ 0 \in Int /\ 0 \in {0, 1} /\ "none" \in Commands
          /\ FALSE \in BOOLEAN /\ "connected" \in {"connected", "primed", "active", "zombie"}
      BY MessageAssumption DEF Commands
    <2> QED
      BY <2>1, Zenon DEF Init, Servers
  <1>2. serverId \in Id /\ NoMap \in Id
    BY MessageAssumption DEF Init, Id, NoMap
  <1>3. client \in Players
    <2>1. 0 \in 0 .. MaxCommands /\ 0 \in {0, 1} /\ "none" \in Commands
          /\ FALSE \in BOOLEAN /\ TRUE \in BOOLEAN
      BY MessageAssumption DEF Commands
    <2> QED
      BY <1>2, <2>1, Zenon DEF Init, Players
  <1>4. Types /\ ~Came /\ toClient = <<>> /\ DOMAIN toClient = {}
    <2>1. toServer = <<>> /\ toClient = <<>> /\ overrun \in BOOLEAN
      BY DEF Init
    <2>2. toClient \in Seq(Sent) /\ DOMAIN toClient = {}
      BY <2>1
    <2> QED
      BY <1>1, <1>2, <1>3, <2>1, <2>2 DEF Types, Came
  <1>5. MapsInTurn /\ CommandsInTurn /\ Trusted /\ WindowKept
    BY <1>4, MessageAssumption
       DEF Init, MapsInTurn, CommandsInTurn, Trusted, WindowKept, NotAfter, NoMap
  <1>6. SentOnce /\ OneCommand /\ Quiet /\ PrimedWaits /\ ActiveKnowsMap
    BY <1>4 DEF Init, SentOnce, OneCommand, Quiet, PrimedWaits, ActiveKnowsMap, Coming
  <1> QED
    BY <1>4, <1>5, <1>6 DEF MessageInv

(* What is under way, what the server obeys and what the client waits for  *)
(* agree, whatever got lost (SV_PacketEvent, SV_ExecuteClientMessage,      *)
(* SV_SendClientGameState): the inductive invariant.                       *)
THEOREM MessageInductive == Spec => []MessageInv
  <1>1. ASSUME MessageInv, [Next]_vars
        PROVE  MessageInv'
    <2>1. CASE SendSnapshot \/ AddServerCommand \/ DropClient \/ SpawnServer \/ MapRestart
      BY <1>1, <2>1, SendSnapshotStep, AddServerCommandStep, DropClientStep,
         SpawnServerStep, MapRestartStep
    <2>2. CASE PacketEvent
      BY <1>1, <2>2, PacketWithoutAnswer, PacketWithAnswer DEF PacketEvent, Came
    <2>3. CASE ClientSends \/ ReceiveSnapshot \/ ReceiveGameState \/ Lose
      BY <1>1, <2>3, ClientSendsStep, ReceiveSnapshotStep, ReceiveGameStateStep, LoseStep
    <2>4. CASE UNCHANGED vars
      BY <1>1, <2>4
         DEF MessageInv, Types, MapsInTurn, CommandsInTurn, Trusted, SentOnce, OneCommand,
             Quiet, PrimedWaits, WindowKept, ActiveKnowsMap, Came, Coming, m, Obeyed, New, vars
    <2> QED
      BY <1>1, <2>1, <2>2, <2>3, <2>4 DEF Next
  <1> QED
    BY <1>1, InitMessage, PTL DEF Spec

(* SV_AddServerCommand and the check of reliableAcknowledge in             *)
(* SV_PacketEvent: what the client has not acknowledged always fits into   *)
(* reliableCommands, whatever the client acknowledges.                     *)
THEOREM CommandsFitTheWindow == Spec => []WindowKept
  BY MessageInductive, PTL DEF MessageInv

(* SV_PacketEvent: a client that acknowledges what it executed misses no   *)
(* command of the server, unless it was a whole window behind.             *)
THEOREM NoCommandIsLost == Spec => []NeverLost
  <1>1. MessageInv => NeverLost
    BY DEF MessageInv, Trusted, NeverLost
  <1> QED
    BY <1>1, MessageInductive, PTL

(* SV_ExecuteClientMessage: a client enters the world only with the        *)
(* gamestate of its map.                                                   *)
THEOREM WorldNeedsGameState == Spec => []ActiveKnowsMap
  BY MessageInductive, PTL DEF MessageInv

----------------------------------------------------------------------------
(* His download. *)
Windows == [blocks : [Indices -> [room : {0, BlkSizeFast}, bytes : Bytes]],
            count : 0 .. Size, eof : BOOLEAN,
            clientBlock : Nat, currentBlock : Nat, xmitBlock : Nat]

(* The bytes of block b, which begins at byte start[b] of the file.        *)
IsBlock(start, b, bytes) ==
    /\ Len(bytes) = start[b + 1] - start[b]
    /\ \A k \in DOMAIN bytes : bytes[k] = start[b] + k - 1

(* A block with nothing in it is the one that ends the file.               *)
IsBlockOf(w, start, b, bytes) ==
    /\ b < w.currentBlock /\ IsBlock(start, b, bytes)
    /\ bytes = <<>> => w.eof /\ b = w.currentBlock - 1

(* The window holds the blocks that are not acknowledged.                  *)
Holds(w, start) ==
    /\ w.clientBlock <= w.currentBlock /\ w.xmitBlock <= w.currentBlock
    /\ w.currentBlock - w.clientBlock <= WindowSize
    /\ start[0] = 0 /\ start[w.currentBlock] <= w.count
    /\ w.count # Size => start[w.currentBlock] = w.count
    /\ w.eof => /\ w.count = Size /\ w.currentBlock > 0
                /\ start[w.currentBlock] = start[w.currentBlock - 1]
    /\ \A b \in w.clientBlock .. w.currentBlock - 1 :
          IsBlockOf(w, start, b, w.blocks[b % WindowSize].bytes)
    /\ \A i \in Indices : Len(w.blocks[i].bytes) <= w.blocks[i].room

(* What is under way is of a block with the number it says, or of one the  *)
(* client has, having taken those before block next.                       *)
Tells(w, start, next, s) ==
    \E b \in Nat : /\ s.number = Short(b)
                   /\ b < next \/ IsBlockOf(w, start, b, s.bytes)

Truthful(start) ==
    \A i \in DOMAIN snapshots :
        snapshots[i].kind = "block" => Tells(Carried, start, player.next, snapshots[i])

Received(start) ==
    /\ clientBlock <= player.next /\ player.next <= currentBlock
    /\ Len(player.bytes) = start[player.next]
    /\ DeliveredInOrder
    /\ player.status = "done" <=> eof /\ player.next = currentBlock

Closed == player.status = "done" /\ ~open

Acknowledging ==
    IF Closed THEN acks = <<>> /\ name = ""
    ELSE /\ clientBlock + Len(acks) = player.next
         /\ \A i \in DOMAIN acks : acks[i] = clientBlock + i - 1

(* Before the file is opened nothing has been read. *)
Unopened == ~open /\ player.status # "done" => Carried = Freshly

Whole(start) == ~readFailed => start[currentBlock] = count

Messages == [kind : {"error"}] \cup [kind : {"block"}, number : Nat, bytes : Bytes]
Downloaders == [status : {"idle", "loading", "done", "error"}, next : Nat, bytes : Bytes]

DownloadFields == /\ name \in Files \cup {""}
                  /\ open \in BOOLEAN /\ eof \in BOOLEAN /\ readFailed \in BOOLEAN
                  /\ broken \in BOOLEAN /\ fast \in BOOLEAN /\ allow \in BOOLEAN
                  /\ Carried \in Windows
                  /\ idle \in 0 .. Timeout + 1 /\ toggles \in 0 .. MaxToggles
                  /\ snapshots \in Seq(Messages) /\ acks \in Seq(Nat)
                  /\ player \in Downloaders

Ok(start) == /\ Holds(Carried, start) /\ Truthful(start) /\ Received(start)
             /\ Acknowledging /\ Unopened /\ Whole(start) /\ NeverBroken

----------------------------------------------------------------------------
(* One turn of the loop. *)
Turn(w) == IF MayRead(w) THEN ReadBlock(w) ELSE w

(* What holds at first and is kept by every turn of the loop holds after   *)
(* any number of them.                                                     *)
IsLoop(f, n, w) == \A k \in 0 .. n : f[k] = IF k = 0 THEN w ELSE Turn(f[k - 1])

LEMMA LoopExists ==
    ASSUME NEW w
    PROVE  \A n \in Nat : \E f : IsLoop(f, n, w)
  <1> DEFINE Bad == {n \in Nat : ~\E f : IsLoop(f, n, w)}
  <1>1. SUFFICES ASSUME Bad # {} PROVE FALSE
    OBVIOUS
  <1>2. PICK n \in Bad : \A o \in Bad : n <= o
    BY <1>1, Least
  <1>3. CASE n = 0
    <2>1. IsLoop([k \in 0 .. 0 |-> w], 0, w)
      BY DEF IsLoop
    <2> QED
      BY <1>2, <1>3, <2>1
  <1>4. CASE n # 0
    <2>1. n - 1 \in Nat /\ n - 1 \notin Bad /\ n \in Nat
      BY <1>2, <1>4
    <2>2. PICK f : IsLoop(f, n - 1, w)
      BY <2>1
    <2> DEFINE g == [k \in 0 .. n |-> IF k = n THEN Turn(f[n - 1]) ELSE f[k]]
    <2>3. \A k \in 0 .. n : k # n => k \in 0 .. n - 1 /\ g[k] = f[k]
      BY <2>1
    <2>4. g[n] = Turn(f[n - 1]) /\ n - 1 \in 0 .. n /\ n - 1 # n
      BY <2>1
    <2> HIDE DEF g
    <2>5. ASSUME NEW k \in 0 .. n
          PROVE  g[k] = IF k = 0 THEN w ELSE Turn(g[k - 1])
      <3>1. CASE k = n
        BY <1>4, <2>1, <2>3, <2>4, <3>1
      <3>2. CASE k # n
        <4>1. g[k] = f[k] /\ f[k] = IF k = 0 THEN w ELSE Turn(f[k - 1])
          BY <2>2, <2>3, <3>2 DEF IsLoop
        <4>2. k # 0 => k - 1 \in 0 .. n /\ k - 1 # n
          BY <2>1, <3>2
        <4>3. k # 0 => g[k - 1] = f[k - 1]
          BY <2>3, <4>2
        <4> QED
          BY <4>1, <4>3
      <3> QED
        BY <3>1, <3>2
    <2>6. IsLoop(g, n, w)
      BY <2>5 DEF IsLoop
    <2> QED
      BY <1>2, <2>6
  <1> QED
    BY <1>3, <1>4

LEMMA ReadAheadTurns ==
    ASSUME NEW w
    PROVE  IsLoop(ReadAhead(w), WindowSize, w)
  <1> DEFINE Eq(f) == f = [k \in 0 .. WindowSize |->
                            IF k = 0 THEN w
                            ELSE IF MayRead(f[k - 1]) THEN ReadBlock(f[k - 1])
                            ELSE f[k - 1]]
  <1>1. ReadAhead(w) = CHOOSE f : Eq(f)
    BY DEF ReadAhead
  <1>2. PICK g : IsLoop(g, WindowSize, w)
    BY LoopExists, DownloadAssumption
  <1> DEFINE h == [k \in 0 .. WindowSize |-> g[k]]
  <1>3. Eq(h)
    BY <1>2, DownloadAssumption DEF IsLoop, Turn
  <1> HIDE DEF h
  <1>4. Eq(ReadAhead(w))
    BY <1>1, <1>3
  <1> QED
    BY <1>4 DEF IsLoop, Turn

----------------------------------------------------------------------------
(* The window. *)

(* Two blocks that are in the window together have different buffers.      *)
LEMMA Apart ==
    ASSUME NEW b \in Nat, NEW c \in Nat, b < c, c - b < WindowSize
    PROVE  b % WindowSize # c % WindowSize
  <1> USE DownloadAssumption
  <1> DEFINE p == b \div WindowSize
             q == c \div WindowSize
  <1>1. /\ p \in Int /\ q \in Int /\ WindowSize \in Nat \ {0}
        /\ b = p * WindowSize + (b % WindowSize) /\ c = q * WindowSize + (c % WindowSize)
    <2>1. b \in Int /\ c \in Int /\ WindowSize \in Nat \ {0}
      OBVIOUS
    <2> QED
      BY <2>1, Division
  <1>2. SUFFICES ASSUME b % WindowSize = c % WindowSize PROVE FALSE
    OBVIOUS
  <1> HIDE DEF p, q
  <1>3. (q - p) * WindowSize = c - b
    BY <1>1, <1>2
  <1>4. CASE q - p <= 0
    <2>1. (q - p) * WindowSize <= 0
      BY <1>1, <1>4
    <2> QED
      BY <1>3, <2>1
  <1>5. CASE q - p >= 1
    <2>1. (q - p) * WindowSize >= WindowSize
      BY <1>1, <1>5
    <2> QED
      BY <1>3, <2>1
  <1> QED
    BY <1>1, <1>4, <1>5

LEMMA InWindow ==
    ASSUME NEW b \in Nat
    PROVE  b % WindowSize \in Indices
  BY DownloadAssumption DEF Indices

(* The number of a block is the block, or lies a whole turn or more behind. *)
LEMMA ShortFacts ==
    ASSUME NEW b \in Nat
    PROVE  /\ Short(b) \in Nat /\ Short(b) <= b /\ Short(b) < BlockNumbers
           /\ Short(b) # b => b >= Short(b) + BlockNumbers
  <1> DEFINE q == b \div BlockNumbers
             rest == b % BlockNumbers
  <1>1. BlockNumbers \in Nat \ {0}
    BY DownloadAssumption
  <1>2. /\ q \in Int /\ rest \in 0 .. BlockNumbers - 1
        /\ b = q * BlockNumbers + rest
    <2>1. b \in Int
      OBVIOUS
    <2> QED
      BY <1>1, <2>1, Division
  <1>3. Short(b) = rest
    BY DEF Short
  <1> HIDE DEF q, rest
  <1>4. CASE q >= 1
    <2>1. q * BlockNumbers >= BlockNumbers
      BY <1>1, <1>2, <1>4
    <2> QED
      BY <1>1, <1>2, <1>3, <2>1
  <1>5. CASE q = 0
    BY <1>1, <1>2, <1>3, <1>5
  <1>6. CASE q <= -1
    <2>1. q * BlockNumbers <= -BlockNumbers
      BY <1>1, <1>2, <1>6
    <2> QED
      BY <1>1, <1>2, <2>1
  <1> QED
    BY <1>2, <1>4, <1>5, <1>6

(* What FS_Read finds at a place before the end. *)
LEMMA ReadAtFacts ==
    ASSUME NEW at \in 0 .. Size, at # Size, NEW n \in Nat, n > 0
    PROVE  /\ ReadAt(at, n) \in Bytes
           /\ Len(ReadAt(at, n)) \in 1 .. n /\ at + Len(ReadAt(at, n)) \in 0 .. Size
           /\ \A k \in DOMAIN ReadAt(at, n) : ReadAt(at, n)[k] = at + k - 1
  <1> DEFINE l == IF at + n > Size THEN Size - at ELSE n
  <1>1. l \in 1 .. n /\ at + l \in 0 .. Size
    BY DownloadAssumption
  <1>2. ReadAt(at, n) = [k \in 1 .. l |-> at + k - 1]
    BY DEF ReadAt
  <1> HIDE DEF l
  <1>3. \A k \in 1 .. l : at + k - 1 \in 0 .. Size - 1
    BY <1>1, DownloadAssumption
  <1> QED
    BY <1>1, <1>2, <1>3 DEF Bytes

LEMMA BlockLengthFacts ==
    BlockLength \in Nat /\ BlockLength > 0 /\ BlockLength <= BlkSizeFast
  BY DownloadAssumption DEF BlockLength

Starts == [Nat -> 0 .. Size]
Buffers == [room : {0, BlkSizeFast}, bytes : Bytes]

LEMMA WindowTypes ==
    ASSUME NEW x \in Windows
    PROVE  /\ x.blocks \in [Indices -> Buffers] /\ x.count \in 0 .. Size /\ x.count \in Nat
           /\ x.eof \in BOOLEAN
           /\ x.clientBlock \in Nat /\ x.currentBlock \in Nat /\ x.xmitBlock \in Nat
           /\ x.currentBlock % WindowSize \in Indices
           /\ \A j \in Indices : /\ x.blocks[j] \in Buffers /\ x.blocks[j].bytes \in Bytes
                                 /\ x.blocks[j].room \in {0, BlkSizeFast}
                                 /\ Len(x.blocks[j].bytes) \in Nat
  <1>1. /\ x.blocks \in [Indices -> Buffers] /\ x.count \in 0 .. Size /\ x.eof \in BOOLEAN
        /\ x.clientBlock \in Nat /\ x.currentBlock \in Nat /\ x.xmitBlock \in Nat
    BY DEF Windows, Buffers
  <1>2. \A j \in Indices : x.blocks[j] \in Buffers
    BY <1>1
  <1>3. \A v \in Buffers : /\ v.bytes \in Bytes /\ v.room \in {0, BlkSizeFast}
                           /\ Len(v.bytes) \in Nat
    BY DEF Buffers, Bytes
  <1> QED
    BY <1>1, <1>2, <1>3, InWindow, DownloadAssumption

(* Block currentBlock of x is put into its buffer. *)
Puts(x, y, v) ==
    /\ y \in Windows /\ v \in Buffers
    /\ y.blocks = [x.blocks EXCEPT ![x.currentBlock % WindowSize] = v]
    /\ y.currentBlock = x.currentBlock + 1
    /\ y.clientBlock = x.clientBlock /\ y.xmitBlock = x.xmitBlock

(* It is the next of the file, or the end. *)
Continues(x, t, y, v) ==
    /\ Len(v.bytes) <= v.room
    /\ \/ /\ ~y.eof /\ v.bytes # <<>> /\ t[x.currentBlock] = x.count
          /\ y.count = x.count + Len(v.bytes)
          /\ \A k \in DOMAIN v.bytes : v.bytes[k] = x.count + k - 1
       \/ y.eof /\ v.bytes = <<>> /\ x.count = Size /\ y.count = Size

LEMMA Extend ==
    ASSUME NEW t \in Starts, NEW c \in Nat, NEW n \in 0 .. Size
    PROVE  \E u \in Starts : u[c + 1] = n /\ \A b \in 0 .. c : u[b] = t[b]
  <1> DEFINE u == [t EXCEPT ![c + 1] = n]
  <1>1. u \in Starts /\ u[c + 1] = n /\ \A b \in 0 .. c : u[b] = t[b]
    BY DEF Starts
  <1> QED
    BY <1>1

(* The next block, or the end, goes behind those that are in the window.   *)
LEMMA Push ==
    ASSUME NEW x \in Windows, NEW t \in Starts, Holds(x, t), ~x.eof,
           x.currentBlock - x.clientBlock < WindowSize,
           NEW v \in Buffers, NEW y \in Windows, Puts(x, y, v), Continues(x, t, y, v)
    PROVE  \E u \in Starts :
              /\ Holds(y, u)
              /\ \A b \in 0 .. x.currentBlock : u[b] = t[b]
              /\ u[y.currentBlock] = t[x.currentBlock] + Len(v.bytes)
  <1> DEFINE c == x.currentBlock
             l == Len(v.bytes)
             a == t[c]
  <1>1. /\ c \in Nat /\ x.clientBlock \in Nat /\ x.xmitBlock \in Nat
        /\ x.count \in 0 .. Size /\ y.count \in 0 .. Size
        /\ Size \in Nat /\ WindowSize \in Nat \ {0}
    BY WindowTypes, DownloadAssumption
  <1>2. v.bytes \in Bytes /\ l \in Nat /\ (v.bytes = <<>> => l = 0)
    BY DEF Buffers, Bytes
  <1>3. /\ y.currentBlock = c + 1
        /\ y.clientBlock = x.clientBlock /\ y.xmitBlock = x.xmitBlock
    BY DEF Puts
  <1>4. /\ x.clientBlock <= c /\ x.xmitBlock <= c
        /\ a <= x.count /\ t[0] = 0 /\ (x.count # Size => a = x.count)
    BY DEF Holds
  <1>5. a \in 0 .. Size
    BY <1>1 DEF Starts
  <1>6. \/ /\ ~y.eof /\ v.bytes # <<>> /\ a = x.count /\ y.count = x.count + l
           /\ \A k \in DOMAIN v.bytes : v.bytes[k] = a + k - 1
        \/ /\ y.eof /\ v.bytes = <<>> /\ x.count = Size /\ y.count = Size /\ l = 0
    BY <1>2 DEF Continues
  <1>7. c - x.clientBlock < WindowSize /\ c = x.currentBlock /\ t[c] = a /\ l = Len(v.bytes)
    OBVIOUS
  <1> HIDE DEF c, l, a
  <1>8. a + l \in 0 .. Size /\ a + l <= y.count
    BY <1>1, <1>2, <1>4, <1>5, <1>6
  <1>9. PICK u \in Starts : u[c + 1] = a + l /\ \A b \in 0 .. c : u[b] = t[b]
    BY <1>1, <1>8, Extend
  <1>10. ASSUME NEW b \in x.clientBlock .. c
         PROVE  IsBlockOf(y, u, b, y.blocks[b % WindowSize].bytes)
    <2>1. b \in Nat /\ b \in 0 .. c /\ y.currentBlock - 1 = c /\ b < y.currentBlock
      BY <1>1, <1>3
    <2>2. CASE b = c
      <3>1. y.blocks[b % WindowSize] = v
        BY <1>7, <2>2, WindowTypes DEF Puts
      <3>2. u[b] = a /\ u[b + 1] = a + l
        BY <1>7, <1>9, <2>1, <2>2
      <3>3. a + l - a = l /\ \A k \in DOMAIN v.bytes : v.bytes[k] = a + k - 1
        BY <1>2, <1>5, <1>6
      <3>4. IsBlock(u, b, v.bytes)
        <4>1. Len(v.bytes) = u[b + 1] - u[b]
          BY <1>2, <1>5, <1>7, <3>2
        <4>2. \A k \in DOMAIN v.bytes : v.bytes[k] = u[b] + k - 1
          BY <3>2, <3>3
        <4> QED
          BY <4>1, <4>2 DEF IsBlock
      <3>5. v.bytes = <<>> => y.eof
        BY <1>6
      <3> QED
        BY <2>1, <2>2, <3>1, <3>4, <3>5 DEF IsBlockOf
    <2>3. CASE b # c
      <3>1. b < c /\ c - b < WindowSize /\ b \in x.clientBlock .. c - 1 /\ b + 1 \in 0 .. c
        BY <1>1, <1>7, <2>1, <2>3
      <3>2. b % WindowSize # c % WindowSize /\ b % WindowSize \in Indices
        BY <1>1, <2>1, <3>1, Apart, InWindow
      <3>3. y.blocks[b % WindowSize] = x.blocks[b % WindowSize]
        BY <1>7, <3>2, WindowTypes DEF Puts
      <3>4. IsBlockOf(x, t, b, x.blocks[b % WindowSize].bytes)
        BY <1>7, <3>1 DEF Holds
      <3>5. u[b] = t[b] /\ u[b + 1] = t[b + 1]
        BY <1>9, <2>1, <3>1
      <3>6. x.blocks[b % WindowSize].bytes # <<>>
        BY <3>4 DEF IsBlockOf
      <3> QED
        BY <2>1, <3>3, <3>4, <3>5, <3>6 DEF IsBlockOf, IsBlock
    <2> QED
      BY <2>2, <2>3
  <1>11. \A j \in Indices : Len(y.blocks[j].bytes) <= y.blocks[j].room
    <2>1. \A j \in Indices : y.blocks[j] = v \/ y.blocks[j] = x.blocks[j]
      BY WindowTypes DEF Puts
    <2> QED
      BY <2>1 DEF Holds, Continues
  <1>12. /\ y.currentBlock - y.clientBlock <= WindowSize
         /\ y.clientBlock <= y.currentBlock /\ y.xmitBlock <= y.currentBlock
         /\ y.currentBlock > 0 /\ y.currentBlock - 1 = c
    BY <1>1, <1>3, <1>4, <1>7
  <1>13. u[0] = 0 /\ u[c] = a
    BY <1>1, <1>4, <1>7, <1>9
  <1>14. /\ u[y.currentBlock] = a + l /\ u[y.currentBlock] <= y.count
         /\ y.count # Size => u[y.currentBlock] = y.count
         /\ y.eof => y.count = Size /\ u[y.currentBlock] = u[c]
    BY <1>1, <1>3, <1>5, <1>6, <1>8, <1>9, <1>13
  <1>15. Holds(y, u)
    BY <1>3, <1>10, <1>11, <1>12, <1>13, <1>14 DEF Holds
  <1> QED
    BY <1>7, <1>9, <1>14, <1>15

(* The turns of the loop, the error of FS_Read, and the end. *)
LEMMA ReadBlockStep ==
    ASSUME NEW x \in Windows, NEW t \in Starts, Holds(x, t), MayRead(x)
    PROVE  LET y == ReadBlock(x)
           IN  /\ ~x.eof /\ y \in Windows /\ y.clientBlock = x.clientBlock
               /\ y.xmitBlock = x.xmitBlock /\ y.eof = x.eof
               /\ y.currentBlock = x.currentBlock + 1
               /\ \E u \in Starts : /\ Holds(y, u) /\ u[y.currentBlock] = y.count
                                    /\ \A b \in 0 .. x.currentBlock : u[b] = t[b]
  <1> DEFINE j == x.currentBlock % WindowSize
             bytes == ReadAt(x.count, BlockLength)
             v == [room |-> Room(x.blocks[j]), bytes |-> bytes]
             n == x.count + Len(bytes)
             c == x.currentBlock + 1
             y == ReadBlock(x)
  <1>1. /\ j \in Indices /\ x.count \in 0 .. Size /\ x.count # Size /\ x.eof \in BOOLEAN
        /\ x.blocks[j].room \in {0, BlkSizeFast} /\ x.currentBlock \in Nat
        /\ x.clientBlock \in Nat
    BY WindowTypes DEF MayRead
  <1>2. ~x.eof /\ t[x.currentBlock] = x.count /\ x.currentBlock - x.clientBlock < WindowSize
    BY <1>1 DEF Holds, MayRead
  <1>3. /\ bytes \in Bytes /\ Len(bytes) \in 1 .. BlockLength /\ n \in 0 .. Size
        /\ \A k \in DOMAIN bytes : bytes[k] = x.count + k - 1
    BY <1>1, ReadAtFacts, BlockLengthFacts
  <1>4. Len(bytes) <= BlkSizeFast /\ bytes # <<>>
    <2>1. Len(bytes) # 0 /\ Len(bytes) <= BlkSizeFast
      BY <1>3, BlockLengthFacts, DownloadAssumption
    <2> QED
      BY <2>1
  <1>5. Room(x.blocks[j]) = BlkSizeFast
    BY <1>1 DEF Room
  <1> HIDE DEF j, bytes
  <1>6. v \in Buffers /\ v.bytes = bytes /\ v.room = BlkSizeFast
    BY <1>3, <1>5 DEF Buffers
  <1>7. y = [x EXCEPT !.blocks = [x.blocks EXCEPT ![j] = v], !.count = n,
                      !.currentBlock = c, !.eof = x.eof]
    BY Zenon DEF ReadBlock, j, bytes, Windows
  <1>8. c \in Nat
    BY <1>1
  <1> HIDE DEF v, n, c, y
  <1>9. /\ y \in Windows /\ y.blocks = [x.blocks EXCEPT ![j] = v] /\ y.count = n
        /\ y.currentBlock = c /\ y.eof = x.eof /\ y.clientBlock = x.clientBlock
        /\ y.xmitBlock = x.xmitBlock
    <2>1. /\ j \in Indices /\ v \in Buffers /\ n \in 0 .. Size /\ c \in Nat
          /\ x.eof \in BOOLEAN
      BY <1>1, <1>3, <1>6, <1>8 DEF n
    <2>2. x.blocks \in [Indices -> Buffers]
      BY WindowTypes
    <2>3. [x.blocks EXCEPT ![j] = v] \in [Indices -> Buffers]
      BY <2>1, <2>2
    <2> QED
      BY <1>7, <2>1, <2>3, Zenon DEF Windows, Buffers
  <1>10. Puts(x, y, v)
    BY <1>6, <1>9 DEF Puts, j, c
  <1>11. Continues(x, t, y, v)
    BY <1>2, <1>3, <1>4, <1>6, <1>9 DEF Continues, n
  <1>12. PICK u \in Starts :
            /\ Holds(y, u)
            /\ \A b \in 0 .. x.currentBlock : u[b] = t[b]
            /\ u[y.currentBlock] = t[x.currentBlock] + Len(v.bytes)
    BY <1>2, <1>6, <1>9, <1>10, <1>11, Push
  <1>13. u[y.currentBlock] = y.count
    BY <1>2, <1>6, <1>9, <1>12 DEF n
  <1> QED
    BY <1>2, <1>9, <1>12, <1>13 DEF y, c

LEMMA ReadFailsStep ==
    ASSUME NEW x \in Windows, NEW t \in Starts, Holds(x, t), MayRead(x)
    PROVE  LET y == ReadFails(x)
           IN  /\ ~x.eof /\ y \in Windows /\ y.clientBlock = x.clientBlock
               /\ y.xmitBlock = x.xmitBlock /\ y.eof = x.eof
               /\ y.currentBlock = x.currentBlock /\ y.count = Size /\ Holds(y, t)
  <1> DEFINE j == x.currentBlock % WindowSize
             v == [x.blocks[j] EXCEPT !.room = BlkSizeFast]
             y == ReadFails(x)
  <1>1. /\ j \in Indices /\ x.count \in 0 .. Size /\ x.count # Size /\ x.eof \in BOOLEAN
        /\ x.blocks[j].room \in {0, BlkSizeFast} /\ x.currentBlock \in Nat
        /\ x.clientBlock \in Nat /\ x.blocks[j] \in Buffers
        /\ x.blocks \in [Indices -> Buffers] /\ Size \in 0 .. Size
        /\ Len(x.blocks[j].bytes) \in Nat
    BY WindowTypes, DownloadAssumption DEF MayRead
  <1>2. ~x.eof /\ t[x.currentBlock] = x.count
    BY <1>1 DEF Holds
  <1> HIDE DEF j
  <1>3. v \in Buffers /\ v.bytes = x.blocks[j].bytes /\ v.room = BlkSizeFast
    BY <1>1, Zenon DEF Buffers
  <1>4. y = [x EXCEPT !.count = Size, !.blocks = [x.blocks EXCEPT ![j] = v]]
    BY Zenon DEF ReadFails, j, Windows
  <1> HIDE DEF v, y
  <1>5. [x.blocks EXCEPT ![j] = v] \in [Indices -> Buffers]
    BY <1>1, <1>3
  <1>6. /\ y \in Windows /\ y.blocks = [x.blocks EXCEPT ![j] = v] /\ y.count = Size
        /\ y.currentBlock = x.currentBlock /\ y.eof = x.eof
        /\ y.clientBlock = x.clientBlock /\ y.xmitBlock = x.xmitBlock
    BY <1>1, <1>4, <1>5, Zenon DEF Windows, Buffers
  <1>7. \A i \in Indices : y.blocks[i].bytes = x.blocks[i].bytes
                           /\ (y.blocks[i] = x.blocks[i] \/ y.blocks[i] = v)
    BY <1>1, <1>3, <1>6
  <1>8. \A i \in Indices : Len(y.blocks[i].bytes) <= y.blocks[i].room
    <2>1. Len(x.blocks[j].bytes) <= x.blocks[j].room
      BY <1>1 DEF Holds
    <2>2. Len(v.bytes) <= v.room
      BY <1>1, <1>3, <2>1, DownloadAssumption
    <2> QED
      BY <1>7, <2>2 DEF Holds
  <1>9. ASSUME NEW b \in y.clientBlock .. y.currentBlock - 1
        PROVE  IsBlockOf(y, t, b, y.blocks[b % WindowSize].bytes)
    <2>1. b \in Nat
      BY <1>1, <1>6
    <2>2. IsBlockOf(x, t, b, x.blocks[b % WindowSize].bytes)
      BY <1>6 DEF Holds
    <2>3. y.blocks[b % WindowSize].bytes = x.blocks[b % WindowSize].bytes
      BY <1>7, <2>1, InWindow
    <2> QED
      BY <1>2, <1>6, <2>2, <2>3 DEF IsBlockOf
  <1>10. Holds(y, t)
    BY <1>1, <1>2, <1>6, <1>8, <1>9 DEF Holds
  <1> QED
    BY <1>2, <1>6, <1>10 DEF y

LEMMA AddEofStep ==
    ASSUME NEW x \in Windows, NEW t \in Starts, Holds(x, t)
    PROVE  LET y == AddEof(x)
           IN  /\ y \in Windows /\ y.clientBlock = x.clientBlock
               /\ y.xmitBlock = x.xmitBlock /\ y.count = x.count
               /\ \/ y.eof = x.eof /\ y.currentBlock = x.currentBlock
                  \/ ~x.eof /\ y.eof /\ y.currentBlock = x.currentBlock + 1
               /\ x.currentBlock - x.clientBlock < WindowSize /\ x.count = Size => y.eof
               /\ \E u \in Starts : /\ Holds(y, u)
                                    /\ u[y.currentBlock] = t[x.currentBlock]
                                    /\ \A b \in 0 .. x.currentBlock : u[b] = t[b]
  <1> DEFINE j == x.currentBlock % WindowSize
             v == [x.blocks[j] EXCEPT !.bytes = <<>>]
             c == x.currentBlock + 1
             y == AddEof(x)
  <1>1. /\ j \in Indices /\ x.count \in 0 .. Size /\ x.eof \in BOOLEAN
        /\ x.blocks[j].room \in {0, BlkSizeFast} /\ x.currentBlock \in Nat /\ c \in Nat
        /\ x.clientBlock \in Nat /\ x.blocks[j] \in Buffers
        /\ x.blocks \in [Indices -> Buffers] /\ TRUE \in BOOLEAN
    BY WindowTypes
  <1>2. CASE ~(x.count = Size /\ ~x.eof /\ x.currentBlock - x.clientBlock < WindowSize)
    <2>1. y = x
      BY <1>2 DEF AddEof
    <2> QED
      BY <1>2, <2>1
  <1>3. CASE x.count = Size /\ ~x.eof /\ x.currentBlock - x.clientBlock < WindowSize
    <2> HIDE DEF j
    <2>1. <<>> \in Bytes /\ Len(<<>>) = 0
      BY DEF Bytes
    <2>2. v \in Buffers /\ v.bytes = <<>> /\ v.room = x.blocks[j].room
      BY <1>1, <2>1, Zenon DEF Buffers
    <2>3. y = [x EXCEPT !.blocks = [x.blocks EXCEPT ![j] = v], !.currentBlock = c,
                        !.eof = TRUE]
      BY <1>3, Zenon DEF AddEof, j, Windows
    <2> HIDE DEF v, y, c
    <2>4. [x.blocks EXCEPT ![j] = v] \in [Indices -> Buffers]
      BY <1>1, <2>2
    <2>5. /\ y \in Windows /\ y.blocks = [x.blocks EXCEPT ![j] = v] /\ y.count = x.count
          /\ y.currentBlock = c /\ y.eof = TRUE
          /\ y.clientBlock = x.clientBlock /\ y.xmitBlock = x.xmitBlock
      BY <1>1, <2>3, <2>4, Zenon DEF Windows, Buffers
    <2>6. Puts(x, y, v)
      BY <2>2, <2>5 DEF Puts, j, c
    <2>7. Len(v.bytes) = 0 /\ Len(v.bytes) <= v.room
      BY <1>1, <2>1, <2>2, DownloadAssumption
    <2>8. Continues(x, t, y, v)
      BY <1>3, <2>2, <2>5, <2>7 DEF Continues
    <2>9. PICK u \in Starts :
              /\ Holds(y, u)
              /\ \A b \in 0 .. x.currentBlock : u[b] = t[b]
              /\ u[y.currentBlock] = t[x.currentBlock] + Len(v.bytes)
      BY <1>3, <2>2, <2>5, <2>6, <2>8, Push
    <2>10. t[x.currentBlock] \in Int
      BY <1>1, DownloadAssumption DEF Starts
    <2>11. u[y.currentBlock] = t[x.currentBlock]
      BY <2>7, <2>9, <2>10
    <2> QED
      BY <1>3, <2>5, <2>9, <2>11 DEF y, c
  <1> QED
    BY <1>2, <1>3

(* What reading ahead makes of a window. *)
Ahead(w, t, x, u) ==
    /\ x \in Windows /\ x.clientBlock = w.clientBlock /\ x.xmitBlock = w.xmitBlock
    /\ w.currentBlock <= x.currentBlock
    /\ Holds(x, u) /\ \A b \in 0 .. w.currentBlock : u[b] = t[b]

LEMMA LoopKeeps ==
    ASSUME NEW w \in Windows, NEW t \in Starts, Holds(w, t), NEW k \in 0 .. WindowSize
    PROVE  /\ w.eof => ReadAhead(w)[k] = w
           /\ ~w.eof => /\ ~ReadAhead(w)[k].eof
                        /\ \E u \in Starts :
                              /\ Ahead(w, t, ReadAhead(w)[k], u)
                              /\ t[w.currentBlock] = w.count =>
                                    u[ReadAhead(w)[k].currentBlock] = ReadAhead(w)[k].count
  <1> DEFINE r == ReadAhead(w)
             Kept(x) == \E u \in Starts :
                           /\ Ahead(w, t, x, u)
                           /\ t[w.currentBlock] = w.count => u[x.currentBlock] = x.count
             Fine(n) == /\ w.eof => r[n] = w
                        /\ ~w.eof => ~r[n].eof /\ Kept(r[n])
             Bad == {n \in 0 .. WindowSize : ~Fine(n)}
  <1>1. /\ r[0] = w
        /\ \A n \in 0 .. WindowSize : n # 0 => r[n] = Turn(r[n - 1])
    BY ReadAheadTurns, DownloadAssumption DEF IsLoop
  <1>2. w.eof => ~MayRead(w)
    BY DEF Holds, MayRead
  <1>3. Ahead(w, t, w, t)
    BY WindowTypes DEF Ahead
  <1> HIDE DEF r
  <1>4. SUFFICES Bad = {}
    BY DEF r
  <1>5. ASSUME Bad # {}
        PROVE  FALSE
    <2>1. Bad \in SUBSET Nat
      BY DownloadAssumption
    <2>2. PICK n \in Bad : \A o \in Bad : n <= o
      BY <1>5, <2>1, Least
    <2>3. Fine(0)
      BY <1>1, <1>3
    <2>4. n # 0 /\ n \in 0 .. WindowSize /\ n - 1 \in 0 .. WindowSize /\ n - 1 \notin Bad
      BY <2>1, <2>2, <2>3, DownloadAssumption
    <2>5. Fine(n - 1) /\ r[n] = Turn(r[n - 1])
      BY <1>1, <2>4
    <2>6. CASE w.eof
      BY <1>2, <2>2, <2>5, <2>6 DEF Turn
    <2>7. CASE ~w.eof
      <3> DEFINE x == r[n - 1]
      <3>1. ~x.eof /\ Kept(x)
        BY <2>5, <2>7
      <3>2. r[n] = IF MayRead(x) THEN ReadBlock(x) ELSE x
        BY <2>5 DEF Turn
      <3> HIDE DEF x
      <3>3. PICK u \in Starts : Ahead(w, t, x, u)
        BY <3>1
      <3>4. CASE ~MayRead(x)
        BY <2>2, <2>7, <3>1, <3>2, <3>4
      <3>5. CASE MayRead(x)
        <4> DEFINE y == ReadBlock(x)
        <4>1. /\ y \in Windows /\ y.clientBlock = x.clientBlock
              /\ y.xmitBlock = x.xmitBlock /\ y.eof = x.eof
              /\ y.currentBlock = x.currentBlock + 1
              /\ \E u2 \in Starts : /\ Holds(y, u2) /\ u2[y.currentBlock] = y.count
                                    /\ \A b \in 0 .. x.currentBlock : u2[b] = u[b]
          BY <3>3, <3>5, ReadBlockStep DEF Ahead
        <4> HIDE DEF y
        <4>2. PICK u2 \in Starts : /\ Holds(y, u2) /\ u2[y.currentBlock] = y.count
                                   /\ \A b \in 0 .. x.currentBlock : u2[b] = u[b]
          BY <4>1
        <4>3. /\ w.currentBlock \in Nat /\ x.currentBlock \in Nat
              /\ w.currentBlock <= x.currentBlock
          BY <3>3, WindowTypes DEF Ahead
        <4>4. /\ w.currentBlock <= y.currentBlock
              /\ \A b \in 0 .. w.currentBlock : u2[b] = t[b]
          BY <3>3, <4>1, <4>2, <4>3 DEF Ahead
        <4>5. Ahead(w, t, y, u2)
          BY <3>3, <4>1, <4>2, <4>4 DEF Ahead
        <4>6. Kept(y) /\ ~y.eof
          BY <3>1, <4>1, <4>2, <4>5
        <4> QED
          BY <2>2, <2>7, <3>2, <3>5, <4>6 DEF y
      <3> QED
        BY <3>4, <3>5
    <2> QED
      BY <2>6, <2>7
  <1> QED
    BY <1>5

(* The window that is sent from, whether or not the file could be read.    *)
Result(w, t, y, u) ==
    /\ Ahead(w, t, y, u)
    /\ w.eof => y.eof /\ y.currentBlock = w.currentBlock
    /\ ~w.eof /\ y.eof => w.currentBlock < y.currentBlock

LEMMA ReadWell ==
    ASSUME NEW w \in Windows, NEW t \in Starts, Holds(w, t)
    PROVE  \E u \in Starts :
              /\ Result(w, t, AddEof(ReadAhead(w)[WindowSize]), u)
              /\ t[w.currentBlock] = w.count =>
                    u[AddEof(ReadAhead(w)[WindowSize]).currentBlock]
                        = AddEof(ReadAhead(w)[WindowSize]).count
  <1> DEFINE x == ReadAhead(w)[WindowSize]
             y == AddEof(x)
  <1>1. WindowSize \in 0 .. WindowSize /\ w.eof \in BOOLEAN
    BY DownloadAssumption, WindowTypes
  <1>2. \E u \in Starts : /\ Ahead(w, t, x, u)
                          /\ t[w.currentBlock] = w.count => u[x.currentBlock] = x.count
    <2>1. Ahead(w, t, w, t)
      BY WindowTypes DEF Ahead
    <2> QED
      BY <1>1, <2>1, LoopKeeps
  <1>3. (w.eof => x = w) /\ (~w.eof => ~x.eof)
    BY <1>1, LoopKeeps
  <1> HIDE DEF x
  <1>4. PICK u \in Starts : /\ Ahead(w, t, x, u)
                            /\ t[w.currentBlock] = w.count => u[x.currentBlock] = x.count
    BY <1>2
  <1>5. /\ y \in Windows /\ y.clientBlock = x.clientBlock
        /\ y.xmitBlock = x.xmitBlock /\ y.count = x.count
        /\ \/ y.eof = x.eof /\ y.currentBlock = x.currentBlock
           \/ ~x.eof /\ y.eof /\ y.currentBlock = x.currentBlock + 1
        /\ \E u2 \in Starts : /\ Holds(y, u2)
                              /\ u2[y.currentBlock] = u[x.currentBlock]
                              /\ \A b \in 0 .. x.currentBlock : u2[b] = u[b]
    BY <1>4, AddEofStep DEF Ahead
  <1> HIDE DEF y
  <1>6. PICK u2 \in Starts : /\ Holds(y, u2)
                             /\ u2[y.currentBlock] = u[x.currentBlock]
                             /\ \A b \in 0 .. x.currentBlock : u2[b] = u[b]
    BY <1>5
  <1>7. /\ w.currentBlock \in Nat /\ x.currentBlock \in Nat
        /\ w.currentBlock <= x.currentBlock
    BY <1>4, WindowTypes DEF Ahead
  <1>8. /\ w.currentBlock <= y.currentBlock
        /\ \A b \in 0 .. w.currentBlock : u2[b] = t[b]
    BY <1>4, <1>5, <1>6, <1>7 DEF Ahead
  <1>9. ~x.eof /\ y.eof => y.currentBlock = x.currentBlock + 1
    BY <1>5, Zenon
  <1>10. ~w.eof /\ y.eof => w.currentBlock < y.currentBlock
    BY <1>3, <1>7, <1>9
  <1>11. w.eof => y.eof /\ y.currentBlock = w.currentBlock
    BY <1>3, <1>5, Zenon
  <1>12. Ahead(w, t, y, u2)
    BY <1>4, <1>5, <1>6, <1>8 DEF Ahead
  <1>13. Result(w, t, y, u2)
    BY <1>10, <1>11, <1>12 DEF Result
  <1> QED
    BY <1>4, <1>5, <1>6, <1>13 DEF y, x

LEMMA ReadBadly ==
    ASSUME NEW w \in Windows, NEW t \in Starts, Holds(w, t), NEW k \in 0 .. WindowSize - 1,
           MayRead(ReadAhead(w)[k])
    PROVE  \E u \in Starts : Result(w, t, AddEof(ReadFails(ReadAhead(w)[k])), u)
  <1> DEFINE x == ReadAhead(w)[k]
             z == ReadFails(x)
             y == AddEof(z)
  <1>1. k \in 0 .. WindowSize /\ w.eof \in BOOLEAN
    BY DownloadAssumption, WindowTypes
  <1>2. ~w.eof /\ ~x.eof
    BY <1>1, LoopKeeps DEF Holds, MayRead
  <1>3. \E u \in Starts : Ahead(w, t, x, u)
    BY <1>1, <1>2, LoopKeeps
  <1> HIDE DEF x
  <1>4. PICK u \in Starts : Ahead(w, t, x, u)
    BY <1>3
  <1>5. /\ z \in Windows /\ z.clientBlock = x.clientBlock
        /\ z.xmitBlock = x.xmitBlock /\ z.eof = x.eof
        /\ z.currentBlock = x.currentBlock /\ Holds(z, u)
    BY <1>4, ReadFailsStep DEF Ahead, x
  <1> HIDE DEF z
  <1>6. /\ y \in Windows /\ y.clientBlock = z.clientBlock
        /\ y.xmitBlock = z.xmitBlock /\ y.count = z.count
        /\ \/ y.eof = z.eof /\ y.currentBlock = z.currentBlock
           \/ ~z.eof /\ y.eof /\ y.currentBlock = z.currentBlock + 1
        /\ \E u2 \in Starts : /\ Holds(y, u2)
                              /\ u2[y.currentBlock] = u[z.currentBlock]
                              /\ \A b \in 0 .. z.currentBlock : u2[b] = u[b]
    BY <1>5, AddEofStep
  <1> HIDE DEF y
  <1>7. PICK u2 \in Starts : /\ Holds(y, u2)
                             /\ \A b \in 0 .. z.currentBlock : u2[b] = u[b]
    BY <1>6
  <1>8. /\ w.currentBlock \in Nat /\ x.currentBlock \in Nat
        /\ w.currentBlock <= x.currentBlock
    BY <1>4, WindowTypes DEF Ahead
  <1>9. /\ w.currentBlock <= y.currentBlock
        /\ \A b \in 0 .. w.currentBlock : u2[b] = t[b]
    BY <1>4, <1>5, <1>6, <1>7, <1>8 DEF Ahead
  <1>10. y.eof => y.currentBlock = x.currentBlock + 1
    BY <1>2, <1>5, <1>6, Zenon
  <1>11. ~w.eof /\ y.eof => w.currentBlock < y.currentBlock
    BY <1>8, <1>10
  <1>12. Ahead(w, t, y, u2)
    BY <1>4, <1>5, <1>6, <1>7, <1>9 DEF Ahead
  <1>13. Result(w, t, y, u2)
    BY <1>2, <1>11, <1>12 DEF Result
  <1> QED
    BY <1>13 DEF y, z, x

----------------------------------------------------------------------------
(* Steps that leave the window alone. *)
LEMMA SameWindow ==
    ASSUME UNCHANGED <<blocks, count, eof, clientBlock, currentBlock, xmitBlock>>
    PROVE  Carried' = Carried
  BY DEF Carried

LEMMA CarriedFields ==
    ASSUME Carried \in Windows
    PROVE  /\ Carried.blocks = blocks /\ Carried.count = count /\ Carried.eof = eof
           /\ Carried.clientBlock = clientBlock /\ Carried.currentBlock = currentBlock
           /\ Carried.xmitBlock = xmitBlock
           /\ blocks \in [Indices -> Buffers] /\ count \in 0 .. Size /\ eof \in BOOLEAN
           /\ clientBlock \in Nat /\ currentBlock \in Nat /\ xmitBlock \in Nat
  <1>1. /\ Carried.blocks = blocks /\ Carried.count = count /\ Carried.eof = eof
        /\ Carried.clientBlock = clientBlock /\ Carried.currentBlock = currentBlock
        /\ Carried.xmitBlock = xmitBlock
    BY DEF Carried
  <1> QED
    BY <1>1, WindowTypes

LEMMA ErrorStep ==
    ASSUME DownloadFields, NEW t \in Starts, Ok(t), name # "", ~open, WriteError,
           UNCHANGED <<broken, svCvars, acks, player>>
    PROVE  DownloadFields' /\ Ok(t)'
  <1>1. Carried' = Carried
    BY SameWindow DEF WriteError
  <1>2. [kind |-> "error"] \in Messages /\ snapshots \in Seq(Messages)
    BY DEF Messages, DownloadFields
  <1>3. snapshots' = Append(snapshots, [kind |-> "error"])
    BY DEF WriteError
  <1> DEFINE msg == [kind |-> "error"]
  <1>4. msg.kind = "error" /\ msg.kind # "block"
    OBVIOUS
  <1> HIDE DEF msg
  <1>5. /\ snapshots' \in Seq(Messages)
        /\ \A i \in DOMAIN snapshots' :
              \/ i \in DOMAIN snapshots /\ snapshots'[i] = snapshots[i]
              \/ snapshots'[i] = msg
    <2>1. msg \in Messages /\ snapshots' = Append(snapshots, msg)
      BY <1>2, <1>3, Zenon DEF msg
    <2>2. /\ Append(snapshots, msg) \in Seq(Messages)
          /\ \A i \in DOMAIN Append(snapshots, msg) :
                 \/ i \in DOMAIN snapshots /\ Append(snapshots, msg)[i] = snapshots[i]
                 \/ Append(snapshots, msg)[i] = msg
      BY ONLY <1>2, <2>1, Grow
    <2> QED
      BY <2>1, <2>2, Zenon
  <1>6. /\ name' = "" /\ open' \in BOOLEAN
        /\ UNCHANGED <<eof, readFailed, broken, fast, allow, toggles, idle, acks, player>>
    BY Zenon DEF WriteError, svCvars, DownloadFields
  <1>7. DownloadFields'
    BY <1>1, <1>5, <1>6, Zenon DEF DownloadFields
  <1>8. Truthful(t)'
    BY <1>1, <1>4, <1>5, <1>6 DEF Ok, Truthful
  <1>9. /\ Holds(Carried, t)' /\ Received(t)' /\ Unopened' /\ Whole(t)' /\ NeverBroken'
    <2>1. Holds(Carried, t)'
      BY <1>1 DEF Ok
    <2>2. /\ player' = player /\ eof' = eof /\ readFailed' = readFailed /\ broken' = broken
          /\ clientBlock' = clientBlock /\ currentBlock' = currentBlock /\ count' = count
      BY <1>6 DEF WriteError
    <2>3. Received(t)' /\ Whole(t)' /\ NeverBroken'
      <3>1. Received(t) /\ Whole(t) /\ NeverBroken
        BY DEF Ok
      <3>2. Received(t)'
        BY <2>2, <3>1, Zenon DEF Received, DeliveredInOrder
      <3>3. Whole(t)'
        BY <2>2, <3>1, Zenon DEF Whole
      <3>4. NeverBroken'
        BY ONLY <2>2, <3>1 DEF NeverBroken
      <3> QED
        BY <3>2, <3>3, <3>4
    <2>4. Freshly' = Freshly
      BY DEF Freshly, WriteError
    <2>5. Unopened'
      BY <1>1, <1>6, <2>4, Zenon DEF Ok, Unopened
    <2> QED
      BY <2>1, <2>3, <2>5
  <1>10. Acknowledging'
    <2>1. ~Closed /\ ~Closed'
      BY <1>6 DEF Ok, Acknowledging, Closed
    <2>2. UNCHANGED <<clientBlock, acks, player>>
      BY DEF WriteError
    <2> QED
      BY <2>1, <2>2 DEF Ok, Acknowledging
  <1> QED
    BY <1>7, <1>8, <1>9, <1>10 DEF Ok

LEMMA BeginDownloadStep ==
    ASSUME DownloadFields, NEW t \in Starts, Ok(t), BeginDownload
    PROVE  DownloadFields' /\ Ok(t)'
  <1>1. Carried' = Carried /\ snapshots' = snapshots /\ acks' = acks
    BY SameWindow DEF BeginDownload
  <1>2. /\ player' \in Downloaders /\ player'.status = "loading"
        /\ player'.next = player.next
        /\ player'.bytes = player.bytes /\ player.status = "idle"
    BY DEF DownloadFields, BeginDownload, Downloaders
  <1>3. DownloadFields'
    BY <1>1, <1>2 DEF DownloadFields, BeginDownload, svCvars
  <1>4. /\ Holds(Carried, t)' /\ Truthful(t)' /\ Whole(t)' /\ NeverBroken' /\ Unopened'
    BY <1>1, <1>2
       DEF Ok, Truthful, Unopened, Freshly, Whole, NeverBroken, BeginDownload
  <1>5. Received(t)' /\ Acknowledging'
    BY <1>1, <1>2 DEF Ok, Received, DeliveredInOrder, Acknowledging, Closed, BeginDownload
  <1> QED
    BY <1>3, <1>4, <1>5 DEF Ok

LEMMA LoseSnapshotStep ==
    ASSUME DownloadFields, NEW t \in Starts, Ok(t), LoseSnapshot
    PROVE  DownloadFields' /\ Ok(t)'
  <1>1. /\ Carried' = Carried /\ UNCHANGED <<server, svCvars, acks, player>>
        /\ snapshots # <<>> /\ snapshots' = Tail(snapshots)
    BY SameWindow DEF LoseSnapshot, server
  <1>2. snapshots \in Seq(Messages)
    BY DEF DownloadFields
  <1>3. /\ snapshots' \in Seq(Messages)
        /\ \A i \in DOMAIN snapshots' :
              i + 1 \in DOMAIN snapshots /\ snapshots'[i] = snapshots[i + 1]
    BY <1>1, <1>2, Shift
  <1>4. DownloadFields'
    BY <1>1, <1>3, Zenon DEF DownloadFields, server, svCvars
  <1>5. Truthful(t)'
    BY <1>1, <1>3 DEF Ok, Truthful
  <1> QED
    BY <1>1, <1>4, <1>5
       DEF Ok, Received, DeliveredInOrder, Unopened, Freshly, Whole, NeverBroken,
           Acknowledging, Closed, server

LEMMA TimeStep ==
    ASSUME DownloadFields, NEW t \in Starts, Ok(t), Tick \/ Toggle
    PROVE  DownloadFields' /\ Ok(t)'
  <1>1. /\ Carried' = Carried
        /\ UNCHANGED <<name, open, count, eof, clientBlock, currentBlock, xmitBlock,
                       blocks, readFailed, broken, snapshots, acks, player>>
    BY SameWindow DEF Tick, Toggle, server
  <1>2. /\ idle \in 0 .. Timeout + 1 /\ toggles \in 0 .. MaxToggles
        /\ fast \in BOOLEAN /\ allow \in BOOLEAN
    BY DEF DownloadFields
  <1>3. Timeout \in Nat /\ MaxToggles \in Nat
    BY DownloadAssumption
  <1>4. idle' \in 0 .. Timeout + 1
    <2>1. CASE Tick
      BY <1>2, <1>3, <2>1 DEF Tick
    <2>2. CASE Toggle
      BY <1>2, <2>2 DEF Toggle, server
    <2> QED
      BY <2>1, <2>2
  <1>5. toggles' \in 0 .. MaxToggles /\ fast' \in BOOLEAN /\ allow' \in BOOLEAN
    <2>1. CASE Tick
      BY <1>2, <2>1 DEF Tick, svCvars
    <2>2. CASE Toggle
      <3>1. toggles' \in 0 .. MaxToggles
        BY <1>2, <1>3, <2>2 DEF Toggle
      <3>2. fast' \in BOOLEAN /\ allow' \in BOOLEAN
        BY <1>2, <2>2, Zenon DEF Toggle
      <3> QED
        BY <3>1, <3>2
    <2> QED
      BY <2>1, <2>2
  <1>6. DownloadFields'
    BY <1>1, <1>4, <1>5, Zenon DEF DownloadFields
  <1> QED
    BY <1>1, <1>6
       DEF Ok, Truthful, Received, DeliveredInOrder, Unopened, Freshly, Whole, NeverBroken,
           Acknowledging, Closed

(* A message goes out with a block that is read, or with one of those the  *)
(* client has.                                                             *)
LEMMA SendFacts ==
    ASSUME DownloadFields, NEW t \in Starts, Ok(t), NEW y \in Windows, NEW u \in Starts,
           Result(Carried, t, y, u), SendFrom(y)
    PROVE  /\ xmitBlock' \in Nat /\ xmitBlock' <= y.currentBlock
           /\ idle' \in 0 .. Timeout + 1 /\ snapshots' \in Seq(Messages)
           /\ \A i \in DOMAIN snapshots' :
                 \/ i \in DOMAIN snapshots /\ snapshots'[i] = snapshots[i]
                 \/ Tells(y, u, player.next, snapshots'[i])
  <1>1. /\ y.clientBlock = clientBlock /\ y.xmitBlock = xmitBlock /\ Holds(y, u)
        /\ y.currentBlock \in Nat /\ clientBlock \in Nat /\ xmitBlock \in Nat
        /\ clientBlock <= y.currentBlock /\ xmitBlock <= y.currentBlock
    BY WindowTypes, CarriedFields DEF DownloadFields, Result, Ahead, Holds
  <1>2. /\ idle \in 0 .. Timeout + 1 /\ snapshots \in Seq(Messages) /\ player.next \in Nat
    BY DEF DownloadFields, Downloaders
  <1>3. clientBlock <= player.next
    BY DEF Ok, Received
  <1>4. CASE NothingToSend(y)
    BY <1>1, <1>2, <1>4 DEF SendFrom
  <1>5. CASE ~NothingToSend(y)
    <2> DEFINE b == NextToSend(y)
               bytes == y.blocks[b % WindowSize].bytes
               msg == [kind |-> "block", number |-> Short(b), bytes |-> bytes]
    <2>1. snapshots' = Append(snapshots, msg) /\ xmitBlock' = b + 1 /\ idle' = 0
      BY <1>5 DEF SendFrom
    <2>2. /\ b \in Nat /\ b < y.currentBlock
          /\ b < player.next \/ b \in y.clientBlock .. y.currentBlock - 1
      BY <1>1, <1>2, <1>3, <1>5 DEF NothingToSend, NextToSend, AllSent
    <2> HIDE DEF b
    <2>3. bytes \in Bytes
      BY <2>2, InWindow, WindowTypes
    <2>4. b < player.next \/ IsBlockOf(y, u, b, bytes)
      BY <1>1, <2>2 DEF Holds
    <2> HIDE DEF bytes
    <2>5. msg \in Messages /\ msg.number = Short(b) /\ msg.bytes = bytes
      <3>1. Short(b) \in Nat
        BY <2>2, ShortFacts
      <3> QED
        BY <2>3, <3>1 DEF Messages
    <2> HIDE DEF msg
    <2>6. /\ Append(snapshots, msg) \in Seq(Messages)
          /\ \A i \in DOMAIN Append(snapshots, msg) :
                 \/ i \in DOMAIN snapshots /\ Append(snapshots, msg)[i] = snapshots[i]
                 \/ Append(snapshots, msg)[i] = msg
      BY <1>2, <2>5, Grow
    <2>7. 0 \in 0 .. Timeout + 1 /\ b + 1 \in Nat /\ b + 1 <= y.currentBlock
      BY <1>1, <2>2, DownloadAssumption
    <2>8. /\ xmitBlock' \in Nat /\ xmitBlock' <= y.currentBlock
          /\ idle' \in 0 .. Timeout + 1
      BY <2>1, <2>7
    <2>9. ASSUME NEW i \in DOMAIN snapshots'
          PROVE  \/ i \in DOMAIN snapshots /\ snapshots'[i] = snapshots[i]
                 \/ Tells(y, u, player.next, snapshots'[i])
      <3>1. CASE i \in DOMAIN snapshots /\ snapshots'[i] = snapshots[i]
        BY <3>1
      <3>2. CASE snapshots'[i] = msg
        BY <2>2, <2>4, <2>5, <3>2 DEF Tells
      <3> QED
        BY <2>1, <2>6, <3>1, <3>2
    <2> QED
      BY <2>1, <2>6, <2>8, <2>9
  <1> QED
    BY <1>4, <1>5

LEMMA SendStep ==
    ASSUME DownloadFields, NEW t \in Starts, Ok(t), ~Closed,
           NEW y \in Windows, NEW u \in Starts, Result(Carried, t, y, u), Keep(y), SendFrom(y), open' = TRUE, name' = name,
           readFailed' \in BOOLEAN, ~readFailed' => u[y.currentBlock] = y.count,
           UNCHANGED <<broken, svCvars, acks, player>>
    PROVE  DownloadFields' /\ Ok(u)'
  <1>1. /\ y.clientBlock = clientBlock /\ Holds(y, u)
        /\ currentBlock <= y.currentBlock
        /\ \A b \in 0 .. currentBlock : u[b] = t[b]
        /\ eof => y.eof /\ y.currentBlock = currentBlock
        /\ ~eof /\ y.eof => currentBlock < y.currentBlock
        /\ y.currentBlock \in Nat /\ clientBlock \in Nat /\ currentBlock \in Nat
    BY WindowTypes, CarriedFields DEF DownloadFields, Result, Ahead
  <1>2. /\ blocks' = y.blocks /\ count' = y.count /\ eof' = y.eof
        /\ clientBlock' = y.clientBlock /\ currentBlock' = y.currentBlock
    BY DEF Keep
  <1>3. /\ xmitBlock' \in Nat /\ xmitBlock' <= y.currentBlock
        /\ idle' \in 0 .. Timeout + 1 /\ snapshots' \in Seq(Messages)
        /\ \A i \in DOMAIN snapshots' :
              \/ i \in DOMAIN snapshots /\ snapshots'[i] = snapshots[i]
              \/ Tells(y, u, player.next, snapshots'[i])
    BY SendFacts
  <1>4. /\ Carried'.blocks = y.blocks /\ Carried'.count = y.count /\ Carried'.eof = y.eof
        /\ Carried'.clientBlock = y.clientBlock /\ Carried'.currentBlock = y.currentBlock
        /\ Carried'.xmitBlock = xmitBlock'
    BY <1>2 DEF Carried
  <1>5. Carried' \in Windows
    <2>1. /\ y.blocks \in [Indices -> Buffers] /\ y.count \in 0 .. Size
          /\ y.eof \in BOOLEAN /\ y.clientBlock \in Nat /\ y.currentBlock \in Nat
      BY WindowTypes
    <2> QED
      BY <1>2, <1>3, <2>1 DEF Carried, Windows, Buffers
  <1>6. Holds(Carried', u)
    BY <1>1, <1>3, <1>4 DEF Holds, IsBlockOf
  <1>7. /\ UNCHANGED <<broken, fast, allow, toggles, acks, player>>
    BY DEF svCvars
  <1>8. /\ eof' \in BOOLEAN /\ open' \in BOOLEAN
    BY <1>2, WindowTypes
  <1>9. DownloadFields'
    BY <1>3, <1>5, <1>7, <1>8, Zenon DEF DownloadFields
  <1>10. ASSUME NEW b \in Nat, NEW bytes, IsBlockOf(Carried, t, b, bytes)
         PROVE  IsBlockOf(Carried', u, b, bytes)
    <2>1. Carried.currentBlock = currentBlock /\ Carried.eof = eof
      BY DEF Carried
    <2>2. b < currentBlock /\ b \in 0 .. currentBlock /\ b + 1 \in 0 .. currentBlock
      BY <1>1, <1>10, <2>1 DEF IsBlockOf
    <2>3. u[b] = t[b] /\ u[b + 1] = t[b + 1] /\ b < y.currentBlock
      BY <1>1, <2>2
    <2> QED
      BY <1>1, <1>4, <1>10, <2>1, <2>3 DEF IsBlockOf, IsBlock
  <1>11. Truthful(u)'
    <2>1. ASSUME NEW i \in DOMAIN snapshots', snapshots'[i].kind = "block"
          PROVE  Tells(Carried', u, player.next, snapshots'[i])
      <3>1. CASE i \in DOMAIN snapshots /\ snapshots'[i] = snapshots[i]
        <4>1. Tells(Carried, t, player.next, snapshots[i])
          BY <2>1, <3>1 DEF Ok, Truthful
        <4> QED
          BY <1>10, <3>1, <4>1 DEF Tells
      <3>2. CASE Tells(y, u, player.next, snapshots'[i])
        BY <1>4, <3>2 DEF Tells, IsBlockOf
      <3> QED
        BY <1>3, <3>1, <3>2
    <2> QED
      BY <1>7, <2>1 DEF Truthful
  <1>12. Received(u)'
    <2>1. /\ clientBlock <= player.next /\ player.next <= currentBlock
          /\ Len(player.bytes) = t[player.next] /\ DeliveredInOrder
          /\ player.status = "done" <=> eof /\ player.next = currentBlock
          /\ player.next \in Nat
      BY DEF Ok, Received, DownloadFields, Downloaders
    <2>2. u[player.next] = t[player.next]
      BY <1>1, <2>1
    <2>3. eof \in BOOLEAN /\ y.eof \in BOOLEAN
      BY WindowTypes DEF DownloadFields
    <2>4. player.status = "done" <=> y.eof /\ player.next = y.currentBlock
      BY <1>1, <2>1, <2>3
    <2>5. player.next <= y.currentBlock
      BY <1>1, <2>1
    <2> QED
      BY <1>1, <1>2, <1>7, <2>1, <2>2, <2>4, <2>5 DEF Received, DeliveredInOrder
  <1>13. Acknowledging'
    BY <1>1, <1>2, <1>7 DEF Ok, Acknowledging, Closed
  <1>14. Unopened' /\ Whole(u)' /\ NeverBroken'
    BY <1>2, <1>7 DEF Ok, Unopened, Whole, NeverBroken
  <1> QED
    BY <1>6, <1>9, <1>11, <1>12, <1>13, <1>14 DEF Ok

LEMMA WriteDownloadStep ==
    ASSUME DownloadFields, NEW t \in Starts, Ok(t), WriteDownload
    PROVE  DownloadFields' /\ \E u \in Starts : Ok(u)'
  <1>1. ~Closed /\ UNCHANGED <<broken, svCvars, acks, player>>
    BY DEF WriteDownload, Ok, Acknowledging
  <1>2. CASE ~open /\ (~allow \/ name # "served")
    <2>1. WriteError /\ name # ""
      BY <1>2 DEF WriteDownload
    <2> QED
      BY <1>1, <1>2, <2>1, ErrorStep
  <1>3. CASE ~(~open /\ (~allow \/ name # "served"))
    <2> DEFINE w == IF open THEN Carried ELSE Freshly
    <2>1. w = Carried
      BY <1>1 DEF Ok, Unopened, Closed
    <2>2. /\ open' = TRUE /\ name' = name
          /\ \/ /\ Keep(AddEof(ReadAhead(w)[WindowSize]))
                /\ SendFrom(AddEof(ReadAhead(w)[WindowSize]))
                /\ UNCHANGED readFailed
             \/ \E k \in 0 .. WindowSize - 1 :
                    /\ MayRead(ReadAhead(w)[k])
                    /\ Keep(AddEof(ReadFails(ReadAhead(w)[k])))
                    /\ SendFrom(AddEof(ReadFails(ReadAhead(w)[k])))
                    /\ readFailed' = TRUE
      BY <1>3 DEF WriteDownload
    <2> HIDE DEF w
    <2>3. /\ Carried \in Windows /\ Holds(Carried, t) /\ readFailed \in BOOLEAN
          /\ ~readFailed => t[Carried.currentBlock] = Carried.count
      BY DEF DownloadFields, Ok, Whole, Carried
    <2>4. CASE /\ Keep(AddEof(ReadAhead(Carried)[WindowSize]))
               /\ SendFrom(AddEof(ReadAhead(Carried)[WindowSize]))
               /\ UNCHANGED readFailed
      <3> DEFINE y == AddEof(ReadAhead(Carried)[WindowSize])
      <3>1. PICK u \in Starts :
                /\ Result(Carried, t, y, u)
                /\ t[Carried.currentBlock] = Carried.count => u[y.currentBlock] = y.count
        BY <2>3, ReadWell
      <3> HIDE DEF y
      <3>2. y \in Windows
        BY <3>1 DEF Result, Ahead
      <3>3. Keep(y) /\ SendFrom(y)
        BY <2>4 DEF y
      <3> QED
        BY <1>1, <2>2, <2>3, <2>4, <3>1, <3>2, <3>3, SendStep
    <2>5. ASSUME NEW k \in 0 .. WindowSize - 1, MayRead(ReadAhead(Carried)[k]),
                 Keep(AddEof(ReadFails(ReadAhead(Carried)[k]))),
                 SendFrom(AddEof(ReadFails(ReadAhead(Carried)[k]))), readFailed' = TRUE
          PROVE  DownloadFields' /\ \E u \in Starts : Ok(u)'
      <3> DEFINE y == AddEof(ReadFails(ReadAhead(Carried)[k]))
      <3>1. PICK u \in Starts : Result(Carried, t, y, u)
        BY <2>3, <2>5, ReadBadly
      <3> HIDE DEF y
      <3>2. y \in Windows
        BY <3>1 DEF Result, Ahead
      <3>3. Keep(y) /\ SendFrom(y)
        BY <2>5 DEF y
      <3> QED
        BY <1>1, <2>2, <2>5, <3>1, <3>2, <3>3, SendStep
    <2> QED
      BY <2>1, <2>2, <2>4, <2>5
  <1> QED
    BY <1>2, <1>3

LEMMA NextDownloadStep ==
    ASSUME DownloadFields, NEW t \in Starts, Ok(t), NextDownload
    PROVE  DownloadFields' /\ Ok(t)'
  <1>1. /\ acks # <<>> /\ acks \in Seq(Nat) /\ ~Closed
        /\ clientBlock + Len(acks) = player.next
        /\ \A i \in DOMAIN acks : acks[i] = clientBlock + i - 1
    BY DEF NextDownload, DownloadFields, Ok, Acknowledging
  <1>2. /\ Tail(acks) \in Seq(Nat) /\ Head(acks) = acks[1] /\ 1 \in DOMAIN acks
        /\ Len(acks) \in Nat /\ Len(acks) >= 1 /\ Len(Tail(acks)) = Len(acks) - 1
        /\ \A i \in DOMAIN Tail(acks) : /\ i \in Int /\ i + 1 \in DOMAIN acks
                                       /\ Tail(acks)[i] = acks[i + 1]
        /\ Len(acks) = 1 => Tail(acks) = <<>>
    BY <1>1
  <1>3. /\ Carried \in Windows /\ Holds(Carried, t) /\ clientBlock \in Nat
        /\ currentBlock \in Nat /\ player.next \in Nat /\ player.next <= currentBlock
        /\ (player.status = "done" <=> eof /\ player.next = currentBlock)
    BY CarriedFields DEF DownloadFields, Ok, Received, Downloaders
  <1>4. Head(acks) = clientBlock
    BY SMTT(30), <1>1, <1>2, <1>3
  <1>5. clientBlock < player.next /\ clientBlock \in clientBlock .. currentBlock - 1
    BY <1>1, <1>2, <1>3
  <1> DEFINE bytes == blocks[clientBlock % WindowSize].bytes
  <1>6. /\ clientBlock < currentBlock /\ IsBlock(t, clientBlock, bytes)
        /\ bytes = <<>> => eof /\ clientBlock = currentBlock - 1
    BY <1>3, <1>5, CarriedFields DEF Holds, IsBlockOf
  <1>7. /\ UNCHANGED <<count, eof, currentBlock, xmitBlock, readFailed, fast, allow,
                      toggles, snapshots, player, broken>>
        /\ acks' = Tail(acks)
        /\ IF bytes = <<>>
           THEN /\ name' = "" /\ open' = FALSE
                /\ blocks' = [i \in Indices |-> NoBlock]
                /\ UNCHANGED <<clientBlock, idle>>
           ELSE /\ clientBlock' = clientBlock + 1
                /\ idle' = 0
                /\ UNCHANGED <<name, open, blocks>>
    BY <1>4 DEF NextDownload, svCvars
  <1> HIDE DEF bytes
  <1>8. /\ Carried'.count = Carried.count /\ Carried'.eof = Carried.eof
        /\ Carried'.currentBlock = Carried.currentBlock
        /\ Carried'.xmitBlock = Carried.xmitBlock
        /\ Carried'.clientBlock = clientBlock' /\ Carried'.blocks = blocks'
        /\ Carried.clientBlock = clientBlock /\ Carried.blocks = blocks
        /\ Carried.currentBlock = currentBlock /\ Carried.eof = eof
    BY <1>7 DEF Carried
  <1>9. Truthful(t)' /\ Whole(t)' /\ NeverBroken'
    BY <1>7, <1>8 DEF Ok, Truthful, Tells, Whole, NeverBroken, IsBlockOf
  <1>10. /\ blocks \in [Indices -> Buffers] /\ Carried.count \in 0 .. Size
         /\ Carried.eof \in BOOLEAN /\ Carried.currentBlock \in Nat
         /\ Carried.xmitBlock \in Nat
         /\ name \in Files \cup {""} /\ open \in BOOLEAN /\ idle \in 0 .. Timeout + 1
    BY <1>3, CarriedFields DEF DownloadFields
  <1>11. ASSUME clientBlock' \in Nat, blocks' \in [Indices -> Buffers]
         PROVE  Carried' \in Windows
    BY <1>7, <1>8, <1>10, <1>11 DEF Carried, Windows, Buffers
  <1>12. CASE bytes = <<>>
    <2>1. /\ name' = "" /\ open' = FALSE /\ blocks' = [i \in Indices |-> NoBlock]
          /\ UNCHANGED <<clientBlock, idle>>
      BY <1>7, <1>12
    <2>2. eof /\ clientBlock = currentBlock - 1 /\ Len(acks) = 1 /\ player.status = "done"
      BY <1>1, <1>2, <1>3, <1>6, <1>12
    <2>3. NoBlock \in Buffers /\ NoBlock.bytes = <<>> /\ Len(NoBlock.bytes) <= NoBlock.room
      BY DEF NoBlock, Buffers, Bytes
    <2>4. blocks' \in [Indices -> Buffers] /\ Carried' \in Windows
      BY <1>3, <1>11, <2>1, <2>3
    <2>5. DownloadFields'
      BY <1>2, <1>7, <1>10, <2>1, <2>4, Zenon DEF DownloadFields
    <2>6. \A j \in Indices : blocks'[j] = NoBlock
      BY <2>1
    <2>7. ASSUME NEW b \in clientBlock .. currentBlock - 1
          PROVE  IsBlockOf(Carried', t, b, blocks'[b % WindowSize].bytes)
      <3>1. b = clientBlock
        BY <1>3, <2>2
      <3>2. blocks'[b % WindowSize].bytes = <<>>
        BY <1>3, <2>3, <2>6, <3>1, InWindow
      <3> QED
        BY <1>6, <1>8, <1>12, <2>2, <3>1, <3>2 DEF IsBlockOf
    <2>8. Holds(Carried', t)
      BY <1>3, <1>8, <2>1, <2>3, <2>6, <2>7 DEF Holds
    <2>9. Received(t)' /\ Unopened' /\ Acknowledging'
      BY <1>2, <1>7, <2>1, <2>2
         DEF Ok, Received, DeliveredInOrder, Unopened, Acknowledging, Closed
    <2> QED
      BY <1>9, <2>5, <2>8, <2>9 DEF Ok
  <1>13. CASE bytes # <<>>
    <2>1. /\ clientBlock' = clientBlock + 1 /\ idle' = 0 /\ UNCHANGED <<name, open, blocks>>
      BY <1>7, <1>13
    <2>2. clientBlock' \in Nat /\ Carried' \in Windows /\ idle' \in 0 .. Timeout + 1
      <3>1. clientBlock \in Nat /\ clientBlock' = clientBlock + 1
        BY <1>3, <2>1
      <3>2. clientBlock' \in Nat
        BY <3>1
      <3>3. blocks' \in [Indices -> Buffers]
        BY <1>10, <2>1, Zenon
      <3>4. idle' \in 0 .. Timeout + 1
        BY <2>1, DownloadAssumption
      <3> QED
        BY <1>11, <3>2, <3>3, <3>4
    <2>3. DownloadFields'
      BY <1>2, <1>7, <1>10, <2>1, <2>2, Zenon DEF DownloadFields
    <2>4. ASSUME NEW b \in clientBlock + 1 .. currentBlock - 1
          PROVE  IsBlockOf(Carried', t, b, blocks[b % WindowSize].bytes)
      <3>1. b \in clientBlock .. currentBlock - 1
        BY <1>3
      <3>2. IsBlockOf(Carried, t, b, blocks[b % WindowSize].bytes)
        BY <1>3, <1>8, <3>1 DEF Holds
      <3> QED
        BY <1>8, <3>2 DEF IsBlockOf
    <2>5. clientBlock + 1 <= currentBlock /\ currentBlock - (clientBlock + 1) <= WindowSize
      BY <1>3, <1>6, <1>8, DownloadAssumption DEF Holds
    <2>6. Holds(Carried', t)
      BY <1>3, <1>8, <2>1, <2>4, <2>5 DEF Holds
    <2>7. Received(t)'
      <3>1. /\ Len(player.bytes) = t[player.next] /\ DeliveredInOrder
            /\ player.status = "done" <=> eof /\ player.next = currentBlock
        BY DEF Ok, Received
      <3>2. clientBlock + 1 <= player.next
        BY <1>3, <1>5
      <3> QED
        BY <1>3, <1>7, <2>1, <3>1, <3>2 DEF Received, DeliveredInOrder
    <2>8. Acknowledging'
      <3>1. ~Closed' /\ player' = player
        BY <1>1, <1>7, <2>1 DEF Closed
      <3>2. clientBlock + 1 + Len(Tail(acks)) = player.next
        BY <1>1, <1>2, <1>3
      <3>3. \A i \in DOMAIN Tail(acks) : Tail(acks)[i] = clientBlock + 1 + i - 1
        BY <1>1, <1>2, <1>3
      <3> QED
        BY <1>7, <2>1, <3>1, <3>2, <3>3 DEF Acknowledging
    <2>9. Unopened'
      <3>1. Freshly.currentBlock = 0
        BY DEF Freshly
      <3>2. Carried # Freshly
        BY <1>3, <1>6, <1>8, <3>1
      <3>3. open
        BY <1>1, <3>2 DEF Ok, Unopened, Closed
      <3> QED
        BY <2>1, <3>3 DEF Unopened
    <2> QED
      BY <1>9, <2>3, <2>6, <2>7, <2>8, <2>9 DEF Ok
  <1> QED
    BY <1>12, <1>13

(* The client takes the block it expects, which is the next of the file.   *)
LEMMA TakeStep ==
    ASSUME DownloadFields, NEW t \in Starts, Ok(t), player.status = "loading",
           NEW bytes \in Bytes, IsBlockOf(Carried, t, player.next, bytes),
           UNCHANGED <<server, svCvars>>, snapshots' \in Seq(Messages), Truthful(t)',
           acks' = Append(acks, player.next),
           player' = [status |-> IF bytes = <<>> THEN "done" ELSE "loading",
                      next |-> player.next + 1, bytes |-> player.bytes \o bytes]
    PROVE  DownloadFields' /\ Ok(t)'
  <1>1. /\ Carried' = Carried
        /\ UNCHANGED <<name, open, eof, idle, readFailed, broken, fast, allow, toggles,
                       clientBlock, currentBlock, count>>
    BY SameWindow DEF server, svCvars
  <1>2. /\ player.next \in Nat /\ player.bytes \in Bytes /\ acks \in Seq(Nat)
        /\ clientBlock <= player.next /\ player.next <= currentBlock
        /\ Len(player.bytes) = t[player.next] /\ DeliveredInOrder
        /\ Carried.currentBlock = currentBlock /\ Carried.eof = eof
        /\ clientBlock \in Nat /\ currentBlock \in Nat /\ Carried.count \in 0 .. Size
    BY CarriedFields DEF DownloadFields, Ok, Received, Downloaders
  <1>3. /\ player.next < currentBlock /\ IsBlock(t, player.next, bytes)
        /\ bytes = <<>> => eof /\ player.next = currentBlock - 1
    BY <1>2 DEF IsBlockOf
  <1>4. t[player.next] \in Nat /\ t[player.next + 1] \in Nat
    <2>1. player.next + 1 \in Nat
      BY <1>2
    <2>2. \A b \in Nat : t[b] \in 0 .. Size
      BY DEF Starts
    <2>3. 0 .. Size \subseteq Nat
      OBVIOUS
    <2>4. player.next \in Nat
      BY <1>2
    <2>5. t[player.next] \in Nat
      BY ONLY <2>2, <2>3, <2>4
    <2>6. t[player.next + 1] \in Nat
      BY ONLY <2>1, <2>2, <2>3
    <2> QED
      BY <2>5, <2>6
  <1>5. /\ player'.next = player.next + 1 /\ player'.bytes = player.bytes \o bytes
        /\ player'.status = IF bytes = <<>> THEN "done" ELSE "loading"
    OBVIOUS
  <1>6. /\ player.bytes \o bytes \in Bytes
        /\ Len(player.bytes \o bytes) = t[player.next + 1]
        /\ \A i \in DOMAIN (player.bytes \o bytes) : (player.bytes \o bytes)[i] = i - 1
    <2> DEFINE B == 0 .. Size - 1
    <2>0. player.bytes \in Seq(B) /\ bytes \in Seq(B) /\ Bytes = Seq(B)
      BY <1>2 DEF Bytes
    <2> HIDE DEF B
    <2>1. /\ player.bytes \o bytes \in Bytes
          /\ Len(player.bytes \o bytes) = Len(player.bytes) + Len(bytes)
          /\ Len(player.bytes) \in Nat /\ Len(bytes) \in Nat
          /\ DOMAIN player.bytes = 1 .. Len(player.bytes) /\ DOMAIN bytes = 1 .. Len(bytes)
          /\ DOMAIN (player.bytes \o bytes) = 1 .. Len(player.bytes) + Len(bytes)
          /\ \A i \in 1 .. Len(player.bytes) + Len(bytes) :
                (player.bytes \o bytes)[i] = IF i <= Len(player.bytes) THEN player.bytes[i]
                                            ELSE bytes[i - Len(player.bytes)]
      BY <2>0, Concat
    <2>2. Len(bytes) = t[player.next + 1] - t[player.next]
      BY <1>3 DEF IsBlock
    <2>3. ASSUME NEW i \in 1 .. Len(player.bytes) + Len(bytes)
          PROVE  (player.bytes \o bytes)[i] = i - 1
      <3>1. CASE i <= Len(player.bytes)
        <4>1. i \in DOMAIN player.bytes
          BY <2>1, <3>1
        <4> QED
          BY <1>2, <2>1, <3>1, <4>1 DEF DeliveredInOrder
      <3>2. CASE i > Len(player.bytes)
        <4>1. i - Len(player.bytes) \in DOMAIN bytes
          BY <2>1, <3>2
        <4>2. bytes[i - Len(player.bytes)] = t[player.next] + (i - Len(player.bytes)) - 1
          BY <1>3, <4>1 DEF IsBlock
        <4>3. (player.bytes \o bytes)[i] = bytes[i - Len(player.bytes)]
          BY <2>1, <3>2
        <4> QED
          BY SMTT(30), <1>2, <1>4, <2>1, <4>2, <4>3
      <3> QED
        BY <2>1, <3>1, <3>2
    <2>4. Len(player.bytes \o bytes) = t[player.next + 1]
      BY <1>2, <1>4, <2>1, <2>2
    <2> QED
      BY <2>1, <2>3, <2>4
  <1>7. player'.status = "done" <=> eof /\ player.next + 1 = currentBlock
    <2>1. ASSUME eof, player.next + 1 = currentBlock
          PROVE  bytes = <<>>
      <3>1. currentBlock - 1 = player.next
        BY <1>2, <2>1
      <3>2. t[currentBlock] = t[player.next]
        BY <1>2, <2>1, <3>1 DEF Ok, Holds
      <3>3. Len(bytes) = 0
        BY <1>3, <1>4, <2>1, <3>2 DEF IsBlock
      <3> QED
        BY <3>3 DEF Bytes
    <2>2. player'.status = "done" <=> bytes = <<>>
      BY <1>5
    <2> QED
      BY <1>2, <1>3, <2>1, <2>2
  <1>8. player' \in Downloaders
    BY <1>2, <1>6 DEF Downloaders
  <1>9. /\ acks' \in Seq(Nat) /\ Len(acks') = Len(acks) + 1 /\ Len(acks) \in Nat
        /\ \A i \in DOMAIN acks' :
              \/ i \in DOMAIN acks /\ acks'[i] = acks[i]
              \/ i = Len(acks) + 1 /\ acks'[i] = player.next
    <2> DEFINE a == Append(acks, player.next)
    <2>1. /\ a \in Seq(Nat) /\ Len(a) = Len(acks) + 1 /\ Len(acks) \in Nat
          /\ \A i \in DOMAIN a :
                \/ i \in DOMAIN acks /\ a[i] = acks[i]
                \/ i = Len(acks) + 1 /\ a[i] = player.next
      BY <1>2, Grow
    <2>2. acks' = a
      OBVIOUS
    <2> HIDE DEF a
    <2> QED
      BY <2>1, <2>2
  <1>10. DownloadFields'
    BY <1>1, <1>8, <1>9, Zenon DEF DownloadFields
  <1>11. Received(t)'
    <2>1. clientBlock <= player.next + 1 /\ player.next + 1 <= currentBlock
      BY <1>2, <1>3
    <2> QED
      BY <1>1, <1>5, <1>6, <1>7, <2>1 DEF Received, DeliveredInOrder
  <1>12. open
    <2>1. Freshly.currentBlock = 0
      BY DEF Freshly
    <2>2. Carried # Freshly
      BY <1>2, <1>3, <2>1
    <2> QED
      BY <2>2 DEF Ok, Unopened
  <1>13. Acknowledging'
    <2>1. ~Closed /\ ~Closed'
      BY <1>1, <1>12 DEF Closed
    <2>2. /\ clientBlock + Len(acks) = player.next
          /\ \A i \in DOMAIN acks : acks[i] = clientBlock + i - 1
      BY <2>1 DEF Ok, Acknowledging
    <2>3. clientBlock + Len(acks') = player.next + 1
      BY <1>2, <1>9, <2>2
    <2>4. \A i \in DOMAIN acks' : acks'[i] = clientBlock + i - 1
      <3>1. \A n \in Nat : clientBlock + n = player.next =>
                              player.next = clientBlock + (n + 1) - 1
        BY <1>2
      <3>2. player.next = clientBlock + (Len(acks) + 1) - 1
        BY <1>9, <2>2, <3>1
      <3> QED
        BY <1>9, <2>2, <3>2
    <2> QED
      BY <1>1, <1>5, <2>1, <2>3, <2>4 DEF Acknowledging
  <1>14. Holds(Carried, t)' /\ Unopened' /\ Whole(t)' /\ NeverBroken'
    BY <1>1, <1>12 DEF Ok, Unopened, Whole, NeverBroken
  <1> QED
    BY <1>10, <1>11, <1>13, <1>14 DEF Ok

(* Of the blocks not acknowledged no two have the same number, so the one  *)
(* with the number the client waits for is the one it waits for.           *)
LEMMA NumberTells ==
    ASSUME DownloadFields, NEW t \in Starts, Ok(t),
           NEW s, Tells(Carried, t, player.next, s), s.number = player.next
    PROVE  IsBlockOf(Carried, t, player.next, s.bytes)
  <1>1. PICK b \in Nat : /\ s.number = Short(b)
                         /\ b < player.next \/ IsBlockOf(Carried, t, b, s.bytes)
    BY DEF Tells
  <1>2. /\ player.next \in Nat /\ clientBlock \in Nat /\ currentBlock \in Nat
        /\ clientBlock <= player.next /\ currentBlock - clientBlock <= WindowSize
        /\ Carried.currentBlock = currentBlock
        /\ WindowSize \in Nat /\ BlockNumbers \in Nat /\ WindowSize <= BlockNumbers
    BY CarriedFields, DownloadAssumption
       DEF DownloadFields, Ok, Received, Holds, Downloaders
  <1>3. /\ Short(b) <= b /\ Short(b) < BlockNumbers
        /\ Short(b) # b => b >= Short(b) + BlockNumbers
    BY ShortFacts
  <1>4. Short(b) \in Nat
    BY ShortFacts
  <1>5. IsBlockOf(Carried, t, b, s.bytes)
    BY <1>1, <1>2, <1>3, <1>4
  <1>6. b < currentBlock
    BY <1>2, <1>5 DEF IsBlockOf
  <1>7. b = player.next
    BY <1>1, <1>2, <1>3, <1>4, <1>6
  <1> QED
    BY <1>5, <1>7

LEMMA ReceiveStep ==
    ASSUME DownloadFields, NEW t \in Starts, Ok(t), Receive
    PROVE  DownloadFields' /\ Ok(t)'
  <1> DEFINE msg == Head(snapshots)
  <1>1. /\ Carried' = Carried /\ UNCHANGED <<server, svCvars>>
        /\ snapshots # <<>> /\ snapshots' = Tail(snapshots)
        /\ snapshots \in Seq(Messages) /\ player \in Downloaders /\ acks \in Seq(Nat)
    BY SameWindow DEF Receive, server, DownloadFields
  <1>2. /\ snapshots' \in Seq(Messages) /\ msg \in Messages
        /\ 1 \in DOMAIN snapshots /\ msg = snapshots[1]
        /\ \A i \in DOMAIN snapshots' :
              i + 1 \in DOMAIN snapshots /\ snapshots'[i] = snapshots[i + 1]
    BY <1>1, Shift
  <1>3. /\ msg.kind \in {"error", "block"}
        /\ msg.kind # "error" =>
              msg.kind = "block" /\ msg.number \in Nat /\ msg.bytes \in Bytes
    BY <1>2 DEF Messages
  <1>4. \/ UNCHANGED <<player, acks>>
        \/ /\ player.status = "loading" /\ UNCHANGED acks
           /\ player' = [player EXCEPT !.status = "error"]
        \/ /\ player.status = "loading" /\ msg.kind # "error" /\ msg.number = player.next
           /\ acks' = Append(acks, player.next)
           /\ player' = [status |-> IF msg.bytes = <<>> THEN "done" ELSE "loading",
                         next |-> player.next + 1, bytes |-> player.bytes \o msg.bytes]
    BY DEF Receive
  <1>5. /\ player.next \in Nat
        /\ \A i \in DOMAIN snapshots :
              snapshots[i].kind = "block" =>
                 Tells(Carried, t, player.next, snapshots[i])
    BY <1>1 DEF Ok, Truthful, Downloaders
  <1> HIDE DEF msg
  <1>6. ASSUME player'.next \in {player.next, player.next + 1}
        PROVE  Truthful(t)'
    <2>1. ASSUME NEW x, Tells(Carried, t, player.next, x)
          PROVE  Tells(Carried', t, player'.next, x)
      <3>1. PICK b \in Nat : /\ x.number = Short(b)
                             /\ b < player.next \/ IsBlockOf(Carried, t, b, x.bytes)
        BY <2>1 DEF Tells
      <3>2. b < player'.next \/ IsBlockOf(Carried', t, b, x.bytes)
        BY <1>1, <1>5, <1>6, <3>1
      <3> QED
        BY <3>1, <3>2 DEF Tells
    <2>2. \A i \in DOMAIN snapshots' :
             snapshots'[i].kind = "block" =>
                Tells(Carried', t, player'.next, snapshots'[i])
      BY <1>2, <1>5, <2>1
    <2> QED
      BY <2>2 DEF Truthful
  <1>7. CASE UNCHANGED <<player, acks>>
    <2>1. DownloadFields'
      BY <1>1, <1>2, <1>7, Zenon DEF DownloadFields, server, svCvars
    <2> QED
      BY <1>1, <1>6, <1>7, <2>1
         DEF Ok, Received, DeliveredInOrder, Unopened, Freshly, Whole, NeverBroken,
             Acknowledging, Closed, server
  <1>8. CASE /\ player.status = "loading" /\ UNCHANGED acks
             /\ player' = [player EXCEPT !.status = "error"]
    <2>1. /\ player' \in Downloaders /\ player'.status = "error"
          /\ player'.next = player.next /\ player'.bytes = player.bytes
      BY <1>1, <1>8 DEF Downloaders
    <2>2. DownloadFields'
      BY <1>1, <1>2, <1>8, <2>1, Zenon DEF DownloadFields, server, svCvars
    <2>3. Received(t)' /\ Acknowledging' /\ Unopened'
      BY <1>1, <1>8, <2>1
         DEF Ok, Received, DeliveredInOrder, Unopened, Freshly, Acknowledging, Closed,
             server
    <2> QED
      BY <1>1, <1>6, <2>1, <2>2, <2>3 DEF Ok, Whole, NeverBroken, server
  <1>9. CASE /\ player.status = "loading" /\ msg.kind # "error" /\ msg.number = player.next
             /\ acks' = Append(acks, player.next)
             /\ player' = [status |-> IF msg.bytes = <<>> THEN "done" ELSE "loading",
                           next |-> player.next + 1, bytes |-> player.bytes \o msg.bytes]
    <2>1. msg.bytes \in Bytes /\ IsBlockOf(Carried, t, player.next, msg.bytes)
      <3>1. msg.bytes \in Bytes /\ Tells(Carried, t, player.next, msg)
        BY <1>2, <1>3, <1>5, <1>9
      <3> QED
        BY <1>9, <3>1, NumberTells
    <2>2. Truthful(t)'
      BY <1>6, <1>9
    <2> QED
      BY <1>1, <1>2, <1>9, <2>1, <2>2, TakeStep
  <1> QED
    BY <1>4, <1>7, <1>8, <1>9

----------------------------------------------------------------------------
(* Together. *)
DownloadInv == DownloadFields /\ \E start \in Starts : Ok(start)

LEMMA InitDownload == DownloadInit => DownloadInv
  <1> SUFFICES ASSUME DownloadInit PROVE DownloadInv
    OBVIOUS
  <1> DEFINE start == [b \in Nat |-> 0]
  <1>1. /\ Size \in Nat \ {0} /\ WindowSize \in Nat \ {0} /\ Timeout \in Nat
        /\ MaxToggles \in Nat /\ BlkSizeFast \in Nat
    BY DownloadAssumption
  <1>2. start \in Starts /\ start[0] = 0
    BY <1>1 DEF Starts
  <1>3. <<>> \in Bytes /\ Len(<<>>) = 0 /\ <<>> \in Seq(Messages) /\ <<>> \in Seq(Nat)
    BY DEF Bytes
  <1>4. NoBlock \in [room : {0, BlkSizeFast}, bytes : Bytes]
    BY <1>3 DEF NoBlock
  <1> HIDE DEF start
  <1>5. /\ blocks = [i \in Indices |-> NoBlock] /\ count = 0 /\ eof = FALSE
        /\ clientBlock = 0 /\ currentBlock = 0 /\ xmitBlock = 0
        /\ name = "" /\ open = FALSE /\ idle = 0 /\ readFailed = FALSE /\ broken = FALSE
        /\ fast \in BOOLEAN /\ allow = TRUE /\ toggles = 0
        /\ snapshots = <<>> /\ acks = <<>>
        /\ player = [status |-> "idle", next |-> 0, bytes |-> <<>>]
    BY DEF DownloadInit
  <1>6. Carried = Freshly
    BY <1>5 DEF Carried, Freshly
  <1>7. Carried \in Windows
    <2>1. blocks \in [Indices -> [room : {0, BlkSizeFast}, bytes : Bytes]]
      BY <1>4, <1>5, Zenon
    <2>2. 0 \in 0 .. Size
      BY <1>1
    <2> QED
      BY <1>5, <2>1, <2>2 DEF Carried, Windows
  <1>8. player \in Downloaders
    BY <1>3, <1>5 DEF Downloaders
  <1>9. DownloadFields
    <2>1. 0 \in 0 .. Timeout + 1 /\ 0 \in 0 .. MaxToggles
      BY <1>1
    <2> QED
      BY <1>3, <1>5, <1>7, <1>8, <2>1, Zenon DEF DownloadFields
  <1>10. Holds(Carried, start)
    <2>1. \A i \in Indices : blocks[i] = NoBlock
      BY <1>5
    <2>2. \A i \in Indices : Len(blocks[i].bytes) <= blocks[i].room
      BY <1>3, <2>1 DEF NoBlock
    <2>3. /\ Carried.blocks = blocks /\ Carried.count = 0 /\ Carried.eof = FALSE
          /\ Carried.clientBlock = 0 /\ Carried.currentBlock = 0 /\ Carried.xmitBlock = 0
      BY <1>5 DEF Carried
    <2> QED
      BY <1>1, <1>2, <2>2, <2>3 DEF Holds
  <1>11. /\ player.status = "idle" /\ player.next = 0 /\ player.bytes = <<>>
         /\ clientBlock = 0 /\ currentBlock = 0 /\ Len(<<>>) = 0
         /\ acks = <<>> /\ snapshots = <<>> /\ DOMAIN <<>> = {} /\ ~eof
    <2>1. DOMAIN <<>> = {} /\ Len(<<>>) = 0
      OBVIOUS
    <2>2. /\ acks = <<>> /\ snapshots = <<>> /\ clientBlock = 0 /\ currentBlock = 0
          /\ ~eof /\ player = [status |-> "idle", next |-> 0, bytes |-> <<>>]
      BY <1>5, Zenon
    <2> QED
      BY <2>1, <2>2
  <1>12. Received(start)
    <2>1. DeliveredInOrder
      BY <1>11 DEF DeliveredInOrder
    <2> QED
      BY <1>2, <1>11, <2>1 DEF Received
  <1>13. Acknowledging
    <2>1. \A i \in DOMAIN acks : acks[i] = clientBlock + i - 1
      BY <1>11
    <2> QED
      BY <1>11, <2>1 DEF Acknowledging, Closed
  <1>14. Truthful(start)
    <2>1. \A i \in DOMAIN snapshots : FALSE
      BY <1>11
    <2> QED
      BY <2>1 DEF Truthful
  <1>15. Unopened /\ Whole(start) /\ NeverBroken
    BY <1>2, <1>5, <1>6 DEF Unopened, Whole, NeverBroken
  <1> QED
    BY <1>2, <1>9, <1>10, <1>12, <1>13, <1>14, <1>15 DEF Ok, DownloadInv

LEMMA StepDownload == DownloadInv /\ [DownloadNext]_downloadVars => DownloadInv'
  <1> SUFFICES ASSUME DownloadInv, [DownloadNext]_downloadVars PROVE DownloadInv'
    OBVIOUS
  <1>1. DownloadFields
    BY DEF DownloadInv
  <1>2. PICK t \in Starts : Ok(t)
    BY DEF DownloadInv
  <1>3. CASE WriteDownload
    BY <1>1, <1>2, <1>3, WriteDownloadStep DEF DownloadInv
  <1>4. CASE BeginDownload
    BY <1>1, <1>2, <1>4, BeginDownloadStep DEF DownloadInv
  <1>5. CASE NextDownload
    BY <1>1, <1>2, <1>5, NextDownloadStep DEF DownloadInv
  <1>6. CASE Receive
    BY <1>1, <1>2, <1>6, ReceiveStep DEF DownloadInv
  <1>7. CASE LoseSnapshot
    BY <1>1, <1>2, <1>7, LoseSnapshotStep DEF DownloadInv
  <1>8. CASE Tick \/ Toggle
    BY <1>1, <1>2, <1>8, TimeStep DEF DownloadInv
  <1>9. CASE UNCHANGED downloadVars
    <2>1. DownloadFields'
      BY <1>1, <1>9 DEF DownloadFields, Carried, downloadVars, server, svCvars
    <2>2. Ok(t)'
      BY <1>2, <1>9
         DEF Ok, Carried, Truthful, Received, DeliveredInOrder, Acknowledging, Closed,
             Unopened, Freshly, Whole, NeverBroken, downloadVars, server
    <2> QED
      BY <1>2, <2>1, <2>2 DEF DownloadInv
  <1> QED
    BY <1>3, <1>4, <1>5, <1>6, <1>7, <1>8, <1>9 DEF DownloadNext

(* The blocks under way are the file's, cut where the block size of the    *)
(* moment cut them, and the window holds those that are not acknowledged.  *)
THEOREM DownloadInductive == DownloadSpec => []DownloadInv
  <1> QED
    BY InitDownload, StepDownload, PTL DEF DownloadSpec

LEMMA Consequences ==
    ASSUME DownloadInv
    PROVE  /\ DownloadTypeOK /\ DeliveredInOrder /\ CompleteIsWhole
           /\ BuffersFit /\ NeverBroken
  <1>1. PICK t \in Starts : Ok(t)
    BY DEF DownloadInv
  <1>2. DownloadFields
    BY DEF DownloadInv
  <1>3. DeliveredInOrder /\ NeverBroken
    BY <1>1 DEF Ok, Received
  <1>4. /\ blocks \in [Indices -> Buffers] /\ count \in 0 .. Size /\ eof \in BOOLEAN
        /\ clientBlock \in Nat /\ currentBlock \in Nat /\ xmitBlock \in Nat
        /\ Carried.blocks = blocks
    BY <1>2, CarriedFields DEF DownloadFields
  <1>5. BuffersFit
    BY <1>1, <1>4 DEF Ok, Holds, BuffersFit
  <1>6. CompleteIsWhole
    <2>1. SUFFICES ASSUME player.status = "done", ~readFailed PROVE Len(player.bytes) = Size
      BY DEF CompleteIsWhole
    <2>2. eof /\ player.next = currentBlock /\ Len(player.bytes) = t[player.next]
      BY <1>1, <2>1 DEF Ok, Received
    <2>3. t[currentBlock] = count /\ count = Size
      BY <1>1, <2>1, <2>2 DEF Ok, Whole, Holds, Carried
    <2> QED
      BY <2>2, <2>3
  <1>7. DownloadTypeOK
    <2>1. /\ name \in Files \cup {""} /\ idle \in 0 .. Timeout + 1
          /\ toggles \in 0 .. MaxToggles /\ acks \in Seq(Nat)
          /\ open \in BOOLEAN /\ readFailed \in BOOLEAN /\ broken \in BOOLEAN
          /\ fast \in BOOLEAN /\ allow \in BOOLEAN
      BY <1>2 DEF DownloadFields
    <2>2. \A i \in DOMAIN snapshots : snapshots[i].kind \in {"error", "block"}
      <3>1. \A x \in Messages : x.kind \in {"error", "block"}
        BY DEF Messages
      <3>2. snapshots \in Seq(Messages)
        BY <1>2 DEF DownloadFields
      <3> QED
        BY <3>1, <3>2
    <2>3. /\ player.status \in {"idle", "loading", "done", "error"}
          /\ player.next \in Nat /\ player.bytes \in Bytes
      BY <1>2 DEF DownloadFields, Downloaders
    <2>4. {open, eof, readFailed, broken, fast, allow} \subseteq BOOLEAN
      BY <1>4, <2>1, Zenon
    <2> QED
      BY <1>4, <2>1, <2>2, <2>3, <2>4 DEF DownloadTypeOK, Buffers
  <1> QED
    BY <1>3, <1>5, <1>6, <1>7

(* The fields of client_t have the values the C types give them. *)
THEOREM DownloadTypes == DownloadSpec => []DownloadTypeOK
  <1> QED
    BY DownloadInductive, Consequences, PTL

(* The client has a beginning of the file. *)
THEOREM BeginningOfTheFile == DownloadSpec => []DeliveredInOrder
  <1> QED
    BY DownloadInductive, Consequences, PTL

(* A download that ended well ended with the whole file. *)
THEOREM WholeFile == DownloadSpec => []CompleteIsWhole
  <1> QED
    BY DownloadInductive, Consequences, PTL

(* No block exceeds its buffer. *)
THEOREM NoOverrun == DownloadSpec => []BuffersFit
  <1> QED
    BY DownloadInductive, Consequences, PTL

(* The acknowledgement the server gets is the one it waits for. *)
THEOREM NotDropped == DownloadSpec => []NeverBroken
  <1> QED
    BY DownloadInductive, Consequences, PTL

----------------------------------------------------------------------------
(* His sprint. *)
USE SprintAssumption, WindowAssumption DEF SprintAssumption, WindowAssumption

(* The timer of a frame that does not sprint. *)
LEMMA RecoveredFacts ==
    ASSUME sprintTimer \in 0 .. MaxTime + MaxMsec, NEW msec \in Msecs
    PROVE  /\ Recovered(msec) \in 0 .. MaxTime + MaxMsec
           /\ Recovered(msec) <= sprintTimer
           /\ sprintTimer <= Recovered(msec) + msec
  BY DEF Recovered

(* The Boolean part of the invariant. *)
Flags == /\ sprintActive \in BOOLEAN /\ sprintRequestPending \in BOOLEAN
         /\ player_sprint \in BOOLEAN /\ steady \in BOOLEAN
         /\ OneOrTheOther

(* Its other part: what is said of times. *)
Times == /\ sprintTimer \in 0 .. MaxTime + MaxMsec
         /\ player_sprintTime \in SprintTimes
         /\ player_sprintMinTime \in MinTimes
         /\ used \in Nat /\ rested \in Nat /\ lasted \in Nat
         /\ Running /\ Potential /\ Started

LEMMA Parts == Flags /\ Times <=> SprintIInv
  BY Zenon DEF Flags, Times, SprintIInv, SprintTypeOK

LEMMA FrameKeepsFlags ==
    ASSUME Flags,
           NEW forward \in BOOLEAN, NEW low \in BOOLEAN, NEW air \in BOOLEAN,
           NEW msec \in Msecs, WFrame(forward, low, air, msec)
    PROVE  Flags'
  <1> USE DEF Flags, OneOrTheOther, cvars
  <1>1. steady' \in BOOLEAN
    BY Zenon DEF WFrame
  <1>2. CASE FrameSwitchedOff
    BY <1>1, <1>2, Zenon DEF FrameSwitchedOff
  <1>3. CASE FrameTakesBack(forward)
    BY <1>1, <1>3, Zenon DEF FrameTakesBack
  <1>4. CASE FrameWaitsToStand(forward, low)
    BY <1>1, <1>4, Zenon DEF FrameWaitsToStand, sprintVars, state
  <1>5. CASE FrameWaitsToLand(forward, low, air, msec)
    BY <1>1, <1>5, Zenon DEF FrameWaitsToLand
  <1>6. CASE FrameDecides(forward, low, air, msec)
    <2>1. EnoughLeft(Recovered(msec)) \in BOOLEAN
      BY SMT DEF EnoughLeft
    <2> QED
      BY <1>1, <1>6, <2>1, Zenon DEF FrameDecides
  <1>7. CASE FrameSprints(forward, low, msec)
    BY <1>1, <1>7, Zenon DEF FrameSprints
  <1>8. CASE FrameRests(msec)
    BY <1>1, <1>8, Zenon DEF FrameRests
  <1> QED
    BY <1>2, <1>3, <1>4, <1>5, <1>6, <1>7, <1>8, Zenon DEF WFrame, PM_UpdateSprint

(* What the code does in a frame keeps the times right: each step is one   *)
(* way through PM_UpdateSprint.                                            *)
LEMMA FrameKeepsTimes ==
    ASSUME Flags, Times,
           NEW forward \in BOOLEAN, NEW low \in BOOLEAN, NEW air \in BOOLEAN,
           NEW msec \in Msecs, WFrame(forward, low, air, msec)
    PROVE  Times'
  <1> USE DEF Flags, Times, OneOrTheOther, Running, Potential, Started, cvars
  <1>1. msec \in 1 .. MaxMsec
    OBVIOUS
  <1>2. CASE FrameSwitchedOff
    BY <1>2 DEF FrameSwitchedOff, WFrame
  <1>3. CASE FrameTakesBack(forward)
    BY <1>3 DEF FrameTakesBack, WFrame
  <1>4. CASE FrameWaitsToStand(forward, low)
    BY <1>4 DEF FrameWaitsToStand, WFrame, sprintVars, state
  <1>5. CASE FrameWaitsToLand(forward, low, air, msec)
    BY <1>5, RecoveredFacts DEF FrameWaitsToLand, WFrame
  <1>6. CASE FrameDecides(forward, low, air, msec)
    BY <1>6, RecoveredFacts DEF FrameDecides, EnoughLeft, WFrame
  <1>7. CASE FrameSprints(forward, low, msec)
    BY <1>7 DEF FrameSprints, WFrame
  <1>8. CASE FrameRests(msec)
    BY <1>8, RecoveredFacts DEF FrameRests, WFrame
  <1> QED
    BY <1>2, <1>3, <1>4, <1>5, <1>6, <1>7, <1>8 DEF WFrame, PM_UpdateSprint

LEMMA NextKeepsFlags ==
    ASSUME Flags, [WNext]_wvars
    PROVE  Flags'
  <1> USE DEF Flags, OneOrTheOther, cvars
  <1>1. CASE OpenWindow
    BY <1>1, Zenon DEF OpenWindow, sprintVars, state
  <1>2. CASE WSpawn
    BY <1>2, Zenon DEF WSpawn, Spawn, Reset
  <1>3. CASE WCommand
    <2>1. CASE Command
      <3>1. sprintRequestPending' \in BOOLEAN
        BY <2>1 DEF Command
      <3> QED
        BY <1>3, <2>1, <3>1, Zenon DEF WCommand, Command
    <2>2. CASE CommandRefused
      BY <1>3, <2>2, Zenon DEF WCommand, CommandRefused, sprintVars, state
    <2> QED
      BY <1>3, <2>1, <2>2 DEF WCommand
  <1>4. CASE WSetCvar
    BY <1>4, Zenon DEF WSetCvar, SetCvar, state
  <1>5. CASE \E forward, low, air \in BOOLEAN, msec \in Msecs :
                WFrame(forward, low, air, msec)
    BY <1>5, FrameKeepsFlags, Zenon
  <1>6. CASE UNCHANGED wvars
    BY <1>6, Zenon DEF wvars, sprintVars, state
  <1> QED
    BY <1>1, <1>2, <1>3, <1>4, <1>5, <1>6, Zenon DEF WNext

LEMMA NextKeepsTimes ==
    ASSUME Flags, Times, [WNext]_wvars
    PROVE  Times'
  <1> USE DEF Flags, Times, OneOrTheOther, Running, Potential, Started, cvars
  <1>1. CASE OpenWindow
    BY <1>1 DEF OpenWindow, sprintVars, state
  <1>2. CASE WSpawn
    BY <1>2 DEF WSpawn, Spawn, Reset
  <1>3. CASE WCommand
    BY <1>3 DEF WCommand, Command, CommandRefused, sprintVars, state
  <1>4. CASE WSetCvar
    BY <1>4 DEF WSetCvar, SetCvar, state
  <1>5. CASE \E forward, low, air \in BOOLEAN, msec \in Msecs :
                WFrame(forward, low, air, msec)
    BY <1>5, FrameKeepsTimes, Zenon
  <1>6. CASE UNCHANGED wvars
    BY <1>6 DEF wvars, sprintVars, state
  <1> QED
    BY <1>1, <1>2, <1>3, <1>4, <1>5, <1>6, Zenon DEF WNext

(* The invariant from which the bounds follow. *)
THEOREM SprintInductive == WSpec => []SprintIInv
  <1>1. WInit => SprintIInv
    <2> SUFFICES ASSUME WInit PROVE SprintIInv
      OBVIOUS
    <2>1. Flags
      BY Zenon DEF WInit, SprintInit, Flags, OneOrTheOther
    <2>2. Times
      BY DEF WInit, SprintInit, Times, Running, Potential, Started
    <2> QED
      BY <2>1, <2>2, Parts
  <1>2. SprintIInv /\ [WNext]_wvars => SprintIInv'
    <2> SUFFICES ASSUME SprintIInv, [WNext]_wvars PROVE SprintIInv'
      OBVIOUS
    <2>1. Flags' /\ Times'
      BY Parts, NextKeepsFlags, NextKeepsTimes, Zenon
    <2> QED
      BY <2>1, Zenon DEF Flags, Times, SprintIInv, SprintTypeOK
  <1> QED
    BY <1>1, <1>2, PTL DEF WSpec

(* Type correctness of the state of customPlayerState and its observers:   *)
(* sprintTimer never leaves its range whatever the cvars are changed to.   *)
THEOREM SprintTypes == WSpec => []SprintTypeOK
  <1>1. SprintIInv => SprintTypeOK
    BY DEF SprintIInv
  <1> QED
    BY <1>1, SprintInductive, PTL

(* Over any window a player sprints no longer than the longest sprint, one *)
(* move and the time he rested.                                            *)
THEOREM SprintBounded == WSpec => []SprintBound
  <1>1. SprintIInv => SprintBound
    BY DEF SprintIInv, SprintTypeOK, Potential, SprintBound
  <1> QED
    BY <1>1, SprintInductive, PTL

(* A sprint ended by PM_UpdateSprint for want of time, and not by the      *)
(* player, has lasted longer than player_sprintMinTime.                    *)
THEOREM SprintLastsMinTime == WSpec => LastsMinTime
  <1>1. SprintIInv /\ [WNext]_wvars =>
            [Exhausted /\ steady => lasted' > player_sprintMinTime]_wvars
    <2> SUFFICES ASSUME SprintIInv, WNext, Exhausted, steady
                 PROVE  lasted' > player_sprintMinTime
      OBVIOUS
    <2> USE DEF SprintIInv, SprintTypeOK, Exhausted, Started, Running
    <2>1. CASE \E forward, low, air \in BOOLEAN, msec \in Msecs :
                  WFrame(forward, low, air, msec)
      <3>1. PICK forward \in BOOLEAN, low \in BOOLEAN, air \in BOOLEAN, msec \in Msecs :
                WFrame(forward, low, air, msec)
        BY <2>1
      <3>2. FrameSprints(forward, low, msec)
        <4>1. ~FrameSwitchedOff
          BY DEF FrameSwitchedOff
        <4> QED
          BY <3>1, <4>1, Zenon DEF WFrame, PM_UpdateSprint, OneOrTheOther,
             FrameTakesBack, FrameWaitsToStand, FrameWaitsToLand, FrameDecides,
             FrameRests, sprintVars, state
      <3> QED
        BY <3>1, <3>2 DEF FrameSprints, WFrame
    <2>2. CASE OpenWindow
      BY <2>2, Zenon DEF OpenWindow, sprintVars, state
    <2>3. CASE WSpawn
      BY <2>3 DEF WSpawn, Spawn, Reset, cvars
    <2>4. CASE WCommand
      <3>1. UNCHANGED <<sprintTimer, lasted>>
        BY <2>4, Zenon DEF WCommand, Command, CommandRefused, sprintVars, state
      <3> QED
        BY <3>1
    <2>5. CASE WSetCvar
      BY <2>5, Zenon DEF WSetCvar, SetCvar, state
    <2> QED
      BY <2>1, <2>2, <2>3, <2>4, <2>5 DEF WNext
  <1> QED
    BY <1>1, SprintInductive, PTL DEF WSpec, LastsMinTime
=============================================================================
