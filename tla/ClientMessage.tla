--------------------------- MODULE ClientMessage ---------------------------
(***************************************************************************)
(* The messages of one client (SV_PacketEvent, SV_ExecuteClientMessage),   *)
(* from its connection to its entry into the world, over map changes, map  *)
(* restarts and the download of a file.  Packets get lost; the network     *)
(* channel drops those that come late.                                     *)
(*                                                                         *)
(* What the client does, and the game's own reaction to its commands and   *)
(* moves, is external.  Sequence numbers of messages are only compared with *)
(* gamestateMessageNum: "after" says whether a number is greater.          *)
(***************************************************************************)
EXTENDS Integers, Sequences, SequencesExt

CONSTANTS Window,       \* MAX_RELIABLE_COMMANDS: 64
          MaxCommands,  \* bound: commands the server sends
          MaxMaps,      \* bound: maps played
          MaxRestarts,  \* bound: restarts of a map
          MaxEvents,    \* bound: commands, map changes and restarts together
          MaxUnderWay   \* bound: messages under way to the client

ASSUME MessageAssumption ==
    /\ Window \in Nat \ {0} /\ MaxCommands \in Nat
    /\ MaxMaps \in Nat \ {0} /\ MaxRestarts \in Nat
    /\ MaxEvents \in Nat /\ MaxUnderWay \in Nat \ {0}

VARIABLES serverId,  \* sv_serverId_value: its high bits and its low bits
          cl,        \* the server's client_t
          client,    \* the client
          toServer,  \* the message under way to the server
          toClient,  \* the messages under way to the client
          overrun    \* history: a packet was a whole window behind

vars == <<serverId, cl, client, toServer, toClient, overrun>>

Id == [map : 0 .. MaxMaps, restart : 0 .. MaxRestarts]
NoMap == [map |-> 0, restart |-> 0]

Init == /\ serverId = [map |-> 1, restart |-> 0]
        /\ cl = [state |-> "connected", sequence |-> 0, acknowledge |-> 0,
                 downloadName |-> FALSE, last |-> "none", bit |-> 0]
        /\ client = [id |-> NoMap, executed |-> 0, lost |-> FALSE, after |-> TRUE,
                     command |-> "none", bit |-> 0, waits |-> TRUE, honest |-> TRUE]
        /\ toServer = <<>> /\ toClient = <<>>
        /\ overrun = FALSE

----------------------------------------------------------------------------
(* The server sends. *)
Message(c, kind) ==
    [kind |-> kind, id |-> serverId, after |-> kind = "snapshot",
     from |-> c.acknowledge, upto |-> c.sequence, bit |-> c.bit]

Labelled(messages, after) ==
    [i \in DOMAIN messages |-> [messages[i] EXCEPT !.after = after]]

(* gamestateMessageNum is set: all numbers so far are below it, or, when a *)
(* new map forgets it, above.                                              *)
Relabel(after) == client' = [client EXCEPT !.after = after]

(* custom_SV_SendClientGameState, to what the client is by then.           *)
SendClientGameState(c) ==
    /\ cl' = [c EXCEPT !.state = "primed"]
    /\ Relabel(FALSE)
    /\ toServer' = Labelled(Tail(toServer), FALSE)
    /\ toClient' = Append(Labelled(toClient, FALSE), Message(c, "gamestate"))

(* SV_SendClientSnapshot; custom_SV_WriteDownloadToClient *)
SendSnapshot ==
    /\ cl.state # "zombie" /\ Len(toClient) < MaxUnderWay
    /\ toClient' = Append(toClient, Message(cl, "snapshot"))
    /\ cl' = IF cl.downloadName THEN [cl EXCEPT !.state = "connected"] ELSE cl
    /\ UNCHANGED <<serverId, client, toServer, overrun>>

(* One more event fits into the bound. *)
Bounded == cl.sequence + serverId.map + serverId.restart <= MaxEvents

(* SV_AddServerCommand: the game drops a client further behind.            *)
AddServerCommand ==
    /\ cl.state # "zombie" /\ cl.sequence < MaxCommands /\ Bounded
    /\ cl.sequence - cl.acknowledge < Window
    /\ cl' = [cl EXCEPT !.sequence = @ + 1]
    /\ UNCHANGED <<serverId, client, toServer, toClient, overrun>>

(* SV_DropClient, for whatever reason. *)
DropClient ==
    /\ cl' = [cl EXCEPT !.state = "zombie", !.downloadName = FALSE]
    /\ UNCHANGED <<serverId, client, toServer, toClient, overrun>>

(* SV_SpawnServer *)
SpawnServer ==
    /\ serverId.map < MaxMaps /\ Bounded
    /\ serverId' = [map |-> serverId.map + 1, restart |-> 0]
    /\ cl' = IF cl.state = "zombie" THEN cl ELSE [cl EXCEPT !.state = "connected"]
    /\ Relabel(TRUE)
    /\ toServer' = Labelled(toServer, TRUE)
    /\ toClient' = Labelled(toClient, TRUE)
    /\ UNCHANGED overrun

(* SV_MapRestart *)
MapRestart ==
    /\ serverId.restart < MaxRestarts /\ Bounded
    /\ serverId' = [serverId EXCEPT !.restart = @ + 1]
    /\ cl' = IF cl.state = "active" THEN [cl EXCEPT !.state = "primed"] ELSE cl
    /\ UNCHANGED <<client, toServer, toClient, overrun>>

----------------------------------------------------------------------------
(* custom_SV_PacketEvent *)
m == Head(toServer)

(* Mutant: only those ahead of the server are out of range. *)
OutOfRangeAhead == cl.sequence - m.acknowledge < 0

(* Mutant: a client that has not all commands is out of range. *)
OutOfRangeBehind == cl.sequence - m.acknowledge # 0

OutOfRange == \/ cl.sequence - m.acknowledge > Window - 1
              \/ m.acknowledge < 0
              \/ cl.sequence - m.acknowledge < 0

PacketOutOfRange ==
    /\ OutOfRange
    /\ cl' = [cl EXCEPT !.acknowledge = cl.sequence]
    /\ overrun' = (overrun \/ cl.sequence - m.acknowledge >= Window)
    /\ toServer' = Tail(toServer)
    /\ UNCHANGED <<serverId, client, toClient>>

Acknowledged == [cl EXCEPT !.acknowledge = m.acknowledge]

PacketOfZombie ==
    /\ ~OutOfRange /\ cl.state = "zombie"
    /\ cl' = Acknowledged
    /\ toServer' = Tail(toServer)
    /\ UNCHANGED <<serverId, client, toClient, overrun>>

(* custom_SV_ExecuteClientMessage *)

(* Mutant: what follows the last block is not let through. *)
ObeyedOnlyDuringDownload == m.id = serverId \/ cl.downloadName

Obeyed == m.id = serverId \/ cl.downloadName \/ cl.last = "nextdl"

(* Mutant: the low bits are compared. *)
SameMapLowBits == m.id.restart = serverId.restart

SameMap == m.id.map = serverId.map

Execute == ~OutOfRange /\ cl.state # "zombie"

New == m.bit # cl.bit

(* SV_ClientCommand executes what it has not yet executed, custom_SV_      *)
(* ExecuteClientCommand finds the function.  nextdl is that of the last    *)
(* block.                                                                  *)
Commanded ==
    IF ~New THEN Acknowledged
    ELSE [Acknowledged EXCEPT !.last = m.command, !.bit = m.bit,
              !.downloadName = IF m.command = "download" THEN TRUE
                               ELSE IF m.command = "nextdl" THEN FALSE ELSE @]

MessageObeyed ==
    /\ Execute /\ Obeyed
    /\ ~(New /\ m.command = "donedl")
    /\ cl' = IF m.moves /\ cl.state = "primed"
             THEN [Commanded EXCEPT !.state = "active"] ELSE Commanded
    /\ toServer' = Tail(toServer)
    /\ UNCHANGED <<serverId, client, toClient, overrun>>

(* A client that downloads does not move yet. *)
MessageAsksForGameState ==
    /\ Execute /\ Obeyed
    /\ New /\ m.command = "donedl"
    /\ SendClientGameState(Commanded)
    /\ UNCHANGED <<serverId, overrun>>

MessageOfThisMap ==
    /\ Execute /\ ~Obeyed /\ SameMap
    /\ cl' = IF cl.state = "primed" THEN [Acknowledged EXCEPT !.state = "active"]
             ELSE Acknowledged
    /\ toServer' = Tail(toServer)
    /\ UNCHANGED <<serverId, client, toClient, overrun>>

MessageOfOtherMap ==
    /\ Execute /\ ~Obeyed /\ ~SameMap /\ ~m.after
    /\ cl' = Acknowledged
    /\ toServer' = Tail(toServer)
    /\ UNCHANGED <<serverId, client, toClient, overrun>>

(* Mutant: the gamestate is sent only once. *)
MessageWithoutGameStateIgnored ==
    /\ Execute /\ ~Obeyed /\ ~SameMap /\ m.after
    /\ cl.state = "connected"
    /\ SendClientGameState(Acknowledged)
    /\ UNCHANGED <<serverId, overrun>>

(* What came after the gamestate was received, the gamestate was not.      *)
MessageWithoutGameState ==
    /\ Execute /\ ~Obeyed /\ ~SameMap /\ m.after
    /\ SendClientGameState(Acknowledged)
    /\ UNCHANGED <<serverId, overrun>>

PacketEvent ==
    /\ toServer # <<>>
    /\ \/ PacketOutOfRange \/ PacketOfZombie
       \/ MessageObeyed \/ MessageAsksForGameState
       \/ MessageOfThisMap \/ MessageOfOtherMap \/ MessageWithoutGameState

----------------------------------------------------------------------------
(* The client and the network. *)
ClientSends ==
    /\ toServer = <<>>
    /\ \E acknowledge \in {client.executed, -1, MaxCommands + 1} :
          /\ toServer' = <<[id |-> client.id, after |-> client.after,
                            acknowledge |-> acknowledge,
                            command |-> client.command, bit |-> client.bit,
                            moves |-> ~client.waits]>>
          /\ client' = [client EXCEPT !.honest = @ /\ acknowledge = client.executed]
    /\ UNCHANGED <<serverId, cl, toClient, overrun>>

(* The next command, once the server has executed the last. *)
Asks(c, command) == [c EXCEPT !.command = command, !.bit = 1 - @]

Answered(c) ==
    CASE c.command = "download" -> Asks(c, "nextdl")
      [] c.command = "nextdl" -> Asks(c, "donedl")
      [] OTHER -> c

(* A restart of its map is told to the client. *)
ReceiveSnapshot ==
    /\ toClient # <<>> /\ Head(toClient).kind = "snapshot"
    /\ LET s == Head(toClient)
           c == [client EXCEPT
                    !.after = s.after,
                    !.lost = @ \/ s.from > client.executed,
                    !.executed = IF s.upto > @ THEN s.upto ELSE @,
                    !.id = IF s.id.map = @.map /\ ~client.waits THEN s.id ELSE @]
       IN  client' = IF s.bit = client.bit THEN Answered(c) ELSE c
    /\ toClient' = Tail(toClient)
    /\ UNCHANGED <<serverId, cl, toServer, overrun>>

(* A file may be missing.  The client waits for the gamestate that follows *)
(* its download.                                                           *)
ReceiveGameState ==
    /\ toClient # <<>> /\ Head(toClient).kind = "gamestate"
    /\ LET s == Head(toClient)
           c == [client EXCEPT !.id = s.id, !.after = s.after, !.executed = s.upto]
       IN  \/ client' = [c EXCEPT !.waits = FALSE, !.command = "none", !.bit = s.bit]
           \/ /\ client.command # "donedl"
              /\ client' = Asks([c EXCEPT !.waits = TRUE, !.bit = s.bit], "download")
    /\ toClient' = Tail(toClient)
    /\ UNCHANGED <<serverId, cl, toServer, overrun>>

Lose ==
    \/ /\ toServer # <<>>
       /\ toServer' = <<>>
       /\ UNCHANGED <<serverId, cl, client, toClient, overrun>>
    \/ /\ toClient # <<>>
       /\ toClient' = Tail(toClient)
       /\ UNCHANGED <<serverId, cl, client, toServer, overrun>>

Next == \/ SendSnapshot \/ AddServerCommand \/ DropClient \/ SpawnServer \/ MapRestart
        \/ PacketEvent
        \/ ClientSends \/ ReceiveSnapshot \/ ReceiveGameState \/ Lose

Spec == Init /\ [][Next]_vars

(* Snapshots are sent in every frame, the client sends all the time, and   *)
(* of each kind of message that is sent over and over one arrives.         *)
Fairness == /\ WF_vars(SendSnapshot) /\ WF_vars(ClientSends)
            /\ SF_vars(PacketEvent)
            /\ SF_vars(ReceiveSnapshot) /\ SF_vars(ReceiveGameState)

FairSpec == Spec /\ Fairness

----------------------------------------------------------------------------
Commands == {"none", "download", "nextdl", "donedl"}

TypeOK ==
    /\ serverId \in Id
    /\ cl \in [state : {"connected", "primed", "active", "zombie"},
               sequence : 0 .. MaxCommands, acknowledge : Int,
               downloadName : BOOLEAN, last : Commands, bit : {0, 1}]
    /\ client \in [id : Id, executed : 0 .. MaxCommands, lost : BOOLEAN, after : BOOLEAN,
                   command : Commands, bit : {0, 1}, waits : BOOLEAN, honest : BOOLEAN]
    /\ Len(toServer) <= 1 /\ Len(toClient) <= MaxUnderWay + MaxMaps + 1

(* The commands a client has not acknowledged, which are sent to it with   *)
(* each message, fit into reliableCommands, whatever it acknowledges.      *)
WindowKept == cl.sequence - cl.acknowledge \in 0 .. Window

(* A client that acknowledges what it has executed loses no command, unless *)
(* it fell behind by the whole window.                                     *)
NeverLost == client.lost => overrun \/ ~client.honest

(* Who is in the world has the gamestate of this map, though messages of   *)
(* the map before are under way, and some of them are obeyed.              *)
ActiveKnowsMap == cl.state = "active" => client.id.map = serverId.map

(* The gamestate a client asked for after its download was lost.  As the   *)
(* client has named the id of this map since the gamestate before, nothing *)
(* tells the server so, and it does not send another.                      *)
Stranded ==
    /\ client.waits /\ client.command = "donedl" /\ client.id = serverId
    /\ cl.state = "primed" /\ cl.bit = client.bit
    /\ \A i \in DOMAIN toClient : toClient[i].kind # "gamestate"

(* A client that stays gets into the world after each map change, restart  *)
(* and download, or is left Stranded: that one loss, and no other, keeps   *)
(* it out until the next map or restart.                                   *)
EntersWorld ==
    []<>(cl.state \in {"active", "zombie"} \/ overrun \/ ~client.honest \/ Stranded)
=============================================================================
