------------------------------ MODULE BanList ------------------------------
(***************************************************************************)
(* The custom ban commands of libcod.cpp: ban() and unban(), the file      *)
(* ban.txt they keep, the check hook_SV_DirectConnect makes of a player    *)
(* who connects, and the command buffer the game scripts and that check    *)
(* put commands into.                                                      *)
(*                                                                         *)
(* Two local pointers of the commands are read before they are written:    *)
(* clAdmin unless -a is the first option, clToBan when -i names an address *)
(* no player in the game has.  What such a read yields is whatever the     *)
(* stack holds, so it is any pointer: NULL, a client, or a wild one, which *)
(* ends the process.  ban.txt outlives the process.                        *)
(*                                                                         *)
(* The game scripts append their commands without a newline, so that what  *)
(* is appended behind one of them in the same frame continues its line.    *)
(***************************************************************************)
EXTENDS Integers, Sequences, FiniteSets, SequencesExt

CONSTANTS Ip,         \* addresses players connect from
          ZeroIp,     \* 0.0.0.0, the address of a client slot never used
          NumClients, \* sv_maxclients
          Counts,     \* numbers given to -d
          AdminFirst, \* whether commands start with -a: {TRUE}, {FALSE} or both
          Unit,       \* seconds in the unit of -d: 3600 or 86400
          IntHalf,    \* 2^31
          MaxClock,   \* bound on the clock
          MaxQueue    \* bound on the commands waiting in the buffer

ASSUME BanAssumption ==
    /\ ZeroIp \notin Ip
    /\ NumClients \in Nat \ {0}
    /\ Counts \subseteq Nat
    /\ AdminFirst \subseteq BOOLEAN
    /\ Unit \in Nat \ {0}
    /\ IntHalf \in Nat \ {0}

VARIABLES up,      \* the server process runs
          clock,   \* time(NULL)
          file,    \* lines of ban.txt; a missing file reads like an empty one
          clients, \* svs.clients[]: state and remoteAddress
          cbuf,    \* lines of the command buffer
          open     \* the last of them has no newline yet

vars == <<up, clock, file, clients, cbuf, open>>

Clients == 0 .. NumClients - 1
Forever == -1
NoDuration == 0   \* no -d option
Null == -1        \* NULL, of a client_t pointer
Wild == -2        \* a pointer to no client

ToInt(x) == ((x + IntHalf) % (2 * IntHalf)) - IntHalf

(* Commands.  admin: -a is the first option; ok: the options are well      *)
(* formed (when they are not, the rest of the command is not looked at).   *)
BanCommand(by, target, count, admin) ==
    [name |-> "ban", by |-> by, target |-> target, count |-> count,
     admin |-> admin, ok |-> TRUE]

UnbanCommand(ip, admin) ==
    [name |-> "unban", by |-> "ip", target |-> ip, count |-> NoDuration,
     admin |-> admin, ok |-> TRUE]

Malformed(name, ip, admin) ==
    [name |-> name, by |-> "ip", target |-> ip, count |-> NoDuration,
     admin |-> admin, ok |-> FALSE]

(* What hook_SV_DirectConnect appends: "unban <ip>", with no -i, which     *)
(* unban() answers with "Specify an IP address".                           *)
ExpiryCommand(ip) == Malformed("unban", ip, FALSE)

CommandsBy(admins) ==
    LET counts == Counts \cup {NoDuration}
    IN  {BanCommand("ip", ip, c, a) : ip \in Ip, c \in counts, a \in admins}
        \cup {BanCommand("num", n, c, a) : n \in Clients, c \in counts, a \in admins}
        \cup {UnbanCommand(ip, a) : ip \in Ip, a \in admins}
        \cup {Malformed(name, ZeroIp, a) : name \in {"ban", "unban"}, a \in admins}

Commands == CommandsBy(AdminFirst)

(* What a line may be once a second command stands behind its first, which *)
(* had no newline.  The second name is glued to the first command's last   *)
(* word, so an address or a duration there is spoilt, while a reason or a  *)
(* client number takes the text in; the options of both count as one list, *)
(* in which an option given twice, or -i beside -n, is an error.           *)
Merged(first, second) ==
    LET broken == {Malformed(first.name, ZeroIp, a) :
                     a \in {first.admin, first.admin \/ second.admin}}
    IN  IF first.ok /\ second.ok THEN broken
        ELSE IF first.ok
        THEN broken \cup {first} \cup
             {BanCommand(first.by, first.target, c, first.admin) :
                c \in {c \in Counts : /\ first.name = "ban"
                                      /\ first.count = NoDuration
                                      /\ second \in Commands}}
        ELSE IF second.ok /\ first.name = "ban"
        THEN broken \cup
             {BanCommand(second.by, second.target, c, a) :
                c \in IF second.count = NoDuration THEN Counts \cup {NoDuration}
                                                   ELSE {second.count},
                a \in {first.admin, first.admin \/ second.admin}}
        ELSE IF second.ok /\ second.by = "ip"
        THEN broken \cup
             {UnbanCommand(second.target, a) :
                a \in {first.admin, first.admin \/ second.admin}}
        ELSE broken

(* Cbuf_ExecuteText(EXEC_APPEND, ...), with or without a newline. *)
Put(cmd, newline) ==
    /\ IF open
       THEN \E line \in Merged(Last(cbuf), cmd) :
               cbuf' = [cbuf EXCEPT ![Len(cbuf)] = line]
       ELSE Len(cbuf) < MaxQueue /\ cbuf' = Append(cbuf, cmd)
    /\ open' = ~newline

----------------------------------------------------------------------------
(* banInfoForIp: the first line of the address. *)
LinesOf(ip) == {i \in DOMAIN file : file[i].ip = ip}

FirstLine(ip) == CHOOSE i \in LinesOf(ip) : \A j \in LinesOf(ip) : i <= j

Banned(ip) == LinesOf(ip) # {}

(* Seconds left of the ban the check reads, in an int. *)
Remaining(line) == ToInt(line.duration - ToInt(clock - line.date))

Expired(ip) ==
    /\ file[FirstLine(ip)].duration # Forever
    /\ Remaining(file[FirstLine(ip)]) <= 0

(* -d: the number times the unit, in an int; -1 without -d. *)
DurationOf(count) == IF count = NoDuration THEN Forever ELSE ToInt(count * Unit)

NewLine(ip, count) == [ip |-> ip, duration |-> DurationOf(count), date |-> clock]

(* The values clAdmin, clToBan may have when the function reads them. *)
AdminPointers(cmd) == IF cmd.admin THEN {0} ELSE Clients \cup {Null, Wild}

Matches(ip) == {n \in Clients : clients[n].state = "active" /\ clients[n].ip = ip}

TargetPointers(cmd) ==
    IF cmd.by = "num" THEN {cmd.target}
    ELSE IF Matches(cmd.target) # {}
         THEN {CHOOSE n \in Matches(cmd.target) :
                 \A m \in Matches(cmd.target) : n <= m}
         ELSE Clients \cup {Null, Wild}

BannedIp(cmd) == IF cmd.by = "num" THEN clients[cmd.target].ip ELSE cmd.target

(* sendMessageTo_inGameAdmin_orServerConsole: to the admin's client, or to *)
(* the client or the console a clAdmin never written happens to name.      *)
Tell(cmd) ==
    \E p \in AdminPointers(cmd) : up' = (p # Wild)

(* SV_DropClient; the slot keeps its address. *)
Drop(n) == [clients EXCEPT ![n].state = "free"]

(* Q_strncpyz of the name, the line appended to ban.txt, the drop: a wild  *)
(* clToBan ends the process before the line is written or after it.        *)
AddBan(cmd) ==
    \E p \in TargetPointers(cmd) :
        \/ /\ p = Wild
           /\ up' = FALSE
           /\ file' \in {file, Append(file, NewLine(BannedIp(cmd), cmd.count))}
           /\ UNCHANGED clients
        \/ /\ p # Wild
           /\ file' = Append(file, NewLine(BannedIp(cmd), cmd.count))
           /\ clients' = IF p = Null THEN clients ELSE Drop(p)
           /\ UNCHANGED up
        \/ /\ p # Wild      \* "Couldn't open ban.txt"
           /\ Tell(cmd)
           /\ UNCHANGED <<file, clients>>

(* Mutant: an address that is banned is banned again. *)
MayBanTwice(cmd) == cmd.ok

MayBan(cmd) == cmd.ok /\ ~Banned(BannedIp(cmd))

Ban(cmd) ==
    /\ cmd.name = "ban"
    /\ \/ MayBan(cmd) /\ AddBan(cmd)
       \/ ~MayBan(cmd) /\ Tell(cmd) /\ UNCHANGED <<file, clients>>
    /\ UNCHANGED clock

(* Mutant: the rest of the file goes with the line. *)
WithoutRest(ip) == IF Banned(ip) THEN SubSeq(file, 1, FirstLine(ip) - 1) ELSE file

(* unban(): the first line of the address is cut out of the file. *)
Without(ip) == IF Banned(ip) THEN RemoveAt(file, FirstLine(ip)) ELSE file

Unban(cmd) ==
    /\ cmd.name = "unban"
    /\ file' = IF cmd.ok THEN Without(cmd.target) ELSE file
    /\ Tell(cmd)
    /\ UNCHANGED <<clock, clients>>

Execute(cmd) == Ban(cmd) \/ Unban(cmd)

----------------------------------------------------------------------------
Init == /\ up = TRUE
        /\ clock = 0
        /\ file = <<>>
        /\ clients = [n \in Clients |-> [state |-> "free", ip |-> ZeroIp]]
        /\ cbuf = <<>>
        /\ open = FALSE

(* A command typed at rcon is executed at once. *)
RconCommand == /\ up
               /\ \E cmd \in Commands : Execute(cmd)
               /\ UNCHANGED <<cbuf, open>>

(* gsc_utils_ban, gsc_utils_unban: with no newline, unless the script has  *)
(* put one into its text.                                                  *)
AppendCommand == /\ up
                 /\ \E cmd \in Commands, newline \in BOOLEAN : Put(cmd, newline)
                 /\ UNCHANGED <<up, clock, file, clients>>

(* Cbuf_Execute takes the buffer one line at a time; its end ends a line. *)
ExecuteBuffer == /\ up
                 /\ cbuf # <<>>
                 /\ Execute(Head(cbuf))
                 /\ cbuf' = Tail(cbuf)
                 /\ open' = (open /\ Tail(cbuf) # <<>>)

(* hook_SV_DirectConnect: refuse an address whose ban runs, ask for an     *)
(* expired one to be lifted, and then answer with sv_connectMessage, or    *)
(* let SV_DirectConnect find a free slot or refuse the player itself.      *)
Admitted(ip) == Banned(ip) => Expired(ip)

AskToLift(ip) == \/ Banned(ip) /\ Put(ExpiryCommand(ip), TRUE)
                 \/ ~Banned(ip) /\ UNCHANGED <<cbuf, open>>

DirectConnect(n, ip) ==
    /\ up
    /\ Admitted(ip)
    /\ AskToLift(ip)
    /\ \/ UNCHANGED clients
       \/ /\ clients[n].state = "free"
          /\ clients' = [clients EXCEPT ![n] = [state |-> "connected", ip |-> ip]]
    /\ UNCHANGED <<up, clock, file>>

(* SV_SendClientGameState and SV_ClientEnterWorld; a client that leaves. *)
EnterGame(n) == /\ up
                /\ clients[n].state = "connected"
                /\ clients' = [clients EXCEPT ![n].state = "active"]
                /\ UNCHANGED <<up, clock, file, cbuf, open>>

Disconnect(n) == /\ up
                 /\ clients[n].state # "free"
                 /\ clients' = Drop(n)
                 /\ UNCHANGED <<up, clock, file, cbuf, open>>

Tick == /\ up
        /\ clock < MaxClock
        /\ clock' = clock + 1
        /\ UNCHANGED <<up, file, clients, cbuf, open>>

(* The process is started again after it ended; only ban.txt is kept. *)
Restart == /\ ~up
           /\ up' = TRUE
           /\ clients' = [n \in Clients |-> [state |-> "free", ip |-> ZeroIp]]
           /\ cbuf' = <<>>
           /\ open' = FALSE
           /\ UNCHANGED <<clock, file>>

Next == \/ RconCommand \/ AppendCommand \/ ExecuteBuffer
        \/ \E n \in Clients, ip \in Ip : DirectConnect(n, ip)
        \/ \E n \in Clients : EnterGame(n) \/ Disconnect(n)
        \/ Tick \/ Restart

Spec == Init /\ [][Next]_vars

----------------------------------------------------------------------------
AnyIp == Ip \cup {ZeroIp}
Line == [ip : AnyIp, duration : Int, date : Nat]

TypeOK == /\ up \in BOOLEAN
          /\ clock \in Nat
          /\ file \in Seq(Line)
          /\ clients \in [Clients -> [state : {"free", "connected", "active"},
                                      ip : AnyIp]]
          /\ cbuf \in Seq(CommandsBy(BOOLEAN) \cup {ExpiryCommand(ip) : ip \in Ip})
          /\ open \in BOOLEAN
          /\ open => cbuf # <<>>

(* ban() appends without looking for a place, unban() cuts one line and    *)
(* the check reads one line: all three rest on an address having one line. *)
OneLinePerAddress == \A i, j \in DOMAIN file : file[i].ip = file[j].ip => i = j

(* ban.txt, the commands and the check at connect implement the policy. *)
Policy == INSTANCE BanPolicy WITH
             bans <- ToSet(file),
             players <- [n \in Clients |-> IF clients[n].state = "free"
                                           THEN ZeroIp ELSE clients[n].ip],
             Addresses <- AnyIp, Nobody <- ZeroIp, Places <- Clients,
             Durations <- {DurationOf(c) : c \in Counts \cup {NoDuration}}

PolicySpec == Policy!Spec

----------------------------------------------------------------------------
(* "Usage: unban -i <IP address>": the command the check appends for an    *)
(* expired ban lifts it once it is executed.                               *)
ExpiredBanIsLifted ==
    [][\A ip \in Ip :
         (cbuf # <<>> /\ cbuf' = Tail(cbuf) /\ up' /\ Head(cbuf) = ExpiryCommand(ip))
            => ip \notin {file'[i].ip : i \in DOMAIN file'}]_vars
=============================================================================
