--------------------------- MODULE BanListProofs ---------------------------
(***************************************************************************)
(* BanList implements BanPolicy, for every set of addresses, number of     *)
(* client slots, durations and width of int: the file has at most one      *)
(* line of an address, so the line that is cut, or read at connect, is the *)
(* ban; and the int the check computes is positive while a ban runs.       *)
(***************************************************************************)
EXTENDS BanList, TLAPS

AllCommands == CommandsBy(BOOLEAN) \cup {ExpiryCommand(ip) : ip \in Ip}

(* No line is dated in the future, none has a duration an int cannot hold. *)
DatesPast == \A i \in DOMAIN file : file[i].date <= clock
DurationsFit == \A i \in DOMAIN file : file[i].duration < IntHalf

IInv == TypeOK /\ OneLinePerAddress /\ DatesPast /\ DurationsFit

----------------------------------------------------------------------------
(* The int arithmetic of the remaining seconds. *)
LEMMA ToIntFacts ==
    ASSUME NEW x \in Int
    PROVE  /\ ToInt(x) \in Int
           /\ ToInt(x) < IntHalf
           /\ x \in 0 .. (IntHalf - 1) => ToInt(x) = x
  <1> DEFINE m == 2 * IntHalf
  <1>1. IntHalf \in Nat \ {0} /\ m \in Nat \ {0}
    BY BanAssumption
  <1>2. \A a \in Int, p \in Nat \ {0} : a % p \in 0 .. (p - 1)
    OBVIOUS
  <1>3. (x + IntHalf) % m \in 0 .. (m - 1)
    BY <1>1, <1>2
  <1>4. ASSUME x \in 0 .. (IntHalf - 1)
        PROVE  (x + IntHalf) % m = x + IntHalf
    BY <1>1, <1>4
  <1> QED
    BY <1>1, <1>3, <1>4 DEF ToInt

(* A ban the check takes for expired is not in force, whatever wraps. *)
LEMMA ExpiredIsOver ==
    ASSUME NEW line \in Line, NEW t \in Nat,
           line.date <= t, line.duration < IntHalf,
           ToInt(line.duration - ToInt(t - line.date)) <= 0
    PROVE  line.duration - (t - line.date) <= 0
  <1> DEFINE e == t - line.date
             d == line.duration
  <1>1. e \in Nat /\ d \in Int /\ d < IntHalf /\ IntHalf \in Nat \ {0}
    BY BanAssumption DEF Line
  <1> SUFFICES ASSUME d - e > 0
               PROVE  FALSE
    BY <1>1
  <1>2. e \in 0 .. (IntHalf - 1) /\ d - e \in 0 .. (IntHalf - 1)
    BY <1>1
  <1>3. ToInt(e) = e
    BY <1>1, <1>2, ToIntFacts
  <1>4. ToInt(d - e) = d - e
    BY <1>1, <1>2, ToIntFacts
  <1> QED
    BY <1>1, <1>3, <1>4

LEMMA CommandFacts ==
    ASSUME NEW cmd \in AllCommands
    PROVE  /\ cmd.name \in {"ban", "unban"}
           /\ cmd.ok \in BOOLEAN
           /\ cmd.admin \in BOOLEAN
           /\ cmd.count \in Counts \cup {NoDuration}
           /\ cmd.ok => \/ cmd.by = "ip" /\ cmd.target \in Ip
                        \/ cmd.by = "num" /\ cmd.target \in Clients
  <1> DEFINE counts == Counts \cup {NoDuration}
  <1>1. CASE cmd \in {BanCommand("ip", ip, c, a) : ip \in Ip, c \in counts, a \in BOOLEAN}
    <2>1. PICK ip \in Ip, c \in counts, a \in BOOLEAN : cmd = BanCommand("ip", ip, c, a)
      BY <1>1
    <2> QED
      BY <2>1 DEF BanCommand
  <1>2. CASE cmd \in {BanCommand("num", n, c, a) : n \in Clients, c \in counts, a \in BOOLEAN}
    <2>1. PICK n \in Clients, c \in counts, a \in BOOLEAN : cmd = BanCommand("num", n, c, a)
      BY <1>2
    <2> QED
      BY <2>1 DEF BanCommand
  <1>3. CASE cmd \in {UnbanCommand(ip, a) : ip \in Ip, a \in BOOLEAN}
    <2>1. PICK ip \in Ip, a \in BOOLEAN : cmd = UnbanCommand(ip, a)
      BY <1>3
    <2> QED
      BY <2>1 DEF UnbanCommand
  <1>4. CASE cmd \in {Malformed(name, ZeroIp, a) : name \in {"ban", "unban"}, a \in BOOLEAN}
    <2>1. PICK name \in {"ban", "unban"}, a \in BOOLEAN : cmd = Malformed(name, ZeroIp, a)
      BY <1>4
    <2> QED
      BY <2>1 DEF Malformed
  <1>5. CASE cmd \in {ExpiryCommand(ip) : ip \in Ip}
    <2>1. PICK ip \in Ip : cmd = ExpiryCommand(ip)
      BY <1>5
    <2> QED
      BY <2>1 DEF ExpiryCommand, Malformed
  <1> QED
    BY <1>1, <1>2, <1>3, <1>4, <1>5 DEF AllCommands, CommandsBy

LEMMA DurationFacts ==
    ASSUME NEW c \in Counts \cup {NoDuration}
    PROVE  DurationOf(c) \in Int /\ DurationOf(c) < IntHalf
  <1>1. c \in Nat /\ Unit \in Nat /\ IntHalf \in Nat \ {0}
    BY BanAssumption DEF NoDuration
  <1>2. c * Unit \in Int
    BY <1>1
  <1>3. ToInt(c * Unit) \in Int /\ ToInt(c * Unit) < IntHalf
    BY <1>2, ToIntFacts
  <1> QED
    BY <1>1, <1>3 DEF DurationOf, Forever

(* What cutting one element out of a sequence leaves. *)
LEMMA CutFacts ==
    ASSUME NEW S, NEW s \in Seq(S), NEW i \in DOMAIN s
    PROVE  /\ RemoveAt(s, i) \in Seq(S)
           /\ Len(RemoveAt(s, i)) = Len(s) - 1
           /\ \A j \in DOMAIN RemoveAt(s, i) :
                 /\ j < i => RemoveAt(s, i)[j] = s[j]
                 /\ j >= i => RemoveAt(s, i)[j] = s[j + 1]
  <1>1. i \in 1 .. Len(s) /\ Len(s) \in Nat
    OBVIOUS
  <1> DEFINE a == SubSeq(s, 1, i - 1)
             b == SubSeq(s, i + 1, Len(s))
  <1>2. /\ a \in Seq(S) /\ Len(a) = i - 1
        /\ \A j \in 1 .. (i - 1) : a[j] = s[j]
    BY <1>1
  <1>3. /\ b \in Seq(S) /\ Len(b) = Len(s) - i
        /\ \A j \in 1 .. (Len(s) - i) : b[j] = s[i + j]
    BY <1>1
  <1>4. RemoveAt(s, i) = a \o b
    BY DEF RemoveAt
  <1> HIDE DEF a, b
  <1>5. a \o b \in Seq(S) /\ Len(a \o b) = Len(s) - 1
    BY <1>1, <1>2, <1>3
  <1>6. ASSUME NEW j \in 1 .. (Len(s) - 1)
        PROVE  /\ j < i => (a \o b)[j] = s[j]
               /\ j >= i => (a \o b)[j] = s[j + 1]
    <2>1. CASE j < i
      <3>1. (a \o b)[j] = a[j]
        BY <1>1, <1>2, <1>3, <2>1
      <3> QED
        BY <1>1, <1>2, <2>1, <3>1
    <2>2. CASE j >= i
      <3>1. (a \o b)[j] = b[j - (i - 1)]
        BY SMTT(30), <1>1, <1>2, <1>3, <2>2
      <3>2. b[j - (i - 1)] = s[j + 1]
        BY <1>1, <1>3, <2>2
      <3> QED
        BY <1>1, <2>2, <3>1, <3>2
    <2> QED
      BY <1>1, <2>1, <2>2
  <1>7. DOMAIN (a \o b) = 1 .. (Len(s) - 1)
    BY <1>1, <1>5
  <1> QED
    BY <1>4, <1>5, <1>6, <1>7

LEMMA CutSet ==
    ASSUME NEW S, NEW s \in Seq(S), NEW i \in DOMAIN s
    PROVE  ToSet(RemoveAt(s, i)) = {s[j] : j \in DOMAIN s \ {i}}
  <1> DEFINE r == RemoveAt(s, i)
  <1>1. /\ i \in 1 .. Len(s) /\ Len(s) \in Nat /\ DOMAIN s = 1 .. Len(s)
        /\ DOMAIN r = 1 .. (Len(s) - 1)
        /\ \A j \in DOMAIN r : /\ j < i => r[j] = s[j]
                               /\ j >= i => r[j] = s[j + 1]
    BY CutFacts
  <1>2. ASSUME NEW j \in DOMAIN r
        PROVE  r[j] \in {s[k] : k \in DOMAIN s \ {i}}
    <2>1. CASE j < i
      BY <1>1, <2>1
    <2>2. CASE j >= i
      <3>1. j + 1 \in DOMAIN s \ {i} /\ r[j] = s[j + 1]
        BY <1>1, <2>2
      <3> QED
        BY <3>1
    <2> QED
      BY <1>1, <2>1, <2>2
  <1>3. ASSUME NEW k \in DOMAIN s \ {i}
        PROVE  s[k] \in {r[j] : j \in DOMAIN r}
    <2>1. CASE k < i
      <3>1. k \in DOMAIN r /\ r[k] = s[k]
        BY <1>1, <2>1
      <3> QED
        BY <3>1
    <2>2. CASE k > i
      <3>1. k - 1 \in DOMAIN r /\ r[k - 1] = s[k]
        BY <1>1, <2>2
      <3> QED
        BY <3>1
    <2> QED
      BY <1>1, <2>1, <2>2
  <1> QED
    BY <1>2, <1>3 DEF ToSet

(* An address that has a line has exactly one, and FirstLine is it. *)
LEMMA OneLine ==
    ASSUME TypeOK, OneLinePerAddress, NEW ip, Banned(ip)
    PROVE  /\ FirstLine(ip) \in DOMAIN file
           /\ file[FirstLine(ip)].ip = ip
           /\ \A i \in DOMAIN file : file[i].ip = ip => i = FirstLine(ip)
  <1>1. PICK k \in DOMAIN file : file[k].ip = ip
    BY DEF Banned, LinesOf
  <1>2. LinesOf(ip) = {k}
    BY <1>1 DEF LinesOf, OneLinePerAddress
  <1>3. k <= k
    BY <1>1 DEF TypeOK
  <1>4. FirstLine(ip) = k
    BY <1>2, <1>3 DEF FirstLine
  <1> QED
    BY <1>1, <1>2, <1>4 DEF LinesOf

----------------------------------------------------------------------------
(* What each kind of step does, with the commands' details put away. *)
LEMMA BanStep ==
    ASSUME TypeOK, NEW cmd \in AllCommands, Ban(cmd)
    PROVE  /\ clock' = clock
           /\ up' \in BOOLEAN
           /\ \/ clients' = clients
              \/ \E n \in Clients : clients' = Drop(n)
           /\ \/ file' = file
              \/ /\ \A i \in DOMAIN file : file[i].ip # BannedIp(cmd)
                 /\ BannedIp(cmd) \in AnyIp
                 /\ file' = Append(file, NewLine(BannedIp(cmd), cmd.count))
  <1>1. CASE ~MayBan(cmd)
    BY <1>1 DEF Ban, Tell
  <1>2. CASE MayBan(cmd)
    <2>1. PICK p \in TargetPointers(cmd) :
            \/ /\ p = Wild
               /\ up' = FALSE
               /\ file' \in {file, Append(file, NewLine(BannedIp(cmd), cmd.count))}
               /\ UNCHANGED clients
            \/ /\ p # Wild
               /\ file' = Append(file, NewLine(BannedIp(cmd), cmd.count))
               /\ clients' = IF p = Null THEN clients ELSE Drop(p)
               /\ UNCHANGED up
            \/ /\ p # Wild
               /\ Tell(cmd)
               /\ UNCHANGED <<file, clients>>
      BY <1>2 DEF Ban, AddBan
    <2>2. clock' = clock
      BY DEF Ban
    <2>3. up' \in BOOLEAN
      BY <2>1 DEF Tell, TypeOK
    <2>4. \/ clients' = clients
          \/ \E n \in Clients : clients' = Drop(n)
      <3>1. ASSUME p \notin Clients
            PROVE  Drop(p) = clients
        BY <3>1 DEF Drop, TypeOK
      <3> QED
        BY <2>1, <3>1
    <2>5. /\ \A i \in DOMAIN file : file[i].ip # BannedIp(cmd)
          /\ cmd.ok
      BY <1>2 DEF MayBan, Banned, LinesOf
    <2>6. BannedIp(cmd) \in AnyIp
      BY <2>5, CommandFacts DEF BannedIp, AnyIp, TypeOK
    <2> QED
      BY <2>1, <2>2, <2>3, <2>4, <2>5, <2>6
  <1> QED
    BY <1>1, <1>2

LEMMA UnbanStep ==
    ASSUME TypeOK, NEW cmd \in AllCommands, Unban(cmd)
    PROVE  /\ clock' = clock /\ clients' = clients
           /\ up' \in BOOLEAN
           /\ \/ file' = file
              \/ /\ cmd.target \in AnyIp
                 /\ Banned(cmd.target)
                 /\ file' = RemoveAt(file, FirstLine(cmd.target))
  <1>1. ASSUME cmd.ok, cmd.name = "unban"
        PROVE  cmd.target \in Ip
    BY <1>1 DEF AllCommands, CommandsBy, ExpiryCommand, BanCommand, UnbanCommand, Malformed
  <1> QED
    BY <1>1, CommandFacts DEF Unban, Without, Tell, AnyIp

FileOK == file \in Seq(Line) /\ OneLinePerAddress /\ DatesPast /\ DurationsFit

ClientsOK == clients \in [Clients -> [state : {"free", "connected", "active"}, ip : AnyIp]]

(* ban(): a line for an address that has none. *)
LEMMA AppendKeeps ==
    ASSUME IInv, clock' = clock,
           NEW ip \in AnyIp, NEW c \in Counts \cup {NoDuration},
           \A i \in DOMAIN file : file[i].ip # ip,
           file' = Append(file, NewLine(ip, c))
    PROVE  /\ FileOK'
           /\ ToSet(file') = ToSet(file) \cup {NewLine(ip, c)}
  <1> DEFINE l == NewLine(ip, c)
             n == Len(file)
  <1>1. file \in Seq(Line) /\ n \in Nat /\ clock \in Nat /\ DOMAIN file = 1 .. n
    BY DEF IInv, TypeOK
  <1>2. l \in Line /\ l.ip = ip /\ l.date = clock /\ l.duration < IntHalf
    BY <1>1, DurationFacts DEF NewLine, Line
  <1> HIDE DEF l
  <1>3. /\ file' \in Seq(Line) /\ DOMAIN file' = 1 .. (n + 1)
        /\ \A i \in 1 .. n : file'[i] = file[i]
        /\ file'[n + 1] = l
    BY <1>1, <1>2 DEF l
  <1>4. OneLinePerAddress'
    BY <1>1, <1>2, <1>3 DEF OneLinePerAddress, IInv
  <1>5. DatesPast' /\ DurationsFit'
    BY <1>1, <1>2, <1>3 DEF DatesPast, DurationsFit, IInv
  <1>6. ToSet(file') = ToSet(file) \cup {l}
    BY <1>1, <1>3 DEF ToSet
  <1> QED
    BY <1>3, <1>4, <1>5, <1>6 DEF FileOK, l

(* unban(): the one line of the address is gone, the others stay. *)
LEMMA CutKeeps ==
    ASSUME IInv, clock' = clock,
           NEW ip \in AnyIp, Banned(ip),
           file' = RemoveAt(file, FirstLine(ip))
    PROVE  /\ FileOK'
           /\ ToSet(file') = {b \in ToSet(file) : b.ip # ip}
  <1> DEFINE k == FirstLine(ip)
  <1>1. file \in Seq(Line) /\ DOMAIN file = 1 .. Len(file) /\ Len(file) \in Nat
    BY DEF IInv, TypeOK
  <1>2. /\ k \in DOMAIN file /\ file[k].ip = ip
        /\ \A i \in DOMAIN file : file[i].ip = ip => i = k
    BY OneLine DEF IInv
  <1> HIDE DEF k
  <1>3. /\ file' \in Seq(Line) /\ DOMAIN file' = 1 .. (Len(file) - 1)
        /\ \A i \in DOMAIN file' : /\ i < k => file'[i] = file[i]
                                   /\ i >= k => file'[i] = file[i + 1]
    BY <1>1, <1>2, CutFacts DEF k
  <1>4. ASSUME NEW i \in DOMAIN file'
        PROVE  \E m \in DOMAIN file :
                  file'[i] = file[m] /\ m = IF i < k THEN i ELSE i + 1
    BY <1>1, <1>2, <1>3
  <1>5. OneLinePerAddress'
    <2> SUFFICES ASSUME NEW i \in DOMAIN file', NEW j \in DOMAIN file',
                        file'[i].ip = file'[j].ip
                 PROVE  i = j
      BY DEF OneLinePerAddress
    <2>1. PICK m \in DOMAIN file :
            file'[i] = file[m] /\ m = IF i < k THEN i ELSE i + 1
      BY <1>4
    <2>2. PICK n \in DOMAIN file :
            file'[j] = file[n] /\ n = IF j < k THEN j ELSE j + 1
      BY <1>4
    <2>3. m = n
      BY <2>1, <2>2 DEF OneLinePerAddress, IInv
    <2> QED
      BY <1>1, <1>2, <1>3, <2>1, <2>2, <2>3
  <1>6. DatesPast' /\ DurationsFit'
    BY <1>4 DEF DatesPast, DurationsFit, IInv
  <1>7. ToSet(file') = {file[j] : j \in DOMAIN file \ {k}}
    BY <1>1, <1>2, CutSet DEF k
  <1>8. ToSet(file') = {b \in ToSet(file) : b.ip # ip}
    BY <1>2, <1>7 DEF ToSet
  <1> QED
    BY <1>3, <1>5, <1>6, <1>8 DEF FileOK

(* The clients after a drop. *)
LEMMA DropFacts ==
    ASSUME ClientsOK, NEW n \in Clients
    PROVE  /\ Drop(n) \in [Clients -> [state : {"free", "connected", "active"}, ip : AnyIp]]
           /\ Drop(n)[n].state = "free"
           /\ \A m \in Clients \ {n} : Drop(n)[m] = clients[m]
  BY DEF Drop, ClientsOK

Players == [n \in Clients |-> IF clients[n].state = "free" THEN ZeroIp ELSE clients[n].ip]

(* Clients who are dropped, or all of them at a restart, have left. *)
LEMMA LeavingStep ==
    ASSUME ClientsOK,
           NEW gone \in SUBSET Clients,
           \A n \in gone : clients'[n].state = "free",
           \A n \in Clients \ gone : clients'[n] = clients[n]
    PROVE  Policy!Leaving
  <1>1. Players' = [n \in Clients |-> IF n \in gone THEN ZeroIp ELSE Players[n]]
    BY DEF Players
  <1> QED
    BY <1>1 DEF Policy!Leaving, Players

LEMMA DropLeaves ==
    ASSUME ClientsOK,
           \/ clients' = clients
           \/ \E n \in Clients : clients' = Drop(n)
    PROVE  ClientsOK' /\ Policy!Leaving
  <1>1. CASE clients' = clients
    <2> DEFINE gone == {}
    <2>1. /\ gone \in SUBSET Clients
          /\ \A n \in gone : clients'[n].state = "free"
          /\ \A n \in Clients \ gone : clients'[n] = clients[n]
      BY <1>1
    <2> HIDE DEF gone
    <2>2. Policy!Leaving
      BY <2>1, LeavingStep
    <2> QED
      BY <1>1, <2>2 DEF ClientsOK
  <1>2. ASSUME NEW n \in Clients, clients' = Drop(n)
        PROVE  ClientsOK' /\ Policy!Leaving
    <2> DEFINE gone == {n}
    <2>1. /\ gone \in SUBSET Clients
          /\ \A m \in gone : clients'[m].state = "free"
          /\ \A m \in Clients \ gone : clients'[m] = clients[m]
      BY <1>2, DropFacts
    <2> HIDE DEF gone
    <2>2. Policy!Leaving
      BY <2>1, LeavingStep
    <2> QED
      BY <1>2, <2>2, DropFacts DEF ClientsOK
  <1> QED
    BY <1>1, <1>2

(* A command is a ban, the lifting of one, or a player leaving. *)
LEMMA ExecuteStep ==
    ASSUME IInv, NEW cmd \in AllCommands, Execute(cmd)
    PROVE  /\ up' \in BOOLEAN /\ clock' = clock
           /\ FileOK' /\ ClientsOK'
           /\ Policy!Ban \/ Policy!Lift \/ Policy!Leave
  <1>1. ClientsOK /\ FileOK /\ TypeOK
    BY DEF IInv, TypeOK, ClientsOK, FileOK
  <1>2. CASE Ban(cmd)
    <2>1. /\ clock' = clock /\ up' \in BOOLEAN
          /\ clients' = clients \/ \E n \in Clients : clients' = Drop(n)
      BY <1>1, <1>2, BanStep
    <2>2. ClientsOK' /\ Policy!Leaving
      BY <1>1, <2>1, DropLeaves
    <2>3. CASE file' = file
      <3>1. FileOK'
        BY <1>1, <2>1, <2>3
           DEF FileOK, OneLinePerAddress, DatesPast, DurationsFit
      <3>2. Policy!Leave
        BY <2>1, <2>2, <2>3 DEF Policy!Leave
      <3> QED
        BY <2>1, <2>2, <3>1, <3>2
    <2>4. ASSUME file' # file
          PROVE  FileOK' /\ Policy!Ban
      <3> DEFINE ip == BannedIp(cmd)
                 l == NewLine(ip, cmd.count)
      <3>1. /\ ip \in AnyIp /\ cmd.count \in Counts \cup {NoDuration}
            /\ \A i \in DOMAIN file : file[i].ip # ip
            /\ file' = Append(file, l)
        BY <1>1, <1>2, <2>4, BanStep, CommandFacts
      <3>2. FileOK' /\ ToSet(file') = ToSet(file) \cup {l}
        BY <2>1, <3>1, AppendKeeps
      <3>3. \A b \in ToSet(file) : b.ip # ip
        BY <3>1 DEF ToSet
      <3>4. l = [ip |-> ip, duration |-> DurationOf(cmd.count), date |-> clock]
        BY DEF NewLine
      <3>5. Policy!Ban
        BY <2>1, <2>2, <3>1, <3>2, <3>3, <3>4 DEF Policy!Ban
      <3> QED
        BY <3>2, <3>5
    <2> QED
      BY <2>1, <2>2, <2>3, <2>4
  <1>3. CASE Unban(cmd)
    <2>1. /\ clock' = clock /\ up' \in BOOLEAN /\ clients' = clients
      BY <1>1, <1>3, UnbanStep
    <2>2. ClientsOK' /\ Policy!Leaving
      BY <1>1, <2>1, DropLeaves
    <2>3. CASE file' = file
      <3>1. FileOK'
        BY <1>1, <2>1, <2>3
           DEF FileOK, OneLinePerAddress, DatesPast, DurationsFit
      <3>2. Policy!Leave
        BY <2>1, <2>2, <2>3 DEF Policy!Leave
      <3> QED
        BY <2>1, <2>2, <3>1, <3>2
    <2>4. ASSUME file' # file
          PROVE  FileOK' /\ Policy!Lift
      <3> DEFINE ip == cmd.target
      <3>1. /\ ip \in AnyIp /\ Banned(ip)
            /\ file' = RemoveAt(file, FirstLine(ip))
        BY <1>1, <1>3, <2>4, UnbanStep
      <3>2. FileOK' /\ ToSet(file') = {b \in ToSet(file) : b.ip # ip}
        BY <2>1, <3>1, CutKeeps
      <3>3. Policy!Lift
        BY <2>1, <3>1, <3>2 DEF Policy!Lift
      <3> QED
        BY <3>2, <3>3
    <2> QED
      BY <2>1, <2>2, <2>3, <2>4
  <1> QED
    BY <1>2, <1>3 DEF Execute

----------------------------------------------------------------------------
(* Commands waiting in the buffer. *)
LEMMA QueueFacts ==
    ASSUME NEW q \in Seq(AllCommands)
    PROVE  /\ \A cmd \in AllCommands : Append(q, cmd) \in Seq(AllCommands)
           /\ q # <<>> => Head(q) \in AllCommands /\ Tail(q) \in Seq(AllCommands)
  OBVIOUS

(* A line two commands have grown into is one the parser can meet. *)
LEMMA MergedFacts ==
    ASSUME NEW first \in AllCommands, NEW second \in AllCommands,
           NEW line \in Merged(first, second)
    PROVE  line \in AllCommands
  <1> DEFINE counts == Counts \cup {NoDuration}
             admins == {first.admin, first.admin \/ second.admin}
  <1>1. /\ \A ip \in Ip, c \in counts, a \in BOOLEAN :
             BanCommand("ip", ip, c, a) \in AllCommands
        /\ \A n \in Clients, c \in counts, a \in BOOLEAN :
             BanCommand("num", n, c, a) \in AllCommands
        /\ \A ip \in Ip, a \in BOOLEAN : UnbanCommand(ip, a) \in AllCommands
        /\ \A name \in {"ban", "unban"}, a \in BOOLEAN :
             Malformed(name, ZeroIp, a) \in AllCommands
    <2>1. \A ip \in Ip, c \in counts, a \in BOOLEAN :
             BanCommand("ip", ip, c, a) \in AllCommands
      BY DEF AllCommands, CommandsBy
    <2>2. \A n \in Clients, c \in counts, a \in BOOLEAN :
             BanCommand("num", n, c, a) \in AllCommands
      BY DEF AllCommands, CommandsBy
    <2>3. \A ip \in Ip, a \in BOOLEAN : UnbanCommand(ip, a) \in AllCommands
      BY DEF AllCommands, CommandsBy
    <2>4. \A name \in {"ban", "unban"}, a \in BOOLEAN :
             Malformed(name, ZeroIp, a) \in AllCommands
      BY DEF AllCommands, CommandsBy
    <2> QED
      BY <2>1, <2>2, <2>3, <2>4
  <1>2. \A cmd \in {first, second} :
           cmd.ok => \A c \in counts, a \in BOOLEAN :
                        BanCommand(cmd.by, cmd.target, c, a) \in AllCommands
    BY <1>1, CommandFacts
  <1>3. /\ first.admin \in BOOLEAN /\ admins \subseteq BOOLEAN
        /\ first.name \in {"ban", "unban"}
        /\ first.count \in counts /\ second.count \in counts
    BY CommandFacts
  <1>4. CASE line \in {Malformed(first.name, ZeroIp, a) : a \in admins}
    BY <1>1, <1>3, <1>4
  <1>5. CASE /\ first.ok
             /\ \/ line = first
                \/ \E c \in Counts :
                      line = BanCommand(first.by, first.target, c, first.admin)
    BY <1>2, <1>3, <1>5
  <1>6. CASE /\ second.ok
             /\ \E c \in counts, a \in admins :
                   line = BanCommand(second.by, second.target, c, a)
    BY <1>2, <1>3, <1>6
  <1>7. CASE /\ second.ok /\ second.by = "ip"
             /\ \E a \in admins : line = UnbanCommand(second.target, a)
    <2>1. second.target \in Ip
      BY <1>7, CommandFacts
    <2> QED
      BY <1>1, <1>3, <1>7, <2>1
  <1> QED
    BY <1>3, <1>4, <1>5, <1>6, <1>7 DEF Merged

BufferOK == /\ cbuf \in Seq(AllCommands)
            /\ open \in BOOLEAN
            /\ open => cbuf # <<>>

LEMMA PutFacts ==
    ASSUME BufferOK, NEW cmd \in AllCommands, NEW newline \in BOOLEAN,
           Put(cmd, newline)
    PROVE  BufferOK'
  <1>1. open' = ~newline
    BY DEF Put
  <1>2. CASE open
    <2>1. PICK line \in Merged(Last(cbuf), cmd) : cbuf' = [cbuf EXCEPT ![Len(cbuf)] = line]
      BY <1>2 DEF Put
    <2>2. Last(cbuf) \in AllCommands /\ Len(cbuf) \in DOMAIN cbuf
      BY <1>2 DEF BufferOK, Last
    <2>3. line \in AllCommands
      BY <2>1, <2>2, MergedFacts
    <2> QED
      BY <1>1, <2>1, <2>2, <2>3 DEF BufferOK
  <1>3. CASE ~open
    <2>1. cbuf' = Append(cbuf, cmd)
      BY <1>3 DEF Put
    <2> QED
      BY <1>1, <2>1 DEF BufferOK
  <1> QED
    BY <1>2, <1>3

LEMMA CommandsIn == Commands \subseteq AllCommands
  BY BanAssumption DEF Commands, CommandsBy, AllCommands

LEMMA InitInv == Init => IInv /\ Policy!Init
  <1> SUFFICES ASSUME Init
               PROVE  IInv /\ Policy!Init
    OBVIOUS
  <1>1. TypeOK
    <2>1. /\ cbuf \in Seq(AllCommands) /\ file \in Seq(Line)
          /\ open = FALSE
      BY DEF Init
    <2>2. open \in BOOLEAN /\ (open => cbuf # <<>>)
      BY <2>1
    <2>3. up \in BOOLEAN /\ clock \in Nat
      BY DEF Init
    <2> QED
      BY <2>1, <2>2, <2>3 DEF Init, TypeOK, AnyIp, AllCommands
  <1>2. OneLinePerAddress /\ DatesPast /\ DurationsFit
    BY DEF Init, OneLinePerAddress, DatesPast, DurationsFit
  <1>3. Policy!Init
    BY DEF Init, Policy!Init, ToSet
  <1> QED
    BY <1>1, <1>2, <1>3 DEF IInv

LEMMA FileKept ==
    ASSUME FileOK, file' = file, clock' = clock
    PROVE  FileOK'
  BY DEF FileOK, OneLinePerAddress, DatesPast, DurationsFit

(* A player let in has an address whose ban, if it has one, is over. *)
LEMMA EnterStep ==
    ASSUME IInv, NEW n \in Clients, NEW ip \in Ip, DirectConnect(n, ip),
           clients' # clients
    PROVE  ClientsOK' /\ Policy!Enter
  <1> DEFINE player == [state |-> "connected", ip |-> ip]
  <1>1. /\ clients \in [Clients -> [state : {"free", "connected", "active"}, ip : AnyIp]]
        /\ clients[n].state = "free"
        /\ clients' = [clients EXCEPT ![n] = player]
        /\ UNCHANGED <<clock, file>>
        /\ ip \in AnyIp
    BY DEF DirectConnect, IInv, TypeOK, AnyIp
  <1>2. Players' = [Players EXCEPT ![n] = ip] /\ Players[n] = ZeroIp
    BY <1>1 DEF Players
  <1>3. ClientsOK'
    BY <1>1 DEF ClientsOK
  <1>4. ASSUME NEW b \in ToSet(file), b.ip = ip
        PROVE  ~Policy!InForce(b, clock)
    <2>1. PICK i \in DOMAIN file : b = file[i]
      BY <1>4 DEF ToSet
    <2>2. Banned(ip)
      BY <1>4, <2>1 DEF Banned, LinesOf
    <2>3. i = FirstLine(ip)
      BY <1>4, <2>1, <2>2, OneLine DEF IInv
    <2>4. Expired(ip)
      BY <2>2 DEF DirectConnect, Admitted
    <2>5. b.duration # Forever /\ Remaining(b) <= 0
      BY <2>1, <2>3, <2>4 DEF Expired
    <2>6. b \in Line /\ clock \in Nat /\ b.date <= clock /\ b.duration < IntHalf
      BY <2>1 DEF IInv, TypeOK, DatesPast, DurationsFit
    <2>7. b.duration - (clock - b.date) <= 0
      BY <2>5, <2>6, ExpiredIsOver DEF Remaining
    <2>8. ~(b.duration - (clock - b.date) > 0)
      BY <2>6, <2>7 DEF Line
    <2> QED
      BY <2>5, <2>8 DEF Policy!InForce, Forever, Policy!Forever
  <1>5. /\ Players[n] = ZeroIp
        /\ \A b \in ToSet(file) : b.ip = ip => ~Policy!InForce(b, clock)
        /\ Players' = [Players EXCEPT ![n] = ip]
        /\ UNCHANGED <<clock, ToSet(file)>>
    BY <1>1, <1>2, <1>4
  <1>6. Policy!Enter
    BY <1>1, <1>5 DEF Policy!Enter, Players
  <1> QED
    BY <1>3, <1>6

(* Every step keeps the invariant and is a step of the policy or none. *)
LEMMA StepInv == IInv /\ [Next]_vars => IInv' /\ [Policy!Next]_(Policy!pvars)
  <1> SUFFICES ASSUME IInv, [Next]_vars
               PROVE  IInv' /\ [Policy!Next]_(Policy!pvars)
    OBVIOUS
  <1> USE DEF AllCommands
  <1>1. /\ ClientsOK /\ FileOK /\ up \in BOOLEAN /\ clock \in Nat
        /\ BufferOK
    BY DEF IInv, TypeOK, ClientsOK, FileOK, BufferOK
  <1>2. ASSUME ClientsOK', FileOK', up' \in BOOLEAN, clock' \in Nat,
               BufferOK'
        PROVE  IInv'
    BY <1>2 DEF IInv, TypeOK, ClientsOK, FileOK, BufferOK
  <1> HIDE DEF AllCommands
  <1>3. CASE RconCommand
    <2>1. PICK cmd \in AllCommands : Execute(cmd)
      BY <1>3, CommandsIn DEF RconCommand
    <2>2. BufferOK'
      BY <1>1, <1>3 DEF RconCommand, BufferOK
    <2> QED
      BY <1>1, <1>2, <2>1, <2>2, ExecuteStep DEF Policy!Next
  <1>4. CASE AppendCommand
    <2>1. PICK cmd \in AllCommands, newline \in BOOLEAN : Put(cmd, newline)
      BY <1>4, CommandsIn DEF AppendCommand
    <2>2. UNCHANGED <<up, clock, file, clients>>
      BY <1>4 DEF AppendCommand
    <2>3. BufferOK'
      BY <1>1, <2>1, PutFacts
    <2>4. UNCHANGED Policy!pvars
      BY <2>2 DEF Policy!pvars
    <2> QED
      BY <1>1, <1>2, <2>2, <2>3, <2>4, FileKept DEF ClientsOK
  <1>5. CASE ExecuteBuffer
    <2>1. Head(cbuf) \in AllCommands /\ Execute(Head(cbuf))
      BY <1>1, <1>5, QueueFacts DEF ExecuteBuffer, BufferOK
    <2>2. BufferOK'
      <3>1. cbuf' \in Seq(AllCommands)
        BY <1>1, <1>5, QueueFacts DEF ExecuteBuffer, BufferOK
      <3>2. cbuf' = Tail(cbuf) /\ open' = (open /\ Tail(cbuf) # <<>>)
        BY <1>5 DEF ExecuteBuffer
      <3>3. open' \in BOOLEAN /\ (open' => cbuf' # <<>>)
        BY <3>2
      <3> QED
        BY <3>1, <3>3 DEF BufferOK
    <2> QED
      BY <1>1, <1>2, <2>1, <2>2, ExecuteStep DEF Policy!Next
  <1>6. ASSUME NEW n \in Clients, NEW ip \in Ip, DirectConnect(n, ip)
        PROVE  IInv' /\ [Policy!Next]_(Policy!pvars)
    <2>1. UNCHANGED <<up, clock, file>>
      BY <1>6 DEF DirectConnect
    <2>2. ExpiryCommand(ip) \in AllCommands
      BY DEF AllCommands
    <2>3. BufferOK'
      <3>1. CASE Put(ExpiryCommand(ip), TRUE)
        BY <1>1, <2>2, <3>1, PutFacts
      <3>2. CASE UNCHANGED <<cbuf, open>>
        BY <1>1, <3>2 DEF BufferOK
      <3> QED
        BY <1>6, <3>1, <3>2 DEF DirectConnect, AskToLift
    <2>4. CASE clients' # clients
      <3>1. ClientsOK' /\ Policy!Enter
        BY <1>6, <2>4, EnterStep
      <3> QED
        BY <1>1, <1>2, <2>1, <2>3, <3>1, FileKept DEF Policy!Next
    <2>5. CASE clients' = clients
      <3>1. UNCHANGED Policy!pvars
        BY <2>1, <2>5 DEF Policy!pvars
      <3> QED
        BY <1>1, <1>2, <2>1, <2>3, <2>5, <3>1, FileKept DEF ClientsOK
    <2> QED
      BY <2>4, <2>5
  <1>7. ASSUME NEW n \in Clients, EnterGame(n)
        PROVE  IInv' /\ [Policy!Next]_(Policy!pvars)
    <2>1. /\ UNCHANGED <<up, clock, file, cbuf, open>>
          /\ clients[n].state = "connected"
          /\ clients' = [clients EXCEPT ![n].state = "active"]
      BY <1>7 DEF EnterGame
    <2>2. ClientsOK' /\ Players' = Players
      BY <1>1, <2>1 DEF ClientsOK, Players
    <2>3. UNCHANGED Policy!pvars
      BY <2>1, <2>2 DEF Policy!pvars, Players
    <2>4. BufferOK'
      BY <1>1, <2>1 DEF BufferOK
    <2> QED
      BY <1>1, <1>2, <2>1, <2>2, <2>3, <2>4, FileKept
  <1>8. ASSUME NEW n \in Clients, Disconnect(n)
        PROVE  IInv' /\ [Policy!Next]_(Policy!pvars)
    <2>1. UNCHANGED <<up, clock, file, cbuf, open>> /\ clients' = Drop(n)
      BY <1>8 DEF Disconnect
    <2>2. ClientsOK' /\ Policy!Leaving
      BY <1>1, <2>1, DropLeaves
    <2>3. Policy!Leave
      BY <2>1, <2>2 DEF Policy!Leave
    <2>4. BufferOK'
      BY <1>1, <2>1 DEF BufferOK
    <2> QED
      BY <1>1, <1>2, <2>1, <2>2, <2>3, <2>4, FileKept DEF Policy!Next
  <1>9. CASE Tick
    <2>1. UNCHANGED <<up, file, clients, cbuf, open>> /\ clock' = clock + 1
      BY <1>9 DEF Tick
    <2>2. \A i \in DOMAIN file : file[i].date \in Nat /\ file[i].date <= clock
      <3>1. file \in Seq(Line) /\ DatesPast
        BY <1>1 DEF FileOK
      <3>2. \A i \in DOMAIN file : file[i] \in Line
        BY <3>1
      <3> QED
        BY <3>1, <3>2 DEF Line, DatesPast
    <2>3. DatesPast'
      BY <1>1, <2>1, <2>2 DEF DatesPast
    <2>4. FileOK'
      BY <1>1, <2>1, <2>3 DEF FileOK, OneLinePerAddress, DurationsFit
    <2>5. Policy!Pass
      BY <2>1 DEF Policy!Pass
    <2>6. BufferOK'
      BY <1>1, <2>1 DEF BufferOK
    <2> QED
      BY <1>1, <1>2, <2>1, <2>4, <2>5, <2>6 DEF Policy!Next, ClientsOK
  <1>10. CASE Restart
    <2>1. /\ UNCHANGED <<clock, file>> /\ up' = TRUE /\ cbuf' = <<>> /\ open' = FALSE
          /\ clients' = [n \in Clients |-> [state |-> "free", ip |-> ZeroIp]]
      BY <1>10 DEF Restart
    <2>2. ClientsOK'
      BY <2>1 DEF ClientsOK, AnyIp
    <2>3. /\ Clients \in SUBSET Clients
          /\ \A n \in Clients : clients'[n].state = "free"
          /\ \A n \in Clients \ Clients : clients'[n] = clients[n]
      BY <2>1
    <2>4. Policy!Leave
      BY <1>1, <2>1, <2>3, LeavingStep DEF Policy!Leave
    <2>5. BufferOK'
      <3>1. cbuf' \in Seq(AllCommands)
        BY <2>1
      <3>2. open' = FALSE
        BY <2>1
      <3> QED
        BY <3>1, <3>2 DEF BufferOK
    <2> QED
      BY <1>1, <1>2, <2>1, <2>2, <2>4, <2>5, FileKept DEF Policy!Next
  <1>11. CASE UNCHANGED vars
    <2>1. UNCHANGED <<up, clock, file, clients, cbuf, open>>
      BY <1>11 DEF vars
    <2>2. UNCHANGED Policy!pvars
      BY <2>1 DEF Policy!pvars
    <2>3. BufferOK'
      BY <1>1, <2>1 DEF BufferOK
    <2> QED
      BY <1>1, <1>2, <2>1, <2>2, <2>3, FileKept DEF ClientsOK
  <1> QED
    BY <1>3, <1>4, <1>5, <1>6, <1>7, <1>8, <1>9, <1>10, <1>11 DEF Next

(* The types of the commands, the clients and the lines of ban.txt. *)
THEOREM TypeCorrect == Spec => []TypeOK
  <1>1. IInv => TypeOK
    BY DEF IInv
  <1> QED
    BY <1>1, InitInv, StepInv, PTL DEF Spec

(* ban.txt never has two lines of one address, whatever commands are given *)
(* and wherever a wild pointer ends the process: the first line is the ban.*)
THEOREM OneLineOfEach == Spec => []OneLinePerAddress
  <1>1. IInv => OneLinePerAddress
    BY DEF IInv
  <1> QED
    BY <1>1, InitInv, StepInv, PTL DEF Spec

(* ban(), unban(), the check of hook_SV_DirectConnect and the restarts of  *)
(* the process implement the policy: no player enters from an address      *)
(* whose ban is in force, and a ban goes only when it is lifted.           *)
THEOREM ImplementsPolicy == Spec => PolicySpec
  BY InitInv, StepInv, PTL DEF Spec, PolicySpec, Policy!Spec
============================================================================
