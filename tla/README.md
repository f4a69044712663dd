# Verification of libcod1

libcod1 is a shared library that is loaded into the Call of Duty 1.1 server on
Linux. It patches the running game binary: some functions of the game are
replaced ("custom_..."), some are wrapped ("hook_..."), and script functions
("gsc_...") are added. This directory holds TLA+ models of the parts of it
that keep state over time, the TLC configurations that check them and the
proofs, checked by TLAPS, of theorems about them.

Everything the library calls in the game binary is outside the repository; it
is modelled from how the code in `src/` uses it and marked external in
`PROJECT.json`. Paths below are relative to the repository, and lines without
a file are lines of `src/libcod.cpp`.

## Inventory

The server is one thread. It takes one packet, one command or one client frame
at a time, so a handler is one action of a model; what interleaves is handlers
with each other, with the clock, with the network and with what the
administrator changes. Only the asynchronous SQLite queries and the
asynchronous shell commands have threads of their own.

| Component | State | Operations | Talks to | Hard part |
|---|---|---|---|---|
| Rate limits (640-830, and the head of each connectionless handler) | `buckets[]`, `bucketHashes[]`, `outboundLeakyBucket`, the static bucket of `SVC_ApplyRconLimit` | `SVC_BucketForAddress`, `SVC_RateLimit`, `SVC_RateLimitAddress`, six handlers | every connectionless packet | a hash table threaded by hand, a clock that may be set back, 64-bit times in an `int`, slots that change owner |
| Bans (966-1044, 1266-1758, `src/gsc_utils.cpp` 512-545) | `ban.txt`, the command buffer, client slots | `ban`, `unban`, `banInfoForIp`, the check at connect | connecting, `SV_DropClient`, scripts | commands that run later than they were asked for, uninitialised pointers, `int` overflow, the file outlives the process |
| Downloads (1871-2036) | the download fields of `client_t` | `custom_SV_BeginDownload_f`, `custom_SV_WriteDownloadToClient` | snapshots, reliable commands of the client | a sliding window over a channel that loses snapshots, cvars changed on the way |
| Challenges and connecting (832-947, 1044-1069) | `svs.challenges[]`, `customChallenge[]` | `custom_SV_GetChallenge`, `SV_AuthorizeRequest`, `sv_connectMessage` | authorize server, `SV_DirectConnect` | a table that recycles the oldest entry, an answer racing a timeout |
| Packets and messages (512-590, 1165-1263, 1761-1869) | client state, `serverId`, reliable sequence numbers | `custom_SV_PacketEvent`, `custom_SV_ExecuteClientMessage`, `custom_SV_ExecuteClientCommand`, `custom_SV_SendClientGameState` | everything a client asks for | messages from before a map change, acknowledgements out of range, a client dropped inside a message |
| Snapshots (2038-2203) | `nextSnapshotTime`, `rateDelayed`, fragments | `custom_SV_SendClientMessages`, `custom_SV_SendMessageToClient`, `SV_RateMsec` | downloads, the network channel | rate limits against starvation |
| Sprint (2286-2300, 2633-2708, 2853-2871) | `sprintActive`, `sprintRequestPending`, `sprintTimer` | the `sprint` command, `PM_UpdateSprint`, spawn | movement code | two timers in one variable, early returns |
| Player state (2205-2284, 2710-2851, `src/jump.cpp`, `src/gsc_player.cpp`, `src/gsc_bots.cpp`) | `customPlayerState[]` | setters for scripts, readers in the movement code, the fps counter | scripts | fields reset at some transitions and not at others |
| Localized strings (386-415) | `localizedStringIndex` | `custom_G_LocalizedStringIndex` | configstrings | the index at its limit |
| Heartbeat (592-645) | `sv_master` cvars, resolved addresses | `custom_SV_MasterHeartbeat` | name resolution | a failure remembered for good |
| Hooks (`src/libcod.hpp`, `src/cracking.cpp`) | the patched bytes | unhook, call, hook again | every wrapped function | an error that unwinds through the call |
| SQLite (`src/gsc_sqlite.cpp`) | list of open databases, list of tasks | open, query, close, a query thread | map change | two threads and a list, one mutex used in places |
| Shell commands (`src/gsc_exec.cpp`) | list of tasks | run, run in a thread, collect | scripts | a thread per task and no lock |
| Pure functions (220-316, 387-415, 443-485, 1121-1145) | none | `str_iseq`, `shouldServeFile`, `custom_va`, pak lists | | |

What makes each correct:

* Rate limits. No more requests get through than the limit allows, over any
  window and for any behaviour of the clock; a sender that is within its limit
  is served; refusals cost nothing; addresses never share a bucket; what
  reclaiming a bucket forgives is bounded; replies share one bound, which
  packets that are dropped do not use up.
* Bans. One line per address; a banned address does not enter until the ban
  ends; a ban ends when it was meant to; commands reach the player they name.
* Downloads. The client gets the file, in order and whole, or an error; a
  client that follows the protocol is never dropped; buffers are never
  overrun; a download that was begun ends.
* Challenges. One unconnected challenge per address; the connect message is
  shown as often as configured for each new challenge; a client is let through
  by the authorize server or by its timeout.
* Messages. Commands are executed in order and once; only the messages of the
  current map move a player; a dropped client does nothing more.
* Snapshots. No client exceeds its rate, none starves.
* Sprint. A player sprints for at most the sprint time and recovers for the
  recovery time before sprinting again.
* SQLite and shell commands. A task is run once, its callback called at most
  once, no statement is finalized twice, nothing freed is used.

## Modules

| Module | Models |
|---|---|
| `RateLimit` | `SVC_RateLimit` as operators on one bucket, with the conversion of a 64-bit difference to an `int` |
| `LeakyBucket` | one bucket, the clock and the requests |
| `LeakyBucketWindow` | `LeakyBucket` seen over a window of time, its properties and inductive invariants |
| `SharedLemmas` | what settling and charging one bucket does, linked lists, queues and least elements, proved; used by five modules of proofs |
| `ConnectionlessLimits` | the table of buckets with its chains, the outbound and rcon buckets, the limits of the six handlers and their verdicts |
| `LimitsWindow` | `ConnectionlessLimits` observed: what one address, and all of them together, get through, and what a refused address is refused for |
| `Challenges` | the table of challenges, the authorize server, the connect message; extends `LeakyBucket`, which all replies are charged to |
| `ReplyProofs` | the theorems about `LeakyBucketWindow` and `Challenges` |
| `ConnectionlessLimitsProofs` | the theorems about `ConnectionlessLimits` and `LimitsWindow` |
| `BanPolicy` | what the ban commands promise |
| `BanList` | the commands, `ban.txt`, the command buffer, the check at connect; implements `BanPolicy` |
| `BanListProofs` | the theorems about `BanList` |
| `Download` | the download of one file by one client over a lossy channel |
| `Sprint` | sprinting of one player: the command, `PM_UpdateSprint`, the resets |
| `SprintWindow` | `Sprint` seen over a window of time, its properties and inductive invariant |
| `SendSchedule` | when a client is sent to, and how much: snapshots, fragments, gamestates, the pace and the rate |
| `SendScheduleProofs` | the theorems about `SendSchedule` |
| `ClientMessage` | the messages of one client from its connection into the world |
| `PlayerProofs` | the theorems about `ClientMessage`, `Download` and `SprintWindow` |
| `AsyncSqlite` | the list of asynchronous queries, the query thread, the store of connections, the map change |
| `AsyncSqliteProofs` | the theorems about `AsyncSqlite` |
| `AsyncExec` | the list of shell commands, a thread for each, the walk that collects them |
| `AsyncExecProofs` | the theorems about `AsyncExec` |
| `MC...` | instances of the above for TLC |

Definitions whose comment begins with "Mutant" are plausible mistakes in the
definition that follows; each property fails when the definition is replaced
by its mutant, which shows that the property constrains the code.

### Rate limits

`RateLimit` keeps the arithmetic of lines 734-761: `Interval` is the `int` the
difference of two `uint64_t` is cut to (`IntHalf` is 2^31 in the code),
`Settle` the leaking with its remainder, `Limited` the verdict and `Charge`
the bucket afterwards. The code settles a bucket whether or not the request is
refused, and so does `Charge`. `burst` is a `signed char`; with limits of 10
and 20 it cannot overflow, which is what the type invariant says.

`LeakyBucket` adds the clock. `Sys_Milliseconds64` counts from the second of
its first call, so it starts anywhere in 0..999. It reads `gettimeofday`,
which may be set back (`StepBack`); it is not set back to before its origin,
where the unsigned difference would be huge.

`ConnectionlessLimits` keeps the table as the code does: `table.slots[i]` is
`buckets[i]` with its `prev` and `next`, `table.heads[h]` is
`bucketHashes[h]`, a slot with `type == 0` is one whose `adr` is `NoAddress`.
`BucketForAddress` walks the chain and else takes the first slot that is free
or can be reclaimed; `Unlink` and `Push` are the pointer assignments. The two
readings of the clock within one packet are taken as one. Five handlers are
limited in the same way and differ in the limit (`LimitReply`);
`RemoteCommand` is `SVC_ApplyRconLimit`. `verdict` keeps what became of the
packet; the handlers tell their refusals apart in what they report (786-804,
812-827).

`LimitsWindow` looks at packets and verdicts alone. `used`, `replies` and
`guesses` are debts: what a packet that was let through costs is added, what
the limit allows is taken off in every millisecond, so that a bound on the debt
is a bound over every window. They begin again when the clock is set back,
which empties the buckets. `repliesPaid` and `guessesPaid` are instants: when
what was let through, one after the other, will have been paid for.

### Challenges

`Challenges` extends `LeakyBucket`: every packet here is one that
`outboundLeakyBucket` admits (`Admit`), or one it refuses (`Refuse`, which is
`PacketRefused`); `OtherReply` stands for the packets of other handlers that
are charged to the same bucket. `GetChallengeAgain` and `GetChallengeAnew` are
the two ways through the search of `custom_SV_GetChallenge`, `Answer` what
follows on both: a LAN address, a name not resolved, a timeout, or a question
to the authorize server. `svsTime` is the clock as the last `SV_Frame` saw it;
it lags behind `now`, which the limiter reads itself. `ConnectIgnored` is the
connect message, `DirectConnect` the game's function once the message is read;
its own refusals are packets that change nothing. `AuthorizeIpPacket` is the
answer of the authorize server, which may arrive at any later time, for a
challenge that is not in the table any more, and not at all; of its verdicts
those that change the table or answer the client are kept. `rand()` yields any
value, but for one the address has already: the code would take two such
challenges for one. The limit per address and the bans at connect, which come
before, are in `ConnectionlessLimits` and `BanList`; a packet they refuse
changes nothing here. The clock only goes forward in this module: nothing is
said of challenges over an instant at which it is set back. The observers are
`read`, `firstAsked` and `newcomers`.

### Bans

One state variable per thing the code keeps: `file` for the lines of
`ban.txt` (address, duration, date; names and reasons are left out), `cbuf`
for the lines of the command buffer, `clients` for `svs.clients[]`. Commands are records of
what the options parse to; a command with options that are not well formed is
one kind of record, whatever is wrong with it. `-d 0h` is left out (it bans
for no time), and so are numbers `std::stoi` cannot convert (it throws, and
nothing catches that).

`gsc_utils_ban` and `gsc_utils_unban` append without a newline
(`src/gsc_utils.cpp` 524 and 540), so what is appended next in the same frame
goes on in their line (`open`). `Merged` is what the parser can make of such a
line: mostly an error, because an option stands in it twice or an address has
text behind it; the first command, if a reason or a client number takes the
text in; or, if the first had no options of weight, the first command's name
with the options of the second. A connect appends `unban <ip>` with its
newline, before the connect message and `SV_DirectConnect` may still refuse
the player (`DirectConnect`).

`clAdmin` and `clToBan` are read before they are written on some paths. The
outcome is a choice over every pointer: NULL, any client, or one that ends the
process (`Wild`). Signed overflow of the duration wraps, which is what the
build's instructions do. `Restart` starts the server again with `ban.txt` as
it was left. `FS_WriteFile` and the append are taken as atomic. The zombie
state a dropped client spends two seconds in is not told apart from a free
slot, and a player who reconnects into his own slot is not modelled.

### Downloads

`WriteDownload` is the whole of lines 1913-2036. Its loop is the recursive
function `ReadAhead`, which has at most `WindowSize` turns because each adds a
block to the window; a read error may end it at any turn. The client, the
network and the game's `SV_NextDownload_f` and `SV_BeginDownload_f` are
external. Snapshots are lost but not reordered, since the network channel
drops old packets; acknowledgements are reliable commands and arrive in order.
The file is the sequence of its offsets, so that a byte in the wrong place is
seen. A file that becomes shorter while it is sent is not modelled, nor is
more than one download of a client. An empty file (1951) is refused, and its
handle stays open if downloads are allowed.

The number of a block is written with `MSG_WriteShort` (2020, `Short`), while
the server counts blocks in an `int` and waits for the number it counted. A
client that has taken as many blocks as there are numbers waits for one that
never comes: `Completes` excepts exactly that client. With blocks of 2048 bytes
that is a file of 128 MB, or of 64 MB if the client reads the number signed,
which is not in the repository. The block that comes round to number 0 would
also be read as one that carries the size of the file; the model leaves that
out, the client being stuck already.

### Sprint

`PM_UpdateSprint` has one operator per way through lines 2633-2697, told
apart by the early returns: the disjuncts `FrameTakesBack`,
`FrameWaitsToStand` and `FrameWaitsToLand` are the three `return`s, and only
the last of them moves the timer. The keys, the stance, the ground and the
length of the move (`pml->msec`, at least one millisecond) are the game's and
the player's, so each frame finds any combination of them. The sprint times
are whole milliseconds, as with the cvars' defaults; a sprint time or least
time below zero is left out. `SprintWindow` adds observers: the time sprinted
(`used`), the time the timer was left to run down (`rested`), the length of
the present sprint (`lasted`) and whether the cvars stayed as they were when
it began (`steady`).

### Snapshots

`SendSchedule` is the way of one client through `custom_SV_SendClientMessages`
(2064-2106). Its disjuncts `FrameWaits`, `FrameFragment`, `FrameSnapshot` and
`FrameFast` are the branches of the loop; `Sent` is
`custom_SV_SendMessageToClient` with `SV_RateMsec` (`RateMsec`) in it. Times
are relative: `delay` is `nextSnapshotTime - svs.time`, so that the clock needs
no bound. Of a message only its size is kept, and of the network channel only
how much of a message in fragments is still unsent. A gamestate sends the
fragments that are left before it begins (`Flushed`), and the client that is
found unpure is sent a last snapshot at any time (`UnpureClient`). The channel
itself, `SV_DropClient`, the user's rate and `snaps` and the cvars are
external, and change at any instant. The observers are `debt` (what was sent
and not yet paid for by the time since), `since` (the time since the last
snapshot) and `silent` (the time without a packet). Clients on the LAN and
fast downloads are not held to a rate; there the window of the observers ends.
`rateDelayed` and the statistics of `sv_showAverageBPS` are only reported and
are left out.

### Messages

`ClientMessage` has the branches of `custom_SV_PacketEvent` after the client
is found, and of `custom_SV_ExecuteClientMessage`, as the disjuncts of
`PacketEvent`. `serverId` keeps the high and the low bits of
`sv_serverId_value` apart as `map` and `restart`; both are far from wrapping
within the bounds. Message numbers are only compared with
`gamestateMessageNum`, so each message carries the outcome of the comparison
(`after`), and setting `gamestateMessageNum` relabels what is under way. Of
the commands a client sends, those of a download are kept: they are what
`strstr(..., "nextdl")` and the gamestate after a download depend on. A
negative `messageAcknowledge` and a packet the channel does not accept are
lost packets; an oversize message and an unpure client are reasons for
`DropClient`, which may come at any time. The client, the network, spawning
and restarting are external.

Two behaviours of the code had to be excepted. A client that acknowledges what
is exactly `MAX_RELIABLE_COMMANDS` behind is within the array, and yet out of
range for line 562: its commands are forgotten and its message is ignored
(`overrun`). And the gamestate a client asks for after its downloads carries
the `serverId` the client names already, so line 1805 obeys its messages and
line 1842 never sends that gamestate again: if it is lost, the client stays
out until the next map or restart. `Stranded` is that state; `EntersWorld`
says that no other loss has such an end.

### SQLite

Tasks are threaded through `heap` by `next` and `prev` as the code threads them
through allocated blocks; addresses are reused after `free`, so a pointer that
is kept too long points at another task. The query thread takes one step per
access to shared state; what the game thread does under the lock is one
action, what it does without the lock (`create_task` appends to the list) is
one too, since the query thread sees the list only through the pointers it
has read. The result rows are left out, a task is prepared, run, finalized or
not; the entity a callback belongs to is only passed on.

Scripts of the new map run before `free_sqlite_db_stores_and_tasks` is called
(487-498 in `src/libcod.cpp`), so connections they have opened are closed
under them (`UseClosed`), and the map change finalizes the statements of all
tasks, finalized ones and unprepared ones included (`FreeWild`). Either may
end the process (`up`). Callbacks come in the order of the list unless
`checkdone` passes a task before it is done; a callback that calls
`checkdone` itself is left out. The functions that start the thread and
collect results are compiled but left out of the script function table (`#if
0`, `src/gsc.cpp` 53-58); only the methods that add a query for an entity are
in it (155). The model says what registering all of them means.

### Shell commands

`AsyncExec` threads its tasks through `heap` as `AsyncSqlite` does. There is
no lock: the game thread alone walks, extends and shortens the list, and the
thread of a task writes only to its task and last of all sets `done`, so each
step of the thread (`Popen`, one byte in `Read`, `Done`) and each turn of
`checkdone` is an action. `Create` is what `gsc_exec_async_create` and
`gsc_exec_async_create_nosave` share. Output is bytes of three kinds: any
character, a newline, and 0xFF, which equals `EOF` once it is stored in a
`char`; `Put` ends a full line and drops the byte that did not fit, in the
threads as in `gsc_exec` (`After` is what it makes of the first bytes, `Lines`
of those before `EOF`). The steps of the thread of an unsaved task
are the same without the output. Stores of the thread are seen in their
order, as on x86. A callback creates tasks of its own (`Script`), but one that
calls `checkdone` is left out. The asynchronous functions are compiled and not
registered (`#if 0`, `src/gsc.cpp` 14-18); `gsc_exec` is.

## Runs

| Run | Question | Result |
|---|---|---|
| `leaky_window` | One bucket: upper bound, service, free refusals over any window | holds |
| `limits_table` | Four addresses, three slots, two chains, both limits: the chains of the table | holds |
| `limits_window` | All handlers, both limits, clock set back: what an address and all addresses get through, refusals only for what was let through, a full table only while it is in use | holds |
| `ban_list` | One line per address, refinement of `BanPolicy` | holds |
| `ban_expiry` | The queued `unban` lifts an expired ban | violated |
| `download` | Order, completeness, buffers, no false drop; a download that was begun ends with the whole file | holds |
| `sprint` | How long a player sprints over any window, how long a sprint lasts | holds |
| `send_schedule` | No client above its rate or faster than its pace, none starves, no message is cut off, fragments end | holds |
| `client_message` | The window of reliable commands, no command lost, no move in a map the client does not have; a client that stays gets into the world | holds |
| `challenges` | No early timeout, the connect message is read before entry, a flood cannot take a young challenge, a patient client is answered | holds |
| `exec` | The list and the walk, the owner of a task, the whole output to the callback; every command that ends is collected | holds |
| `sqlite` | The list, the pointers of both threads, the order of queries, callbacks at most once, queries and map changes end | holds |

The violated run is a disagreement between the code and its own message;
`PROJECT.json` quotes the line. More defects are in the models and have no run
of their own:

* a ban of an address nobody plays from may drop another player, because
  `clToBan` is used unwritten (lines 1342 and 1591; `TargetPointers`);
* an address with a debt at the limit of 20 can lose it to a request at the
  limit of 10: "Reclaim expired buckets" (694) uses the limit of the request
  and not the one the bucket was charged under. So an address that is given
  slots and loses them gets 20 requests through in 10 seconds, where each limit
  alone allows 10 (`AddressBound`);
* two `ban` or `unban` commands that scripts give in one frame become one line,
  and neither is carried out as it was meant (`src/gsc_utils.cpp` 524, 540);
* a download of more than 65535 blocks, or 32767, never ends (2020), as told
  under Downloads;
* a shell command that cannot be run, or whose thread cannot be created, stays
  in the list for ever (`src/gsc_exec.cpp` 104); a full line of its output
  loses a byte and a byte 0xFF ends it; and a map that gets the level number
  of an earlier one is called back for the commands of that map;
* the number of a slot without a player bans the address the slot last held,
  or 0.0.0.0 (line 1534 tests the address of an array element for NULL);
* a command whose first option is not `-a` sends its answer through a pointer
  that was never written (line 1343);
* the hours and days of a ban are multiplied in an `int` (line 1498): 24856
  days or more are written as a negative duration, over when it is first read;
* a sprint that was asked for while crouching starts when the player stands,
  although `player_sprint` was set to 0 in between: only the command looks at
  the cvar (2859), the movement code does not (2685);
* a client that is behind by the whole window of reliable commands loses them
  (line 562), and one whose gamestate after a download is lost stays out of the
  game (1805), as told under Messages;
* a map change may finalize a statement twice and closes connections the new
  map has opened (`src/gsc_sqlite.cpp` 75), as told under SQLite.

### Bounds, and why they are enough

* `leaky_window`: limit 2, period 3, an `int` of 20 values, 26 milliseconds:
  the interval of a bucket wraps to negative and past it to positive again
  while the clock runs, a settlement may leave any remainder, and the burst
  can be emptied and filled again. The proofs remove the bounds.
* `limits_table`: one address more than slots, three of four on one chain, so
  slots are reclaimed from the head, the middle and the end of a chain and
  change chains; one handler of each limit, since all do the same to the table,
  and steps back of two. The proofs remove the bounds.
* `limits_window`: three addresses for two slots on one chain, limits of 1 and
  2, a period of 2 milliseconds for addresses and of 1 for replies, five
  instants and a step back of two, all handlers: slots are lost and given again
  while they owe, and each refusal happens. The intervals do not wrap here;
  the proofs remove the bounds, the width of the `int` included.
* `challenges`: four addresses for three slots, one of them on the LAN, two
  values of `rand()`, a burst and a period of 1, a timeout of 1 and five
  milliseconds: slots are given up, cleared by a denial and taken again, and a
  challenge outlives the timeout, so that `PatientIsAnswered` has cases and a
  flood is at the limit of `Lifetime`. The proofs remove the bounds.
* `ban_list`: two addresses, one slot, two lines waiting, one unit of time,
  commands without `-a` (one with it may do nothing that one without may not):
  a ban can be asked for twice, expire, be lifted before or after it expires,
  and end the process between its steps, and lines grow together in any order.
  The proofs remove the bounds. `ban_expiry` is the same instance.
* `download`: a window of three over a file that takes up to six blocks, so
  every buffer is reused, and read in single bytes has one block more than
  there are numbers (`BlockNumbers`); two snapshots under way, one change of a
  cvar. The proofs remove the bounds.
* `sprint`: sprint times of 0, 2 and 4, moves of 1 and 2, a window of 14: the
  timer overshoots the sprint time by a part of a move, a sprint is used up
  and rested off more than once, and every cvar changes under way. The proofs
  remove the bounds.
* `send_schedule`: packets of 4 bytes, messages of 1, 4 and 9: one that fits,
  one of exactly one packet, which is followed by an empty fragment, and one of
  three; a rate below and one above the one up to which the header covers what
  a division loses. The proofs remove the bounds.
* `client_message`: a window of two, so that a client may be behind by none,
  one and all of it; two maps, one restart, three commands, of which three
  happen in one behaviour; one message under way to the server, one snapshot
  and any gamestates to the client, which is enough for a snapshot of the map
  before to arrive after the map change and for a gamestate to be overtaken. The
  proofs remove the bounds, but for the one message to the server.
* `sqlite`: three addresses, a list of two, one connection: addresses are
  reused, the list is full, and both of its ends are unlinked. Unlinking in the
  middle needs a third task in the list and is left to the proof. The proofs
  remove the bounds.
* `exec`: two tasks, of which one may wait for ever, and callbacks that append
  behind the one that is freed next; a command whose output has a full line, a
  newline and bytes behind the one taken for the end, and one without output;
  two levels. Unlinking in the middle of the list needs a third task and is
  left to the proof, which is for any number of them.

Deadlock is checked where the system goes on for ever. The download run stops
when the download is over and nothing is left to do, the SQLite run when the
process has ended, the challenges and the rate limits when the clock is at its
bound.

### Fairness

`download` checks `DownloadFairSpec`. Snapshots are written and client
commands executed in every server frame (weak fairness of `WriteDownload`,
`NextDownload`, and of the clock); the network delivers what is under way
(weak fairness of `Receive`), and does not lose every copy of a block that is
sent again and again (strong fairness of the reception of a block the client
waits for). No fairness is assumed of the loss of snapshots, of the client's
start or of the administrator.

`send_schedule` assumes that frames go on (weak fairness of `Frame`).
`FragmentsEnd` excepts a client that is sent gamestates without end, each of
which replaces what is left to send by fragments of its own.

`client_message`: snapshots are written and the client sends in every frame
(weak fairness), and of messages that are sent again and again one arrives
(strong fairness of each kind of reception). Nothing is assumed of the
moments of map changes, restarts, drops and of what else is lost.

`sqlite`: the query thread goes on (weak fairness of its steps), and the
game thread gets the lock in the end because the thread sleeps ten
milliseconds between walks (strong fairness of the map change that waits).

`exec`: commands end and their threads go on (weak fairness of each thread),
and once `checkdone` is called its walk goes on; scripts call it again and
again, which is their part (weak fairness of `Check`). `EveryCommandCollected`
supposes that the calls return, since a script that waits inside a callback
keeps the walk where it is.

`challenges`, like the other runs without fairness, checks what may never
happen: a client that does not ask again is never answered. What is owed to
one that asks is the action property `PatientIsAnswered`.

## Proofs

Every invariant and every safety action property that a passing run checks is
a theorem, for every value of the constants that the assumptions of its module
admit, and so is the refinement of `BanPolicy`. The inductive invariants were checked
by TLC on the instances before they were proved; the configurations name the
properties only.

### The bucket of replies: `ReplyProofs`

For every limit, every period, every width of the `int` that can hold one full
burst and one period more, and every behaviour of the clock
(`LimitAssumption`):

* `WindowTypes`: the type invariant; the content of a bucket stays within
  0..Burst although it is computed from an interval that wraps.
* `WindowBounded`: over any window, `wCount * Period <= elapsed + Burst *
  Period + Period - 1`. The bound is not inductive. The strengthening is a
  potential: the instant at which the bucket will be empty (`EmptyAt`). An
  admitted request moves it one period further, a settlement never moves it
  back unless the bucket is drained, in which case it is at most the present,
  and it is never more than a full burst ahead of the present.
  `PotentialInv` says that the requests admitted since the window was opened
  account for the distance it moved; `WindowInductive` proves it invariant.
* `EagerlyServed`: a sender that asks in every millisecond is served at least
  once per full period. `EagerInv` is the strengthening: such a sender keeps
  the bucket settled, so that the interval is small and does not wrap, and the
  instant at which it is admitted next (`FreeAt`) is never beyond the period
  it is waiting for. `EagerInductive` proves it invariant.
* `RefusalsAreFree`: a refusal leaves `FreeAt` where it was, an action
  property, from the type invariant.

### Challenges: `ReplyProofs`

For every number of addresses, slots and values, every burst, period, width of
the `int` and timeout (`LimitAssumption`, `ChallengesAssumption`):

* `NobodyTimesOutEarly`: `NoEarlyTimeout`. `Entries` is the strengthening: a
  slot that names an address holds a challenge that was issued after the first
  request of that address, whoever had the slot before.
* `ChallengesLiveLong`: a challenge that is given up is older than `Lifetime`.
  `FloodIsPaidFor` (`PaidFor`) is the potential argument of `WindowBounded`
  for every instant at once: the challenges issued since an instant are each a
  period's worth of the distance from that instant to the one at which the
  bucket will be empty. The slot that is given up is the oldest, so all
  `NumSlots` were issued since its time, and the bucket is at most a full
  burst ahead of the clock.
* `TheyAreAnswered`: `PatientIsAnswered`. `Patient` is the strengthening
  (`NewcomersKeepTheirChallenge`): as long as no flood can have taken it, the
  challenge of a newcomer is in the table, as old as his first request, and
  nobody plays with it; a step that took it would have to give it up, for
  which it is too young (`GivenUpLate`).
* `NobodyEntersUnread`: `ReadBeforeEntry`, from `Counted`, which says that the
  count of a slot is of the challenge it holds now.

### The table of buckets: `ConnectionlessLimitsProofs`

For any number of slots, hashes and addresses, any hash function, limits,
period and width of the `int` (`LimitsAssumption`):

* `TableIsConsistent`, however the clock moves. `Good` is the invariant: each
  `heads[h]` begins a sequence without repetition of all slots in use whose
  hash is h (`IsChain`), threaded by `next` and `prev`; a slot is on the chain
  of its address; no two slots have the same address. `SVC_BucketForAddress`
  is three changes of this sequence: walk it, cut a slot out (`Unlink`,
  from the head, the middle or the end), put one before its head (`Push`).
* `RefusalsAreDue`: `NoFalseRefusal`, if the clock is timely (`TimelyClock`):
  it shows less than 2^31 milliseconds, 24 days, and may be set back at any
  time; or less than 2^32, 49 days, and is never set back. The code needs this:
  an interval of 2^32 milliseconds reads as none. A slot stamped at 0 is taken
  for one that is in use and is never reclaimed (line 695 asks for a `lastTime`
  above 0), which the property says. `Dated` carries the stamps.
* `AddressLimitHolds`: `AddressBound`, for any clock. `UsedInv` is the
  potential: as long as the watched address has a slot, the requests the bucket
  holds and the time since its stamp account for what the address used; when
  the slot is reclaimed, at least the lower limit of periods has passed since
  its stamp, and what is left of the debt is less than one period's.
* `SharedLimitsHold`: `SharedBound`, for any clock. `Covers` is the potential of
  `WindowBounded`, for the two shared buckets with the verdicts of all six
  handlers: what was let through is owed by the bucket, and nothing that the
  bucket refused or never saw is in it.
* `OthersRefusalsAreDue`: `OthersAreDue`, on a timely clock, the other
  direction: the bucket holds no more than what was really let through
  (`PaidInv`), so that neither packets dropped for their own address nor good
  passwords can have filled it.

### Bans: `BanListProofs`

For any addresses, slots, durations and width of the `int`, and whatever lines
commands grow into (`MergedFacts`, `PutFacts`):

* `OneLineOfEach`: `OneLinePerAddress`.
* `ImplementsPolicy`: every step is a step of `BanPolicy` or leaves it alone.
  The invariant (`IInv`) adds two facts to the property: no line is dated in
  the future (`DatesPast`), and no duration is one an `int` cannot hold
  (`DurationsFit`), though a negative one may be in the file. With them the
  `int` the check computes is positive exactly while a ban runs, and with one
  line of an address the line that is read at connect and the line that is
  cut by `unban` are the ban.

### Messages: `PlayerProofs`

For any window, and any number of commands, maps and restarts
(`CommandsFitTheWindow`, `NoCommandIsLost`, `WorldNeedsGameState`), from
`MessageInv`, whose parts say why:

* `MapsInTurn`, `CommandsInTurn`: nothing overtakes, so the ids and the
  commands of what is under way are in their order, and behind the server's.
* `Trusted`: what the server takes for acknowledged the client has executed,
  unless an acknowledgement was just as far behind as the window
  (`overrun`). A client that lies is excepted.
* `SentOnce`: while the gamestate of a map is under way nothing from after it
  was received, and it is not sent again; so a message that is after it comes
  from a client who has it.
* `OneCommand`: the server executes only the command the client is at, told
  from the one before it by one bit.
* `Quiet`, `PrimedWaits`: until the client has the gamestate it was sent, the
  server executes nothing of it that could bring it into the world or send the
  gamestate a second time.

The number of messages under way to the client is bounded by the instance and
not by the code, so it is left out of the types that are proved.

### Downloads: `PlayerProofs`

For any file, sizes of a block and window (`BeginningOfTheFile`, `WholeFile`,
`NoOverrun`, `NotDropped`). A block is 2048 or 8192 bytes long, as the cvar says
when it is read, so block b does not begin at a multiple of a size. The
invariant (`DownloadInv`) asserts that there is a function `start` from blocks
to offsets of the file, with which:

* `Holds`: the window holds the blocks from the one the client has
  acknowledged to the last one read, each the bytes of the file from `start[b]`
  to `start[b + 1]`;
* `Truthful`: a snapshot under way carries the bytes of the block it says, or
  is of a block the client already has, whose number it does not wait for;
* `Received`: the client has the bytes up to the start of the block it waits
  for; `Acknowledging`: its acknowledgements under way are the numbers between
  what the server believes and what it has, in order;
* `Whole`: unless a read failed, the window reaches to what was read; and
  `Unopened`.

`WriteDownload` extends `start` by the blocks its loop reads. The loop is a
recursive function, and what it returns is found by descent: a set of counter
examples has a least element (`Least`), so it is empty.

### Sprint: `PlayerProofs`

For every set of sprint times, least times and lengths of a move
(`SprintAssumption`), and cvars changed at any instant:

* `SprintTypes`: `sprintTimer` stays in its range.
* `SprintBounded`: over any window, `used <= rested + MaxTime + MaxMsec`. The
  strengthening is again a potential (`Potential`): the timer is at least
  what was used and not yet rested off, because a frame that sprints adds to
  the timer what it adds to `used`, and a frame that does not takes no more
  off it than it adds to `rested`. `Running` bounds the timer of a player who
  sprints, `OneOrTheOther` says that a request never waits during a sprint,
  the state whose branches the operators of `Sprint` leave out.
* `SprintLastsMinTime`: an action property, from `Started`, which relates the
  timer to its value when the sprint began.

`Flags` and `Times` are the two halves of `SprintIInv`, proved apart because
one is propositional and the other arithmetic.

### Snapshots: `SendScheduleProofs`

For every size of a packet and a message, every rate and every length of a
frame (`ScheduleAssumption`), with rates, cvars and downloads that change at any
instant:

* `RateIsKept`: what was sent in a window and not yet paid for by time is at
  most one packet. `DelayPays` is the strengthening: the delay that is left
  pays for it. The division in `SV_RateMsec` is truncated, and loses up to one
  millisecond of the rate with each packet. Up to 48000 bytes a second that is
  less than the 48 bytes of header that `SV_RateMsec` adds; nothing in the
  repository bounds the rate (2047), and above that a packet counts for what
  the division leaves of it (`Excess`), which is what such a client really
  gets beyond its rate (`RateMsecPays`).
* `PaceIsKept`: snapshots are at least `snapshotMsec` apart (`DelayPaces`),
  an action property.
* `NobodyStarves`: the time without a packet and the delay that is left are
  together at most the longest pause (`DelayEnds`).
* `MessagesAreWhole`: `NotCutOff`, from `ZombieIdle`.

`ScheduleIInv` is their conjunction, `ScheduleInductive` proves it invariant
action by action; the lemmas `Division`, `DivisionMonotone`, `TimePays` and
`SentClient` say what the arithmetic and a message sent do.

### Shell commands: `AsyncExecProofs`

For any finite set of tasks, any commands, outputs, length of a line and
levels (`ExecAssumption`):

* `ThreadsOwnTheirTasks`: a task whose thread runs is in the list and not
  done, which is why no lock is needed.
* `ListStaysWhole`: the pointers are those of a sequence that holds every task
  once (`IsListed`); appending to it and removing one of its elements are what
  `LinkLast` and `Free` do to the pointers, and the walk points into it
  (`Walks`), also after a callback that has appended behind the task that is
  freed next.
* `CallbacksGetTheOutput`: `WholeOutput`. `ReadSoFar` is the strengthening:
  what a thread has made of the bytes it has read is what `gsc_exec` makes of
  as many bytes, and none of them was the one taken for the end.

### SQLite: `AsyncSqliteProofs`

For any number of tasks and connections (`QueriesStayListed`,
`QueriesAreInOrder`, `CallbacksAreOnce`), from `SqliteInv`. The list is a
sequence as above (`IsListed`), and what is done comes before what is not
(`InOrder`). `ThreadWalks` says where the query thread is between two of its
accesses: at a task that is not done, behind one that is, with a pointer to the
one after it. That pointer was read under the lock or not, and stays right for
two reasons: whoever takes tasks out of the list has the lock, which the thread
keeps for a whole walk, and whoever appends without the lock appends behind all
the thread has seen. `GameWalks` says the same of the walk of `checkdone`,
`Results` that what is done was run or has failed, and `Calls` that a task that
was called back is marked for removal, unless its callback still runs. The
stores of connections do not enter the argument; their type is left to TLC.

### Shared lemmas

`SharedLemmas` states once what several of these need: settling and charging
one bucket (`Settling`, `SettlingExactly`, `Charging`) and the few facts about
`%` and `\div` of a product that the solver does not find by itself; a list
threaded by pointers as a sequence (`Listing`), and what appending a task and
taking one out do to it (`Appending`, `Removing`, `Neighbours`); the elements
of a queue that is extended, shortened or joined (`Shift`, `Grow`, `Concat`);
and that a set of numbers has a least element (`Least`), from the library's
theorem that the natural numbers are well founded. The library's theorems of
induction take an operator as a parameter, which the provers cannot
instantiate; an argument by induction is therefore made about the least
counterexample.

### Only model-checked

Liveness needs `ENABLED`, which is out of the prover's reach: `Completes`,
`FragmentsEnd`, `EntersWorld`, `EveryQueryRuns`, `MapChangeEnds` and
`EveryCommandCollected` stay with TLC, and so does the violation that
`ban_expiry` finds.

## Not modelled

* Player state: the fields of `customPlayerState` are each set by a script and
  read by the movement code, with no step of their own in between. Line 1184
  clears all of them with each gamestate, so what a script set is gone after
  the client asks for one again, while a bot, which gets no gamestate, keeps
  what the player in its slot before had. `overrideJumpHeight_air` is set in
  the air (2352) and cleared at landing only (2617).
* Localized strings (386-415): one counter, which goes round from 128 to 255 by
  one with every new string of every map, and is used only once all 255 indices
  are taken. So which string is overwritten then depends on the maps before; in
  the first map it is the one registered last. No text of the repository says
  which may be.
* Heartbeat (592-645): it sends at most once per delay and waits for no
  answer. A name that is not resolved clears its cvar for good, and
  `strstr(":", string)` has its arguments the wrong way round, so that a port
  given with the name is overwritten. There is no state beyond the cvar.
* Hooks: unhook, call, hook again is balanced in each function. An error of the
  game that leaves the call by `longjmp` would leave the hook off; whether one
  can is not in the repository. The patching of machine code is not modelled.
* Of downloads `shouldServeFile`, and of packets the search of the client by
  address and qport: the filter and the search change nothing.
* Pure functions on strings, pak lists, formatting, logging;
  `vendor/qvsnprintf.c`; script functions that read or write one value, files
  and one blocking HTTP call; the build script; the game binary behind the
  hooks, but for what each module marks external.
* The hash function, which the models take as any function of the address, and
  the script callback for refused packets (`SVC_callback`), which tells scripts
  and changes nothing here.

## Plan

Done: rate limits, bans, downloads, sprint, snapshots, messages, SQLite,
challenges and shell commands are modelled, and every safety property of a run
is proved. What is left:

1. An abstract specification of messages, a client's commands executed in
   order and once, implemented by `ClientMessage`.
2. An abstract specification of a download, the file handed over piece by
   piece, implemented by `Download`.
