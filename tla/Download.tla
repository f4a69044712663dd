------------------------------ MODULE Download ------------------------------
(***************************************************************************)
(* The download of a file by one client: custom_SV_WriteDownloadToClient   *)
(* (libcod.cpp) writes one block into each snapshot, from a window of      *)
(* blocks read ahead of the last one acknowledged, and goes back to the    *)
(* first unacknowledged block when nothing was sent or acknowledged for a  *)
(* second.  Snapshots may be lost but are not reordered (the network       *)
(* channel discards old ones); acknowledgements are reliable commands.     *)
(* The game's own SV_NextDownload_f and the client are external: they are  *)
(* what the fields of client_t are shared with.                            *)
(*                                                                         *)
(* Byte i of the file is the number i.  svs.time - downloadSendTime is     *)
(* kept as a count that stops once it is past the timeout.                 *)
(***************************************************************************)
EXTENDS Integers, Sequences, SequencesExt

CONSTANTS Size,        \* bytes of the file, when there is one
          WindowSize,  \* MAX_DOWNLOAD_WINDOW
          BlkSize,     \* MAX_DOWNLOAD_BLKSIZE
          BlkSizeFast, \* MAX_DOWNLOAD_BLKSIZE_FAST
          Timeout,     \* 1000 ms, in ticks
          BlockNumbers, \* how many blocks a short can number: 2^16, or 2^15 to
                       \* a client that reads it with its sign
          Files,       \* what may be asked for: "served", "iwd" (a game file),
                       \* "missing", "empty"
          MaxInFlight, \* bound on the snapshots under way
          MaxToggles   \* bound on how often the cvars are changed

ASSUME DownloadAssumption ==
    /\ {Size, WindowSize, BlkSize, BlkSizeFast, Timeout, MaxInFlight} \subseteq Nat \ {0}
    /\ BlkSize <= BlkSizeFast
    /\ BlockNumbers \in Nat /\ WindowSize <= BlockNumbers
    /\ Files \subseteq {"served", "iwd", "missing", "empty"}
    /\ MaxToggles \in Nat

VARIABLES
    name,          \* downloadName, or "" when there is no download
    open,          \* download # 0: the file is open
    count,         \* downloadCount: bytes read so far
    eof,           \* downloadEOF: the empty block that ends the file is queued
    clientBlock,   \* downloadClientBlock: first block not acknowledged
    currentBlock,  \* downloadCurrentBlock: first block not read
    xmitBlock,     \* downloadXmitBlock: next block to send
    blocks,        \* downloadBlocks, downloadBlockSize: room, bytes of each
    idle,          \* time since downloadSendTime
    readFailed,    \* FS_Read reported an error
    fast, allow,   \* sv_fastDownload, sv_allowDownload
    toggles,       \* how often they were changed
    snapshots,     \* snapshots under way to the client
    acks,          \* acknowledgements under way to the server
    player,        \* what the client has: status, next block, bytes
    broken         \* SV_NextDownload_f dropped the client: "broken download"

server == <<name, open, count, eof, clientBlock, currentBlock, xmitBlock, blocks,
            idle, readFailed, broken>>
svCvars == <<fast, allow, toggles>>
downloadVars == <<server, svCvars, snapshots, acks, player>>

Indices == 0 .. WindowSize - 1
NoBlock == [room |-> 0, bytes |-> <<>>]

DownloadInit == /\ name = "" /\ open = FALSE /\ count = 0 /\ eof = FALSE
                /\ clientBlock = 0 /\ currentBlock = 0 /\ xmitBlock = 0
                /\ blocks = [i \in Indices |-> NoBlock]
                /\ idle = 0 /\ readFailed = FALSE /\ broken = FALSE
                /\ fast \in BOOLEAN /\ allow = TRUE /\ toggles = 0
                /\ snapshots = <<>> /\ acks = <<>>
                /\ player = [status |-> "idle", next |-> 0, bytes |-> <<>>]

----------------------------------------------------------------------------
(* Reading ahead. *)

(* The bytes FS_Read finds at offset at: never past the end of the file.   *)
ReadAt(at, n) == [k \in 1 .. (IF at + n > Size THEN Size - at ELSE n) |-> at + k - 1]

BlockLength == IF fast THEN BlkSizeFast ELSE BlkSize

(* Mutant: a buffer is as large as the block size of the day. *)
RoomOfTheDay(b) == IF b.room = 0 THEN BlockLength ELSE b.room

(* Every buffer is allocated once, of the larger size, and is kept. *)
Room(b) == IF b.room = 0 THEN BlkSizeFast ELSE b.room

(* The window after one more block was read into it. *)
ReadBlock(w) ==
    LET i == w.currentBlock % WindowSize
        bytes == ReadAt(w.count, BlockLength)
    IN  [w EXCEPT !.blocks[i] = [room |-> Room(@), bytes |-> bytes],
                  !.count = @ + Len(bytes),
                  !.currentBlock = @ + 1]

(* Mutant: the window is one block too wide. *)
MayReadTooFar(w) == w.currentBlock - w.clientBlock <= WindowSize /\ w.count # Size

MayRead(w) == w.currentBlock - w.clientBlock < WindowSize /\ w.count # Size

(* The loop: after k turns.  Window turns are always enough. *)
ReadAhead(w) ==
    LET after[k \in 0 .. WindowSize] ==
            IF k = 0 THEN w
            ELSE IF MayRead(after[k - 1]) THEN ReadBlock(after[k - 1])
            ELSE after[k - 1]
    IN  after

(* An error of FS_Read ends the file where it is. *)
ReadFails(w) ==
    [w EXCEPT !.count = Size, !.blocks[w.currentBlock % WindowSize].room = BlkSizeFast]

(* Mutant: the end is queued whether or not the window has room. *)
AddEofAnyway(w) ==
    IF w.count = Size /\ ~w.eof
    THEN [w EXCEPT !.blocks[w.currentBlock % WindowSize].bytes = <<>>,
                   !.currentBlock = @ + 1,
                   !.eof = TRUE]
    ELSE w

(* The empty block that tells the client the file is complete. *)
AddEof(w) ==
    IF w.count = Size /\ ~w.eof /\ w.currentBlock - w.clientBlock < WindowSize
    THEN [w EXCEPT !.blocks[w.currentBlock % WindowSize].bytes = <<>>,
                   !.currentBlock = @ + 1,
                   !.eof = TRUE]
    ELSE w

(* SV_WriteDownloadErrorToClient.  An empty file has been opened by then   *)
(* and is left open.                                                       *)
WriteError == /\ snapshots' = Append(snapshots, [kind |-> "error"])
              /\ name' = ""
              /\ open' = (allow /\ name = "empty")
              /\ UNCHANGED <<count, eof, clientBlock, currentBlock, xmitBlock,
                             blocks, idle, readFailed>>

Freshly == [blocks |-> blocks, count |-> 0, eof |-> FALSE, clientBlock |-> 0,
            currentBlock |-> 0, xmitBlock |-> 0]

(* Mutant: what was sent counts as acknowledged. *)
CarriedAsAcked == [blocks |-> blocks, count |-> count, eof |-> eof,
                   clientBlock |-> xmitBlock, currentBlock |-> currentBlock,
                   xmitBlock |-> xmitBlock]

Carried == [blocks |-> blocks, count |-> count, eof |-> eof,
            clientBlock |-> clientBlock, currentBlock |-> currentBlock,
            xmitBlock |-> xmitBlock]

(* What is next to send: nothing, a new block, or, after the timeout, the  *)
(* first block that is not acknowledged.                                   *)
AllSent(w) == w.xmitBlock = w.currentBlock

(* Mutant: nothing is sent twice. *)
NothingToSendTwice(w) == AllSent(w)

NothingToSend(w) ==
    w.clientBlock = w.currentBlock \/ (AllSent(w) /\ idle <= Timeout)

NextToSend(w) == IF AllSent(w) THEN w.clientBlock ELSE w.xmitBlock

Keep(w) == /\ blocks' = w.blocks /\ count' = w.count /\ eof' = w.eof
           /\ clientBlock' = w.clientBlock /\ currentBlock' = w.currentBlock

(* MSG_WriteShort *)
Short(b) == b % BlockNumbers

SendFrom(w) ==
    IF NothingToSend(w)
    THEN xmitBlock' = w.xmitBlock /\ UNCHANGED <<idle, snapshots>>
    ELSE LET b == NextToSend(w)
         IN  /\ snapshots' = Append(snapshots,
                    [kind |-> "block", number |-> Short(b),
                     bytes |-> w.blocks[b % WindowSize].bytes])
             /\ xmitBlock' = b + 1
             /\ idle' = 0

(* custom_SV_WriteDownloadToClient, called for every snapshot. *)
WriteDownload ==
    /\ name # ""
    /\ Len(snapshots) < MaxInFlight
    /\ IF ~open /\ (~allow \/ name # "served")
       THEN WriteError
       ELSE LET w == IF open THEN Carried ELSE Freshly
            IN  /\ open' = TRUE
                /\ \/ /\ Keep(AddEof(ReadAhead(w)[WindowSize]))
                      /\ SendFrom(AddEof(ReadAhead(w)[WindowSize]))
                      /\ UNCHANGED readFailed
                   \/ \E k \in 0 .. WindowSize - 1 :
                        /\ MayRead(ReadAhead(w)[k])
                        /\ Keep(AddEof(ReadFails(ReadAhead(w)[k])))
                        /\ SendFrom(AddEof(ReadFails(ReadAhead(w)[k])))
                        /\ readFailed' = TRUE
                /\ UNCHANGED name
    /\ UNCHANGED <<broken, svCvars, acks, player>>

----------------------------------------------------------------------------
(* External: SV_BeginDownload_f, SV_NextDownload_f and SV_CloseDownload.   *)
BeginDownload ==
    /\ player.status = "idle"
    /\ \E f \in Files : name' = f
    /\ player' = [player EXCEPT !.status = "loading"]
    /\ UNCHANGED <<open, count, eof, clientBlock, currentBlock, xmitBlock, blocks,
                   idle, readFailed, broken, svCvars, snapshots, acks>>

(* The acknowledgement must be of the first block not yet acknowledged; an *)
(* empty block acknowledged ends the download and frees the buffers.       *)
NextDownload ==
    /\ acks # <<>>
    /\ acks' = Tail(acks)
    /\ IF Head(acks) # clientBlock
       THEN broken' = TRUE /\ UNCHANGED <<name, open, clientBlock, blocks, idle>>
       ELSE /\ UNCHANGED broken
            /\ IF blocks[clientBlock % WindowSize].bytes = <<>>
               THEN /\ name' = "" /\ open' = FALSE
                    /\ blocks' = [i \in Indices |-> NoBlock]
                    /\ UNCHANGED <<clientBlock, idle>>
               ELSE /\ clientBlock' = clientBlock + 1
                    /\ idle' = 0
                    /\ UNCHANGED <<name, open, blocks>>
    /\ UNCHANGED <<count, eof, currentBlock, xmitBlock, readFailed, svCvars,
                   snapshots, player>>

(* External: the client counts the blocks, takes the one that has the      *)
(* number it waits for, acknowledges it, and is done when it gets the      *)
(* empty one; it ignores any other block.                                  *)
Receive ==
    /\ snapshots # <<>>
    /\ snapshots' = Tail(snapshots)
    /\ LET m == Head(snapshots)
       IN  IF player.status # "loading" THEN UNCHANGED <<player, acks>>
           ELSE IF m.kind = "error"
           THEN player' = [player EXCEPT !.status = "error"] /\ UNCHANGED acks
           ELSE IF m.number # player.next THEN UNCHANGED <<player, acks>>
           ELSE /\ acks' = Append(acks, m.number)
                /\ player' = [status |-> IF m.bytes = <<>> THEN "done" ELSE "loading",
                              next |-> player.next + 1,
                              bytes |-> player.bytes \o m.bytes]
    /\ UNCHANGED <<server, svCvars>>

LoseSnapshot == /\ snapshots # <<>>
                /\ snapshots' = Tail(snapshots)
                /\ UNCHANGED <<server, svCvars, acks, player>>

Tick == /\ idle <= Timeout
        /\ idle' = idle + 1
        /\ UNCHANGED <<name, open, count, eof, clientBlock, currentBlock, xmitBlock,
                       blocks, readFailed, broken, svCvars, snapshots, acks, player>>

(* The administrator changes a cvar while the download runs. *)
Toggle == /\ toggles < MaxToggles
          /\ toggles' = toggles + 1
          /\ \/ fast' = ~fast /\ UNCHANGED allow
             \/ allow' = ~allow /\ UNCHANGED fast
          /\ UNCHANGED <<server, snapshots, acks, player>>

DownloadNext == \/ WriteDownload \/ BeginDownload \/ NextDownload \/ Receive \/ LoseSnapshot
                \/ Tick \/ Toggle

(* Snapshots are written and commands executed in every server frame while *)
(* there is something to do; the network does not lose every snapshot.     *)
DownloadFairness == /\ WF_downloadVars(WriteDownload)
                    /\ WF_downloadVars(NextDownload)
                    /\ WF_downloadVars(Tick)
                    /\ SF_downloadVars(Receive /\ (player' # player))
                    /\ WF_downloadVars(Receive)

DownloadSpec == DownloadInit /\ [][DownloadNext]_downloadVars

DownloadFairSpec == DownloadSpec /\ DownloadFairness

----------------------------------------------------------------------------
Bytes == Seq(0 .. Size - 1)

DownloadTypeOK ==
    /\ name \in Files \cup {""}
    /\ {open, eof, readFailed, broken, fast, allow} \subseteq BOOLEAN
    /\ count \in 0 .. Size
    /\ {clientBlock, currentBlock, xmitBlock} \subseteq Nat
    /\ blocks \in [Indices -> [room : {0, BlkSizeFast}, bytes : Bytes]]
    /\ idle \in 0 .. Timeout + 1
    /\ toggles \in 0 .. MaxToggles
    /\ \A i \in DOMAIN snapshots : snapshots[i].kind \in {"error", "block"}
    /\ acks \in Seq(Nat)
    /\ player.status \in {"idle", "loading", "done", "error"}
    /\ player.next \in Nat /\ player.bytes \in Bytes

(* What the client has is a beginning of the file, whatever was lost, sent *)
(* again from a buffer of the window that has been reused since, or read   *)
(* with another block size after sv_fastDownload was changed.              *)
DeliveredInOrder == \A i \in DOMAIN player.bytes : player.bytes[i] = i - 1

(* The empty block reaches the client only after the whole file has, unless *)
(* the file could not be read.                                             *)
CompleteIsWhole ==
    player.status = "done" => Len(player.bytes) = Size \/ readFailed

(* A block never exceeds the buffer it is read into, also when the block   *)
(* size is raised while buffers of the window are in use.                  *)
BuffersFit == \A i \in Indices : Len(blocks[i].bytes) <= blocks[i].room

(* A client that follows the protocol is never dropped for a broken        *)
(* download, however late its acknowledgements are.                        *)
NeverBroken == ~broken

(* A download that was begun ends: the client gets the whole file and the  *)
(* server closes it, though any finite number of snapshots is lost.  Only  *)
(* a file of more blocks than a short can number does not end: the client  *)
(* gets those, and the next is sent to it in vain for ever.                *)
Completes ==
    (open /\ name # "") ~>
        \/ player.status = "done" /\ ~open
        \/ player.next = BlockNumbers /\ currentBlock > BlockNumbers
=============================================================================
