----------------------------- MODULE SdCardWriter -----------------------------
(***************************************************************************)
(* The task that writes everything that streams to the SD card, components/*)
(* services/sd_card_writer, seen from one of its streams.                  *)
(*                                                                         *)
(* Producers queue whole records in the stream's buffer, one at a time by  *)
(* a mutex, and wait for room when they may.  The writer takes what is     *)
(* buffered to the card piece by piece, and starts a new file where a      *)
(* producer, by size, or any task, by rotate(), put a rotation point.      *)
(* flush() and close() are commands that the writer answers.  Any call on  *)
(* the card may fail, and then the stream drops everything from there on.  *)
(*                                                                         *)
(* A byte stands for what the sizes tell apart: a record has one or more.  *)
(* The writer wakes at every tick, notified or not, so notifications are   *)
(* left out; so are the statistics, the drop reports, and the other        *)
(* streams, which only take the writer's time.                             *)
(***************************************************************************)
EXTENDS Naturals, Sequences, FiniteSets, SequencesExt

CONSTANTS
    Producers,      \* the tasks that write
    Nobody,         \* no holder of the mutex
    Sizes,          \* the sizes of records
    BufferSize,     \* buffer_size
    MaxFileSize,    \* max_file_size
    Slots,          \* SD_CARD_WRITER_ROTATION_SLOTS
    Sector,         \* SD_CARD_WRITER_SECTOR_SIZE
    Chunk,          \* CONFIG_SD_CARD_WRITER_CHUNK_SIZE
    Heads,          \* what may be in a file before its first record: old records, the header
    MaxRecords,     \* bound: the records accepted
    MaxTurns        \* bound: the calls of rotate()

ASSUME WriterAssumption ==
    /\ IsFiniteSet(Producers) /\ Nobody \notin Producers
    /\ Sizes \subseteq Nat \ {0} /\ Heads \subseteq Nat /\ Heads # {}
    /\ {BufferSize, MaxFileSize, Slots, Sector, Chunk} \subseteq Nat \ {0}
    /\ Chunk % Sector = 0
    /\ MaxRecords \in Nat /\ MaxTurns \in Nat

VARIABLES
    buffer,         \* the stream buffer
    stream,         \* what producers and writer share: the mutex, failed, space_wanted, space_sem,
                    \* enqueued_total, producer_file_bytes, the rotation points
    prod,           \* each producer in write()
    writer,         \* the writer task and its own part of the stream
    owner,          \* who opened the stream and flushes and closes it; what was buffered by then
    files,          \* the card: each file's bytes, and the rotate() calls when it was picked
    accepted,       \* history: the records accepted so far, which numbers them
    turns           \* the calls of rotate() so far

vars == <<buffer, stream, prod, writer, owner, files, accepted, turns>>

(* A byte: of which record, and how many of that record follow; and of when   *)
(* the record was accepted, how many rotate() calls had returned by then, and *)
(* whether no slot was left when it was too large for the file.               *)
Bytes == [id: 1 .. MaxRecords, left: Nat, turn: 0 .. MaxTurns, over: BOOLEAN]

NotWriting == [at |-> "idle", id |-> 0, size |-> 0, wait |-> "limited", turn |-> 0, over |-> FALSE]
NotOpen == [at |-> "idle", force |-> FALSE, available |-> 0, limit |-> 0, registered |-> FALSE,
            open |-> FALSE, pos |-> 0, drained |-> 0, dirty |-> FALSE]

Init ==
    /\ buffer = <<>>
    /\ stream = [holder |-> Nobody, failed |-> FALSE, wanted |-> FALSE, sem |-> FALSE,
                 total |-> 0, bytes |-> 0, points |-> <<>>]
    /\ prod = [p \in Producers |-> NotWriting]
    /\ writer = NotOpen
    /\ owner = [at |-> "none", upTo |-> 0]
    /\ files = <<>> /\ accepted = 0 /\ turns = 0

InUse == owner.at \in {"open", "flushing"}

-----------------------------------------------------------------------------
(* sd_card_writer_write().  A record that is dropped is counted, and that is  *)
(* all: the call returns.  One that is larger than the buffer, or for a       *)
(* stream that has failed, is dropped at once.                                *)
Goto(p, place) == prod' = [prod EXCEPT ![p].at = place]
Return(p) == prod' = [prod EXCEPT ![p] = NotWriting]

WriterSide == <<writer, owner, files>>

Accepting == Cardinality({p \in Producers : prod[p].at \in {"lock", "room", "want", "wait"}})

Call(p) ==
    /\ InUse /\ prod[p].at = "idle" /\ ~stream.failed
    /\ accepted + Accepting < MaxRecords
    /\ \E size \in Sizes, wait \in {"limited", "forever"} :
        /\ size <= BufferSize
        /\ prod' = [prod EXCEPT ![p] = [NotWriting EXCEPT !.at = "lock", !.size = size, !.wait = wait]]
    /\ UNCHANGED <<buffer, stream, accepted, turns, WriterSide>>

\* Mistaken: producers do not exclude each other.
LockAlways(p) ==
    /\ prod[p].at = "lock"
    /\ stream' = [stream EXCEPT !.holder = p]
    /\ Goto(p, "room")
    /\ UNCHANGED <<buffer, accepted, turns, WriterSide>>

Lock(p) ==
    /\ prod[p].at = "lock" /\ stream.holder = Nobody
    /\ stream' = [stream EXCEPT !.holder = p]
    /\ Goto(p, "room")
    /\ UNCHANGED <<buffer, accepted, turns, WriterSide>>

GiveUpLock(p) ==
    /\ prod[p].at = "lock" /\ stream.holder # Nobody /\ prod[p].wait = "limited"
    /\ Return(p)
    /\ UNCHANGED <<buffer, stream, accepted, turns, WriterSide>>

(* A record that is dropped gives the mutex back.  A wait may be without      *)
(* limit, or time out, after no time at all when the caller did not want to   *)
(* wait.                                                                      *)
Release(p) ==
    /\ stream' = [stream EXCEPT !.holder = Nobody]
    /\ Return(p)

HasRoom(p) == BufferSize - Len(buffer) >= prod[p].size

(* There is no room.  Space is asked for only after the look at the buffer:   *)
(* the writer may make it in between.                                         *)
NoRoom(p) ==
    /\ prod[p].at = "room" /\ ~HasRoom(p)
    /\ \/ Goto(p, "want") /\ UNCHANGED stream
       \/ prod[p].wait = "limited" /\ Release(p)
    /\ UNCHANGED <<buffer, accepted, turns, WriterSide>>

WantSpace(p) ==
    /\ prod[p].at = "want"
    /\ stream' = [stream EXCEPT !.wanted = TRUE]
    /\ Goto(p, "wait")
    /\ UNCHANGED <<buffer, accepted, turns, WriterSide>>

GotSpace(p) ==
    /\ prod[p].at = "wait" /\ stream.sem
    /\ IF stream.failed
       THEN stream' = [stream EXCEPT !.sem = FALSE, !.holder = Nobody] /\ Return(p)
       ELSE stream' = [stream EXCEPT !.sem = FALSE] /\ Goto(p, "room")
    /\ UNCHANGED <<buffer, accepted, turns, WriterSide>>

WaitTimesOut(p) ==
    /\ prod[p].at = "wait" /\ prod[p].wait = "limited"
    /\ IF stream.failed THEN Release(p) ELSE Goto(p, "room") /\ UNCHANGED stream
    /\ UNCHANGED <<buffer, accepted, turns, WriterSide>>

(* There is room, and the record is accepted: it starts the next file when this one would grow   *)
(* past the limit, or runs over when every slot is taken.                     *)
TooLarge(size) == stream.bytes > 0 /\ stream.bytes + size > MaxFileSize
StartsNextFile(size) == TooLarge(size) /\ Len(stream.points) < Slots

Accepted(p) ==
    /\ accepted' = accepted + 1
    /\ prod' = [prod EXCEPT ![p].at = "send", ![p].id = accepted', ![p].turn = turns,
                            ![p].over = TooLarge(prod[p].size) /\ ~StartsNextFile(prod[p].size)]

Account(p) ==
    /\ prod[p].at = "room" /\ HasRoom(p)
    /\ LET next == StartsNextFile(prod[p].size)
       IN  stream' = [stream EXCEPT !.points = IF next THEN Append(@, stream.total) ELSE @,
                                    !.bytes = prod[p].size + IF next THEN 0 ELSE @,
                                    !.total = @ + prod[p].size]
    /\ Accepted(p)
    /\ UNCHANGED <<buffer, turns, WriterSide>>

(* The stream buffer takes what fits.  Then the mutex is given back.          *)
RecordOf(p) ==
    [i \in 1 .. prod[p].size |->
        [id |-> prod[p].id, left |-> prod[p].size - i, turn |-> prod[p].turn, over |-> prod[p].over]]

Fits(record) ==
    LET room == BufferSize - Len(buffer)
    IN  SubSeq(record, 1, IF Len(record) < room THEN Len(record) ELSE room)

Send(p) ==
    /\ prod[p].at = "send"
    /\ buffer' = buffer \o Fits(RecordOf(p))
    /\ Release(p)
    /\ UNCHANGED <<accepted, turns, WriterSide>>

(* sd_card_writer_rotate(), by any task; with no slot left it is refused, and *)
(* the rotations that wait already do what was asked for.                     *)
AlreadyPending == stream.points # <<>> /\ stream.points[Len(stream.points)] = stream.total

Rotate ==
    /\ InUse /\ ~stream.failed /\ turns < MaxTurns
    /\ turns' = turns + 1
    /\ stream' = IF AlreadyPending \/ Len(stream.points) = Slots THEN stream
                 ELSE [stream EXCEPT !.points = Append(@, stream.total), !.bytes = 0]
    /\ UNCHANGED <<buffer, prod, accepted, WriterSide>>

-----------------------------------------------------------------------------
(* The owner: open_stream(), flush() and close_stream() hand a command to the *)
(* writer and wait for the answer.  The stream is closed when no producer     *)
(* uses it any more.                                                          *)
Ask(at) ==
    /\ owner' = [at |-> at, upTo |-> writer.drained + Len(buffer)]
    /\ UNCHANGED <<buffer, stream, prod, writer, files, accepted, turns>>

OpenStream == owner.at = "none" /\ Ask("opening")
Flush == owner.at = "open" /\ Ask("flushing")
CloseStream == owner.at = "open" /\ (\A p \in Producers : prod[p].at = "idle") /\ Ask("closing")

-----------------------------------------------------------------------------
(* The writer task, awake at the latest after a tick: first the commands,     *)
(* then the stream.                                                           *)
ProducerSide == <<prod, accepted, turns>>

(* There is a slot for the stream, or the others have taken them all. *)
Register ==
    /\ writer.at = "idle" /\ owner.at = "opening"
    /\ \/ writer' = [writer EXCEPT !.registered = TRUE] /\ owner' = [owner EXCEPT !.at = "open"]
       \/ UNCHANGED writer /\ owner' = [owner EXCEPT !.at = "none"]
    /\ UNCHANGED <<buffer, stream, files, ProducerSide>>

Commanded == owner.at \in {"flushing", "closing"}

(* sd_card_writer_release_space(). *)
Released(s) == [s EXCEPT !.sem = @ \/ s.wanted, !.wanted = FALSE]

(* sd_card_writer_fail(), with the discarding of what is buffered; a service  *)
(* that fails is over.                                                        *)
Over == IF writer.force THEN "answer" ELSE "idle"

FailAt(points) ==
    /\ stream' = [Released(stream) EXCEPT !.failed = TRUE, !.points = points]
    /\ buffer' = <<>>
    /\ writer' = [writer EXCEPT !.at = Over, !.open = FALSE, !.dirty = FALSE,
                                !.available = 0, !.limit = 0, !.pos = 0]

Fail == FailAt(stream.points)

(* sd_card_writer_service(): what is buffered now, or nothing at all after a  *)
(* failure.                                                                   *)
Look ==
    /\ writer.at = "idle" /\ writer.registered
    /\ IF stream.failed
       THEN /\ writer' = [writer EXCEPT !.force = Commanded, !.at = IF Commanded THEN "answer" ELSE "idle"]
            /\ buffer' = <<>> /\ stream' = Released(stream)
       ELSE /\ writer' = [writer EXCEPT !.force = Commanded, !.at = "loop", !.available = Len(buffer)]
            /\ UNCHANGED <<buffer, stream>>
    /\ UNCHANGED <<owner, files, ProducerSide>>

AtPoint == stream.points # <<>> /\ Head(stream.points) <= writer.drained

(* A rotation point is reached: it is taken off and the file is closed, which *)
(* syncs it first.  The next file is opened when there is a byte for it.      *)
Turn ==
    /\ writer.at = "loop" /\ writer.available > 0 /\ AtPoint
    /\ \/ /\ writer' = [writer EXCEPT !.open = FALSE, !.pos = 0, !.dirty = FALSE]
          /\ stream' = [stream EXCEPT !.points = Tail(@)]
          /\ UNCHANGED buffer
       \/ writer.dirty /\ FailAt(Tail(stream.points))
    /\ UNCHANGED <<owner, files, ProducerSide>>

LeastOf(a, b) == IF a < b THEN a ELSE b

(* How far the next piece may go: not past a rotation point. *)
\* Mistaken: a rotation point ahead does not end the piece.
LimitIgnoringPoints ==
    /\ writer.at = "loop" /\ writer.available > 0 /\ ~AtPoint
    /\ writer' = [writer EXCEPT !.at = IF writer.open THEN "write" ELSE "open", !.limit = writer.available]
    /\ UNCHANGED <<buffer, stream, owner, files, ProducerSide>>

Limit ==
    /\ writer.at = "loop" /\ writer.available > 0 /\ ~AtPoint
    /\ writer' = [writer EXCEPT
            !.at = IF writer.open THEN "write" ELSE "open",
            !.limit = IF stream.points = <<>> THEN writer.available
                      ELSE LeastOf(Head(stream.points) - writer.drained, writer.available)]
    /\ UNCHANGED <<buffer, stream, owner, files, ProducerSide>>

(* The file of target_fn, error_log_store_target(): the newest one of today    *)
(* that has room, or the next, with a header line of its own.                 *)
Targets == {head \in Heads : head < MaxFileSize}

(* sd_card_writer_open_file(): what is in the picked file counts towards its   *)
(* size, unless the producers count for a later one.                          *)
OpenFile ==
    /\ writer.at = "open"
    /\ \/ \E head \in Targets :
            /\ writer' = [writer EXCEPT !.at = "write", !.open = TRUE, !.pos = head % Sector, !.dirty = head > 0]
            /\ stream' = [stream EXCEPT !.bytes = @ + IF stream.points = <<>> THEN head ELSE 0]
            /\ files' = Append(files, [turn |-> turns, bytes |-> <<>>])
            /\ UNCHANGED buffer
       \/ Fail /\ UNCHANGED files
    /\ UNCHANGED <<owner, ProducerSide>>

(* sd_card_writer_next_chunk(): up to the next sector, then whole sectors.    *)
NextChunk(limit) ==
    IF writer.pos > 0 THEN LeastOf(Sector - writer.pos, limit)
    ELSE LET size == LeastOf(limit, Chunk)
         IN  IF size > Sector THEN size - (size % Sector) ELSE size

(* A piece is taken from the buffer and written to the card. *)
WritePiece ==
    /\ writer.at = "write"
    /\ \/ LET size == NextChunk(writer.limit)
          IN  /\ files' = [files EXCEPT ![Len(files)].bytes = @ \o SubSeq(buffer, 1, size)]
              /\ buffer' = SubSeq(buffer, size + 1, Len(buffer))
              /\ writer' = [writer EXCEPT !.at = "loop", !.available = @ - size, !.limit = 0, !.dirty = TRUE,
                                          !.drained = @ + size, !.pos = (@ + size) % Sector]
              /\ stream' = Released(stream)
       \/ Fail /\ UNCHANGED files
    /\ UNCHANGED <<owner, ProducerSide>>

(* All of it is written: what is due is synced. *)
\* Mistaken: a command does not hurry the sync.
MayWaitAnyway == TRUE

MayWait == ~writer.dirty \/ ~writer.force

\* Mistaken: room is made known only when something was written.
ServedQuietly(dirty) ==
    /\ writer' = [writer EXCEPT !.at = Over, !.dirty = dirty]
    /\ UNCHANGED <<buffer, stream>>

ServedWith(dirty) ==
    /\ writer' = [writer EXCEPT !.at = Over, !.dirty = dirty]
    /\ stream' = Released(stream)
    /\ UNCHANGED buffer

(* The flush interval has passed, or a command does not wait for it. *)
Sync ==
    /\ writer.at = "loop" /\ writer.available = 0 /\ writer.dirty
    /\ ServedWith(FALSE) \/ Fail
    /\ UNCHANGED <<owner, files, ProducerSide>>

SyncLater ==
    /\ writer.at = "loop" /\ writer.available = 0 /\ MayWait
    /\ ServedWith(writer.dirty)
    /\ UNCHANGED <<owner, files, ProducerSide>>

(* A command is answered; closing lets go of the stream, synced already.      *)
Answer ==
    /\ writer.at = "answer"
    /\ IF owner.at = "flushing"
       THEN /\ writer' = [writer EXCEPT !.at = "idle", !.force = FALSE]
            /\ owner' = [at |-> "open", upTo |-> 0]
       ELSE /\ writer' = [NotOpen EXCEPT !.drained = writer.drained]
            /\ owner' = [at |-> "closed", upTo |-> 0]
    /\ UNCHANGED <<buffer, stream, files, ProducerSide>>

-----------------------------------------------------------------------------
Write(p) ==
    \/ Lock(p) \/ NoRoom(p) \/ WantSpace(p) \/ GotSpace(p) \/ Account(p) \/ Send(p)

TimesOut(p) == GiveUpLock(p) \/ WaitTimesOut(p)

WriterTask ==
    \/ Register \/ Look \/ Turn \/ Limit \/ OpenFile \/ WritePiece \/ Sync \/ SyncLater \/ Answer

Next ==
    \/ \E p \in Producers : Call(p) \/ Write(p) \/ TimesOut(p)
    \/ Rotate
    \/ OpenStream \/ Flush \/ CloseStream
    \/ WriterTask

Spec == Init /\ [][Next]_vars

(* Every task runs, the writer at every tick, and after enough ticks the      *)
(* flush interval has passed; nobody has to call anything, and a wait need    *)
(* not time out.                                                              *)
Fairness ==
    /\ \A p \in Producers : WF_vars(Write(p))
    /\ WF_vars(WriterTask)
    /\ SF_vars(Sync)

FairSpec == Spec /\ Fairness

-----------------------------------------------------------------------------
(* The values of the variables; no more rotation points than slots, and no    *)
(* more in the buffer than it holds.                                          *)
TypeOK ==
    /\ buffer \in Seq(Bytes) /\ Len(buffer) <= BufferSize
    /\ stream \in [holder: Producers \cup {Nobody}, failed: BOOLEAN, wanted: BOOLEAN, sem: BOOLEAN,
                   total: Nat, bytes: Nat, points: Seq(Nat)]
    /\ Len(stream.points) <= Slots
    /\ prod \in [Producers -> [at: {"idle", "lock", "room", "want", "wait", "send"},
                               id: 0 .. MaxRecords, size: Sizes \cup {0},
                               wait: {"limited", "forever"}, turn: 0 .. MaxTurns, over: BOOLEAN]]
    /\ writer \in [at: {"idle", "loop", "open", "write", "answer"},
                   force: BOOLEAN, available: 0 .. BufferSize, limit: 0 .. BufferSize,
                   registered: BOOLEAN, open: BOOLEAN, pos: 0 .. Sector - 1, drained: Nat,
                   dirty: BOOLEAN]
    /\ owner \in [at: {"none", "opening", "open", "flushing", "closing", "closed"}, upTo: Nat]
    /\ files \in Seq([turn: 0 .. MaxTurns, bytes: Seq(Bytes)])
    /\ accepted \in 0 .. MaxRecords /\ turns \in 0 .. MaxTurns

(* Records reach the card whole, in the order they were accepted, and each in *)
(* one file, whatever the producers, the sector boundaries and the rotations  *)
(* do; and once the card has failed nothing is written any more.              *)
(* A record is whole in a file with its last byte.                            *)
EndsOf(bytes) == {k \in DOMAIN bytes : bytes[k].left = 0}
UpTo(bytes, k) == {j \in EndsOf(bytes) : j <= k}
Nth(bytes, i) == CHOOSE k \in EndsOf(bytes) : Cardinality(UpTo(bytes, k)) = i

WholeRecords(bytes) == [i \in 1 .. Cardinality(EndsOf(bytes)) |-> bytes[Nth(bytes, i)].id]
WholeFiles == [i \in DOMAIN files |-> WholeRecords(files[i].bytes)]

(* The records that are whole in some file, and the accepted ones that are not. *)
Whole == UNION {{files[i].bytes[k].id : k \in EndsOf(files[i].bytes)} : i \in DOMAIN files}
Queued == [i \in 1 .. accepted - Cardinality(Whole) |-> Cardinality(Whole) + i]

Begun == files # <<>> /\ Last(files).bytes # <<>> /\ Last(Last(files).bytes).left > 0

Log == INSTANCE RecordLog WITH
    Records <- 1 .. MaxRecords,
    queue <- Queued,
    files <- WholeFiles,
    begun <- Begun,
    failed <- stream.failed

ImplementsRecordLog == Log!Spec

(* sd_card_writer.h, rotate(): the records after it are in files picked after *)
(* it, also when it was refused for lack of a slot, when it came on top of    *)
(* one that waits, or when the writer was just about to open a file.          *)
RotateTakesEffect ==
    \A i \in DOMAIN files : \A k \in DOMAIN files[i].bytes : files[i].bytes[k].turn <= files[i].turn

(* sd_card_writer.h, max_file_size: of what the producers queued, a file gets *)
(* no more than the limit, unless it is one record, or every slot was taken   *)
(* when a record was too large for it.                                        *)
FileWithinLimit ==
    \A i \in DOMAIN files :
        LET bytes == files[i].bytes
        IN  Len(bytes) > MaxFileSize =>
                \/ \A k \in DOMAIN bytes : bytes[k].id = bytes[1].id
                \/ \E k \in DOMAIN bytes : bytes[k].over

(* Files turn where they should, on request and by size: both of the above.   *)
FilesTurn == RotateTakesEffect /\ FileWithinLimit

(* A flush() or close_stream() that succeeds has everything on the card that  *)
(* was queued when it was called, and synced.                                 *)
FlushMeansOnCard ==
    [][owner.at \in {"flushing", "closing"} /\ owner'.at \in {"open", "closed"} /\ ~stream.failed
        => writer.drained >= owner.upTo /\ ~writer.dirty]_vars

(* Every write() returns, also one that waits for room without a limit while  *)
(* the card fails: the writer wakes it, even when it asked for room just      *)
(* after the writer had made some.                                            *)
EveryWriteReturns == \A p \in Producers : prod[p].at # "idle" ~> prod[p].at = "idle"

=============================================================================
