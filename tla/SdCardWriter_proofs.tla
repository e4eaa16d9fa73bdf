------------------------- MODULE SdCardWriter_proofs -------------------------
(***************************************************************************)
(* A rotation takes effect, files turn by size, a flush that succeeds has  *)
(* everything on the card, and the stream implements RecordLog: for every  *)
(* number of producers, sizes, slots and sector sizes.                     *)
(***************************************************************************)
EXTENDS SdCardWriter, TLAPS, SequenceTheorems, FiniteSetTheorems

Streams == [holder: Producers \cup {Nobody}, failed: BOOLEAN, wanted: BOOLEAN, sem: BOOLEAN,
            total: Nat, bytes: Nat, points: Seq(Nat)]
Writes == [at: {"idle", "lock", "room", "want", "wait", "send"},
           id: 0 .. MaxRecords, size: Sizes \cup {0},
           wait: {"limited", "forever"}, turn: 0 .. MaxTurns, over: BOOLEAN]
Writers == [at: {"idle", "loop", "open", "write", "answer"},
            force: BOOLEAN, available: 0 .. BufferSize, limit: 0 .. BufferSize,
            registered: BOOLEAN, open: BOOLEAN, pos: 0 .. Sector - 1, drained: Nat,
            dirty: BOOLEAN]
Owners == [at: {"none", "opening", "open", "flushing", "closing", "closed"}, upTo: Nat]
Files == [turn: 0 .. MaxTurns, bytes: Seq(Bytes)]

-----------------------------------------------------------------------------
(* The inductive invariant.  What has a place for one record only is held by  *)
(* who has the mutex; a record that is accepted has room.                     *)
Holding == {"room", "want", "wait", "send"}

ProducerShape ==
    \A p \in Producers :
        /\ prod[p].at \in Holding => stream.holder = p
        /\ prod[p].at # "idle" => prod[p].size \in Sizes /\ prod[p].size <= BufferSize
        /\ prod[p].at = "send" => /\ prod[p].id # 0 /\ prod[p].turn <= turns
                                  /\ Len(buffer) + prod[p].size <= BufferSize

(* A record that may still be accepted has a number left. *)
RecordCount == accepted + Accepting <= MaxRecords

(* The end of what is buffered, in bytes of the stream. *)
End == writer.drained + Len(buffer)

(* The producers and the writer count the same bytes, until the card fails;   *)
(* no rotation point is ahead of what the producers have counted.             *)
Balance ==
    /\ ~stream.failed =>
        /\ \A p \in Producers : prod[p].at = "send" => stream.total = End + prod[p].size
        /\ (\A p \in Producers : prod[p].at # "send") => stream.total = End
    /\ \A i \in 1 .. Len(stream.points) : stream.points[i] <= stream.total

(* The writer goes no further than what is buffered and the next point. *)
Serving == writer.at \in {"loop", "open", "write"}

WriterShape ==
    /\ Serving => ~stream.failed /\ writer.available <= Len(buffer)
    /\ writer.at \in {"open", "write"} =>
        /\ writer.limit <= writer.available
        /\ stream.points # <<>> => writer.drained + writer.limit <= stream.points[1]
    /\ writer.at = "write" => writer.open
    /\ writer.open => ~stream.failed /\ files # <<>>

(* A byte that is too late for the open file is behind a rotation point, and  *)
(* so is a record that is about to be buffered, and any record from now on.   *)
Picked == files[Len(files)].turn

TurnShape ==
    /\ \A i \in 1 .. Len(buffer) : buffer[i].turn <= turns
    /\ writer.open =>
        /\ turns > Picked => stream.points # <<>>
        /\ \A i \in 1 .. Len(buffer) :
            buffer[i].turn > Picked => stream.points # <<>> /\ writer.drained + i > stream.points[1]
        /\ \A p \in Producers :
            prod[p].at = "send" /\ prod[p].turn > Picked => stream.points # <<>> /\ End >= stream.points[1]

(* What a command waits for is buffered when it is looked at, and on the card *)
(* when it is answered.                                                       *)
FlushShape ==
    /\ Commanded /\ ~stream.failed => End >= owner.upTo
    /\ writer.force => Commanded
    /\ Serving /\ writer.force => writer.drained + writer.available >= owner.upTo
    /\ writer.at = "answer" =>
        writer.force /\ (~stream.failed => writer.drained >= owner.upTo /\ ~writer.dirty)

IInv ==
    /\ TypeOK /\ ProducerShape /\ RecordCount /\ Balance /\ WriterShape /\ TurnShape
    /\ FlushShape /\ RotateTakesEffect

-----------------------------------------------------------------------------
LEMMA Constants ==
    /\ BufferSize \in Nat /\ Slots \in Nat \ {0} /\ Sector \in Nat \ {0} /\ Chunk \in Nat \ {0}
    /\ MaxRecords \in Nat /\ MaxTurns \in Nat
    /\ Sizes \subseteq Nat /\ Heads \subseteq Nat /\ Nobody \notin Producers
  BY WriterAssumption

LEMMA SizeIsNat == ASSUME NEW w \in Writes PROVE w.size \in Nat
  <1>1. w.size \in Sizes \cup {0}
    BY DEF Writes
  <1>2. Sizes \subseteq Nat /\ 0 \in Nat
    BY Constants
  <1>. QED
    BY <1>1, <1>2, Zenon

(* Arithmetic and sequences. *)
LEMMA Remainder ==
    ASSUME NEW a \in Nat, NEW b \in Nat \ {0} PROVE a % b \in 0 .. b - 1 /\ a - (a % b) \in 0 .. a
  <1>1. a % b \in 0 .. b - 1
    OBVIOUS
  <1>2. a % b <= a
    OBVIOUS
  <1>. QED
    BY <1>1, <1>2

LEMMA Split ==
    ASSUME NEW S, NEW s \in Seq(S), NEW n \in 0 .. Len(s)
    PROVE  /\ SubSeq(s, 1, n) \in Seq(S) /\ Len(SubSeq(s, 1, n)) = n
           /\ SubSeq(s, n + 1, Len(s)) \in Seq(S)
           /\ Len(SubSeq(s, n + 1, Len(s))) = Len(s) - n
           /\ \A i \in 1 .. n : SubSeq(s, 1, n)[i] = s[i]
           /\ \A i \in 1 .. Len(s) - n : SubSeq(s, n + 1, Len(s))[i] = s[n + i]
  OBVIOUS

LEMMA Least == ASSUME NEW a \in Int, NEW b \in Int, a <= b PROVE (IF a < b THEN a ELSE b) = a
  OBVIOUS

(* A piece is within what it may be. *)
LEMMA ChunkWithinLimit ==
    ASSUME writer \in Writers, NEW limit \in Nat
    PROVE  NextChunk(limit) \in 0 .. limit
  <1>1. Sector \in Nat \ {0} /\ Chunk \in Nat \ {0} /\ writer.pos \in 0 .. Sector - 1
    BY WriterAssumption DEF Writers
  <1>2. CASE writer.pos > 0
    BY <1>1, <1>2 DEF NextChunk, LeastOf
  <1>3. CASE ~(writer.pos > 0)
    <2>. DEFINE size == LeastOf(limit, Chunk)
    <2>1. size \in 0 .. limit
      BY <1>1 DEF LeastOf
    <2>2. size \in Nat /\ size <= limit
      BY <2>1
    <2>3. NextChunk(limit) = IF size > Sector THEN size - (size % Sector) ELSE size
      BY <1>3 DEF NextChunk
    <2>. HIDE DEF size
    <2>4. size - (size % Sector) \in 0 .. size
      BY <1>1, <2>2, Remainder
    <2>. QED
      BY <2>2, <2>3, <2>4
  <1>. QED
    BY <1>2, <1>3

LEMMA Types ==
    TypeOK <=> /\ buffer \in Seq(Bytes) /\ Len(buffer) <= BufferSize
               /\ stream \in Streams /\ Len(stream.points) <= Slots
               /\ prod \in [Producers -> Writes] /\ writer \in Writers /\ owner \in Owners
               /\ files \in Seq(Files)
               /\ accepted \in 0 .. MaxRecords /\ turns \in 0 .. MaxTurns
  BY DEF TypeOK, Streams, Writes, Writers, Owners, Files

LEMMA TypesAfter ==
    ASSUME buffer' \in Seq(Bytes), Len(buffer') <= BufferSize,
           stream' \in Streams, Len(stream'.points) <= Slots,
           prod' \in [Producers -> Writes], writer' \in Writers, owner' \in Owners,
           files' \in Seq(Files), accepted' \in 0 .. MaxRecords, turns' \in 0 .. MaxTurns
    PROVE  TypeOK'
  BY DEF TypeOK, Streams, Writes, Writers, Owners, Files

(* The records that may still be accepted are few enough to be counted. *)
Candidates == {p \in Producers : prod[p].at \in {"lock", "room", "want", "wait"}}

LEMMA AcceptingIsNat == Accepting \in Nat /\ IsFiniteSet(Candidates) /\ Accepting = Cardinality(Candidates)
  <1>1. IsFiniteSet(Candidates)
    BY FS_Subset, WriterAssumption DEF Candidates
  <1>. QED
    BY <1>1, FS_CardinalityType DEF Accepting, Candidates

-----------------------------------------------------------------------------
THEOREM InitOK == Init => IInv
  <1>. SUFFICES ASSUME Init PROVE IInv
    OBVIOUS
  <1>. USE WriterAssumption DEF Init
  <1>1. TypeOK
    <2>1. NotWriting \in Writes /\ NotOpen \in Writers
      BY DEF NotWriting, NotOpen, Writes, Writers
    <2>2. stream \in Streams
      BY DEF Streams
    <2>3. prod \in [Producers -> Writes] /\ writer \in Writers /\ owner \in Owners
      BY <2>1 DEF Owners
    <2>4. buffer \in Seq(Bytes) /\ Len(buffer) <= BufferSize /\ Len(stream.points) <= Slots
          /\ files \in Seq(Files) /\ accepted \in 0 .. MaxRecords /\ turns \in 0 .. MaxTurns
      OBVIOUS
    <2>. QED
      BY <2>2, <2>3, <2>4, Types
  <1>2. ProducerShape /\ Balance /\ WriterShape /\ TurnShape /\ FlushShape /\ RotateTakesEffect
    BY DEF ProducerShape, Balance, WriterShape, TurnShape, FlushShape, RotateTakesEffect, Holding,
           End, Serving, Commanded, NotWriting, NotOpen
  <1>3. RecordCount
    <2>1. Candidates = {}
      BY DEF Candidates, NotWriting
    <2>. QED
      BY <2>1, AcceptingIsNat, FS_EmptySet DEF RecordCount
  <1>. QED
    BY <1>1, <1>2, <1>3 DEF IInv

-----------------------------------------------------------------------------
(* Type correctness of every step. *)
LEMMA ReleaseTypes ==
    ASSUME TypeOK, NEW p \in Producers, Release(p)
    PROVE  stream' \in Streams /\ stream'.points = stream.points /\ prod' \in [Producers -> Writes]
  <1>0. stream \in Streams /\ prod \in [Producers -> Writes]
    BY Types
  <1>1. NotWriting \in Writes
    BY WriterAssumption DEF NotWriting, Writes
  <1>2. prod' = [prod EXCEPT ![p] = NotWriting] /\ stream' = [stream EXCEPT !.holder = Nobody]
    BY DEF Release, Return
  <1>3. prod' \in [Producers -> Writes]
    BY <1>0, <1>1, <1>2
  <1>4. stream' \in Streams /\ stream'.points = stream.points
    BY <1>0, <1>2 DEF Streams
  <1>. QED
    BY <1>3, <1>4

LEMMA FailTypes ==
    ASSUME TypeOK, NEW points \in Seq(Nat), FailAt(points)
    PROVE  /\ stream' \in Streams /\ stream'.points = points /\ stream'.failed
           /\ stream'.holder = stream.holder /\ stream'.total = stream.total
           /\ writer' \in Writers /\ buffer' = <<>> /\ ~writer'.open /\ ~writer'.dirty
           /\ writer'.at = Over /\ writer'.drained = writer.drained /\ writer'.force = writer.force
  <1>0. stream \in Streams /\ writer \in Writers
    BY Types
  <1>1. /\ stream' = [Released(stream) EXCEPT !.failed = TRUE, !.points = points]
        /\ writer' = [writer EXCEPT !.at = Over, !.open = FALSE, !.dirty = FALSE,
                                    !.available = 0, !.limit = 0, !.pos = 0]
        /\ buffer' = <<>>
    BY DEF FailAt
  <1>2. Over \in {"idle", "answer"} /\ 0 \in 0 .. BufferSize /\ 0 \in 0 .. Sector - 1
    BY WriterAssumption DEF Over
  <1>3. Released(stream) \in Streams /\ Released(stream).holder = stream.holder
        /\ Released(stream).total = stream.total
    BY <1>0 DEF Released, Streams
  <1>4. stream' \in Streams /\ stream'.points = points /\ stream'.failed
        /\ stream'.holder = stream.holder /\ stream'.total = stream.total
    BY <1>1, <1>3 DEF Streams
  <1>5. writer' \in Writers
    BY <1>0, <1>1, <1>2, Zenon DEF Writers
  <1>6. /\ ~writer'.open /\ ~writer'.dirty
        /\ writer'.at = Over /\ writer'.drained = writer.drained /\ writer'.force = writer.force
    BY <1>0, <1>1 DEF Writers
  <1>. QED
    BY <1>1, <1>4, <1>5, <1>6

LEMMA GotoTypes ==
    ASSUME TypeOK, NEW p \in Producers, NEW at \in {"room", "want", "wait"}, Goto(p, at)
    PROVE  prod' \in [Producers -> Writes]
  <1>1. prod \in [Producers -> Writes]
    BY Types
  <1>. QED
    BY <1>1 DEF Goto, Writes

(* A producer's step that leaves the bytes and the count of records alone. *)
Quiet(p) ==
    Call(p) \/ Lock(p) \/ NoRoom(p) \/ WantSpace(p) \/ GotSpace(p) \/ GiveUpLock(p) \/ WaitTimesOut(p)

LEMMA QuietTypes ==
    ASSUME TypeOK, NEW p \in Producers, Quiet(p)
    PROVE  TypeOK' /\ stream'.points = stream.points /\ prod' \in [Producers -> Writes]
  <1>0. /\ buffer \in Seq(Bytes) /\ Len(buffer) <= BufferSize
        /\ stream \in Streams /\ Len(stream.points) <= Slots
        /\ prod \in [Producers -> Writes] /\ writer \in Writers /\ owner \in Owners
        /\ files \in Seq(Files)
        /\ accepted \in 0 .. MaxRecords /\ turns \in 0 .. MaxTurns
    BY Types
  <1>1. SUFFICES stream' \in Streams /\ stream'.points = stream.points /\ prod' \in [Producers -> Writes]
    <2>1. UNCHANGED <<buffer, accepted, turns, WriterSide>>
      BY DEF Quiet, Call, Lock, NoRoom, WantSpace, GotSpace, GiveUpLock, WaitTimesOut
    <2>. QED
      BY <1>0, <2>1, TypesAfter DEF WriterSide
  <1>2. NotWriting \in Writes
    BY WriterAssumption DEF NotWriting, Writes
  <1>3. CASE Call(p)
    <2>1. PICK size \in Sizes, wait \in {"limited", "forever"} :
            prod' = [prod EXCEPT ![p] = [NotWriting EXCEPT !.at = "lock", !.size = size, !.wait = wait]]
      BY <1>3 DEF Call
    <2>2. [NotWriting EXCEPT !.at = "lock", !.size = size, !.wait = wait] \in Writes
      BY <1>2, Zenon DEF Writes
    <2>3. prod' \in [Producers -> Writes]
      BY <1>0, <2>1, <2>2
    <2>. QED
      BY <1>0, <1>3, <2>3 DEF Call
  <1>4. CASE Lock(p)
    BY <1>0, <1>4, GotoTypes DEF Lock, Streams
  <1>5. CASE NoRoom(p)
    BY <1>0, <1>5, GotoTypes, ReleaseTypes DEF NoRoom
  <1>6. CASE WantSpace(p)
    BY <1>0, <1>6, GotoTypes DEF WantSpace, Streams
  <1>7. CASE GotSpace(p)
    <2>1. prod' \in [Producers -> Writes]
      <3>1. CASE Return(p)
        BY <1>0, <1>2, <3>1 DEF Return
      <3>. QED
        BY <1>0, <1>7, <3>1, GotoTypes DEF GotSpace
    <2>2. stream' \in Streams /\ stream'.points = stream.points
      BY <1>0, <1>7 DEF GotSpace, Streams
    <2>. QED
      BY <2>1, <2>2
  <1>8. CASE GiveUpLock(p)
    BY <1>0, <1>2, <1>8 DEF GiveUpLock, Return
  <1>9. CASE WaitTimesOut(p)
    BY <1>0, <1>9, GotoTypes, ReleaseTypes DEF WaitTimesOut
  <1>. QED
    BY <1>3, <1>4, <1>5, <1>6, <1>7, <1>8, <1>9 DEF Quiet

LEMMA AccountTypes ==
    ASSUME IInv, NEW p \in Producers, Account(p)
    PROVE  TypeOK'
  <1>0. /\ buffer \in Seq(Bytes) /\ Len(buffer) <= BufferSize
        /\ stream \in Streams /\ Len(stream.points) <= Slots
        /\ prod \in [Producers -> Writes] /\ writer \in Writers /\ owner \in Owners
        /\ files \in Seq(Files)
        /\ accepted \in 0 .. MaxRecords /\ turns \in 0 .. MaxTurns
    BY Types DEF IInv
  <1>1. prod[p] \in Writes /\ prod[p].size \in Nat /\ prod[p].at = "room"
    BY <1>0, WriterAssumption DEF Account, Writes
  <1>2. accepted' \in 0 .. MaxRecords
    <2>1. p \in Candidates
      BY <1>1 DEF Candidates
    <2>2. Accepting >= 1
      BY <2>1, AcceptingIsNat, FS_EmptySet
    <2>3. accepted' = accepted + 1 /\ accepted + Accepting <= MaxRecords
      BY DEF Account, Accepted, RecordCount, IInv
    <2>. HIDE DEF Accepting
    <2>. QED
      BY <1>0, <2>2, <2>3, AcceptingIsNat, WriterAssumption
  <1>3. prod' \in [Producers -> Writes]
    <2>. DEFINE over == TooLarge(prod[p].size) /\ ~StartsNextFile(prod[p].size)
                w == [prod[p] EXCEPT !.at = "send", !.id = accepted', !.turn = turns, !.over = over]
    <2>1. over \in BOOLEAN
      BY DEF TooLarge, StartsNextFile
    <2>2. prod' = [prod EXCEPT ![p] = w]
      BY DEF Account, Accepted
    <2>. HIDE DEF over
    <2>3. w \in Writes
      BY <1>0, <1>1, <1>2, <2>1, Zenon DEF Writes
    <2>. QED
      BY <1>0, <2>2, <2>3
  <1>4. stream' \in Streams /\ Len(stream'.points) <= Slots
    <2>. DEFINE next == StartsNextFile(prod[p].size)
    <2>. DEFINE points == IF next THEN Append(stream.points, stream.total) ELSE stream.points
                bytes == prod[p].size + IF next THEN 0 ELSE stream.bytes
                total == stream.total + prod[p].size
    <2>1. stream' = [stream EXCEPT !.points = points, !.bytes = bytes, !.total = total]
      BY DEF Account
    <2>2. stream.points \in Seq(Nat) /\ stream.total \in Nat /\ stream.bytes \in Nat
      BY <1>0 DEF Streams
    <2>3. points \in Seq(Nat) /\ Len(points) <= Slots
      BY <1>0, <2>2, WriterAssumption DEF StartsNextFile
    <2>4. bytes \in Nat /\ total \in Nat
      BY <1>1, <2>2
    <2>. HIDE DEF points, bytes, total
    <2>5. stream' \in Streams
      BY <1>0, <2>1, <2>3, <2>4, Zenon DEF Streams
    <2>. QED
      BY <1>0, <2>1, <2>3, <2>5 DEF Streams
  <1>. QED
    BY <1>0, <1>2, <1>3, <1>4, TypesAfter DEF Account, WriterSide

(* A record is buffered whole. *)
LEMMA SendEffect ==
    ASSUME IInv, NEW p \in Producers, Send(p)
    PROVE  /\ buffer' \in Seq(Bytes) /\ Len(buffer') = Len(buffer) + prod[p].size
           /\ prod[p].size \in Nat /\ Len(buffer') <= BufferSize
           /\ \A i \in 1 .. Len(buffer) : buffer'[i] = buffer[i]
           /\ \A i \in Len(buffer) + 1 .. Len(buffer') : buffer'[i].turn = prod[p].turn
           /\ buffer' = buffer \o RecordOf(p) /\ RecordOf(p) \in Seq(Bytes)
  <1>0. /\ buffer \in Seq(Bytes) /\ prod[p] \in Writes /\ prod[p].at = "send"
    BY Types DEF IInv, Send
  <1>1. /\ prod[p].id \in 1 .. MaxRecords /\ prod[p].size \in Nat
        /\ Len(buffer) + prod[p].size <= BufferSize
    <2>1. /\ prod[p].id # 0 /\ prod[p].size \in Sizes /\ Len(buffer) + prod[p].size <= BufferSize
      BY <1>0 DEF ProducerShape, IInv
    <2>2. prod[p].id \in 0 .. MaxRecords
      BY <1>0 DEF Writes
    <2>3. prod[p].id \in 1 .. MaxRecords
      BY <2>1, <2>2, Constants
    <2>4. prod[p].size \in Nat
      BY <2>1, Constants
    <2>. QED
      BY <2>1, <2>3, <2>4
  <1>2. \A i \in 1 .. prod[p].size :
            [id |-> prod[p].id, left |-> prod[p].size - i, turn |-> prod[p].turn, over |-> prod[p].over] \in Bytes
    BY <1>0, <1>1 DEF Bytes, Writes
  <1>3. RecordOf(p) \in [1 .. prod[p].size -> Bytes]
    BY <1>2 DEF RecordOf
  <1>4. RecordOf(p) \in Seq(Bytes) /\ Len(RecordOf(p)) = prod[p].size
        /\ \A i \in 1 .. prod[p].size : RecordOf(p)[i].turn = prod[p].turn
    <2>1. \A i \in 1 .. prod[p].size : RecordOf(p)[i].turn = prod[p].turn
      BY DEF RecordOf
    <2>. QED
      BY <1>1, <1>3, <2>1
  <1>5. Fits(RecordOf(p)) = RecordOf(p)
    <2>. DEFINE room == BufferSize - Len(buffer)
    <2>1. room \in Int /\ prod[p].size <= room
      BY <1>0, <1>1, WriterAssumption
    <2>. HIDE DEF room
    <2>2. (IF Len(RecordOf(p)) < room THEN Len(RecordOf(p)) ELSE room) = Len(RecordOf(p))
      BY <1>1, <1>4, <2>1, Least
    <2>. QED
      BY <1>4, <2>2, SubSeqFull, Zenon DEF Fits, room
  <1>6. buffer' = buffer \o RecordOf(p)
    BY <1>5 DEF Send
  <1>7. /\ buffer' \in Seq(Bytes) /\ Len(buffer') = Len(buffer) + prod[p].size
        /\ \A i \in 1 .. Len(buffer) + prod[p].size : buffer'[i] =
                IF i <= Len(buffer) THEN buffer[i] ELSE RecordOf(p)[i - Len(buffer)]
    <2>. DEFINE record == RecordOf(p)
    <2>1. record \in Seq(Bytes) /\ buffer' = buffer \o record /\ Len(record) = prod[p].size
      BY <1>4, <1>6
    <2>. HIDE DEF record
    <2>2. /\ buffer \o record \in Seq(Bytes) /\ Len(buffer \o record) = Len(buffer) + Len(record)
          /\ \A i \in 1 .. Len(buffer) + Len(record) : (buffer \o record)[i] =
                  IF i <= Len(buffer) THEN buffer[i] ELSE record[i - Len(buffer)]
      BY <1>0, <2>1, ConcatProperties
    <2>. QED
      BY <2>1, <2>2 DEF record
  <1>8. Len(buffer) \in Nat
    BY <1>0, LenProperties
  <1>9. \A i \in Len(buffer) + 1 .. Len(buffer') : buffer'[i].turn = prod[p].turn
    <2>. SUFFICES ASSUME NEW i \in Len(buffer) + 1 .. Len(buffer') PROVE buffer'[i].turn = prod[p].turn
      OBVIOUS
    <2>1. i - Len(buffer) \in 1 .. prod[p].size /\ ~(i <= Len(buffer)) /\ i \in 1 .. Len(buffer) + prod[p].size
      BY <1>1, <1>7, <1>8
    <2>. QED
      BY <1>4, <1>7, <2>1
  <1>. QED
    BY <1>1, <1>4, <1>6, <1>7, <1>8, <1>9

LEMMA SendTypes ==
    ASSUME IInv, NEW p \in Producers, Send(p)
    PROVE  TypeOK'
  <1>1. stream' \in Streams /\ stream'.points = stream.points /\ prod' \in [Producers -> Writes]
    BY ReleaseTypes DEF Send, IInv
  <1>2. /\ Len(stream.points) <= Slots /\ writer \in Writers /\ owner \in Owners
        /\ files \in Seq(Files) /\ accepted \in 0 .. MaxRecords /\ turns \in 0 .. MaxTurns
    BY Types DEF IInv
  <1>3. UNCHANGED <<accepted, turns, writer, owner, files>>
    BY DEF Send, WriterSide
  <1>. QED
    BY <1>1, <1>2, <1>3, SendEffect, TypesAfter

-----------------------------------------------------------------------------
(* Every step is one of these, by what it changes.                            *)
Asks ==
    \/ owner.at = "none" /\ Ask("opening")
    \/ owner.at = "open" /\ (Ask("flushing") \/ Ask("closing"))

Turns ==
    /\ writer.at = "loop" /\ stream.points # <<>> /\ Head(stream.points) <= writer.drained
    /\ writer' = [writer EXCEPT !.open = FALSE, !.pos = 0, !.dirty = FALSE]
    /\ stream' = [stream EXCEPT !.points = Tail(@)]
    /\ UNCHANGED <<buffer, owner, files, ProducerSide>>

Opens ==
    /\ writer.at = "open"
    /\ \E head \in Heads :
        /\ writer' = [writer EXCEPT !.at = "write", !.open = TRUE, !.pos = head % Sector, !.dirty = head > 0]
        /\ stream' = [stream EXCEPT !.bytes = @ + IF stream.points = <<>> THEN head ELSE 0]
    /\ files' = Append(files, [turn |-> turns, bytes |-> <<>>])
    /\ UNCHANGED <<buffer, owner, ProducerSide>>

Pieces(size) ==
    /\ writer.at = "write" /\ writer.open
    /\ size <= writer.limit /\ size <= writer.available /\ size <= Len(buffer)
    /\ files # <<>> /\ ~stream.failed
    /\ files' = [files EXCEPT ![Len(files)].bytes = @ \o SubSeq(buffer, 1, size)]
    /\ buffer' = SubSeq(buffer, size + 1, Len(buffer))
    /\ writer' = [writer EXCEPT !.at = "loop", !.available = @ - size, !.limit = 0, !.dirty = TRUE,
                                !.drained = @ + size, !.pos = (@ + size) % Sector]
    /\ stream' = Released(stream)
    /\ UNCHANGED <<owner, ProducerSide>>

Serves ==
    /\ writer.at = "loop" /\ writer.available = 0
    /\ \E dirty \in BOOLEAN :
        /\ writer.force => ~dirty
        /\ writer' = [writer EXCEPT !.at = Over, !.dirty = dirty]
    /\ stream' = Released(stream)
    /\ UNCHANGED <<buffer, owner, files, ProducerSide>>

Breaks ==
    /\ Serving
    /\ \/ FailAt(stream.points)
       \/ stream.points # <<>> /\ FailAt(Tail(stream.points))
    /\ UNCHANGED <<owner, files, ProducerSide>>

WriterStep ==
    \/ Register \/ Look \/ Turns \/ Limit \/ Opens \/ (\E size \in Nat : Pieces(size))
    \/ Serves \/ Answer \/ Breaks

(* A piece is no more than what is available. *)
LEMMA PieceSize ==
    ASSUME IInv, WritePiece
    PROVE  /\ NextChunk(writer.limit) \in Nat /\ NextChunk(writer.limit) <= writer.limit
           /\ NextChunk(writer.limit) <= writer.available /\ NextChunk(writer.limit) <= Len(buffer)
  <1>1. writer \in Writers /\ buffer \in Seq(Bytes)
    BY Types DEF IInv
  <1>2. /\ writer.limit \in Nat /\ writer.available \in Nat /\ Len(buffer) \in Nat
    BY <1>1, LenProperties, Constants DEF Writers
  <1>3. writer.limit <= writer.available /\ writer.available <= Len(buffer)
    BY DEF WritePiece, WriterShape, Serving, IInv
  <1>4. NextChunk(writer.limit) \in 0 .. writer.limit
    BY <1>1, <1>2, ChunkWithinLimit
  <1>. QED
    BY <1>2, <1>3, <1>4

LEMMA WriterSteps == ASSUME IInv, WriterTask PROVE WriterStep
  <1>0. writer \in Writers
    BY Types DEF IInv
  <1>1. CASE Turn
    BY <1>1 DEF Turn, AtPoint, Turns, Breaks, Serving, WriterStep
  <1>2. CASE OpenFile
    <2>1. \A head \in Targets : head \in Heads
      BY DEF Targets
    <2>. QED
      BY <1>2, <2>1 DEF OpenFile, Fail, Opens, Breaks, Serving, WriterStep
  <1>3. CASE WritePiece
    <2>1. CASE FailAt(stream.points) /\ UNCHANGED files
      BY <1>3, <2>1 DEF WritePiece, Breaks, Serving, WriterStep
    <2>2. CASE ~(FailAt(stream.points) /\ UNCHANGED files)
      <3>. DEFINE size == NextChunk(writer.limit)
      <3>1. size \in Nat /\ Pieces(size)
        <4>1. writer.at = "write" /\ writer.open /\ files # <<>> /\ ~stream.failed
          BY <1>3 DEF WritePiece, WriterShape, IInv
        <4>2. size \in Nat /\ size <= writer.limit /\ size <= writer.available /\ size <= Len(buffer)
          BY <1>3, PieceSize
        <4>3. /\ files' = [files EXCEPT ![Len(files)].bytes = @ \o SubSeq(buffer, 1, size)]
              /\ buffer' = SubSeq(buffer, size + 1, Len(buffer))
              /\ writer' = [writer EXCEPT !.at = "loop", !.available = @ - size, !.limit = 0, !.dirty = TRUE,
                                          !.drained = @ + size, !.pos = (@ + size) % Sector]
              /\ stream' = Released(stream)
              /\ UNCHANGED <<owner, ProducerSide>>
          BY <1>3, <2>2, Zenon DEF WritePiece, Fail
        <4>. HIDE DEF size
        <4>. QED
          BY <4>1, <4>2, <4>3 DEF Pieces
      <3>. HIDE DEF size
      <3>. QED
        BY <3>1 DEF WriterStep
    <2>. QED
      BY <2>1, <2>2
  <1>4. CASE Sync
    BY <1>4 DEF Sync, ServedWith, Fail, Serves, Breaks, Serving, WriterStep
  <1>5. CASE SyncLater
    <2>1. writer.dirty \in BOOLEAN /\ (writer.force => ~writer.dirty)
      BY <1>0, <1>5 DEF SyncLater, MayWait, Writers
    <2>. QED
      BY <1>5, <2>1 DEF SyncLater, ServedWith, Serves, WriterStep
  <1>. QED
    BY <1>1, <1>2, <1>3, <1>4, <1>5 DEF WriterTask, WriterStep

LEMMA Steps ==
    ASSUME IInv, [Next]_vars
    PROVE  \/ UNCHANGED vars
           \/ \E p \in Producers : Quiet(p) \/ Account(p) \/ Send(p)
           \/ Rotate \/ Asks \/ WriterStep
  <1>1. CASE Next
    <2>1. CASE WriterTask
      BY <2>1, WriterSteps
    <2>2. CASE OpenStream \/ Flush \/ CloseStream
      BY <2>2 DEF OpenStream, Flush, CloseStream, Asks
    <2>. QED
      BY <1>1, <2>1, <2>2 DEF Next, Write, TimesOut, Quiet
  <1>. QED
    BY <1>1

-----------------------------------------------------------------------------
(* The types after the writer's steps. *)
FlatTypes ==
    /\ buffer \in Seq(Bytes) /\ Len(buffer) <= BufferSize
    /\ stream \in Streams /\ Len(stream.points) <= Slots
    /\ prod \in [Producers -> Writes] /\ writer \in Writers /\ owner \in Owners
    /\ files \in Seq(Files)
    /\ accepted \in 0 .. MaxRecords /\ turns \in 0 .. MaxTurns

LEMMA ReleasedTypes ==
    ASSUME TypeOK
    PROVE  /\ Released(stream) \in Streams /\ Released(stream).points = stream.points
           /\ Released(stream).holder = stream.holder /\ Released(stream).total = stream.total
           /\ Released(stream).failed = stream.failed /\ Released(stream).bytes = stream.bytes
  <1>1. stream \in Streams
    BY Types
  <1>. QED
    BY <1>1 DEF Released, Streams

(* A failure from anywhere leaves the types. *)
LEMMA FailKeepsTypes ==
    ASSUME TypeOK, NEW points \in Seq(Nat), Len(points) <= Slots, FailAt(points),
           UNCHANGED <<owner, files, ProducerSide>>
    PROVE  TypeOK'
  <1>1. /\ stream' \in Streams /\ stream'.points = points /\ writer' \in Writers /\ buffer' = <<>>
    BY FailTypes
  <1>2. buffer' \in Seq(Bytes) /\ Len(buffer') <= BufferSize
    BY <1>1, Constants
  <1>3. prod \in [Producers -> Writes] /\ owner \in Owners /\ files \in Seq(Files)
        /\ accepted \in 0 .. MaxRecords /\ turns \in 0 .. MaxTurns
    BY Types
  <1>. QED
    BY <1>1, <1>2, <1>3, TypesAfter DEF ProducerSide

LEMMA PieceTypes ==
    ASSUME IInv, NEW size \in Nat, Pieces(size)
    PROVE  TypeOK'
  <1>0. FlatTypes
    BY Types DEF IInv, FlatTypes
  <1>1. /\ size <= writer.available /\ size <= Len(buffer) /\ files # <<>>
        /\ files' = [files EXCEPT ![Len(files)].bytes = @ \o SubSeq(buffer, 1, size)]
        /\ buffer' = SubSeq(buffer, size + 1, Len(buffer))
        /\ writer' = [writer EXCEPT !.at = "loop", !.available = @ - size, !.limit = 0, !.dirty = TRUE,
                                    !.drained = @ + size, !.pos = (@ + size) % Sector]
        /\ stream' = Released(stream)
        /\ UNCHANGED <<owner, ProducerSide>>
    BY Zenon DEF Pieces
  <1>2. /\ buffer \in Seq(Bytes) /\ Len(buffer) \in Nat /\ size \in 0 .. Len(buffer)
    BY <1>0, <1>1, LenProperties DEF FlatTypes
  <1>3. /\ buffer' \in Seq(Bytes) /\ Len(buffer') = Len(buffer) - size
        /\ SubSeq(buffer, 1, size) \in Seq(Bytes)
    BY <1>1, <1>2, Split
  <1>4. writer' \in Writers
    <2>. DEFINE available == writer.available - size
                drained == writer.drained + size
                pos == (writer.pos + size) % Sector
    <2>1. /\ writer.available \in 0 .. BufferSize /\ writer.drained \in Nat
          /\ writer.pos \in 0 .. Sector - 1
      BY <1>0 DEF FlatTypes, Writers
    <2>2. available \in 0 .. BufferSize /\ drained \in Nat /\ 0 \in 0 .. BufferSize
      <3>1. size \in Nat /\ size <= writer.available
        BY <1>1
      <3>. QED
        BY <2>1, <3>1, Constants
    <2>3. writer.pos + size \in Nat
      BY <2>1, Constants
    <2>4. pos \in 0 .. Sector - 1
      BY <2>3, Remainder, Constants
    <2>5. writer' = [writer EXCEPT !.at = "loop", !.available = available, !.limit = 0, !.dirty = TRUE,
                                   !.drained = drained, !.pos = pos]
      BY <1>1
    <2>. HIDE DEF available, drained, pos
    <2>. QED
      BY <1>0, <2>2, <2>4, <2>5, Zenon DEF FlatTypes, Writers
  <1>5. files' \in Seq(Files)
    <2>1. files \in Seq(Files) /\ Len(files) \in 1 .. Len(files) /\ files[Len(files)] \in Files
      BY <1>0, <1>1, LenProperties, EmptySeq, ElementOfSeq DEF FlatTypes
    <2>. DEFINE f == [files[Len(files)] EXCEPT !.bytes = @ \o SubSeq(buffer, 1, size)]
    <2>2. files[Len(files)].bytes \o SubSeq(buffer, 1, size) \in Seq(Bytes)
      BY <1>3, <2>1, ConcatProperties DEF Files
    <2>3. f \in Files
      BY <2>1, <2>2, Zenon DEF Files
    <2>4. files' = [files EXCEPT ![Len(files)] = f]
      BY <1>1
    <2>. HIDE DEF f
    <2>. QED
      BY <2>1, <2>3, <2>4, ExceptSeq
  <1>6. Len(buffer') <= BufferSize
    BY <1>0, <1>2, <1>3, Constants DEF FlatTypes
  <1>. QED
    BY <1>0, <1>1, <1>3, <1>4, <1>5, <1>6, ReleasedTypes, TypesAfter DEF FlatTypes, ProducerSide, IInv

LEMMA WriterTypes ==
    ASSUME IInv, WriterStep
    PROVE  TypeOK'
  <1>0. FlatTypes /\ TypeOK /\ stream.points \in Seq(Nat) /\ Len(stream.points) \in Nat
    <2>1. FlatTypes /\ TypeOK
      BY Types DEF IInv, FlatTypes
    <2>2. stream.points \in Seq(Nat)
      BY <2>1 DEF FlatTypes, Streams
    <2>. QED
      BY <2>1, <2>2, LenProperties
  <1>1. CASE Register
    <2>1. writer' \in Writers /\ owner' \in Owners
      BY <1>0, <1>1 DEF Register, FlatTypes, Writers, Owners
    <2>. QED
      BY <1>0, <1>1, <2>1, TypesAfter DEF Register, FlatTypes, ProducerSide
  <1>2. CASE Look
    <2>1. Commanded \in BOOLEAN
      BY DEF Commanded
    <2>2. CASE stream.failed
      <3>. DEFINE at == IF Commanded THEN "answer" ELSE "idle"
      <3>1. at \in {"answer", "idle"} /\ writer' = [writer EXCEPT !.force = Commanded, !.at = at]
        BY <1>2, <2>2 DEF Look
      <3>. HIDE DEF at
      <3>2. writer' \in Writers
        BY <1>0, <2>1, <3>1, Zenon DEF FlatTypes, Writers
      <3>3. buffer' \in Seq(Bytes) /\ Len(buffer') <= BufferSize
        BY <1>2, <2>2, Constants DEF Look
      <3>4. stream' = Released(stream)
        BY <1>2, <2>2 DEF Look
      <3>. QED
        BY <1>0, <1>2, <3>2, <3>3, <3>4, ReleasedTypes, TypesAfter DEF Look, FlatTypes, ProducerSide
    <2>3. CASE ~stream.failed
      <3>1. writer' = [writer EXCEPT !.force = Commanded, !.at = "loop", !.available = Len(buffer)]
            /\ UNCHANGED <<buffer, stream>>
        BY <1>2, <2>3 DEF Look
      <3>2. Len(buffer) \in 0 .. BufferSize
        BY <1>0, LenProperties, Constants DEF FlatTypes
      <3>3. writer' \in Writers
        BY <1>0, <2>1, <3>1, <3>2, Zenon DEF FlatTypes, Writers
      <3>. QED
        BY <1>0, <1>2, <3>1, <3>3, TypesAfter DEF Look, FlatTypes, ProducerSide
    <2>. QED
      BY <2>2, <2>3
  <1>3. CASE Turns
    <2>1. Tail(stream.points) \in Seq(Nat) /\ Len(Tail(stream.points)) <= Slots
      BY <1>0, <1>3, HeadTailProperties, Constants DEF Turns, FlatTypes
    <2>2. stream' \in Streams /\ stream'.points = Tail(stream.points)
      BY <1>0, <1>3, <2>1 DEF Turns, FlatTypes, Streams
    <2>3. 0 \in 0 .. Sector - 1
      BY Constants
    <2>4. writer' \in Writers
      BY <1>0, <1>3, <2>3, Zenon DEF Turns, FlatTypes, Writers
    <2>. QED
      BY <1>0, <1>3, <2>1, <2>2, <2>4, TypesAfter DEF Turns, FlatTypes, ProducerSide
  <1>4. CASE Limit
    <2>1. /\ writer.available \in 0 .. BufferSize /\ writer.drained \in Nat /\ writer.at = "loop"
      BY <1>0, <1>4 DEF Limit, FlatTypes, Writers
    <2>. DEFINE limit == IF stream.points = <<>> THEN writer.available
                         ELSE LeastOf(Head(stream.points) - writer.drained, writer.available)
                at == IF writer.open THEN "write" ELSE "open"
    <2>2. limit \in 0 .. BufferSize
      <3>1. CASE stream.points = <<>>
        BY <2>1, <3>1
      <3>2. CASE stream.points # <<>>
        <4>1. Head(stream.points) \in Nat /\ ~(Head(stream.points) <= writer.drained)
          BY <1>0, <1>4, <3>2, HeadTailProperties DEF Limit, AtPoint
        <4>. DEFINE ahead == Head(stream.points) - writer.drained
        <4>2. ahead \in Nat
          BY <2>1, <4>1
        <4>3. limit = LeastOf(ahead, writer.available)
          BY <3>2
        <4>. HIDE DEF ahead, limit
        <4>. QED
          BY <2>1, <4>2, <4>3, Constants DEF LeastOf
      <3>. QED
        BY <3>1, <3>2
    <2>3. writer' = [writer EXCEPT !.at = at, !.limit = limit] /\ at \in {"write", "open"}
      BY <1>4 DEF Limit
    <2>. HIDE DEF limit, at
    <2>4. writer' \in Writers
      BY <1>0, <2>2, <2>3, Zenon DEF FlatTypes, Writers
    <2>. QED
      BY <1>0, <1>4, <2>4, TypesAfter DEF Limit, FlatTypes, ProducerSide
  <1>5. CASE Opens
    <2>1. PICK head \in Heads :
            /\ writer' = [writer EXCEPT !.at = "write", !.open = TRUE, !.pos = head % Sector, !.dirty = head > 0]
            /\ stream' = [stream EXCEPT !.bytes = @ + IF stream.points = <<>> THEN head ELSE 0]
      BY <1>5 DEF Opens
    <2>2. head \in Nat
      BY Constants
    <2>3. head % Sector \in 0 .. Sector - 1 /\ (head > 0) \in BOOLEAN
      BY <2>2, Remainder, Constants
    <2>4. writer' \in Writers
      BY <1>0, <2>1, <2>3, Zenon DEF FlatTypes, Writers
    <2>5. stream' \in Streams /\ stream'.points = stream.points
      <3>. DEFINE bytes == stream.bytes + IF stream.points = <<>> THEN head ELSE 0
      <3>1. bytes \in Nat
        BY <1>0, <2>2 DEF FlatTypes, Streams
      <3>2. stream' = [stream EXCEPT !.bytes = bytes]
        BY <2>1
      <3>. HIDE DEF bytes
      <3>. QED
        BY <1>0, <3>1, <3>2 DEF FlatTypes, Streams
    <2>6. files' \in Seq(Files)
      <3>1. [turn |-> turns, bytes |-> <<>>] \in Files
        BY <1>0 DEF Files, FlatTypes
      <3>. QED
        BY <1>0, <1>5, <3>1, AppendProperties DEF Opens, FlatTypes
    <2>. QED
      BY <1>0, <1>5, <2>4, <2>5, <2>6, TypesAfter DEF Opens, FlatTypes, ProducerSide
  <1>6. ASSUME NEW size \in Nat, Pieces(size) PROVE TypeOK'
    BY <1>6, PieceTypes
  <1>7. CASE Serves
    <2>1. PICK dirty \in BOOLEAN : writer' = [writer EXCEPT !.at = Over, !.dirty = dirty]
      BY <1>7 DEF Serves
    <2>2. Over \in {"idle", "answer"}
      BY DEF Over
    <2>3. writer' \in Writers
      BY <1>0, <2>1, <2>2, Zenon DEF FlatTypes, Writers
    <2>. QED
      BY <1>0, <1>7, <2>3, ReleasedTypes, TypesAfter DEF Serves, FlatTypes, ProducerSide
  <1>8. CASE Answer
    <2>1. NotOpen \in Writers
      BY Constants DEF NotOpen, Writers
    <2>2. writer.drained \in Nat
      BY <1>0 DEF FlatTypes, Writers
    <2>3. writer' \in Writers
      <3>1. CASE owner.at = "flushing"
        BY <1>0, <1>8, <3>1, Zenon DEF Answer, FlatTypes, Writers
      <3>2. CASE owner.at # "flushing"
        <4>1. writer' = [NotOpen EXCEPT !.drained = writer.drained]
          BY <1>8, <3>2 DEF Answer
        <4>. QED
          BY <2>1, <2>2, <4>1, Zenon DEF Writers
      <3>. QED
        BY <3>1, <3>2
    <2>4. owner' \in Owners
      BY <1>8 DEF Answer, Owners
    <2>. QED
      BY <1>0, <1>8, <2>3, <2>4, TypesAfter DEF Answer, FlatTypes, ProducerSide
  <1>9. CASE Breaks
    <2>1. CASE FailAt(stream.points)
      BY <1>0, <1>9, <2>1, FailKeepsTypes DEF Breaks, FlatTypes
    <2>2. CASE stream.points # <<>> /\ FailAt(Tail(stream.points))
      <3>1. Tail(stream.points) \in Seq(Nat) /\ Len(Tail(stream.points)) <= Slots
        BY <1>0, <2>2, HeadTailProperties, Constants DEF FlatTypes
      <3>. QED
        BY <1>0, <1>9, <2>2, <3>1, FailKeepsTypes DEF Breaks
    <2>. QED
      BY <1>9, <2>1, <2>2 DEF Breaks
  <1>. QED
    BY <1>1, <1>2, <1>3, <1>4, <1>5, <1>6, <1>7, <1>8, <1>9 DEF WriterStep

LEMMA TypesKept ==
    ASSUME IInv, [Next]_vars
    PROVE  TypeOK'
  <1>0. FlatTypes /\ TypeOK
    BY Types DEF IInv, FlatTypes
  <1>1. CASE UNCHANGED vars
    BY <1>0, <1>1, TypesAfter DEF vars, FlatTypes
  <1>2. CASE \E p \in Producers : Quiet(p) \/ Account(p) \/ Send(p)
    BY <1>0, <1>2, QuietTypes, AccountTypes, SendTypes
  <1>3. CASE Rotate
    <2>1. stream.points \in Seq(Nat) /\ stream.total \in Nat
      BY <1>0 DEF FlatTypes, Streams
    <2>2. stream' \in Streams /\ Len(stream'.points) <= Slots
      <3>1. CASE AlreadyPending \/ Len(stream.points) = Slots
        BY <1>0, <1>3, <3>1 DEF Rotate, FlatTypes
      <3>2. CASE ~(AlreadyPending \/ Len(stream.points) = Slots)
        <4>. DEFINE points == Append(stream.points, stream.total)
        <4>1. points \in Seq(Nat) /\ Len(points) <= Slots
          BY <1>0, <2>1, <3>2, AppendProperties, LenProperties, Constants DEF FlatTypes
        <4>2. stream' = [stream EXCEPT !.points = points, !.bytes = 0]
          BY <1>3, <3>2 DEF Rotate
        <4>. HIDE DEF points
        <4>3. stream' \in Streams
          BY <1>0, <4>1, <4>2, Zenon DEF FlatTypes, Streams
        <4>. QED
          BY <1>0, <4>1, <4>2, <4>3 DEF FlatTypes, Streams
      <3>. QED
        BY <3>1, <3>2
    <2>3. turns' \in 0 .. MaxTurns
      BY <1>0, <1>3, Constants DEF Rotate, FlatTypes
    <2>. QED
      BY <1>0, <1>3, <2>2, <2>3, TypesAfter DEF Rotate, FlatTypes, WriterSide
  <1>4. CASE Asks
    <2>1. writer.drained + Len(buffer) \in Nat
      BY <1>0, LenProperties DEF FlatTypes, Writers
    <2>2. owner' \in Owners
      BY <1>4, <2>1 DEF Asks, Ask, Owners
    <2>. QED
      BY <1>0, <1>4, <2>2, TypesAfter DEF Asks, Ask, FlatTypes
  <1>. QED
    BY <1>1, <1>2, <1>3, <1>4, Steps, WriterTypes

-----------------------------------------------------------------------------
(* What the writer leaves alone, and what it only takes away. *)
LEMMA WriterLeaves ==
    ASSUME IInv, WriterStep
    PROVE  /\ prod' = prod /\ accepted' = accepted /\ turns' = turns
           /\ stream'.holder = stream.holder /\ stream'.total = stream.total
           /\ Len(buffer') <= Len(buffer)
           /\ stream'.points = stream.points \/ (stream.points # <<>> /\ stream'.points = Tail(stream.points))
           /\ ~stream'.failed => ~stream.failed
  <1>0. TypeOK /\ stream \in Streams /\ writer \in Writers /\ buffer \in Seq(Bytes) /\ Len(buffer) \in Nat
    BY Types, LenProperties DEF IInv
  <1>1. UNCHANGED ProducerSide
    BY DEF WriterStep, Register, Look, Turns, Limit, Opens, Pieces, Serves, Answer, Breaks
  <1>2. /\ stream'.holder = stream.holder /\ stream'.total = stream.total
        /\ stream'.points = stream.points \/ (stream.points # <<>> /\ stream'.points = Tail(stream.points))
        /\ ~stream'.failed => ~stream.failed
    <2>1. CASE stream' = stream \/ stream' = Released(stream)
      BY <1>0, <2>1, ReleasedTypes
    <2>2. CASE Turns \/ Opens
      BY <1>0, <2>2 DEF Turns, Opens, Streams
    <2>3. CASE Breaks
      <3>1. stream.points \in Seq(Nat)
        BY <1>0 DEF Streams
      <3>2. stream.points # <<>> => Tail(stream.points) \in Seq(Nat)
        BY <3>1, HeadTailProperties
      <3>. QED
        BY <1>0, <2>3, <3>1, <3>2, FailTypes DEF Breaks
    <2>. QED
      BY <2>1, <2>2, <2>3 DEF WriterStep, Register, Look, Limit, Pieces, Serves, Answer
  <1>3. Len(buffer') <= Len(buffer)
    <2>1. CASE buffer' = buffer
      BY <1>0, <2>1
    <2>2. CASE buffer' = <<>>
      BY <1>0, <2>2
    <2>3. ASSUME NEW size \in Nat, Pieces(size) PROVE Len(buffer') <= Len(buffer)
      <3>1. buffer' = SubSeq(buffer, size + 1, Len(buffer)) /\ size \in 0 .. Len(buffer)
        BY <1>0, <2>3 DEF Pieces
      <3>. QED
        BY <1>0, <3>1, Split
    <2>. QED
      BY <2>1, <2>2, <2>3 DEF WriterStep, Register, Look, Turns, Limit, Opens, Serves, Answer, Breaks, FailAt
  <1>. QED
    BY <1>1, <1>2, <1>3 DEF ProducerSide

(* Producers: one at a time. *)
LEMMA ShapeKept ==
    ASSUME IInv, [Next]_vars, TypeOK'
    PROVE  ProducerShape'
  <1>0. /\ stream \in Streams /\ prod \in [Producers -> Writes] /\ ProducerShape
        /\ Len(buffer) \in Nat /\ buffer \in Seq(Bytes) /\ turns \in Nat /\ accepted \in Nat
    BY Types, LenProperties, Constants DEF IInv
  <1>9. \A q \in Producers : prod[q] \in Writes
    BY <1>0
  <1>1. CASE UNCHANGED vars
    BY <1>0, <1>1 DEF vars, ProducerShape
  <1>2. ASSUME NEW p \in Producers, Quiet(p) PROVE ProducerShape'
    <2>1. UNCHANGED <<buffer, turns>>
      BY <1>2 DEF Quiet, Call, Lock, NoRoom, WantSpace, GotSpace, GiveUpLock, WaitTimesOut
    <2>2. \A q \in Producers \ {p} : prod'[q] = prod[q]
      BY <1>0, <1>2 DEF Quiet, Call, Lock, NoRoom, WantSpace, GotSpace, GiveUpLock, WaitTimesOut, Goto, Return, Release
    <2>3. \A q \in Producers \ {p} : prod[q].at \in Holding => stream'.holder = q
      BY <1>0, <1>2, Constants
        DEF Quiet, Call, Lock, NoRoom, WantSpace, GotSpace, GiveUpLock, WaitTimesOut, Goto, Return, Release,
            ProducerShape, Holding, Streams
    <2>4. /\ prod'[p].at \in Holding => stream'.holder = p
          /\ prod'[p].at # "send"
          /\ prod'[p].at # "idle" => prod'[p].size \in Sizes /\ prod'[p].size <= BufferSize
      <3>1. CASE Call(p)
        BY <1>0, <1>9, <3>1 DEF Call, NotWriting, Holding, Writes
      <3>2. CASE Lock(p)
        BY <1>0, <1>9, <3>2 DEF Lock, Goto, ProducerShape, Holding, Writes, Streams
      <3>3. CASE prod'[p] = NotWriting
        BY <3>3 DEF NotWriting, Holding
      <3>4. CASE (\E at \in {"room", "want", "wait"} : Goto(p, at)) /\ prod[p].at \in Holding /\ stream'.holder = stream.holder
        BY <1>0, <1>9, <3>4 DEF Goto, ProducerShape, Holding, Writes
      <3>. QED
        BY <1>0, <1>2, <3>1, <3>2, <3>3, <3>4
          DEF Quiet, NoRoom, WantSpace, GotSpace, GiveUpLock, WaitTimesOut, Return, Release, Holding, Streams
    <2>. QED
      BY <1>0, <2>1, <2>2, <2>3, <2>4 DEF ProducerShape
  <1>3. ASSUME NEW p \in Producers, Account(p) PROVE ProducerShape'
    <2>1. /\ UNCHANGED <<buffer, turns>> /\ stream'.holder = stream.holder
          /\ prod[p].at = "room" /\ HasRoom(p) /\ accepted' = accepted + 1
      BY <1>0, <1>3 DEF Account, Accepted, Streams
    <2>2. /\ prod'[p].at = "send" /\ prod'[p].id = accepted' /\ prod'[p].turn = turns
          /\ prod'[p].size = prod[p].size
      BY <1>0, <1>3, <1>9 DEF Account, Accepted, Writes
    <2>3. \A q \in Producers \ {p} : prod'[q] = prod[q]
      BY <1>0, <1>3 DEF Account, Accepted
    <2>4. prod[p].size \in Sizes /\ prod[p].size <= BufferSize /\ Len(buffer) + prod[p].size <= BufferSize
      <3>1. prod[p].size \in Sizes /\ prod[p].size <= BufferSize
        BY <1>0, <2>1 DEF ProducerShape
      <3>2. BufferSize - Len(buffer) >= prod[p].size
        BY <2>1 DEF HasRoom
      <3>3. prod[p].size \in Nat /\ BufferSize \in Nat /\ Len(buffer) \in Nat
        BY <1>0, <3>1, Constants
      <3>. QED
        BY <3>1, <3>2, <3>3
    <2>5. stream.holder = p
      BY <1>0, <2>1 DEF ProducerShape, Holding
    <2>. QED
      BY <1>0, <2>1, <2>2, <2>3, <2>4, <2>5 DEF ProducerShape, Holding
  <1>4. ASSUME NEW p \in Producers, Send(p) PROVE ProducerShape'
    <2>1. /\ turns' = turns /\ prod[p].at = "send" /\ prod'[p] = NotWriting
      BY <1>0, <1>4 DEF Send, Release, Return
    <2>2. \A q \in Producers \ {p} : prod'[q] = prod[q] /\ prod[q].at \notin Holding
      BY <1>0, <1>4 DEF Send, Release, Return, ProducerShape, Holding
    <2>. QED
      BY <1>0, <2>1, <2>2 DEF ProducerShape, Holding, NotWriting
  <1>5. CASE Rotate
    <2>1. /\ prod' = prod /\ buffer' = buffer /\ turns' = turns + 1 /\ stream'.holder = stream.holder
      BY <1>0, <1>5 DEF Rotate, Streams
    <2>2. \A q \in Producers : prod[q].turn \in Nat
      BY <1>9, Constants DEF Writes
    <2>. QED
      BY <1>0, <2>1, <2>2 DEF ProducerShape
  <1>6. CASE Asks
    BY <1>0, <1>6 DEF Asks, Ask, ProducerShape
  <1>7. CASE WriterStep
    <2>1. Len(buffer') \in Nat
      BY LenProperties DEF TypeOK
    <2>2. \A q \in Producers : prod[q].at # "idle" => prod[q].size \in Nat
      BY <1>0, Constants DEF ProducerShape
    <2>. QED
      BY <1>0, <1>7, <2>1, <2>2, WriterLeaves, Constants DEF ProducerShape
  <1>. QED
    BY <1>1, <1>2, <1>3, <1>4, <1>5, <1>6, <1>7, Steps

(* No record is accepted without a number. *)
LEMMA CountKept ==
    ASSUME IInv, [Next]_vars, TypeOK'
    PROVE  RecordCount'
  <1>0. /\ prod \in [Producers -> Writes] /\ accepted \in Nat /\ MaxRecords \in Nat
        /\ accepted + Cardinality(Candidates) <= MaxRecords
    BY Types, AcceptingIsNat, Constants DEF IInv, RecordCount
  <1>1. SUFFICES accepted' + Cardinality(Candidates') <= MaxRecords
    BY DEF RecordCount, Accepting, Candidates
  <1>2. \A S \in SUBSET Producers : IsFiniteSet(S) /\ Cardinality(S) \in Nat
    BY FS_Subset, FS_CardinalityType, WriterAssumption
  <1>3. IsFiniteSet(Candidates) /\ Cardinality(Candidates) \in Nat
        /\ IsFiniteSet(Candidates') /\ Cardinality(Candidates') \in Nat
    BY <1>2 DEF Candidates
  <1>4. ASSUME accepted' = accepted, Candidates' \subseteq Candidates
        PROVE  accepted' + Cardinality(Candidates') <= MaxRecords
    <2>1. Cardinality(Candidates') <= Cardinality(Candidates)
      BY <1>3, <1>4, FS_Subset
    <2>. QED
      BY <1>0, <1>3, <1>4, <2>1
  <1>5. CASE prod' = prod /\ accepted' = accepted
    BY <1>4, <1>5 DEF Candidates
  <1>6. ASSUME NEW p \in Producers, Quiet(p) PROVE accepted' + Cardinality(Candidates') <= MaxRecords
    <2>1. accepted' = accepted
      BY <1>6 DEF Quiet, Call, Lock, NoRoom, WantSpace, GotSpace, GiveUpLock, WaitTimesOut
    <2>2. CASE Call(p)
      <3>1. Candidates' \subseteq Candidates \cup {p}
        BY <1>0, <2>2 DEF Call, Candidates
      <3>2. Cardinality(Candidates') <= Cardinality(Candidates \cup {p})
        <4>1. IsFiniteSet(Candidates \cup {p})
          BY <1>3, FS_AddElement
        <4>. QED
          BY <3>1, <4>1, FS_Subset
      <3>3. Cardinality(Candidates \cup {p}) <= Cardinality(Candidates) + 1
        <4>1. Cardinality(Candidates \cup {p}) \in {Cardinality(Candidates), Cardinality(Candidates) + 1}
          BY <1>3, FS_AddElement
        <4>. QED
          BY <1>3, <4>1
      <3>4. accepted + Cardinality(Candidates) < MaxRecords
        BY <2>2 DEF Call, Accepting, Candidates
      <3>5. Cardinality(Candidates \cup {p}) \in Nat
        BY <1>3, FS_AddElement, FS_CardinalityType
      <3>. QED
        BY <1>0, <1>3, <2>1, <3>2, <3>3, <3>4, <3>5
    <2>3. CASE ~Call(p)
      <3>1. prod[p].at \in {"lock", "room", "want", "wait"} /\ \A q \in Producers \ {p} : prod'[q] = prod[q]
        BY <1>0, <1>6, <2>3
          DEF Quiet, Lock, NoRoom, WantSpace, GotSpace, GiveUpLock, WaitTimesOut, Goto, Return, Release
      <3>2. Candidates' \subseteq Candidates
        BY <3>1 DEF Candidates
      <3>. QED
        BY <1>4, <2>1, <3>2
    <2>. QED
      BY <2>2, <2>3
  <1>7. ASSUME NEW p \in Producers, Account(p) PROVE accepted' + Cardinality(Candidates') <= MaxRecords
    <2>1. prod'[p].at = "send" /\ \A q \in Producers \ {p} : prod'[q] = prod[q]
      <3>1. prod[p] \in Writes
        BY <1>0
      <3>. QED
        BY <1>0, <1>7, <3>1 DEF Account, Accepted, Writes
    <2>2. Candidates' \subseteq Candidates \ {p} /\ p \in Candidates /\ accepted' = accepted + 1
      BY <1>7, <2>1 DEF Account, Accepted, Candidates
    <2>3. Cardinality(Candidates \ {p}) = Cardinality(Candidates) - 1 /\ IsFiniteSet(Candidates \ {p})
      BY <1>3, <2>2, FS_RemoveElement
    <2>4. Cardinality(Candidates') <= Cardinality(Candidates \ {p})
      BY <2>2, <2>3, FS_Subset
    <2>. QED
      BY <1>0, <1>3, <2>2, <2>3, <2>4
  <1>8. ASSUME NEW p \in Producers, Send(p) PROVE accepted' + Cardinality(Candidates') <= MaxRecords
    <2>1. prod'[p].at = "idle" /\ accepted' = accepted /\ \A q \in Producers \ {p} : prod'[q] = prod[q]
      BY <1>0, <1>8 DEF Send, Release, Return, NotWriting
    <2>2. Candidates' \subseteq Candidates
      BY <2>1 DEF Candidates
    <2>. QED
      BY <1>4, <2>1, <2>2
  <1>9. CASE UNCHANGED vars \/ Rotate \/ Asks \/ WriterStep
    BY <1>5, <1>9, WriterLeaves DEF vars, Rotate, Asks, Ask
  <1>. QED
    BY <1>6, <1>7, <1>8, <1>9, Steps

(* The end of what is buffered, as the writer moves it into files. *)
LEMMA EndStays ==
    ASSUME IInv, WriterStep, ~stream'.failed
    PROVE  End' = End
  <1>0. /\ TypeOK /\ stream \in Streams /\ writer \in Writers /\ buffer \in Seq(Bytes)
        /\ Len(buffer) \in Nat /\ writer.drained \in Nat /\ ~stream.failed
    <2>1. TypeOK /\ stream \in Streams /\ writer \in Writers /\ buffer \in Seq(Bytes) /\ ~stream.failed
      BY Types, WriterLeaves DEF IInv
    <2>. QED
      BY <2>1, LenProperties DEF Writers
  <1>1. CASE Register \/ Turns \/ Limit \/ Opens \/ Serves \/ Answer \/ Look
    <2>1. buffer' = buffer
      BY <1>0, <1>1 DEF Register, Turns, Limit, Opens, Serves, Answer, Look
    <2>2. writer'.drained = writer.drained
      <3>1. CASE Answer
        BY <1>0, <3>1 DEF Answer, NotOpen, Writers
      <3>2. CASE Look \/ Limit
        BY <1>0, <3>2 DEF Look, Limit, Writers
      <3>3. CASE Register \/ Turns
        BY <1>0, <3>3 DEF Register, Turns, Writers
      <3>4. CASE Opens
        BY <1>0, <3>4 DEF Opens, Writers
      <3>5. CASE Serves
        BY <1>0, <3>5 DEF Serves, Writers
      <3>. QED
        BY <1>1, <3>1, <3>2, <3>3, <3>4, <3>5
    <2>. QED
      BY <2>1, <2>2 DEF End
  <1>2. ASSUME NEW size \in Nat, Pieces(size) PROVE End' = End
    <2>1. /\ size \in 0 .. Len(buffer) /\ buffer' = SubSeq(buffer, size + 1, Len(buffer))
          /\ writer'.drained = writer.drained + size
      BY <1>0, <1>2 DEF Pieces, Writers
    <2>2. Len(buffer') = Len(buffer) - size
      BY <1>0, <2>1, Split
    <2>. QED
      BY <1>0, <2>1, <2>2 DEF End
  <1>3. CASE Breaks
    <2>1. stream'.failed
      <3>1. stream.points \in Seq(Nat)
        BY <1>0 DEF Streams
      <3>2. stream.points # <<>> => Tail(stream.points) \in Seq(Nat)
        BY <3>1, HeadTailProperties
      <3>. QED
        BY <1>0, <1>3, <3>1, <3>2, FailTypes DEF Breaks
    <2>. QED
      BY <2>1
  <1>. QED
    BY <1>1, <1>2, <1>3 DEF WriterStep

(* Nobody else is about to buffer a record while one has the mutex. *)
LEMMA OneSender ==
    ASSUME IInv, NEW p \in Producers, prod[p].at \in Holding
    PROVE  \A q \in Producers \ {p} : prod[q].at # "send"
  BY DEF IInv, ProducerShape, Holding

LEMMA QuietStays ==
    ASSUME TypeOK, NEW p \in Producers, Quiet(p)
    PROVE  /\ UNCHANGED <<buffer, accepted, turns, writer, owner, files>>
           /\ stream'.total = stream.total /\ stream'.failed = stream.failed /\ stream'.points = stream.points
           /\ stream'.bytes = stream.bytes
           /\ \A q \in Producers : prod'[q].at = "send" <=> prod[q].at = "send"
           /\ \A q \in Producers : prod'[q].at = "send" => prod'[q] = prod[q]
  <1>0. stream \in Streams /\ prod \in [Producers -> Writes]
    BY Types
  <1>1. UNCHANGED <<buffer, accepted, turns, writer, owner, files>>
    BY DEF Quiet, Call, Lock, NoRoom, WantSpace, GotSpace, GiveUpLock, WaitTimesOut, WriterSide
  <1>2. stream'.total = stream.total /\ stream'.failed = stream.failed /\ stream'.points = stream.points
        /\ stream'.bytes = stream.bytes
    BY <1>0 DEF Quiet, Call, Lock, NoRoom, WantSpace, GotSpace, GiveUpLock, WaitTimesOut, Release, Streams
  <1>3. prod[p].at # "send" /\ \A q \in Producers \ {p} : prod'[q] = prod[q]
    BY <1>0 DEF Quiet, Call, Lock, NoRoom, WantSpace, GotSpace, GiveUpLock, WaitTimesOut, Goto, Return, Release
  <1>4. prod'[p].at # "send"
    <2>1. prod[p] \in Writes
      BY <1>0
    <2>2. CASE Call(p)
      BY <1>0, <2>1, <2>2 DEF Call, NotWriting, Writes
    <2>3. CASE prod' = [prod EXCEPT ![p] = NotWriting]
      BY <1>0, <2>3 DEF NotWriting
    <2>4. CASE \E at \in {"room", "want", "wait"} : Goto(p, at)
      BY <1>0, <2>1, <2>4 DEF Goto, Writes
    <2>. QED
      BY <2>2, <2>3, <2>4
        DEF Quiet, Lock, NoRoom, WantSpace, GotSpace, GiveUpLock, WaitTimesOut, Return, Release
  <1>. QED
    BY <1>1, <1>2, <1>3, <1>4

LEMMA BalanceKept ==
    ASSUME IInv, [Next]_vars, TypeOK'
    PROVE  Balance'
  <1>0. /\ TypeOK /\ stream \in Streams /\ prod \in [Producers -> Writes] /\ writer \in Writers
        /\ buffer \in Seq(Bytes) /\ Len(buffer) \in Nat /\ writer.drained \in Nat
        /\ stream.points \in Seq(Nat) /\ Len(stream.points) \in Nat /\ stream.total \in Nat
        /\ Balance /\ End \in Nat
    <2>1. TypeOK /\ stream \in Streams /\ prod \in [Producers -> Writes] /\ writer \in Writers
          /\ buffer \in Seq(Bytes) /\ Balance
      BY Types DEF IInv
    <2>2. stream.points \in Seq(Nat) /\ stream.total \in Nat /\ writer.drained \in Nat
      BY <2>1 DEF Streams, Writers
    <2>. QED
      BY <2>1, <2>2, LenProperties DEF End
  <1>1. CASE UNCHANGED vars
    BY <1>0, <1>1 DEF vars, Balance, End
  <1>2. ASSUME NEW p \in Producers, Quiet(p) PROVE Balance'
    BY <1>0, <1>2, QuietStays DEF Balance, End
  <1>3. ASSUME NEW p \in Producers, Account(p) PROVE Balance'
    <2>1. prod[p].at = "room" /\ UNCHANGED <<buffer, writer>> /\ prod[p] \in Writes
      BY <1>0, <1>3 DEF Account, WriterSide
    <2>2. \A q \in Producers : prod[q].at # "send"
      BY <2>1, OneSender DEF Holding
    <2>3. prod[p].size \in Nat
      BY <2>1, SizeIsNat
    <2>4. /\ stream'.total = stream.total + prod[p].size /\ stream'.failed = stream.failed
          /\ stream'.points \in {stream.points, Append(stream.points, stream.total)}
      BY <1>0, <1>3 DEF Account, Streams
    <2>5. /\ prod'[p].at = "send" /\ prod'[p].size = prod[p].size
          /\ \A q \in Producers \ {p} : prod'[q] = prod[q]
      BY <1>0, <1>3, <2>1 DEF Account, Accepted, Writes
    <2>6. End' = End
      BY <2>1 DEF End
    <2>7. ~stream'.failed => \A q \in Producers : prod'[q].at = "send" => stream'.total = End' + prod'[q].size
      BY <1>0, <2>2, <2>3, <2>4, <2>5, <2>6 DEF Balance
    <2>8. \A i \in 1 .. Len(stream'.points) : stream'.points[i] <= stream'.total
      <3>1. CASE stream'.points = stream.points
        <4>1. \A i \in 1 .. Len(stream.points) : stream.points[i] <= stream.total /\ stream.points[i] \in Nat
          BY <1>0, ElementOfSeq DEF Balance
        <4>. QED
          BY <1>0, <2>3, <2>4, <3>1, <4>1
      <3>2. CASE stream'.points = Append(stream.points, stream.total)
        <4>1. \A i \in 1 .. Len(stream.points) : stream.points[i] <= stream.total /\ stream.points[i] \in Nat
          BY <1>0, ElementOfSeq DEF Balance
        <4>2. /\ Len(Append(stream.points, stream.total)) = Len(stream.points) + 1
              /\ \A i \in 1 .. Len(stream.points) : Append(stream.points, stream.total)[i] = stream.points[i]
              /\ Append(stream.points, stream.total)[Len(stream.points) + 1] = stream.total
          BY <1>0, AppendProperties
        <4>. QED
          BY <1>0, <2>3, <2>4, <3>2, <4>1, <4>2
      <3>. QED
        BY <2>4, <3>1, <3>2
    <2>. QED
      BY <2>5, <2>7, <2>8 DEF Balance
  <1>4. ASSUME NEW p \in Producers, Send(p) PROVE Balance'
    <2>1. prod[p].at = "send" /\ prod'[p].at = "idle" /\ writer' = writer
          /\ stream'.total = stream.total /\ stream'.failed = stream.failed /\ stream'.points = stream.points
          /\ \A q \in Producers \ {p} : prod'[q] = prod[q]
      BY <1>0, <1>4 DEF Send, Release, Return, NotWriting, WriterSide, Streams
    <2>2. \A q \in Producers : prod'[q].at # "send"
      BY <2>1, OneSender DEF Holding
    <2>3. Len(buffer') = Len(buffer) + prod[p].size /\ prod[p].size \in Nat
      BY <1>4, SendEffect
    <2>4. End' = End + prod[p].size
      BY <1>0, <2>1, <2>3 DEF End
    <2>. QED
      BY <1>0, <2>1, <2>2, <2>4 DEF Balance
  <1>5. CASE Rotate
    <2>1. /\ UNCHANGED <<prod, buffer, writer>> /\ stream'.total = stream.total /\ stream'.failed = stream.failed
          /\ stream'.points \in {stream.points, Append(stream.points, stream.total)}
      BY <1>0, <1>5 DEF Rotate, Streams, WriterSide
    <2>2. /\ Len(Append(stream.points, stream.total)) = Len(stream.points) + 1
          /\ \A i \in 1 .. Len(stream.points) : Append(stream.points, stream.total)[i] = stream.points[i]
          /\ Append(stream.points, stream.total)[Len(stream.points) + 1] = stream.total
      BY <1>0, AppendProperties
    <2>3. \A i \in 1 .. Len(stream'.points) : stream'.points[i] <= stream'.total
      <3>1. \A i \in 1 .. Len(stream.points) : stream.points[i] <= stream.total
        BY <1>0 DEF Balance
      <3>2. CASE stream'.points = stream.points
        BY <2>1, <3>1, <3>2
      <3>3. CASE stream'.points = Append(stream.points, stream.total)
        BY <1>0, <2>1, <2>2, <3>1, <3>3
      <3>. QED
        BY <2>1, <3>2, <3>3
    <2>4. End' = End
      BY <2>1 DEF End
    <2>. QED
      BY <1>0, <2>1, <2>3, <2>4 DEF Balance
  <1>6. CASE Asks
    BY <1>0, <1>6 DEF Asks, Ask, Balance, End
  <1>7. CASE WriterStep
    <2>1. /\ prod' = prod /\ stream'.total = stream.total
          /\ ~stream'.failed => ~stream.failed /\ End' = End
          /\ stream'.points = stream.points \/ (stream.points # <<>> /\ stream'.points = Tail(stream.points))
      BY <1>7, WriterLeaves, EndStays
    <2>2. \A i \in 1 .. Len(stream'.points) : stream'.points[i] <= stream'.total
      <3>1. CASE stream'.points = stream.points
        BY <1>0, <2>1, <3>1 DEF Balance
      <3>2. CASE stream.points # <<>> /\ stream'.points = Tail(stream.points)
        <4>1. /\ Len(Tail(stream.points)) = Len(stream.points) - 1
              /\ \A i \in 1 .. Len(Tail(stream.points)) : Tail(stream.points)[i] = stream.points[i + 1]
          BY <1>0, <3>2, HeadTailProperties
        <4>. QED
          BY <1>0, <2>1, <3>2, <4>1 DEF Balance
      <3>. QED
        BY <2>1, <3>1, <3>2
    <2>. QED
      BY <1>0, <2>1, <2>2 DEF Balance
  <1>. QED
    BY <1>1, <1>2, <1>3, <1>4, <1>5, <1>6, <1>7, Steps

LEMMA WriterShapeKept ==
    ASSUME IInv, [Next]_vars, TypeOK'
    PROVE  WriterShape'
  <1>0. /\ TypeOK /\ stream \in Streams /\ writer \in Writers /\ prod \in [Producers -> Writes]
        /\ buffer \in Seq(Bytes) /\ Len(buffer) \in Nat /\ writer.drained \in Nat
        /\ writer.available \in Nat /\ writer.limit \in Nat
        /\ stream.points \in Seq(Nat) /\ Len(stream.points) \in Nat /\ stream.total \in Nat
        /\ WriterShape /\ Balance
    <2>1. TypeOK /\ stream \in Streams /\ prod \in [Producers -> Writes] /\ writer \in Writers
          /\ buffer \in Seq(Bytes) /\ Balance /\ WriterShape
      BY Types DEF IInv
    <2>2. stream.points \in Seq(Nat) /\ stream.total \in Nat /\ writer.drained \in Nat
          /\ writer.available \in Nat /\ writer.limit \in Nat
      BY <2>1, Constants DEF Streams, Writers
    <2>. QED
      BY <2>1, <2>2, LenProperties
  (* A point that is put now is not before what may be written. *)
  <1>1. ASSUME Serving
        PROVE  stream.total >= writer.drained + writer.available
    <2>1. stream.total >= End
      <3>1. ~stream.failed
        BY <1>0, <1>1 DEF WriterShape
      <3>2. \A p \in Producers : prod[p].size \in Nat
        BY <1>0, SizeIsNat
      <3>3. End \in Nat
        BY <1>0 DEF End
      <3>. QED
        BY <1>0, <3>1, <3>2, <3>3 DEF Balance
    <2>2. writer.available <= Len(buffer)
      BY <1>0, <1>1 DEF WriterShape
    <2>. QED
      BY <1>0, <2>1, <2>2 DEF End
  <1>2. ASSUME UNCHANGED <<writer, files>>, stream'.failed = stream.failed,
               Len(buffer') \in Nat, Len(buffer') >= Len(buffer),
               stream'.points \in {stream.points, Append(stream.points, stream.total)}
        PROVE  WriterShape'
    <2>1. Serving' = Serving
      BY <1>2 DEF Serving
    <2>2. CASE stream'.points = stream.points
      BY <1>0, <1>2, <2>1, <2>2 DEF WriterShape
    <2>3. CASE stream'.points = Append(stream.points, stream.total)
      <3>1. stream'.points[1] = IF stream.points = <<>> THEN stream.total ELSE stream.points[1]
        <4>1. /\ \A i \in 1 .. Len(stream.points) : Append(stream.points, stream.total)[i] = stream.points[i]
              /\ Append(stream.points, stream.total)[Len(stream.points) + 1] = stream.total
          BY <1>0, AppendProperties
        <4>2. stream.points # <<>> => 1 \in 1 .. Len(stream.points)
          BY <1>0, EmptySeq
        <4>3. stream.points = <<>> => Len(stream.points) = 0
          BY <1>0
        <4>. QED
          BY <2>3, <4>1, <4>2, <4>3
      <3>2. writer.at \in {"open", "write"} =>
                writer.limit <= writer.available /\ writer.drained + writer.limit <= stream'.points[1]
        <4>. SUFFICES ASSUME writer.at \in {"open", "write"}
                      PROVE  writer.limit <= writer.available /\ writer.drained + writer.limit <= stream'.points[1]
          OBVIOUS
        <4>1. writer.limit <= writer.available
              /\ (stream.points # <<>> => writer.drained + writer.limit <= stream.points[1])
          BY <1>0 DEF WriterShape
        <4>2. stream.total >= writer.drained + writer.available
          BY <1>1 DEF Serving
        <4>. QED
          BY <1>0, <3>1, <4>1, <4>2
      <3>. QED
        BY <1>0, <1>2, <2>1, <3>2 DEF WriterShape
    <2>. QED
      BY <1>2, <2>2, <2>3
  <1>3. CASE UNCHANGED vars
    BY <1>0, <1>2, <1>3 DEF vars
  <1>4. ASSUME NEW p \in Producers, Quiet(p) PROVE WriterShape'
    BY <1>0, <1>2, <1>4, QuietStays
  <1>5. ASSUME NEW p \in Producers, Account(p) PROVE WriterShape'
    <2>1. /\ UNCHANGED <<buffer, writer, files>> /\ stream'.failed = stream.failed
          /\ stream'.points \in {stream.points, Append(stream.points, stream.total)}
      BY <1>0, <1>5 DEF Account, Streams, WriterSide
    <2>. QED
      BY <1>0, <1>2, <2>1
  <1>6. ASSUME NEW p \in Producers, Send(p) PROVE WriterShape'
    <2>1. /\ UNCHANGED <<writer, files>> /\ stream'.failed = stream.failed /\ stream'.points = stream.points
      BY <1>0, <1>6 DEF Send, Release, WriterSide, Streams
    <2>2. Len(buffer') = Len(buffer) + prod[p].size /\ prod[p].size \in Nat
      BY <1>6, SendEffect
    <2>3. Len(buffer') \in Nat /\ Len(buffer') >= Len(buffer)
      BY <1>0, <2>2
    <2>. QED
      BY <1>2, <2>1, <2>3
  <1>7. CASE Rotate
    <2>1. /\ UNCHANGED <<buffer, writer, files>> /\ stream'.failed = stream.failed
          /\ stream'.points \in {stream.points, Append(stream.points, stream.total)}
      BY <1>0, <1>7 DEF Rotate, Streams, WriterSide
    <2>. QED
      BY <1>0, <1>2, <2>1
  <1>8. CASE Asks
    BY <1>0, <1>2, <1>8 DEF Asks, Ask
  <1>9. CASE Register
    BY <1>0, <1>9 DEF Register, WriterShape, Serving, Writers
  <1>10. CASE Look
    <2>1. CASE stream.failed
      <3>1. stream'.failed /\ ~writer'.open /\ writer'.at \in {"answer", "idle"}
        BY <1>0, <1>10, <2>1, ReleasedTypes DEF Look, Writers, WriterShape
      <3>. QED
        BY <3>1 DEF WriterShape, Serving
    <2>2. CASE ~stream.failed
      <3>1. /\ writer'.at = "loop" /\ writer'.available = Len(buffer) /\ writer'.open = writer.open
            /\ UNCHANGED <<buffer, stream, files>>
        BY <1>0, <1>10, <2>2 DEF Look, Writers
      <3>. QED
        BY <1>0, <2>2, <3>1 DEF WriterShape, Serving
    <2>. QED
      BY <2>1, <2>2
  <1>11. CASE Turns
    <2>1. ~stream'.failed /\ ~writer'.open /\ writer'.at = "loop" /\ writer'.available = writer.available
          /\ buffer' = buffer
      BY <1>0, <1>11 DEF Turns, Writers, Streams, WriterShape, Serving
    <2>. QED
      BY <1>0, <1>11, <2>1 DEF WriterShape, Serving, Turns
  <1>12. CASE Limit
    <2>1. /\ writer'.at = IF writer.open THEN "write" ELSE "open"
          /\ writer'.limit = IF stream.points = <<>> THEN writer.available
                             ELSE LeastOf(Head(stream.points) - writer.drained, writer.available)
          /\ writer'.available = writer.available /\ writer'.drained = writer.drained
          /\ writer'.open = writer.open /\ UNCHANGED <<buffer, stream, files>> /\ writer.at = "loop"
      BY <1>0, <1>12 DEF Limit, Writers
    <2>2. ~stream.failed /\ writer.available <= Len(buffer) /\ (writer.open => files # <<>>)
      BY <1>0, <2>1 DEF WriterShape, Serving
    <2>3. writer'.limit <= writer.available
          /\ (stream.points # <<>> => writer.drained + writer'.limit <= stream.points[1])
      <3>1. CASE stream.points = <<>>
        BY <1>0, <2>1, <3>1
      <3>2. CASE stream.points # <<>>
        <4>1. Head(stream.points) = stream.points[1] /\ stream.points[1] \in Nat
          BY <1>0, <3>2, HeadTailProperties, EmptySeq, ElementOfSeq
        <4>. QED
          BY <1>0, <2>1, <3>2, <4>1 DEF LeastOf
      <3>. QED
        BY <3>1, <3>2
    <2>. QED
      BY <2>1, <2>2, <2>3 DEF WriterShape, Serving
  <1>13. CASE Opens
    <2>1. /\ writer'.at = "write" /\ writer'.open /\ writer'.available = writer.available
          /\ writer'.limit = writer.limit /\ writer'.drained = writer.drained
          /\ stream'.failed = stream.failed /\ stream'.points = stream.points /\ buffer' = buffer
          /\ writer.at = "open" /\ files' # <<>>
      <3>1. files' # <<>>
        <4>1. files \in Seq(Files) /\ [turn |-> turns, bytes |-> <<>>] \in Files
          BY Types DEF Files, IInv
        <4>. QED
          BY <1>13, <4>1, AppendProperties DEF Opens
      <3>. QED
        BY <1>0, <1>13, <3>1 DEF Opens, Writers, Streams
    <2>. QED
      BY <1>0, <2>1 DEF WriterShape, Serving
  <1>14. ASSUME NEW size \in Nat, Pieces(size) PROVE WriterShape'
    <2>1. /\ size \in 0 .. Len(buffer) /\ size <= writer.available /\ buffer' = SubSeq(buffer, size + 1, Len(buffer))
          /\ writer'.at = "loop" /\ writer'.available = writer.available - size /\ writer'.open = writer.open
          /\ ~stream.failed /\ files # <<>> /\ stream' = Released(stream)
          /\ writer.at = "write"
      <3>1. size \in 0 .. Len(buffer)
        BY <1>0, <1>14 DEF Pieces
      <3>2. writer'.at = "loop" /\ writer'.available = writer.available - size /\ writer'.open = writer.open
        BY <1>0, <1>14 DEF Pieces, Writers
      <3>. QED
        BY <1>14, <3>1, <3>2 DEF Pieces
    <2>2. Len(buffer') = Len(buffer) - size /\ ~stream'.failed
      BY <1>0, <2>1, Split, ReleasedTypes
    <2>3. files' # <<>>
      <3>1. files \in Seq(Files) /\ Len(files') = Len(files)
        BY <1>14, Types DEF Pieces, IInv
      <3>. QED
        BY <2>1, <3>1, EmptySeq
    <2>4. writer.available <= Len(buffer)
      BY <1>0, <2>1 DEF WriterShape, Serving
    <2>5. writer'.available <= Len(buffer')
      BY <1>0, <2>1, <2>2, <2>4
    <2>. QED
      BY <2>1, <2>2, <2>3, <2>5 DEF WriterShape, Serving
  <1>15. CASE Serves
    <2>1. writer'.at \in {"answer", "idle"} /\ writer'.open = writer.open /\ UNCHANGED files
          /\ stream'.failed = stream.failed /\ writer.at = "loop"
      BY <1>0, <1>15, ReleasedTypes DEF Serves, Over, Writers
    <2>. QED
      BY <1>0, <2>1 DEF WriterShape, Serving
  <1>16. CASE Answer
    <2>1. writer'.at = "idle" /\ (writer'.open => writer.open) /\ UNCHANGED <<files, stream>>
      BY <1>0, <1>16 DEF Answer, NotOpen, Writers
    <2>. QED
      BY <1>0, <2>1 DEF WriterShape, Serving
  <1>17. CASE Breaks
    <2>1. writer'.at \in {"answer", "idle"} /\ ~writer'.open
      <3>2. stream.points # <<>> => Tail(stream.points) \in Seq(Nat)
        BY <1>0, HeadTailProperties
      <3>. QED
        BY <1>0, <1>17, <3>2, FailTypes DEF Breaks, Over
    <2>. QED
      BY <2>1 DEF WriterShape, Serving
  <1>. QED
    BY <1>3, <1>4, <1>5, <1>6, <1>7, <1>8, <1>9, <1>10, <1>11, <1>12, <1>13, <1>14, <1>15, <1>16, <1>17, Steps
       DEF WriterStep


(* A point that is put is behind those there are. *)
LEMMA FirstStays ==
    ASSUME NEW s \in Seq(Nat), NEW t \in Nat, NEW u \in {s, Append(s, t)}, s # <<>>
    PROVE  u # <<>> /\ u[1] = s[1]
  <1>1. 1 \in 1 .. Len(s)
    BY EmptySeq, LenProperties
  <1>2. Append(s, t)[1] = s[1] /\ Append(s, t) # <<>>
    BY <1>1, AppendProperties
  <1>. QED
    BY <1>2

LEMMA TurnShapeKept ==
    ASSUME IInv, [Next]_vars, TypeOK', ProducerShape'
    PROVE  TurnShape'
  <1>0. /\ TypeOK /\ stream \in Streams /\ writer \in Writers /\ prod \in [Producers -> Writes]
        /\ buffer \in Seq(Bytes) /\ Len(buffer) \in Nat /\ writer.drained \in Nat
        /\ stream.points \in Seq(Nat) /\ Len(stream.points) \in Nat /\ stream.total \in Nat
        /\ turns \in Nat /\ End \in Nat
    <2>1. TypeOK /\ stream \in Streams /\ prod \in [Producers -> Writes] /\ writer \in Writers
          /\ buffer \in Seq(Bytes) /\ turns \in Nat
      BY Types, Constants DEF IInv
    <2>2. stream.points \in Seq(Nat) /\ stream.total \in Nat /\ writer.drained \in Nat
      BY <2>1 DEF Streams, Writers
    <2>. QED
      BY <2>1, <2>2, LenProperties DEF End
  <1>1. TurnShape /\ WriterShape /\ Balance /\ ProducerShape
    BY DEF IInv
  <1>2. /\ \A i \in 1 .. Len(buffer) : buffer[i].turn \in Nat
        /\ \A p \in Producers : prod[p].turn \in Nat
    <2>1. \A i \in 1 .. Len(buffer) : buffer[i] \in Bytes
      BY <1>0, ElementOfSeq
    <2>2. \A p \in Producers : prod[p] \in Writes
      BY <1>0
    <2>. QED
      BY <2>1, <2>2, Constants DEF Bytes, Writes
  <1>3. writer.open => Picked \in Nat
    <2>1. files \in Seq(Files) /\ (writer.open => files # <<>>)
      BY <1>1, Types DEF WriterShape, IInv
    <2>2. writer.open => files[Len(files)] \in Files
      BY <2>1, LenProperties, EmptySeq, ElementOfSeq
    <2>. QED
      BY <2>2, Constants DEF Picked, Files
  <1>4. ASSUME turns' = turns, prod' = prod, buffer' = buffer \/ buffer' = <<>>,
               writer'.open => /\ writer.open /\ files' = files /\ buffer' = buffer
                               /\ writer'.drained = writer.drained /\ stream'.points = stream.points
        PROVE  TurnShape'
    <2>1. writer'.open => End' = End /\ Picked' = Picked
      BY <1>4 DEF End, Picked
    <2>2. \A i \in 1 .. Len(buffer') : buffer'[i].turn <= turns'
      BY <1>0, <1>1, <1>4 DEF TurnShape
    <2>. QED
      BY <1>0, <1>1, <1>4, <2>1, <2>2 DEF TurnShape
  <1>5. CASE UNCHANGED vars
    BY <1>4, <1>5 DEF vars
  <1>6. ASSUME NEW p \in Producers, Quiet(p) PROVE TurnShape'
    <2>1. Picked' = Picked /\ End' = End
      BY <1>0, <1>6, QuietStays DEF Picked, End
    <2>. QED
      BY <1>0, <1>1, <1>6, <2>1, QuietStays DEF TurnShape
  (* A record is accepted at the end of what is counted, behind every point. *)
  <1>7. ASSUME NEW p \in Producers, Account(p) PROVE TurnShape'
    <2>1. /\ UNCHANGED <<buffer, writer, files, turns>> /\ prod[p].at = "room" /\ prod[p] \in Writes
          /\ stream'.points \in {stream.points, Append(stream.points, stream.total)}
      BY <1>0, <1>7 DEF Account, Streams, WriterSide
    <2>2. \A q \in Producers \ {p} : prod'[q].at # "send"
      BY <1>0, <1>7, <2>1, OneSender DEF Holding, Account, Accepted
    <2>3. \A q \in Producers : prod[q].at # "send"
      BY <2>1, OneSender DEF Holding
    <2>4. prod'[p].turn = turns
      BY <1>0, <1>7, <2>1 DEF Account, Accepted, Writes
    <2>5. Picked' = Picked /\ End' = End
      BY <2>1 DEF Picked, End
    <2>6. stream.points # <<>> => stream'.points # <<>> /\ stream'.points[1] = stream.points[1]
      BY <1>0, <2>1, FirstStays
    <2>7. writer.open /\ turns > Picked => stream.points # <<>> /\ End >= stream.points[1]
      <3>. SUFFICES ASSUME writer.open, turns > Picked PROVE stream.points # <<>> /\ End >= stream.points[1]
        OBVIOUS
      <3>1. stream.points # <<>>
        BY <1>1 DEF TurnShape
      <3>2. 1 \in 1 .. Len(stream.points)
        BY <1>0, <3>1, EmptySeq
      <3>3. stream.points[1] <= stream.total /\ stream.total = End
        BY <1>1, <2>3, <3>2 DEF Balance, WriterShape
      <3>. QED
        BY <3>1, <3>3
    <2>8. /\ \A i \in 1 .. Len(buffer) : buffer[i].turn <= turns
          /\ writer.open =>
              /\ turns > Picked => stream'.points # <<>>
              /\ \A i \in 1 .. Len(buffer) :
                    buffer[i].turn > Picked => stream'.points # <<>> /\ writer.drained + i > stream'.points[1]
      BY <1>1, <2>6 DEF TurnShape
    <2>9. writer.open => \A q \in Producers :
              prod'[q].at = "send" /\ prod'[q].turn > Picked => stream'.points # <<>> /\ End >= stream'.points[1]
      BY <2>2, <2>4, <2>6, <2>7
    <2>. QED
      BY <2>1, <2>5, <2>8, <2>9 DEF TurnShape
  <1>8. ASSUME NEW p \in Producers, Send(p) PROVE TurnShape'
    <2>1. /\ UNCHANGED <<writer, files, turns>> /\ prod[p].at = "send" /\ stream'.points = stream.points
          /\ \A q \in Producers : prod'[q].at # "send"
      <3>1. /\ UNCHANGED <<writer, files, turns>> /\ prod[p].at = "send" /\ stream'.points = stream.points
            /\ prod'[p].at = "idle" /\ \A q \in Producers \ {p} : prod'[q] = prod[q]
        BY <1>0, <1>8 DEF Send, Release, Return, NotWriting, WriterSide, Streams
      <3>. QED
        BY <3>1, OneSender DEF Holding
    <2>2. /\ Len(buffer') = Len(buffer) + prod[p].size /\ prod[p].size \in Nat
          /\ \A i \in 1 .. Len(buffer) : buffer'[i] = buffer[i]
          /\ \A i \in Len(buffer) + 1 .. Len(buffer') : buffer'[i].turn = prod[p].turn
      BY <1>8, SendEffect
    <2>3. prod[p].turn <= turns
      BY <1>1, <2>1 DEF ProducerShape
    <2>4. \A i \in 1 .. Len(buffer') : buffer'[i].turn <= turns
      <3>1. \A i \in 1 .. Len(buffer) : buffer'[i].turn <= turns
        BY <1>1, <2>2 DEF TurnShape
      <3>2. \A i \in Len(buffer) + 1 .. Len(buffer') : buffer'[i].turn <= turns
        BY <2>2, <2>3
      <3>. QED
        BY <1>0, <2>2, <3>1, <3>2
    <2>5. ASSUME writer.open, NEW i \in 1 .. Len(buffer'), buffer'[i].turn > Picked
          PROVE  stream.points # <<>> /\ writer.drained + i > stream.points[1]
      <3>1. CASE i \in 1 .. Len(buffer)
        BY <1>1, <2>2, <2>5, <3>1 DEF TurnShape
      <3>2. CASE i \in Len(buffer) + 1 .. Len(buffer')
        <4>1. prod[p].turn > Picked
          BY <2>2, <2>5, <3>2
        <4>2. stream.points # <<>> /\ End >= stream.points[1]
          BY <1>1, <2>1, <2>5, <4>1 DEF TurnShape
        <4>3. stream.points[1] \in Nat
          BY <1>0, <4>2, EmptySeq, ElementOfSeq
        <4>. QED
          BY <1>0, <2>2, <3>2, <4>2, <4>3 DEF End
      <3>. QED
        BY <1>0, <2>2, <3>1, <3>2
    <2>6. Picked' = Picked
      BY <2>1 DEF Picked
    <2>. QED
      BY <1>1, <2>1, <2>4, <2>5, <2>6 DEF TurnShape
  (* After a call of rotate() there is a point, its own or an earlier one. *)
  <1>9. CASE Rotate
    <2>1. /\ UNCHANGED <<prod, buffer, writer, files>> /\ turns' = turns + 1
          /\ stream'.points \in {stream.points, Append(stream.points, stream.total)}
      BY <1>0, <1>9 DEF Rotate, Streams, WriterSide
    <2>2. stream'.points # <<>>
      <3>1. CASE AlreadyPending \/ Len(stream.points) = Slots
        <4>1. stream' = stream
          BY <1>9, <3>1 DEF Rotate
        <4>2. stream.points # <<>>
          BY <1>0, <3>1, Constants DEF AlreadyPending
        <4>. QED
          BY <4>1, <4>2
      <3>2. CASE ~(AlreadyPending \/ Len(stream.points) = Slots)
        <4>1. stream' = [stream EXCEPT !.points = Append(@, stream.total), !.bytes = 0]
          BY <1>9, <3>2 DEF Rotate
        <4>2. stream'.points = Append(stream.points, stream.total)
          BY <1>0, <4>1 DEF Streams
        <4>. QED
          BY <1>0, <4>2, AppendProperties
      <3>. QED
        BY <3>1, <3>2
    <2>3. stream.points # <<>> => stream'.points[1] = stream.points[1]
      BY <1>0, <2>1, FirstStays
    <2>4. Picked' = Picked /\ End' = End
      BY <2>1 DEF Picked, End
    <2>5. \A i \in 1 .. Len(buffer) : buffer[i].turn <= turns + 1
      BY <1>0, <1>1, <1>2 DEF TurnShape
    <2>. QED
      BY <1>1, <2>1, <2>2, <2>3, <2>4, <2>5 DEF TurnShape
  <1>10. CASE Asks
    BY <1>0, <1>4, <1>10 DEF Asks, Ask
  <1>11. CASE Register \/ Limit \/ Serves \/ Answer
    <2>1. /\ turns' = turns /\ prod' = prod /\ buffer' = buffer /\ files' = files
          /\ stream'.points = stream.points
      BY <1>0, <1>11, ReleasedTypes DEF Register, Limit, Serves, Answer, ProducerSide
    <2>2. writer'.open => writer.open /\ writer'.drained = writer.drained
      <3>1. CASE Register \/ Limit
        BY <1>0, <3>1 DEF Register, Limit, Writers
      <3>2. CASE Serves
        BY <1>0, <3>2 DEF Serves, Writers
      <3>3. CASE Answer
        BY <1>0, <3>3 DEF Answer, NotOpen, Writers
      <3>. QED
        BY <1>11, <3>1, <3>2, <3>3
    <2>. QED
      BY <1>4, <2>1, <2>2
  <1>12. CASE Look
    <2>1. CASE stream.failed
      <3>1. ~writer'.open /\ buffer' = <<>>
        BY <1>0, <1>1, <1>12, <2>1 DEF Look, Writers, WriterShape
      <3>. QED
        BY <1>4, <1>12, <3>1 DEF Look, ProducerSide
    <2>2. CASE ~stream.failed
      <3>1. writer'.open = writer.open /\ writer'.drained = writer.drained /\ UNCHANGED <<buffer, stream, files>>
        BY <1>0, <1>12, <2>2 DEF Look, Writers
      <3>. QED
        BY <1>4, <1>12, <3>1 DEF Look, ProducerSide
    <2>. QED
      BY <2>1, <2>2
  <1>13. CASE Turns
    <2>1. ~writer'.open
      BY <1>0, <1>13 DEF Turns, Writers
    <2>. QED
      BY <1>4, <1>13, <2>1 DEF Turns, ProducerSide
  <1>14. CASE Opens
    <2>1. Picked' = turns /\ turns' = turns /\ prod' = prod /\ buffer' = buffer
      <3>1. files \in Seq(Files) /\ [turn |-> turns, bytes |-> <<>>] \in Files
        BY Types DEF Files, IInv
      <3>2. files' = Append(files, [turn |-> turns, bytes |-> <<>>])
        BY <1>14 DEF Opens
      <3>3. files'[Len(files')] = [turn |-> turns, bytes |-> <<>>]
        BY <3>1, <3>2, AppendProperties
      <3>. QED
        BY <1>14, <3>3 DEF Picked, Opens, ProducerSide
    <2>2. \A q \in Producers : prod[q].at = "send" => ~(prod[q].turn > turns)
      BY <1>0, <1>1, <1>2 DEF ProducerShape
    <2>3. \A i \in 1 .. Len(buffer) : buffer[i].turn <= turns /\ ~(buffer[i].turn > turns)
      BY <1>0, <1>1, <1>2 DEF TurnShape
    <2>. QED
      BY <1>0, <2>1, <2>2, <2>3 DEF TurnShape
  <1>15. ASSUME NEW size \in Nat, Pieces(size) PROVE TurnShape'
    <2>1. /\ size \in 0 .. Len(buffer) /\ buffer' = SubSeq(buffer, size + 1, Len(buffer))
          /\ writer.open /\ writer'.drained = writer.drained + size
          /\ stream'.points = stream.points /\ turns' = turns /\ prod' = prod
      <3>1. size \in 0 .. Len(buffer)
        BY <1>0, <1>15 DEF Pieces
      <3>2. writer'.drained = writer.drained + size
        BY <1>0, <1>15 DEF Pieces, Writers
      <3>. QED
        BY <1>0, <1>15, <3>1, <3>2, ReleasedTypes DEF Pieces, ProducerSide
    <2>2. /\ Len(buffer') = Len(buffer) - size
          /\ \A i \in 1 .. Len(buffer) - size : buffer'[i] = buffer[size + i]
      BY <1>0, <2>1, Split
    <2>3. Picked' = Picked /\ End' = End
      <3>1. files \in Seq(Files) /\ files # <<>>
        BY <1>15, Types DEF Pieces, IInv
      <3>2. Len(files) \in 1 .. Len(files) /\ files[Len(files)] \in Files
        BY <3>1, LenProperties, EmptySeq, ElementOfSeq
      <3>3. Len(files') = Len(files) /\ files'[Len(files)].turn = files[Len(files)].turn
        BY <1>15, <3>1, <3>2 DEF Pieces, Files
      <3>. QED
        BY <1>0, <2>1, <2>2, <3>3 DEF Picked, End
    <2>4. \A i \in 1 .. Len(buffer') : size + i \in 1 .. Len(buffer) /\ buffer'[i] = buffer[size + i]
      BY <1>0, <2>1, <2>2
    <2>5. \A i \in 1 .. Len(buffer') : buffer'[i].turn <= turns
      BY <1>1, <2>4 DEF TurnShape
    <2>6. \A i \in 1 .. Len(buffer') :
              buffer'[i].turn > Picked => stream.points # <<>> /\ writer'.drained + i > stream.points[1]
      <3>. SUFFICES ASSUME NEW i \in 1 .. Len(buffer'), buffer'[i].turn > Picked
                    PROVE  stream.points # <<>> /\ writer'.drained + i > stream.points[1]
        OBVIOUS
      <3>1. stream.points # <<>> /\ writer.drained + (size + i) > stream.points[1]
        BY <1>1, <2>1, <2>4 DEF TurnShape
      <3>2. writer'.drained + i = writer.drained + (size + i)
        BY <1>0, <2>1
      <3>. QED
        BY <3>1, <3>2
    <2>. QED
      BY <1>1, <2>1, <2>3, <2>5, <2>6 DEF TurnShape
  <1>16. CASE Breaks
    <2>1. buffer' = <<>> /\ ~writer'.open
      <3>2. stream.points # <<>> => Tail(stream.points) \in Seq(Nat)
        BY <1>0, HeadTailProperties
      <3>. QED
        BY <1>0, <1>16, <3>2, FailTypes DEF Breaks
    <2>. QED
      BY <1>4, <1>16, <2>1 DEF Breaks, ProducerSide
  <1>. QED
    BY <1>5, <1>6, <1>7, <1>8, <1>9, <1>10, <1>11, <1>12, <1>13, <1>14, <1>15, <1>16, Steps DEF WriterStep

(* What a file gets is before the next rotation point, and so not too late. *)
LEMMA RotateTakesEffectKept ==
    ASSUME IInv, [Next]_vars, TypeOK'
    PROVE  RotateTakesEffect'
  <1>0. /\ TypeOK /\ stream \in Streams /\ writer \in Writers /\ buffer \in Seq(Bytes)
        /\ files \in Seq(Files) /\ Len(files) \in Nat /\ Len(buffer) \in Nat
        /\ RotateTakesEffect /\ TurnShape /\ WriterShape
    BY Types, LenProperties DEF IInv
  <1>1. CASE files' = files
    BY <1>0, <1>1 DEF RotateTakesEffect
  <1>2. CASE Opens
    <2>. DEFINE new == [turn |-> turns, bytes |-> <<>>]
    <2>1. files' = Append(files, new) /\ new \in Files
      BY <1>2, Types DEF Opens, Files, IInv
    <2>2. /\ Len(files') = Len(files) + 1
          /\ \A i \in 1 .. Len(files) : files'[i] = files[i]
          /\ files'[Len(files) + 1].bytes = <<>>
      BY <1>0, <2>1, AppendProperties
    <2>3. DOMAIN files = 1 .. Len(files) /\ DOMAIN files' = 1 .. Len(files')
      BY <1>0, <2>1, LenProperties, AppendProperties
    <2>. SUFFICES ASSUME NEW i \in DOMAIN files', NEW k \in DOMAIN files'[i].bytes
                  PROVE  files'[i].bytes[k].turn <= files'[i].turn
      BY DEF RotateTakesEffect
    <2>4. CASE i \in 1 .. Len(files)
      BY <1>0, <2>2, <2>3, <2>4 DEF RotateTakesEffect
    <2>5. CASE i = Len(files) + 1
      BY <2>2, <2>5
    <2>. QED
      BY <1>0, <2>2, <2>3, <2>4, <2>5
  <1>3. ASSUME NEW size \in Nat, Pieces(size) PROVE RotateTakesEffect'
    <2>. DEFINE n == Len(files)
                old == files[n].bytes
                piece == SubSeq(buffer, 1, size)
    <2>1. /\ size \in 0 .. Len(buffer) /\ size <= writer.limit /\ writer.at = "write" /\ writer.open
          /\ files # <<>> /\ files' = [files EXCEPT ![n].bytes = @ \o piece]
      BY <1>0, <1>3 DEF Pieces
    <2>2. n \in 1 .. n /\ files[n] \in Files /\ old \in Seq(Bytes) /\ DOMAIN files = 1 .. n
      <3>1. n \in 1 .. n /\ DOMAIN files = 1 .. n
        BY <1>0, <2>1, LenProperties, EmptySeq
      <3>2. files[n] \in Files
        BY <1>0, <3>1, ElementOfSeq
      <3>. QED
        BY <3>1, <3>2 DEF Files
    <2>3. /\ piece \in Seq(Bytes) /\ Len(piece) = size
          /\ \A j \in 1 .. size : piece[j] = buffer[j]
      BY <1>0, <2>1, Split
    <2>4. /\ DOMAIN files' = DOMAIN files /\ files'[n].bytes = old \o piece /\ files'[n].turn = files[n].turn
          /\ \A i \in DOMAIN files : i # n => files'[i] = files[i]
      <3>1. files'[n] = [files[n] EXCEPT !.bytes = old \o piece]
        BY <2>1, <2>2
      <3>2. files'[n].bytes = old \o piece /\ files'[n].turn = files[n].turn
        BY <2>2, <3>1 DEF Files
      <3>. QED
        BY <2>1, <2>2, <3>2
    <2>5. \A j \in 1 .. size : buffer[j].turn <= files[n].turn
      <3>. SUFFICES ASSUME NEW j \in 1 .. size PROVE buffer[j].turn <= files[n].turn
        OBVIOUS
      <3>1. j \in 1 .. Len(buffer) /\ j <= writer.limit /\ buffer[j] \in Bytes
        <4>1. j \in 1 .. Len(buffer)
          BY <1>0, <2>1
        <4>2. writer.limit \in Nat
          BY <1>0, Constants DEF Writers
        <4>. QED
          BY <1>0, <2>1, <4>1, <4>2, ElementOfSeq
      <3>2. buffer[j].turn \in Nat /\ files[n].turn \in Nat
        BY <2>2, <3>1, Constants DEF Bytes, Files
      <3>3. buffer[j].turn > files[n].turn => stream.points # <<>> /\ writer.drained + j > stream.points[1]
        BY <1>0, <2>1, <3>1 DEF TurnShape, Picked
      <3>4. stream.points # <<>> => writer.drained + writer.limit <= stream.points[1]
        BY <1>0, <2>1 DEF WriterShape
      <3>5. stream.points # <<>> => stream.points[1] \in Nat
        <4>1. stream.points \in Seq(Nat)
          BY <1>0 DEF Streams
        <4>. QED
          BY <4>1, EmptySeq, LenProperties, ElementOfSeq
      <3>6. writer.drained \in Nat /\ writer.limit \in Nat
        BY <1>0, Constants DEF Writers
      <3>7. ~(buffer[j].turn > files[n].turn)
        BY <3>1, <3>3, <3>4, <3>5, <3>6
      <3>. QED
        BY <3>2, <3>7
    <2>6. \A k \in DOMAIN (old \o piece) : (old \o piece)[k].turn <= files[n].turn
      <3>. SUFFICES ASSUME NEW k \in DOMAIN (old \o piece) PROVE (old \o piece)[k].turn <= files[n].turn
        OBVIOUS
      <3>. HIDE DEF old, piece
      <3>1. /\ Len(old) \in Nat /\ DOMAIN old = 1 .. Len(old) /\ k \in 1 .. Len(old) + size
            /\ (old \o piece)[k] = IF k <= Len(old) THEN old[k] ELSE piece[k - Len(old)]
        <4>1. /\ old \o piece \in Seq(Bytes) /\ Len(old \o piece) = Len(old) + Len(piece)
              /\ \A i \in 1 .. Len(old) + Len(piece) : (old \o piece)[i] =
                      IF i <= Len(old) THEN old[i] ELSE piece[i - Len(old)]
          BY <2>2, <2>3, ConcatProperties
        <4>2. DOMAIN (old \o piece) = 1 .. Len(old) + size /\ Len(old) \in Nat /\ DOMAIN old = 1 .. Len(old)
          BY <2>2, <2>3, <4>1, LenProperties
        <4>. QED
          BY <2>3, <4>1, <4>2
      <3>2. CASE k <= Len(old)
        <4>1. k \in DOMAIN old
          BY <3>1, <3>2, <2>1
        <4>2. old[k].turn <= files[n].turn
          BY <1>0, <2>2, <4>1 DEF RotateTakesEffect, old
        <4>. QED
          BY <3>1, <3>2, <4>2
      <3>3. CASE ~(k <= Len(old))
        <4>1. k - Len(old) \in 1 .. size
          BY <3>1, <3>3
        <4>. QED
          BY <2>3, <2>5, <3>1, <3>3, <4>1
      <3>. QED
        BY <3>2, <3>3
    <2>. SUFFICES ASSUME NEW i \in DOMAIN files', NEW k \in DOMAIN files'[i].bytes
                  PROVE  files'[i].bytes[k].turn <= files'[i].turn
      BY DEF RotateTakesEffect
    <2>. HIDE DEF n, old, piece
    <2>7. CASE i = n
      BY <2>4, <2>6, <2>7
    <2>8. CASE i # n
      BY <1>0, <2>4, <2>8 DEF RotateTakesEffect
    <2>. QED
      BY <2>7, <2>8
  <1>4. \/ files' = files \/ Opens \/ \E size \in Nat : Pieces(size)
    <2>1. CASE UNCHANGED vars
      BY <2>1 DEF vars
    <2>2. ASSUME NEW p \in Producers, Quiet(p) \/ Account(p) \/ Send(p) PROVE files' = files
      BY <1>0, <2>2, QuietStays DEF Account, Send, WriterSide
    <2>3. CASE Rotate \/ Asks
      BY <2>3 DEF Rotate, Asks, Ask, WriterSide
    <2>4. CASE WriterStep
      BY <2>4 DEF WriterStep, Register, Look, Turns, Limit, Serves, Answer, Breaks
    <2>. QED
      BY <2>1, <2>2, <2>3, <2>4, Steps
  <1>. QED
    BY <1>1, <1>2, <1>3, <1>4

(* What is buffered when a command is given is on the card when it is         *)
(* answered: nothing is taken out of what a service has looked at.            *)
LEMMA FlushShapeKept ==
    ASSUME IInv, [Next]_vars, TypeOK'
    PROVE  FlushShape'
  <1>0. /\ TypeOK /\ stream \in Streams /\ writer \in Writers /\ buffer \in Seq(Bytes) /\ owner \in Owners
        /\ Len(buffer) \in Nat /\ writer.drained \in Nat /\ writer.available \in Nat
        /\ End \in Nat /\ owner.upTo \in Nat /\ FlushShape
    <2>1. /\ TypeOK /\ stream \in Streams /\ writer \in Writers /\ buffer \in Seq(Bytes) /\ owner \in Owners
          /\ FlushShape
      BY Types DEF IInv
    <2>2. writer.drained \in Nat /\ writer.available \in Nat /\ owner.upTo \in Nat
      BY <2>1, Constants DEF Writers, Owners
    <2>. QED
      BY <2>1, <2>2, LenProperties DEF End
  <1>1. ASSUME UNCHANGED <<writer, owner>>, stream'.failed = stream.failed, End' \in Nat, End' >= End
        PROVE  FlushShape'
    BY <1>0, <1>1 DEF FlushShape, Commanded, Serving
  <1>2. CASE UNCHANGED vars
    BY <1>0, <1>1, <1>2 DEF vars, End
  <1>3. ASSUME NEW p \in Producers, Quiet(p) PROVE FlushShape'
    <2>1. End' = End
      BY <1>0, <1>3, QuietStays DEF End
    <2>. QED
      BY <1>0, <1>1, <1>3, <2>1, QuietStays
  <1>4. ASSUME NEW p \in Producers, Account(p) PROVE FlushShape'
    <2>1. UNCHANGED <<buffer, writer, owner>> /\ stream'.failed = stream.failed
      BY <1>0, <1>4 DEF Account, Streams, WriterSide
    <2>. QED
      BY <1>0, <1>1, <2>1 DEF End
  <1>5. ASSUME NEW p \in Producers, Send(p) PROVE FlushShape'
    <2>1. UNCHANGED <<writer, owner>> /\ stream'.failed = stream.failed
      BY <1>0, <1>5 DEF Send, Release, WriterSide, Streams
    <2>2. Len(buffer') = Len(buffer) + prod[p].size /\ prod[p].size \in Nat
      BY <1>5, SendEffect
    <2>. DEFINE size == prod[p].size
                room == Len(buffer)
                after == Len(buffer')
    <2>3. /\ size \in Nat /\ room \in Nat /\ after = room + size /\ writer.drained \in Nat
          /\ End = writer.drained + room /\ End' = writer.drained + after
      BY <1>0, <2>1, <2>2 DEF End
    <2>. HIDE DEF size, room, after
    <2>4. End' \in Nat /\ End' >= End
      BY <2>3
    <2>. QED
      BY <1>1, <2>1, <2>4
  <1>6. CASE Rotate
    <2>1. UNCHANGED <<buffer, writer, owner>> /\ stream'.failed = stream.failed
      BY <1>0, <1>6 DEF Rotate, Streams, WriterSide
    <2>. QED
      BY <1>0, <1>1, <2>1 DEF End
  <1>7. CASE Asks
    <2>1. /\ UNCHANGED <<buffer, stream, writer>> /\ owner'.upTo = End /\ ~Commanded
      BY <1>7 DEF Asks, Ask, End, Commanded
    <2>2. ~writer.force /\ writer.at # "answer" /\ End' = End
      BY <1>0, <2>1 DEF FlushShape, End
    <2>. QED
      BY <1>0, <2>1, <2>2 DEF FlushShape, Serving
  <1>8. CASE Register
    <2>1. /\ ~Commanded /\ ~Commanded' /\ writer.at = "idle" /\ writer'.at = "idle"
          /\ writer'.force = writer.force
      BY <1>0, <1>8 DEF Register, Commanded, Owners, Writers
    <2>. QED
      BY <1>0, <2>1 DEF FlushShape, Serving
  <1>9. CASE Look
    <2>1. CASE stream.failed
      <3>1. /\ stream'.failed /\ owner' = owner /\ writer'.force = Commanded
            /\ writer'.at = IF Commanded THEN "answer" ELSE "idle"
        BY <1>0, <1>9, <2>1, ReleasedTypes DEF Look, Writers
      <3>. QED
        BY <3>1 DEF FlushShape, Serving, Commanded
    <2>2. CASE ~stream.failed
      <3>1. /\ UNCHANGED <<buffer, stream, owner>> /\ writer'.force = Commanded /\ writer'.at = "loop"
            /\ writer'.available = Len(buffer) /\ writer'.drained = writer.drained
        BY <1>0, <1>9, <2>2 DEF Look, Writers
      <3>. QED
        BY <1>0, <2>2, <3>1 DEF FlushShape, Serving, Commanded, End
    <2>. QED
      BY <2>1, <2>2
  <1>10. CASE Turns \/ Limit \/ Opens
    <2>1. /\ Serving /\ Serving' /\ writer'.at # "answer" /\ writer'.force = writer.force
          /\ writer'.available = writer.available /\ writer'.drained = writer.drained
          /\ UNCHANGED <<buffer, owner>> /\ stream'.failed = stream.failed
      <3>1. CASE Turns
        BY <1>0, <3>1 DEF Turns, Serving, Writers, Streams
      <3>2. CASE Limit
        BY <1>0, <3>2 DEF Limit, Serving, Writers
      <3>3. CASE Opens
        BY <1>0, <3>3 DEF Opens, Serving, Writers, Streams
      <3>. QED
        BY <1>10, <3>1, <3>2, <3>3
    <2>. QED
      BY <1>0, <2>1 DEF FlushShape, Commanded, End
  <1>11. ASSUME NEW size \in Nat, Pieces(size) PROVE FlushShape'
    <2>1. /\ writer.at = "write" /\ writer'.at = "loop" /\ writer'.force = writer.force
          /\ writer'.available = writer.available - size /\ writer'.drained = writer.drained + size
      BY <1>0, <1>11 DEF Pieces, Writers
    <2>2. owner' = owner /\ stream'.failed = stream.failed /\ ~stream.failed /\ WriterStep
      BY <1>0, <1>11, ReleasedTypes DEF Pieces, WriterStep
    <2>3. End' = End
      BY <2>2, EndStays
    <2>4. writer'.drained + writer'.available = writer.drained + writer.available
      BY <1>0, <2>1
    <2>. QED
      BY <1>0, <2>1, <2>2, <2>3, <2>4 DEF FlushShape, Serving, Commanded
  <1>12. CASE Serves
    <2>1. /\ writer.at = "loop" /\ writer.available = 0 /\ writer'.drained = writer.drained
          /\ writer'.force = writer.force /\ (writer.force => ~writer'.dirty)
          /\ writer'.at = IF writer.force THEN "answer" ELSE "idle"
      BY <1>0, <1>12 DEF Serves, Over, Writers
    <2>2. UNCHANGED <<owner, buffer>> /\ stream'.failed = stream.failed
      BY <1>0, <1>12, ReleasedTypes DEF Serves
    <2>3. writer.force => writer.drained >= owner.upTo
      BY <1>0, <2>1 DEF FlushShape, Serving
    <2>. QED
      BY <1>0, <2>1, <2>2, <2>3 DEF FlushShape, Serving, Commanded, End
  <1>13. CASE Answer
    <2>1. ~Commanded' /\ writer'.at = "idle" /\ ~writer'.force
      <3>1. CASE owner.at = "flushing"
        <4>1. writer' = [writer EXCEPT !.at = "idle", !.force = FALSE] /\ owner' = [at |-> "open", upTo |-> 0]
          BY <1>13, <3>1 DEF Answer
        <4>2. writer'.at = "idle" /\ ~writer'.force
          BY <1>0, <4>1 DEF Writers
        <4>3. owner'.at = "open"
          BY <4>1
        <4>. QED
          BY <4>2, <4>3 DEF Commanded
      <3>2. CASE owner.at # "flushing"
        <4>1. writer' = [NotOpen EXCEPT !.drained = writer.drained] /\ owner' = [at |-> "closed", upTo |-> 0]
          BY <1>13, <3>2 DEF Answer
        <4>. QED
          BY <4>1 DEF Commanded, NotOpen
      <3>. QED
        BY <3>1, <3>2
    <2>. QED
      BY <2>1 DEF FlushShape, Serving
  <1>14. CASE Breaks
    <2>1. stream'.failed /\ writer'.at = Over /\ writer'.force = writer.force /\ owner' = owner
      <3>1. stream.points \in Seq(Nat)
        BY <1>0 DEF Streams
      <3>2. stream.points # <<>> => Tail(stream.points) \in Seq(Nat)
        BY <3>1, HeadTailProperties
      <3>. QED
        BY <1>0, <1>14, <3>1, <3>2, FailTypes DEF Breaks
    <2>. QED
      BY <1>0, <2>1 DEF FlushShape, Serving, Commanded, Over
  <1>. QED
    BY <1>2, <1>3, <1>4, <1>5, <1>6, <1>7, <1>8, <1>9, <1>10, <1>11, <1>12, <1>13, <1>14, Steps DEF WriterStep

-----------------------------------------------------------------------------
LEMMA Inductive == IInv /\ [Next]_vars => IInv'
  <1>. SUFFICES ASSUME IInv, [Next]_vars PROVE IInv'
    OBVIOUS
  <1>1. TypeOK'
    BY TypesKept
  <1>2. ProducerShape'
    BY <1>1, ShapeKept
  <1>. QED
    BY <1>1, <1>2, CountKept, BalanceKept, WriterShapeKept, TurnShapeKept, FlushShapeKept,
       RotateTakesEffectKept DEF IInv

LEMMA Invariant == Spec => []IInv
  BY InitOK, Inductive, PTL DEF Spec

(* The queue of rotation points and the buffer stay within their sizes,       *)
(* whatever producers, rotations and failures do (rotation_offsets[] and the  *)
(* stream buffer of sd_card_writer.c).                                        *)
THEOREM TypeCorrect == Spec => []TypeOK
  BY Invariant, PTL DEF IInv

(* A record that is accepted after rotate() has returned is in a file that    *)
(* was picked after it, also when every slot was taken (sd_card_writer.c,     *)
(* sd_card_writer_rotate and sd_card_writer_drain).                           *)
THEOREM RotationsTakeEffect == Spec => []RotateTakesEffect
  BY Invariant, PTL DEF IInv

(* flush() and close_stream() succeed only when everything that was queued    *)
(* when they were called is on the card and synced, however many producers    *)
(* go on writing meanwhile (sd_card_writer_service with force).               *)
THEOREM FlushesMeanOnCard == Spec => FlushMeansOnCard
  <1>. DEFINE Done == owner.at \in {"flushing", "closing"} /\ owner'.at \in {"open", "closed"} /\ ~stream.failed
                      => writer.drained >= owner.upTo /\ ~writer.dirty
  <1>1. IInv /\ [Next]_vars => [Done]_vars
    <2>. SUFFICES ASSUME IInv, [Next]_vars, owner.at \in {"flushing", "closing"},
                         owner'.at \in {"open", "closed"}, ~stream.failed
                  PROVE  writer.drained >= owner.upTo /\ ~writer.dirty
      OBVIOUS
    <2>1. Answer
      <3>1. owner' # owner
        OBVIOUS
      <3>2. \A p \in Producers : Quiet(p) => owner' = owner
        BY QuietStays DEF IInv
      <3>. QED
        BY <3>1, <3>2, Steps
          DEF vars, Account, Send, Rotate, WriterSide, Asks, Ask, WriterStep, Register, Look, Turns, Limit,
              Opens, Pieces, Serves, Breaks
    <2>. QED
      BY <2>1 DEF Answer, FlushShape, IInv
  <1>. QED
    BY <1>1, Invariant, PTL DEF Spec, FlushMeansOnCard

-----------------------------------------------------------------------------
(* Files turn by size.  The bytes from the start of the open file to the last *)
(* one that a producer counted are one sequence: writing a piece moves the    *)
(* boundary between the file and the buffer, sending a record the one between *)
(* the buffer and what is to be buffered, and neither changes the sequence.   *)
Opened == IF writer.open THEN files[Len(files)].bytes ELSE <<>>

Pending ==
    IF stream.holder \in Producers /\ prod[stream.holder].at = "send" THEN RecordOf(stream.holder) ELSE <<>>

Ongoing == Opened \o (buffer \o Pending)

(* Where one of them is in the stream, and whether two are in the same file   *)
(* as far as the rotation points tell.                                        *)
Position(k) == stream.total - Len(Ongoing) + k

Together(a, b) ==
    \A i \in 1 .. Len(stream.points) : stream.points[i] < Position(a) \/ Position(b) <= stream.points[i]

Allowed(bytes, a, b) == (\A k \in a .. b : bytes[k].id = bytes[a].id) \/ \E k \in a .. b : bytes[k].over

(* What no point divides is within the limit, or may exceed it, and the       *)
(* producers count what is behind the last point.                             *)
SizeShape ==
    ~stream.failed =>
        /\ \A a, b \in 1 .. Len(Ongoing) :
            Together(a, b) /\ b + 1 - a > MaxFileSize => Allowed(Ongoing, a, b)
        /\ \A a \in 1 .. Len(Ongoing) :
            (\A i \in 1 .. Len(stream.points) : stream.points[i] < Position(a))
                => Len(Ongoing) + 1 - a <= stream.bytes

Sorted == \A i, j \in 1 .. Len(stream.points) : i <= j => stream.points[i] <= stream.points[j]

SizeInv == Sorted /\ SizeShape /\ FileWithinLimit

-----------------------------------------------------------------------------
LEMMA PointsSteps ==
    ASSUME IInv, [Next]_vars
    PROVE  \/ stream'.points = stream.points
           \/ stream'.points = Append(stream.points, stream.total)
           \/ stream.points # <<>> /\ stream'.points = Tail(stream.points)
  <1>0. TypeOK /\ stream \in Streams
    BY Types DEF IInv
  <1>1. CASE UNCHANGED vars
    BY <1>1 DEF vars
  <1>2. ASSUME NEW p \in Producers, Quiet(p) PROVE stream'.points = stream.points
    BY <1>0, <1>2, QuietStays
  <1>3. ASSUME NEW p \in Producers, Account(p) \/ Send(p)
        PROVE  stream'.points \in {stream.points, Append(stream.points, stream.total)}
    BY <1>0, <1>3 DEF Account, Send, Release, Streams
  <1>4. CASE Rotate \/ Asks
    BY <1>0, <1>4 DEF Rotate, Asks, Ask, Streams
  <1>5. CASE WriterStep
    BY <1>5, WriterLeaves
  <1>. QED
    BY <1>1, <1>2, <1>3, <1>4, <1>5, Steps

LEMMA SortedKept ==
    ASSUME IInv, [Next]_vars, Sorted
    PROVE  Sorted'
  <1>0. /\ stream.points \in Seq(Nat) /\ Len(stream.points) \in Nat /\ stream.total \in Nat
        /\ \A i \in 1 .. Len(stream.points) : stream.points[i] <= stream.total /\ stream.points[i] \in Nat
    <2>1. stream \in Streams /\ Balance
      BY Types DEF IInv
    <2>2. stream.points \in Seq(Nat) /\ stream.total \in Nat
      BY <2>1 DEF Streams
    <2>. QED
      BY <2>1, <2>2, LenProperties, ElementOfSeq DEF Balance
  <1>1. CASE stream'.points = stream.points
    BY <1>1 DEF Sorted
  <1>2. CASE stream'.points = Append(stream.points, stream.total)
    <2>1. /\ Len(stream'.points) = Len(stream.points) + 1
          /\ \A i \in 1 .. Len(stream.points) : stream'.points[i] = stream.points[i]
          /\ stream'.points[Len(stream.points) + 1] = stream.total
      BY <1>0, <1>2, AppendProperties
    <2>. SUFFICES ASSUME NEW i \in 1 .. Len(stream'.points), NEW j \in 1 .. Len(stream'.points), i <= j
                  PROVE  stream'.points[i] <= stream'.points[j]
      BY DEF Sorted
    <2>2. CASE j \in 1 .. Len(stream.points)
      <3>1. i \in 1 .. Len(stream.points)
        BY <1>0, <2>2
      <3>. QED
        BY <2>1, <2>2, <3>1 DEF Sorted
    <2>3. CASE j = Len(stream.points) + 1
      <3>1. i \in 1 .. Len(stream.points) \/ i = Len(stream.points) + 1
        BY <1>0, <2>1
      <3>. QED
        BY <1>0, <2>1, <2>3, <3>1
    <2>. QED
      BY <1>0, <2>1, <2>2, <2>3
  <1>3. CASE stream.points # <<>> /\ stream'.points = Tail(stream.points)
    <2>1. /\ Len(stream'.points) = Len(stream.points) - 1
          /\ \A i \in 1 .. Len(stream'.points) : stream'.points[i] = stream.points[i + 1]
      BY <1>0, <1>3, HeadTailProperties
    <2>. QED
      BY <1>0, <2>1 DEF Sorted
  <1>. QED
    BY <1>1, <1>2, <1>3, PointsSteps

-----------------------------------------------------------------------------
(* A record that is accepted is in no place of the buffer yet. *)
LEMMA RecordIs ==
    ASSUME IInv, NEW p \in Producers, prod[p].at = "send"
    PROVE  /\ RecordOf(p) \in Seq(Bytes) /\ Len(RecordOf(p)) = prod[p].size /\ prod[p].size \in Nat
           /\ \A i \in 1 .. prod[p].size :
                RecordOf(p)[i].id = prod[p].id /\ RecordOf(p)[i].over = prod[p].over
  <1>0. prod[p] \in Writes
    BY Types DEF IInv
  <1>1. prod[p].id \in 1 .. MaxRecords /\ prod[p].size \in Nat
    <2>1. prod[p].id # 0 /\ prod[p].id \in 0 .. MaxRecords
      BY <1>0 DEF ProducerShape, IInv, Writes
    <2>. QED
      BY <1>0, <2>1, SizeIsNat, Constants
  <1>2. \A i \in 1 .. prod[p].size :
            [id |-> prod[p].id, left |-> prod[p].size - i, turn |-> prod[p].turn, over |-> prod[p].over] \in Bytes
    BY <1>0, <1>1 DEF Bytes, Writes
  <1>3. RecordOf(p) \in [1 .. prod[p].size -> Bytes]
    BY <1>2 DEF RecordOf
  <1>4. \A i \in 1 .. prod[p].size :
            RecordOf(p)[i].id = prod[p].id /\ RecordOf(p)[i].over = prod[p].over
    BY DEF RecordOf
  <1>. QED
    BY <1>1, <1>3, <1>4

LEMMA PendingIs ==
    ProducerShape => /\ \A p \in Producers : prod[p].at = "send" => Pending = RecordOf(p)
                     /\ (\A p \in Producers : prod[p].at # "send") => Pending = <<>>
  BY DEF ProducerShape, Pending, Holding

LEMMA PendingWillBe ==
    (ProducerShape => /\ \A p \in Producers : prod[p].at = "send" => Pending = RecordOf(p)
                      /\ (\A p \in Producers : prod[p].at # "send") => Pending = <<>>)'
  BY PendingIs, PTL

(* The parts of the sequence, and where it ends. *)
LEMMA Parts ==
    IInv => /\ Opened \in Seq(Bytes) /\ buffer \in Seq(Bytes) /\ Pending \in Seq(Bytes)
            /\ Len(Opened) \in Nat /\ Len(buffer) \in Nat /\ Len(Pending) \in Nat
            /\ buffer \o Pending \in Seq(Bytes) /\ Len(buffer \o Pending) = Len(buffer) + Len(Pending)
            /\ Ongoing \in Seq(Bytes) /\ Len(Ongoing) = Len(Opened) + (Len(buffer) + Len(Pending))
            /\ ~stream.failed => stream.total = End + Len(Pending)
  <1>. SUFFICES ASSUME IInv
                PROVE  /\ Opened \in Seq(Bytes) /\ buffer \in Seq(Bytes) /\ Pending \in Seq(Bytes)
                       /\ Len(Opened) \in Nat /\ Len(buffer) \in Nat /\ Len(Pending) \in Nat
                       /\ buffer \o Pending \in Seq(Bytes) /\ Len(buffer \o Pending) = Len(buffer) + Len(Pending)
                       /\ Ongoing \in Seq(Bytes) /\ Len(Ongoing) = Len(Opened) + (Len(buffer) + Len(Pending))
                       /\ ~stream.failed => stream.total = End + Len(Pending)
    OBVIOUS
  <1>1. buffer \in Seq(Bytes) /\ files \in Seq(Files) /\ writer \in Writers /\ ProducerShape /\ Balance
    BY Types DEF IInv
  <1>2. Opened \in Seq(Bytes)
    <2>1. CASE writer.open
      <3>1. files # <<>>
        BY <2>1 DEF IInv, WriterShape
      <3>2. Len(files) \in 1 .. Len(files)
        BY <1>1, <3>1, EmptySeq
      <3>3. files[Len(files)] \in Files
        BY <1>1, <3>2, ElementOfSeq
      <3>. QED
        BY <2>1, <3>3 DEF Opened, Files
    <2>2. CASE ~writer.open
      BY <2>2, EmptySeq DEF Opened
    <2>. QED
      BY <2>1, <2>2
  <1>3. Pending \in Seq(Bytes) /\ (~stream.failed => stream.total = End + Len(Pending))
    <2>1. CASE \E p \in Producers : prod[p].at = "send"
      <3>1. PICK p \in Producers : prod[p].at = "send"
        BY <2>1
      <3>. QED
        BY <1>1, <3>1, RecordIs, PendingIs DEF Balance
    <2>2. CASE \A p \in Producers : prod[p].at # "send"
      <3>1. Pending = <<>> /\ Len(Pending) = 0 /\ Pending \in Seq(Bytes)
        BY <1>1, <2>2, PendingIs, EmptySeq
      <3>2. End \in Nat
        BY <1>1, LenProperties DEF End, Writers
      <3>. QED
        BY <1>1, <2>2, <3>1, <3>2 DEF Balance
    <2>. QED
      BY <2>1, <2>2
  <1>4. buffer \o Pending \in Seq(Bytes) /\ Len(buffer \o Pending) = Len(buffer) + Len(Pending)
    BY <1>1, <1>3, ConcatProperties
  <1>5. Ongoing \in Seq(Bytes) /\ Len(Ongoing) = Len(Opened) + (Len(buffer) + Len(Pending))
    BY <1>2, <1>4, ConcatProperties DEF Ongoing
  <1>. QED
    BY <1>1, <1>2, <1>3, <1>4, <1>5, LenProperties

LEMMA PartsAfter ==
    (IInv => /\ Opened \in Seq(Bytes) /\ buffer \in Seq(Bytes) /\ Pending \in Seq(Bytes)
             /\ Len(Opened) \in Nat /\ Len(buffer) \in Nat /\ Len(Pending) \in Nat
             /\ buffer \o Pending \in Seq(Bytes) /\ Len(buffer \o Pending) = Len(buffer) + Len(Pending)
             /\ Ongoing \in Seq(Bytes) /\ Len(Ongoing) = Len(Opened) + (Len(buffer) + Len(Pending))
             /\ ~stream.failed => stream.total = End + Len(Pending))'
  BY Parts, PTL

-----------------------------------------------------------------------------
(* What a step leaves of the sequence is its end, and the points that fall    *)
(* away are before it: then the limits hold as they did.                      *)
LEMMA EndKeepsLimits ==
    ASSUME IInv, IInv', SizeShape, ~stream.failed, ~stream'.failed, stream'.total = stream.total,
           NEW d \in Nat, Len(Ongoing') = Len(Ongoing) - d,
           \A i \in 1 .. Len(Ongoing') : Ongoing'[i] = Ongoing[i + d],
           \A i \in 1 .. Len(stream.points) :
                \/ stream.points[i] <= stream.total - Len(Ongoing')
                \/ \E j \in 1 .. Len(stream'.points) : stream'.points[j] = stream.points[i],
           \/ stream'.bytes >= stream.bytes
           \/ \E j \in 1 .. Len(stream'.points) : stream'.points[j] = stream.total
    PROVE  SizeShape'
  <1>0. /\ Len(Ongoing) \in Nat /\ Len(Ongoing') \in Nat /\ stream.total \in Nat
        /\ stream.bytes \in Nat /\ stream'.bytes \in Nat /\ MaxFileSize \in Nat
        /\ Len(stream.points) \in Nat /\ \A i \in 1 .. Len(stream.points) : stream.points[i] \in Nat
    <2>1. stream \in Streams /\ Ongoing \in Seq(Bytes)
      BY Types, Parts DEF IInv
    <2>2. Ongoing' \in Seq(Bytes)
      BY PartsAfter
    <2>3. stream' \in Streams
      BY DEF IInv, TypeOK, Streams
    <2>4. stream.points \in Seq(Nat) /\ stream.total \in Nat /\ stream.bytes \in Nat /\ stream'.bytes \in Nat
      BY <2>1, <2>3 DEF Streams
    <2>5. MaxFileSize \in Nat
      BY WriterAssumption
    <2>. QED
      BY <2>1, <2>2, <2>4, <2>5, LenProperties, ElementOfSeq
  <1>1. ASSUME NEW a \in 1 .. Len(Ongoing')
        PROVE  a + d \in 1 .. Len(Ongoing) /\ Position(a)' = Position(a + d) /\ Position(a)' \in Int
               /\ Position(a)' <= stream.total /\ Position(a)' > stream.total - Len(Ongoing')
    BY <1>0 DEF Position
  <1>2. ASSUME NEW a \in 1 .. Len(Ongoing'), NEW b \in 1 .. Len(Ongoing'),
               Together(a, b)', b + 1 - a > MaxFileSize
        PROVE  Allowed(Ongoing', a, b)
    <2>1. Together(a + d, b + d)
      <3>. SUFFICES ASSUME NEW i \in 1 .. Len(stream.points)
                    PROVE  stream.points[i] < Position(a + d) \/ Position(b + d) <= stream.points[i]
        BY DEF Together
      <3>1. CASE stream.points[i] <= stream.total - Len(Ongoing')
        <4>1. Position(a + d) \in Int /\ Position(a + d) > stream.total - Len(Ongoing')
          BY <1>1
        <4>. QED
          BY <1>0, <3>1, <4>1
      <3>2. CASE \E j \in 1 .. Len(stream'.points) : stream'.points[j] = stream.points[i]
        <4>1. PICK j \in 1 .. Len(stream'.points) : stream'.points[j] = stream.points[i]
          BY <3>2
        <4>2. stream'.points[j] < Position(a)' \/ Position(b)' <= stream'.points[j]
          BY <1>2, <4>1 DEF Together
        <4>. QED
          BY <1>1, <4>1, <4>2
      <3>. QED
        BY <3>1, <3>2
    <2>2. (b + d) + 1 - (a + d) > MaxFileSize
      BY <1>0, <1>2
    <2>3. Allowed(Ongoing, a + d, b + d)
      BY <1>1, <2>1, <2>2 DEF SizeShape
    <2>4. \A k \in a .. b : k + d \in a + d .. b + d /\ Ongoing'[k] = Ongoing[k + d] /\ k \in 1 .. Len(Ongoing')
      BY <1>0
    <2>5. CASE \A k \in a + d .. b + d : Ongoing[k].id = Ongoing[a + d].id
      BY <2>4, <2>5 DEF Allowed
    <2>6. CASE \E k \in a + d .. b + d : Ongoing[k].over
      <3>1. PICK k \in a + d .. b + d : Ongoing[k].over
        BY <2>6
      <3>2. k - d \in a .. b /\ (k - d) + d = k
        BY <1>0, <3>1
      <3>. QED
        BY <2>4, <3>1, <3>2 DEF Allowed
    <2>. QED
      BY <2>3, <2>5, <2>6 DEF Allowed
  <1>3. ASSUME NEW a \in 1 .. Len(Ongoing'),
               \A j \in 1 .. Len(stream'.points) : stream'.points[j] < Position(a)'
        PROVE  Len(Ongoing') + 1 - a <= stream'.bytes
    <2>1. ~ \E j \in 1 .. Len(stream'.points) : stream'.points[j] = stream.total
      BY <1>0, <1>1, <1>3
    <2>2. ASSUME NEW i \in 1 .. Len(stream.points) PROVE stream.points[i] < Position(a + d)
      <3>1. Position(a + d) \in Int /\ Position(a + d) > stream.total - Len(Ongoing')
            /\ Position(a)' = Position(a + d)
        BY <1>1
      <3>2. CASE stream.points[i] <= stream.total - Len(Ongoing')
        BY <1>0, <3>1, <3>2
      <3>3. CASE \E j \in 1 .. Len(stream'.points) : stream'.points[j] = stream.points[i]
        BY <1>3, <3>1, <3>3
      <3>. QED
        BY <3>2, <3>3
    <2>3. Len(Ongoing) + 1 - (a + d) <= stream.bytes
      BY <1>1, <2>2 DEF SizeShape
    <2>. QED
      BY <1>0, <2>1, <2>3
  <1>. QED
    BY <1>2, <1>3 DEF SizeShape

(* Two steps in particular: one that leaves the whole sequence, and one that  *)
(* lets go of the open file.                                                  *)
LEMMA WholeKeepsLimits ==
    ASSUME IInv, IInv', SizeShape, ~stream.failed, ~stream'.failed, stream'.total = stream.total,
           Ongoing' = Ongoing, stream'.points = stream.points, stream'.bytes >= stream.bytes
    PROVE  SizeShape'
  <1>1. Len(Ongoing) \in Nat /\ 0 \in Nat
    BY Parts, LenProperties
  <1>2. Len(Ongoing') = Len(Ongoing) - 0 /\ \A i \in 1 .. Len(Ongoing') : Ongoing'[i] = Ongoing[i + 0]
    BY <1>1
  <1>. QED
    BY <1>1, <1>2, EndKeepsLimits

LEMMA LettingGoKeepsLimits ==
    ASSUME IInv, IInv', SizeShape, ~stream.failed, ~stream'.failed, stream'.total = stream.total,
           Opened' = <<>>, buffer' = buffer, Pending' = Pending, writer'.drained = writer.drained,
           stream'.bytes >= stream.bytes,
           \A i \in 1 .. Len(stream.points) :
                \/ stream.points[i] <= writer.drained
                \/ \E j \in 1 .. Len(stream'.points) : stream'.points[j] = stream.points[i]
    PROVE  SizeShape'
  <1>. DEFINE rest == buffer \o Pending
              d == Len(Opened)
  <1>0. /\ Opened \in Seq(Bytes) /\ rest \in Seq(Bytes) /\ d \in Nat /\ Len(rest) \in Nat
        /\ Len(rest) = Len(buffer) + Len(Pending) /\ Len(buffer) \in Nat /\ Len(Pending) \in Nat
        /\ stream.total = End + Len(Pending) /\ writer.drained \in Nat
    <2>1. writer.drained \in Nat
      BY Types DEF IInv, Writers
    <2>. QED
      BY <2>1, Parts, LenProperties
  <1>1. Ongoing' = rest /\ Ongoing = Opened \o rest
    <2>1. Ongoing' = <<>> \o rest
      BY DEF Ongoing
    <2>. QED
      BY <1>0, <2>1, ConcatEmptySeq DEF Ongoing
  <1>. HIDE DEF rest, d
  <1>2. Len(Ongoing) = d + Len(rest) /\ \A i \in 1 .. d + Len(rest) :
            Ongoing[i] = IF i <= d THEN Opened[i] ELSE rest[i - d]
    <2>1. /\ Len(Opened \o rest) = Len(Opened) + Len(rest)
          /\ \A i \in 1 .. Len(Opened) + Len(rest) :
                (Opened \o rest)[i] = IF i <= Len(Opened) THEN Opened[i] ELSE rest[i - Len(Opened)]
      <3>1. Opened \in Seq(Bytes) /\ rest \in Seq(Bytes)
        BY <1>0
      <3>. QED
        BY <3>1, ConcatProperties, Zenon
    <2>. QED
      BY <1>1, <2>1, Zenon DEF d
  <1>3. Len(Ongoing') = Len(Ongoing) - d /\ \A i \in 1 .. Len(Ongoing') : Ongoing'[i] = Ongoing[i + d]
    <2>1. Len(Ongoing') = Len(Ongoing) - d
      BY <1>0, <1>1, <1>2
    <2>2. ASSUME NEW i \in 1 .. Len(Ongoing') PROVE Ongoing'[i] = Ongoing[i + d]
      <3>1. i + d \in 1 .. d + Len(rest) /\ ~(i + d <= d) /\ (i + d) - d = i
        BY <1>0, <1>1, <2>2
      <3>. QED
        BY <1>1, <1>2, <3>1
    <2>. QED
      BY <2>1, <2>2
  <1>4. stream.total - Len(Ongoing') = writer.drained
    BY <1>0, <1>1 DEF End
  <1>. QED
    BY <1>0, <1>3, <1>4, EndKeepsLimits

-----------------------------------------------------------------------------
(* A record that is accepted: the sequence grows by it. *)
LEMMA AccountGrows ==
    ASSUME IInv, IInv', NEW p \in Producers, Account(p)
    PROVE  /\ Ongoing' = Ongoing \o RecordOf(p)'
           /\ RecordOf(p)' \in Seq(Bytes) /\ Len(RecordOf(p)') = prod[p].size /\ prod[p].size \in Nat
           /\ \A i \in 1 .. prod[p].size :
                /\ RecordOf(p)'[i].id = accepted'
                /\ RecordOf(p)'[i].over = (TooLarge(prod[p].size) /\ ~StartsNextFile(prod[p].size))
  <1>0. stream \in Streams /\ prod \in [Producers -> Writes] /\ prod[p] \in Writes
    BY Types DEF IInv
  <1>1. prod[p].at = "room" /\ UNCHANGED <<buffer, writer, files>>
    BY DEF Account, WriterSide
  <1>2. \A q \in Producers : prod[q].at # "send"
    BY <1>1, OneSender DEF Holding
  <1>3. Pending = <<>>
    BY <1>2, PendingIs DEF IInv
  <1>4. prod[p].size \in Nat
    BY <1>0, SizeIsNat
  <1>5. /\ prod'[p].at = "send" /\ prod'[p].size = prod[p].size /\ prod'[p].id = accepted'
        /\ prod'[p].turn = turns
        /\ prod'[p].over = (TooLarge(prod[p].size) /\ ~StartsNextFile(prod[p].size))
    BY <1>0, <1>1 DEF Account, Accepted, Writes
  <1>6. Pending' = RecordOf(p)'
    BY <1>5, PendingWillBe DEF IInv
  <1>7. /\ \A i \in 1 .. prod[p].size :
                /\ RecordOf(p)'[i].id = accepted'
                /\ RecordOf(p)'[i].over = (TooLarge(prod[p].size) /\ ~StartsNextFile(prod[p].size))
        /\ RecordOf(p)' \in [1 .. prod[p].size -> {RecordOf(p)'[i] : i \in 1 .. prod[p].size}]
    BY <1>5 DEF RecordOf
  <1>8. RecordOf(p)' \in Seq(Bytes)
    BY <1>6, PartsAfter
  <1>9. Len(RecordOf(p)') = prod[p].size
    BY <1>4, <1>7
  <1>10. Ongoing' = Opened \o (buffer \o RecordOf(p)')
    BY <1>1, <1>6 DEF Ongoing, Opened
  <1>11. Ongoing = Opened \o buffer
    BY <1>3, Parts, ConcatEmptySeq DEF Ongoing
  <1>12. Ongoing' = Ongoing \o RecordOf(p)'
    <2>. DEFINE record == RecordOf(p)'
    <2>1. Opened \in Seq(Bytes) /\ buffer \in Seq(Bytes) /\ record \in Seq(Bytes)
      BY <1>8, Parts
    <2>. HIDE DEF record
    <2>2. (Opened \o buffer) \o record = Opened \o (buffer \o record)
      BY <2>1, ConcatAssociative
    <2>. QED
      BY <1>10, <1>11, <2>2 DEF record
  <1>. QED
    BY <1>4, <1>7, <1>8, <1>9, <1>12

LEMMA AccountKeepsLimits ==
    ASSUME IInv, IInv', SizeShape, NEW p \in Producers, Account(p), ~stream.failed
    PROVE  SizeShape'
  <1>. DEFINE size == prod[p].size
              record == RecordOf(p)'
              next == StartsNextFile(size)
              L == Len(Ongoing)
  <1>0. /\ L \in Nat /\ size \in Nat /\ stream.total \in Nat /\ stream.bytes \in Nat /\ MaxFileSize \in Nat
        /\ stream.points \in Seq(Nat) /\ Len(stream.points) \in Nat
        /\ \A i \in 1 .. Len(stream.points) : stream.points[i] <= stream.total /\ stream.points[i] \in Nat
    <2>1. stream \in Streams /\ Ongoing \in Seq(Bytes) /\ Balance
      BY Types, Parts DEF IInv
    <2>2. stream.points \in Seq(Nat) /\ stream.total \in Nat /\ stream.bytes \in Nat
      BY <2>1 DEF Streams
    <2>3. MaxFileSize \in Nat
      BY WriterAssumption
    <2>. QED
      BY <2>1, <2>2, <2>3, AccountGrows, LenProperties, ElementOfSeq DEF Balance
  <1>1. /\ Len(Ongoing') = L + size
        /\ \A i \in 1 .. L : Ongoing'[i] = Ongoing[i]
        /\ \A i \in 1 .. size : Ongoing'[L + i] = record[i]
    <2>1. /\ Ongoing \in Seq(Bytes) /\ record \in Seq(Bytes) /\ Len(record) = size
          /\ Ongoing' = Ongoing \o record
      BY Parts, AccountGrows
    <2>. HIDE DEF record
    <2>2. /\ Len(Ongoing \o record) = L + Len(record)
          /\ \A i \in 1 .. L + Len(record) :
                (Ongoing \o record)[i] = IF i <= L THEN Ongoing[i] ELSE record[i - L]
      BY <2>1, ConcatProperties
    <2>. QED
      BY <1>0, <2>1, <2>2
  <1>2. /\ \A i \in 1 .. size : record[i].id = accepted'
        /\ \A i \in 1 .. size : record[i].over = (TooLarge(size) /\ ~next)
    BY AccountGrows
  <1>3. /\ stream'.points = IF next THEN Append(stream.points, stream.total) ELSE stream.points
        /\ stream'.bytes = size + IF next THEN 0 ELSE stream.bytes
        /\ stream'.total = stream.total + size
    <2>1. stream \in Streams
      BY Types DEF IInv
    <2>. QED
      BY <2>1 DEF Account, Streams
  <1>. HIDE DEF record, next, L
  <1>4. next => /\ Len(stream'.points) = Len(stream.points) + 1
                /\ \A i \in 1 .. Len(stream.points) : stream'.points[i] = stream.points[i]
                /\ stream'.points[Len(stream.points) + 1] = stream.total
    BY <1>0, <1>3, AppendProperties
  <1>. HIDE DEF size
  <1>5. \A k \in 1 .. L + size : /\ Position(k)' = stream.total - L + k /\ Position(k) = stream.total - L + k
                                 /\ Position(k) \in Int /\ Position(k)' = Position(k)
    BY <1>0, <1>1, <1>3 DEF Position, L
  <1>6. \A i \in 1 .. Len(stream.points) :
            /\ i \in 1 .. Len(stream'.points) /\ stream'.points[i] = stream.points[i]
    BY <1>0, <1>3, <1>4
  <1>7. ASSUME NEW a \in 1 .. Len(Ongoing'), NEW b \in 1 .. Len(Ongoing'),
               Together(a, b)', b + 1 - a > MaxFileSize
        PROVE  Allowed(Ongoing', a, b)
    <2>0. /\ a \in 1 .. L + size /\ b \in 1 .. L + size /\ a <= b
          /\ Position(a)' = Position(a) /\ Position(b)' = Position(b)
      BY <1>0, <1>1, <1>5, <1>7
    <2>1. Together(a, b)
      <3>. SUFFICES ASSUME NEW i \in 1 .. Len(stream.points)
                    PROVE  stream.points[i] < Position(a) \/ Position(b) <= stream.points[i]
        BY DEF Together
      <3>1. stream'.points[i] < Position(a)' \/ Position(b)' <= stream'.points[i]
        BY <1>6, <1>7 DEF Together
      <3>. QED
        BY <1>6, <2>0, <3>1
    <2>2. CASE b \in 1 .. L
      <3>1. a \in 1 .. L
        BY <1>0, <2>0, <2>2
      <3>2. Allowed(Ongoing, a, b)
        BY <1>7, <2>1, <2>2, <3>1 DEF SizeShape, L
      <3>3. \A k \in a .. b : Ongoing'[k] = Ongoing[k]
        <4>1. a .. b \subseteq 1 .. L
          BY <1>0, <2>2, <3>1
        <4>. QED
          BY <1>1, <4>1
      <3>4. a \in a .. b
        BY <2>0
      <3>. QED
        BY <3>2, <3>3, <3>4 DEF Allowed
    <2>3. CASE b \notin 1 .. L
      <3>1. b - L \in 1 .. size /\ b = L + (b - L) /\ Ongoing'[b] = record[b - L]
        <4>1. b - L \in 1 .. size /\ b = L + (b - L)
          BY <1>0, <2>0, <2>3
        <4>2. Ongoing'[L + (b - L)] = record[b - L]
          BY <1>1, <4>1
        <4>. QED
          BY <4>1, <4>2
      <3>2. CASE a \in 1 .. L
        <4>1. ~next
          <5>. SUFFICES ASSUME next PROVE FALSE
            OBVIOUS
          <5>1. Len(stream.points) + 1 \in 1 .. Len(stream'.points)
            BY <1>0, <1>4
          <5>2. stream.total < Position(a)' \/ Position(b)' <= stream.total
            BY <1>4, <1>7, <5>1 DEF Together
          <5>. QED
            BY <1>0, <1>5, <2>0, <3>1, <3>2, <5>2
        <4>2. \A i \in 1 .. Len(stream.points) : stream.points[i] < Position(a)
          <5>. SUFFICES ASSUME NEW i \in 1 .. Len(stream.points) PROVE stream.points[i] < Position(a)
            OBVIOUS
          <5>1. Position(b) = stream.total - L + b /\ Position(a) \in Int /\ b > L
            BY <1>0, <1>5, <2>0, <3>1
          <5>2. stream.points[i] <= stream.total /\ stream.points[i] \in Nat
            BY <1>0
          <5>3. ~(Position(b) <= stream.points[i])
            <6>. DEFINE x == stream.points[i]
                        y == Position(b)
            <6>1. y = stream.total - L + b /\ x \in Nat /\ x <= stream.total
              BY <5>1, <5>2
            <6>2. stream.total \in Nat /\ L \in Nat /\ b \in Int /\ b > L
              BY <1>0, <2>0, <5>1
            <6>. HIDE DEF x, y
            <6>3. ~(y <= x)
              BY <6>1, <6>2
            <6>. QED
              BY <6>3 DEF x, y
          <5>. QED
            BY <2>1, <5>3 DEF Together
        <4>3. L + 1 - a <= stream.bytes
          BY <3>2, <4>2 DEF SizeShape, L
        <4>4. stream.bytes > 0 /\ stream.bytes + size > MaxFileSize
          BY <1>0, <1>7, <2>0, <3>1, <3>2, <4>3
        <4>5. Ongoing'[b].over
          BY <1>2, <3>1, <4>1, <4>4 DEF TooLarge
        <4>6. b \in a .. b
          BY <2>0
        <4>. QED
          BY <4>5, <4>6 DEF Allowed
      <3>3. CASE a \notin 1 .. L
        <4>1. \A k \in a .. b : Ongoing'[k].id = accepted'
          <5>. SUFFICES ASSUME NEW k \in a .. b PROVE Ongoing'[k].id = accepted'
            OBVIOUS
          <5>1. k - L \in 1 .. size /\ k = L + (k - L)
            BY <1>0, <2>0, <3>3
          <5>2. Ongoing'[L + (k - L)] = record[k - L]
            BY <1>1, <5>1
          <5>. QED
            BY <1>2, <5>1, <5>2
        <4>2. a \in a .. b
          BY <2>0
        <4>. QED
          BY <4>1, <4>2 DEF Allowed
      <3>. QED
        BY <3>2, <3>3
    <2>. QED
      BY <2>2, <2>3
  <1>8. ASSUME NEW a \in 1 .. Len(Ongoing'),
               \A i \in 1 .. Len(stream'.points) : stream'.points[i] < Position(a)'
        PROVE  Len(Ongoing') + 1 - a <= stream'.bytes
    <2>0. a \in 1 .. L + size /\ Position(a)' = Position(a) /\ Position(a) = stream.total - L + a
      BY <1>0, <1>1, <1>5
    <2>1. CASE next
      <3>1. Len(stream.points) + 1 \in 1 .. Len(stream'.points)
        BY <1>0, <2>1, <1>4
      <3>2. stream.total < Position(a)'
        BY <1>4, <1>8, <2>1, <3>1
      <3>3. stream'.bytes = size
        BY <1>0, <1>3, <2>1
      <3>. QED
        BY <1>0, <1>1, <2>0, <3>2, <3>3
    <2>2. CASE ~next
      <3>1. stream'.bytes = size + stream.bytes
        BY <1>3, <2>2
      <3>2. CASE a \in 1 .. L
        <4>1. \A i \in 1 .. Len(stream.points) : stream.points[i] < Position(a)
          BY <1>6, <1>8, <2>0
        <4>2. L + 1 - a <= stream.bytes
          BY <3>2, <4>1 DEF SizeShape, L
        <4>. QED
          BY <1>0, <1>1, <2>0, <3>1, <4>2
      <3>3. CASE a \notin 1 .. L
        BY <1>0, <1>1, <2>0, <3>1, <3>3
      <3>. QED
        BY <3>2, <3>3
    <2>. QED
      BY <2>1, <2>2
  <1>. QED
    BY <1>7, <1>8 DEF SizeShape

(* A piece goes from the buffer to the open file. *)
LEMMA PieceMoves ==
    ASSUME IInv, IInv', NEW size \in Nat, Pieces(size), Pending' = Pending
    PROVE  /\ Ongoing' = Ongoing
           /\ Len(files') = Len(files) /\ Len(files) \in 1 .. Len(files)
           /\ \A i \in 1 .. Len(files) - 1 : files'[i] = files[i]
           /\ Opened' = files'[Len(files)].bytes
           /\ Len(Opened') = Len(Opened) + size
  <1>0. /\ writer \in Writers /\ files \in Seq(Files) /\ buffer \in Seq(Bytes) /\ Len(buffer) \in Nat
    BY Types, LenProperties DEF IInv
  <1>. DEFINE piece == SubSeq(buffer, 1, size)
              others == SubSeq(buffer, size + 1, Len(buffer))
              n == Len(files)
  <1>1. /\ writer.open /\ size \in 0 .. Len(buffer) /\ files # <<>>
        /\ files' = [files EXCEPT ![n].bytes = @ \o piece] /\ buffer' = others
        /\ writer'.open = writer.open
    <2>1. /\ writer.open /\ size <= Len(buffer) /\ files # <<>>
          /\ files' = [files EXCEPT ![n].bytes = @ \o piece] /\ buffer' = others
      BY DEF Pieces
    <2>2. writer'.open = writer.open
      BY <1>0 DEF Pieces, Writers
    <2>. QED
      BY <1>0, <2>1, <2>2
  <1>2. n \in Nat /\ n \in 1 .. n /\ DOMAIN files = 1 .. n /\ files[n] \in Files
    <2>1. n \in Nat /\ n \in 1 .. n /\ DOMAIN files = 1 .. n
      BY <1>0, <1>1, LenProperties, EmptySeq
    <2>. QED
      BY <1>0, <2>1, ElementOfSeq
  <1>3. /\ piece \in Seq(Bytes) /\ others \in Seq(Bytes) /\ Len(piece) = size
    BY <1>0, <1>1, Split
  <1>4. piece \o others = buffer
    <2>1. 1 \in 1 .. Len(buffer) + 1 /\ size \in 1 - 1 .. Len(buffer) /\ Len(buffer) \in size .. Len(buffer)
      BY <1>0, <1>1
    <2>2. piece \o others = SubSeq(buffer, 1, Len(buffer))
      BY <1>0, <2>1, ConcatAdjacentSubSeq
    <2>. QED
      BY <1>0, <2>2, SubSeqFull
  <1>. HIDE DEF piece, others
  <1>5. Opened = files[n].bytes /\ Opened \in Seq(Bytes)
    BY <1>1, Parts DEF Opened
  <1>6. /\ Len(files') = n /\ \A i \in 1 .. n - 1 : files'[i] = files[i]
        /\ files'[n].bytes = Opened \o piece
    <2>1. files' = [files EXCEPT ![n] = [files[n] EXCEPT !.bytes = Opened \o piece]]
      BY <1>1, <1>5
    <2>2. DOMAIN files' = 1 .. n /\ Len(files') = n
      BY <1>0, <1>2, <2>1
    <2>3. files'[n] = [files[n] EXCEPT !.bytes = Opened \o piece]
      BY <1>2, <2>1
    <2>4. files'[n].bytes = Opened \o piece
      BY <1>2, <2>3 DEF Files
    <2>5. \A i \in 1 .. n - 1 : files'[i] = files[i]
      BY <1>2, <2>1
    <2>. QED
      BY <2>2, <2>4, <2>5
  <1>7. Opened' = files'[n].bytes /\ Opened' = Opened \o piece
    BY <1>1, <1>6 DEF Opened
  <1>8. Len(Opened') = Len(Opened) + size
    BY <1>3, <1>5, <1>7, ConcatProperties
  <1>9. Ongoing' = Ongoing
    <2>. DEFINE rest == others \o Pending
    <2>0. Pending \in Seq(Bytes)
      BY Parts
    <2>1. rest \in Seq(Bytes)
      BY <1>3, <2>0, ConcatProperties
    <2>2. Ongoing' = (Opened \o piece) \o rest
      BY <1>1, <1>7 DEF Ongoing
    <2>3. Ongoing = Opened \o (buffer \o Pending)
      BY DEF Ongoing
    <2>4. buffer \o Pending = piece \o rest
      <3>1. (piece \o others) \o Pending = piece \o (others \o Pending)
        BY <1>3, <2>0, ConcatAssociative
      <3>. QED
        BY <1>4, <3>1
    <2>. HIDE DEF rest
    <2>5. (Opened \o piece) \o rest = Opened \o (piece \o rest)
      <3>1. Opened \in Seq(Bytes) /\ piece \in Seq(Bytes) /\ rest \in Seq(Bytes)
        BY <1>3, <1>5, <2>1
      <3>. QED
        BY <3>1, ConcatAssociative
    <2>. QED
      BY <2>2, <2>3, <2>4, <2>5
  <1>. QED
    BY <1>2, <1>6, <1>7, <1>8, <1>9

(* Every step keeps the limits. *)
LEMMA SizeShapeKept ==
    ASSUME IInv, IInv', [Next]_vars, SizeShape
    PROVE  SizeShape'
  <1>. SUFFICES ASSUME ~stream'.failed PROVE SizeShape'
    BY DEF SizeShape
  <1>0. /\ TypeOK /\ stream \in Streams /\ prod \in [Producers -> Writes] /\ writer \in Writers
        /\ stream.bytes \in Nat /\ writer.drained \in Nat /\ files \in Seq(Files)
        /\ stream.points \in Seq(Nat) /\ Len(stream.points) \in Nat
    <2>1. TypeOK /\ stream \in Streams /\ prod \in [Producers -> Writes] /\ writer \in Writers
          /\ files \in Seq(Files)
      BY Types DEF IInv
    <2>2. stream.bytes \in Nat /\ stream.points \in Seq(Nat) /\ writer.drained \in Nat
      BY <2>1 DEF Streams, Writers
    <2>. QED
      BY <2>1, <2>2, LenProperties
  <1>1. CASE UNCHANGED vars
    <2>1. UNCHANGED <<buffer, stream, prod, writer, files>>
      BY <1>1 DEF vars
    <2>2. Opened' = Opened
      BY <2>1 DEF Opened
    <2>3. Pending' = Pending
      BY <2>1 DEF Pending, RecordOf
    <2>. QED
      BY <1>0, <2>1, <2>2, <2>3, WholeKeepsLimits DEF Ongoing
  <1>2. ASSUME NEW p \in Producers, Quiet(p) PROVE SizeShape'
    <2>1. /\ UNCHANGED <<buffer, writer, files>>
          /\ stream'.total = stream.total /\ stream'.failed = stream.failed
          /\ stream'.points = stream.points /\ stream'.bytes = stream.bytes
      BY <1>0, <1>2, QuietStays
    <2>2. Opened' = Opened
      BY <2>1 DEF Opened
    <2>3. Pending' = Pending
      <3>1. CASE \E q \in Producers : prod[q].at = "send"
        <4>1. PICK q \in Producers : prod[q].at = "send"
          BY <3>1
        <4>2. prod'[q].at = "send" /\ prod'[q] = prod[q]
          BY <1>0, <1>2, <4>1, QuietStays
        <4>3. Pending = RecordOf(q) /\ Pending' = RecordOf(q)'
          BY <4>1, <4>2, PendingIs, PendingWillBe DEF IInv
        <4>. QED
          BY <4>2, <4>3 DEF RecordOf
      <3>2. CASE \A q \in Producers : prod[q].at # "send"
        <4>1. \A q \in Producers : prod'[q].at # "send"
          BY <1>0, <1>2, <3>2, QuietStays
        <4>. QED
          BY <3>2, <4>1, PendingIs, PendingWillBe DEF IInv
      <3>. QED
        BY <3>1, <3>2
    <2>. QED
      BY <1>0, <2>1, <2>2, <2>3, WholeKeepsLimits DEF Ongoing
  <1>3. ASSUME NEW p \in Producers, Account(p) PROVE SizeShape'
    <2>1. ~stream.failed
      BY <1>0, <1>3 DEF Account, Streams
    <2>. QED
      BY <1>3, <2>1, AccountKeepsLimits
  <1>4. ASSUME NEW p \in Producers, Send(p) PROVE SizeShape'
    <2>1. /\ prod[p].at = "send" /\ UNCHANGED <<writer, files>>
          /\ stream'.total = stream.total /\ stream'.failed = stream.failed
          /\ stream'.points = stream.points /\ stream'.bytes = stream.bytes
      BY <1>0, <1>4 DEF Send, Release, WriterSide, Streams
    <2>2. \A q \in Producers : prod'[q].at # "send"
      <3>1. prod' = [prod EXCEPT ![p] = NotWriting]
        BY <1>4 DEF Send, Release, Return
      <3>. QED
        BY <1>0, <2>1, <3>1, OneSender DEF Holding, NotWriting
    <2>. DEFINE record == RecordOf(p)
    <2>3. Pending = record /\ Pending' = <<>> /\ buffer' = buffer \o record /\ record \in Seq(Bytes)
      BY <1>4, <2>1, <2>2, PendingIs, PendingWillBe, SendEffect DEF IInv
    <2>4. Opened' = Opened
      BY <2>1 DEF Opened
    <2>. HIDE DEF record
    <2>5. (buffer \o record) \o <<>> = buffer \o record
      <3>1. buffer \o record \in Seq(Bytes)
        BY <2>3, Parts
      <3>. QED
        BY <3>1, ConcatEmptySeq
    <2>6. Ongoing' = Ongoing
      BY <2>3, <2>4, <2>5 DEF Ongoing
    <2>. QED
      BY <1>0, <2>1, <2>6, WholeKeepsLimits
  <1>5. CASE Rotate
    <2>1. /\ UNCHANGED <<buffer, prod, writer, files>> /\ ~stream.failed
          /\ stream'.total = stream.total /\ stream'.holder = stream.holder
          /\ \/ stream' = stream
             \/ stream'.points = Append(stream.points, stream.total)
      BY <1>0, <1>5 DEF Rotate, WriterSide, Streams
    <2>2. Ongoing' = Ongoing
      <3>1. Opened' = Opened
        BY <2>1 DEF Opened
      <3>2. Pending' = Pending
        BY <2>1 DEF Pending, RecordOf
      <3>. QED
        BY <2>1, <3>1, <3>2 DEF Ongoing
    <2>3. CASE stream' = stream
      BY <1>0, <2>1, <2>2, <2>3, WholeKeepsLimits
    <2>4. CASE stream'.points = Append(stream.points, stream.total)
      <3>1. stream.total \in Nat
        BY <1>0 DEF Streams
      <3>2. /\ Len(stream'.points) = Len(stream.points) + 1
            /\ \A i \in 1 .. Len(stream.points) : stream'.points[i] = stream.points[i]
            /\ stream'.points[Len(stream.points) + 1] = stream.total
        BY <1>0, <2>4, <3>1, AppendProperties
      <3>3. /\ \E j \in 1 .. Len(stream'.points) : stream'.points[j] = stream.total
            /\ \A i \in 1 .. Len(stream.points) :
                    \E j \in 1 .. Len(stream'.points) : stream'.points[j] = stream.points[i]
        <4>1. Len(stream.points) + 1 \in 1 .. Len(stream'.points)
          BY <1>0, <3>2
        <4>2. \A i \in 1 .. Len(stream.points) : i \in 1 .. Len(stream'.points)
          BY <1>0, <3>2
        <4>. QED
          BY <3>2, <4>1, <4>2
      <3>4. Len(Ongoing) \in Nat /\ 0 \in Nat
        BY Parts, LenProperties
      <3>5. Len(Ongoing') = Len(Ongoing) - 0 /\ \A i \in 1 .. Len(Ongoing') : Ongoing'[i] = Ongoing[i + 0]
        BY <2>2, <3>4
      <3>. QED
        BY <2>1, <3>3, <3>4, <3>5, EndKeepsLimits
    <2>. QED
      BY <2>1, <2>3, <2>4
  <1>6. CASE Asks
    <2>1. UNCHANGED <<buffer, stream, prod, writer, files>>
      BY <1>6 DEF Asks, Ask
    <2>2. Opened' = Opened
      BY <2>1 DEF Opened
    <2>3. Pending' = Pending
      BY <2>1 DEF Pending, RecordOf
    <2>. QED
      BY <1>0, <2>1, <2>2, <2>3, WholeKeepsLimits DEF Ongoing
  <1>7. CASE WriterStep
    <2>0. /\ prod' = prod /\ stream'.holder = stream.holder /\ stream'.total = stream.total
          /\ ~stream.failed
      BY <1>7, WriterLeaves
    <2>1. Pending' = Pending
      BY <2>0 DEF Pending, RecordOf
    <2>2. CASE Register \/ Look \/ Limit \/ Serves
      <3>1. UNCHANGED <<buffer, files>> /\ writer'.open = writer.open
        BY <1>0, <2>0, <2>2 DEF Register, Look, Limit, Serves, Writers
      <3>2. stream'.points = stream.points /\ stream'.bytes = stream.bytes
        BY <1>0, <2>0, <2>2, ReleasedTypes DEF Register, Look, Limit, Serves
      <3>3. Opened' = Opened
        BY <3>1 DEF Opened
      <3>. QED
        BY <1>0, <2>0, <2>1, <3>1, <3>2, <3>3, WholeKeepsLimits DEF Ongoing
    <2>3. CASE Turns
      <3>1. /\ buffer' = buffer /\ ~writer'.open /\ writer'.drained = writer.drained
            /\ stream'.bytes = stream.bytes /\ stream'.points = Tail(stream.points)
            /\ stream.points # <<>> /\ Head(stream.points) <= writer.drained
        BY <1>0, <2>3 DEF Turns, Writers, Streams
      <3>2. Opened' = <<>>
        BY <3>1 DEF Opened
      <3>3. /\ Len(stream'.points) = Len(stream.points) - 1
            /\ \A i \in 1 .. Len(stream'.points) : stream'.points[i] = stream.points[i + 1]
            /\ Head(stream.points) = stream.points[1]
        BY <1>0, <3>1, HeadTailProperties
      <3>4. \A i \in 1 .. Len(stream.points) :
                \/ stream.points[i] <= writer.drained
                \/ \E j \in 1 .. Len(stream'.points) : stream'.points[j] = stream.points[i]
        <4>. SUFFICES ASSUME NEW i \in 1 .. Len(stream.points), i # 1
                      PROVE  \E j \in 1 .. Len(stream'.points) : stream'.points[j] = stream.points[i]
          BY <3>1, <3>3
        <4>1. i - 1 \in 1 .. Len(stream'.points) /\ (i - 1) + 1 = i
          BY <1>0, <3>3
        <4>. QED
          BY <3>3, <4>1
      <3>. QED
        BY <1>0, <2>0, <2>1, <3>1, <3>2, <3>4, LettingGoKeepsLimits
    <2>4. CASE Opens
      <3>1. /\ buffer' = buffer /\ writer'.open /\ writer'.drained = writer.drained
            /\ stream'.bytes >= stream.bytes /\ stream'.points = stream.points
            /\ files' = Append(files, [turn |-> turns, bytes |-> <<>>])
        <4>1. PICK head \in Heads :
                /\ writer' = [writer EXCEPT !.at = "write", !.open = TRUE, !.pos = head % Sector, !.dirty = head > 0]
                /\ stream' = [stream EXCEPT !.bytes = @ + IF stream.points = <<>> THEN head ELSE 0]
          BY <2>4 DEF Opens
        <4>2. head \in Nat
          BY Constants
        <4>3. stream'.bytes >= stream.bytes /\ stream'.points = stream.points
          BY <1>0, <4>1, <4>2 DEF Streams
        <4>4. writer'.open /\ writer'.drained = writer.drained
          BY <1>0, <4>1 DEF Writers
        <4>. QED
          BY <2>4, <4>3, <4>4 DEF Opens
      <3>2. Opened' = <<>>
        <4>1. [turn |-> turns, bytes |-> <<>>] \in Files
          BY Types DEF Files, IInv
        <4>2. files'[Len(files')] = [turn |-> turns, bytes |-> <<>>]
          BY <1>0, <3>1, <4>1, AppendProperties
        <4>. QED
          BY <3>1, <4>2 DEF Opened
      <3>3. \A i \in 1 .. Len(stream.points) :
                \E j \in 1 .. Len(stream'.points) : stream'.points[j] = stream.points[i]
        BY <3>1
      <3>. QED
        BY <2>0, <2>1, <3>1, <3>2, <3>3, LettingGoKeepsLimits
    <2>5. ASSUME NEW size \in Nat, Pieces(size) PROVE SizeShape'
      <3>1. Ongoing' = Ongoing
        BY <2>1, <2>5, PieceMoves
      <3>2. stream' = Released(stream)
        BY <2>5 DEF Pieces
      <3>3. stream'.points = stream.points /\ stream'.bytes >= stream.bytes
        BY <1>0, <3>2, ReleasedTypes
      <3>. QED
        BY <2>0, <3>1, <3>3, WholeKeepsLimits
    <2>6. CASE Answer
      <3>1. UNCHANGED <<buffer, files, stream>> /\ writer'.open \in {writer.open, FALSE}
            /\ writer'.drained = writer.drained
        BY <1>0, <2>6 DEF Answer, NotOpen, Writers
      <3>2. CASE writer'.open = writer.open
        <4>1. Opened' = Opened
          BY <3>1, <3>2 DEF Opened
        <4>. QED
          BY <1>0, <2>0, <2>1, <3>1, <4>1, WholeKeepsLimits DEF Ongoing
      <3>3. CASE ~writer'.open
        <4>1. Opened' = <<>>
          BY <3>3 DEF Opened
        <4>. QED
          BY <1>0, <2>0, <2>1, <3>1, <4>1, LettingGoKeepsLimits
      <3>. QED
        BY <3>1, <3>2, <3>3
    <2>7. CASE Breaks
      <3>1. stream.points # <<>> => Tail(stream.points) \in Seq(Nat)
        BY <1>0, HeadTailProperties
      <3>2. stream'.failed
        BY <1>0, <2>7, <3>1, FailTypes DEF Breaks
      <3>. QED
        BY <3>2
    <2>. QED
      BY <1>7, <2>2, <2>3, <2>4, <2>5, <2>6, <2>7 DEF WriterStep
  <1>. QED
    BY <1>1, <1>2, <1>3, <1>4, <1>5, <1>6, <1>7, Steps

LEMMA FileWithinLimitKept ==
    ASSUME IInv, IInv', [Next]_vars, Sorted, SizeShape', FileWithinLimit
    PROVE  FileWithinLimit'
  <1>0. /\ TypeOK /\ writer \in Writers /\ files \in Seq(Files) /\ Len(files) \in Nat
        /\ DOMAIN files = 1 .. Len(files) /\ MaxFileSize \in Nat
    <2>1. TypeOK /\ writer \in Writers /\ files \in Seq(Files)
      BY Types DEF IInv
    <2>. QED
      BY <2>1, LenProperties, WriterAssumption
  <1>1. CASE files' = files
    BY <1>1 DEF FileWithinLimit
  <1>2. CASE Opens
    <2>. DEFINE new == [turn |-> turns, bytes |-> <<>>]
    <2>1. files' = Append(files, new) /\ new \in Files
      BY <1>2, Types DEF Opens, Files, IInv
    <2>2. /\ Len(files') = Len(files) + 1 /\ DOMAIN files' = 1 .. Len(files')
          /\ \A i \in 1 .. Len(files) : files'[i] = files[i]
          /\ files'[Len(files) + 1].bytes = <<>>
      BY <1>0, <2>1, AppendProperties, LenProperties
    <2>. SUFFICES ASSUME NEW i \in DOMAIN files', Len(files'[i].bytes) > MaxFileSize
                  PROVE  \/ \A k \in DOMAIN files'[i].bytes : files'[i].bytes[k].id = files'[i].bytes[1].id
                         \/ \E k \in DOMAIN files'[i].bytes : files'[i].bytes[k].over
      BY DEF FileWithinLimit
    <2>3. i # Len(files) + 1
      BY <1>0, <2>2
    <2>4. i \in 1 .. Len(files)
      BY <1>0, <2>2, <2>3
    <2>. QED
      BY <1>0, <2>2, <2>4 DEF FileWithinLimit
  <1>3. ASSUME NEW size \in Nat, Pieces(size) PROVE FileWithinLimit'
    <2>. DEFINE n == Len(files)
    <2>0. PICK m \in Nat : m = Len(Opened')
      BY PartsAfter
    <2>1. Pending' = Pending
      <3>1. WriterStep
        BY <1>3 DEF WriterStep
      <3>. QED
        BY <3>1, WriterLeaves DEF Pending, RecordOf
    <2>2. /\ Len(files') = n /\ n \in 1 .. n /\ \A i \in 1 .. n - 1 : files'[i] = files[i]
          /\ Opened' = files'[n].bytes
      BY <1>3, <2>1, PieceMoves
    <2>3. /\ Opened' \in Seq(Bytes) /\ m \in Nat /\ DOMAIN Opened' = 1 .. m
          /\ (buffer \o Pending)' \in Seq(Bytes) /\ Len((buffer \o Pending)') = Len(buffer') + Len(Pending')
          /\ Len(buffer') \in Nat /\ Len(Pending') \in Nat
          /\ Len(Ongoing') = m + (Len(buffer') + Len(Pending'))
          /\ stream'.total = End' + Len(Pending') /\ ~stream'.failed
      <3>1. ~stream'.failed
        BY <1>0, <1>3, ReleasedTypes DEF Pieces
      <3>2. Opened' \in Seq(Bytes)
        BY PartsAfter
      <3>. QED
        BY <2>0, <3>1, <3>2, PartsAfter, LenProperties
    <2>4. \A k \in 1 .. m : k \in 1 .. Len(Ongoing') /\ Ongoing'[k] = Opened'[k]
      <3>. DEFINE rest == (buffer \o Pending)'
                  first == Opened'
      <3>1. Ongoing' = first \o rest
        BY DEF Ongoing
      <3>2. first \in Seq(Bytes) /\ rest \in Seq(Bytes)
        BY <2>3
      <3>3. m = Len(first) /\ Len(rest) \in Nat
        BY <2>0, <2>3, <3>2, LenProperties
      <3>. HIDE DEF first, rest
      <3>4. /\ Len(first \o rest) = Len(first) + Len(rest)
            /\ \A k \in 1 .. Len(first) + Len(rest) :
                (first \o rest)[k] = IF k <= Len(first) THEN first[k] ELSE rest[k - Len(first)]
        BY <3>2, ConcatProperties
      <3>5. \A k \in 1 .. m : k \in 1 .. Len(first) + Len(rest) /\ k <= Len(first)
        BY <2>3, <3>3
      <3>6. \A k \in 1 .. m : k \in 1 .. Len(Ongoing') /\ Ongoing'[k] = first[k]
        BY <3>1, <3>4, <3>5
      <3>. QED
        BY <3>6 DEF first
    <2>5. m > MaxFileSize => Allowed(Ongoing', 1, m)
      <3>. SUFFICES ASSUME m > MaxFileSize PROVE Allowed(Ongoing', 1, m)
        OBVIOUS
      <3>1. 1 \in 1 .. Len(Ongoing') /\ m \in 1 .. Len(Ongoing') /\ m + 1 - 1 > MaxFileSize
        BY <1>0, <2>3
      <3>2. writer'.drained = writer.drained + size /\ writer.drained \in Nat /\ writer'.drained \in Nat
        BY <1>0, <1>3 DEF Pieces, Writers
      <3>3. Position(m)' = writer'.drained
        <4>1. Position(m)' = stream'.total - Len(Ongoing') + m
          BY DEF Position
        <4>2. stream'.total = (writer'.drained + Len(buffer')) + Len(Pending')
          BY <2>3 DEF End
        <4>. DEFINE d == writer'.drained
                    b == Len(buffer')
                    p == Len(Pending')
                    t == stream'.total
                    l == Len(Ongoing')
        <4>3. d \in Nat /\ b \in Nat /\ p \in Nat /\ t = (d + b) + p /\ l = m + (b + p)
          BY <2>3, <3>2, <4>2
        <4>. HIDE DEF d, b, p, t, l
        <4>4. t - l + m = d
          BY <4>3
        <4>. QED
          BY <4>1, <4>4 DEF d, t, l
      <3>4. \A i \in 1 .. Len(stream.points) : stream.points[i] >= writer'.drained
        <4>1. stream.points \in Seq(Nat)
          BY Types DEF IInv, Streams
        <4>2. writer.at = "write" /\ size <= writer.limit /\ writer.limit \in Nat
          BY <1>0, <1>3, Constants DEF Pieces, Writers
        <4>. SUFFICES ASSUME NEW i \in 1 .. Len(stream.points) PROVE stream.points[i] >= writer'.drained
          OBVIOUS
        <4>3. 1 \in 1 .. Len(stream.points) /\ stream.points # <<>> /\ 1 <= i
          BY <4>1, LenProperties
        <4>4. stream.points[1] <= stream.points[i] /\ stream.points[1] \in Nat /\ stream.points[i] \in Nat
          BY <4>1, <4>3, ElementOfSeq DEF Sorted
        <4>5. writer.drained + writer.limit <= stream.points[1]
          BY <4>2, <4>3 DEF WriterShape, IInv
        <4>. QED
          BY <3>2, <4>2, <4>4, <4>5
      <3>5. stream'.points = stream.points
        BY <1>0, <1>3, ReleasedTypes DEF Pieces
      <3>6. Together(1, m)'
        BY <3>3, <3>4, <3>5 DEF Together
      <3>. QED
        BY <2>3, <3>1, <3>6 DEF SizeShape
    <2>6. DOMAIN files' = 1 .. n
      <3>1. files' \in Seq(Files)
        BY DEF IInv, TypeOK, Files
      <3>. QED
        BY <2>2, <3>1, LenProperties
    <2>. SUFFICES ASSUME NEW i \in 1 .. n, Len(files'[i].bytes) > MaxFileSize
                  PROVE  \/ \A k \in DOMAIN files'[i].bytes : files'[i].bytes[k].id = files'[i].bytes[1].id
                         \/ \E k \in DOMAIN files'[i].bytes : files'[i].bytes[k].over
      BY <2>6 DEF FileWithinLimit
    <2>7. CASE i \in 1 .. n - 1
      BY <1>0, <2>2, <2>7 DEF FileWithinLimit
    <2>8. CASE i = n
      <3>1. files'[i].bytes = Opened' /\ m > MaxFileSize
        BY <2>0, <2>2, <2>8
      <3>2. \A k \in 1 .. m : Ongoing'[k] = Opened'[k]
        BY <2>4
      <3>3. 1 \in 1 .. m
        BY <1>0, <2>3, <3>1
      <3>4. Allowed(Opened', 1, m)
        BY <2>5, <3>1, <3>2, <3>3 DEF Allowed
      <3>. QED
        BY <2>3, <3>1, <3>4 DEF Allowed
    <2>9. n \in Nat
      BY <1>0
    <2>. QED
      BY <2>7, <2>8, <2>9
  <1>4. files' = files \/ Opens \/ \E size \in Nat : Pieces(size)
    <2>1. \A p \in Producers : Quiet(p) => files' = files
      BY <1>0, QuietStays
    <2>. QED
      BY <2>1, Steps DEF vars, Account, Send, Rotate, WriterSide, Asks, Ask, WriterStep, Register, Look, Turns,
                         Limit, Serves, Answer, Breaks
  <1>. QED
    BY <1>1, <1>2, <1>3, <1>4

-----------------------------------------------------------------------------
LEMMA SizeInvariant == Spec => [](IInv /\ SizeInv)
  <1>1. Init => SizeInv
    <2>. SUFFICES ASSUME Init PROVE SizeInv
      OBVIOUS
    <2>1. IInv /\ Opened = <<>> /\ Pending = <<>> /\ buffer = <<>> /\ stream.points = <<>> /\ files = <<>>
      BY InitOK, WriterAssumption DEF Init, NotOpen, Opened, Pending
    <2>2. Len(Ongoing) = 0
      BY <2>1, Parts
    <2>. QED
      BY <2>1, <2>2 DEF SizeInv, Sorted, SizeShape, FileWithinLimit
  <1>2. (IInv /\ SizeInv) /\ [Next]_vars => (IInv /\ SizeInv)'
    BY Inductive, SortedKept, SizeShapeKept, FileWithinLimitKept DEF SizeInv
  <1>. QED
    BY <1>1, <1>2, InitOK, PTL DEF Spec

(* Files turn on request and by size: a byte is in a file that was picked     *)
(* after every rotate() that had returned, and no more than max_file_size of  *)
(* what was queued is in one file, but for one large record or a lack of      *)
(* slots, however the writer cuts what is buffered into pieces and whenever a *)
(* file is opened late (sd_card_writer.c, sd_card_writer_write and            *)
(* sd_card_writer_drain).                                                     *)
THEOREM FilesAlwaysTurn == Spec => []FilesTurn
  BY SizeInvariant, PTL DEF IInv, SizeInv, FilesTurn

-----------------------------------------------------------------------------
(* What reaches the card.  A record is whole where its last byte is, so the   *)
(* last bytes, in their order, are all that RecordLog can see of a file.      *)
LEMMA EndsAreFinite ==
    ASSUME NEW bytes \in Seq(Bytes)
    PROVE  /\ EndsOf(bytes) \subseteq 1 .. Len(bytes) /\ EndsOf(bytes) \subseteq Nat
           /\ IsFiniteSet(EndsOf(bytes))
           /\ Cardinality(EndsOf(bytes)) \in Nat
           /\ \A k \in Nat : /\ UpTo(bytes, k) \subseteq EndsOf(bytes) /\ IsFiniteSet(UpTo(bytes, k))
                             /\ Cardinality(UpTo(bytes, k)) \in Nat
                             /\ Cardinality(UpTo(bytes, k)) <= Cardinality(EndsOf(bytes))
  <1>1. EndsOf(bytes) \subseteq 1 .. Len(bytes) /\ EndsOf(bytes) \subseteq Nat
    BY LenProperties DEF EndsOf
  <1>2. IsFiniteSet(EndsOf(bytes))
    <2>1. Len(bytes) \in Nat /\ IsFiniteSet(1 .. Len(bytes))
      BY LenProperties, FS_Interval
    <2>. QED
      BY <1>1, <2>1, FS_Subset
  <1>3. ASSUME NEW k \in Nat
        PROVE  /\ UpTo(bytes, k) \subseteq EndsOf(bytes) /\ IsFiniteSet(UpTo(bytes, k))
               /\ Cardinality(UpTo(bytes, k)) \in Nat
               /\ Cardinality(UpTo(bytes, k)) <= Cardinality(EndsOf(bytes))
    <2>1. UpTo(bytes, k) \subseteq EndsOf(bytes)
      BY DEF UpTo
    <2>. QED
      BY <1>2, <2>1, FS_Subset, FS_CardinalityType
  <1>. QED
    BY <1>1, <1>2, <1>3, FS_CardinalityType

LEMMA PlacesGrow ==
    ASSUME NEW bytes \in Seq(Bytes), NEW j \in EndsOf(bytes), NEW k \in EndsOf(bytes), j < k
    PROVE  Cardinality(UpTo(bytes, j)) < Cardinality(UpTo(bytes, k))
  <1>1. j \in Nat /\ k \in Nat /\ EndsOf(bytes) \subseteq Nat
    BY EndsAreFinite
  <1>2. UpTo(bytes, j) \subseteq UpTo(bytes, k) /\ k \in UpTo(bytes, k) /\ k \notin UpTo(bytes, j)
    BY <1>1 DEF UpTo
  <1>3. Cardinality(UpTo(bytes, j)) <= Cardinality(UpTo(bytes, k))
        /\ Cardinality(UpTo(bytes, j)) # Cardinality(UpTo(bytes, k))
    BY <1>1, <1>2, EndsAreFinite, FS_Subset
  <1>. QED
    BY <1>1, <1>3, EndsAreFinite

LEMMA EndHasPlace ==
    ASSUME NEW bytes \in Seq(Bytes), NEW k \in EndsOf(bytes)
    PROVE  /\ Cardinality(UpTo(bytes, k)) \in 1 .. Cardinality(EndsOf(bytes))
           /\ \A j \in EndsOf(bytes) : Cardinality(UpTo(bytes, j)) = Cardinality(UpTo(bytes, k)) => j = k
  <1>1. k \in Nat /\ EndsOf(bytes) \subseteq Nat
    BY EndsAreFinite
  <1>2. k \in UpTo(bytes, k)
    BY <1>1 DEF UpTo
  <1>3. Cardinality(UpTo(bytes, k)) # 0
    BY <1>1, <1>2, EndsAreFinite, FS_EmptySet
  <1>4. Cardinality(UpTo(bytes, k)) \in 1 .. Cardinality(EndsOf(bytes))
    BY <1>1, <1>3, EndsAreFinite
  <1>5. ASSUME NEW j \in EndsOf(bytes), Cardinality(UpTo(bytes, j)) = Cardinality(UpTo(bytes, k)), j # k
        PROVE  FALSE
    <2>1. j \in Nat /\ (j < k \/ k < j)
      BY <1>1, <1>5
    <2>2. CASE j < k
      BY <1>1, <1>5, <2>1, <2>2, PlacesGrow, EndsAreFinite
    <2>3. CASE k < j
      BY <1>1, <1>5, <2>1, <2>3, PlacesGrow, EndsAreFinite
    <2>. QED
      BY <2>1, <2>2, <2>3
  <1>. QED
    BY <1>4, <1>5

LEMMA PlaceHasEnd ==
    ASSUME NEW bytes \in Seq(Bytes), NEW i \in 1 .. Cardinality(EndsOf(bytes))
    PROVE  Nth(bytes, i) \in EndsOf(bytes) /\ Cardinality(UpTo(bytes, Nth(bytes, i))) = i
  <1>. DEFINE places == 1 .. Cardinality(EndsOf(bytes))
              f == [k \in EndsOf(bytes) |-> Cardinality(UpTo(bytes, k))]
  <1>1. Cardinality(EndsOf(bytes)) \in Nat
    BY EndsAreFinite
  <1>2. IsFiniteSet(places) /\ Cardinality(places) = Cardinality(EndsOf(bytes))
    BY <1>1, FS_Interval
  <1>3. f \in [EndsOf(bytes) -> places]
    BY EndHasPlace
  <1>4. \A j, k \in EndsOf(bytes) : f[j] = f[k] => j = k
    BY EndHasPlace
  <1>5. f \in Injection(EndsOf(bytes), places)
    BY <1>3, <1>4 DEF Injection, IsInjective
  <1>6. f \in Surjection(EndsOf(bytes), places)
    BY <1>2, <1>5, FS_Injection
  <1>7. \E k \in EndsOf(bytes) : f[k] = i
    BY <1>6 DEF Surjection
  <1>. QED
    BY <1>7 DEF Nth

LEMMA NthIs ==
    ASSUME NEW bytes \in Seq(Bytes), NEW k \in EndsOf(bytes)
    PROVE  Nth(bytes, Cardinality(UpTo(bytes, k))) = k
  BY EndHasPlace, PlaceHasEnd

(* Of two parts in a row. *)
Behind(n, S) == {n + k : k \in S}

LEMMA BehindIsAsMany ==
    ASSUME NEW n \in Nat, NEW S, S \subseteq Nat, IsFiniteSet(S)
    PROVE  IsFiniteSet(Behind(n, S)) /\ Cardinality(Behind(n, S)) = Cardinality(S)
  <1>. DEFINE f == [k \in S |-> n + k]
  <1>1. f \in [S -> Behind(n, S)]
    BY DEF Behind
  <1>2. \A j, k \in S : f[j] = f[k] => j = k
    OBVIOUS
  <1>3. \A m \in Behind(n, S) : \E k \in S : f[k] = m
    BY DEF Behind
  <1>4. f \in Injection(S, Behind(n, S))
    BY <1>1, <1>2 DEF Injection, IsInjective
  <1>5. f \in Surjection(S, Behind(n, S))
    BY <1>1, <1>3 DEF Surjection
  <1>6. ExistsBijection(S, Behind(n, S))
    BY <1>4, <1>5 DEF ExistsBijection, Bijection
  <1>. QED
    BY <1>6, FS_Bijection

LEMMA EndsOfBoth ==
    ASSUME NEW s \in Seq(Bytes), NEW t \in Seq(Bytes)
    PROVE  /\ s \o t \in Seq(Bytes) /\ Len(s) \in Nat /\ Len(t) \in Nat
           /\ EndsOf(s \o t) = EndsOf(s) \cup Behind(Len(s), EndsOf(t))
           /\ Cardinality(EndsOf(s \o t)) = Cardinality(EndsOf(s)) + Cardinality(EndsOf(t))
           /\ \A k \in EndsOf(s) : (s \o t)[k] = s[k] /\ UpTo(s \o t, k) = UpTo(s, k)
           /\ \A k \in EndsOf(t) :
                /\ (s \o t)[Len(s) + k] = t[k]
                /\ Cardinality(UpTo(s \o t, Len(s) + k)) = Cardinality(EndsOf(s)) + Cardinality(UpTo(t, k))
  <1>. DEFINE both == s \o t
  <1>1. Len(s) \in Nat /\ Len(t) \in Nat
    BY LenProperties
  <1>2. /\ both \in Seq(Bytes) /\ Len(both) = Len(s) + Len(t)
        /\ \A i \in 1 .. Len(s) + Len(t) : both[i] = IF i <= Len(s) THEN s[i] ELSE t[i - Len(s)]
    BY ConcatProperties
  <1>. HIDE DEF both
  <1>3. \A k \in 1 .. Len(s) : both[k] = s[k]
    BY <1>1, <1>2
  <1>4. \A k \in 1 .. Len(t) : both[Len(s) + k] = t[k]
    <2>. TAKE k \in 1 .. Len(t)
    <2>1. Len(s) + k \in 1 .. Len(s) + Len(t) /\ ~(Len(s) + k <= Len(s)) /\ (Len(s) + k) - Len(s) = k
      BY <1>1
    <2>. QED
      BY <1>2, <2>1
  <1>5. /\ DOMAIN s = 1 .. Len(s) /\ DOMAIN t = 1 .. Len(t) /\ DOMAIN both = 1 .. Len(s) + Len(t)
    BY <1>2, LenProperties
  <1>6. EndsOf(both) = EndsOf(s) \cup Behind(Len(s), EndsOf(t))
    <2>1. ASSUME NEW k \in EndsOf(both) PROVE k \in EndsOf(s) \cup Behind(Len(s), EndsOf(t))
      <3>1. k \in 1 .. Len(s) + Len(t) /\ both[k].left = 0
        BY <1>5, <2>1 DEF EndsOf
      <3>2. CASE k <= Len(s)
        <4>1. k \in 1 .. Len(s)
          BY <1>1, <3>1, <3>2
        <4>. QED
          BY <1>3, <1>5, <3>1, <4>1 DEF EndsOf
      <3>3. CASE ~(k <= Len(s))
        <4>1. k - Len(s) \in 1 .. Len(t) /\ Len(s) + (k - Len(s)) = k
          BY <1>1, <3>1, <3>3
        <4>2. k - Len(s) \in EndsOf(t)
          BY <1>4, <1>5, <3>1, <4>1 DEF EndsOf
        <4>. QED
          BY <4>1, <4>2 DEF Behind
      <3>. QED
        BY <3>2, <3>3
    <2>2. ASSUME NEW k \in EndsOf(s) PROVE k \in EndsOf(both)
      <3>1. k \in 1 .. Len(s) /\ s[k].left = 0
        BY <1>5, <2>2 DEF EndsOf
      <3>2. k \in 1 .. Len(s) + Len(t)
        BY <1>1, <3>1
      <3>. QED
        BY <1>3, <1>5, <3>1, <3>2 DEF EndsOf
    <2>3. ASSUME NEW k \in EndsOf(t) PROVE Len(s) + k \in EndsOf(both)
      <3>1. k \in 1 .. Len(t) /\ t[k].left = 0
        BY <1>5, <2>3 DEF EndsOf
      <3>2. Len(s) + k \in 1 .. Len(s) + Len(t)
        BY <1>1, <3>1
      <3>. QED
        BY <1>4, <1>5, <3>1, <3>2 DEF EndsOf
    <2>. QED
      BY <2>1, <2>2, <2>3 DEF Behind
  <1>7. /\ EndsOf(s) \subseteq 1 .. Len(s) /\ EndsOf(s) \subseteq Nat /\ IsFiniteSet(EndsOf(s))
        /\ EndsOf(t) \subseteq 1 .. Len(t) /\ EndsOf(t) \subseteq Nat /\ IsFiniteSet(EndsOf(t))
        /\ Cardinality(EndsOf(s)) \in Nat /\ Cardinality(EndsOf(t)) \in Nat
    BY EndsAreFinite
  <1>8. ASSUME NEW S, S \subseteq EndsOf(t)
        PROVE  Cardinality(EndsOf(s) \cup Behind(Len(s), S)) = Cardinality(EndsOf(s)) + Cardinality(S)
    <2>1. S \subseteq Nat /\ IsFiniteSet(S) /\ Cardinality(S) \in Nat
      BY <1>7, <1>8, FS_Subset, FS_CardinalityType
    <2>2. IsFiniteSet(Behind(Len(s), S)) /\ Cardinality(Behind(Len(s), S)) = Cardinality(S)
      BY <1>1, <2>1, BehindIsAsMany
    <2>3. EndsOf(s) \cap Behind(Len(s), S) = {}
      <3>1. \A k \in S : Len(s) + k \notin 1 .. Len(s)
        BY <1>1, <1>7, <1>8
      <3>. QED
        BY <1>7, <3>1 DEF Behind
    <2>4. Cardinality(EndsOf(s) \cap Behind(Len(s), S)) = 0
      BY <2>3, FS_EmptySet
    <2>5. Cardinality(EndsOf(s) \cup Behind(Len(s), S))
            = Cardinality(EndsOf(s)) + Cardinality(Behind(Len(s), S)) - Cardinality(EndsOf(s) \cap Behind(Len(s), S))
      BY <1>7, <2>2, FS_Union
    <2>. QED
      BY <1>7, <2>1, <2>2, <2>4, <2>5
  <1>9. Cardinality(EndsOf(both)) = Cardinality(EndsOf(s)) + Cardinality(EndsOf(t))
    BY <1>6, <1>8
  <1>10. ASSUME NEW k \in EndsOf(s) PROVE both[k] = s[k] /\ UpTo(both, k) = UpTo(s, k)
    <2>1. k \in 1 .. Len(s)
      BY <1>7
    <2>2. \A j \in EndsOf(t) : ~(Len(s) + j <= k)
      BY <1>1, <1>7, <2>1
    <2>. QED
      BY <1>3, <1>6, <2>1, <2>2 DEF UpTo, Behind
  <1>11. ASSUME NEW k \in EndsOf(t)
         PROVE  /\ both[Len(s) + k] = t[k]
                /\ Cardinality(UpTo(both, Len(s) + k)) = Cardinality(EndsOf(s)) + Cardinality(UpTo(t, k))
    <2>1. k \in 1 .. Len(t) /\ k \in Nat
      BY <1>7
    <2>2. \A j \in EndsOf(s) : j <= Len(s) + k
      BY <1>1, <1>7, <2>1
    <2>3. \A j \in EndsOf(t) : Len(s) + j <= Len(s) + k <=> j <= k
      BY <1>1, <1>7, <2>1
    <2>4. UpTo(both, Len(s) + k) = EndsOf(s) \cup Behind(Len(s), UpTo(t, k))
      BY <1>6, <2>2, <2>3 DEF UpTo, Behind
    <2>5. UpTo(t, k) \subseteq EndsOf(t)
      BY DEF UpTo
    <2>. QED
      BY <1>4, <1>8, <2>1, <2>4, <2>5
  <1>. QED
    BY <1>1, <1>2, <1>6, <1>9, <1>10, <1>11 DEF both

(* What is whole in two parts in a row is what is whole in each. *)
LEMMA WholeInBoth ==
    ASSUME NEW s \in Seq(Bytes), NEW t \in Seq(Bytes)
    PROVE  /\ WholeRecords(s) \in Seq(1 .. MaxRecords) /\ WholeRecords(t) \in Seq(1 .. MaxRecords)
           /\ WholeRecords(s \o t) = WholeRecords(s) \o WholeRecords(t)
  <1>. DEFINE m == Cardinality(EndsOf(s))
              n == Cardinality(EndsOf(t))
  <1>1. m \in Nat /\ n \in Nat
    BY EndsAreFinite
  <1>2. ASSUME NEW r \in Seq(Bytes)
        PROVE  WholeRecords(r) \in Seq(1 .. MaxRecords) /\ Len(WholeRecords(r)) = Cardinality(EndsOf(r))
    <2>1. Cardinality(EndsOf(r)) \in Nat
      BY EndsAreFinite
    <2>2. ASSUME NEW i \in 1 .. Cardinality(EndsOf(r)) PROVE r[Nth(r, i)].id \in 1 .. MaxRecords
      <3>1. Nth(r, i) \in 1 .. Len(r)
        BY PlaceHasEnd, EndsAreFinite
      <3>2. r[Nth(r, i)] \in Bytes
        BY <3>1, ElementOfSeq
      <3>. QED
        BY <3>2 DEF Bytes
    <2>3. WholeRecords(r) \in [1 .. Cardinality(EndsOf(r)) -> 1 .. MaxRecords]
      BY <2>2 DEF WholeRecords
    <2>. DEFINE w == WholeRecords(r)
                c == Cardinality(EndsOf(r))
                ids == 1 .. MaxRecords
    <2>4. c \in Nat /\ w \in [1 .. c -> ids]
      BY <2>1, <2>3
    <2>. HIDE DEF w, c, ids
    <2>5. w \in Seq(ids) /\ Len(w) = c
      BY <2>4
    <2>. QED
      BY <2>5 DEF w, c, ids
  <1>3. s \o t \in Seq(Bytes) /\ Cardinality(EndsOf(s \o t)) = m + n
    BY EndsOfBoth
  <1>4. \A i \in 1 .. m : WholeRecords(s \o t)[i] = WholeRecords(s)[i]
    <2>. TAKE i \in 1 .. m
    <2>1. Nth(s, i) \in EndsOf(s) /\ Cardinality(UpTo(s, Nth(s, i))) = i
      BY PlaceHasEnd
    <2>2. (s \o t)[Nth(s, i)] = s[Nth(s, i)] /\ UpTo(s \o t, Nth(s, i)) = UpTo(s, Nth(s, i))
          /\ Nth(s, i) \in EndsOf(s \o t)
      BY <2>1, EndsOfBoth
    <2>3. Nth(s \o t, i) = Nth(s, i)
      BY <1>3, <2>1, <2>2, NthIs
    <2>4. i \in 1 .. m + n
      BY <1>1
    <2>. QED
      BY <1>3, <2>2, <2>3, <2>4 DEF WholeRecords
  <1>5. \A i \in 1 .. n : WholeRecords(s \o t)[m + i] = WholeRecords(t)[i]
    <2>. TAKE i \in 1 .. n
    <2>1. Nth(t, i) \in EndsOf(t) /\ Cardinality(UpTo(t, Nth(t, i))) = i
      BY PlaceHasEnd
    <2>. DEFINE k == Nth(t, i)
    <2>. HIDE DEF k
    <2>2. k \in EndsOf(t) /\ Cardinality(UpTo(t, k)) = i
      BY <2>1 DEF k
    <2>3. /\ (s \o t)[Len(s) + k] = t[k]
          /\ Cardinality(UpTo(s \o t, Len(s) + k)) = m + i
      BY <2>2, EndsOfBoth
    <2>4. Len(s) + k \in Behind(Len(s), EndsOf(t))
      BY <2>2 DEF Behind
    <2>5. Len(s) + k \in EndsOf(s \o t)
      BY <2>4, EndsOfBoth
    <2>6. Nth(s \o t, m + i) = Len(s) + k
      BY <1>3, <2>3, <2>5, NthIs
    <2>7. m + i \in 1 .. m + n
      BY <1>1
    <2>. QED
      BY <1>3, <2>3, <2>6, <2>7 DEF WholeRecords, k
  <1>. DEFINE a == WholeRecords(s)
              b == WholeRecords(t)
              c == WholeRecords(s \o t)
  <1>6. /\ a \in Seq(1 .. MaxRecords) /\ Len(a) = m /\ b \in Seq(1 .. MaxRecords) /\ Len(b) = n
        /\ c \in Seq(1 .. MaxRecords) /\ Len(c) = m + n
    BY <1>2, <1>3
  <1>. HIDE DEF a, b, c, m, n
  <1>7. c = a \o b
    <2>1. a \o b \in Seq(1 .. MaxRecords) /\ Len(a \o b) = m + n
          /\ \A i \in 1 .. m + n : (a \o b)[i] = IF i <= m THEN a[i] ELSE b[i - m]
      BY <1>6, ConcatProperties
    <2>2. \A i \in 1 .. m + n : c[i] = (a \o b)[i]
      <3>. TAKE i \in 1 .. m + n
      <3>1. CASE i <= m
        <4>1. i \in 1 .. m
          BY <1>1, <3>1
        <4>. QED
          BY <1>4, <2>1, <3>1, <4>1 DEF a, c
      <3>2. CASE ~(i <= m)
        <4>1. i - m \in 1 .. n /\ m + (i - m) = i
          BY <1>1, <3>2
        <4>. QED
          BY <1>5, <2>1, <3>2, <4>1 DEF b, c
      <3>. QED
        BY <3>1, <3>2
    <2>. QED
      BY <1>6, <2>1, <2>2, SeqEqual
  <1>. QED
    BY <1>6, <1>7 DEF a, b, c

(* How many records are whole on the card, and who is about to buffer one. *)
Written == Cardinality(Whole)
Sending == \E p \in Producers : prod[p].at = "send"

(* The stream has a place with the writer from when it is opened until it is  *)
(* closed, and no file before.                                                *)
OwnerShape ==
    /\ writer.registered <=> owner.at \in {"open", "flushing", "closing"}
    /\ writer.at # "idle" => writer.registered
    /\ writer.at = "open" => ~writer.open
    /\ owner.at \in {"none", "opening"} => files = <<>>

(* What is on the card are the first records; what was accepted is there, or  *)
(* in the buffer, or about to be, each once.                                  *)
CountShape ==
    /\ Whole = 1 .. Written /\ Written <= accepted
    /\ \A p \in Producers : prod[p].at = "send" => prod[p].id = accepted
    /\ ~stream.failed =>
        accepted = Written + Cardinality(EndsOf(buffer)) + IF Sending THEN 1 ELSE 0

NumberShape ==
    ~stream.failed => \A k \in EndsOf(buffer) : buffer[k].id = Written + Cardinality(UpTo(buffer, k))

(* The buffer ends with a record, and a file that is let go of does.          *)
EndShape ==
    ~stream.failed =>
        /\ buffer # <<>> => buffer[Len(buffer)].left = 0
        /\ buffer = <<>> => ~Begun
        /\ ~writer.open /\ writer.registered => ~Begun

(* A rotation point is between two records. *)
BetweenRecords(point) ==
    /\ point >= writer.drained
    /\ point = writer.drained => ~Begun
    /\ point > writer.drained /\ point <= End => buffer[point - writer.drained].left = 0
    /\ point <= End \/ point = stream.total

PointShape ==
    ~stream.failed => \A i \in 1 .. Len(stream.points) : BetweenRecords(stream.points[i])

RecordShape == CountShape /\ NumberShape /\ EndShape /\ PointShape

RecordInv == OwnerShape /\ RecordShape

-----------------------------------------------------------------------------
LEMMA WrittenIsNat ==
    IInv => Whole \subseteq 1 .. MaxRecords /\ IsFiniteSet(Whole) /\ Written \in Nat
  <1>. SUFFICES ASSUME IInv PROVE Whole \subseteq 1 .. MaxRecords /\ IsFiniteSet(Whole) /\ Written \in Nat
    OBVIOUS
  <1>1. files \in Seq(Files)
    BY Types DEF IInv
  <1>2. ASSUME NEW i \in DOMAIN files, NEW k \in EndsOf(files[i].bytes)
        PROVE  files[i].bytes[k].id \in 1 .. MaxRecords
    <2>1. files[i] \in Files
      BY <1>1, <1>2, ElementOfSeq, LenProperties
    <2>2. files[i].bytes \in Seq(Bytes)
      BY <2>1 DEF Files
    <2>3. k \in 1 .. Len(files[i].bytes)
      BY <1>2, <2>2, EndsAreFinite
    <2>4. files[i].bytes[k] \in Bytes
      BY <2>2, <2>3, ElementOfSeq
    <2>. QED
      BY <2>4 DEF Bytes
  <1>3. Whole \subseteq 1 .. MaxRecords
    BY <1>2 DEF Whole
  <1>4. IsFiniteSet(1 .. MaxRecords)
    BY Constants, FS_Interval
  <1>5. IsFiniteSet(Whole)
    BY <1>3, <1>4, FS_Subset
  <1>. QED
    BY <1>3, <1>5, FS_CardinalityType DEF Written

LEMMA WrittenWillBeNat == IInv' => Written' \in Nat
  <1>1. (IInv => Written \in Nat)'
    BY WrittenIsNat, PTL
  <1>. QED
    BY <1>1

-----------------------------------------------------------------------------
LEMMA OwnerShapeKept ==
    ASSUME IInv, [Next]_vars, OwnerShape
    PROVE  OwnerShape'
  <1>0. writer \in Writers /\ owner \in Owners /\ files \in Seq(Files) /\ stream \in Streams
    BY Types DEF IInv
  <1>1. CASE UNCHANGED <<writer, owner, files>>
    BY <1>1 DEF OwnerShape
  <1>2. CASE Asks
    BY <1>2 DEF Asks, Ask, OwnerShape
  <1>3. CASE Register
    <2>1. /\ writer.at = "idle" /\ owner.at = "opening" /\ files' = files
          /\ \/ writer' = [writer EXCEPT !.registered = TRUE] /\ owner' = [owner EXCEPT !.at = "open"]
             \/ writer' = writer /\ owner' = [owner EXCEPT !.at = "none"]
      BY <1>3 DEF Register
    <2>2. owner'.at \in {"open", "none"} /\ (owner'.at = "open" <=> writer' # writer \/ writer.registered)
          /\ writer'.at = "idle" /\ (writer'.registered <=> owner'.at = "open")
      BY <1>0, <2>1 DEF OwnerShape, Writers, Owners
    <2>. QED
      BY <2>1, <2>2 DEF OwnerShape
  <1>4. CASE Look
    BY <1>0, <1>4 DEF Look, OwnerShape, Writers
  <1>5. CASE Turns
    BY <1>0, <1>5 DEF Turns, OwnerShape, Writers
  <1>6. CASE Limit
    BY <1>0, <1>6 DEF Limit, OwnerShape, Writers
  <1>7. CASE Opens
    BY <1>0, <1>7 DEF Opens, OwnerShape, Writers
  <1>8. ASSUME NEW size \in Nat, Pieces(size) PROVE OwnerShape'
    <2>1. /\ writer.at = "write" /\ files # <<>> /\ owner' = owner
          /\ writer'.at = "loop" /\ writer'.registered = writer.registered
      BY <1>0, <1>8 DEF Pieces, Writers
    <2>. QED
      BY <2>1 DEF OwnerShape
  <1>9. CASE Serves
    BY <1>0, <1>9 DEF Serves, Over, OwnerShape, Writers
  <1>10. CASE Answer
    <2>1. Commanded
      BY <1>10 DEF Answer, FlushShape, IInv
    <2>2. files' = files
      BY <1>10 DEF Answer
    <2>3. CASE owner.at = "flushing"
      <3>0. writer' = [writer EXCEPT !.at = "idle", !.force = FALSE] /\ owner' = [at |-> "open", upTo |-> 0]
        BY <1>10, <2>3 DEF Answer
      <3>1. writer'.at = "idle" /\ writer'.registered = writer.registered /\ owner'.at = "open"
        BY <1>0, <3>0 DEF Writers
      <3>. QED
        BY <2>2, <2>3, <3>1 DEF OwnerShape
    <2>4. CASE owner.at # "flushing"
      <3>1. writer'.at = "idle" /\ ~writer'.registered /\ owner'.at = "closed"
        BY <1>0, <1>10, <2>4 DEF Answer, NotOpen
      <3>. QED
        BY <2>1, <2>2, <2>4, <3>1 DEF OwnerShape, Commanded
    <2>. QED
      BY <2>3, <2>4
  <1>11. CASE Breaks
    BY <1>0, <1>11 DEF Breaks, FailAt, Over, Serving, OwnerShape, Writers
  <1>12. ASSUME NEW p \in Producers, Quiet(p) PROVE UNCHANGED <<writer, owner, files>>
    BY <1>12, QuietStays DEF IInv
  <1>13. ASSUME NEW p \in Producers, Account(p) \/ Send(p) PROVE UNCHANGED <<writer, owner, files>>
    BY <1>13 DEF Account, Send, WriterSide
  <1>. QED
    BY <1>1, <1>2, <1>3, <1>4, <1>5, <1>6, <1>7, <1>8, <1>9, <1>10, <1>11, <1>12, <1>13, Steps
      DEF vars, Rotate, WriterSide, WriterStep

(* Steps that leave the records where they are. *)
LEMMA StillCounts ==
    ASSUME CountShape, NumberShape, files' = files, accepted' = accepted,
           \A p \in Producers : prod'[p].at = "send" <=> prod[p].at = "send",
           \A p \in Producers : prod'[p].at = "send" => prod'[p].id = prod[p].id,
           ~stream'.failed => ~stream.failed /\ buffer' = buffer
    PROVE  CountShape' /\ NumberShape' /\ Written' = Written /\ WholeFiles' = WholeFiles /\ Begun' = Begun
  <1>1. Whole' = Whole /\ Written' = Written /\ WholeFiles' = WholeFiles /\ Begun' = Begun
    BY DEF Whole, Written, WholeFiles, Begun
  <1>2. Sending' <=> Sending
    BY DEF Sending
  <1>3. CASE stream'.failed
    BY <1>1, <1>3 DEF CountShape, NumberShape
  <1>4. CASE ~stream'.failed
    <2>1. ~stream.failed /\ EndsOf(buffer)' = EndsOf(buffer) /\ buffer' = buffer
          /\ \A k \in EndsOf(buffer) : UpTo(buffer, k)' = UpTo(buffer, k)
      BY <1>4
    <2>2. CountShape'
      BY <1>1, <1>2, <2>1 DEF CountShape
    <2>3. NumberShape'
      BY <1>1, <2>1 DEF NumberShape
    <2>. QED
      BY <1>1, <2>2, <2>3
  <1>. QED
    BY <1>3, <1>4, <1>1

LEMMA BasicTypes ==
    IInv => /\ stream \in Streams /\ prod \in [Producers -> Writes] /\ writer \in Writers
            /\ files \in Seq(Files) /\ buffer \in Seq(Bytes)
            /\ stream.points \in Seq(Nat) /\ Len(stream.points) \in Nat /\ stream.total \in Nat
            /\ \A i \in 1 .. Len(stream.points) : stream.points[i] \in Nat
            /\ Len(buffer) \in Nat /\ writer.drained \in Nat /\ End \in Nat
            /\ Cardinality(EndsOf(buffer)) \in Nat /\ accepted \in Nat
  <1>. SUFFICES ASSUME IInv
                PROVE  /\ stream \in Streams /\ prod \in [Producers -> Writes] /\ writer \in Writers
                       /\ files \in Seq(Files) /\ buffer \in Seq(Bytes)
                       /\ stream.points \in Seq(Nat) /\ Len(stream.points) \in Nat /\ stream.total \in Nat
                       /\ \A i \in 1 .. Len(stream.points) : stream.points[i] \in Nat
                       /\ Len(buffer) \in Nat /\ writer.drained \in Nat /\ End \in Nat
                       /\ Cardinality(EndsOf(buffer)) \in Nat /\ accepted \in Nat
    OBVIOUS
  <1>1. /\ stream \in Streams /\ prod \in [Producers -> Writes] /\ writer \in Writers
        /\ files \in Seq(Files) /\ buffer \in Seq(Bytes) /\ accepted \in 0 .. MaxRecords
    BY Types DEF IInv
  <1>2. stream.points \in Seq(Nat) /\ stream.total \in Nat /\ writer.drained \in Nat
    BY <1>1 DEF Streams, Writers
  <1>3. Len(stream.points) \in Nat /\ \A i \in 1 .. Len(stream.points) : stream.points[i] \in Nat
    BY <1>2, LenProperties, ElementOfSeq
  <1>4. Len(buffer) \in Nat /\ Cardinality(EndsOf(buffer)) \in Nat
    BY <1>1, LenProperties, EndsAreFinite
  <1>. QED
    BY <1>1, <1>2, <1>3, <1>4, Constants DEF End

(* Where the producers have counted to is between two records. *)
LEMMA TotalIsBetween ==
    ASSUME IInv, EndShape, ~stream.failed
    PROVE  BetweenRecords(stream.total)
  <1>1. Len(buffer) \in Nat /\ writer.drained \in Nat /\ stream.total \in Nat
        /\ prod \in [Producers -> Writes]
    BY BasicTypes
  <1>2. stream.total >= End
    <2>1. CASE \E p \in Producers : prod[p].at = "send"
      <3>1. PICK p \in Producers : prod[p].at = "send"
        BY <2>1
      <3>2. prod[p].size \in Nat
        BY <1>1, SizeIsNat
      <3>3. stream.total = End + prod[p].size
        BY <3>1 DEF Balance, IInv
      <3>. QED
        BY <1>1, <3>2, <3>3 DEF End
    <2>2. CASE \A p \in Producers : prod[p].at # "send"
      <3>1. stream.total = End
        BY <2>2 DEF Balance, IInv
      <3>. QED
        BY <1>1, <3>1 DEF End
    <2>. QED
      BY <2>1, <2>2
  <1>3. stream.total >= writer.drained
    BY <1>1, <1>2 DEF End
  <1>4. stream.total = writer.drained => ~Begun
    <2>. SUFFICES ASSUME stream.total = writer.drained PROVE ~Begun
      OBVIOUS
    <2>1. Len(buffer) = 0
      BY <1>1, <1>2 DEF End
    <2>2. buffer = <<>>
      BY <2>1, BasicTypes, EmptySeq
    <2>. QED
      BY <2>2 DEF EndShape
  <1>5. stream.total > writer.drained /\ stream.total <= End => buffer[stream.total - writer.drained].left = 0
    <2>. SUFFICES ASSUME stream.total > writer.drained, stream.total <= End
                  PROVE  buffer[stream.total - writer.drained].left = 0
      OBVIOUS
    <2>1. stream.total - writer.drained = Len(buffer) /\ Len(buffer) # 0
      BY <1>1, <1>2 DEF End
    <2>2. buffer # <<>>
      BY <2>1, EmptySeq
    <2>. QED
      BY <2>1, <2>2 DEF EndShape
  <1>. QED
    BY <1>3, <1>4, <1>5 DEF BetweenRecords

(* The points of before and one more, or one less. *)
LEMMA PointsStayBetween ==
    ASSUME IInv, EndShape, PointShape, ~stream.failed,
           \A point \in Nat : BetweenRecords(point) => BetweenRecords(point)',
           \/ stream'.points = stream.points
           \/ stream'.points = Append(stream.points, stream.total)
           \/ stream.points # <<>> /\ stream'.points = Tail(stream.points)
    PROVE  PointShape'
  <1>1. stream.points \in Seq(Nat) /\ Len(stream.points) \in Nat /\ stream.total \in Nat
        /\ \A i \in 1 .. Len(stream.points) : stream.points[i] \in Nat /\ BetweenRecords(stream.points[i])
    BY BasicTypes DEF PointShape
  <1>2. BetweenRecords(stream.total)
    BY TotalIsBetween
  <1>3. \A i \in 1 .. Len(stream'.points) : stream'.points[i] \in Nat /\ BetweenRecords(stream'.points[i])
    <2>1. CASE stream'.points = stream.points
      BY <1>1, <2>1
    <2>2. CASE stream'.points = Append(stream.points, stream.total)
      <3>1. /\ Len(stream'.points) = Len(stream.points) + 1
            /\ \A i \in 1 .. Len(stream.points) : stream'.points[i] = stream.points[i]
            /\ stream'.points[Len(stream.points) + 1] = stream.total
        BY <1>1, <2>2, AppendProperties
      <3>. TAKE i \in 1 .. Len(stream'.points)
      <3>2. i \in 1 .. Len(stream.points) \/ i = Len(stream.points) + 1
        BY <1>1, <3>1
      <3>. QED
        BY <1>1, <1>2, <3>1, <3>2
    <2>3. CASE stream.points # <<>> /\ stream'.points = Tail(stream.points)
      <3>1. /\ Len(stream'.points) = Len(stream.points) - 1
            /\ \A i \in 1 .. Len(stream'.points) : stream'.points[i] = stream.points[i + 1]
        BY <1>1, <2>3, HeadTailProperties
      <3>2. \A i \in 1 .. Len(stream'.points) : i + 1 \in 1 .. Len(stream.points)
        BY <1>1, <3>1
      <3>. QED
        BY <1>1, <3>1, <3>2
    <2>. QED
      BY <2>1, <2>2, <2>3
  <1>4. ASSUME NEW i \in 1 .. Len(stream'.points) PROVE BetweenRecords(stream.points[i])'
    <2>1. PICK point \in Nat : point = stream'.points[i] /\ BetweenRecords(point)
      BY <1>3
    <2>2. BetweenRecords(point)'
      BY <2>1
    <2>. QED
      BY <2>1, <2>2 DEF BetweenRecords
  <1>. QED
    BY <1>4 DEF PointShape

(* Steps that leave the records where they are keep all of it. *)
LEMMA StillKeeps ==
    ASSUME IInv, RecordShape, files' = files, accepted' = accepted,
           \A p \in Producers : prod'[p].at = "send" <=> prod[p].at = "send",
           \A p \in Producers : prod'[p].at = "send" => prod'[p].id = prod[p].id,
           ~stream'.failed =>
              /\ ~stream.failed /\ buffer' = buffer /\ writer'.drained = writer.drained
              /\ stream'.total = stream.total
              /\ ~writer'.open /\ writer'.registered => ~Begun
              /\ \/ stream'.points = stream.points
                 \/ stream'.points = Append(stream.points, stream.total)
                 \/ stream.points # <<>> /\ stream'.points = Tail(stream.points)
    PROVE  RecordShape'
  <1>1. CountShape' /\ NumberShape' /\ Begun' = Begun
    BY StillCounts DEF RecordShape
  <1>2. CASE stream'.failed
    BY <1>1, <1>2 DEF RecordShape, EndShape, PointShape
  <1>3. CASE ~stream'.failed
    <2>1. EndShape'
      BY <1>1, <1>3 DEF RecordShape, EndShape
    <2>2. \A point \in Nat : BetweenRecords(point) => BetweenRecords(point)'
      BY <1>1, <1>3 DEF BetweenRecords, End
    <2>3. PointShape'
      BY <1>3, <2>2, PointsStayBetween DEF RecordShape
    <2>. QED
      BY <1>1, <2>1, <2>3 DEF RecordShape
  <1>. QED
    BY <1>2, <1>3

LEMMA QuietKeepsRecords ==
    ASSUME IInv, RecordShape, NEW p \in Producers, Quiet(p)
    PROVE  RecordShape'
  <1>1. /\ UNCHANGED <<buffer, accepted, turns, writer, owner, files>>
        /\ stream'.total = stream.total /\ stream'.failed = stream.failed /\ stream'.points = stream.points
        /\ \A q \in Producers : prod'[q].at = "send" <=> prod[q].at = "send"
        /\ \A q \in Producers : prod'[q].at = "send" => prod'[q] = prod[q]
    BY QuietStays DEF IInv
  <1>. QED
    BY <1>1, StillKeeps DEF RecordShape, EndShape

LEMMA RotateKeepsRecords ==
    ASSUME IInv, RecordShape, Rotate
    PROVE  RecordShape'
  <1>1. stream \in Streams
    BY BasicTypes
  <1>2. UNCHANGED <<buffer, prod, accepted, writer, files>>
    BY DEF Rotate, WriterSide
  <1>3. /\ stream'.total = stream.total /\ stream'.failed = stream.failed
        /\ stream'.points = stream.points \/ stream'.points = Append(stream.points, stream.total)
    BY <1>1 DEF Rotate, Streams
  <1>. QED
    BY <1>2, <1>3, StillKeeps DEF RecordShape, EndShape

(* A file is let go of at a point, between two records. *)
LEMMA TurnsKeepsRecords ==
    ASSUME IInv, RecordShape, Turns
    PROVE  RecordShape'
  <1>1. stream \in Streams /\ writer \in Writers /\ stream.points \in Seq(Nat)
        /\ Len(stream.points) \in Nat /\ writer.drained \in Nat
    BY BasicTypes
  <1>2. /\ UNCHANGED <<buffer, prod, accepted, files>>
        /\ stream.points # <<>> /\ Head(stream.points) <= writer.drained
        /\ writer.at = "loop"
    BY DEF Turns, ProducerSide
  <1>3. /\ stream'.total = stream.total /\ stream'.failed = stream.failed
        /\ stream'.points = Tail(stream.points) /\ writer'.drained = writer.drained
    BY <1>1 DEF Turns, Streams, Writers
  <1>4. ~stream.failed
    BY <1>2 DEF WriterShape, Serving, IInv
  <1>5. ~Begun
    <2>1. 1 \in 1 .. Len(stream.points) /\ Head(stream.points) = stream.points[1] /\ stream.points[1] \in Nat
      BY <1>1, <1>2, EmptySeq, HeadTailProperties, ElementOfSeq
    <2>2. BetweenRecords(stream.points[1])
      BY <1>4, <2>1 DEF RecordShape, PointShape
    <2>3. stream.points[1] = writer.drained
      BY <1>1, <1>2, <2>1, <2>2 DEF BetweenRecords
    <2>. QED
      BY <2>2, <2>3 DEF BetweenRecords
  <1>. QED
    BY <1>2, <1>3, <1>4, <1>5, StillKeeps

(* The other steps of the writer that move no byte. *)
LEMMA WriterKeepsRecords ==
    ASSUME IInv, OwnerShape, RecordShape,
           Asks \/ Register \/ Look \/ Limit \/ Serves \/ Answer \/ Breaks
    PROVE  RecordShape'
  <1>0. stream \in Streams /\ writer \in Writers /\ stream.points \in Seq(Nat)
    BY BasicTypes
  <1>1. UNCHANGED <<prod, accepted, files>>
    BY DEF Asks, Ask, Register, Look, Limit, Serves, Answer, Breaks, ProducerSide
  <1>2. CASE stream'.failed
    BY <1>1, <1>2, StillKeeps
  <1>3. CASE ~stream'.failed
    <2>1. ~Breaks
      <3>1. stream.points # <<>> => Tail(stream.points) \in Seq(Nat)
        BY <1>0, HeadTailProperties
      <3>. QED
        BY <1>0, <1>3, <3>1, FailTypes DEF Breaks, IInv
    <2>2. /\ stream'.total = stream.total /\ stream'.failed = stream.failed
          /\ stream'.points = stream.points
      <3>1. stream' = stream \/ stream' = Released(stream)
        BY <2>1 DEF Asks, Ask, Register, Look, Limit, Serves, Answer
      <3>. QED
        BY <3>1, ReleasedTypes DEF IInv
    <2>3. buffer' = buffer
      BY <1>3, <2>1, <2>2 DEF Asks, Ask, Register, Look, Limit, Serves, Answer
    <2>4. /\ writer'.drained = writer.drained
          /\ (writer'.open <=> writer.open) \/ ~writer'.registered
          /\ (writer'.registered <=> writer.registered) \/ files = <<>> \/ ~writer'.registered
      <3>1. CASE Asks
        BY <3>1 DEF Asks, Ask
      <3>2. CASE Register
        BY <1>0, <3>2 DEF Register, OwnerShape, Writers
      <3>3. CASE Look
        BY <1>0, <3>3 DEF Look, Writers
      <3>4. CASE Limit
        BY <1>0, <3>4 DEF Limit, Writers
      <3>5. CASE Serves
        BY <1>0, <3>5 DEF Serves, Writers
      <3>6. CASE Answer
        <4>1. CASE owner.at = "flushing"
          <5>1. writer' = [writer EXCEPT !.at = "idle", !.force = FALSE]
            BY <3>6, <4>1 DEF Answer
          <5>. QED
            BY <1>0, <5>1 DEF Writers
        <4>2. CASE owner.at # "flushing"
          BY <3>6, <4>2 DEF Answer, NotOpen
        <4>. QED
          BY <4>1, <4>2
      <3>. QED
        BY <2>1, <3>1, <3>2, <3>3, <3>4, <3>5, <3>6
    <2>5. ~writer'.open /\ writer'.registered => ~Begun
      BY <1>3, <2>2, <2>4 DEF RecordShape, EndShape, Begun
    <2>. QED
      BY <1>1, <1>3, <2>2, <2>3, <2>4, <2>5, StillKeeps
  <1>. QED
    BY <1>2, <1>3

(* A record that is accepted takes the next number. *)
LEMMA AccountKeepsRecords ==
    ASSUME IInv, RecordShape, NEW p \in Producers, Account(p)
    PROVE  RecordShape' /\ WholeFiles' = WholeFiles /\ Begun' = Begun /\ Written' = Written
  <1>0. /\ stream \in Streams /\ prod \in [Producers -> Writes] /\ prod[p] \in Writes /\ Written \in Nat
        /\ accepted \in Nat /\ Cardinality(EndsOf(buffer)) \in Nat /\ End \in Nat
        /\ stream.total \in Nat
    BY BasicTypes, WrittenIsNat
  <1>1. /\ prod[p].at = "room" /\ accepted' = accepted + 1
        /\ UNCHANGED <<buffer, writer, files>>
    BY DEF Account, Accepted, WriterSide
  <1>2. \A q \in Producers : prod[q].at # "send"
    BY <1>1, OneSender DEF Holding
  <1>3. /\ prod'[p].at = "send" /\ prod'[p].id = accepted'
        /\ \A q \in Producers \ {p} : prod'[q] = prod[q]
    BY <1>0 DEF Account, Accepted, Writes
  <1>4. /\ stream'.failed = stream.failed
        /\ stream'.points = stream.points \/ stream'.points = Append(stream.points, stream.total)
    BY <1>0 DEF Account, Streams
  <1>5. Whole' = Whole /\ Written' = Written /\ WholeFiles' = WholeFiles /\ Begun' = Begun
    BY <1>1 DEF Whole, Written, WholeFiles, Begun
  <1>6. CountShape'
    <2>1. ~Sending /\ Sending'
      BY <1>2, <1>3 DEF Sending
    <2>2. Written <= accepted /\ (~stream.failed => accepted = Written + Cardinality(EndsOf(buffer)))
      BY <1>0, <2>1 DEF RecordShape, CountShape
    <2>3. EndsOf(buffer)' = EndsOf(buffer)
      BY <1>1
    <2>4. \A q \in Producers : prod'[q].at = "send" => prod'[q].id = accepted'
      BY <1>2, <1>3
    <2>5. Written <= accepted' /\ (~stream.failed => accepted' = Written + Cardinality(EndsOf(buffer)) + 1)
      BY <1>0, <1>1, <2>2
    <2>. QED
      BY <1>4, <1>5, <2>1, <2>3, <2>4, <2>5 DEF RecordShape, CountShape
  <1>7. NumberShape'
    BY <1>1, <1>4, <1>5 DEF RecordShape, NumberShape, UpTo, EndsOf
  <1>8. EndShape'
    BY <1>1, <1>4, <1>5 DEF RecordShape, EndShape
  <1>9. PointShape'
    <2>1. CASE stream.failed
      BY <1>4, <2>1 DEF PointShape
    <2>2. CASE ~stream.failed
      <3>1. stream.total = End
        BY <1>2, <2>2 DEF Balance, IInv
      <3>2. \A point \in Nat : BetweenRecords(point) => BetweenRecords(point)'
        BY <1>0, <1>1, <1>5, <3>1 DEF BetweenRecords, End
      <3>. QED
        BY <1>4, <2>2, <3>2, PointsStayBetween DEF RecordShape
    <2>. QED
      BY <2>1, <2>2
  <1>. QED
    BY <1>5, <1>6, <1>7, <1>8, <1>9 DEF RecordShape

(* It goes to the end of the buffer, whole. *)
LEMMA RecordEndsOnce ==
    ASSUME IInv, NEW p \in Producers, prod[p].at = "send"
    PROVE  /\ RecordOf(p) \in Seq(Bytes) /\ prod[p].size \in Nat \ {0} /\ Len(RecordOf(p)) = prod[p].size
           /\ EndsOf(RecordOf(p)) = {prod[p].size} /\ RecordOf(p)[prod[p].size].id = prod[p].id
           /\ UpTo(RecordOf(p), prod[p].size) = {prod[p].size}
  <1>1. prod[p].size \in Sizes
    BY DEF ProducerShape, IInv
  <1>2. prod[p].size \in Nat \ {0}
    BY <1>1, WriterAssumption
  <1>3. /\ RecordOf(p) \in Seq(Bytes) /\ Len(RecordOf(p)) = prod[p].size
        /\ \A i \in 1 .. prod[p].size : RecordOf(p)[i].id = prod[p].id
    BY RecordIs
  <1>4. \A i \in 1 .. prod[p].size : RecordOf(p)[i].left = prod[p].size - i
    BY DEF RecordOf
  <1>5. DOMAIN RecordOf(p) = 1 .. prod[p].size
    BY DEF RecordOf
  <1>6. EndsOf(RecordOf(p)) = {prod[p].size}
    BY <1>2, <1>4, <1>5 DEF EndsOf
  <1>7. UpTo(RecordOf(p), prod[p].size) = {prod[p].size}
    BY <1>2, <1>6 DEF UpTo
  <1>. QED
    BY <1>2, <1>3, <1>6, <1>7

LEMMA SendKeepsRecords ==
    ASSUME IInv, RecordShape, NEW p \in Producers, Send(p)
    PROVE  RecordShape'
  <1>. DEFINE record == RecordOf(p)
              size == prod[p].size
  <1>0. /\ stream \in Streams /\ prod \in [Producers -> Writes] /\ Written \in Nat
        /\ accepted \in Nat /\ Cardinality(EndsOf(buffer)) \in Nat /\ End \in Nat /\ Len(buffer) \in Nat
        /\ stream.total \in Nat /\ buffer \in Seq(Bytes) /\ writer.drained \in Nat
    BY BasicTypes, WrittenIsNat
  <1>1. prod[p].at = "send" /\ UNCHANGED <<accepted, writer, files>>
    BY DEF Send, WriterSide
  <1>2. /\ stream'.failed = stream.failed /\ stream'.total = stream.total
        /\ stream'.points = stream.points /\ prod' = [prod EXCEPT ![p] = NotWriting]
    BY <1>0 DEF Send, Release, Return, Streams
  <1>3. \A q \in Producers : prod'[q].at # "send"
    BY <1>0, <1>1, <1>2, OneSender DEF Holding, NotWriting
  <1>4. /\ record \in Seq(Bytes) /\ size \in Nat \ {0} /\ Len(record) = size
        /\ EndsOf(record) = {size} /\ record[size].id = prod[p].id /\ UpTo(record, size) = {size}
    BY <1>1, RecordEndsOnce
  <1>5. buffer' = buffer \o record
    BY SendEffect
  <1>. HIDE DEF record, size
  <1>6. /\ buffer' \in Seq(Bytes) /\ Len(buffer') = Len(buffer) + size
        /\ \A i \in 1 .. Len(buffer) + size : buffer'[i] = IF i <= Len(buffer) THEN buffer[i] ELSE record[i - Len(buffer)]
    BY <1>0, <1>4, <1>5, ConcatProperties
  <1>7. /\ EndsOf(buffer') = EndsOf(buffer) \cup Behind(Len(buffer), EndsOf(record))
        /\ Cardinality(EndsOf(buffer')) = Cardinality(EndsOf(buffer)) + Cardinality(EndsOf(record))
        /\ \A k \in EndsOf(buffer) : buffer'[k] = buffer[k] /\ UpTo(buffer', k) = UpTo(buffer, k)
        /\ \A k \in EndsOf(record) :
             /\ buffer'[Len(buffer) + k] = record[k]
             /\ Cardinality(UpTo(buffer', Len(buffer) + k)) = Cardinality(EndsOf(buffer)) + Cardinality(UpTo(record, k))
    <2>. DEFINE both == buffer \o record
    <2>1. /\ EndsOf(both) = EndsOf(buffer) \cup Behind(Len(buffer), EndsOf(record))
          /\ Cardinality(EndsOf(both)) = Cardinality(EndsOf(buffer)) + Cardinality(EndsOf(record))
          /\ \A k \in EndsOf(buffer) : both[k] = buffer[k] /\ UpTo(both, k) = UpTo(buffer, k)
          /\ \A k \in EndsOf(record) :
               /\ both[Len(buffer) + k] = record[k]
               /\ Cardinality(UpTo(both, Len(buffer) + k)) = Cardinality(EndsOf(buffer)) + Cardinality(UpTo(record, k))
      BY <1>0, <1>4, EndsOfBoth
    <2>2. buffer' = both
      BY <1>5
    <2>. HIDE DEF both
    <2>. QED
      BY <2>1, <2>2
  <1>8. Cardinality({size}) = 1
    BY FS_Singleton
  <1>9. /\ EndsOf(buffer') = EndsOf(buffer) \cup {Len(buffer) + size}
        /\ Cardinality(EndsOf(buffer')) = Cardinality(EndsOf(buffer)) + 1
        /\ buffer'[Len(buffer) + size] = record[size]
        /\ Cardinality(UpTo(buffer', Len(buffer) + size)) = Cardinality(EndsOf(buffer)) + 1
    BY <1>4, <1>7, <1>8 DEF Behind
  <1>10. Whole' = Whole /\ Written' = Written /\ Begun' = Begun
    BY <1>1 DEF Whole, Written, Begun
  <1>11. Sending /\ ~Sending'
    BY <1>1, <1>3 DEF Sending
  <1>12. ~stream.failed => accepted = Written + Cardinality(EndsOf(buffer)) + 1
    BY <1>11 DEF RecordShape, CountShape
  <1>13. CountShape'
    <2>1. ~stream.failed => accepted = Written + Cardinality(EndsOf(buffer'))
      BY <1>0, <1>9, <1>12
    <2>2. EndsOf(buffer)' = EndsOf(buffer')
      OBVIOUS
    <2>3. ~stream.failed => accepted = Written + Cardinality(EndsOf(buffer)') + 0
      BY <1>0, <2>1
    <2>. QED
      BY <1>1, <1>2, <1>3, <1>10, <1>11, <2>3 DEF RecordShape, CountShape
  <1>14. NumberShape'
    <2>. SUFFICES ASSUME ~stream.failed, NEW k \in EndsOf(buffer')
                  PROVE  buffer'[k].id = Written + Cardinality(UpTo(buffer', k))
      BY <1>2, <1>10 DEF NumberShape
    <2>1. CASE k \in EndsOf(buffer)
      BY <1>7, <2>1 DEF RecordShape, NumberShape
    <2>2. CASE k = Len(buffer) + size
      <3>1. buffer'[k].id = accepted
        BY <1>1, <1>4, <1>9, <2>2 DEF RecordShape, CountShape
      <3>. QED
        BY <1>0, <1>9, <1>12, <2>2, <3>1
    <2>. QED
      BY <1>9, <2>1, <2>2
  <1>15. buffer'[Len(buffer')].left = 0 /\ buffer' # <<>>
    <2>1. Len(buffer') \in EndsOf(buffer')
      BY <1>6, <1>9
    <2>. QED
      BY <1>0, <1>4, <1>6, <2>1, EmptySeq DEF EndsOf
  <1>16. EndShape'
    BY <1>1, <1>2, <1>10, <1>15 DEF RecordShape, EndShape
  <1>17. PointShape'
    <2>1. CASE stream.failed
      BY <1>2, <2>1 DEF PointShape
    <2>2. CASE ~stream.failed
      <3>1. stream.total = End + prod[p].size /\ stream.total = End' /\ writer'.drained = writer.drained
        <4>1. stream.total = End + prod[p].size
          BY <1>1, <2>2 DEF Balance, IInv
        <4>2. End' = End + size
          BY <1>0, <1>1, <1>4, <1>6 DEF End
        <4>. QED
          BY <1>1, <4>1, <4>2 DEF size
      <3>2. ASSUME NEW point \in Nat, BetweenRecords(point) PROVE BetweenRecords(point)'
        <4>1. point <= End \/ point = End'
          BY <3>1, <3>2 DEF BetweenRecords
        <4>2. point <= End'
          BY <1>0, <1>1, <1>4, <1>6, <4>1 DEF End
        <4>3. ASSUME point > writer.drained PROVE buffer'[point - writer.drained].left = 0
          <5>1. CASE point <= End
            <6>1. point - writer.drained \in 1 .. Len(buffer)
              BY <1>0, <4>3, <5>1 DEF End
            <6>2. buffer[point - writer.drained].left = 0
              BY <3>2, <4>3, <5>1 DEF BetweenRecords
            <6>3. point - writer.drained \in EndsOf(buffer)
              BY <1>0, <6>1, <6>2, LenProperties DEF EndsOf
            <6>. QED
              BY <1>7, <6>2, <6>3
          <5>2. CASE point = End'
            <6>1. point - writer.drained = Len(buffer')
              BY <1>0, <1>1, <1>4, <1>6, <5>2 DEF End
            <6>. QED
              BY <1>15, <6>1
          <5>. QED
            BY <4>1, <5>1, <5>2
        <4>. QED
          BY <1>10, <3>1, <3>2, <4>2, <4>3 DEF BetweenRecords
      <3>. QED
        BY <1>2, <2>2, <3>2, PointsStayBetween DEF RecordShape
    <2>. QED
      BY <2>1, <2>2
  <1>. QED
    BY <1>13, <1>14, <1>16, <1>17 DEF RecordShape

(* The files of before, with none or with more in the last one. *)
LEMMA OpensKeepsRecords ==
    ASSUME IInv, OwnerShape, RecordShape, Opens
    PROVE  /\ RecordShape' /\ ~stream.failed /\ ~Begun /\ ~Begun'
           /\ WholeFiles' = Append(WholeFiles, <<>>) /\ Written' = Written
  <1>0. /\ stream \in Streams /\ writer \in Writers /\ files \in Seq(Files) /\ Len(files) \in Nat
        /\ stream.points \in Seq(Nat)
    BY BasicTypes, LenProperties
  <1>. DEFINE file == [turn |-> turns, bytes |-> <<>>]
  <1>1. /\ UNCHANGED <<buffer, owner, prod, accepted>> /\ files' = Append(files, file)
        /\ writer.at = "open"
    BY DEF Opens, ProducerSide
  <1>2. /\ stream'.total = stream.total /\ stream'.failed = stream.failed
        /\ stream'.points = stream.points /\ writer'.drained = writer.drained /\ writer'.open
    BY <1>0 DEF Opens, Streams, Writers
  <1>3. ~stream.failed
    BY <1>1 DEF WriterShape, Serving, IInv
  <1>4. ~Begun
    BY <1>1, <1>3 DEF OwnerShape, RecordShape, EndShape
  <1>5. file.bytes = <<>>
    OBVIOUS
  <1>. HIDE DEF file
  <1>6. /\ Len(files') = Len(files) + 1 /\ files'[Len(files) + 1] = file
        /\ \A i \in 1 .. Len(files) : files'[i] = files[i]
        /\ DOMAIN files' = 1 .. Len(files) + 1 /\ DOMAIN files = 1 .. Len(files)
    BY <1>0, <1>1, AppendProperties, LenProperties
  <1>7. EndsOf(<<>>) = {} /\ Cardinality(EndsOf(<<>>)) = 0
    <2>1. EndsOf(<<>>) = {}
      BY DEF EndsOf
    <2>. QED
      BY <2>1, FS_EmptySet
  <1>8. ~Begun'
    BY <1>0, <1>5, <1>6 DEF Begun, Last
  <1>9. Whole' = Whole /\ Written' = Written
    <2>. DEFINE idsIn(f) == {f.bytes[k].id : k \in EndsOf(f.bytes)}
    <2>1. idsIn(file) = {}
      BY <1>5, <1>7
    <2>2. \A i \in 1 .. Len(files) : idsIn(files'[i]) = idsIn(files[i])
      BY <1>6
    <2>3. Whole = UNION {idsIn(files[i]) : i \in 1 .. Len(files)}
      BY <1>6 DEF Whole
    <2>4. Whole' = UNION {idsIn(files'[i]) : i \in 1 .. Len(files) + 1}
      BY <1>6 DEF Whole
    <2>5. \A i \in 1 .. Len(files) + 1 : i \in 1 .. Len(files) \/ i = Len(files) + 1
      BY <1>0
    <2>6. \A i \in 1 .. Len(files) : i \in 1 .. Len(files) + 1
      BY <1>0
    <2>. HIDE DEF idsIn
    <2>7. Whole' = Whole
      BY <1>6, <2>1, <2>2, <2>3, <2>4, <2>5, <2>6
    <2>. QED
      BY <2>7 DEF Written
  <1>10. WholeFiles' = Append(WholeFiles, <<>>)
    <2>1. WholeRecords(<<>>) = <<>>
      BY <1>7 DEF WholeRecords
    <2>2. WholeFiles = [i \in 1 .. Len(files) |-> WholeRecords(files[i].bytes)]
      BY <1>6 DEF WholeFiles
    <2>3. WholeFiles' = [i \in 1 .. Len(files) + 1 |-> WholeRecords(files'[i].bytes)]
      BY <1>6 DEF WholeFiles
    <2>4. ASSUME NEW i \in 1 .. Len(files) + 1
          PROVE  WholeRecords(files'[i].bytes) = IF i = Len(files) + 1 THEN <<>> ELSE WholeRecords(files[i].bytes)
      <3>1. CASE i = Len(files) + 1
        BY <1>5, <1>6, <2>1, <3>1
      <3>2. CASE i \in 1 .. Len(files)
        BY <1>0, <1>6, <3>2
      <3>. QED
        BY <1>0, <3>1, <3>2
    <2>5. WholeFiles' = [i \in 1 .. Len(files) + 1 |->
                            IF i = Len(files) + 1 THEN <<>> ELSE WholeRecords(files[i].bytes)]
      BY <2>3, <2>4
    <2>6. Len(WholeFiles) = Len(files)
      BY <1>0, <2>2
    <2>7. Append(WholeFiles, <<>>) = [i \in 1 .. Len(WholeFiles) + 1 |->
                            IF i = Len(WholeFiles) + 1 THEN <<>> ELSE WholeFiles[i]]
      BY <1>0, <2>2, <2>6
    <2>8. \A i \in 1 .. Len(files) + 1 : i # Len(files) + 1 => WholeFiles[i] = WholeRecords(files[i].bytes)
      <3>. TAKE i \in 1 .. Len(files) + 1
      <3>1. i # Len(files) + 1 => i \in 1 .. Len(files)
        BY <1>0
      <3>. QED
        BY <2>2, <3>1
    <2>. QED
      BY <2>5, <2>6, <2>7, <2>8
  <1>11. CountShape' /\ NumberShape'
    <2>1. (Sending' <=> Sending) /\ EndsOf(buffer)' = EndsOf(buffer)
          /\ \A k \in EndsOf(buffer) : UpTo(buffer, k)' = UpTo(buffer, k)
      BY <1>1 DEF Sending
    <2>2. CountShape'
      BY <1>1, <1>2, <1>9, <2>1 DEF RecordShape, CountShape
    <2>3. NumberShape'
      BY <1>1, <1>2, <1>9, <2>1 DEF RecordShape, NumberShape
    <2>. QED
      BY <2>2, <2>3
  <1>12. EndShape'
    BY <1>1, <1>2, <1>3, <1>8 DEF RecordShape, EndShape
  <1>13. \A point \in Nat : BetweenRecords(point) => BetweenRecords(point)'
    BY <1>1, <1>2, <1>8 DEF BetweenRecords, End
  <1>14. PointShape'
    BY <1>2, <1>3, <1>13, PointsStayBetween DEF RecordShape
  <1>. QED
    BY <1>3, <1>4, <1>8, <1>9, <1>10, <1>11, <1>12, <1>14 DEF RecordShape

(* A piece: what ends in it is whole now, and those are the next records. *)
LEMMA PieceIsNumbered ==
    ASSUME IInv, RecordShape, NEW size \in Nat, Pieces(size)
    PROVE  LET piece == SubSeq(buffer, 1, size)
               rest  == SubSeq(buffer, size + 1, Len(buffer))
               n     == Cardinality(EndsOf(piece))
           IN  /\ piece \in Seq(Bytes) /\ rest \in Seq(Bytes) /\ buffer = piece \o rest
               /\ Len(piece) = size /\ Len(rest) = Len(buffer) - size /\ size <= Len(buffer)
               /\ \A i \in 1 .. size : piece[i] = buffer[i]
               /\ \A i \in 1 .. Len(buffer) - size : rest[i] = buffer[size + i]
               /\ n \in Nat /\ Cardinality(EndsOf(buffer)) = n + Cardinality(EndsOf(rest))
               /\ Cardinality(EndsOf(rest)) \in Nat
               /\ WholeRecords(piece) = [i \in 1 .. n |-> Written + i]
               /\ {piece[k].id : k \in EndsOf(piece)} = Written + 1 .. Written + n
               /\ \A k \in EndsOf(rest) : rest[k].id = Written + n + Cardinality(UpTo(rest, k))
  <1>. DEFINE piece == SubSeq(buffer, 1, size)
              rest  == SubSeq(buffer, size + 1, Len(buffer))
              n     == Cardinality(EndsOf(piece))
  <1>0. buffer \in Seq(Bytes) /\ Len(buffer) \in Nat /\ Written \in Nat
    BY BasicTypes, WrittenIsNat
  <1>1. size \in 0 .. Len(buffer) /\ ~stream.failed
    BY <1>0 DEF Pieces
  <1>2. /\ piece \in Seq(Bytes) /\ rest \in Seq(Bytes)
        /\ Len(piece) = size /\ Len(rest) = Len(buffer) - size
        /\ \A i \in 1 .. size : piece[i] = buffer[i]
        /\ \A i \in 1 .. Len(buffer) - size : rest[i] = buffer[size + i]
    BY <1>0, <1>1, Split
  <1>3. buffer = piece \o rest
    <2>1. 1 \in 1 .. Len(buffer) + 1 /\ size \in 1 - 1 .. Len(buffer) /\ Len(buffer) \in size .. Len(buffer)
      BY <1>0, <1>1
    <2>2. piece \o rest = SubSeq(buffer, 1, Len(buffer))
      BY <1>0, <2>1, ConcatAdjacentSubSeq
    <2>. QED
      BY <1>0, <2>2, SubSeqFull
  <1>. HIDE DEF piece, rest
  <1>4. /\ EndsOf(buffer) = EndsOf(piece) \cup Behind(size, EndsOf(rest))
        /\ Cardinality(EndsOf(buffer)) = n + Cardinality(EndsOf(rest))
        /\ \A k \in EndsOf(piece) : buffer[k] = piece[k] /\ UpTo(buffer, k) = UpTo(piece, k)
        /\ \A k \in EndsOf(rest) :
             /\ buffer[size + k] = rest[k]
             /\ Cardinality(UpTo(buffer, size + k)) = n + Cardinality(UpTo(rest, k))
    BY <1>2, <1>3, EndsOfBoth
  <1>5. n \in Nat /\ Cardinality(EndsOf(rest)) \in Nat
        /\ \A k \in EndsOf(rest) : Cardinality(UpTo(rest, k)) \in Nat
    BY <1>2, EndsAreFinite
  <1>6. \A k \in EndsOf(buffer) : buffer[k].id = Written + Cardinality(UpTo(buffer, k))
    BY <1>1 DEF RecordShape, NumberShape
  <1>7. \A k \in EndsOf(piece) : piece[k].id = Written + Cardinality(UpTo(piece, k))
    BY <1>4, <1>6
  <1>8. ASSUME NEW k \in EndsOf(rest) PROVE rest[k].id = Written + n + Cardinality(UpTo(rest, k))
    <2>1. size + k \in EndsOf(buffer)
      BY <1>4 DEF Behind
    <2>2. rest[k].id = Written + (n + Cardinality(UpTo(rest, k)))
      BY <1>4, <1>6, <2>1
    <2>3. Cardinality(UpTo(rest, k)) \in Nat
      BY <1>5
    <2>. QED
      BY <1>0, <1>5, <2>2, <2>3
  <1>9. \A i \in 1 .. n : /\ Nth(piece, i) \in EndsOf(piece) /\ Cardinality(UpTo(piece, Nth(piece, i))) = i
                          /\ piece[Nth(piece, i)].id = Written + i
    BY <1>2, <1>7, PlaceHasEnd
  <1>10. WholeRecords(piece) = [i \in 1 .. n |-> Written + i]
    BY <1>9 DEF WholeRecords
  <1>11. {piece[k].id : k \in EndsOf(piece)} = Written + 1 .. Written + n
    <2>1. ASSUME NEW k \in EndsOf(piece) PROVE piece[k].id \in Written + 1 .. Written + n
      <3>1. Cardinality(UpTo(piece, k)) \in 1 .. n
        BY <1>2, EndHasPlace
      <3>2. piece[k].id = Written + Cardinality(UpTo(piece, k))
        BY <1>7
      <3>. HIDE DEF n
      <3>. QED
        BY <1>0, <1>5, <3>1, <3>2
    <2>2. ASSUME NEW id \in Written + 1 .. Written + n PROVE \E k \in EndsOf(piece) : piece[k].id = id
      <3>. HIDE DEF n
      <3>1. id - Written \in 1 .. n /\ Written + (id - Written) = id
        BY <1>0, <1>5, <2>2
      <3>. QED
        BY <1>9, <3>1
    <2>. QED
      BY <2>1, <2>2
  <1>12. size <= Len(buffer)
    BY <1>1
  <1>. QED
    BY <1>2, <1>3, <1>4, <1>5, <1>8, <1>10, <1>11, <1>12 DEF piece, rest

(* What it does to the files. *)
LEMMA PieceInFiles ==
    ASSUME IInv, RecordShape, NEW size \in Nat, Pieces(size)
    PROVE  LET piece == SubSeq(buffer, 1, size)
               last  == files[Len(files)].bytes
           IN  /\ last \in Seq(Bytes) /\ Len(files) \in 1 .. Len(files) /\ Len(files') = Len(files)
               /\ DOMAIN files = 1 .. Len(files) /\ DOMAIN files' = 1 .. Len(files)
               /\ \A i \in 1 .. Len(files) : i # Len(files) => files'[i] = files[i]
               /\ files'[Len(files)].bytes = last \o piece
               /\ Whole' = Whole \cup {piece[k].id : k \in EndsOf(piece)}
               /\ WholeFiles' = [WholeFiles EXCEPT ![Len(WholeFiles)] = @ \o WholeRecords(piece)]
               /\ Len(WholeFiles) = Len(files)
               /\ size = 0 => Begun' = Begun
               /\ size > 0 => (Begun' <=> buffer[size].left > 0)
  <1>. DEFINE piece == SubSeq(buffer, 1, size)
              L     == Len(files)
              last  == files[L].bytes
  <1>0. files \in Seq(Files) /\ buffer \in Seq(Bytes) /\ Len(buffer) \in Nat
    BY BasicTypes
  <1>1. /\ files # <<>> /\ files' = [files EXCEPT ![L].bytes = @ \o piece]
        /\ size \in 0 .. Len(buffer)
    BY <1>0 DEF Pieces
  <1>2. L \in Nat /\ L \in 1 .. L /\ DOMAIN files = 1 .. L /\ files[L] \in Files
    <2>1. L \in Nat /\ L \in 1 .. L /\ DOMAIN files = 1 .. L
      BY <1>0, <1>1, LenProperties, EmptySeq
    <2>. QED
      BY <1>0, <2>1, ElementOfSeq
  <1>3. piece \in Seq(Bytes) /\ Len(piece) = size /\ \A i \in 1 .. size : piece[i] = buffer[i]
    BY <1>0, <1>1, Split
  <1>4. last \in Seq(Bytes)
    BY <1>2 DEF Files
  <1>. HIDE DEF piece
  <1>5. /\ Len(files') = L /\ DOMAIN files' = 1 .. L
        /\ \A i \in 1 .. L : i # L => files'[i] = files[i]
        /\ files'[L].bytes = last \o piece
    <2>1. files' = [files EXCEPT ![L] = [files[L] EXCEPT !.bytes = last \o piece]]
      BY <1>1
    <2>2. DOMAIN files' = 1 .. L /\ Len(files') = L
      BY <1>0, <1>2, <2>1
    <2>3. files'[L] = [files[L] EXCEPT !.bytes = last \o piece]
      BY <1>2, <2>1
    <2>4. files'[L].bytes = last \o piece
      BY <1>2, <2>3 DEF Files
    <2>. QED
      BY <1>2, <2>1, <2>2, <2>4
  <1>. HIDE DEF last
  <1>6. Whole' = Whole \cup {piece[k].id : k \in EndsOf(piece)}
    <2>. DEFINE both == last \o piece
                idsIn(bytes) == {bytes[k].id : k \in EndsOf(bytes)}
    <2>1. /\ EndsOf(both) = EndsOf(last) \cup Behind(Len(last), EndsOf(piece))
          /\ \A k \in EndsOf(last) : both[k] = last[k]
          /\ \A k \in EndsOf(piece) : both[Len(last) + k] = piece[k]
      BY <1>3, <1>4, EndsOfBoth
    <2>2. idsIn(both) = idsIn(last) \cup idsIn(piece)
      <3>1. ASSUME NEW k \in EndsOf(both) PROVE both[k].id \in idsIn(last) \cup idsIn(piece)
        <4>1. k \in EndsOf(last) \/ \E j \in EndsOf(piece) : k = Len(last) + j
          BY <2>1, <3>1 DEF Behind
        <4>. QED
          BY <2>1, <4>1
      <3>2. ASSUME NEW k \in EndsOf(last) PROVE last[k].id \in idsIn(both)
        <4>1. k \in EndsOf(both)
          BY <2>1, <3>2
        <4>. QED
          BY <2>1, <4>1
      <3>3. ASSUME NEW k \in EndsOf(piece) PROVE piece[k].id \in idsIn(both)
        <4>1. Len(last) + k \in Behind(Len(last), EndsOf(piece))
          BY <3>3 DEF Behind
        <4>2. Len(last) + k \in EndsOf(both)
          BY <2>1, <4>1
        <4>. QED
          BY <2>1, <4>2
      <3>. QED
        BY <3>1, <3>2, <3>3
    <2>3. Whole = UNION {idsIn(files[i].bytes) : i \in 1 .. L}
      BY <1>2 DEF Whole
    <2>4. Whole' = UNION {idsIn(files'[i].bytes) : i \in 1 .. L}
      BY <1>5 DEF Whole
    <2>5. files'[L].bytes = both /\ files[L].bytes = last
      BY <1>5 DEF last
    <2>. HIDE DEF idsIn, both
    <2>6. Whole' = Whole \cup idsIn(piece)
      BY <1>2, <1>5, <2>2, <2>3, <2>4, <2>5
    <2>. QED
      BY <2>6 DEF idsIn
  <1>7. /\ WholeFiles = [i \in 1 .. L |-> WholeRecords(files[i].bytes)]
        /\ WholeFiles' = [i \in 1 .. L |-> WholeRecords(files'[i].bytes)]
    BY <1>2, <1>5 DEF WholeFiles
  <1>8. Len(WholeFiles) = L
    BY <1>2, <1>7
  <1>9. WholeRecords(last \o piece) = WholeRecords(last) \o WholeRecords(piece)
    BY <1>3, <1>4, WholeInBoth
  <1>10. WholeFiles' = [WholeFiles EXCEPT ![L] = @ \o WholeRecords(piece)]
    <2>1. \A i \in 1 .. L : WholeRecords(files'[i].bytes) =
            IF i = L THEN WholeFiles[L] \o WholeRecords(piece) ELSE WholeFiles[i]
      BY <1>2, <1>5, <1>7, <1>9 DEF last
    <2>. QED
      BY <1>2, <1>7, <2>1
  <1>11. /\ last \o piece \in Seq(Bytes) /\ Len(last \o piece) = Len(last) + size /\ Len(last) \in Nat
         /\ \A i \in 1 .. Len(last) + size : (last \o piece)[i] = IF i <= Len(last) THEN last[i] ELSE piece[i - Len(last)]
    BY <1>3, <1>4, ConcatProperties, LenProperties
  <1>12. files' # <<>> /\ Last(files').bytes = last \o piece /\ Last(files).bytes = last
    BY <1>1, <1>2, <1>5, EmptySeq DEF Last, last
  <1>13. size = 0 => Begun' = Begun
    <2>. SUFFICES ASSUME size = 0 PROVE Begun' = Begun
      OBVIOUS
    <2>1. piece = <<>>
      BY <1>3, EmptySeq
    <2>2. last \o piece = last
      BY <1>4, <2>1, ConcatEmptySeq
    <2>. QED
      BY <1>1, <1>12, <2>2 DEF Begun
  <1>14. size > 0 => (Begun' <=> buffer[size].left > 0)
    <2>. SUFFICES ASSUME size > 0 PROVE Begun' <=> buffer[size].left > 0
      OBVIOUS
    <2>1. last \o piece # <<>>
      BY <1>11, EmptySeq
    <2>2. (last \o piece)[Len(last) + size] = buffer[size]
      <3>1. Len(last) + size \in 1 .. Len(last) + size /\ ~(Len(last) + size <= Len(last))
            /\ (Len(last) + size) - Len(last) = size /\ size \in 1 .. size
        BY <1>1, <1>11
      <3>. QED
        BY <1>3, <1>11, <3>1
    <2>3. Last(last \o piece) = buffer[size]
      BY <1>11, <2>2 DEF Last
    <2>. QED
      BY <1>12, <2>1, <2>3 DEF Begun
  <1>. QED
    BY <1>2, <1>4, <1>5, <1>6, <1>8, <1>10, <1>13, <1>14 DEF piece, last

(* A piece ends where it will, but the next point is between two records. *)
LEMMA PieceKeepsRecords ==
    ASSUME IInv, IInv', Sorted, RecordShape, NEW size \in Nat, Pieces(size)
    PROVE  RecordShape' /\ Written' = Written + Cardinality(EndsOf(SubSeq(buffer, 1, size)))
  <1>. DEFINE piece == SubSeq(buffer, 1, size)
              rest  == SubSeq(buffer, size + 1, Len(buffer))
              n     == Cardinality(EndsOf(piece))
  <1>0. /\ stream \in Streams /\ writer \in Writers /\ buffer \in Seq(Bytes) /\ Len(buffer) \in Nat
        /\ Written \in Nat /\ accepted \in Nat /\ writer.drained \in Nat /\ End \in Nat
        /\ Len(stream.points) \in Nat /\ stream.points \in Seq(Nat) /\ stream.total \in Nat
        /\ \A i \in 1 .. Len(stream.points) : stream.points[i] \in Nat
    BY BasicTypes, WrittenIsNat
  <1>1. /\ ~stream.failed /\ UNCHANGED <<prod, accepted>> /\ buffer' = rest
        /\ writer.at = "write" /\ size <= writer.limit
        /\ stream' = Released(stream)
    BY DEF Pieces, ProducerSide
  <1>2. writer.open /\ writer'.open /\ writer'.drained = writer.drained + size
    BY <1>0 DEF Pieces, Writers
  <1>3. /\ stream'.total = stream.total /\ stream'.failed = stream.failed
        /\ stream'.points = stream.points
    BY <1>1, ReleasedTypes DEF IInv
  <1>4. /\ piece \in Seq(Bytes) /\ rest \in Seq(Bytes) /\ buffer = piece \o rest
        /\ Len(piece) = size /\ Len(rest) = Len(buffer) - size /\ size <= Len(buffer)
        /\ \A i \in 1 .. size : piece[i] = buffer[i]
        /\ \A i \in 1 .. Len(buffer) - size : rest[i] = buffer[size + i]
        /\ n \in Nat /\ Cardinality(EndsOf(buffer)) = n + Cardinality(EndsOf(rest))
        /\ Cardinality(EndsOf(rest)) \in Nat
        /\ {piece[k].id : k \in EndsOf(piece)} = Written + 1 .. Written + n
        /\ \A k \in EndsOf(rest) : rest[k].id = Written + n + Cardinality(UpTo(rest, k))
    BY PieceIsNumbered
  <1>5. /\ Whole' = Whole \cup {piece[k].id : k \in EndsOf(piece)}
        /\ size = 0 => Begun' = Begun
        /\ size > 0 => (Begun' <=> buffer[size].left > 0)
    BY PieceInFiles
  <1>. HIDE DEF piece, rest, n
  <1>6. Whole' = 1 .. Written + n /\ Written' = Written + n
    <2>1. Whole' = (1 .. Written) \cup (Written + 1 .. Written + n)
      BY <1>4, <1>5 DEF RecordShape, CountShape
    <2>2. Whole' = 1 .. Written + n
      BY <1>0, <1>4, <2>1
    <2>3. Cardinality(1 .. Written + n) = Written + n
      <3>1. Cardinality(1 .. Written + n) = IF 1 > Written + n THEN 0 ELSE (Written + n) - 1 + 1
        BY <1>0, <1>4, FS_Interval
      <3>. QED
        BY <1>0, <1>4, <3>1
    <2>. QED
      BY <2>2, <2>3 DEF Written
  <1>7. EndsOf(buffer)' = EndsOf(rest) /\ (Sending' <=> Sending)
        /\ \A k : UpTo(buffer, k)' = UpTo(rest, k)
    BY <1>1 DEF Sending, EndsOf, UpTo
  <1>8. CountShape'
    <2>1. accepted = Written + Cardinality(EndsOf(buffer)) + IF Sending THEN 1 ELSE 0
      BY <1>1 DEF RecordShape, CountShape
    <2>2. accepted = (Written + n) + Cardinality(EndsOf(rest)) + IF Sending THEN 1 ELSE 0
      BY <1>0, <1>4, <2>1
    <2>3. Written + n <= accepted
      BY <1>0, <1>4, <2>2
    <2>. QED
      BY <1>1, <1>3, <1>6, <1>7, <2>2, <2>3 DEF RecordShape, CountShape
  <1>9. NumberShape'
    <2>. SUFFICES ASSUME NEW k \in EndsOf(rest) PROVE rest[k].id = Written' + Cardinality(UpTo(rest, k))
      BY <1>1, <1>7 DEF NumberShape
    <2>. QED
      BY <1>4, <1>6
  <1>10. ~stream.failed => /\ buffer # <<>> => buffer[Len(buffer)].left = 0
                           /\ buffer = <<>> => ~Begun
    BY DEF RecordShape, EndShape
  <1>11. EndShape'
    <2>1. ASSUME rest # <<>> PROVE rest[Len(rest)].left = 0
      <3>1. Len(rest) # 0
        BY <1>4, <2>1, EmptySeq
      <3>2. Len(rest) \in 1 .. Len(buffer) - size /\ size + Len(rest) = Len(buffer) /\ Len(buffer) # 0
        BY <1>0, <1>4, <3>1
      <3>3. buffer # <<>>
        BY <1>0, <3>2, EmptySeq
      <3>. QED
        BY <1>1, <1>4, <1>10, <3>2, <3>3
    <2>2. ASSUME rest = <<>> PROVE ~Begun'
      <3>1. size = Len(buffer)
        <4>1. Len(rest) = 0
          BY <1>4, <2>2, EmptySeq
        <4>. QED
          BY <1>0, <1>4, <4>1
      <3>2. CASE size = 0
        <4>1. buffer = <<>>
          BY <1>0, <3>1, <3>2, EmptySeq
        <4>. QED
          BY <1>1, <1>5, <1>10, <3>2, <4>1
      <3>3. CASE size > 0
        <4>1. buffer # <<>>
          BY <1>0, <3>1, <3>3, EmptySeq
        <4>. QED
          BY <1>1, <1>5, <1>10, <3>1, <3>3, <4>1
      <3>. QED
        BY <3>2, <3>3
    <2>. QED
      BY <1>1, <1>2, <2>1, <2>2 DEF EndShape
  <1>12. End' = End
    BY <1>0, <1>1, <1>2, <1>4 DEF End
  <1>13. ASSUME NEW i \in 1 .. Len(stream.points) PROVE BetweenRecords(stream.points[i])'
    <2>. DEFINE point == stream.points[i]
    <2>1. BetweenRecords(point) /\ point \in Nat
      BY <1>0, <1>1 DEF RecordShape, PointShape
    <2>2. point >= writer.drained + size
      <3>1. 1 \in 1 .. Len(stream.points) /\ stream.points # <<>>
        BY <1>0, <1>13, EmptySeq
      <3>2. stream.points[1] <= point
        BY <1>0, <3>1 DEF Sorted
      <3>3. writer.drained + writer.limit <= stream.points[1] /\ writer.limit \in Nat
        BY <1>0, <1>1, <3>1, Constants DEF WriterShape, IInv, Writers
      <3>4. stream.points[1] \in Nat /\ size \in Nat /\ size <= writer.limit
        BY <1>0, <1>1, <3>1
      <3>. DEFINE first == stream.points[1]
                  limit == writer.limit
                  drained == writer.drained
      <3>5. /\ first \in Nat /\ limit \in Nat /\ drained \in Nat /\ size \in Nat /\ point \in Nat
            /\ size <= limit /\ drained + limit <= first /\ first <= point
        BY <1>0, <2>1, <3>2, <3>3, <3>4
      <3>. HIDE DEF first, limit, drained, point
      <3>6. point >= drained + size
        BY <3>5
      <3>. QED
        BY <3>6 DEF drained
    <2>. HIDE DEF point
    <2>3. point = writer.drained + size => ~Begun'
      <3>. SUFFICES ASSUME point = writer.drained + size PROVE ~Begun'
        OBVIOUS
      <3>1. CASE size = 0
        BY <1>0, <1>5, <2>1, <3>1 DEF BetweenRecords
      <3>2. CASE size > 0
        <4>1. point > writer.drained /\ point <= End /\ point - writer.drained = size
          <5>. DEFINE room == Len(buffer)
                      drained == writer.drained
          <5>1. /\ room \in Nat /\ drained \in Nat /\ size \in Nat /\ size <= room /\ End = drained + room
                /\ point = drained + size /\ size > 0
            BY <1>0, <1>4, <2>2, <3>2 DEF End
          <5>. HIDE DEF room, drained
          <5>2. point > drained /\ point <= End /\ point - drained = size
            BY <5>1
          <5>. QED
            BY <5>2 DEF drained
        <4>2. buffer[size].left = 0
          BY <2>1, <4>1 DEF BetweenRecords
        <4>. QED
          BY <1>5, <3>2, <4>2
      <3>. QED
        BY <3>1, <3>2
    <2>4. point > writer.drained + size /\ point <= End => rest[point - (writer.drained + size)].left = 0
      <3>. SUFFICES ASSUME point > writer.drained + size, point <= End
                    PROVE  rest[point - (writer.drained + size)].left = 0
        OBVIOUS
      <3>1. /\ point - (writer.drained + size) \in 1 .. Len(buffer) - size
            /\ size + (point - (writer.drained + size)) = point - writer.drained
            /\ point > writer.drained
        <4>. DEFINE room == Len(buffer)
                    drained == writer.drained
        <4>1. /\ room \in Nat /\ drained \in Nat /\ size \in Nat /\ size <= room /\ End = drained + room
              /\ point > drained + size /\ point <= End /\ point \in Nat
          BY <1>0, <1>4, <2>1 DEF End
        <4>. HIDE DEF room, drained
        <4>2. /\ point - (drained + size) \in 1 .. room - size
              /\ size + (point - (drained + size)) = point - drained /\ point > drained
          BY <4>1
        <4>. QED
          BY <4>2 DEF room, drained
      <3>2. buffer[point - writer.drained].left = 0
        BY <2>1, <3>1 DEF BetweenRecords
      <3>. QED
        BY <1>4, <3>1, <3>2
    <2>5. point <= End \/ point = stream.total
      BY <2>1 DEF BetweenRecords
    <2>. QED
      BY <1>1, <1>2, <1>3, <1>12, <2>2, <2>3, <2>4, <2>5 DEF BetweenRecords, point
  <1>14. PointShape'
    BY <1>3, <1>13 DEF PointShape
  <1>. QED
    BY <1>6, <1>8, <1>9, <1>11, <1>14 DEF RecordShape, n, piece

LEMMA RecordInvKept ==
    ASSUME IInv, IInv', Sorted, RecordInv, [Next]_vars
    PROVE  RecordInv'
  <1>0. RecordShape /\ OwnerShape
    BY DEF RecordInv, RecordShape
  <1>9. OwnerShape'
    BY <1>0, OwnerShapeKept
  <1>. SUFFICES RecordShape'
    BY <1>9 DEF RecordInv, RecordShape
  <1>1. CASE UNCHANGED vars
    <2>1. UNCHANGED <<buffer, stream, prod, writer, files, accepted>>
      BY <1>1 DEF vars
    <2>. QED
      BY <1>0, <2>1, StillKeeps DEF RecordShape, EndShape
  <1>2. ASSUME NEW p \in Producers, Quiet(p) \/ Account(p) \/ Send(p) PROVE RecordShape'
    BY <1>0, <1>2, QuietKeepsRecords, AccountKeepsRecords, SendKeepsRecords
  <1>3. CASE Rotate
    BY <1>0, <1>3, RotateKeepsRecords
  <1>4. CASE Turns
    BY <1>0, <1>4, TurnsKeepsRecords
  <1>5. CASE Opens
    BY <1>0, <1>5, OpensKeepsRecords
  <1>6. ASSUME NEW size \in Nat, Pieces(size) PROVE RecordShape'
    BY <1>0, <1>6, PieceKeepsRecords
  <1>7. CASE Asks \/ Register \/ Look \/ Limit \/ Serves \/ Answer \/ Breaks
    BY <1>0, <1>7, WriterKeepsRecords
  <1>. QED
    BY <1>1, <1>2, <1>3, <1>4, <1>5, <1>6, <1>7, Steps DEF WriterStep

(* What is queued grows at the end and loses what is whole at its head. *)
LEMMA QueuedIs ==
    ASSUME IInv, RecordInv
    PROVE  /\ Queued \in Seq(1 .. MaxRecords) /\ Len(Queued) = accepted - Written
           /\ accepted - Written \in Nat /\ Written \in Nat /\ accepted \in 0 .. MaxRecords
           /\ Queued = [i \in 1 .. accepted - Written |-> Written + i]
  <1>1. Written \in Nat /\ accepted \in 0 .. MaxRecords /\ Written <= accepted
    BY WrittenIsNat, Types DEF IInv, RecordInv, RecordShape, CountShape
  <1>. DEFINE len == accepted - Written
              ids == 1 .. MaxRecords
  <1>2. len \in Nat
    BY <1>1
  <1>3. Queued = [i \in 1 .. len |-> Written + i]
    BY DEF Queued, Written
  <1>4. \A i \in 1 .. len : Written + i \in ids
    BY <1>1, Constants
  <1>5. Queued \in [1 .. len -> ids]
    BY <1>3, <1>4
  <1>. HIDE DEF len, ids
  <1>6. Queued \in Seq(ids) /\ Len(Queued) = len
    BY <1>2, <1>5
  <1>. QED
    BY <1>1, <1>2, <1>3, <1>6 DEF len, ids

LEMMA QueuedWillBe ==
    ASSUME IInv', RecordInv'
    PROVE  /\ Queued' = [i \in 1 .. accepted' - Written' |-> Written' + i]
           /\ accepted' - Written' \in Nat /\ Written' \in Nat
  <1>1. (IInv /\ RecordInv => /\ Queued = [i \in 1 .. accepted - Written |-> Written + i]
                              /\ accepted - Written \in Nat /\ Written \in Nat)'
    BY QueuedIs, PTL
  <1>. QED
    BY <1>1

(* A record of which a part is on the card is queued. *)
LEMMA BegunIsQueued == IInv /\ RecordInv /\ ~stream.failed /\ Begun => Queued # <<>>
  <1>. SUFFICES ASSUME IInv, RecordInv, ~stream.failed, Begun PROVE Queued # <<>>
    OBVIOUS
  <1>1. buffer # <<>> /\ buffer[Len(buffer)].left = 0
    BY DEF RecordInv, RecordShape, EndShape
  <1>2. buffer \in Seq(Bytes) /\ Len(buffer) \in 1 .. Len(buffer)
    BY <1>1, BasicTypes, EmptySeq
  <1>3. Len(buffer) \in EndsOf(buffer)
    BY <1>1, <1>2, LenProperties DEF EndsOf
  <1>4. Cardinality(EndsOf(buffer)) \in Nat /\ Cardinality(EndsOf(buffer)) # 0
    BY <1>2, <1>3, EndsAreFinite, FS_EmptySet
  <1>5. accepted = Written + Cardinality(EndsOf(buffer)) + IF Sending THEN 1 ELSE 0
    BY DEF RecordInv, RecordShape, CountShape
  <1>6. accepted - Written # 0
    BY <1>4, <1>5, QueuedIs
  <1>. QED
    BY <1>6, QueuedIs, EmptySeq

-----------------------------------------------------------------------------
(* Every step is one of the log, or none. *)
LEMMA AcceptStep ==
    ASSUME IInv, IInv', RecordInv, RecordInv', NEW p \in Producers, Account(p)
    PROVE  Log!Next
  <1>1. accepted' = accepted + 1 /\ accepted' \in 0 .. MaxRecords
    BY Types DEF Account, Accepted, IInv, TypeOK
  <1>2. WholeFiles' = WholeFiles /\ Begun' = Begun /\ Written' = Written
    BY AccountKeepsRecords DEF RecordInv, RecordShape
  <1>3. stream'.failed = stream.failed
    BY BasicTypes DEF Account, Streams
  <1>4. Queued' = Append(Queued, accepted')
    <2>. DEFINE len == accepted - Written
    <2>1. /\ Queued = [i \in 1 .. len |-> Written + i] /\ len \in Nat /\ Len(Queued) = len
          /\ Written \in Nat /\ accepted \in Nat
      BY QueuedIs
    <2>2. Queued' = [i \in 1 .. len + 1 |-> Written + i]
      <3>1. accepted' - Written' = len + 1
        BY <1>1, <1>2, <2>1
      <3>2. Queued' = [i \in 1 .. accepted' - Written' |-> Written' + i]
        BY QueuedWillBe
      <3>3. Queued' = [i \in 1 .. len + 1 |-> Written' + i]
        BY <3>1, <3>2, Zenon
      <3>. QED
        BY <1>2, <3>3, Zenon
    <2>3. Written + (len + 1) = accepted'
      BY <1>1, <2>1
    <2>. HIDE DEF len
    <2>4. Append(Queued, accepted') = [i \in 1 .. len + 1 |-> IF i = len + 1 THEN accepted' ELSE Queued[i]]
      BY <2>1
    <2>5. \A i \in 1 .. len + 1 : Written + i = IF i = len + 1 THEN accepted' ELSE Queued[i]
      <3>. TAKE i \in 1 .. len + 1
      <3>1. i # len + 1 => i \in 1 .. len
        BY <2>1
      <3>. QED
        BY <2>1, <2>3, <3>1
    <2>. QED
      BY <2>2, <2>4, <2>5
  <1>5. accepted' \in 1 .. MaxRecords
    BY <1>1, BasicTypes, Constants
  <1>. QED
    BY <1>2, <1>3, <1>4, <1>5 DEF Log!Next, Log!Accept

LEMMA NewFileStep ==
    ASSUME IInv, IInv', RecordInv, RecordInv', Opens
    PROVE  Log!Next
  <1>1. /\ ~stream.failed /\ ~Begun /\ ~Begun'
        /\ WholeFiles' = Append(WholeFiles, <<>>) /\ Written' = Written
    BY OpensKeepsRecords DEF RecordInv, RecordShape
  <1>2. accepted' = accepted
    BY DEF Opens, ProducerSide
  <1>3. stream'.failed = stream.failed
    BY BasicTypes DEF Opens, Streams
  <1>4. Queued' = Queued
    BY <1>1, <1>2 DEF Queued, Written
  <1>5. Begun' = Begun
    BY <1>1 DEF Begun
  <1>. QED
    BY <1>1, <1>3, <1>4, <1>5 DEF Log!Next, Log!NewFile

LEMMA WriteStep ==
    ASSUME IInv, IInv', Sorted, RecordInv, RecordInv', NEW size \in Nat, Pieces(size)
    PROVE  Log!Next
  <1>. DEFINE piece == SubSeq(buffer, 1, size)
              n     == Cardinality(EndsOf(piece))
              len   == accepted - Written
  <1>1. RecordShape
    BY DEF RecordInv, RecordShape
  <1>2. Written' = Written + n
    BY <1>1, PieceKeepsRecords
  <1>3. n \in Nat /\ WholeRecords(piece) = [i \in 1 .. n |-> Written + i]
    BY <1>1, PieceIsNumbered
  <1>4. /\ WholeFiles' = [WholeFiles EXCEPT ![Len(WholeFiles)] = @ \o WholeRecords(piece)]
        /\ Len(WholeFiles) = Len(files) /\ Len(files) \in 1 .. Len(files)
    BY <1>1, PieceInFiles
  <1>5. accepted' = accepted /\ ~stream.failed /\ stream'.failed = stream.failed
    BY ReleasedTypes DEF Pieces, ProducerSide, IInv
  <1>6. /\ Queued = [i \in 1 .. len |-> Written + i] /\ Len(Queued) = len /\ len \in Nat /\ Written \in Nat
        /\ Queued \in Seq(1 .. MaxRecords)
    BY QueuedIs
  <1>7. Queued' = [i \in 1 .. len - n |-> (Written + n) + i] /\ n <= len
    <2>1. accepted' - Written' = len - n /\ accepted \in Nat
      BY <1>2, <1>3, <1>5, <1>6, BasicTypes
    <2>. HIDE DEF n, len
    <2>. QED
      BY <1>2, <1>3, <1>6, <2>1, QueuedWillBe
  <1>. HIDE DEF n, len, piece
  <1>8. SubSeq(Queued, 1, n) = WholeRecords(piece)
    <2>1. SubSeq(Queued, 1, n) = [i \in 1 .. n |-> Queued[i]]
      BY <1>3, <1>6, <1>7
    <2>2. \A i \in 1 .. n : Queued[i] = Written + i
      BY <1>3, <1>6, <1>7
    <2>. QED
      BY <1>3, <2>1, <2>2
  <1>9. SubSeq(Queued, n + 1, Len(Queued)) = Queued'
    <2>1. SubSeq(Queued, n + 1, Len(Queued)) = [i \in 1 .. len - n |-> Queued[n + i]]
      BY <1>3, <1>6, <1>7
    <2>2. \A i \in 1 .. len - n : Queued[n + i] = (Written + n) + i
      <3>. TAKE i \in 1 .. len - n
      <3>1. n + i \in 1 .. len /\ Written + (n + i) = (Written + n) + i
        BY <1>3, <1>6, <1>7
      <3>. QED
        BY <1>6, <3>1
    <2>. QED
      BY <1>7, <2>1, <2>2
  <1>10. Begun' \in BOOLEAN
    BY DEF Begun
  <1>11. Begun' => Queued' # <<>>
    <2>1. (IInv /\ RecordInv /\ ~stream.failed /\ Begun => Queued # <<>>)'
      BY BegunIsQueued, PTL
    <2>. QED
      BY <1>5, <2>1
  <1>12. WholeFiles # <<>>
    BY <1>4, EmptySeq
  <1>13. n \in 0 .. Len(Queued)
    BY <1>3, <1>6, <1>7
  <1>. QED
    BY <1>4, <1>5, <1>8, <1>9, <1>10, <1>11, <1>12, <1>13 DEF Log!Next, Log!Write

LEMMA FailStep ==
    ASSUME IInv, Breaks
    PROVE  Log!Next
  <1>1. files' = files /\ accepted' = accepted
    BY DEF Breaks, ProducerSide
  <1>2. stream'.failed = TRUE
    <2>1. stream' \in Streams /\ stream'.failed
      <3>1. stream.points \in Seq(Nat) /\ (stream.points # <<>> => Tail(stream.points) \in Seq(Nat))
        BY BasicTypes, HeadTailProperties
      <3>. QED
        BY <3>1, FailTypes DEF Breaks, IInv
    <2>. QED
      BY <2>1 DEF Streams
  <1>3. Queued' = Queued /\ WholeFiles' = WholeFiles /\ Begun' = Begun
    BY <1>1 DEF Queued, Whole, WholeFiles, Begun
  <1>. QED
    BY <1>2, <1>3 DEF Log!Next, Log!Fail

LEMMA LogSteps ==
    ASSUME IInv, IInv', Sorted, RecordInv, RecordInv', [Next]_vars
    PROVE  [Log!Next]_(Log!logVars)
  <1>0. stream \in Streams
    BY BasicTypes
  <1>1. ASSUME files' = files, accepted' = accepted, stream'.failed = stream.failed
        PROVE  UNCHANGED Log!logVars
    BY <1>1 DEF Log!logVars, Queued, Whole, WholeFiles, Begun
  <1>2. ASSUME NEW p \in Producers, Account(p) PROVE Log!Next
    BY <1>2, AcceptStep
  <1>3. CASE Opens
    BY <1>3, NewFileStep
  <1>4. ASSUME NEW size \in Nat, Pieces(size) PROVE Log!Next
    BY <1>4, WriteStep
  <1>5. CASE Breaks
    BY <1>5, FailStep
  <1>6. ASSUME NEW p \in Producers, Quiet(p) PROVE UNCHANGED Log!logVars
    BY <1>1, <1>6, QuietStays DEF IInv
  <1>7. ASSUME NEW p \in Producers, Send(p) PROVE UNCHANGED Log!logVars
    BY <1>0, <1>1, <1>7 DEF Send, Release, WriterSide, Streams
  <1>8. CASE UNCHANGED vars \/ Rotate \/ Asks
    BY <1>0, <1>1, <1>8 DEF vars, Rotate, Asks, Ask, WriterSide, Streams
  <1>9. CASE Register \/ Look \/ Turns \/ Limit \/ Serves \/ Answer
    <2>1. files' = files /\ accepted' = accepted
      BY <1>9 DEF Register, Look, Turns, Limit, Serves, Answer, ProducerSide
    <2>2. CASE stream' = stream \/ stream' = Released(stream)
      BY <1>1, <2>1, <2>2, ReleasedTypes DEF IInv
    <2>3. CASE Turns
      BY <1>0, <1>1, <2>1, <2>3 DEF Turns, Streams
    <2>. QED
      BY <1>9, <2>2, <2>3 DEF Register, Look, Limit, Serves, Answer
  <1>. QED
    BY <1>2, <1>3, <1>4, <1>5, <1>6, <1>7, <1>8, <1>9, Steps DEF WriterStep

-----------------------------------------------------------------------------
LEMMA RecordInvariant == Spec => [](IInv /\ SizeInv /\ RecordInv)
  <1>1. Init => RecordInv
    <2>. SUFFICES ASSUME Init PROVE RecordInv
      OBVIOUS
    <2>1. /\ files = <<>> /\ buffer = <<>> /\ stream.points = <<>> /\ accepted = 0
          /\ writer = NotOpen /\ owner.at = "none" /\ \A p \in Producers : prod[p].at = "idle"
      BY DEF Init, NotWriting
    <2>2. Whole = {} /\ Written = 0 /\ ~Begun /\ EndsOf(buffer) = {} /\ Cardinality(EndsOf(buffer)) = 0
      <3>1. Whole = {} /\ EndsOf(buffer) = {}
        BY <2>1 DEF Whole, EndsOf
      <3>. QED
        BY <2>1, <3>1, FS_EmptySet DEF Written, Begun
    <2>3. OwnerShape
      BY <2>1 DEF OwnerShape, NotOpen
    <2>4. CountShape
      BY <2>1, <2>2 DEF CountShape, Sending
    <2>5. NumberShape /\ EndShape /\ PointShape
      BY <2>1, <2>2 DEF NumberShape, EndShape, PointShape, NotOpen
    <2>. QED
      BY <2>3, <2>4, <2>5 DEF RecordInv, RecordShape
  <1>2. (IInv /\ SizeInv /\ RecordInv) /\ [Next]_vars => RecordInv'
    BY Inductive, RecordInvKept DEF SizeInv
  <1>. QED
    BY <1>1, <1>2, SizeInvariant, PTL DEF Spec

(* Records reach the card whole, in the order they were accepted, each in one *)
(* file, and nothing is written once the card has failed, for all producers,  *)
(* record sizes and chunk sizes (sd_card_writer.c, sd_card_writer_write and   *)
(* sd_card_writer_drain).                                                     *)
THEOREM RecordsAreLogged == Spec => ImplementsRecordLog
  <1>1. Init => Log!Init
    <2>. SUFFICES ASSUME Init PROVE Log!Init
      OBVIOUS
    <2>1. files = <<>> /\ accepted = 0 /\ ~stream.failed
      BY DEF Init
    <2>2. Whole = {} /\ WholeFiles = <<>> /\ ~Begun
      BY <2>1 DEF Whole, WholeFiles, Begun
    <2>3. Cardinality(Whole) = 0
      BY <2>2, FS_EmptySet
    <2>4. Queued = <<>>
      BY <2>1, <2>3 DEF Queued
    <2>. QED
      BY <2>1, <2>2, <2>4 DEF Log!Init
  <1>2. (IInv /\ SizeInv /\ RecordInv) /\ (IInv /\ SizeInv /\ RecordInv)' /\ [Next]_vars
            => [Log!Next]_(Log!logVars)
    BY LogSteps DEF SizeInv
  <1>. QED
    BY <1>1, <1>2, RecordInvariant, PTL DEF Spec, ImplementsRecordLog, Log!Spec
=============================================================================
