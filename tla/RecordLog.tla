------------------------------ MODULE RecordLog ------------------------------
(***************************************************************************)
(* What a stream of sd_card_writer promises, without its buffer, tasks and *)
(* rotation points: records reach the card whole, in the order they were   *)
(* accepted, each in one file; and once the card has failed the files stay *)
(* as they are.  SdCardWriter is shown to implement it.                    *)
(***************************************************************************)
EXTENDS Naturals, Sequences

CONSTANT Records

VARIABLES
    queue,          \* the accepted records that are not whole in a file yet
    files,          \* the files in the order they were opened, each its whole records
    begun,          \* whether a part of the first record in the queue is in the last file
    failed          \* the card has failed

logVars == <<queue, files, begun, failed>>

Init == queue = <<>> /\ files = <<>> /\ ~begun /\ ~failed

Accept(record) ==
    /\ queue' = Append(queue, record)
    /\ UNCHANGED <<files, begun, failed>>

NewFile ==
    /\ ~failed /\ ~begun
    /\ files' = Append(files, <<>>)
    /\ UNCHANGED <<queue, begun, failed>>

(* The next records, and perhaps a part of one more. *)
Write ==
    /\ ~failed /\ files # <<>>
    /\ \E n \in 0 .. Len(queue) :
        /\ files' = [files EXCEPT ![Len(files)] = @ \o SubSeq(queue, 1, n)]
        /\ queue' = SubSeq(queue, n + 1, Len(queue))
    /\ begun' \in BOOLEAN /\ (begun' => queue' # <<>>)
    /\ UNCHANGED failed

Fail ==
    /\ failed' = TRUE
    /\ UNCHANGED <<queue, files, begun>>

Next ==
    \/ \E record \in Records : Accept(record)
    \/ NewFile \/ Write \/ Fail

Spec == Init /\ [][Next]_logVars
=============================================================================
