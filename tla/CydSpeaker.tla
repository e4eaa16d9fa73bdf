------------------------------- MODULE CydSpeaker -------------------------------
(* The speaker (cyd_speaker.c): callers put sounds into a queue, a task plays    *)
(* them. A sound that arrives while another one plays ends it; it has been taken *)
(* out of the queue by then and is put back at the front.                        *)
(*                                                                               *)
(* A sound is the sequence of its notes; of a note only whether it has a tone    *)
(* and a gap is kept. A duration may end whenever the queue is empty: the wait   *)
(* looks into the queue every 20 ms. LEDC calls do not fail here.                *)
EXTENDS Naturals, Sequences, SequencesExt

CONSTANTS
    Callers,        \* the tasks that ask for sounds
    Sounds,         \* the sounds that they ask for
    SpeakerQueue,   \* CYD_SPEAKER_QUEUE_LEN
    MaxCommands     \* bound: commands that are ever accepted

(* In a queue of one, a sound that is put back could keep out the STOP of a caller that has just *)
(* emptied it; the code's queue holds eight.                                                     *)
ASSUME SpeakerAssumption == SpeakerQueue \in Nat \ {0, 1} /\ MaxCommands \in Nat

VARIABLES
    speakerQueue,   \* s_speaker_queue
    speaker,        \* the task: [at, cmd: what it plays, note, hand: what it took while playing]
    toneActive,     \* s_speaker_tone_active
    sounding,       \* the duty of the LEDC channel is not zero
    caller,         \* where each caller is in cyd_speaker_stop() or _set_volume_percent()
    accepted,       \* history: commands accepted so far, which numbers them
    retuned         \* history: a volume change switched on a tone that had just ended

speakerVars == <<speakerQueue, speaker, toneActive, sounding, caller, accepted, retuned>>

Note(tone, gap) == [tone |-> tone, gap |-> gap]

(* The sounds of cyd_speaker_play_event(), some of which differ in pitch and length only. *)
EventSounds ==
    [click   |-> <<Note(TRUE, FALSE)>>,
     beep    |-> <<Note(TRUE, FALSE)>>,
     error   |-> <<Note(TRUE, TRUE), Note(TRUE, FALSE)>>,
     warning |-> <<Note(TRUE, TRUE), Note(TRUE, FALSE)>>,
     alert   |-> <<Note(TRUE, TRUE), Note(TRUE, TRUE), Note(TRUE, FALSE)>>,
     alarm   |-> <<Note(TRUE, TRUE), Note(TRUE, TRUE), Note(TRUE, TRUE), Note(TRUE, FALSE)>>,
     success |-> <<Note(TRUE, TRUE), Note(TRUE, FALSE)>>]

STOP == <<>>        \* CYD_SPEAKER_CMD_STOP: no notes
Command(sound, number) == [sound |-> sound, number |-> number]
NoCommand == Command(STOP, 0)

SpeakerInit ==
    /\ speakerQueue = <<>>
    /\ speaker = [at |-> "receive", cmd |-> NoCommand, note |-> 0, hand |-> NoCommand]
    /\ toneActive = FALSE
    /\ sounding = FALSE
    /\ caller = [c \in Callers |-> "idle"]
    /\ accepted = 0
    /\ retuned = FALSE

-----------------------------------------------------------------------------
(* The callers. *)

(* cyd_speaker_send: a queue that stays full for 100 ms refuses the command. *)
SpeakerSend(sound) ==
    /\ Len(speakerQueue) < SpeakerQueue
    /\ accepted < MaxCommands
    /\ speakerQueue' = Append(speakerQueue, Command(sound, accepted + 1))
    /\ accepted' = accepted + 1

PlaySequence(c) ==
    /\ caller[c] = "idle"
    /\ \E sound \in Sounds : SpeakerSend(sound)
    /\ UNCHANGED <<speaker, toneActive, sounding, caller, retuned>>

(* cyd_speaker_stop: the queue is emptied first, and STOP sent afterwards. *)
StopReset(c) ==
    /\ caller[c] = "idle"
    /\ accepted < MaxCommands
    /\ speakerQueue' = <<>>
    /\ caller' = [caller EXCEPT ![c] = "stopping"]
    /\ UNCHANGED <<speaker, toneActive, sounding, accepted, retuned>>

StopSend(c) ==
    /\ caller[c] = "stopping"
    /\ \/ SpeakerSend(STOP)
       \/ /\ Len(speakerQueue) = SpeakerQueue \/ accepted = MaxCommands
          /\ UNCHANGED <<speakerQueue, accepted>>
    /\ caller' = [caller EXCEPT ![c] = "idle"]
    /\ UNCHANGED <<speaker, toneActive, sounding, retuned>>

(* cyd_speaker_set_volume_percent: looks whether a tone is on, then sets the duty. *)
VolumeLook(c) ==
    /\ caller[c] = "idle"
    /\ toneActive
    /\ caller' = [caller EXCEPT ![c] = "volume"]
    /\ UNCHANGED <<speakerQueue, speaker, toneActive, sounding, accepted, retuned>>

VolumeApply(c) ==
    /\ caller[c] = "volume"
    /\ sounding' = TRUE
    /\ retuned' = (retuned \/ ~toneActive)
    /\ caller' = [caller EXCEPT ![c] = "idle"]
    /\ UNCHANGED <<speakerQueue, speaker, toneActive, accepted>>

-----------------------------------------------------------------------------
(* The task. *)

Silence ==
    /\ toneActive' = FALSE
    /\ sounding' = FALSE
    /\ retuned' = FALSE

Tone ==
    /\ toneActive' = TRUE
    /\ sounding' = TRUE
    /\ retuned' = FALSE

(* cyd_speaker_task: takes the next command; STOP is served at once. *)
ReceiveCommand ==
    /\ speaker.at = "receive"
    /\ speakerQueue # <<>>
    /\ LET cmd == Head(speakerQueue) IN
        IF cmd.sound = STOP
        THEN /\ speaker' = [speaker EXCEPT !.cmd = cmd]
             /\ Silence
        ELSE /\ speaker' = [speaker EXCEPT !.at = "note", !.cmd = cmd, !.note = 1]
             /\ UNCHANGED <<toneActive, sounding, retuned>>
    /\ speakerQueue' = Tail(speakerQueue)
    /\ UNCHANGED <<caller, accepted>>

(* The end of the tone, or of a note without one: silence, and the gap if it has one. *)
AfterTone(i) ==
    /\ Silence
    /\ speaker' = IF speaker.cmd.sound[i].gap
                  THEN [speaker EXCEPT !.at = "gap"]
                  ELSE [speaker EXCEPT !.at = "note", !.note = i + 1]

(* cyd_speaker_play_notes: the next note, or the end of the sound. *)
NextNote ==
    /\ speaker.at = "note"
    /\ \/ /\ speaker.note > Len(speaker.cmd.sound)
          /\ Silence
          /\ speaker' = [speaker EXCEPT !.at = "receive"]
       \/ /\ speaker.note <= Len(speaker.cmd.sound)
          /\ IF speaker.cmd.sound[speaker.note].tone
             THEN Tone /\ speaker' = [speaker EXCEPT !.at = "tone"]
             ELSE AfterTone(speaker.note)
    /\ UNCHANGED <<speakerQueue, caller, accepted>>

WaitOver ==
    /\ speakerQueue = <<>>
    /\ \/ speaker.at = "tone" /\ AfterTone(speaker.note)
       \/ /\ speaker.at = "gap"
          /\ speaker' = [speaker EXCEPT !.at = "note", !.note = @ + 1]
          /\ UNCHANGED <<toneActive, sounding, retuned>>
    /\ UNCHANGED <<speakerQueue, caller, accepted>>

(* cyd_speaker_delay_or_stop: a command that comes during a tone or a gap ends the sound. *)
Interrupt ==
    /\ speaker.at \in {"tone", "gap"}
    /\ speakerQueue # <<>>
    /\ LET cmd == Head(speakerQueue) IN
        speaker' = IF cmd.sound = STOP
                   THEN [speaker EXCEPT !.at = "receive", !.cmd = cmd]
                   ELSE [speaker EXCEPT !.at = "requeue", !.hand = cmd]
    /\ speakerQueue' = Tail(speakerQueue)
    /\ Silence
    /\ UNCHANGED <<caller, accepted>>

(* Mistaken: the command goes to the back, behind what was asked for after it. *)
PutBackLast(cmd) == Append(speakerQueue, cmd)

(* xQueueSendToFront *)
PutBack(cmd) == <<cmd>> \o speakerQueue

(* Back to the queue with it, unless a caller has taken its place meanwhile. *)
Requeue ==
    /\ speaker.at = "requeue"
    /\ speakerQueue' = IF Len(speakerQueue) < SpeakerQueue THEN PutBack(speaker.hand) ELSE speakerQueue
    /\ speaker' = [speaker EXCEPT !.at = "receive", !.hand = NoCommand]
    /\ UNCHANGED <<toneActive, sounding, caller, accepted, retuned>>

-----------------------------------------------------------------------------
SpeakerTask == ReceiveCommand \/ NextNote \/ WaitOver \/ Interrupt \/ Requeue

SpeakerNext ==
    \/ SpeakerTask
    \/ \E c \in Callers :
        PlaySequence(c) \/ StopReset(c) \/ StopSend(c) \/ VolumeLook(c) \/ VolumeApply(c)

-----------------------------------------------------------------------------
Commands == [sound : Sounds \cup {STOP}, number : 0..MaxCommands]

SpeakerTypeOK ==
    /\ speakerQueue \in Seq(Commands) /\ Len(speakerQueue) <= SpeakerQueue
    /\ speaker \in [at : {"receive", "note", "tone", "gap", "requeue"}, cmd : Commands,
                    note : Nat, hand : Commands]
    /\ toneActive \in BOOLEAN /\ sounding \in BOOLEAN /\ retuned \in BOOLEAN
    /\ caller \in [Callers -> {"idle", "stopping", "volume"}]
    /\ accepted \in 0..MaxCommands

(* However sounds interrupt each other, callers fill the queue behind an interrupting sound,  *)
(* and stops empty it, the newest command is never lost, and the sounds begin in the order in  *)
(* which they were asked for: no sound that was asked for before a STOP comes back after it     *)
(* (cyd_speaker.c:111-129 and the comment there).                                               *)
NewestIsServed ==
    LET waiting == Range(speakerQueue) \cup (IF speaker.at = "requeue" THEN {speaker.hand} ELSE {}) IN
    /\ \/ accepted = speaker.cmd.number
       \/ \E cmd \in waiting : cmd.number = accepted
       \/ \E c \in Callers : caller[c] = "stopping"
    /\ \A cmd \in waiting : cmd.number > speaker.cmd.number

(* A tone does not outlive its sound: while no note sounds the speaker is silent, except after a *)
(* volume change that looked before the tone ended and set the duty after it                      *)
(* (cyd_speaker.c:70-79, 276-293).                                                                *)
ToneEndsWithSound == sounding /\ speaker.at # "tone" => retuned
=============================================================================
