----------------------------- MODULE Parts_proofs -----------------------------
(***************************************************************************)
(* The parts that MCParts puts side by side, each for itself.  The touch   *)
(* that opens the settings at start-up reaches no app; the clock and Wi-Fi *)
(* setup show what is so and act on what they show; the speaker and the    *)
(* LED follow what was asked for last; the settings save what was set and  *)
(* delete what was shown; the panel ends with the newest screen.  The last *)
(* section puts the parts together again.                                  *)
(***************************************************************************)
EXTENDS MCParts, SequenceTheorems, FiniteSetTheorems, TLAPS


-----------------------------------------------------------------------------
(* A set of numbers has a smallest: of the intervals below its members, ordered *)
(* by inclusion, one is minimal.                                              *)
LEMMA Smallest ==
    ASSUME NEW S \in SUBSET Nat, S # {}
    PROVE  \E i \in S : \A j \in S : i <= j
  <1>. DEFINE Below == {0 .. i : i \in S}
  <1>1. Below \subseteq FiniteSubsetsOf(Nat) /\ Below # {}
    <2>1. \A i \in S : 0 .. i \subseteq Nat /\ IsFiniteSet(0 .. i)
      BY FS_Interval
    <2>. QED
      BY <2>1 DEF FiniteSubsetsOf
  <1>2. PICK x \in Below : \A y \in Below : <<y, x>> \notin StrictSubsetOrdering(Nat)
    <2>. HIDE DEF Below
    <2>. QED
      BY <1>1, WFMin, FS_StrictSubsetOrderingWellFounded
  <1>3. PICK i \in S : x = 0 .. i
    BY <1>2
  <1>4. ASSUME NEW j \in S, j < i PROVE FALSE
    <2>1. 0 .. j \in Below /\ 0 .. j \subseteq 0 .. i /\ i \notin 0 .. j /\ i \in 0 .. i
      BY <1>4
    <2>2. <<0 .. j, x>> \in StrictSubsetOrdering(Nat)
      BY <2>1, <1>3 DEF StrictSubsetOrdering
    <2>. QED
      BY <1>2, <2>1, <2>2
  <1>. QED
    BY <1>4


-----------------------------------------------------------------------------
(* The start-up (SystemBoot). *)

(* The places of the boot behind the wait for the release *)
AfterRelease == {"calibration", "calibrate", "discard", "done"}

(* Before the input task runs there is nothing of it, and nothing is counted before the wait. *)
InputIsSilent == boot.at \in {"early", "init", "failed"} => ~seen /\ edge = 0 /\ events = <<>> /\ behind = 0
NothingCounted ==
    boot.at \in {"early", "init", "failed", "window"} => boot.stable = 0 /\ boot.polls = 0 /\ ~boot.overdue
NobodyAsked == boot.at = "window" => ~boot.requested
HeldIsPast == boot.held <= touch
NotAborted == boot.at \notin {"discard", "done"} => ~boot.aborted

(* While the touch is the one that asked for the settings, what the input task has not seen yet *)
(* bounds the polls that counted as released.                                                  *)
HeldThrough ==
    boot.at = "wait" =>
        /\ boot.stable < StablePolls
        /\ ~boot.overdue
        /\ down /\ ~seen /\ touch = boot.held => edge = 0 /\ boot.stable <= behind
        /\ seen /\ touch = boot.held => boot.stable <= Lag
        /\ ~seen /\ edge # 0 /\ edge <= boot.held => boot.stable <= Lag + behind

(* As long as its PRESS is still to come, the wait is no older than the input task is behind.   *)
PressToCome ==
    \/ down /\ ~seen /\ touch = boot.held
    \/ seen /\ edge # 0 /\ edge <= boot.held
PressSoon ==
    boot.at = "wait" =>
        /\ PressToCome => boot.polls <= behind
        /\ boot.polls > Lag => \A i \in 1..Len(events) : events[i].press => events[i].of > boot.held

(* After the release, the queue holds later touches only, and so will what is on its way. *)
Released ==
    boot.at \in AfterRelease /\ boot.requested /\ ~boot.overdue =>
        /\ touch > boot.held \/ (~down /\ ~seen)
        /\ edge # 0 => edge > boot.held
        /\ \A i \in 1..Len(events) : events[i].of > boot.held

(* After the wait, however it ended, no PRESS of the hold is left or will come. *)
PressIsPast ==
    boot.at \in AfterRelease /\ boot.requested /\ ~(boot.overdue /\ boot.aborted) => NoPressOfTheHold

Parked == boot.at = "calibrate" => edge = 0

BootInv ==
    /\ BootTypeOK /\ InputIsSilent /\ NothingCounted /\ NobodyAsked /\ HeldIsPast /\ NotAborted
    /\ HeldThrough /\ PressSoon /\ Released /\ PressIsPast /\ Parked

LEMMA PushType ==
    ASSUME BootTypeOK, NEW e \in FingerEvents
    PROVE  Push(events, e) \in Seq(FingerEvents) /\ Len(Push(events, e)) <= MaxEvents
  <1>1. events \in Seq(FingerEvents) /\ Len(events) <= MaxEvents
    BY DEF BootTypeOK
  <1>2. CASE Len(events) = MaxEvents
    <2>1. Tail(events) \in Seq(FingerEvents) /\ Len(Tail(events)) = MaxEvents - 1
      BY <1>1, <1>2, BootAssumption
    <2>. QED
      BY <1>1, <1>2, <2>1, BootAssumption DEF Push
  <1>3. CASE Len(events) # MaxEvents
    BY <1>1, <1>3, BootAssumption DEF Push
  <1>. QED
    BY <1>2, <1>3

(* What is in the queue after an event is that event, or was there. *)
LEMMA Pushed ==
    ASSUME BootTypeOK, NEW e \in FingerEvents, NEW i \in 1..Len(Push(events, e))
    PROVE  Push(events, e)[i] = e \/ \E j \in 1..Len(events) : Push(events, e)[i] = events[j]
  <1>1. events \in Seq(FingerEvents) /\ Len(events) \in Nat
    BY DEF BootTypeOK
  <1>2. CASE Len(events) = MaxEvents
    <2>1. /\ Tail(events) \in Seq(FingerEvents) /\ Len(Tail(events)) = Len(events) - 1
          /\ \A k \in 1..Len(events) - 1 : Tail(events)[k] = events[k + 1]
      BY <1>1, <1>2, BootAssumption
    <2>2. Push(events, e) = Append(Tail(events), e)
      BY <1>2 DEF Push
    <2>3. Len(Push(events, e)) = Len(events) /\ Push(events, e)[Len(events)] = e
          /\ \A k \in 1..Len(events) - 1 : Push(events, e)[k] = events[k + 1]
      BY <1>1, <2>1, <2>2
    <2>. QED
      BY <1>1, <2>3
  <1>3. CASE Len(events) # MaxEvents
    <2>1. Push(events, e) = Append(events, e)
      BY <1>3 DEF Push
    <2>. QED
      BY <1>1, <2>1
  <1>. QED
    BY <1>2, <1>3

LEMMA NoEvents == <<>> \in Seq(FingerEvents) /\ Len(<<>>) <= MaxEvents /\ Len(<<>>) = 0
  BY BootAssumption

LEMMA FirstBootType == FirstBoot \in Boots
  BY BootAssumption DEF FirstBoot, Boots, BootPlaces

LEMMA BootStarts == BootInit => BootInv
  <1>. SUFFICES ASSUME BootInit PROVE BootInv
    OBVIOUS
  <1>1. /\ boot \in Boots /\ boot.at = "early" /\ boot.stable = 0 /\ boot.polls = 0 /\ boot.held = 0
        /\ ~boot.overdue /\ ~boot.aborted
    BY FirstBootType DEF BootInit, FirstBoot
  <1>2. touch \in 0..MaxTouches
    <2>1. touch \in 0..1 /\ (down => touch = 1) /\ (~down => touch = 0)
      BY DEF BootInit
    <2>. QED
      BY <2>1, BootAssumption
  <1>3. 0 \in 0..Lag /\ 0 \in 0..MaxTouches
    BY BootAssumption
  <1>4. BootTypeOK
    BY <1>1, <1>2, <1>3, NoEvents DEF BootInit, BootTypeOK
  <1>. QED
    BY <1>1, <1>2, <1>4, NoEvents
    DEF BootInit, BootInv, InputIsSilent, NothingCounted, NobodyAsked, HeldIsPast, NotAborted,
        HeldThrough, PressSoon, Released, PressIsPast, Parked, AfterRelease

(* The polls of the wait are counted as far as they matter. *)
LEMMA PollType ==
    ASSUME BootTypeOK, HeldThrough, WaitPoll
    PROVE  /\ boot.at = "wait" /\ boot' \in Boots
           /\ boot'.stable = 0 \/ (~seen /\ boot'.stable = boot.stable + 1)
           /\ seen => boot'.stable = 0
           /\ boot'.at = IF Left(boot'.stable) THEN "calibration" ELSE "wait"
           /\ boot'.polls = IF boot.polls > Lag THEN boot.polls ELSE boot.polls + 1
           /\ boot'.held = boot.held /\ boot'.overdue = boot.overdue
           /\ boot'.requested = boot.requested /\ boot'.aborted = boot.aborted
  <1>. DEFINE polls == IF boot.polls > Lag THEN boot.polls ELSE boot.polls + 1
  <1>1. PICK stable \in {0, boot.stable + 1} :
            /\ boot' = [boot EXCEPT !.stable = stable, !.at = IF Left(stable) THEN "calibration" ELSE @,
                                    !.polls = polls]
            /\ seen => stable = 0
    BY DEF WaitPoll
  <1>2. boot.at = "wait" /\ boot.stable < StablePolls /\ boot \in Boots
    BY DEF WaitPoll, HeldThrough, BootTypeOK
  <1>3. stable \in 0..StablePolls /\ polls \in 0..(Lag + 1)
    BY <1>1, <1>2, BootAssumption DEF Boots
  <1>. HIDE DEF polls
  <1>4. boot' \in Boots
    BY <1>1, <1>2, <1>3 DEF Boots, BootPlaces
  <1>5. /\ boot'.stable = stable /\ boot'.polls = polls
        /\ boot'.at = IF Left(stable) THEN "calibration" ELSE boot.at
        /\ boot'.held = boot.held /\ boot'.overdue = boot.overdue
        /\ boot'.requested = boot.requested /\ boot'.aborted = boot.aborted
    BY <1>1, <1>2 DEF Boots
  <1>. QED
    BY <1>1, <1>2, <1>4, <1>5 DEF polls

LEMMA BootTypeKept == BootInv /\ [BootNext]_bootVars => BootTypeOK'
  <1>. SUFFICES ASSUME BootInv, [BootNext]_bootVars PROVE BootTypeOK'
    OBVIOUS
  <1>0. BootTypeOK /\ HeldThrough
    BY DEF BootInv
  <1>1. CASE FingerDown
    BY <1>0, <1>1, BootAssumption DEF FingerDown, BootTypeOK
  <1>2. CASE FingerUp
    BY <1>0, <1>2 DEF FingerUp, BootTypeOK
  <1>3. CASE InputSees
    BY <1>0, <1>3 DEF InputSees, BootTypeOK
  <1>4. CASE InputQueues
    <2>1. 0 \in 0..Lag /\ 0 \in 0..MaxTouches
      BY BootAssumption
    <2>2. [of |-> edge, press |-> seen] \in FingerEvents
      BY <1>0 DEF BootTypeOK, FingerEvents
    <2>. QED
      BY <1>0, <1>4, <2>1, <2>2, PushType DEF InputQueues, BootTypeOK
  <1>5. CASE InputHolds
    <2>1. [of |-> touch, press |-> FALSE] \in FingerEvents
      BY <1>0 DEF BootTypeOK, FingerEvents
    <2>. QED
      BY <1>0, <1>5, <2>1, PushType DEF InputHolds, BootTypeOK
  <1>6. CASE EarlyCheck
    <2>1. boot \in Boots /\ touch \in 0..MaxTouches
      BY <1>0 DEF BootTypeOK
    <2>2. Requested \in Boots
      BY <2>1 DEF Requested, Boots
    <2>3. [Requested EXCEPT !.at = "init"] \in Boots /\ [boot EXCEPT !.at = "init"] \in Boots
      BY <2>1, <2>2 DEF Boots, BootPlaces
    <2>4. boot' \in Boots
      BY <1>6, <2>3 DEF EarlyCheck
    <2>. QED
      BY <1>0, <1>6, <2>4 DEF EarlyCheck, BootTypeOK
  <1>7. CASE InitDevices
    BY <1>0, <1>7 DEF InitDevices, BootTypeOK, Boots, BootPlaces
  <1>8. CASE BootAgain
    BY <1>0, <1>8, FirstBootType DEF BootAgain, BootTypeOK
  <1>9. CASE WindowCheck
    BY <1>0, <1>9 DEF WindowCheck, Requested, BootTypeOK, Boots, BootPlaces
  <1>10. CASE WaitPoll
    <2>1. behind' \in 0..Lag
      BY <1>0, <1>10, BootAssumption DEF WaitPoll, BootTypeOK
    <2>2. events' \in Seq(FingerEvents) /\ Len(events') <= MaxEvents
      BY <1>10, NoEvents DEF WaitPoll
    <2>3. boot' \in Boots
      BY <1>0, <1>10, PollType
    <2>4. UNCHANGED <<down, touch, seen, edge, calibrated>>
      BY <1>10 DEF WaitPoll
    <2>. QED
      BY <1>0, <2>1, <2>2, <2>3, <2>4 DEF BootTypeOK
  <1>11. CASE WaitOverdue
    BY <1>0, <1>11 DEF WaitOverdue, BootTypeOK, Boots, BootPlaces
  <1>12. CASE BeginCalibration
    BY <1>0, <1>12 DEF BeginCalibration, BootTypeOK, Boots, BootPlaces
  <1>13. CASE EndCalibration
    <2>1. events' \in Seq(FingerEvents) /\ Len(events') <= MaxEvents
      BY <1>0, <1>13, NoEvents DEF EndCalibration, BootTypeOK
    <2>2. boot' \in Boots
      BY <1>0, <1>13 DEF EndCalibration, BootTypeOK, Boots, BootPlaces
    <2>3. seen' \in BOOLEAN /\ calibrated' \in BOOLEAN
      BY <1>13 DEF EndCalibration
    <2>4. behind' = 0 /\ 0 \in 0..Lag
      BY <1>13, BootAssumption DEF EndCalibration
    <2>. QED
      BY <1>0, <1>13, <2>1, <2>2, <2>3, <2>4 DEF EndCalibration, BootTypeOK
  <1>14. CASE HandOver
    <2>1. events' \in Seq(FingerEvents) /\ Len(events') <= MaxEvents
      BY <1>0, <1>14, NoEvents DEF HandOver, BootTypeOK
    <2>. QED
      BY <1>0, <1>14, <2>1 DEF HandOver, BootTypeOK, Boots, BootPlaces
  <1>15. CASE UNCHANGED bootVars
    BY <1>0, <1>15 DEF bootVars, BootTypeOK
  <1>. QED
    BY <1>1, <1>2, <1>3, <1>4, <1>5, <1>6, <1>7, <1>8, <1>9, <1>10, <1>11, <1>12, <1>13, <1>14, <1>15 DEF BootNext

LEMMA WindowKeeps == BootInv /\ BootTypeOK' /\ WindowCheck => BootInv'
  <1>. SUFFICES ASSUME BootInv, BootTypeOK', WindowCheck PROVE BootInv'
    OBVIOUS
  <1>1. /\ boot.at = "window" /\ UNCHANGED <<down, touch, seen, edge, events, behind>>
        /\ BootTypeOK /\ boot.stable = 0 /\ boot.polls = 0 /\ boot.overdue = FALSE /\ boot.held <= touch
        /\ ~boot.requested /\ boot.aborted = FALSE
    BY DEF WindowCheck, BootInv, NothingCounted, NobodyAsked, HeldIsPast, NotAborted, BootTypeOK, Boots
  <1>2. touch \in Nat /\ Lag \in Nat /\ StablePolls > 0 /\ behind \in Nat /\ behind <= Lag
    BY <1>1, BootAssumption DEF BootTypeOK
  <1>3. CASE seen
    <2>1. /\ boot'.at = "wait" /\ boot'.stable = 0 /\ boot'.polls = 0 /\ boot'.held = touch
          /\ boot'.overdue = FALSE /\ boot'.aborted = FALSE
      BY <1>1, <1>3 DEF WindowCheck, Requested, BootTypeOK, Boots
    <2>2. HeldThrough' /\ PressSoon'
      BY <1>1, <1>2, <1>3, <2>1 DEF HeldThrough, PressSoon
    <2>. QED
      BY <1>1, <1>2, <2>1, <2>2
      DEF BootInv, InputIsSilent, NothingCounted, NobodyAsked, HeldIsPast, NotAborted, Released,
          PressIsPast, AfterRelease, Parked
  <1>4. CASE ~seen
    <2>1. boot' = [boot EXCEPT !.at = "calibration"]
      BY <1>4 DEF WindowCheck
    <2>2. boot'.at = "calibration" /\ boot'.held = boot.held /\ ~boot'.requested /\ ~boot'.aborted
      BY <1>1, <2>1 DEF BootTypeOK, Boots
    <2>. QED
      BY <1>1, <2>2, <1>2
      DEF BootInv, InputIsSilent, NothingCounted, NobodyAsked, HeldIsPast, NotAborted, HeldThrough,
          PressSoon, Released, PressIsPast, AfterRelease, Parked
  <1>. QED
    BY <1>3, <1>4

LEMMA QueuesKeeps == BootInv /\ BootTypeOK' /\ (InputQueues \/ InputHolds) => BootInv'
  <1>. SUFFICES ASSUME BootInv, BootTypeOK', InputQueues \/ InputHolds PROVE BootInv'
    OBVIOUS
  <1>1. PICK e \in FingerEvents :
          /\ events' = Push(events, e)
          /\ \/ InputQueues /\ e.of = edge /\ e.press = seen
             \/ InputHolds /\ e.of = touch /\ e.press = FALSE
    <2>1. [of |-> edge, press |-> seen] \in FingerEvents /\ [of |-> touch, press |-> FALSE] \in FingerEvents
      BY DEF BootInv, BootTypeOK, FingerEvents
    <2>. QED
      BY <2>1 DEF InputQueues, InputHolds
  <1>2. \A i \in 1..Len(events') : events'[i] = e \/ \E j \in 1..Len(events) : events'[i] = events[j]
    BY <1>1, Pushed DEF BootInv
  <1>3. UNCHANGED <<boot, down, touch, seen>>
    BY DEF InputQueues, InputHolds
  <1>4. boot.at \notin {"early", "init", "failed", "calibrate"}
    BY DEF InputQueues, InputHolds, InputRuns, BootInv, InputIsSilent, Parked
  <1>5. /\ touch \in Nat /\ edge \in Nat /\ boot.held \in Nat /\ boot.held <= touch /\ Lag \in Nat
        /\ behind \in Nat /\ behind <= Lag /\ boot.polls \in Nat /\ boot.stable \in Nat
    BY BootAssumption DEF BootInv, BootTypeOK, Boots, HeldIsPast
  <1>6. \/ InputQueues /\ edge # 0 /\ edge' = 0 /\ behind' = 0
        \/ InputHolds /\ seen /\ edge = 0 /\ edge' = edge /\ behind' = behind
    BY DEF InputQueues, InputHolds
  <1>7. HeldThrough'
    BY <1>3, <1>5, <1>6 DEF BootInv, HeldThrough
  <1>8. PressSoon'
    <2>. SUFFICES ASSUME boot.at = "wait"
                  PROVE  /\ PressToCome' => boot.polls <= behind'
                         /\ boot.polls > Lag => \A i \in 1..Len(events') :
                                events'[i].press => events'[i].of > boot.held
      BY <1>3 DEF PressSoon
    <2>1. ~PressToCome'
      BY <1>3, <1>5, <1>6 DEF BootInv, HeldThrough, PressToCome
    <2>2. boot.polls > Lag => (e.press => e.of > boot.held)
      <3>. SUFFICES ASSUME boot.polls > Lag, e.press PROVE e.of > boot.held
        OBVIOUS
      <3>1. e.of = edge /\ seen /\ edge # 0
        BY <1>1 DEF InputQueues
      <3>2. edge <= boot.held => boot.polls <= behind
        BY <3>1 DEF BootInv, PressSoon, PressToCome
      <3>. QED
        BY <1>5, <3>1, <3>2
    <2>. QED
      BY <1>2, <2>1, <2>2 DEF BootInv, PressSoon
  <1>9. Released'
    <2>. SUFFICES ASSUME boot.at \in AfterRelease, boot.requested, ~boot.overdue
                  PROVE  /\ touch > boot.held \/ (~down /\ ~seen)
                         /\ edge' # 0 => edge' > boot.held
                         /\ \A i \in 1..Len(events') : events'[i].of > boot.held
      BY <1>3 DEF Released
    <2>1. /\ touch > boot.held \/ (~down /\ ~seen)
          /\ edge # 0 => edge > boot.held
          /\ \A i \in 1..Len(events) : events[i].of > boot.held
      BY DEF BootInv, Released
    <2>2. e.of > boot.held
      <3>1. CASE InputQueues /\ e.of = edge
        <4>1. edge # 0
          BY <3>1 DEF InputQueues
        <4>. QED
          BY <2>1, <3>1, <4>1
      <3>2. CASE InputHolds /\ e.of = touch
        <4>1. seen
          BY <3>2 DEF InputHolds
        <4>. QED
          BY <2>1, <3>2, <4>1
      <3>. QED
        BY <1>1, <3>1, <3>2
    <2>. QED
      BY <1>2, <1>6, <2>1, <2>2
  <1>10. PressIsPast'
    <2>. SUFFICES ASSUME boot.at \in AfterRelease, boot.requested, ~(boot.overdue /\ boot.aborted)
                  PROVE  NoPressOfTheHold'
      BY <1>3 DEF PressIsPast
    <2>1. NoPressOfTheHold
      BY DEF BootInv, PressIsPast
    <2>2. e.press => e.of > boot.held
      <3>. SUFFICES ASSUME e.press PROVE e.of > boot.held
        OBVIOUS
      <3>1. e.of = edge /\ seen /\ edge # 0
        BY <1>1 DEF InputQueues
      <3>. QED
        BY <2>1, <3>1 DEF NoPressOfTheHold
    <2>3. \A i \in 1..Len(events') : events'[i].press => events'[i].of > boot.held
      BY <1>2, <2>1, <2>2 DEF NoPressOfTheHold
    <2>4. edge' = 0 \/ edge' = edge
      BY <1>6
    <2>. QED
      BY <1>3, <2>1, <2>3, <2>4 DEF NoPressOfTheHold
  <1>. QED
    BY <1>3, <1>4, <1>6, <1>7, <1>8, <1>9, <1>10
    DEF BootInv, InputIsSilent, NothingCounted, NobodyAsked, HeldIsPast, NotAborted, Parked

LEMMA PollKeeps == BootInv /\ BootTypeOK' /\ WaitPoll => BootInv'
  <1>. SUFFICES ASSUME BootInv, BootTypeOK', WaitPoll PROVE BootInv'
    OBVIOUS
  <1>1. /\ boot.at = "wait"
        /\ boot'.stable = 0 \/ (~seen /\ boot'.stable = boot.stable + 1)
        /\ seen => boot'.stable = 0
        /\ boot'.at = IF boot'.stable >= StablePolls THEN "calibration" ELSE "wait"
        /\ boot'.polls = IF boot.polls > Lag THEN boot.polls ELSE boot.polls + 1
        /\ boot'.held = boot.held /\ boot'.overdue = boot.overdue
        /\ boot'.requested = boot.requested /\ boot'.aborted = boot.aborted
    BY PollType DEF BootInv, Left
  <1>2. Len(events') = 0 /\ UNCHANGED <<down, touch, seen, edge>>
    BY NoEvents DEF WaitPoll
  <1>3. (edge # 0 \/ seen # down) => behind < Lag /\ behind' = behind + 1
    BY DEF WaitPoll, Behind
  <1>4. /\ touch \in Nat /\ edge \in Nat /\ boot.held \in Nat /\ boot.held <= touch /\ Lag \in Nat
        /\ behind \in Nat /\ boot.polls \in Nat /\ boot.stable \in Nat /\ StablePolls \in Nat
        /\ 2 * Lag < StablePolls /\ seen \in BOOLEAN /\ down \in BOOLEAN /\ boot.stable < StablePolls
    BY <1>1, BootAssumption DEF BootInv, BootTypeOK, Boots, HeldIsPast, HeldThrough
  <1>5. behind' \in Nat
    BY DEF BootTypeOK
  <1>6. down /\ ~seen /\ touch = boot.held => boot'.stable <= behind' /\ boot'.stable < StablePolls /\ edge = 0
    <2>. SUFFICES ASSUME down, ~seen, touch = boot.held
                  PROVE  boot'.stable <= behind' /\ boot'.stable < StablePolls /\ edge = 0
      OBVIOUS
    <2>1. behind < Lag /\ behind' = behind + 1
      BY <1>3
    <2>2. edge = 0 /\ boot.stable <= behind
      BY <1>1 DEF BootInv, HeldThrough
    <2>3. boot'.stable = 0 \/ boot'.stable = boot.stable + 1
      BY <1>1
    <2>. QED
      BY <1>4, <2>1, <2>2, <2>3
  <1>7. ~seen /\ edge # 0 /\ edge <= boot.held => boot'.stable <= Lag + behind' /\ boot'.stable < StablePolls
    BY <1>1, <1>3, <1>4 DEF BootInv, HeldThrough
  <1>8. boot'.stable >= StablePolls => ~seen
    BY <1>1, <1>4
  <1>9. HeldThrough'
    BY <1>1, <1>2, <1>4, <1>6, <1>7 DEF BootInv, HeldThrough
  <1>10. PressSoon'
    <2>1. PressToCome' => PressToCome
      BY <1>1, <1>2 DEF PressToCome
    <2>2. PressToCome => boot'.polls <= behind'
      BY <1>1, <1>3, <1>4 DEF BootInv, PressSoon, PressToCome
    <2>. QED
      BY <1>2, <2>1, <2>2 DEF PressSoon
  <1>11. Released'
    BY <1>1, <1>2, <1>4, <1>6, <1>7, <1>8 DEF Released, AfterRelease
  <1>12. PressIsPast'
    BY <1>1, <1>2, <1>4, <1>6, <1>7, <1>8 DEF PressIsPast, NoPressOfTheHold, AfterRelease
  <1>. QED
    BY <1>1, <1>2, <1>4, <1>9, <1>10, <1>11, <1>12
    DEF BootInv, InputIsSilent, NothingCounted, NobodyAsked, HeldIsPast, NotAborted, Parked

LEMMA BootKeeps == BootInv /\ [BootNext]_bootVars => BootInv'
  <1>. SUFFICES ASSUME BootInv, [BootNext]_bootVars PROVE BootInv'
    OBVIOUS
  <1>0. BootTypeOK'
    BY BootTypeKept
  <1>. USE BootAssumption, <1>0
       DEF BootInv, InputIsSilent, NothingCounted, NobodyAsked, HeldIsPast, NotAborted, HeldThrough,
           PressSoon, PressToCome, Released, PressIsPast, NoPressOfTheHold, Parked, AfterRelease
  <1>1. CASE FingerDown
    BY <1>1 DEF FingerDown, BootTypeOK, Boots
  <1>2. CASE FingerUp
    BY <1>2 DEF FingerUp, BootTypeOK, Boots
  <1>3. CASE InputSees
    BY <1>3 DEF InputSees, InputRuns, BootTypeOK, Boots
  <1>4. CASE InputQueues \/ InputHolds
    BY <1>4, QueuesKeeps
  <1>6. CASE EarlyCheck
    <2>1. /\ boot'.at = "init" /\ boot'.stable = boot.stable /\ boot'.overdue = boot.overdue
          /\ boot'.held \in {boot.held, touch} /\ boot'.polls = boot.polls /\ boot'.aborted = boot.aborted
      BY <1>6 DEF EarlyCheck, Requested, BootTypeOK, Boots
    <2>. QED
      BY <1>6, <2>1 DEF EarlyCheck, BootTypeOK, Boots
  <1>7. CASE InitDevices
    BY <1>7, NoEvents DEF InitDevices, BootTypeOK, Boots, BootPlaces
  <1>8. CASE BootAgain
    BY <1>8 DEF BootAgain, FirstBoot, BootTypeOK, Boots, BootPlaces
  <1>9. CASE WindowCheck
    BY <1>9, WindowKeeps
  <1>10. CASE WaitPoll
    BY <1>10, PollKeeps
  <1>11. CASE WaitOverdue
    BY <1>11 DEF WaitOverdue, BootTypeOK, Boots, BootPlaces
  <1>12. CASE BeginCalibration
    <2>1. /\ UNCHANGED <<down, touch, seen, edge, events, behind>> /\ boot.at = "calibration"
          /\ boot'.at = "discard" \/ (boot'.at = "calibrate" /\ edge = 0)
          /\ boot'.requested = boot.requested /\ boot'.held = boot.held
          /\ boot'.overdue = boot.overdue /\ boot'.aborted = boot.aborted
      BY <1>12 DEF BeginCalibration, BootTypeOK, Boots
    <2>2. InputIsSilent' /\ NothingCounted' /\ NobodyAsked' /\ HeldIsPast' /\ HeldThrough' /\ PressSoon'
          /\ Parked'
      BY <2>1
    <2>3. NotAborted' /\ Released' /\ PressIsPast'
      BY <2>1
    <2>. QED
      BY <2>2, <2>3
  <1>13. CASE EndCalibration
    BY <1>13, NoEvents DEF EndCalibration, BootTypeOK, Boots, BootPlaces
  <1>14. CASE HandOver
    BY <1>14, NoEvents DEF HandOver, BootTypeOK, Boots, BootPlaces
  <1>15. CASE UNCHANGED bootVars
    BY <1>15 DEF bootVars, BootTypeOK, Boots
  <1>. QED
    BY <1>1, <1>2, <1>3, <1>4, <1>6, <1>7, <1>8, <1>9, <1>10, <1>11, <1>12, <1>13, <1>14, <1>15 DEF BootNext

(* The start-up: the hold that opened the settings is no tap of the first app, for every number of   *)
(* touches and every length of the event queue, as long as the input task cannot be behind for all   *)
(* of the polls that make a release (system_boot.c:194-231): nothing of it is left when the release  *)
(* was seen, and no PRESS when the wait ran out, whatever the finger did then.                       *)
THEOREM TheHoldIsNoTap == BootInit /\ [][BootNext]_bootVars => []HoldIsNoTap
  <1>1. BootInv => HoldIsNoTap
    <2>. SUFFICES ASSUME BootInv, boot.at = "done", boot.requested
                  PROVE  /\ ~boot.overdue => NothingOfTheHold
                         /\ ~(boot.overdue /\ boot.aborted) => NoPressOfTheHold
      BY DEF HoldIsNoTap
    <2>. QED
      BY DEF BootInv, Released, PressIsPast, AfterRelease, NothingOfTheHold
  <1>. QED
    BY <1>1, BootStarts, BootKeeps, PTL

-----------------------------------------------------------------------------
(* The clock on the screen (ClockScreens). *)

ClockPlaces ==
    {"input", "setup?", "failed?", "draw", "leaving", "away", "failed", "asking", "retrying", "pages"}
ClockShape == clock \in [at : ClockPlaces, needs : BOOLEAN, redraw : BOOLEAN]

(* The face shows the alarms as they are, unless the step or the next one draws it anyway; a page *)
(* of the settings always does.                                                                  *)
FaceIsTrue ==
    clock.at \in {"input", "setup?", "failed?", "draw"} /\ ~changed =>
        clock.needs \/ clock.redraw \/ glass = Face(face, alarms)
PageIsTrue == clock.at = "pages" /\ ~changed => glass = PageOf(page, alarms, guarded)
ClockInv == ClockShape /\ FaceIsTrue /\ PageIsTrue

LEMMA ClockStarts == ClockInit => ClockInv
  BY DEF ClockInit, ClockInv, ClockShape, ClockPlaces, FaceIsTrue, PageIsTrue

LEMMA ClockKeeps == ClockInv /\ [ClockNext]_clockVars => ClockInv'
  <1>. SUFFICES ASSUME ClockInv, [ClockNext]_clockVars PROVE ClockInv'
    OBVIOUS
  <1>. USE DEF ClockInv, ClockShape, ClockPlaces, FaceIsTrue, PageIsTrue
  <1>1. CASE Tick \/ AlarmGoesOff
    BY <1>1 DEF Tick, AlarmGoesOff
  <1>2. ASSUME NEW b, PressFace(b) PROVE ClockInv'
    BY <1>2 DEF PressFace
  <1>3. ASSUME NEW b, ReleaseFace(b) PROVE ClockInv'
    <2>1. CASE clock'.redraw /\ clock'.at = "input" /\ ClockShape'
      BY <2>1
    <2>2. CASE clock'.at = "leaving" /\ ClockShape'
      BY <2>2
    <2>3. CASE UNCHANGED <<clock, face, alarms, glass, changed>>
      BY <1>3, <2>3 DEF ReleaseFace
    <2>4. ClockShape'
      BY <1>3 DEF ReleaseFace
    <2>. QED
      BY <1>3, <2>1, <2>2, <2>3, <2>4 DEF ReleaseFace
  <1>4. CASE HoldFace \/ TakeTicks \/ LookForSetup \/ LookForFailure
    BY <1>4 DEF HoldFace, TakeTicks, LookForSetup, LookForFailure
  <1>5. CASE Draw
    BY <1>5 DEF Draw
  <1>6. CASE LeaveFace
    BY <1>6 DEF LeaveFace
  <1>7. CASE EnterClock
    BY <1>7 DEF EnterClock
  <1>8. CASE ShowFailed
    BY <1>8 DEF ShowFailed
  <1>9. CASE FailedGivesUp
    BY <1>9 DEF FailedGivesUp, BackToFace, RedrawAfter
  <1>10. CASE Retrying
    <2>1. CASE BackToFace
      BY <2>1 DEF BackToFace, RedrawAfter
    <2>2. CASE clock' = [clock EXCEPT !.at = "failed"]
      BY <2>2
    <2>3. CASE UNCHANGED clock
      BY <1>10, <2>3 DEF Retrying
    <2>. QED
      BY <1>10, <2>1, <2>2, <2>3 DEF Retrying
  <1>11. ASSUME NEW b, RetryTouch(b) \/ PressFailed(b) PROVE ClockInv'
    BY <1>11 DEF RetryTouch, PressFailed
  <1>12. ASSUME NEW b, ReleaseFailed(b) PROVE ClockInv'
    BY <1>12 DEF ReleaseFailed, RedrawAfter
  <1>13. CASE EnterPages
    BY <1>13 DEF EnterPages, ShowPage
  <1>14. ASSUME NEW b, PressPage(b) PROVE ClockInv'
    BY <1>14 DEF PressPage, StepAlarm, ShowPage
  <1>15. ASSUME NEW b, HoldPage(b) PROVE ClockInv'
    BY <1>15 DEF HoldPage, StepAlarm, ShowPage
  <1>16. ASSUME NEW b, ReleasePage(b) PROVE ClockInv'
    <2>1. CASE UNCHANGED <<clock, alarms, glass, page, guarded, changed>>
      BY <1>16, <2>1 DEF ReleasePage
    <2>2. CASE PageButton(b)
      <3>1. CASE \E p : TurnTo(p)
        BY <3>1, <1>16 DEF ReleasePage, TurnTo, ShowPage
      <3>2. CASE ChoosePin
        BY <3>2, <1>16 DEF ReleasePage, ChoosePin, ShowPage
      <3>3. CASE clock' = [clock EXCEPT !.at = "away"]
        BY <3>3
      <3>. QED
        BY <2>1, <2>2, <3>1, <3>2, <3>3 DEF PageButton
    <2>. QED
      BY <1>16, <2>1, <2>2 DEF ReleasePage
  <1>17. CASE UNCHANGED clockVars
    BY <1>17 DEF clockVars
  <1>. QED
    BY <1>1, <1>2, <1>3, <1>4, <1>5, <1>6, <1>7, <1>11, <1>12, <1>13, <1>14, <1>15, <1>16, <1>17, <1>8, <1>9, <1>10 DEF ClockNext

(* The clock: its face and the pages of its settings show what is so, for every number of times     *)
(* (cyd_clock_app.c:566-598).                                                                       *)
THEOREM WhatTheClockShowsIsTrue == ClockInit /\ [][ClockNext]_clockVars => []ShownIsTrue
  <1>1. ClockInv => ShownIsTrue
    BY DEF ClockInv, FaceIsTrue, PageIsTrue, ShownIsTrue
  <1>. QED
    BY <1>1, ClockStarts, ClockKeeps, PTL

-----------------------------------------------------------------------------
(* The screens of Wi-Fi setup (WifiSetupScreens). *)

SetupPlaces == {"away", "scanning", "scanned", "list", "password", "testing", "told", "dialog"}
RowSet == {"row 1", "row 2", "row 3", "row 4"}
Names == RowSet \cup {"none", "back", "rescan", "prev", "next", "cancel", "save", "ok"}
TouchEvents == [action : {"press", "hold", "release"}, on : Names, early : BOOLEAN]
Followings == [pending : Names, long : BOOLEAN, early : BOOLEAN]
SetupShape ==
    /\ setup \in [at : SetupPlaces, active : BOOLEAN]
    /\ scan.records \in ScanLists \cup {<<>>}
    /\ scan.page \in Nat
    /\ follow \in Followings
    /\ touches \in Seq(TouchEvents)

(* The list on the screen is the page of the list that was scanned. *)
ListIsShown ==
    setup.at \in {"scanned", "list"} =>
        /\ shown = ListOf("list", scan.page, OnPage(scan.records, scan.page))
        /\ scan.visible = Len(OnPage(scan.records, scan.page))
        /\ scan.page < PageCount(scan.records)
NoRowsElse == setup.at \notin {"scanned", "list"} => shown.rows = <<>>

(* Touches of a wait are there only as long as it lasts. *)
EarlyOnlyInWait ==
    /\ ~follow.early
    /\ setup.at \notin Waiting => \A i \in 1..Len(touches) : ~touches[i].early

SetupInv == SetupShape /\ ListIsShown /\ NoRowsElse /\ EarlyOnlyInWait /\ SetupActsOnTheShown

LEMMA RecordsAreSeq ==
    ASSUME NEW records \in ScanLists \cup {<<>>}
    PROVE  /\ records \in Seq({records[i] : i \in DOMAIN records})
           /\ Len(records) \in Nat
           /\ Len(records) = 0 <=> records = <<>>
  <1>. DEFINE S == {records[i] : i \in DOMAIN records}
  <1>1. records \in Seq(S)
    <2>1. CASE records = <<>>
      BY <2>1
    <2>2. CASE records \in ScanLists
      BY <2>2, SetupAssumption
    <2>. QED
      BY <2>1, <2>2
  <1>. HIDE DEF S
  <1>2. Len(records) \in Nat /\ (Len(records) = 0 <=> records = <<>>)
    BY <1>1
  <1>. QED
    BY <1>1, <1>2 DEF S

(* A page begins within the list. *)
LEMMA PageBegins ==
    ASSUME NEW records \in ScanLists \cup {<<>>}, NEW nth \in Nat, nth < PageCount(records)
    PROVE  /\ nth * PerPage \in Nat
           /\ records # <<>> => nth * PerPage < Len(records)
           /\ records = <<>> => nth = 0
  <1>1. CASE records = <<>>
    BY <1>1, SetupAssumption DEF PageCount
  <1>2. CASE records # <<>>
    <2>. DEFINE n == Len(records)
    <2>1. n \in Nat /\ PerPage \in 1..4 /\ nth < (n + PerPage - 1) \div PerPage
      BY <1>2, RecordsAreSeq, SetupAssumption DEF PageCount
    <2>. HIDE DEF n
    <2>2. nth * PerPage \in Nat /\ nth * PerPage < n
      <3>1. CASE PerPage = 1
        BY <2>1, <3>1
      <3>2. CASE PerPage = 2
        BY <2>1, <3>2
      <3>3. CASE PerPage = 3
        BY <2>1, <3>3
      <3>4. CASE PerPage = 4
        BY <2>1, <3>4
      <3>. QED
        BY <2>1, <3>1, <3>2, <3>3, <3>4
    <2>. QED
      BY <1>2, <2>2 DEF n
  <1>. QED
    BY <1>1, <1>2

(* What a page shows *)
LEMMA PageShows ==
    ASSUME NEW records \in ScanLists \cup {<<>>}, NEW nth \in Nat, nth < PageCount(records)
    PROVE  /\ Len(OnPage(records, nth)) \in 0..PerPage
           /\ OnPage(records, nth) \in Seq({records[i] : i \in DOMAIN records})
           /\ \A i \in 1..Len(OnPage(records, nth)) :
                OnPage(records, nth)[i] = records[RecordAt(nth, i)]
  <1>. DEFINE first == nth * PerPage
              left == Len(records) - first
              n == IF left < PerPage THEN left ELSE PerPage
  <1>1. /\ first \in Nat /\ Len(records) \in Nat /\ PerPage \in 1..4
        /\ first <= Len(records)
    <2>1. CASE records = <<>>
      <3>1. nth = 0
        BY <2>1, PageBegins
      <3>2. 0 * PerPage = 0 /\ Len(records) = 0
        BY <2>1, SetupAssumption
      <3>. QED
        BY <3>1, <3>2, SetupAssumption
    <2>2. CASE records # <<>>
      BY <2>2, PageBegins, RecordsAreSeq, SetupAssumption
    <2>. QED
      BY <2>1, <2>2
  <1>2. records \in Seq({records[i] : i \in DOMAIN records})
    BY RecordsAreSeq
  <1>3. OnPage(records, nth) = SubSeq(records, first + 1, first + n)
    BY DEF OnPage
  <1>4. RecordAt(nth, 0) = first + 0 /\ \A i : RecordAt(nth, i) = first + i
    BY DEF RecordAt
  <1>. HIDE DEF first
  <1>5. n \in 0..PerPage /\ first + n <= Len(records)
    BY <1>1
  <1>. HIDE DEF n
  <1>6. Len(SubSeq(records, first + 1, first + n)) = n
    BY <1>1, <1>2, <1>5
  <1>7. \A i \in 1..n : SubSeq(records, first + 1, first + n)[i] = records[first + i]
    BY <1>1, <1>2, <1>5
  <1>8. SubSeq(records, first + 1, first + n) \in Seq({records[i] : i \in DOMAIN records})
    BY <1>1, <1>2, <1>5
  <1>. QED
    BY <1>3, <1>4, <1>5, <1>6, <1>7, <1>8

LEMMA PageIsWithin ==
    ASSUME NEW records \in ScanLists \cup {<<>>}, NEW nth \in Nat
    PROVE  PageWithin(nth, records) \in Nat /\ PageWithin(nth, records) < PageCount(records)
  <1>1. CASE records = <<>>
    BY <1>1 DEF PageWithin, PageCount
  <1>2. CASE records # <<>>
    <2>. DEFINE n == Len(records)
                c == (n + PerPage - 1) \div PerPage
    <2>1. n \in Nat \ {0} /\ PerPage \in 1..4 /\ PageCount(records) = c
      BY <1>2, RecordsAreSeq, SetupAssumption DEF PageCount
    <2>. HIDE DEF n
    <2>2. c \in Nat \ {0}
      <3>2. CASE PerPage = 1
        BY <2>1, <3>2
      <3>3. CASE PerPage = 2
        BY <2>1, <3>3
      <3>4. CASE PerPage = 3
        BY <2>1, <3>4
      <3>5. CASE PerPage = 4
        BY <2>1, <3>5
      <3>. QED
        BY <2>1, <3>2, <3>3, <3>4, <3>5
    <2>. HIDE DEF c
    <2>. QED
      BY <2>1, <2>2 DEF PageWithin
  <1>. QED
    BY <1>1, <1>2

LEMMA NothingFollowed == NoFollow \in Followings /\ ~NoFollow.early
  BY DEF NoFollow, Followings, Names

LEMMA ScanBegins ==
    ASSUME BeginScan
    PROVE  /\ setup' \in [at : SetupPlaces, active : BOOLEAN] /\ setup'.at = "scanning"
           /\ scan'.records = <<>> /\ scan'.page \in Nat
           /\ shown'.rows = <<>>
  BY DEF BeginScan, ShowScanning, ListOf, SetupPlaces

LEMMA NoTouches == <<>> \in Seq(TouchEvents) /\ Len(<<>>) = 0
  OBVIOUS

LEMMA SetupStarts == SetupInit => SetupInv
  BY NothingFollowed, NoTouches DEF SetupInit, SetupInv, SetupShape, SetupPlaces, ListIsShown, NoRowsElse, EarlyOnlyInWait, Waiting,
     NoneTaken, ListOf, SetupActsOnTheShown, ChoosesTheShown, TouchesOfTheWaitAreDropped

LEMMA ListShown ==
    ASSUME NEW records \in ScanLists \cup {<<>>}, NEW nth \in Nat, ShowList(records, nth)
    PROVE  /\ scan'.records = records /\ scan'.page \in Nat
           /\ shown' = ListOf("list", scan'.page, OnPage(scan'.records, scan'.page))
           /\ scan'.visible = Len(OnPage(scan'.records, scan'.page))
           /\ scan'.page < PageCount(scan'.records)
  BY PageIsWithin DEF ShowList

LEMMA RowNames ==
    /\ \A i, j \in 1..4 : RowButtons[i] = RowButtons[j] => i = j
    /\ \A i \in 1..4 : RowButtons[i] \in RowSet
  <1>1. /\ RowButtons[1] = "row 1" /\ RowButtons[2] = "row 2"
        /\ RowButtons[3] = "row 3" /\ RowButtons[4] = "row 4"
    BY DEF RowButtons
  <1>2. \A i \in 1..4 : i = 1 \/ i = 2 \/ i = 3 \/ i = 4
    OBVIOUS
  <1>. QED
    BY <1>1, <1>2 DEF RowSet

(* What an action of the list does to it, and whom it chooses. *)
LEMMA ListActs ==
    ASSUME SetupInv, setup.at = "list", NEW b \in SetupButtons, ListAction(b)
    PROVE  /\ setup' \in [at : SetupPlaces, active : BOOLEAN]
           /\ scan'.records \in ScanLists \cup {<<>>} /\ scan'.page \in Nat
           /\ setup'.at \in {"away", "scanning", "list", "password"}
           /\ setup'.at = "list" =>
                /\ shown' = ListOf("list", scan'.page, OnPage(scan'.records, scan'.page))
                /\ scan'.visible = Len(OnPage(scan'.records, scan'.page))
                /\ scan'.page < PageCount(scan'.records)
           /\ setup'.at # "list" => shown'.rows = <<>>
           /\ chosen' = NamedBy(b)
  <1>1. /\ setup \in [at : SetupPlaces, active : BOOLEAN]
        /\ scan.records \in ScanLists \cup {<<>>} /\ scan.page \in Nat
        /\ shown = ListOf("list", scan.page, OnPage(scan.records, scan.page))
        /\ scan.visible = Len(OnPage(scan.records, scan.page))
        /\ scan.page < PageCount(scan.records)
    BY DEF SetupInv, SetupShape, ListIsShown
  <1>2. /\ DOMAIN shown.rows = 1..scan.visible /\ scan.visible \in 0..PerPage /\ PerPage \in 1..4
        /\ \A i \in 1..scan.visible : shown.rows[i] = scan.records[RecordAt(scan.page, i)]
    <2>1. shown.rows = OnPage(scan.records, scan.page)
      BY <1>1 DEF ListOf
    <2>2. /\ Len(shown.rows) = scan.visible /\ scan.visible \in 0..PerPage
          /\ shown.rows \in Seq({scan.records[i] : i \in DOMAIN scan.records})
          /\ \A i \in 1..scan.visible : shown.rows[i] = scan.records[RecordAt(scan.page, i)]
      BY <1>1, <2>1, PageShows
    <2>3. DOMAIN shown.rows = 1..scan.visible
      BY <2>2
    <2>. QED
      BY <2>2, <2>3, SetupAssumption
  <1>3. SetupButtons = {RowButtons[i] : i \in 1..scan.visible} \cup {"back", "rescan", "prev", "next"}
    BY <1>1, <1>2 DEF SetupButtons, ListOf
  <1>4. \A i, j \in 1..4 : RowButtons[i] = RowButtons[j] => i = j
    BY RowNames
  <1>5. \A i \in 1..4 : RowButtons[i] \notin {"back", "rescan", "prev", "next"}
    BY RowNames DEF RowSet
  <1>6. CASE b \in {"back", "rescan", "prev", "next"}
    <2>1. NamedBy(b) = chosen
      BY <1>2, <1>5, <1>6 DEF NamedBy
    <2>2. CASE b = "back"
      <3>1. Leave
        BY <2>2 DEF ListAction
      <3>2. /\ setup' = [at |-> "away", active |-> FALSE] /\ UNCHANGED <<scan, chosen>>
            /\ shown'.rows = <<>>
        BY <3>1 DEF Leave, ListOf
      <3>. QED
        BY <1>1, <2>1, <3>2 DEF SetupPlaces
    <2>3. CASE b = "rescan"
      <3>1. BeginScan /\ UNCHANGED chosen
        BY <2>3 DEF ListAction
      <3>. QED
        BY <1>1, <2>1, <3>1 DEF BeginScan, ShowScanning, ListOf, SetupPlaces
    <2>4. CASE b = "prev"
      <3>1. CASE scan.page > 0
        <4>1. ShowList(scan.records, scan.page - 1) /\ UNCHANGED <<setup, chosen>>
          BY <2>4, <3>1 DEF ListAction
        <4>2. scan.page - 1 \in Nat
          BY <1>1, <3>1
        <4>. QED
          BY <1>1, <2>1, <4>1, <4>2, ListShown
      <3>2. CASE ~(scan.page > 0)
        BY <1>1, <2>1, <2>4, <3>2 DEF ListAction, Still
      <3>. QED
        BY <3>1, <3>2
    <2>5. CASE b = "next"
      <3>1. CASE scan.page + 1 < PageCount(scan.records)
        <4>1. ShowList(scan.records, scan.page + 1) /\ UNCHANGED <<setup, chosen>>
          BY <2>5, <3>1 DEF ListAction
        <4>2. scan.page + 1 \in Nat
          BY <1>1
        <4>. QED
          BY <1>1, <2>1, <4>1, <4>2, ListShown
      <3>2. CASE ~(scan.page + 1 < PageCount(scan.records))
        BY <1>1, <2>1, <2>5, <3>2 DEF ListAction, Still
      <3>. QED
        BY <3>1, <3>2
    <2>. QED
      BY <1>6, <2>2, <2>3, <2>4, <2>5
  <1>7. ASSUME NEW r \in 1..scan.visible, b = RowButtons[r]
        PROVE  Choose(r) /\ NamedBy(b) = scan.records[RecordAt(scan.page, r)]
    <2>1. r \in 1..4
      BY <1>2, <1>7
    <2>2. b \notin {"back", "rescan", "prev", "next"}
      BY <1>5, <1>7, <2>1
    <2>3. PICK i \in 1..PerPage : b = RowButtons[i] /\ IF i <= scan.visible THEN Choose(i) ELSE Still
      BY <2>2 DEF ListAction
    <2>4. i = r
      <3>1. i \in 1..4 /\ RowButtons[i] = RowButtons[r]
        BY <1>2, <1>7, <2>3
      <3>. QED
        BY <1>4, <2>1, <3>1
    <2>5. Choose(r)
      BY <1>2, <2>3, <2>4
    <2>6. (CHOOSE j \in DOMAIN shown.rows : RowButtons[j] = b) = r
      <3>1. \E j \in DOMAIN shown.rows : RowButtons[j] = b
        BY <1>2, <1>7
      <3>2. \A j \in DOMAIN shown.rows : RowButtons[j] = b => j = r
        BY <1>2, <1>4, <1>7, <2>1
      <3>. QED
        BY <3>1, <3>2
    <2>7. NamedBy(b) = shown.rows[r]
      BY <1>2, <1>7, <2>6 DEF NamedBy
    <2>. QED
      BY <1>2, <2>5, <2>7
  <1>8. CASE \E r \in 1..scan.visible : b = RowButtons[r]
    <2>1. PICK r \in 1..scan.visible : b = RowButtons[r]
      BY <1>8
    <2>2. Choose(r) /\ NamedBy(b) = scan.records[RecordAt(scan.page, r)]
      BY <1>7, <2>1
    <2>. QED
      BY <1>1, <2>2 DEF Choose, SetupPlaces, ListOf
  <1>. QED
    BY <1>3, <1>6, <1>8

LEMMA ButtonsAreNames == ASSUME SetupInv, NEW b \in SetupButtons PROVE b \in Names
  <1>1. DOMAIN shown.rows \subseteq 1..4
    <2>1. CASE setup.at \in {"scanned", "list"}
      <3>1. /\ shown.rows = OnPage(scan.records, scan.page)
            /\ scan.records \in ScanLists \cup {<<>>} /\ scan.page \in Nat /\ scan.page < PageCount(scan.records)
        <4>1. shown = ListOf("list", scan.page, OnPage(scan.records, scan.page))
          BY <2>1 DEF SetupInv, ListIsShown
        <4>. QED
          BY <2>1, <4>1 DEF SetupInv, SetupShape, ListIsShown, ListOf
      <3>2. DOMAIN shown.rows = 1..Len(shown.rows) /\ Len(shown.rows) \in 0..PerPage
        <4>1. Len(shown.rows) \in 0..PerPage /\ shown.rows \in Seq({scan.records[i] : i \in DOMAIN scan.records})
          BY <3>1, PageShows
        <4>. QED
          BY <4>1
      <3>. QED
        BY <3>2, SetupAssumption
    <2>2. CASE setup.at \notin {"scanned", "list"}
      BY <2>2 DEF SetupInv, NoRowsElse
    <2>. QED
      BY <2>1, <2>2
  <1>2. \A i \in 1..4 : RowButtons[i] \in Names
    BY RowNames DEF Names
  <1>3. \A i \in DOMAIN shown.rows : RowButtons[i] \in Names
    BY <1>1, <1>2
  <1>. QED
    BY <1>3 DEF SetupButtons, Names

LEMMA SetupKeeps == SetupInv /\ [SetupNext]_setupVars => SetupInv'
  <1>. SUFFICES ASSUME SetupInv, [SetupNext]_setupVars PROVE SetupInv'
    OBVIOUS
  <1>. USE DEF SetupInv, SetupShape, ListIsShown, NoRowsElse, EarlyOnlyInWait, Waiting, SetupActsOnTheShown,
               ChoosesTheShown, TouchesOfTheWaitAreDropped
  <1>1. ASSUME NEW action \in {"press", "hold", "release"}, NEW b \in Names, Touch(action, b) PROVE SetupInv'
    <2>1. [action |-> action, on |-> b, early |-> setup.at \in Waiting]
            \in TouchEvents
      BY DEF TouchEvents
    <2>2. touches' = Append(touches, [action |-> action, on |-> b, early |-> setup.at \in Waiting])
      BY <1>1 DEF Touch
    <2>3. touches' \in Seq(TouchEvents)
      BY <2>1, <2>2
    <2>4. ASSUME setup.at \notin Waiting, NEW i \in 1..Len(touches') PROVE ~touches'[i].early
      <3>1. CASE i \in 1..Len(touches)
        BY <2>2, <2>4, <3>1
      <3>2. CASE i \notin 1..Len(touches)
        <4>1. touches'[i] = [action |-> action, on |-> b, early |-> setup.at \in Waiting]
          BY <2>2, <2>4, <3>2
        <4>2. touches'[i].early = (setup.at \in Waiting)
          BY <4>1
        <4>. QED
          BY <2>4, <4>2
      <3>. QED
        BY <3>1, <3>2
    <2>5. UNCHANGED <<setup, scan, chosen, shown, follow, taken>>
      BY <1>1 DEF Touch
    <2>. QED
      BY <2>3, <2>4, <2>5
  <1>2. CASE EnterSetup
    BY <1>2, ScanBegins, NothingFollowed DEF EnterSetup
  <1>3. CASE ScanEnds
    <2>1. PICK records \in ScanLists : ShowList(records, 0)
      BY <1>3 DEF ScanEnds
    <2>. QED
      BY <1>3, <2>1, ListShown DEF ScanEnds, SetupPlaces
  <1>4. CASE ScanShown
    <2>1. /\ touches' = <<>> /\ ~follow'.early /\ taken' = NoneTaken /\ UNCHANGED <<scan, chosen, shown>>
          /\ follow' \in Followings /\ setup.at = "scanned" /\ setup' = [setup EXCEPT !.at = "list"]
      BY <1>4, NothingFollowed DEF ScanShown, DiscardInput
    <2>2. setup'.at = "list" /\ setup' \in [at : SetupPlaces, active : BOOLEAN]
      BY <2>1 DEF SetupPlaces
    <2>3. shown.rows = OnPage(scan.records, scan.page)
      BY <2>1 DEF ListOf
    <2>. QED
      BY NoTouches, <2>1, <2>2, <2>3 DEF NoneTaken
  <1>5. CASE TestSucceeds
    BY NoTouches, <1>5 DEF TestSucceeds, ListOf, NoneTaken, SetupPlaces
  <1>6. CASE TestFails
    <2>1. setup'.at = "told" /\ setup' \in [at : SetupPlaces, active : BOOLEAN] /\ shown'.rows = <<>>
      BY <1>6 DEF TestFails, ListOf, SetupPlaces
    <2>. QED
      BY <1>6, <2>1 DEF TestFails
  <1>7. CASE DialogShown
    <2>1. /\ touches' = <<>> /\ follow' \in Followings /\ ~follow'.early /\ taken' = NoneTaken
          /\ UNCHANGED <<scan, chosen, shown>>
          /\ setup.at = "told" /\ setup' = [setup EXCEPT !.at = "dialog"]
      BY <1>7, NothingFollowed DEF DialogShown, DiscardInput
    <2>2. setup'.at = "dialog" /\ setup' \in [at : SetupPlaces, active : BOOLEAN]
      BY <2>1 DEF SetupPlaces
    <2>. QED
      BY NoTouches, <2>1, <2>2 DEF NoneTaken
  <1>8. CASE DialogGivesUp
    BY <1>8, ScanBegins, NothingFollowed DEF DialogGivesUp
  <1>9. CASE ThrownOut
    BY <1>9 DEF ThrownOut, Leave, ListOf, NoneTaken, SetupPlaces
  <1>10. CASE UNCHANGED setupVars
    BY <1>10 DEF setupVars
  <1>11. CASE ReadTouch
    <2>1. /\ setup.at \in {"list", "password", "dialog"} /\ touches # <<>> /\ touches' = Tail(touches)
          /\ setup \in [at : SetupPlaces, active : BOOLEAN]
          /\ scan.records \in ScanLists \cup {<<>>} /\ scan.page \in Nat
          /\ follow \in Followings /\ ~follow.early
          /\ touches \in Seq(TouchEvents)
      BY <1>11 DEF ReadTouch
    <2>15. Head(touches).early \in BOOLEAN
      <3>1. Head(touches) \in TouchEvents
        BY <2>1
      <3>. QED
        BY <3>1 DEF TouchEvents
    <2>2. touches' \in Seq(TouchEvents)
      BY <2>1
    <2>3. (\A i \in 1..Len(touches) : ~touches[i].early)
      BY <2>1
    <2>4. \A i \in 1..Len(touches') : touches'[i] = touches[i + 1] /\ i + 1 \in 1..Len(touches)
      BY <2>1
    <2>5. \A i \in 1..Len(touches') : ~touches'[i].early
      BY <2>3, <2>4
    <2>6. ~Head(touches).early
      BY <2>1, <2>3
    <2>7. CASE /\ Still
               /\ taken' = NoneTaken
               /\ ~follow'.early
               /\ follow' \in Followings
      BY <2>1, <2>2, <2>5, <2>7 DEF Still, NoneTaken
    <2>8. ASSUME NEW on \in SetupButtons, ScreenAction(on),
                 taken' = [ssid |-> chosen', named |-> NamedBy(on), early |-> follow.early \/ Head(touches).early],
                 follow' = NoFollow
          PROVE  SetupInv'
      <3>1. ~taken'.early /\ taken'.ssid = chosen' /\ taken'.named = NamedBy(on) /\ ~follow'.early
            /\ follow' \in Followings
        BY <2>1, <2>6, <2>8, NothingFollowed
      <3>2. CASE setup.at = "list"
        <4>1. ListAction(on)
          BY <2>8, <3>2 DEF ScreenAction
        <4>2. /\ setup' \in [at : SetupPlaces, active : BOOLEAN]
              /\ scan'.records \in ScanLists \cup {<<>>} /\ scan'.page \in Nat
              /\ setup'.at \in {"away", "scanning", "list", "password"}
              /\ setup'.at = "list" =>
                   /\ shown' = ListOf("list", scan'.page, OnPage(scan'.records, scan'.page))
                   /\ scan'.visible = Len(OnPage(scan'.records, scan'.page))
                   /\ scan'.page < PageCount(scan'.records)
              /\ setup'.at # "list" => shown'.rows = <<>>
              /\ chosen' = NamedBy(on)
          BY <2>8, <3>2, <4>1, ListActs
        <4>3. setup'.at = "list" => scan'.visible = Len(shown'.rows)
          BY <4>2 DEF ListOf
        <4>. QED
          BY <2>2, <2>5, <3>1, <4>2, <4>3
      <3>3. CASE setup.at # "list"
        <4>1. NamedBy(on) = chosen
          BY <2>1, <3>3 DEF NamedBy
        <4>2. CASE BeginScan /\ UNCHANGED chosen
          BY <2>1, <2>2, <2>5, <3>1, <4>1, <4>2 DEF BeginScan, ShowScanning, ListOf, SetupPlaces
        <4>3. CASE BeginTest
          BY <2>1, <2>2, <2>5, <3>1, <4>1, <4>3 DEF BeginTest, ListOf, SetupPlaces
        <4>. QED
          BY <2>1, <2>8, <3>3, <4>2, <4>3 DEF ScreenAction, PasswordAction
      <3>. QED
        BY <3>2, <3>3
    <2>9. PICK on : /\ on = IF Head(touches).on \in SetupButtons THEN Head(touches).on ELSE "none"
                    /\ \/ /\ follow' = [pending |-> on, long |-> FALSE, early |-> Head(touches).early]
                          /\ Still /\ taken' = NoneTaken
                       \/ /\ follow' = [follow EXCEPT !.long = follow.pending # "none"]
                          /\ Still /\ taken' = NoneTaken
                       \/ /\ follow' = NoFollow
                          /\ Still /\ taken' = NoneTaken
                       \/ /\ on # "none" /\ ScreenAction(on)
                          /\ taken' = [ssid |-> chosen', named |-> NamedBy(on),
                                       early |-> follow.early \/ Head(touches).early]
                          /\ follow' = NoFollow
      BY <1>11 DEF ReadTouch
    <2>10. on \in SetupButtons \cup {"none"} /\ on \in Names
      BY <2>9, ButtonsAreNames DEF Names
    <2>11. CASE on # "none" /\ ScreenAction(on) /\ follow' = NoFollow
                /\ taken' = [ssid |-> chosen', named |-> NamedBy(on),
                             early |-> follow.early \/ Head(touches).early]
      BY <2>8, <2>10, <2>11
    <2>12. CASE follow' = [pending |-> on, long |-> FALSE, early |-> Head(touches).early] /\ Still /\ taken' = NoneTaken
      <3>1. ~follow'.early /\ follow' \in Followings
        BY <2>6, <2>10, <2>12, <2>15 DEF Followings
      <3>. QED
        BY <2>7, <2>12, <3>1
    <2>13. CASE follow' = [follow EXCEPT !.long = follow.pending # "none"] /\ Still /\ taken' = NoneTaken
      <3>1. ~follow'.early /\ follow' \in Followings
        BY <2>1, <2>13 DEF Followings
      <3>. QED
        BY <2>7, <2>13, <3>1
    <2>14. CASE follow' = NoFollow /\ Still /\ taken' = NoneTaken
      <3>1. ~follow'.early /\ follow' \in Followings
        BY <2>14, NothingFollowed
      <3>. QED
        BY <2>7, <2>14, <3>1
    <2>. QED
      BY <2>9, <2>11, <2>12, <2>13, <2>14
  <1>12. CASE \E b \in SetupButtons : Touch("press", b) \/ Touch("release", b)
    BY <1>1, <1>12, ButtonsAreNames
  <1>13. CASE \E b \in {"none"} \cup {"row 1", "ok"} : Touch("press", b) \/ Touch("release", b) \/ Touch("hold", b)
    BY <1>1, <1>13 DEF Names, RowSet
  <1>. QED
    BY <1>2, <1>3, <1>4, <1>5, <1>6, <1>7, <1>8, <1>9, <1>10, <1>11, <1>12, <1>13 DEF SetupNext

(* Wi-Fi setup: the network that is chosen is the one on the row that was touched, and no touch of  *)
(* a wait acts on the screen behind it, for all lists of networks and every length of the queue       *)
(* (cyd_wifi_setup.c:182-225, 313-388).                                                              *)
THEOREM SetupChoosesTheShown == SetupInit /\ [][SetupNext]_setupVars => []SetupActsOnTheShown
  <1>1. SetupInv => SetupActsOnTheShown
    BY DEF SetupInv
  <1>. QED
    BY <1>1, SetupStarts, SetupKeeps, PTL

-----------------------------------------------------------------------------
(* The speaker (CydSpeaker). *)

(* The command that was taken while another sound was on, and the queue behind it *)
InHand == speaker.at = "requeue"
NewestAccepted(i) == speakerQueue[i].number = accepted

SpeakerShape ==
    /\ speakerQueue \in Seq(Commands)
    /\ speaker \in [at : {"receive", "note", "tone", "gap", "requeue"}, cmd : Commands, note : Nat, hand : Commands]
    /\ accepted \in 0..MaxCommands
    /\ caller \in [Callers -> {"idle", "stopping", "volume"}]
    /\ toneActive \in BOOLEAN /\ sounding \in BOOLEAN /\ retuned \in BOOLEAN

(* Commands wait in the order in which they were accepted. *)
InOrder ==
    /\ speaker.cmd.number <= accepted
    /\ \A i \in 1..Len(speakerQueue) : speaker.cmd.number < speakerQueue[i].number /\ speakerQueue[i].number <= accepted
    /\ \A i, j \in 1..Len(speakerQueue) : i < j => speakerQueue[i].number < speakerQueue[j].number
    /\ InHand =>
        /\ speaker.cmd.number < speaker.hand.number /\ speaker.hand.number <= accepted
        /\ \A i \in 1..Len(speakerQueue) : speaker.hand.number < speakerQueue[i].number

(* What was put back is the only command that can wait without the newest behind it. *)
NewestBehind ==
    (Len(speakerQueue) >= 2 \/ (InHand /\ speakerQueue # <<>>)) => NewestAccepted(Len(speakerQueue))

NewestKept ==
    \/ accepted = speaker.cmd.number
    \/ \E i \in 1..Len(speakerQueue) : NewestAccepted(i)
    \/ InHand /\ speaker.hand.number = accepted
    \/ accepted < MaxCommands /\ \E c \in Callers : caller[c] = "stopping"

ToneIsOn == toneActive => speaker.at = "tone"

SpeakerInv == SpeakerShape /\ InOrder /\ NewestBehind /\ NewestKept /\ ToneIsOn /\ ToneEndsWithSound

LEMMA SpeakerNumbers ==
    ASSUME SpeakerShape
    PROVE  /\ accepted \in Nat /\ Len(speakerQueue) \in Nat
           /\ speaker.cmd.number \in Nat /\ speaker.hand.number \in Nat
           /\ \A i \in 1..Len(speakerQueue) : speakerQueue[i] \in Commands /\ speakerQueue[i].number \in Nat
  <1>1. \A c \in Commands : c.number \in Nat
    BY SpeakerAssumption DEF Commands
  <1>2. speaker.cmd \in Commands /\ speaker.hand \in Commands
    BY DEF SpeakerShape
  <1>3. \A i \in 1..Len(speakerQueue) : speakerQueue[i] \in Commands
    BY DEF SpeakerShape
  <1>4. accepted \in Nat /\ Len(speakerQueue) \in Nat
    BY SpeakerAssumption DEF SpeakerShape
  <1>. QED
    BY <1>1, <1>2, <1>3, <1>4

LEMMA SpeakerStarts == SpeakerInit => SpeakerInv
  <1>. SUFFICES ASSUME SpeakerInit PROVE SpeakerInv
    OBVIOUS
  <1>1. NoCommand \in Commands /\ NoCommand.number = 0
    BY SpeakerAssumption DEF NoCommand, Command, Commands
  <1>2. speakerQueue = <<>> /\ speakerQueue \in Seq(Commands) /\ Len(speakerQueue) = 0
    BY DEF SpeakerInit
  <1>3. /\ speaker = [at |-> "receive", cmd |-> NoCommand, note |-> 0, hand |-> NoCommand]
        /\ speaker.at = "receive" /\ speaker.cmd.number = 0 /\ accepted = 0
    BY <1>1 DEF SpeakerInit
  <1>4. SpeakerShape
    <2>1. speaker \in [at : {"receive", "note", "tone", "gap", "requeue"}, cmd : Commands, note : Nat, hand : Commands]
      BY <1>1, <1>3
    <2>2. accepted \in 0..MaxCommands
      BY <1>3, SpeakerAssumption
    <2>. QED
      BY <1>2, <2>1, <2>2 DEF SpeakerInit, SpeakerShape
  <1>5. InOrder /\ NewestBehind /\ NewestKept
    BY <1>2, <1>3 DEF InOrder, NewestBehind, NewestKept, InHand
  <1>6. ToneIsOn /\ ToneEndsWithSound
    BY DEF SpeakerInit, ToneIsOn, ToneEndsWithSound
  <1>. QED
    BY <1>4, <1>5, <1>6 DEF SpeakerInv

(* A command that is accepted is the newest, at the end of the queue. *)
LEMMA SentIsNewest ==
    ASSUME SpeakerInv, NEW sound \in Sounds \cup {STOP}, SpeakerSend(sound), UNCHANGED speaker
    PROVE  /\ speakerQueue' \in Seq(Commands) /\ accepted' \in 0..MaxCommands
           /\ InOrder' /\ NewestBehind'
           /\ \E i \in 1..Len(speakerQueue') : speakerQueue'[i].number = accepted'
  <1>1. /\ speakerQueue \in Seq(Commands) /\ accepted \in 0..MaxCommands /\ accepted < MaxCommands
        /\ accepted' = accepted + 1 /\ speakerQueue' = Append(speakerQueue, Command(sound, accepted + 1))
    BY DEF SpeakerInv, SpeakerShape, SpeakerSend
  <1>2. Command(sound, accepted + 1) \in Commands /\ Command(sound, accepted + 1).number = accepted + 1
    BY <1>1, SpeakerAssumption DEF Command, Commands
  <1>3. speakerQueue' \in Seq(Commands)
    BY <1>1, <1>2
  <1>4. /\ Len(speakerQueue') = Len(speakerQueue) + 1
        /\ \A i \in 1..Len(speakerQueue) : speakerQueue'[i] = speakerQueue[i]
        /\ speakerQueue'[Len(speakerQueue) + 1] = Command(sound, accepted + 1)
    BY <1>1
  <1>5. speakerQueue'[Len(speakerQueue) + 1].number = accepted'
    BY <1>1, <1>2, <1>4
  <1>6. /\ accepted \in Nat /\ Len(speakerQueue) \in Nat
        /\ speaker.cmd.number \in Nat /\ speaker.hand.number \in Nat
        /\ \A i \in 1..Len(speakerQueue) : speakerQueue[i].number \in Nat
    BY SpeakerNumbers DEF SpeakerInv
  <1>7. \A i \in 1..Len(speakerQueue') : i \in 1..Len(speakerQueue) \/ i = Len(speakerQueue) + 1
    BY <1>4, <1>6
  <1>8. InOrder'
    <2>1. speaker' = speaker /\ InOrder
      BY DEF SpeakerInv
    <2>2. \A i \in 1..Len(speakerQueue') :
            speaker.cmd.number < speakerQueue'[i].number /\ speakerQueue'[i].number <= accepted'
      BY <1>1, <1>4, <1>5, <1>6, <1>7, <2>1 DEF InOrder
    <2>3. \A i, j \in 1..Len(speakerQueue') : i < j => speakerQueue'[i].number < speakerQueue'[j].number
      BY <1>1, <1>4, <1>5, <1>6, <1>7, <2>1 DEF InOrder
    <2>4. InHand => /\ speaker.cmd.number < speaker.hand.number /\ speaker.hand.number <= accepted'
                    /\ \A i \in 1..Len(speakerQueue') : speaker.hand.number < speakerQueue'[i].number
      BY <1>1, <1>4, <1>5, <1>6, <1>7, <2>1 DEF InOrder
    <2>. QED
      BY <1>1, <1>6, <2>1, <2>2, <2>3, <2>4 DEF InOrder, InHand
  <1>9. NewestBehind'
    BY <1>4, <1>5 DEF NewestBehind, NewestAccepted
  <1>10. accepted' \in 0..MaxCommands /\ Len(speakerQueue) + 1 \in 1..Len(speakerQueue')
    BY <1>1, <1>4, <1>6, SpeakerAssumption
  <1>. QED
    BY <1>3, <1>5, <1>8, <1>9, <1>10

LEMMA CallersKeep ==
    ASSUME SpeakerInv, NEW c \in Callers,
           PlaySequence(c) \/ StopReset(c) \/ StopSend(c) \/ VolumeLook(c) \/ VolumeApply(c)
    PROVE  SpeakerInv'
  <1>. USE DEF SpeakerInv
  <1>1. CASE PlaySequence(c)
    <2>1. PICK sound \in Sounds : SpeakerSend(sound)
      BY <1>1 DEF PlaySequence
    <2>2. UNCHANGED <<speaker, toneActive, sounding, caller, retuned>>
      BY <1>1 DEF PlaySequence
    <2>3. SpeakerShape' /\ InOrder' /\ NewestBehind' /\ NewestKept'
      BY <2>1, <2>2, SentIsNewest DEF SpeakerShape, NewestKept, NewestAccepted
    <2>. QED
      BY <2>2, <2>3 DEF ToneIsOn, ToneEndsWithSound
  <1>2. CASE StopReset(c)
    <2>1. speakerQueue' = <<>> /\ speakerQueue' \in Seq(Commands) /\ Len(speakerQueue') = 0
      BY <1>2 DEF StopReset
    <2>2. /\ accepted < MaxCommands /\ caller' = [caller EXCEPT ![c] = "stopping"]
          /\ UNCHANGED <<speaker, toneActive, sounding, accepted, retuned>>
      BY <1>2 DEF StopReset
    <2>3. caller'[c] = "stopping" /\ caller' \in [Callers -> {"idle", "stopping", "volume"}]
      BY <2>2 DEF SpeakerShape
    <2>4. SpeakerShape' /\ NewestKept'
      BY <2>1, <2>2, <2>3 DEF SpeakerShape, NewestKept
    <2>5. InOrder' /\ NewestBehind'
      BY <2>1, <2>2 DEF InOrder, NewestBehind, InHand
    <2>. QED
      BY <2>2, <2>4, <2>5 DEF ToneIsOn, ToneEndsWithSound
  <1>3. CASE StopSend(c)
    <2>1. caller' = [caller EXCEPT ![c] = "idle"] /\ UNCHANGED <<speaker, toneActive, sounding, retuned>>
      BY <1>3 DEF StopSend
    <2>2. caller' \in [Callers -> {"idle", "stopping", "volume"}]
      BY <2>1 DEF SpeakerShape
    <2>3. CASE SpeakerSend(STOP)
      BY <2>1, <2>2, <2>3, SentIsNewest DEF SpeakerShape, NewestKept, NewestAccepted, ToneIsOn, ToneEndsWithSound
    <2>4. CASE UNCHANGED <<speakerQueue, accepted>> /\ (Len(speakerQueue) = SpeakerQueue \/ accepted = MaxCommands)
      <3>1. accepted = MaxCommands => ~(accepted < MaxCommands)
        BY SpeakerAssumption
      <3>2. Len(speakerQueue) = SpeakerQueue => \E i \in 1..Len(speakerQueue) : NewestAccepted(i)
        BY SpeakerAssumption DEF NewestBehind
      <3>3. NewestKept'
        BY <2>1, <2>4, <3>1, <3>2 DEF NewestKept, NewestAccepted, InHand
      <3>4. SpeakerShape' /\ InOrder' /\ NewestBehind'
        BY <2>1, <2>2, <2>4 DEF SpeakerShape, InOrder, NewestBehind, NewestAccepted, InHand
      <3>. QED
        BY <2>1, <3>3, <3>4 DEF ToneIsOn, ToneEndsWithSound
    <2>. QED
      BY <1>3, <2>3, <2>4 DEF StopSend
  <1>4. CASE VolumeLook(c) \/ VolumeApply(c)
    <2>1. /\ UNCHANGED <<speakerQueue, speaker, toneActive, accepted>>
          /\ caller[c] # "stopping"
          /\ caller' = [caller EXCEPT ![c] = "volume"] \/ caller' = [caller EXCEPT ![c] = "idle"]
      BY <1>4 DEF VolumeLook, VolumeApply
    <2>2. caller' \in [Callers -> {"idle", "stopping", "volume"}]
      BY <2>1 DEF SpeakerShape
    <2>3. \A d \in Callers : caller[d] = "stopping" => caller'[d] = "stopping"
      BY <2>1 DEF SpeakerShape
    <2>4. NewestKept'
      BY <2>1, <2>3 DEF NewestKept, NewestAccepted, InHand
    <2>5. InOrder' /\ NewestBehind' /\ ToneIsOn'
      BY <2>1 DEF InOrder, NewestBehind, NewestAccepted, InHand, ToneIsOn
    <2>6. ToneEndsWithSound' /\ sounding' \in BOOLEAN /\ retuned' \in BOOLEAN
      BY <1>4, <2>1 DEF VolumeLook, VolumeApply, ToneIsOn, ToneEndsWithSound, SpeakerShape
    <2>. QED
      BY <2>1, <2>2, <2>4, <2>5, <2>6 DEF SpeakerShape
  <1>. QED
    BY <1>1, <1>2, <1>3, <1>4

(* Taking the oldest command: what stays behind it. *)
LEMMA HeadTaken ==
    ASSUME SpeakerInv, speakerQueue # <<>>, speakerQueue' = Tail(speakerQueue)
    PROVE  /\ Head(speakerQueue) \in Commands /\ Head(speakerQueue) = speakerQueue[1]
           /\ speakerQueue' \in Seq(Commands) /\ Len(speakerQueue') = Len(speakerQueue) - 1
           /\ Len(speakerQueue) >= 1
           /\ \A i \in 1..Len(speakerQueue') : speakerQueue'[i] = speakerQueue[i + 1] /\ i + 1 \in 1..Len(speakerQueue)
  <1>1. speakerQueue \in Seq(Commands)
    BY DEF SpeakerInv, SpeakerShape
  <1>. QED
    BY <1>1

(* A sound that begins, and a command that is served at once or put back later, is the oldest. *)
LEMMA TakenInOrder ==
    ASSUME SpeakerInv, speakerQueue # <<>>, speakerQueue' = Tail(speakerQueue), UNCHANGED <<accepted, caller>>,
           SpeakerShape', speaker.at # "requeue",
           \/ speaker'.at # "requeue" /\ speaker'.cmd = Head(speakerQueue)
           \/ speaker'.at = "requeue" /\ speaker'.cmd = speaker.cmd /\ speaker'.hand = Head(speakerQueue)
    PROVE  InOrder' /\ NewestBehind' /\ NewestKept'
  <1>1. /\ Head(speakerQueue) = speakerQueue[1] /\ Len(speakerQueue') = Len(speakerQueue) - 1 /\ Len(speakerQueue) >= 1
        /\ \A i \in 1..Len(speakerQueue') : speakerQueue'[i] = speakerQueue[i + 1] /\ i + 1 \in 1..Len(speakerQueue)
    BY HeadTaken
  <1>2. /\ accepted \in Nat /\ Len(speakerQueue) \in Nat /\ speaker.cmd.number \in Nat
        /\ \A i \in 1..Len(speakerQueue) : speakerQueue[i].number \in Nat
    BY SpeakerNumbers DEF SpeakerInv
  <1>3. /\ accepted' = accepted /\ caller' = caller
        /\ InOrder /\ NewestBehind /\ NewestKept
    BY DEF SpeakerInv
  <1>4. 1 \in 1..Len(speakerQueue)
    BY <1>1, <1>2
  <1>5. InOrder'
    <2>1. /\ speaker'.cmd.number <= accepted
          /\ \A i \in 1..Len(speakerQueue') : speaker'.cmd.number < speakerQueue'[i].number
      <3>1. CASE speaker'.cmd = Head(speakerQueue)
        <4>1. speaker'.cmd.number = speakerQueue[1].number
          BY <1>1, <3>1
        <4>2. \A i \in 1..Len(speakerQueue') : 1 < i + 1
          OBVIOUS
        <4>. QED
          BY <1>1, <1>3, <1>4, <4>1, <4>2 DEF InOrder
      <3>2. CASE speaker'.cmd = speaker.cmd
        BY <1>1, <1>3, <3>2 DEF InOrder
      <3>. QED
        BY <3>1, <3>2
    <2>2. \A i \in 1..Len(speakerQueue') : speakerQueue'[i].number <= accepted
      BY <1>1, <1>3 DEF InOrder
    <2>3. \A i, j \in 1..Len(speakerQueue') : i < j => speakerQueue'[i].number < speakerQueue'[j].number
      BY <1>1, <1>2, <1>3 DEF InOrder
    <2>4. speaker'.at = "requeue" => /\ speaker'.cmd.number < speaker'.hand.number /\ speaker'.hand.number <= accepted
                                     /\ \A i \in 1..Len(speakerQueue') : speaker'.hand.number < speakerQueue'[i].number
      BY <1>1, <1>2, <1>3, <1>4 DEF InOrder
    <2>. QED
      BY <1>3, <2>1, <2>2, <2>3, <2>4 DEF InOrder, InHand
  <1>6. NewestBehind'
    <2>1. SUFFICES ASSUME Len(speakerQueue') >= 1 PROVE speakerQueue'[Len(speakerQueue')].number = accepted
      <3>1. speakerQueue' # <<>> => Len(speakerQueue') >= 1
        BY HeadTaken
      <3>. QED
        BY <1>3, <3>1 DEF NewestBehind, NewestAccepted
    <2>2. Len(speakerQueue) >= 2
      BY <1>1, <1>2, <2>1
    <2>3. speakerQueue[Len(speakerQueue)].number = accepted
      BY <1>3, <2>2 DEF NewestBehind, NewestAccepted
    <2>. QED
      BY <1>1, <1>2, <2>1, <2>3
  <1>7. NewestKept'
    <2>1. CASE speaker.cmd.number = accepted
      BY <1>1, <1>2, <1>3, <1>4, <2>1 DEF InOrder
    <2>2. ASSUME NEW i \in 1..Len(speakerQueue), speakerQueue[i].number = accepted PROVE NewestKept'
      <3>1. CASE i = 1
        BY <1>1, <1>3, <2>2, <3>1 DEF NewestKept, InHand
      <3>2. CASE i # 1
        <4>1. i - 1 \in 1..Len(speakerQueue') /\ speakerQueue'[i - 1] = speakerQueue[i]
          BY <1>1, <1>2, <2>2, <3>2
        <4>. QED
          BY <1>3, <2>2, <4>1 DEF NewestKept, NewestAccepted
      <3>. QED
        BY <3>1, <3>2
    <2>3. CASE accepted < MaxCommands /\ \E c \in Callers : caller[c] = "stopping"
      BY <1>3, <2>3 DEF NewestKept
    <2>. QED
      BY <1>3, <2>1, <2>2, <2>3 DEF NewestKept, NewestAccepted, InHand
  <1>. QED
    BY <1>5, <1>6, <1>7

(* The steps of the task that leave the queue alone and take nothing in hand. *)
LEMMA PlayingKeeps ==
    ASSUME SpeakerInv, UNCHANGED <<speakerQueue, caller, accepted>>,
           speaker.at # "requeue", speaker'.at # "requeue", speaker'.cmd = speaker.cmd
    PROVE  InOrder' /\ NewestBehind' /\ NewestKept'
  <1>1. InOrder'
    BY DEF SpeakerInv, InOrder, InHand
  <1>2. NewestBehind'
    BY DEF SpeakerInv, NewestBehind, NewestAccepted, InHand
  <1>3. NewestKept'
    BY DEF SpeakerInv, NewestKept, NewestAccepted, InHand
  <1>. QED
    BY <1>1, <1>2, <1>3

LEMMA PutBackInOrder ==
    ASSUME SpeakerInv, Requeue
    PROVE  speakerQueue' \in Seq(Commands) /\ InOrder' /\ NewestBehind' /\ NewestKept'
  <1>1. /\ speaker.at = "requeue" /\ UNCHANGED <<toneActive, sounding, caller, accepted, retuned>>
        /\ speaker' = [speaker EXCEPT !.at = "receive", !.hand = NoCommand]
        /\ SpeakerShape /\ InOrder /\ NewestBehind /\ NewestKept
    BY DEF Requeue, SpeakerInv
  <1>2. speaker'.at = "receive" /\ speaker'.cmd = speaker.cmd
    BY <1>1 DEF SpeakerShape
  <1>3. /\ accepted \in Nat /\ Len(speakerQueue) \in Nat /\ speaker.cmd.number \in Nat /\ speaker.hand.number \in Nat
        /\ \A i \in 1..Len(speakerQueue) : speakerQueue[i].number \in Nat
    BY <1>1, SpeakerNumbers
  <1>4. speakerQueue \in Seq(Commands) /\ speaker.hand \in Commands
    BY <1>1 DEF SpeakerShape
  <1>5. CASE Len(speakerQueue) < SpeakerQueue
    <2>1. speakerQueue' = <<speaker.hand>> \o speakerQueue
      BY <1>5 DEF Requeue, PutBack
    <2>2. /\ speakerQueue' \in Seq(Commands) /\ Len(speakerQueue') = Len(speakerQueue) + 1
          /\ speakerQueue'[1] = speaker.hand
          /\ \A i \in 2..Len(speakerQueue') : speakerQueue'[i] = speakerQueue[i - 1] /\ i - 1 \in 1..Len(speakerQueue)
      BY <1>4, <2>1
    <2>3. \A i \in 1..Len(speakerQueue') : i = 1 \/ i \in 2..Len(speakerQueue')
      BY <1>3, <2>2
    <2>4. InOrder'
      <3>1. \A i \in 1..Len(speakerQueue') :
              speaker.cmd.number < speakerQueue'[i].number /\ speakerQueue'[i].number <= accepted
        BY <1>1, <1>3, <2>2, <2>3 DEF InOrder, InHand
      <3>2. ASSUME NEW i \in 1..Len(speakerQueue'), NEW j \in 1..Len(speakerQueue'), i < j
            PROVE  speakerQueue'[i].number < speakerQueue'[j].number
        <4>1. j \in 2..Len(speakerQueue') /\ speakerQueue'[j] = speakerQueue[j - 1] /\ j - 1 \in 1..Len(speakerQueue)
          BY <1>3, <2>2, <3>2
        <4>2. CASE i = 1
          BY <1>1, <2>2, <4>1, <4>2 DEF InOrder, InHand
        <4>3. CASE i \in 2..Len(speakerQueue')
          <5>1. speakerQueue'[i] = speakerQueue[i - 1] /\ i - 1 \in 1..Len(speakerQueue) /\ i - 1 < j - 1
            BY <1>3, <2>2, <3>2, <4>3
          <5>. QED
            BY <1>1, <4>1, <5>1 DEF InOrder
        <4>. QED
          BY <2>3, <4>2, <4>3
      <3>. QED
        BY <1>1, <1>2, <3>1, <3>2 DEF InOrder, InHand
    <2>5. NewestBehind'
      <3>1. SUFFICES ASSUME Len(speakerQueue') >= 2 PROVE speakerQueue'[Len(speakerQueue')].number = accepted
        BY <1>1, <1>2 DEF NewestBehind, NewestAccepted, InHand
      <3>2. speakerQueue # <<>> /\ Len(speakerQueue') \in 2..Len(speakerQueue')
        BY <1>3, <2>2, <3>1
      <3>3. speakerQueue'[Len(speakerQueue')] = speakerQueue[Len(speakerQueue)]
        BY <1>3, <2>2, <3>2
      <3>. QED
        BY <1>1, <3>2, <3>3 DEF NewestBehind, NewestAccepted, InHand
    <2>6. NewestKept'
      <3>1. ASSUME NEW i \in 1..Len(speakerQueue), speakerQueue[i].number = accepted PROVE NewestKept'
        <4>1. i + 1 \in 1..Len(speakerQueue') /\ speakerQueue'[i + 1] = speakerQueue[i]
          BY <1>3, <2>2
        <4>. QED
          BY <1>1, <3>1, <4>1 DEF NewestKept, NewestAccepted
      <3>2. CASE speaker.hand.number = accepted
        <4>1. 1 \in 1..Len(speakerQueue')
          BY <1>3, <2>2
        <4>. QED
          BY <1>1, <2>2, <3>2, <4>1 DEF NewestKept, NewestAccepted
      <3>. QED
        BY <1>1, <1>2, <3>1, <3>2 DEF NewestKept, NewestAccepted
    <2>. QED
      BY <2>2, <2>4, <2>5, <2>6
  <1>6. CASE ~(Len(speakerQueue) < SpeakerQueue)
    <2>1. speakerQueue' = speakerQueue /\ Len(speakerQueue) >= 2 /\ Len(speakerQueue) \in 1..Len(speakerQueue)
      BY <1>3, <1>6, SpeakerAssumption DEF Requeue
    <2>2. NewestAccepted(Len(speakerQueue))
      BY <1>1, <2>1 DEF NewestBehind
    <2>3. NewestBehind' /\ NewestKept'
      BY <1>1, <1>2, <2>1, <2>2 DEF NewestBehind, NewestKept, NewestAccepted, InHand
    <2>4. InOrder'
      BY <1>1, <1>2, <2>1 DEF InOrder, InHand
    <2>. QED
      BY <1>4, <2>1, <2>3, <2>4
  <1>. QED
    BY <1>5, <1>6

LEMMA SilenceKeeps == ASSUME Silence PROVE ToneIsOn' /\ ToneEndsWithSound'
                                           /\ toneActive' \in BOOLEAN /\ sounding' \in BOOLEAN /\ retuned' \in BOOLEAN
  BY DEF Silence, ToneIsOn, ToneEndsWithSound

(* What a step makes of the task. *)
LEMMA PlayerIs ==
    ASSUME SpeakerShape, NEW at \in {"receive", "note", "tone", "gap", "requeue"}, NEW n \in Nat
    PROVE  /\ [speaker EXCEPT !.at = at] \in
                [at : {"receive", "note", "tone", "gap", "requeue"}, cmd : Commands, note : Nat, hand : Commands]
           /\ [speaker EXCEPT !.at = at, !.note = n] \in
                [at : {"receive", "note", "tone", "gap", "requeue"}, cmd : Commands, note : Nat, hand : Commands]
           /\ [speaker EXCEPT !.at = at].at = at /\ [speaker EXCEPT !.at = at, !.note = n].at = at
           /\ [speaker EXCEPT !.at = at].cmd = speaker.cmd
           /\ [speaker EXCEPT !.at = at, !.note = n].cmd = speaker.cmd
  BY DEF SpeakerShape

LEMMA AfterToneKeeps ==
    ASSUME SpeakerInv, speaker.at \in {"note", "tone"}, AfterTone(speaker.note), UNCHANGED <<speakerQueue, caller, accepted>>
    PROVE  SpeakerInv'
  <1>1. speaker' = [speaker EXCEPT !.at = "gap"] \/ speaker' = [speaker EXCEPT !.at = "note", !.note = speaker.note + 1]
    BY DEF AfterTone
  <1>2. SpeakerShape /\ speaker.note + 1 \in Nat
    BY DEF SpeakerInv, SpeakerShape
  <1>3. /\ speaker' \in [at : {"receive", "note", "tone", "gap", "requeue"}, cmd : Commands, note : Nat, hand : Commands]
        /\ speaker'.at # "requeue" /\ speaker'.cmd = speaker.cmd
    BY <1>1, <1>2, PlayerIs
  <1>4. ToneIsOn' /\ ToneEndsWithSound' /\ toneActive' \in BOOLEAN /\ sounding' \in BOOLEAN /\ retuned' \in BOOLEAN
    BY SilenceKeeps DEF AfterTone
  <1>5. InOrder' /\ NewestBehind' /\ NewestKept'
    BY <1>3, PlayingKeeps
  <1>. QED
    BY <1>2, <1>3, <1>4, <1>5 DEF SpeakerInv, SpeakerShape

LEMMA TaskKeeps == ASSUME SpeakerInv, SpeakerTask PROVE SpeakerInv'
  <1>0. SpeakerShape
    BY DEF SpeakerInv
  <1>1. CASE ReceiveCommand
    <2>1. /\ speaker.at = "receive" /\ speakerQueue # <<>> /\ speakerQueue' = Tail(speakerQueue)
          /\ UNCHANGED <<caller, accepted>>
          /\ \/ speaker' = [speaker EXCEPT !.cmd = Head(speakerQueue)] /\ Silence
             \/ /\ speaker' = [speaker EXCEPT !.at = "note", !.cmd = Head(speakerQueue), !.note = 1]
                /\ UNCHANGED <<toneActive, sounding, retuned>>
      BY <1>1 DEF ReceiveCommand
    <2>2. Head(speakerQueue) \in Commands /\ speakerQueue' \in Seq(Commands)
      BY <2>1, HeadTaken
    <2>3. /\ speaker' \in [at : {"receive", "note", "tone", "gap", "requeue"}, cmd : Commands, note : Nat, hand : Commands]
          /\ speaker'.cmd = Head(speakerQueue) /\ speaker'.at \in {"receive", "note"}
      <3>1. CASE speaker' = [speaker EXCEPT !.cmd = Head(speakerQueue)]
        BY <1>0, <2>1, <2>2, <3>1 DEF SpeakerShape
      <3>2. CASE speaker' = [speaker EXCEPT !.at = "note", !.cmd = Head(speakerQueue), !.note = 1]
        BY <1>0, <2>2, <3>2 DEF SpeakerShape
      <3>. QED
        BY <2>1, <3>1, <3>2
    <2>4. ToneIsOn' /\ ToneEndsWithSound' /\ toneActive' \in BOOLEAN /\ sounding' \in BOOLEAN /\ retuned' \in BOOLEAN
      <3>1. CASE Silence
        BY <3>1, SilenceKeeps
      <3>2. CASE UNCHANGED <<toneActive, sounding, retuned>>
        BY <1>0, <2>1, <2>3, <3>2 DEF SpeakerInv, SpeakerShape, ToneIsOn, ToneEndsWithSound
      <3>. QED
        BY <2>1, <3>1, <3>2
    <2>5. SpeakerShape'
      BY <1>0, <2>1, <2>2, <2>3, <2>4 DEF SpeakerShape
    <2>6. InOrder' /\ NewestBehind' /\ NewestKept'
      BY <2>1, <2>3, <2>5, TakenInOrder
    <2>. QED
      BY <2>4, <2>5, <2>6 DEF SpeakerInv
  <1>2. CASE NextNote
    <2>1. speaker.at = "note" /\ UNCHANGED <<speakerQueue, caller, accepted>>
      BY <1>2 DEF NextNote
    <2>2. CASE Silence /\ speaker' = [speaker EXCEPT !.at = "receive"]
      <3>1. InOrder' /\ NewestBehind' /\ NewestKept'
        BY <1>0, <2>1, <2>2, PlayingKeeps, PlayerIs
      <3>. QED
        BY <1>0, <2>1, <2>2, <3>1, SilenceKeeps, PlayerIs DEF SpeakerInv, SpeakerShape
    <2>3. CASE Tone /\ speaker' = [speaker EXCEPT !.at = "tone"]
      <3>1. InOrder' /\ NewestBehind' /\ NewestKept'
        BY <1>0, <2>1, <2>3, PlayingKeeps, PlayerIs
      <3>2. ToneIsOn' /\ ToneEndsWithSound' /\ toneActive' \in BOOLEAN /\ sounding' \in BOOLEAN /\ retuned' \in BOOLEAN
        BY <1>0, <2>3, PlayerIs DEF Tone, ToneIsOn, ToneEndsWithSound
      <3>. QED
        BY <1>0, <2>1, <2>3, <3>1, <3>2, PlayerIs DEF SpeakerInv, SpeakerShape
    <2>4. CASE AfterTone(speaker.note)
      BY <2>1, <2>4, AfterToneKeeps
    <2>. QED
      BY <1>2, <2>2, <2>3, <2>4 DEF NextNote
  <1>3. CASE WaitOver
    <2>1. UNCHANGED <<speakerQueue, caller, accepted>>
      BY <1>3 DEF WaitOver
    <2>2. CASE speaker.at = "tone" /\ AfterTone(speaker.note)
      BY <2>1, <2>2, AfterToneKeeps
    <2>3. CASE /\ speaker.at = "gap" /\ speaker' = [speaker EXCEPT !.at = "note", !.note = @ + 1]
               /\ UNCHANGED <<toneActive, sounding, retuned>>
      <3>1. /\ speaker' \in [at : {"receive", "note", "tone", "gap", "requeue"}, cmd : Commands, note : Nat, hand : Commands]
            /\ speaker'.at = "note" /\ speaker'.cmd = speaker.cmd
        <4>1. speaker' = [speaker EXCEPT !.at = "note", !.note = speaker.note + 1] /\ speaker.note + 1 \in Nat
          BY <1>0, <2>3 DEF SpeakerShape
        <4>. QED
          BY <1>0, <4>1, PlayerIs
      <3>2. InOrder' /\ NewestBehind' /\ NewestKept'
        BY <2>1, <2>3, <3>1, PlayingKeeps
      <3>3. ToneIsOn' /\ ToneEndsWithSound'
        BY <2>3, <3>1 DEF SpeakerInv, ToneIsOn, ToneEndsWithSound
      <3>. QED
        BY <1>0, <2>1, <2>3, <3>1, <3>2, <3>3 DEF SpeakerInv, SpeakerShape
    <2>. QED
      BY <1>3, <2>2, <2>3 DEF WaitOver
  <1>4. CASE Interrupt
    <2>1. /\ speaker.at \in {"tone", "gap"} /\ speakerQueue # <<>> /\ speakerQueue' = Tail(speakerQueue)
          /\ UNCHANGED <<caller, accepted>> /\ Silence
          /\ \/ speaker' = [speaker EXCEPT !.at = "receive", !.cmd = Head(speakerQueue)]
             \/ speaker' = [speaker EXCEPT !.at = "requeue", !.hand = Head(speakerQueue)]
      BY <1>4 DEF Interrupt
    <2>2. Head(speakerQueue) \in Commands /\ speakerQueue' \in Seq(Commands)
      BY <2>1, HeadTaken
    <2>3. /\ speaker' \in [at : {"receive", "note", "tone", "gap", "requeue"}, cmd : Commands, note : Nat, hand : Commands]
          /\ \/ speaker'.at # "requeue" /\ speaker'.cmd = Head(speakerQueue)
             \/ speaker'.at = "requeue" /\ speaker'.cmd = speaker.cmd /\ speaker'.hand = Head(speakerQueue)
      BY <1>0, <2>1, <2>2 DEF SpeakerShape
    <2>4. SpeakerShape'
      BY <1>0, <2>1, <2>2, <2>3, SilenceKeeps DEF SpeakerShape
    <2>5. InOrder' /\ NewestBehind' /\ NewestKept'
      BY <2>1, <2>3, <2>4, TakenInOrder
    <2>. QED
      BY <2>1, <2>4, <2>5, SilenceKeeps DEF SpeakerInv
  <1>5. CASE Requeue
    <2>1. speakerQueue' \in Seq(Commands) /\ InOrder' /\ NewestBehind' /\ NewestKept'
      BY <1>5, PutBackInOrder
    <2>2. NoCommand \in Commands
      BY SpeakerAssumption DEF NoCommand, Command, Commands
    <2>3. /\ speaker' \in [at : {"receive", "note", "tone", "gap", "requeue"}, cmd : Commands, note : Nat, hand : Commands]
          /\ speaker'.at = "receive"
      BY <1>0, <1>5, <2>2 DEF SpeakerShape, Requeue
    <2>4. speaker.at = "requeue" /\ UNCHANGED <<toneActive, sounding, caller, accepted, retuned>>
      BY <1>5 DEF Requeue
    <2>5. ToneIsOn' /\ ToneEndsWithSound'
      BY <2>3, <2>4 DEF SpeakerInv, ToneIsOn, ToneEndsWithSound
    <2>. QED
      BY <1>0, <2>1, <2>3, <2>4, <2>5 DEF SpeakerInv, SpeakerShape
  <1>. QED
    BY <1>1, <1>2, <1>3, <1>4, <1>5 DEF SpeakerTask

LEMMA SpeakerKeeps == SpeakerInv /\ [SpeakerNext]_speakerVars => SpeakerInv'
  <1>1. ASSUME SpeakerInv, UNCHANGED speakerVars PROVE SpeakerInv'
    BY <1>1 DEF speakerVars, SpeakerInv, SpeakerShape, InOrder, NewestBehind, NewestKept, NewestAccepted, InHand,
       ToneIsOn, ToneEndsWithSound
  <1>. QED
    BY <1>1, CallersKeep, TaskKeeps DEF SpeakerNext

(* The speaker: the newest command is not lost and the order of the commands is kept, and a tone    *)
(* does not outlive its sound, for every number of callers, sounds and commands, with a queue of two  *)
(* or more (cyd_speaker.c:111-129, 276-293).                                                          *)
THEOREM TheNewestIsServed == SpeakerInit /\ [][SpeakerNext]_speakerVars => [](NewestIsServed /\ ToneEndsWithSound)
  <1>1. ASSUME SpeakerInv PROVE NewestIsServed
    <2>1. speakerQueue \in Seq(Commands) /\ InOrder /\ NewestKept
      BY <1>1 DEF SpeakerInv, SpeakerShape
    <2>2. DOMAIN speakerQueue = 1..Len(speakerQueue)
      BY <2>1
    <2>3. \A cmd : cmd \in Range(speakerQueue) <=> \E i \in 1..Len(speakerQueue) : cmd = speakerQueue[i]
      BY <2>2 DEF Range
    <2>. QED
      BY <2>1, <2>3 DEF NewestIsServed, InOrder, NewestKept, NewestAccepted, InHand
  <1>2. SpeakerInv => NewestIsServed /\ ToneEndsWithSound
    BY <1>1 DEF SpeakerInv
  <1>. QED
    BY <1>2, SpeakerStarts, SpeakerKeeps, PTL

-----------------------------------------------------------------------------
(* The status LED (CydStatusLed). *)

LedCommands == [id : {"base", "trigger"}, pattern : Patterns]
LedShape ==
    /\ ledQueue \in Seq(LedCommands)
    /\ led \in [base : Patterns, overlay : Patterns, overlayAt : {"none", "running", "over"}, current : Colors]
    /\ result \in DOMAIN StatusPattern
    /\ refused \in BOOLEAN /\ painted \in BOOLEAN

IsBase(i) == ledQueue[i].id = "base"

(* The last report waits as the newest base pattern, or has become the base. *)
NewestBase ==
    ~refused =>
        /\ \A i \in 1..Len(ledQueue) :
            IsBase(i) /\ (\A j \in 1..Len(ledQueue) : j > i => ~IsBase(j)) => ledQueue[i].pattern = StatusPattern[result]
        /\ (\A i \in 1..Len(ledQueue) : ~IsBase(i)) => led.base = StatusPattern[result]
PinsFollow == painted \/ pins = led.current
BaseIsShown == led.overlayAt = "none" => led.current \in BaseLooks(led.base)
LedInv == LedShape /\ NewestBase /\ PinsFollow /\ BaseIsShown

LEMMA LedStarts == LedInit => LedInv
  <1>. SUFFICES ASSUME LedInit PROVE LedInv
    OBVIOUS
  <1>1. OffPattern \in Patterns
    BY DEF OffPattern, Pattern, Patterns, Colors
  <1>2. /\ ledQueue = <<>> /\ ledQueue \in Seq(LedCommands) /\ Len(ledQueue) = 0
        /\ led = [base |-> OffPattern, overlay |-> OffPattern, overlayAt |-> "none", current |-> "off"]
        /\ pins = "off" /\ result = "none" /\ ~refused /\ ~painted
        /\ refused \in BOOLEAN /\ painted \in BOOLEAN
    <2>1. ledQueue = <<>> /\ ledQueue \in Seq(LedCommands) /\ Len(ledQueue) = 0
      BY DEF LedInit
    <2>. QED
      BY <2>1 DEF LedInit
  <1>3. "none" \in DOMAIN StatusPattern /\ StatusPattern["none"] = OffPattern
    BY DEF StatusPattern
  <1>4. "off" \in BaseLooks(OffPattern)
    BY DEF BaseLooks, OffPattern, Pattern
  <1>5. LedShape
    BY <1>1, <1>2, <1>3 DEF LedShape, Colors
  <1>. QED
    BY <1>2, <1>3, <1>4, <1>5 DEF LedInv, NewestBase, PinsFollow, BaseIsShown

LEMMA PatternsOfResults == \A r \in DOMAIN StatusPattern : StatusPattern[r] \in Patterns
  <1>1. /\ StatusPattern["none"] = OffPattern /\ StatusPattern["unset"] = Pattern("red", "on", FALSE)
        /\ StatusPattern["ok"] = Pattern("green", "on", FALSE)
        /\ StatusPattern["failed"] = Pattern("red", "blink", FALSE)
        /\ DOMAIN StatusPattern = {"none", "unset", "ok", "failed"}
    BY DEF StatusPattern
  <1>2. \A c \in Colors, e \in {"off", "on", "blink", "flash"}, o \in BOOLEAN : Pattern(c, e, o) \in Patterns
    BY DEF Pattern, Patterns
  <1>3. OffPattern \in Patterns
    BY <1>2 DEF OffPattern, Colors
  <1>. QED
    BY <1>1, <1>2, <1>3 DEF Colors

LEMMA LedSent ==
    ASSUME LedShape, NEW id \in {"base", "trigger"}, NEW pattern \in Patterns, LedSend(id, pattern)
    PROVE  /\ ledQueue' \in Seq(LedCommands)
           /\ Len(ledQueue') = Len(ledQueue) + 1
           /\ \A i \in 1..Len(ledQueue) : ledQueue'[i] = ledQueue[i]
           /\ ledQueue'[Len(ledQueue) + 1].id = id /\ ledQueue'[Len(ledQueue) + 1].pattern = pattern
           /\ Len(ledQueue) \in Nat
           /\ \A i \in 1..Len(ledQueue') : i \in 1..Len(ledQueue) \/ i = Len(ledQueue) + 1
  <1>1. ledQueue \in Seq(LedCommands)
    BY DEF LedShape
  <1>2. [id |-> id, pattern |-> pattern] \in LedCommands
    BY DEF LedCommands
  <1>3. ledQueue' = Append(ledQueue, [id |-> id, pattern |-> pattern])
    BY DEF LedSend
  <1>4. ledQueue'[Len(ledQueue) + 1] = [id |-> id, pattern |-> pattern]
    BY <1>1, <1>3
  <1>. QED
    BY <1>1, <1>2, <1>3, <1>4

LEMMA LooksAreColors == \A p \in Patterns : BaseLooks(p) \subseteq Colors /\ OverlayLooks(p) \subseteq Colors
  <1>1. \A p \in Patterns : p.color \in Colors
    BY DEF Patterns
  <1>. QED
    BY <1>1 DEF BaseLooks, OverlayLooks, Colors

LEMMA RoundKeeps == ASSUME LedInv, LedRound PROVE LedInv'
  <1>. DEFINE LedStates == [base : Patterns, overlay : Patterns, overlayAt : {"none", "running", "over"}, current : Colors]
  <1>0. /\ LedShape /\ NewestBase /\ PinsFollow
        /\ ledQueue \in Seq(LedCommands) /\ led \in LedStates
    BY DEF LedInv, LedShape
  <1>1. PICK served : served = IF ledQueue = <<>> THEN led ELSE Taken(led, Head(ledQueue))
    OBVIOUS
  <1>2. /\ served \in LedStates
        /\ ledQueue = <<>> => served = led
        /\ ledQueue # <<>> => served.base = IF Head(ledQueue).id = "base" THEN Head(ledQueue).pattern ELSE led.base
    <2>1. CASE ledQueue = <<>>
      BY <1>0, <1>1, <2>1
    <2>2. CASE ledQueue # <<>>
      <3>1. Head(ledQueue) \in LedCommands
        BY <1>0, <2>2
      <3>2. CASE Head(ledQueue).id = "base"
        BY <1>0, <1>1, <2>2, <3>1, <3>2 DEF Taken, TakeBase, LedCommands
      <3>3. CASE Head(ledQueue).id # "base"
        BY <1>0, <1>1, <2>2, <3>1, <3>3 DEF Taken, TakeTrigger, LedCommands
      <3>. QED
        BY <3>2, <3>3
    <2>. QED
      BY <2>1, <2>2
  <1>3. PICK rendered : rendered = Rendered(served)
    OBVIOUS
  <1>4. rendered \in LedStates /\ rendered.base = served.base /\ rendered.overlayAt # "over"
    BY <1>2, <1>3 DEF Rendered
  <1>5. PICK color \in Looks(rendered) : /\ led' = [rendered EXCEPT !.current = color]
                                     /\ IF color # led.current THEN pins' = color /\ painted' = FALSE
                                        ELSE UNCHANGED <<pins, painted>>
    BY <1>1, <1>3 DEF LedRound
  <1>6. color \in Colors /\ (rendered.overlayAt = "none" => color \in BaseLooks(rendered.base))
    BY <1>4, LooksAreColors DEF Looks
  <1>7. led' \in LedStates /\ led'.current = color /\ led'.base = served.base /\ led'.overlayAt = rendered.overlayAt
    BY <1>4, <1>5, <1>6
  <1>8. PinsFollow' /\ BaseIsShown' /\ painted' \in BOOLEAN
    BY <1>0, <1>4, <1>5, <1>6, <1>7 DEF PinsFollow, BaseIsShown, LedShape
  <1>9. /\ ledQueue' = IF ledQueue = <<>> THEN <<>> ELSE Tail(ledQueue)
        /\ UNCHANGED <<result, refused>>
    BY DEF LedRound
  <1>10. CASE ledQueue = <<>>
    <2>1. ledQueue' = ledQueue /\ led'.base = led.base
      BY <1>2, <1>7, <1>9, <1>10
    <2>2. NewestBase'
      BY <1>0, <1>9, <2>1 DEF NewestBase, IsBase
    <2>. QED
      BY <1>0, <1>7, <1>8, <1>9, <2>1, <2>2 DEF LedInv, LedShape
  <1>11. CASE ledQueue # <<>>
    <2>1. /\ ledQueue' \in Seq(LedCommands)
          /\ Len(ledQueue) \in Nat /\ Len(ledQueue) >= 1 /\ Len(ledQueue') = Len(ledQueue) - 1
          /\ Head(ledQueue) = ledQueue[1]
          /\ \A i \in 1..Len(ledQueue') : ledQueue'[i] = ledQueue[i + 1] /\ i + 1 \in 1..Len(ledQueue)
      BY <1>0, <1>9, <1>11
    <2>2. \A j \in 1..Len(ledQueue) : j = 1 \/ (j - 1 \in 1..Len(ledQueue') /\ ledQueue'[j - 1] = ledQueue[j])
      BY <2>1
    <2>3. ASSUME ~refused' PROVE /\ \A i \in 1..Len(ledQueue') :
                                      ledQueue'[i].id = "base" /\ (\A j \in 1..Len(ledQueue') : j > i => ledQueue'[j].id # "base")
                                        => ledQueue'[i].pattern = StatusPattern[result']
                                 /\ (\A i \in 1..Len(ledQueue') : ledQueue'[i].id # "base") => led'.base = StatusPattern[result']
      <3>1. /\ \A i \in 1..Len(ledQueue) :
                  ledQueue[i].id = "base" /\ (\A j \in 1..Len(ledQueue) : j > i => ledQueue[j].id # "base")
                    => ledQueue[i].pattern = StatusPattern[result]
            /\ (\A i \in 1..Len(ledQueue) : ledQueue[i].id # "base") => led.base = StatusPattern[result]
        BY <1>0, <1>9, <2>3 DEF NewestBase, IsBase
      <3>2. ASSUME NEW i \in 1..Len(ledQueue'), ledQueue'[i].id = "base",
                   \A j \in 1..Len(ledQueue') : j > i => ledQueue'[j].id # "base"
            PROVE  ledQueue'[i].pattern = StatusPattern[result']
        <4>1. i + 1 \in 1..Len(ledQueue) /\ ledQueue'[i] = ledQueue[i + 1]
          BY <2>1
        <4>2. ASSUME NEW j \in 1..Len(ledQueue), j > i + 1 PROVE ledQueue[j].id # "base"
          <5>1. j # 1 /\ j - 1 > i
            BY <3>2, <4>2
          <5>. QED
            BY <2>2, <3>2, <5>1
        <4>. QED
          BY <1>9, <3>1, <3>2, <4>1, <4>2
      <3>3. ASSUME \A i \in 1..Len(ledQueue') : ledQueue'[i].id # "base" PROVE led'.base = StatusPattern[result']
        <4>1. \A j \in 1..Len(ledQueue) : j # 1 => ledQueue[j].id # "base"
          BY <2>2, <3>3
        <4>2. 1 \in 1..Len(ledQueue) /\ \A j \in 1..Len(ledQueue) : j > 1 => j # 1
          BY <2>1
        <4>3. CASE ledQueue[1].id = "base"
          BY <1>2, <1>7, <1>9, <1>11, <2>1, <3>1, <4>1, <4>2, <4>3
        <4>4. CASE ledQueue[1].id # "base"
          BY <1>2, <1>7, <1>9, <1>11, <2>1, <3>1, <4>1, <4>4
        <4>. QED
          BY <4>3, <4>4
      <3>. QED
        BY <3>2, <3>3
    <2>4. NewestBase'
      BY <2>3 DEF NewestBase, IsBase
    <2>. QED
      BY <1>0, <1>7, <1>8, <1>9, <2>1, <2>4 DEF LedInv, LedShape
  <1>. QED
    BY <1>10, <1>11

LEMMA LedKeeps == LedInv /\ [LedNext]_ledVars => LedInv'
  <1>. SUFFICES ASSUME LedInv, [LedNext]_ledVars PROVE LedInv'
    OBVIOUS
  <1>0. LedShape /\ NewestBase /\ PinsFollow /\ BaseIsShown
    BY DEF LedInv
  <1>1. ASSUME NEW r \in {"unset", "ok", "failed"}, ShowResult(r) PROVE LedInv'
    <2>1. result' = r /\ r \in DOMAIN StatusPattern /\ UNCHANGED <<led, pins, painted>>
      BY <1>1 DEF ShowResult, StatusPattern
    <2>2. PinsFollow' /\ BaseIsShown'
      BY <1>0, <2>1 DEF PinsFollow, BaseIsShown
    <2>3. CASE HasRoom
      <3>1. LedSend("base", StatusPattern[r]) /\ refused' = FALSE
        BY <1>1, <2>3 DEF ShowResult
      <3>2. StatusPattern[r] \in Patterns
        BY <2>1, PatternsOfResults
      <3>3. /\ ledQueue' \in Seq(LedCommands)
            /\ Len(ledQueue') = Len(ledQueue) + 1 /\ Len(ledQueue) \in Nat
            /\ ledQueue'[Len(ledQueue) + 1].id = "base"
            /\ ledQueue'[Len(ledQueue) + 1].pattern = StatusPattern[r]
            /\ \A i \in 1..Len(ledQueue') : i \in 1..Len(ledQueue) \/ i = Len(ledQueue) + 1
        BY <1>0, <3>1, <3>2, LedSent
      <3>4. NewestBase'
        BY <2>1, <3>3 DEF NewestBase, IsBase
      <3>. QED
        BY <1>0, <2>1, <2>2, <3>1, <3>3, <3>4 DEF LedInv, LedShape
    <2>4. CASE ~HasRoom
      BY <1>0, <1>1, <2>1, <2>2, <2>4 DEF ShowResult, LedInv, LedShape, NewestBase
    <2>. QED
      BY <2>3, <2>4
  <1>2. CASE TriggerPattern
    <2>1. PICK pattern \in OverlayPatterns : LedSend("trigger", pattern)
      BY <1>2 DEF TriggerPattern
    <2>2. UNCHANGED <<led, pins, result, refused, painted>>
      BY <1>2 DEF TriggerPattern
    <2>3. pattern \in Patterns
      <3>1. \A o \in BOOLEAN, e \in {"on", "flash"} : Pattern("yellow", e, o) \in Patterns
        BY DEF Pattern, Patterns, Colors
      <3>. QED
        BY <3>1 DEF OverlayPatterns
    <2>4. /\ ledQueue' \in Seq(LedCommands)
          /\ Len(ledQueue') = Len(ledQueue) + 1 /\ Len(ledQueue) \in Nat
          /\ \A i \in 1..Len(ledQueue) : ledQueue'[i] = ledQueue[i]
          /\ ledQueue'[Len(ledQueue) + 1].id = "trigger"
          /\ \A i \in 1..Len(ledQueue') : i \in 1..Len(ledQueue) \/ i = Len(ledQueue) + 1
      BY <1>0, <2>1, <2>3, LedSent
    <2>5. NewestBase'
      BY <1>0, <2>2, <2>4 DEF NewestBase, IsBase
    <2>. QED
      BY <1>0, <2>2, <2>4, <2>5 DEF LedInv, LedShape, PinsFollow, BaseIsShown
  <1>3. CASE SetRgb
    BY <1>0, <1>3 DEF SetRgb, LedInv, LedShape, NewestBase, IsBase, PinsFollow, BaseIsShown
  <1>4. CASE LedRound
    BY <1>4, RoundKeeps
  <1>5. CASE OverlayOver
    <2>1. led' \in [base : Patterns, overlay : Patterns, overlayAt : {"none", "running", "over"}, current : Colors]
          /\ led'.overlayAt = "over" /\ led'.base = led.base /\ led'.current = led.current
      BY <1>0, <1>5 DEF OverlayOver, LedShape
    <2>. QED
      BY <1>0, <1>5, <2>1 DEF OverlayOver, LedInv, LedShape, NewestBase, IsBase, PinsFollow, BaseIsShown
  <1>6. CASE UNCHANGED ledVars
    BY <1>0, <1>6 DEF ledVars, LedInv, LedShape, NewestBase, IsBase, PinsFollow, BaseIsShown
  <1>. QED
    BY <1>1, <1>2, <1>3, <1>4, <1>5, <1>6 DEF LedNext

(* The status LED shows the connection's result, for every length of its queue and however many      *)
(* overlays ran before (cyd_status_led.c:215-283).                                                    *)
THEOREM TheLedShowsTheResult == LedInit /\ [][LedNext]_ledVars => []LedShowsResult
  <1>1. LedInv => LedShowsResult
    <2>1. ASSUME LedInv, ledQueue = <<>>, led.overlayAt = "none", ~refused, ~painted
          PROVE  pins \in BaseLooks(StatusPattern[result])
      <3>1. Len(ledQueue) = 0
        BY <2>1
      <3>. QED
        BY <2>1, <3>1 DEF LedInv, NewestBase, PinsFollow, BaseIsShown
    <2>. QED
      BY <2>1 DEF LedShowsResult
  <1>. QED
    BY <1>1, LedStarts, LedKeeps, PTL

-----------------------------------------------------------------------------
(* The stored settings (StoredSettings).                                     *)

(* What the steppers of the settings step on. *)
Levels == {255, 191, 128, 102, 77, 64, 51, 38, 26, 13}
IdleTimes == {0, 30, 60, 180, 300, 600, 900, 1200, 1800, 2700, 3600}
Intervals ==
    1..10 \cup {15, 20, 25, 30, 35, 40, 45, 50, 55, 60, 90, 120, 180, 240, 300, 360,
                540, 720, 900, 1080, 1260, 1440}

(* A value that the program may use: of a screen, of a record or a default. *)
Usable(v) ==
    /\ v \in Nat
    /\ setting = "brightness" => v \in Levels \cup {100, 192}
    /\ setting = "theme" => v \in 0..Themes - 1
    /\ setting = "interval" => v \in Intervals
    /\ setting = "timezone" => v \in 0..Zones
    /\ setting = "wifiIdle" => v \in IdleTimes \cup {45, 5000}

(* A value that a stepper leaves behind. *)
OnStep(v) ==
    /\ setting = "brightness" => v \in Levels
    /\ setting = "idleReturn" => v \in 0..IdleReturnMax /\ v % 10 = 0
    /\ setting = "timezone" => v \in 1..Zones
    /\ setting = "wifiIdle" => v \in IdleTimes

Settings == {"brightness", "theme", "idleReturn", "interval", "timezone", "wifiIdle"}

(* A level is nearest to itself, and an idle time is the last at or below itself. *)
LEMMA NearestOfLevel ==
    ASSUME NEW i \in 1..10 PROVE NearestLevel(BrightnessLevels[i]) = i /\ BrightnessLevels[i] \in Levels
  <1>. DEFINE v == BrightnessLevels[i]
              Least(k) == \A j \in DOMAIN BrightnessLevels :
                            LET di == Distance(BrightnessLevels[k], v) dj == Distance(BrightnessLevels[j], v)
                            IN  di < dj \/ (di = dj /\ k <= j)
  <1>1. DOMAIN BrightnessLevels = 1..10 /\ \A k \in 1..10 : BrightnessLevels[k] \in Levels
    BY DEF BrightnessLevels, Levels
  <1>2. \A j, k \in 1..10 : j # k => BrightnessLevels[k] # BrightnessLevels[j]
    BY DEF BrightnessLevels
  <1>3. \A a, b \in Nat : a # b => 0 = Distance(a, a) /\ 0 < Distance(b, a)
    BY DEF Distance
  <1>4. Levels \subseteq Nat
    BY DEF Levels
  <1>. HIDE DEF v
  <1>5. v \in Nat /\ v = BrightnessLevels[i]
    BY <1>1, <1>4 DEF v
  <1>6. Least(i)
    <2>. SUFFICES ASSUME NEW j \in 1..10
                  PROVE  LET di == Distance(BrightnessLevels[i], v) dj == Distance(BrightnessLevels[j], v)
                         IN  di < dj \/ (di = dj /\ i <= j)
      BY <1>1
    <2>1. CASE j = i
      BY <2>1, <1>1, <1>4 DEF Distance
    <2>2. CASE j # i
      BY <2>2, <1>1, <1>2, <1>3, <1>4, <1>5
    <2>. QED
      BY <2>1, <2>2
  <1>7. \A k \in 1..10 : Least(k) => k = i
    <2>. SUFFICES ASSUME NEW k \in 1..10, Least(k), k # i PROVE FALSE
      OBVIOUS
    <2>1. LET dk == Distance(BrightnessLevels[k], v) di == Distance(BrightnessLevels[i], v)
          IN  dk < di \/ (dk = di /\ k <= i)
      BY <1>1
    <2>2. BrightnessLevels[k] \in Nat /\ v # BrightnessLevels[k]
      BY <1>1, <1>2, <1>4, <1>5
    <2>3. 0 = Distance(BrightnessLevels[i], v) /\ 0 < Distance(BrightnessLevels[k], v)
      BY <1>3, <1>5, <2>2
    <2>4. Distance(BrightnessLevels[k], v) \in Int
      BY <2>2, <1>5 DEF Distance
    <2>. QED
      BY <2>1, <2>3, <2>4
  <1>8. (CHOOSE k \in DOMAIN BrightnessLevels : Least(k)) = i
    BY <1>1, <1>6, <1>7
  <1>. QED
    BY <1>8, <1>1 DEF NearestLevel, v

LEMMA NearestOfOthers == NearestLevel(100) = 4 /\ NearestLevel(192) = 2
  <1>. DEFINE Least(v, k) == \A j \in DOMAIN BrightnessLevels :
                            LET di == Distance(BrightnessLevels[k], v) dj == Distance(BrightnessLevels[j], v)
                            IN  di < dj \/ (di = dj /\ k <= j)
  <1>1. DOMAIN BrightnessLevels = 1..10
    BY DEF BrightnessLevels
  <1>2. Least(100, 4) /\ Least(192, 2)
    BY DEF BrightnessLevels, Distance
  <1>3. \A k \in 1..10 : (Least(100, k) => k = 4) /\ (Least(192, k) => k = 2)
    <2>. SUFFICES ASSUME NEW k \in 1..10 PROVE (Least(100, k) => k = 4) /\ (Least(192, k) => k = 2)
      OBVIOUS
    <2>. 4 \in DOMAIN BrightnessLevels /\ 2 \in DOMAIN BrightnessLevels
      BY <1>1
    <2>. QED
      BY DEF BrightnessLevels, Distance
  <1>. QED
    BY <1>1, <1>2, <1>3 DEF NearestLevel

LEMMA LastOfTimes ==
    ASSUME NEW i \in 1..11
    PROVE  LastAtOrBelow(IdleSeconds[i]) = i /\ IdleSeconds[i] \in IdleTimes
  <1>1. DOMAIN IdleSeconds = 1..11 /\ \A k \in 1..11 : IdleSeconds[k] \in IdleTimes
    BY DEF IdleSeconds, IdleTimes
  <1>2. \A j, k \in 1..11 : IdleSeconds[k] <= IdleSeconds[j] <=> k <= j
    BY DEF IdleSeconds
  <1>. QED
    BY <1>1, <1>2 DEF LastAtOrBelow

LEMMA LastOfOthers == LastAtOrBelow(45) = 2 /\ LastAtOrBelow(5000) = 11
  <1>1. DOMAIN IdleSeconds = 1..11
    BY DEF IdleSeconds
  <1>2. \A j \in 1..11 : (IdleSeconds[j] <= 45 <=> j <= 2) /\ IdleSeconds[j] <= 5000
    BY DEF IdleSeconds
  <1>. QED
    BY <1>1, <1>2 DEF LastAtOrBelow

(* Whatever flash holds reads as a usable value. *)
LEMMA Decoding ==
    ASSUME setting \in Settings
    PROVE  /\ \A r \in Records[setting] \cup {NoRecord, Unreadable} : Usable(Decoded(r))
           /\ \A v : Usable(v) => Decoded(v) = v
           /\ Default[setting] = Decoded(NoRecord)
  <1>1. \A r \in Records[setting] \cup {NoRecord, Unreadable} : Usable(Decoded(r))
    <2>. SUFFICES ASSUME NEW r \in Records[setting] \cup {NoRecord, Unreadable} PROVE Usable(Decoded(r))
      OBVIOUS
    <2>1. CASE setting \in {"brightness", "theme", "interval", "wifiIdle"}
      BY <2>1 DEF Records, Usable, Decoded, Default, Clamped, NoRecord, Unreadable, Levels, IdleTimes, Intervals,
                  Themes, MinBrightness, MinInterval, MaxInterval
    <2>2. CASE setting \in {"timezone", "idleReturn"}
      BY <2>2, StoredAssumption DEF Records, Usable, Decoded, Default, NoRecord, Unreadable
    <2>. QED
      BY <2>1, <2>2 DEF Settings
  <1>2. \A v : Usable(v) => Decoded(v) = v
    BY DEF Usable, Decoded, Clamped, NoRecord, Unreadable, Levels, Intervals, Settings,
           Themes, MinBrightness, MinInterval, MaxInterval
  <1>. QED
    BY <1>1, <1>2 DEF Decoded, Settings

LEMMA BrightnessSteps ==
    ASSUME setting = "brightness"
    PROVE  /\ \A v \in Levels \cup {100, 192} : SteppedUp(v) \in Levels /\ SteppedDown(v) \in Levels
           /\ \A v \in Levels :
                /\ SteppedUp(v) # v => SteppedDown(SteppedUp(v)) = v
                /\ SteppedDown(v) # v => SteppedUp(SteppedDown(v)) = v
  <1>1. \A v : /\ SteppedUp(v) = BrightnessLevels[Bounded(NearestLevel(v) - 1, 10)]
               /\ SteppedDown(v) = BrightnessLevels[Bounded(NearestLevel(v) + 1, 10)]
    BY DEF SteppedUp, SteppedDown, BrightnessLevels
  <1>2. \A i \in 1..10 : /\ Bounded(i - 1, 10) = (IF i = 1 THEN 1 ELSE i - 1)
                         /\ Bounded(i + 1, 10) = (IF i = 10 THEN 10 ELSE i + 1)
    BY DEF Bounded, Clamped
  <1>3. \A v \in Levels : \E i \in 1..10 : v = BrightnessLevels[i]
    BY DEF Levels, BrightnessLevels
  <1>4. \A i \in 1..10 : NearestLevel(BrightnessLevels[i]) = i /\ BrightnessLevels[i] \in Levels
    BY NearestOfLevel
  <1>5. \A i \in 1..10 :
           /\ SteppedUp(BrightnessLevels[i]) = BrightnessLevels[IF i = 1 THEN 1 ELSE i - 1]
           /\ SteppedDown(BrightnessLevels[i]) = BrightnessLevels[IF i = 10 THEN 10 ELSE i + 1]
    BY <1>1, <1>2, <1>4
  <1>6. \A v \in {100, 192} : SteppedUp(v) \in Levels /\ SteppedDown(v) \in Levels
    BY <1>1, <1>2, <1>4, NearestOfOthers
  <1>7. ASSUME NEW v \in Levels
        PROVE  /\ SteppedUp(v) \in Levels /\ SteppedDown(v) \in Levels
               /\ SteppedUp(v) # v => SteppedDown(SteppedUp(v)) = v
               /\ SteppedDown(v) # v => SteppedUp(SteppedDown(v)) = v
    <2>1. PICK i \in 1..10 : v = BrightnessLevels[i]
      BY <1>3
    <2>2. CASE i = 1
      BY <2>1, <2>2, <1>4, <1>5
    <2>3. CASE i = 10
      BY <2>1, <2>3, <1>4, <1>5
    <2>4. CASE i \in 2..9
      <3>1. i - 1 \in 1..10 /\ i + 1 \in 1..10 /\ i - 1 # 10 /\ i + 1 # 1 /\ i # 1 /\ i # 10
        BY <2>4
      <3>2. SteppedUp(v) = BrightnessLevels[i - 1] /\ SteppedDown(v) = BrightnessLevels[i + 1]
        BY <2>1, <3>1, <1>5
      <3>3. /\ SteppedDown(BrightnessLevels[i - 1]) = BrightnessLevels[(i - 1) + 1]
            /\ SteppedUp(BrightnessLevels[i + 1]) = BrightnessLevels[(i + 1) - 1]
        BY <3>1, <1>5
      <3>4. (i - 1) + 1 = i /\ (i + 1) - 1 = i
        BY <2>4
      <3>. QED
        BY <2>1, <3>1, <3>2, <3>3, <3>4, <1>4
    <2>. QED
      BY <2>2, <2>3, <2>4
  <1>. QED
    BY <1>6, <1>7

LEMMA IdleTimeSteps ==
    ASSUME setting = "wifiIdle"
    PROVE  /\ \A v \in IdleTimes \cup {45, 5000} : SteppedUp(v) \in IdleTimes /\ SteppedDown(v) \in IdleTimes
           /\ \A v \in IdleTimes :
                /\ SteppedUp(v) # v => SteppedDown(SteppedUp(v)) = v
                /\ SteppedDown(v) # v => SteppedUp(SteppedDown(v)) = v
  <1>1. \A v : /\ SteppedUp(v) = IdleSeconds[Bounded(LastAtOrBelow(v) + 1, 11)]
               /\ SteppedDown(v) = IdleSeconds[Bounded(LastAtOrBelow(v) - 1, 11)]
    BY DEF SteppedUp, SteppedDown, IdleSeconds
  <1>2. \A i \in 1..11 : /\ Bounded(i - 1, 11) = (IF i = 1 THEN 1 ELSE i - 1)
                         /\ Bounded(i + 1, 11) = (IF i = 11 THEN 11 ELSE i + 1)
    BY DEF Bounded, Clamped
  <1>3. \A v \in IdleTimes : \E i \in 1..11 : v = IdleSeconds[i]
    BY DEF IdleTimes, IdleSeconds
  <1>4. \A i \in 1..11 : LastAtOrBelow(IdleSeconds[i]) = i /\ IdleSeconds[i] \in IdleTimes
    BY LastOfTimes
  <1>5. \A i \in 1..11 :
           /\ SteppedUp(IdleSeconds[i]) = IdleSeconds[IF i = 11 THEN 11 ELSE i + 1]
           /\ SteppedDown(IdleSeconds[i]) = IdleSeconds[IF i = 1 THEN 1 ELSE i - 1]
    BY <1>1, <1>2, <1>4
  <1>6. \A v \in {45, 5000} : SteppedUp(v) \in IdleTimes /\ SteppedDown(v) \in IdleTimes
    BY <1>1, <1>2, <1>4, LastOfOthers
  <1>7. ASSUME NEW v \in IdleTimes
        PROVE  /\ SteppedUp(v) \in IdleTimes /\ SteppedDown(v) \in IdleTimes
               /\ SteppedUp(v) # v => SteppedDown(SteppedUp(v)) = v
               /\ SteppedDown(v) # v => SteppedUp(SteppedDown(v)) = v
    <2>1. PICK i \in 1..11 : v = IdleSeconds[i]
      BY <1>3
    <2>2. CASE i = 1
      BY <2>1, <2>2, <1>4, <1>5
    <2>3. CASE i = 11
      BY <2>1, <2>3, <1>4, <1>5
    <2>4. CASE i \in 2..10
      <3>1. i - 1 \in 1..11 /\ i + 1 \in 1..11 /\ i - 1 # 11 /\ i + 1 # 1 /\ i # 1 /\ i # 11
        BY <2>4
      <3>2. SteppedUp(v) = IdleSeconds[i + 1] /\ SteppedDown(v) = IdleSeconds[i - 1]
        BY <2>1, <3>1, <1>5
      <3>3. /\ SteppedDown(IdleSeconds[i + 1]) = IdleSeconds[(i + 1) - 1]
            /\ SteppedUp(IdleSeconds[i - 1]) = IdleSeconds[(i - 1) + 1]
        BY <3>1, <1>5
      <3>4. (i - 1) + 1 = i /\ (i + 1) - 1 = i
        BY <2>4
      <3>. QED
        BY <2>1, <3>1, <3>2, <3>3, <3>4, <1>4
    <2>. QED
      BY <2>2, <2>3, <2>4
  <1>. QED
    BY <1>6, <1>7

LEMMA IntervalSteps ==
    ASSUME NEW v \in Intervals
    PROVE  /\ Increased(v) \in Intervals /\ Decreased(v) \in Intervals
           /\ Increased(v) # v => Decreased(Increased(v)) = v
           /\ Decreased(v) # v => Increased(Decreased(v)) = v
  BY DEF Intervals, Increased, Decreased, IntervalStep, MinInterval, MaxInterval

(* A tap leaves a value on a step, and the other tap undoes it. *)
LEMMA StepperSteps ==
    ASSUME setting \in Settings
    PROVE  /\ \A v : Usable(v) => /\ Usable(SteppedUp(v)) /\ OnStep(SteppedUp(v))
                                  /\ Usable(SteppedDown(v)) /\ OnStep(SteppedDown(v))
           /\ \A v : Usable(v) /\ OnStep(v) =>
                /\ SteppedUp(v) # v => SteppedDown(SteppedUp(v)) = v
                /\ SteppedDown(v) # v => SteppedUp(SteppedDown(v)) = v
  <1>1. CASE setting = "brightness"
    BY <1>1, BrightnessSteps DEF Usable, OnStep, Levels
  <1>2. CASE setting = "theme"
    BY <1>2 DEF Usable, OnStep, SteppedUp, SteppedDown, Clamped, Themes
  <1>3. CASE setting = "idleReturn"
    <2>1. \A v : (Usable(v) <=> v \in Nat) /\ (OnStep(v) <=> v \in 0..IdleReturnMax /\ v % 10 = 0)
      BY <1>3 DEF Usable, OnStep
    <2>2. \A v : /\ SteppedUp(v) = IF Snapped(v) < IdleReturnMax THEN Snapped(v) + 10 ELSE Snapped(v)
                 /\ SteppedDown(v) = IF Snapped(v) >= 10 THEN Snapped(v) - 10 ELSE 0
      BY <1>3 DEF SteppedUp, SteppedDown
    <2>3. \A v \in Nat : Snapped(v) \in 0..IdleReturnMax /\ Snapped(v) % 10 = 0
      BY StoredAssumption DEF Snapped
    <2>4. \A v \in 0..IdleReturnMax : v % 10 = 0 => Snapped(v) = v
      BY StoredAssumption DEF Snapped
    <2>5. \A v \in 0..IdleReturnMax : v % 10 = 0 =>
             /\ v < IdleReturnMax => v + 10 \in 0..IdleReturnMax /\ (v + 10) % 10 = 0 /\ v + 10 >= 10
             /\ v >= 10 => v - 10 \in 0..IdleReturnMax /\ (v - 10) % 10 = 0 /\ v - 10 < IdleReturnMax
             /\ v < 10 => v = 0
      BY StoredAssumption
    <2>6. 0 \in 0..IdleReturnMax /\ 0 % 10 = 0
      BY StoredAssumption
    <2>7. ASSUME NEW v \in Nat
          PROVE  /\ SteppedUp(v) \in 0..IdleReturnMax /\ SteppedUp(v) % 10 = 0
                 /\ SteppedDown(v) \in 0..IdleReturnMax /\ SteppedDown(v) % 10 = 0
      BY <2>2, <2>3, <2>5, <2>6
    <2>8. ASSUME NEW v \in 0..IdleReturnMax, v % 10 = 0
          PROVE  /\ SteppedUp(v) # v => SteppedDown(SteppedUp(v)) = v
                 /\ SteppedDown(v) # v => SteppedUp(SteppedDown(v)) = v
      <3>1. CASE v < IdleReturnMax
        <4>1. SteppedUp(v) = v + 10 /\ Snapped(v + 10) = v + 10 /\ v + 10 >= 10
          BY <3>1, <2>2, <2>4, <2>5, <2>8
        <4>2. SteppedDown(v + 10) = v
          BY <4>1, <2>2, <2>8
        <4>. QED
          BY <4>1, <4>2, <3>1, <2>8, <2>2, <2>4, <2>5, StoredAssumption
      <3>2. CASE v = IdleReturnMax
        BY <3>2, <2>8, <2>2, <2>4, <2>5, StoredAssumption
      <3>. QED
        BY <3>1, <3>2, StoredAssumption
    <2>. QED
      BY <2>1, <2>7, <2>8
  <1>4. CASE setting = "interval"
    <2>1. Intervals \subseteq Nat
      BY DEF Intervals
    <2>2. \A v : SteppedUp(v) = Increased(v) /\ SteppedDown(v) = Decreased(v)
      BY <1>4 DEF SteppedUp, SteppedDown
    <2>3. \A v \in Intervals :
             /\ Increased(v) \in Intervals /\ Decreased(v) \in Intervals
             /\ Increased(v) # v => Decreased(Increased(v)) = v
             /\ Decreased(v) # v => Increased(Decreased(v)) = v
      BY IntervalSteps
    <2>4. ASSUME NEW v PROVE Usable(v) <=> v \in Intervals
      <3>1. v \in Intervals => v \in Nat
        BY <2>1
      <3>. QED
        BY <1>4, <3>1 DEF Usable
    <2>5. \A v : OnStep(v)
      BY <1>4 DEF OnStep
    <2>. QED
      BY <2>2, <2>3, <2>4, <2>5
  <1>5. CASE setting = "timezone"
    BY <1>5, StoredAssumption DEF Usable, OnStep, SteppedUp, SteppedDown, ZoneIndex, Bounded, Clamped
  <1>6. CASE setting = "wifiIdle"
    BY <1>6, IdleTimeSteps DEF Usable, OnStep, IdleTimes
  <1>. QED
    BY <1>1, <1>2, <1>3, <1>4, <1>5, <1>6 DEF Settings

-----------------------------------------------------------------------------
(* The values, and how they come into use. *)
FlashIsReadable == flash \in {NoRecord, Unreadable} \cup Records[setting] \/ Usable(flash)

(* What a task read settles as the value only before the first one has settled. *)
LoadersKnow ==
    /\ \A t \in Tasks : loader[t].at = "settle" => Usable(loader[t].got) /\ (~loaded => loader[t].got = Decoded(flash))
    /\ stage # "boot" => loaded /\ loader["main"].at = "idle"
    /\ setting # "wifiIdle" => loader["manager"].at = "idle"

BootIsFresh == stage = "boot" => ~unsaved /\ ~stepped /\ (loaded => value = Decoded(flash))

(* The cache agrees with the record unless a write of it failed. *)
CacheIsTrue ==
    /\ setting # "theme" => cached = NoRecord
    /\ ~unsaved /\ cached # NoRecord => flash = cached

StoredInv ==
    /\ StoredTypeOK /\ Usable(value) /\ FlashIsReadable
    /\ LoadersKnow /\ BootIsFresh /\ CacheIsTrue
    /\ stepped => OnStep(value)
    /\ SavedOnLeaving

LEMMA SettingsInOrder == {SaveOrder[i] : i \in DOMAIN SaveOrder} = Settings
  BY DEF SaveOrder, Settings

LEMMA RecordsAreNat == ASSUME setting \in Settings PROVE Records[setting] \subseteq Nat
  BY StoredAssumption DEF Records, Settings, Themes

LEMMA ReadsUsable ==
    ASSUME setting \in Settings, FlashIsReadable PROVE Usable(Decoded(flash)) /\ Decoded(flash) \in Nat
  <1>1. Usable(Decoded(flash))
    BY Decoding DEF FlashIsReadable
  <1>. QED
    BY <1>1 DEF Usable

LEMMA FreshStart ==
    ASSUME setting \in Settings, FlashIsReadable, flash \in Nat \cup {NoRecord, Unreadable},
           value = Default[setting], ~loaded, nvs, cached = NoRecord, loader = [t \in Tasks |-> Idle],
           stage = "boot", mustInitialize = FALSE, ~stepped, ~unsaved,
           loaded \in BOOLEAN, nvs \in BOOLEAN, stepped \in BOOLEAN, unsaved \in BOOLEAN
    PROVE  StoredInv
  <1>1. Usable(value) /\ value \in Nat
    BY Decoding DEF Usable
  <1>2. \A t \in Tasks : loader[t] = Idle
    OBVIOUS
  <1>3. StoredTypeOK
    BY <1>1, <1>2, SettingsInOrder DEF StoredTypeOK, Idle, Tasks
  <1>4. LoadersKnow
    BY <1>2 DEF LoadersKnow, Idle, Tasks
  <1>. QED
    BY <1>1, <1>3, <1>4 DEF StoredInv, BootIsFresh, CacheIsTrue, SavedOnLeaving

LEMMA StoredStarts == StoredInit => StoredInv
  <1>. SUFFICES ASSUME StoredInit PROVE StoredInv
    OBVIOUS
  <1>1. setting \in Settings /\ value = Default[setting] /\ flash \in Records[setting] \cup {NoRecord, Unreadable}
    BY SettingsInOrder DEF StoredInit
  <1>2. flash \in Nat \cup {NoRecord, Unreadable} /\ FlashIsReadable
    BY <1>1, RecordsAreNat DEF FlashIsReadable
  <1>. QED
    BY <1>1, <1>2, FreshStart DEF StoredInit

LEMMA RebootKeeps ==
    ASSUME StoredInv, Rebooted, flash' \in {flash, NoRecord, value} PROVE StoredInv'
  <1>1. setting' = setting /\ setting \in Settings
    BY SettingsInOrder DEF StoredInv, StoredTypeOK, Rebooted
  <1>2. Usable(value') /\ value' \in Nat
    BY <1>1, Decoding DEF Usable, Rebooted
  <1>3. flash' \in Nat \cup {NoRecord, Unreadable} /\ FlashIsReadable'
    BY <1>1 DEF StoredInv, StoredTypeOK, FlashIsReadable, Usable
  <1>4. \A t \in Tasks : loader'[t] = Idle
    BY DEF Rebooted
  <1>5. StoredTypeOK'
    BY <1>1, <1>2, <1>3, <1>4, SettingsInOrder DEF StoredTypeOK, Rebooted, Idle, Tasks
  <1>6. LoadersKnow'
    BY <1>4 DEF LoadersKnow, Rebooted, Idle, Tasks
  <1>. QED
    BY <1>1, <1>2, <1>3, <1>5, <1>6 DEF StoredInv, BootIsFresh, CacheIsTrue, SavedOnLeaving, Rebooted, Usable

LEMMA LoadingKeeps ==
    ASSUME StoredInv, NEW t \in Tasks, Look(t) \/ ReadRecord(t) \/ Settle(t) PROVE StoredInv'
  <1>1. setting' = setting /\ setting \in Settings /\ UNCHANGED <<flash, nvs, stage, stepped, unsaved>>
    BY SettingsInOrder DEF StoredInv, StoredTypeOK, Look, ReadRecord, Settle
  <1>2. \A r : Decoded(r)' = Decoded(r)
    BY <1>1 DEF Decoded
  <1>3. \A v : (Usable(v)' <=> Usable(v)) /\ (OnStep(v)' <=> OnStep(v))
    BY <1>1 DEF Usable, OnStep
  <1>4. FlashIsReadable' /\ Usable(Decoded(flash)) /\ Decoded(flash) \in Nat
    BY <1>1, ReadsUsable DEF StoredInv, FlashIsReadable, Usable
  <1>5. CASE Look(t)
    <2>1. /\ UNCHANGED <<value, loaded, cached, mustInitialize>>
          /\ loader' = [loader EXCEPT ![t].at = "read"]
          /\ ~loaded /\ (t = "manager" => setting = "wifiIdle")
      BY <1>5 DEF Look
    <2>2. StoredTypeOK'
      BY <1>1, <2>1, SettingsInOrder DEF StoredInv, StoredTypeOK, Tasks
    <2>3. LoadersKnow'
      BY <1>1, <1>2, <1>3, <2>1 DEF StoredInv, StoredTypeOK, LoadersKnow, Tasks
    <2>. QED
      BY <1>1, <1>2, <1>3, <1>4, <2>1, <2>2, <2>3 DEF StoredInv, BootIsFresh, CacheIsTrue, SavedOnLeaving
  <1>6. CASE ReadRecord(t)
    <2>1. /\ UNCHANGED <<value, loaded>>
          /\ loader' = [loader EXCEPT ![t] = [at |-> "settle", got |-> Decoded(flash)]]
          /\ cached' = IF setting = "theme" /\ flash \in 0..Themes - 1 THEN flash ELSE cached
          /\ loader[t].at = "read" /\ mustInitialize' \in BOOLEAN
      BY <1>6 DEF ReadRecord, StoredInv, StoredTypeOK
    <2>2. StoredTypeOK'
      BY <1>1, <1>4, <2>1, SettingsInOrder DEF StoredInv, StoredTypeOK, Tasks
    <2>3. LoadersKnow'
      BY <1>1, <1>2, <1>3, <1>4, <2>1 DEF StoredInv, StoredTypeOK, LoadersKnow, Tasks
    <2>4. CacheIsTrue'
      BY <1>1, <2>1 DEF StoredInv, CacheIsTrue
    <2>. QED
      BY <1>1, <1>2, <1>3, <1>4, <2>1, <2>2, <2>3, <2>4 DEF StoredInv, BootIsFresh, SavedOnLeaving
  <1>7. CASE Settle(t)
    <2>1. /\ UNCHANGED <<cached, mustInitialize>>
          /\ value' = IF loaded THEN value ELSE loader[t].got
          /\ loaded' = TRUE
          /\ loader' = [loader EXCEPT ![t] = Idle]
          /\ loader[t].at = "settle"
      BY <1>7 DEF Settle
    <2>2. Usable(value') /\ value' \in Nat /\ (~loaded => value' = Decoded(flash) /\ stage = "boot")
      BY <2>1 DEF StoredInv, LoadersKnow, Usable
    <2>3. StoredTypeOK'
      BY <1>1, <2>1, <2>2, SettingsInOrder DEF StoredInv, StoredTypeOK, Tasks, Idle
    <2>4. LoadersKnow'
      BY <1>1, <1>2, <1>3, <2>1 DEF StoredInv, StoredTypeOK, LoadersKnow, Tasks, Idle
    <2>5. CASE loaded
      BY <2>5, <1>1, <1>2, <1>3, <1>4, <2>1, <2>2, <2>3, <2>4 DEF StoredInv, BootIsFresh, CacheIsTrue, SavedOnLeaving
    <2>6. CASE ~loaded
      BY <2>6, <1>1, <1>2, <1>3, <1>4, <2>1, <2>2, <2>3, <2>4 DEF StoredInv, BootIsFresh, CacheIsTrue, SavedOnLeaving
    <2>. QED
      BY <2>5, <2>6
  <1>. QED
    BY <1>5, <1>6, <1>7

LEMMA StoredScreenKeeps ==
    ASSUME StoredInv, StartShell \/ EnterSettings \/ Step \/ LeaveSettings PROVE StoredInv'
  <1>1. setting' = setting /\ setting \in Settings /\ UNCHANGED <<loaded, nvs, loader, mustInitialize>>
    BY SettingsInOrder DEF StoredInv, StoredTypeOK, StartShell, EnterSettings, Step, LeaveSettings
  <1>2. \A r : Decoded(r)' = Decoded(r)
    BY <1>1 DEF Decoded
  <1>3. \A v : (Usable(v)' <=> Usable(v)) /\ (OnStep(v)' <=> OnStep(v))
    BY <1>1 DEF Usable, OnStep
  <1>4. CASE StartShell
    BY <1>1, <1>2, <1>3, <1>4, SettingsInOrder
       DEF StartShell, StoredInv, StoredTypeOK, FlashIsReadable, LoadersKnow, BootIsFresh, CacheIsTrue, SavedOnLeaving
  <1>5. CASE EnterSettings
    BY <1>1, <1>2, <1>3, <1>5, SettingsInOrder
       DEF EnterSettings, StoredInv, StoredTypeOK, FlashIsReadable, LoadersKnow, BootIsFresh, CacheIsTrue, SavedOnLeaving
  <1>6. CASE Step
    <2>1. Usable(value') /\ OnStep(value') /\ value' \in Nat
      BY <1>6, <1>1, StepperSteps DEF Step, StoredInv, Usable
    <2>. QED
      BY <1>1, <1>2, <1>3, <1>6, <2>1, SettingsInOrder
         DEF Step, StoredInv, StoredTypeOK, FlashIsReadable, LoadersKnow, BootIsFresh, CacheIsTrue, SavedOnLeaving
  <1>7. CASE LeaveSettings
    <2>1. stage = "in" /\ stage' = "out" /\ UNCHANGED <<value, stepped>> /\ Save
      BY <1>7 DEF LeaveSettings
    <2>2. flash' \in {flash, value} /\ cached' \in {cached, value} /\ unsaved' \in BOOLEAN
      BY <2>1 DEF Save, StoredInv, StoredTypeOK
    <2>3. setting = "theme" => value \in 0..Themes - 1
      BY DEF StoredInv, Usable
    <2>4. setting # "theme" => cached' = NoRecord
      BY <2>1 DEF Save, StoredInv, CacheIsTrue
    <2>5. StoredTypeOK'
      BY <1>1, <2>1, <2>2, <2>3, <2>4, SettingsInOrder DEF StoredInv, StoredTypeOK
    <2>6. FlashIsReadable'
      BY <1>1, <1>3, <2>2 DEF StoredInv, FlashIsReadable
    <2>7. LoadersKnow'
      BY <1>1, <1>2, <1>3, <2>1 DEF StoredInv, LoadersKnow
    <2>8. ~unsaved' => flash' = value /\ (cached' # NoRecord => flash' = cached')
      <3>1. value # NoRecord
        BY DEF StoredInv, Usable, NoRecord
      <3>. QED
        BY <2>1, <3>1 DEF Save, StoredInv, CacheIsTrue, StoredTypeOK, MayWrite
    <2>9. SavedOnLeaving' /\ CacheIsTrue'
      BY <1>1, <1>2, <2>1, <2>4, <2>8, Decoding DEF SavedOnLeaving, CacheIsTrue, StoredInv
    <2>. QED
      BY <1>1, <1>3, <2>1, <2>5, <2>6, <2>7, <2>9 DEF StoredInv, BootIsFresh
  <1>. QED
    BY <1>4, <1>5, <1>6, <1>7

LEMMA StoredKeeps == StoredInv /\ [StoredNext]_storedVars => StoredInv'
  <1>. SUFFICES ASSUME StoredInv, [StoredNext]_storedVars PROVE StoredInv'
    OBVIOUS
  <1>1. CASE \E t \in Tasks : Look(t) \/ ReadRecord(t) \/ Settle(t)
    BY <1>1, LoadingKeeps
  <1>2. CASE StartShell \/ EnterSettings \/ Step \/ LeaveSettings
    BY <1>2, StoredScreenKeeps
  <1>3. CASE SaveAndRestart \/ PowerCut \/ (ClearNvs /\ Rebooted)
    <2>1. Rebooted /\ flash' \in {flash, NoRecord, value}
      BY <1>3 DEF SaveAndRestart, PowerCut, ClearNvs
    <2>. QED
      BY <2>1, RebootKeeps
  <1>4. CASE ClearNvs /\ ~Rebooted
    <2>1. /\ flash' \in {flash, NoRecord} /\ nvs' = FALSE /\ unsaved' = TRUE /\ stage \in {"in", "forced"}
          /\ UNCHANGED <<setting, value, loaded, cached, loader, stage, mustInitialize, stepped>>
      BY <1>4 DEF ClearNvs
    <2>2. \A r : Decoded(r)' = Decoded(r)
      BY <2>1 DEF Decoded
    <2>3. \A v : (Usable(v)' <=> Usable(v)) /\ (OnStep(v)' <=> OnStep(v))
      BY <2>1 DEF Usable, OnStep
    <2>. QED
      BY <2>1, <2>2, <2>3, SettingsInOrder
         DEF StoredInv, StoredTypeOK, FlashIsReadable, LoadersKnow, BootIsFresh, CacheIsTrue, SavedOnLeaving
  <1>5. CASE UNCHANGED storedVars
    BY <1>5 DEF storedVars, StoredInv, StoredTypeOK, FlashIsReadable, LoadersKnow, BootIsFresh, CacheIsTrue,
                SavedOnLeaving, Usable, OnStep, Decoded
  <1>. QED
    BY <1>1, <1>2, <1>3, <1>4, <1>5 DEF StoredNext

LEMMA StoredKeepsItsWord == StoredInv => StoredTypeOK /\ SavedOnLeaving /\ StepsAreUndone
  <1>. SUFFICES ASSUME StoredInv PROVE StoredTypeOK /\ SavedOnLeaving /\ StepsAreUndone
    OBVIOUS
  <1>1. setting \in Settings
    BY SettingsInOrder DEF StoredInv, StoredTypeOK
  <1>2. StepsAreUndone
    BY <1>1, StepperSteps DEF StoredInv, StepsAreUndone
  <1>. QED
    BY <1>2 DEF StoredInv

-----------------------------------------------------------------------------
(* The screens of the settings (SettingsScreens). *)
PageNames == {"general", "security", "time", "network1", "network2", "nvs", "apps"}
Apps ==
    [view : Views, page : PageNames, direct : DOMAIN DirectItem \cup {"none"}, returnApp : {"none", "app"},
     forced : BOOLEAN, list : Lists, selected : 1..MaxProfiles]
Builds == [view : Views, page : PageNames, ssids : Lists, selected : 1..MaxProfiles]

(* The list that an action works on is the one that is shown, or there is none. *)
ListIsWorkedOn ==
    app.list # <<>> /\ app.view \in {"ssids", "delete"} =>
        app.list = built.ssids /\ app.selected = built.selected

ScreensInv ==
    /\ app \in Apps /\ built \in Builds /\ place \in {"off", "booting", "in", "sub", "away"}
    /\ armed \in DOMAIN DirectItem \cup {"none"} /\ finger \in BOOLEAN /\ invalid \in BOOLEAN /\ pin \in BOOLEAN
    /\ DOMAIN tracker = {"pending", "long"} /\ tracker.long \in BOOLEAN
    /\ store \in Lists /\ hidden \in Fixes
    /\ ListIsWorkedOn /\ DeletesTheShown /\ HiddenStaysHidden

LEMMA PagesOfTable ==
    /\ \A i \in DOMAIN PageTable : PageTable[i] \in PageNames
    /\ DOMAIN PageTable = 1..7
    /\ DOMAIN Offers = PageNames
  BY DEF PageTable, PageNames, Offers

LEMMA DirectViews ==
    /\ DOMAIN DirectItem = {"ssids", "clearTouchCalib", "clearNvs"}
    /\ DOMAIN DirectItem \subseteq Views
  BY DEF DirectItem, Views

LEMMA ListsAreSeq == Lists = {s \in Seq(Ssids) : Len(s) <= MaxProfiles}
  <1>1. ASSUME NEW s \in Lists PROVE s \in Seq(Ssids) /\ Len(s) <= MaxProfiles
    BY ScreensAssumption DEF Lists
  <1>2. ASSUME NEW s \in Seq(Ssids), Len(s) <= MaxProfiles PROVE s \in Lists
    <2>1. s \in [1..Len(s) -> Ssids] /\ Len(s) \in 0..MaxProfiles
      BY <1>2, ScreensAssumption
    <2>. QED
      BY <2>1 DEF Lists
  <1>. QED
    BY <1>1, <1>2

LEMMA NoList == <<>> \in Lists
  <1>1. <<>> \in Seq(Ssids) /\ Len(<<>>) <= MaxProfiles
    BY ScreensAssumption
  <1>. QED
    BY <1>1, ListsAreSeq

LEMMA ActivePage ==
    ASSUME NEW a \in Apps
    PROVE  /\ OnActivePage(a) \in Apps
           /\ \A f \in {"view", "direct", "returnApp", "forced", "list", "selected"} : OnActivePage(a)[f] = a[f]
           /\ OnActivePage(a).view = a.view
  <1>1. DOMAIN PageTable = 1..7 /\ PageTable[2] = "security"
    BY DEF PageTable
  <1>2. 2 \in ActivePages
    BY <1>1 DEF ActivePages, PageEnabled
  <1>3. ActivePages \subseteq 1..7
    BY <1>1 DEF ActivePages
  <1>4. \E i \in ActivePages : \A j \in ActivePages : i <= j
    <2>1. CASE 1 \in ActivePages
      BY <2>1, <1>3
    <2>2. CASE 1 \notin ActivePages
      BY <2>2, <1>2, <1>3
    <2>. QED
      BY <2>1, <2>2
  <1>5. (CHOOSE i \in ActivePages : \A j \in ActivePages : i <= j) \in DOMAIN PageTable
    BY <1>4, <1>3, <1>1
  <1>. QED
    BY <1>5, PagesOfTable DEF OnActivePage, Apps

LEMMA FirstRemoved ==
    ASSUME NEW s \in Lists, NEW e
    PROVE  /\ RemoveFirst(s, e) \in Lists
           /\ (\E i \in 1..Len(s) : s[i] = e) => Len(RemoveFirst(s, e)) < Len(s)
  <1>1. s \in Seq(Ssids) /\ Len(s) <= MaxProfiles
    BY ListsAreSeq
  <1>2. CASE \E i \in 1..Len(s) : s[i] = e
    <2>. DEFINE I == {i \in 1..Len(s) : s[i] = e}
                k == SelectInSeq(s, LAMBDA v : v = e)
    <2>1. k \in I
      <3>1. I # {} /\ I \subseteq Nat
        BY <1>2, <1>1
      <3>2. \E i \in I : \A j \in I : i <= j
        BY <3>1, Smallest
      <3>3. k = IF I # {} THEN Min(I) ELSE 0
        BY DEF SelectInSeq
      <3>. QED
        BY <3>1, <3>2, <3>3 DEF Min
    <2>2. k \in 1..Len(s)
      BY <2>1
    <2>. HIDE DEF k
    <2>. DEFINE front == SubSeq(s, 1, k - 1)
                back == SubSeq(s, k + 1, Len(s))
    <2>3. front \in Seq(Ssids) /\ Len(front) = k - 1
      BY <1>1, <2>2
    <2>4. back \in Seq(Ssids) /\ Len(back) = Len(s) - k
      BY <1>1, <2>2
    <2>5. RemoveFirst(s, e) = front \o back
      BY <1>2 DEF RemoveFirst, RemoveAt, k
    <2>. HIDE DEF front, back
    <2>6. RemoveFirst(s, e) \in Seq(Ssids) /\ Len(RemoveFirst(s, e)) = Len(s) - 1
      <3>1. front \o back \in Seq(Ssids) /\ Len(front \o back) = Len(front) + Len(back)
        BY <2>3, <2>4
      <3>. QED
        BY <2>2, <2>3, <2>4, <2>5, <3>1, <1>1
    <2>. QED
      BY <2>6, <1>1, ListsAreSeq, ScreensAssumption
  <1>3. CASE ~\E i \in 1..Len(s) : s[i] = e
    BY <1>3 DEF RemoveFirst
  <1>. QED
    BY <1>2, <1>3

(* What a step leaves: the values of the variables that an action changes, and the properties. *)
Kept ==
    /\ app' \in Apps /\ built' \in Builds /\ place' \in {"off", "booting", "in", "sub", "away"}
    /\ store' \in Lists /\ pin' \in BOOLEAN
    /\ ListIsWorkedOn' /\ DeletesTheShown' /\ HiddenStaysHidden'

(* A view that may be up. *)
Allowed(view, forced) ==
    /\ view \in NvsItems \cap hidden => view = "clearNvs" /\ forced
    /\ view \in {"ssids", "delete"} => "storedSsids" \notin hidden

LEMMA ScreenOf == ASSUME NEW a \in Apps PROVE Screen(a) \in Builds
  BY NoList, ScreensAssumption DEF Apps, Builds, Screen

LEMMA Refreshed ==
    ASSUME NEW a \in Apps, Refresh(a)
    PROVE  /\ app' \in Apps /\ built' \in Builds /\ ListIsWorkedOn'
           /\ app'.view = a.view /\ app'.forced = a.forced
  <1>1. app' \in Apps /\ app'.view = a.view /\ app'.forced = a.forced /\ built' = Screen(app')
    BY ActivePage DEF Refresh
  <1>2. app'.view \in {"ssids", "delete"} => built'.ssids = app'.list /\ built'.selected = app'.selected
    BY <1>1 DEF Screen
  <1>. QED
    BY <1>1, <1>2, ScreenOf DEF ListIsWorkedOn

LEMMA Quieted ==
    ASSUME ScreensInv, NEW a \in Apps, a.list = <<>> \/ a = app, Quiet(a)
    PROVE  app' = a /\ app' \in Apps /\ built' \in Builds /\ ListIsWorkedOn'
  BY DEF Quiet, ScreensInv, ListIsWorkedOn

LEMMA NotItems ==
    ASSUME ScreensInv
    PROVE  \A d \in {"none", "prefer", "delete", "restart", "pinOff"} : d \notin hidden
  BY ScreensAssumption DEF ScreensInv, Items, GeneralItems, NvsItems

(* The view stays allowed, and what was done concerns nothing that is hidden. *)
LEMMA StaysHidden ==
    ASSUME ScreensInv, hidden' = hidden,
           place' = "in" => Allowed(app'.view, app'.forced),
           done'.item \in hidden => done'.item = "clearNvs" /\ app'.forced
    PROVE  HiddenStaysHidden'
  BY DEF HiddenStaysHidden, Allowed

LEMMA NothingDeletes ==
    ASSUME ScreensInv, NothingDone PROVE DeletesTheShown' /\ done'.item \notin hidden
  BY NotItems DEF NothingDone, Nothing, DeletesTheShown

LEMMA NowAllowed == ASSUME ScreensInv, place = "in" PROVE Allowed(app.view, app.forced)
  BY DEF ScreensInv, HiddenStaysHidden, Allowed

LEMMA IgnoreKeeps == ASSUME ScreensInv, hidden' = hidden, Ignore PROVE Kept
  <1>1. Stay /\ Quiet(app) /\ NothingDone /\ app \in Apps
    BY DEF Ignore, ScreensInv
  <1>2. app' = app /\ app' \in Apps /\ built' \in Builds /\ ListIsWorkedOn'
    BY <1>1, Quieted
  <1>3. place' = "in" => Allowed(app'.view, app'.forced)
    BY <1>1, <1>2, NowAllowed DEF Stay
  <1>4. DeletesTheShown' /\ HiddenStaysHidden'
    BY <1>1, <1>3, NothingDeletes, StaysHidden
  <1>. QED
    BY <1>1, <1>2, <1>4 DEF Kept, Stay, ScreensInv

LEMMA GoKeeps ==
    ASSUME ScreensInv, hidden' = hidden, NEW where \in {"off", "sub", "away"}, GoTo(where),
           done'.item \in hidden => done'.item = "clearNvs" /\ app.forced, DeletesTheShown'
    PROVE  Kept
  <1>1. place' = where /\ Quiet(app) /\ UNCHANGED <<store, pin>> /\ app \in Apps
    BY DEF GoTo, ScreensInv
  <1>2. app' = app /\ app' \in Apps /\ built' \in Builds /\ ListIsWorkedOn'
    BY <1>1, Quieted
  <1>3. HiddenStaysHidden'
    BY <1>1, <1>2, StaysHidden
  <1>. QED
    BY <1>1, <1>2, <1>3 DEF Kept, ScreensInv

LEMMA LeaveKeeps ==
    ASSUME ScreensInv, hidden' = hidden, NEW where \in {"off", "sub", "away"}, GoTo(where), NothingDone
    PROVE  Kept
  BY GoKeeps, NothingDeletes

(* A screen that is built again, with a view that may be up. *)
LEMMA RefreshKeeps ==
    ASSUME ScreensInv, hidden' = hidden, NEW a \in Apps, Refresh(a), Stay, NothingDone,
           place = "in" => Allowed(a.view, a.forced)
    PROVE  Kept
  <1>1. /\ app' \in Apps /\ built' \in Builds /\ ListIsWorkedOn'
        /\ app'.view = a.view /\ app'.forced = a.forced
    BY Refreshed
  <1>2. DeletesTheShown' /\ HiddenStaysHidden'
    BY <1>1, NothingDeletes, StaysHidden DEF Stay
  <1>. QED
    BY <1>1, <1>2 DEF Kept, Stay, ScreensInv

LEMMA OpenKeeps ==
    ASSUME ScreensInv, hidden' = hidden, NEW view \in Views, Open(view),
           place = "in" => Allowed(view, app.forced)
    PROVE  Kept
  <1>. DEFINE a == [app EXCEPT !.view = view]
  <1>1. a \in Apps /\ a.view = view /\ a.forced = app.forced
    BY DEF ScreensInv, Apps
  <1>2. Refresh(a) /\ Stay /\ NothingDone
    BY DEF Open
  <1>. HIDE DEF a
  <1>. QED
    BY <1>1, <1>2, RefreshKeeps

LEMMA ToShown ==
    ASSUME ScreensInv, app.list # <<>>, app.view \in {"ssids", "delete"},
           NEW item \in {"prefer", "delete"}, DoesTo(item, app.list[app.selected])
    PROVE  DeletesTheShown' /\ done'.item \notin hidden
  <1>1. app.list = built.ssids /\ app.selected = built.selected
    BY DEF ScreensInv, ListIsWorkedOn
  <1>. QED
    BY <1>1, NotItems DEF DoesTo, DeletesTheShown

LEMMA Preferred ==
    ASSUME ScreensInv, NEW ssid, \E i \in DOMAIN store : store[i] = ssid
    PROVE  <<ssid>> \o OnlyOthers(ssid) \in Lists /\ OnlyOthers(ssid) \in Lists
  <1>1. store \in Seq(Ssids) /\ Len(store) <= MaxProfiles /\ store \in Lists
    BY ListsAreSeq DEF ScreensInv
  <1>. DEFINE others == OnlyOthers(ssid)
  <1>2. others \in Lists /\ Len(others) < Len(store)
    BY <1>1, FirstRemoved DEF OnlyOthers
  <1>3. others \in Seq(Ssids)
    BY <1>2, ListsAreSeq
  <1>4. <<ssid>> \in Seq(Ssids) /\ Len(<<ssid>>) = 1
    BY <1>1
  <1>. HIDE DEF others
  <1>. DEFINE one == <<ssid>>
  <1>5. one \in Seq(Ssids) /\ Len(one) = 1
    BY <1>4
  <1>. HIDE DEF one
  <1>6. one \o others \in Seq(Ssids) /\ Len(one \o others) = Len(one) + Len(others)
    BY <1>3, <1>5, ConcatProperties
  <1>7. one \o others \in Lists
    <2>1. 1 + Len(others) <= MaxProfiles
      BY <1>1, <1>2, <1>3, ScreensAssumption
    <2>. QED
      BY <2>1, <1>5, <1>6, ListsAreSeq
  <1>. QED
    BY <1>2, <1>7 DEF one, others

LEMMA SsidsActionKeeps ==
    ASSUME ScreensInv, hidden' = hidden, place = "in", app.view = "ssids", NEW b, StoredSsidsAction(b)
    PROVE  Kept
  <1>1. Allowed("ssids", app.forced) /\ Allowed("delete", app.forced) /\ Allowed("pages", app.forced)
    BY NowAllowed DEF Allowed, NvsItems
  <1>2. app \in Apps /\ app.list \in Seq(Ssids) /\ Len(app.list) <= MaxProfiles
    BY ListsAreSeq DEF ScreensInv, Apps
  <1>3. ASSUME Stay, NothingDone, NEW i \in DOMAIN Rows,
               IF i <= Len(app.list) THEN Refresh([app EXCEPT !.selected = i]) ELSE Quiet(app)
        PROVE  Kept
    <2>1. CASE i <= Len(app.list)
      <3>. DEFINE a == [app EXCEPT !.selected = i]
      <3>1. i \in 1..MaxProfiles
        BY <2>1, <1>2, ScreensAssumption DEF Rows
      <3>2. a \in Apps /\ a.view = app.view /\ a.forced = app.forced /\ Refresh(a)
        BY <3>1, <2>1, <1>2, <1>3 DEF Apps
      <3>. HIDE DEF a
      <3>. QED
        BY <3>2, <1>1, <1>3, RefreshKeeps
    <2>2. CASE ~(i <= Len(app.list))
      BY <2>2, <1>3, IgnoreKeeps DEF Ignore
    <2>. QED
      BY <2>1, <2>2
  <1>4. ASSUME NEW ssid, ssid = app.list[app.selected], app.list # <<>>,
               \E i \in DOMAIN store : store[i] = ssid,
               store' = <<ssid>> \o OnlyOthers(ssid),
               Refresh([app EXCEPT !.list = store']) \/ Quiet(LoadFailed(app)),
               DoesTo("prefer", ssid), UNCHANGED <<place, pin>>
        PROVE  Kept
    <2>1. store' \in Lists
      BY <1>4, Preferred
    <2>2. PICK list \in Lists : list = store'
      BY <2>1
    <2>. DEFINE a == [app EXCEPT !.list = list]
                l == LoadFailed(app)
    <2>3. a \in Apps /\ a.view = app.view /\ a.forced = app.forced
      BY <1>2 DEF Apps
    <2>4. l \in Apps /\ l.view = app.view /\ l.forced = app.forced /\ l.list = <<>>
      BY <1>2, NoList DEF Apps, LoadFailed
    <2>5. Refresh(a) \/ Quiet(l)
      BY <1>4, <2>2
    <2>. HIDE DEF a, l
    <2>6. /\ app' \in Apps /\ built' \in Builds /\ ListIsWorkedOn'
          /\ app'.view = app.view /\ app'.forced = app.forced
      BY <2>3, <2>4, <2>5, Refreshed, Quieted
    <2>7. DeletesTheShown' /\ done'.item \notin hidden
      BY <1>4, ToShown
    <2>8. HiddenStaysHidden'
      BY <1>1, <2>6, <2>7, StaysHidden
    <2>. QED
      BY <2>1, <2>6, <2>7, <2>8, <1>4 DEF Kept, ScreensInv
  <1>5. CASE b = "back"
    <2>1. CASE GoTo("away") /\ NothingDone
      BY <2>1, LeaveKeeps
    <2>2. CASE Open("pages")
      BY <2>2, <1>1, OpenKeeps DEF Views
    <2>3. CASE \E i \in DOMAIN Rows : b = Rows[i]
      BY <1>5, <2>3 DEF Rows
    <2>. QED
      BY <1>5, <2>1, <2>2, <2>3 DEF StoredSsidsAction
  <1>6. CASE Open("delete")
    BY <1>6, <1>1, OpenKeeps DEF Views
  <1>7. CASE Ignore
    BY <1>7, IgnoreKeeps
  <1>. QED
    BY <1>3, <1>4, <1>5, <1>6, <1>7 DEF StoredSsidsAction

LEMMA DeleteActionKeeps ==
    ASSUME ScreensInv, hidden' = hidden, place = "in", app.view = "delete", NEW b, DeleteConfirmAction(b)
    PROVE  Kept
  <1>1. Allowed("ssids", app.forced)
    BY NowAllowed DEF Allowed, NvsItems
  <1>2. app \in Apps
    BY DEF ScreensInv
  <1>3. CASE Open("ssids")
    BY <1>3, <1>1, OpenKeeps DEF Views
  <1>4. CASE Ignore
    BY <1>4, IgnoreKeeps
  <1>5. ASSUME app.list # <<>>,
               NEW ssid, ssid = app.list[app.selected],
               \E i \in DOMAIN store : store[i] = ssid,
               store' = OnlyOthers(ssid),
               LET a == [app EXCEPT !.view = "ssids", !.list = store',
                                    !.selected = IF store' = <<>> THEN 1
                                                 ELSE IF @ > Len(store') THEN Len(store') ELSE @]
               IN  Refresh(a) \/ Quiet(LoadFailed([app EXCEPT !.view = "ssids"])),
               DoesTo("delete", ssid), UNCHANGED <<place, pin>>
        PROVE  Kept
    <2>1. store' \in Lists
      BY <1>5, Preferred
    <2>2. PICK list \in Lists : list = store'
      BY <2>1
    <2>3. PICK n \in 1..MaxProfiles : n = IF list = <<>> THEN 1 ELSE IF app.selected > Len(list) THEN Len(list) ELSE app.selected
      <3>1. list \in Seq(Ssids) /\ Len(list) <= MaxProfiles /\ (list # <<>> => Len(list) >= 1)
        BY ListsAreSeq
      <3>. QED
        BY <3>1, <1>2, ScreensAssumption DEF Apps
    <2>. DEFINE a == [app EXCEPT !.view = "ssids", !.list = list, !.selected = n]
                l == LoadFailed([app EXCEPT !.view = "ssids"])
    <2>4. a \in Apps /\ a.view = "ssids" /\ a.forced = app.forced
      BY <1>2 DEF Apps, Views
    <2>5. l \in Apps /\ l.view = "ssids" /\ l.forced = app.forced /\ l.list = <<>>
      BY <1>2, NoList DEF Apps, LoadFailed, Views
    <2>6. Refresh(a) \/ Quiet(l)
      BY <1>5, <2>2, <2>3
    <2>. HIDE DEF a, l
    <2>7. /\ app' \in Apps /\ built' \in Builds /\ ListIsWorkedOn'
          /\ app'.view = "ssids" /\ app'.forced = app.forced
      BY <2>4, <2>5, <2>6, Refreshed, Quieted
    <2>8. DeletesTheShown' /\ done'.item \notin hidden
      BY <1>5, ToShown
    <2>9. HiddenStaysHidden'
      BY <1>1, <2>7, <2>8, StaysHidden
    <2>. QED
      BY <2>1, <2>7, <2>8, <2>9, <1>5 DEF Kept, ScreensInv
  <1>. QED
    BY <1>3, <1>4, <1>5 DEF DeleteConfirmAction

LEMMA ConfirmActionKeeps ==
    ASSUME ScreensInv, hidden' = hidden, place = "in", NEW b, ConfirmAction(b)
    PROVE  Kept
  <1>1. Allowed("pages", app.forced) /\ Allowed(app.view, app.forced)
    BY NowAllowed DEF Allowed, NvsItems
  <1>2. app \in Apps
    BY DEF ScreensInv
  <1>3. ASSUME Open("pages") PROVE Kept
    BY <1>1, <1>3, OpenKeeps DEF Views
  <1>4. ASSUME Ignore PROVE Kept
    BY <1>4, IgnoreKeeps
  <1>5. ASSUME GoTo("away"), NothingDone PROVE Kept
    BY <1>5, LeaveKeeps
  <1>6. ASSUME app.view \in NvsItems \cup {"restart"}, Restart(app.view) PROVE Kept
    <2>1. GoTo("off") /\ done'.item = app.view /\ done'.ssid = done'.named
      BY <1>6 DEF Restart, Does
    <2>2. done'.item \in hidden => done'.item = "clearNvs" /\ app.forced
      BY <2>1, <1>1, <1>6, NotItems DEF Allowed
    <2>3. DeletesTheShown'
      BY <2>1 DEF DeletesTheShown
    <2>. QED
      BY <2>1, <2>2, <2>3, GoKeeps
  <1>7. ASSUME pin' = FALSE, Refresh([app EXCEPT !.view = "pages"]), UNCHANGED <<place, store>>, Does("pinOff")
        PROVE  Kept
    <2>. DEFINE a == [app EXCEPT !.view = "pages"]
    <2>1. a \in Apps /\ a.view = "pages" /\ a.forced = app.forced /\ Refresh(a)
      BY <1>2, <1>7 DEF Apps, Views
    <2>. HIDE DEF a
    <2>2. /\ app' \in Apps /\ built' \in Builds /\ ListIsWorkedOn'
          /\ app'.view = "pages" /\ app'.forced = app.forced
      BY <2>1, Refreshed
    <2>3. done'.item = "pinOff" /\ DeletesTheShown' /\ done'.item \notin hidden
      BY <1>7, NotItems DEF Does, DeletesTheShown
    <2>4. HiddenStaysHidden'
      BY <2>2, <2>3, <1>1, StaysHidden
    <2>. QED
      BY <2>2, <2>3, <2>4, <1>7 DEF Kept, ScreensInv
  <1>8. CASE b = "cancel"
    BY <1>8, <1>3, <1>4, <1>5 DEF ConfirmAction
  <1>9. CASE b = "confirm"
    BY <1>9, <1>3, <1>4, <1>6, <1>7 DEF ConfirmAction, NvsItems
  <1>. QED
    BY <1>8, <1>9 DEF ConfirmAction

LEMMA DoesKeeps ==
    ASSUME NEW b, b \notin hidden, b \notin {"prefer", "delete"}, Does(b)
    PROVE  DeletesTheShown' /\ done'.item \notin hidden
  BY DEF Does, DeletesTheShown

LEMMA PageActionKeeps ==
    ASSUME ScreensInv, hidden' = hidden, place = "in", app.view = "pages", NEW b, b \notin hidden, PageAction(b)
    PROVE  Kept
  <1>1. /\ Allowed("pages", app.forced) /\ Allowed("pinOff", app.forced)
        /\ b \in NvsItems => Allowed(b, app.forced)
        /\ b = "storedSsids" => Allowed("ssids", app.forced)
    BY NowAllowed DEF Allowed, NvsItems
  <1>2. app \in Apps
    BY DEF ScreensInv
  <1>3. ASSUME Ignore PROVE Kept
    BY <1>3, IgnoreKeeps
  <1>4. ASSUME b \in Steppers \cup {"theme", "syncNow"}, Does(b), Refresh(app), Stay PROVE Kept
    <2>1. /\ app' \in Apps /\ built' \in Builds /\ ListIsWorkedOn'
          /\ app'.view = "pages" /\ app'.forced = app.forced
      BY <1>2, <1>4, Refreshed
    <2>2. DeletesTheShown' /\ done'.item \notin hidden
      BY <1>4, DoesKeeps DEF Steppers
    <2>3. HiddenStaysHidden'
      BY <2>1, <2>2, <1>1, StaysHidden
    <2>. QED
      BY <2>1, <2>2, <2>3, <1>4 DEF Kept, ScreensInv, Stay
  <1>5. ASSUME b \in {"touchCalibrate", "wifiSetup"}, GoTo("sub"), Does(b) PROVE Kept
    <2>1. DeletesTheShown' /\ done'.item \notin hidden
      BY <1>5, DoesKeeps
    <2>. QED
      BY <2>1, <1>5, GoKeeps
  <1>6. ASSUME GoTo("sub"), NothingDone PROVE Kept
    BY <1>6, LeaveKeeps
  <1>7. ASSUME b = "storedSsids", LoadAndRefresh([app EXCEPT !.view = "ssids"]), Does(b), Stay PROVE Kept
    <2>. DEFINE n == IF store = <<>> THEN 1 ELSE IF app.selected > Len(store) THEN Len(store) ELSE app.selected
                a == [app EXCEPT !.view = "ssids", !.list = store, !.selected = n]
                l == [app EXCEPT !.view = "ssids", !.list = <<>>]
    <2>1. n \in 1..MaxProfiles
      <3>1. store \in Seq(Ssids) /\ Len(store) <= MaxProfiles /\ (store # <<>> => Len(store) >= 1)
        BY ListsAreSeq DEF ScreensInv
      <3>. QED
        BY <3>1, <1>2, ScreensAssumption DEF Apps
    <2>2. Loaded([app EXCEPT !.view = "ssids"]) = a /\ LoadFailed([app EXCEPT !.view = "ssids"]) = l
      BY <1>2 DEF Loaded, LoadFailed, Apps
    <2>. HIDE DEF n
    <2>3. a \in Apps /\ a.view = "ssids" /\ a.forced = app.forced
      BY <1>2, <2>1 DEF Apps, Views, ScreensInv
    <2>4. l \in Apps /\ l.view = "ssids" /\ l.forced = app.forced /\ l.list = <<>>
      BY <1>2, NoList DEF Apps, Views
    <2>5. Refresh(a) \/ Quiet(l)
      BY <1>7, <2>2 DEF LoadAndRefresh
    <2>. HIDE DEF a, l
    <2>6. /\ app' \in Apps /\ built' \in Builds /\ ListIsWorkedOn'
          /\ app'.view = "ssids" /\ app'.forced = app.forced
      BY <2>3, <2>4, <2>5, Refreshed, Quieted
    <2>7. DeletesTheShown' /\ done'.item \notin hidden
      BY <1>7, DoesKeeps
    <2>8. HiddenStaysHidden'
      BY <2>6, <2>7, <1>1, <1>7, StaysHidden
    <2>. QED
      BY <2>6, <2>7, <2>8, <1>7 DEF Kept, ScreensInv, Stay
  <1>8. ASSUME NEW view \in NvsItems \cup {"pinOff"}, view \in NvsItems => view = b, Open(view) PROVE Kept
    <2>1. view \in Views /\ Allowed(view, app.forced)
      BY <1>8, <1>1 DEF Views, NvsItems
    <2>. QED
      BY <2>1, <1>8, OpenKeeps
  <1>9. CASE b \in NvsItems /\ Open(b)
    BY <1>9, <1>8
  <1>10. CASE Open("pinOff")
    BY <1>10, <1>8 DEF NvsItems
  <1>. QED
    BY <1>3, <1>4, <1>5, <1>6, <1>7, <1>9, <1>10 DEF PageAction

LEMMA BackKeeps ==
    ASSUME ScreensInv, hidden' = hidden, place = "in", Back PROVE Kept
  <1>1. Allowed("restart", app.forced) /\ "restart" \in Views
    BY DEF Allowed, NvsItems, Views
  <1>. QED
    BY <1>1, OpenKeeps, LeaveKeeps DEF Back

LEMMA NavKeeps ==
    ASSUME ScreensInv, hidden' = hidden, place = "in", NEW b, PageNav(b) PROVE Kept
  <1>1. ASSUME NEW i \in ActivePages, Turn(i) PROVE Kept
    <2>. DEFINE a == [app EXCEPT !.page = PageTable[i]]
    <2>1. PageTable[i] \in PageNames
      BY PagesOfTable DEF ActivePages
    <2>2. a \in Apps /\ a.view = app.view /\ a.forced = app.forced /\ Refresh(a) /\ Stay /\ NothingDone
      BY <1>1, <2>1 DEF ScreensInv, Apps, Turn
    <2>. HIDE DEF a
    <2>. QED
      BY <2>2, NowAllowed, RefreshKeeps
  <1>2. CASE b = "prev"
    BY <1>1, <1>2, IgnoreKeeps DEF PageNav
  <1>3. CASE b = "next"
    BY <1>1, <1>3, IgnoreKeeps DEF PageNav
  <1>. QED
    BY <1>2, <1>3 DEF PageNav

LEMMA ActKeeps ==
    ASSUME ScreensInv, hidden' = hidden, place = "in", NEW b, Act(b) PROVE Kept
  <1>1. CASE Ignore
    BY <1>1, IgnoreKeeps
  <1>2. CASE Back
    BY <1>2, BackKeeps
  <1>3. CASE PageNav(b)
    BY <1>3, NavKeeps
  <1>4. CASE app.view = "pages" /\ b \notin hidden /\ PageAction(b)
    BY <1>4, PageActionKeeps
  <1>5. CASE app.view = "ssids" /\ StoredSsidsAction(b)
    BY <1>5, SsidsActionKeeps
  <1>6. CASE app.view = "delete" /\ DeleteConfirmAction(b)
    BY <1>6, DeleteActionKeeps
  <1>7. CASE ConfirmAction(b)
    BY <1>7, ConfirmActionKeeps
  <1>. QED
    BY <1>1, <1>2, <1>3, <1>4, <1>5, <1>6, <1>7 DEF Act

LEMMA TouchShape ==
    /\ DOMAIN NoTouch = {"pending", "long"} /\ NoTouch.long \in BOOLEAN
    /\ \A b : DOMAIN [pending |-> b, long |-> FALSE] = {"pending", "long"} /\ [pending |-> b, long |-> FALSE].long = FALSE
  BY DEF NoTouch

LEMMA EntryKeeps ==
    ASSUME ScreensInv, NEW from \in {"app", "sub", "boot"}, Enter(from) PROVE ScreensInv'
  <1>1. /\ place' = "in" /\ armed' = "none" /\ done' = Nothing
        /\ UNCHANGED <<finger, store, hidden, invalid, pin>>
    BY DEF Enter
  <1>2. app \in Apps /\ armed \in DOMAIN DirectItem \cup {"none"} /\ invalid \in BOOLEAN
    BY DEF ScreensInv
  <1>. DEFINE e == Entered(from)
  <1>3. e \in Apps /\ Allowed(e.view, e.forced)
    <2>. DEFINE direct == IF Skipped(armed) THEN "none" ELSE armed
                begins == CASE direct = "ssids" -> "network1"
                          [] direct \in {"clearTouchCalib", "clearNvs"} -> "nvs"
                          [] OTHER -> IF from = "sub" THEN app.page ELSE "general"
                view == IF direct = "none" THEN "pages" ELSE direct
                fits == (invalid /\ view = "clearNvs") \/ PageEnabled(begins)
    <2>1. direct \in DOMAIN DirectItem \cup {"none"} /\ view \in Views /\ begins \in PageNames
      BY <1>2, DirectViews DEF Apps, PageNames, Views
    <2>2. direct \in DOMAIN DirectItem => DirectItem[direct] \notin hidden \/ (direct = "clearNvs" /\ invalid)
      BY <1>2, DirectViews DEF Skipped
    <2>3. Allowed(view, invalid)
      BY <2>1, <2>2, DirectViews DEF Allowed, NvsItems, DirectItem
    <2>4. Allowed("pages", invalid)
      BY DEF Allowed, NvsItems
    <2>5. e = [app EXCEPT !.forced = invalid, !.returnApp = IF from = "app" THEN "app" ELSE @,
                    !.direct = IF fits THEN direct ELSE "none", !.page = IF fits THEN begins ELSE "general",
                    !.view = IF fits THEN view ELSE "pages", !.selected = 1]
      BY DEF Entered
    <2>. HIDE DEF direct, begins, view, fits, e
    <2>6. 1 \in 1..MaxProfiles /\ "general" \in PageNames /\ "pages" \in Views
      BY ScreensAssumption DEF PageNames, Views
    <2>7. e \in Apps /\ e.forced = invalid /\ e.view = IF fits THEN view ELSE "pages"
      BY <2>1, <2>5, <2>6, <1>2 DEF Apps
    <2>. QED
      BY <2>3, <2>4, <2>7
  <1>. HIDE DEF e
  <1>. DEFINE o == OnActivePage(e)
              n == IF store = <<>> THEN 1 ELSE IF o.selected > Len(store) THEN Len(store) ELSE o.selected
              a == [o EXCEPT !.list = store, !.selected = n]
              l == [o EXCEPT !.list = <<>>]
  <1>4. o \in Apps /\ o.view = e.view /\ o.forced = e.forced
    BY <1>3, ActivePage
  <1>5. Loaded(o) = a /\ LoadFailed(o) = l
    BY <1>4 DEF Loaded, LoadFailed, Apps
  <1>. HIDE DEF o
  <1>6. n \in 1..MaxProfiles
    <2>1. store \in Seq(Ssids) /\ Len(store) <= MaxProfiles /\ (store # <<>> => Len(store) >= 1)
      BY ListsAreSeq DEF ScreensInv
    <2>. QED
      BY <2>1, <1>4, ScreensAssumption DEF Apps
  <1>. HIDE DEF n
  <1>7. a \in Apps /\ a.view = e.view /\ a.forced = e.forced
    BY <1>4, <1>6 DEF Apps, ScreensInv
  <1>8. l \in Apps /\ l.view = e.view /\ l.forced = e.forced /\ l.list = <<>>
    BY <1>4, NoList DEF Apps
  <1>9. (Refresh(a) /\ tracker' = NoTouch) \/ (Quiet(l) /\ UNCHANGED tracker)
    BY <1>5 DEF Enter, o, e
  <1>. HIDE DEF a, l
  <1>10. /\ app' \in Apps /\ built' \in Builds /\ ListIsWorkedOn'
         /\ app'.view = e.view /\ app'.forced = e.forced
    BY <1>7, <1>8, <1>9, Refreshed, Quieted
  <1>11. DeletesTheShown' /\ done'.item \notin hidden
    BY <1>1, NothingDeletes DEF NothingDone
  <1>12. HiddenStaysHidden'
    BY <1>1, <1>3, <1>10, <1>11, StaysHidden
  <1>13. DOMAIN tracker' = {"pending", "long"} /\ tracker'.long \in BOOLEAN
    BY <1>9, TouchShape DEF ScreensInv
  <1>. QED
    BY <1>1, <1>10, <1>11, <1>12, <1>13 DEF ScreensInv

LEMMA RestartKeeps == ASSUME ScreensInv, Boot PROVE ScreensInv'
  <1>1. Off \in Apps /\ Off.list = <<>> /\ Off.view = "pages"
    BY NoList, ScreensAssumption DEF Off, Apps, Views, PageNames
  <1>2. app' = Off /\ built' = Screen(Off) /\ NothingDone /\ hidden' = hidden /\ finger' = FALSE /\ tracker' = NoTouch
    BY DEF Boot
  <1>3. built' \in Builds
    BY <1>1, <1>2, ScreenOf
  <1>4. store' \in Lists /\ invalid' \in BOOLEAN /\ pin' \in BOOLEAN
    BY NoList DEF Boot, ScreensInv
  <1>5. armed' \in DOMAIN DirectItem \cup {"none"} /\ place' \in {"off", "booting", "in", "sub", "away"}
    BY <1>4, DirectViews DEF Boot
  <1>6. DeletesTheShown' /\ HiddenStaysHidden'
    BY <1>1, <1>2, NothingDeletes, StaysHidden DEF Allowed, NvsItems
  <1>. QED
    BY <1>1, <1>2, <1>3, <1>4, <1>5, <1>6 DEF ScreensInv, ListIsWorkedOn, NoTouch

LEMMA TouchKeeps ==
    ASSUME ScreensInv, NEW b, Press(b) \/ Hold(b) \/ Release(b) PROVE ScreensInv'
  <1>1. UNCHANGED <<armed, hidden, invalid>> /\ place = "in"
    BY DEF Press, Hold, Release, Frame
  <1>2. Act(b) \/ Ignore
    BY DEF Press, Hold, Release
  <1>3. Kept
    BY <1>1, <1>2, ActKeeps, IgnoreKeeps
  <1>4. finger' \in BOOLEAN
    BY DEF Press, Hold, Release, ScreensInv
  <1>5. DOMAIN tracker' = {"pending", "long"} /\ tracker'.long \in BOOLEAN
    <2>1. tracker' \in {tracker, NoTouch, [pending |-> b, long |-> FALSE],
                        [tracker EXCEPT !.long = @ \/ tracker.pending # "none"]}
      BY DEF Press, Hold, Release
    <2>2. ASSUME tracker' = [tracker EXCEPT !.long = @ \/ tracker.pending # "none"]
          PROVE  DOMAIN tracker' = {"pending", "long"} /\ tracker'.long \in BOOLEAN
      BY <2>2 DEF ScreensInv
    <2>3. tracker \in {tracker'} => DOMAIN tracker' = {"pending", "long"} /\ tracker'.long \in BOOLEAN
      BY DEF ScreensInv
    <2>. QED
      BY <2>1, <2>2, <2>3, TouchShape
  <1>. QED
    BY <1>1, <1>3, <1>4, <1>5 DEF Kept, ScreensInv

LEMMA OthersKeep ==
    ASSUME ScreensInv, SubScreenSetsPin \/ Thrown \/ Poll
                         \/ (\E view \in DOMAIN DirectItem : Arm(view)) \/ (\E ssid \in Ssids : StoreProfile(ssid))
    PROVE  ScreensInv'
  <1>1. NothingDone /\ UNCHANGED <<hidden, invalid>>
    BY DEF SubScreenSetsPin, Thrown, Poll, Arm, StoreProfile
  <1>2. DeletesTheShown' /\ done'.item \notin hidden
    BY <1>1, NothingDeletes
  <1>3. app \in Apps
    BY DEF ScreensInv
  <1>4. CASE Poll
    <2>1. Refresh(app) /\ place = "in" /\ UNCHANGED <<place, armed, tracker, finger, store, hidden, invalid, pin>>
      BY <1>4 DEF Poll
    <2>2. /\ app' \in Apps /\ built' \in Builds /\ ListIsWorkedOn'
          /\ app'.view = app.view /\ app'.forced = app.forced
      BY <2>1, <1>3, Refreshed
    <2>3. HiddenStaysHidden'
      BY <2>1, <2>2, <1>2, NowAllowed, StaysHidden
    <2>. QED
      BY <2>1, <2>2, <2>3, <1>2 DEF ScreensInv
  <1>5. ASSUME NEW view \in DOMAIN DirectItem, Arm(view) PROVE ScreensInv'
    BY <1>5, <1>2 DEF Arm, ScreensInv, ListIsWorkedOn, HiddenStaysHidden
  <1>6. CASE SubScreenSetsPin
    BY <1>6, <1>2 DEF SubScreenSetsPin, ScreensInv, ListIsWorkedOn, HiddenStaysHidden
  <1>7. CASE Thrown
    BY <1>7, <1>2 DEF Thrown, ScreensInv, ListIsWorkedOn, HiddenStaysHidden
  <1>8. ASSUME NEW ssid \in Ssids, StoreProfile(ssid) PROVE ScreensInv'
    <2>1. OnlyOthers(ssid) \in Seq(Ssids)
      BY FirstRemoved, ListsAreSeq DEF ScreensInv, OnlyOthers
    <2>. DEFINE s == <<ssid>> \o OnlyOthers(ssid)
                n == IF Len(s) > MaxProfiles THEN MaxProfiles ELSE Len(s)
    <2>2. <<ssid>> \in Seq(Ssids)
      OBVIOUS
    <2>3. s \in Seq(Ssids)
      BY <2>1, <2>2, ConcatProperties
    <2>4. store' = SubSeq(s, 1, n)
      BY <1>8 DEF StoreProfile
    <2>. HIDE DEF s
    <2>5. n \in 0..MaxProfiles /\ n <= Len(s)
      BY <2>3, ScreensAssumption
    <2>6. store' \in Seq(Ssids) /\ Len(store') = n
      BY <2>3, <2>4, <2>5
    <2>7. store' \in Lists
      BY <2>5, <2>6, ListsAreSeq
    <2>. QED
      BY <1>8, <1>2, <2>7 DEF StoreProfile, ScreensInv, ListIsWorkedOn, HiddenStaysHidden
  <1>. QED
    BY <1>4, <1>5, <1>6, <1>7, <1>8

LEMMA ScreensStart == ScreensInit => ScreensInv
  <1>. SUFFICES ASSUME ScreensInit PROVE ScreensInv
    OBVIOUS
  <1>1. Off \in Apps /\ Off.list = <<>> /\ Off.view = "pages"
    BY NoList, ScreensAssumption DEF Off, Apps, Views, PageNames
  <1>2. built \in Builds /\ app = Off
    BY <1>1, ScreenOf DEF ScreensInit
  <1>3. store \in Lists
    BY ScreensAssumption DEF ScreensInit, Lists
  <1>4. done.item = "none" /\ hidden \in Fixes
    BY DEF ScreensInit, Nothing
  <1>5. "none" \notin hidden
    BY <1>4, ScreensAssumption DEF Items, GeneralItems, NvsItems
  <1>6. HiddenStaysHidden
    BY <1>4, <1>5 DEF ScreensInit, HiddenStaysHidden
  <1>. QED
    BY <1>1, <1>2, <1>3, <1>4, <1>6, DirectViews
       DEF ScreensInit, ScreensInv, ListIsWorkedOn, DeletesTheShown, NoTouch

LEMMA ScreensKeep == ScreensInv /\ [ScreensNext]_screenVars => ScreensInv'
  <1>. SUFFICES ASSUME ScreensInv, [ScreensNext]_screenVars PROVE ScreensInv'
    OBVIOUS
  <1>1. CASE UNCHANGED screenVars
    BY <1>1 DEF screenVars, ScreensInv, ListIsWorkedOn, DeletesTheShown, HiddenStaysHidden
  <1>2. CASE Boot
    BY <1>2, RestartKeeps
  <1>3. CASE EnterAtBoot \/ EnterFromApp \/ ComeBack
    BY <1>3, EntryKeeps DEF EnterAtBoot, EnterFromApp, ComeBack
  <1>4. CASE \E b \in Buttons \cup {"none"} : Press(b) \/ Hold(b) \/ Release(b)
    BY <1>4, TouchKeeps
  <1>5. CASE SubScreenSetsPin \/ Thrown \/ Poll
               \/ (\E view \in DOMAIN DirectItem \ {"clearNvs"} : Arm(view)) \/ (\E ssid \in Ssids : StoreProfile(ssid))
    BY <1>5, OthersKeep
  <1>. QED
    BY <1>1, <1>2, <1>3, <1>4, <1>5 DEF ScreensNext

LEMMA ScreensKeepTheirWord == ScreensInv => ScreensTypeOK /\ DeletesTheShown /\ HiddenStaysHidden
  BY PagesOfTable, ScreensAssumption DEF ScreensInv, ScreensTypeOK, Apps, Builds

-----------------------------------------------------------------------------
(* What is said of the panel: it shows a screen, outside some strips. *)
Shows(screen, besides) == \A s \in (1..Strips) \ besides : panel[s] = Picture(screen, s)

(* Between two screens, only the dirty strips differ. *)
LEMMA DirtyIsEnough ==
    ASSUME NEW before, NEW now, hasPrevious, NEW s \in 1..Strips, s \notin DirtyStrips(before, now)
    PROVE  Picture(before, s) = Picture(now, s)
  <1>1. \A w \in PlacesLeft(before, now) \cup PlacesTaken(before, now) : ~Covers(w, s)
    BY DEF DirtyStrips
  <1>2. ASSUME NEW i \in DOMAIN before, Covers(before[i], s)
        PROVE  i \in DOMAIN now /\ now[i] = before[i]
    BY <1>1, <1>2 DEF PlacesLeft, Changed
  <1>3. ASSUME NEW i \in DOMAIN now, Covers(now[i], s)
        PROVE  i \in DOMAIN before /\ now[i] = before[i]
    BY <1>1, <1>3 DEF PlacesTaken, Changed
  <1>. DEFINE B == {i \in DOMAIN before : Covers(before[i], s)}
              N == {i \in DOMAIN now : Covers(now[i], s)}
  <1>4. B = N
    BY <1>2, <1>3
  <1>5. [i \in B |-> before[i]] = [i \in N |-> now[i]]
    BY <1>2, <1>4
  <1>6. Picture(before, s) = [i \in B |-> before[i]] /\ Picture(now, s) = [i \in N |-> now[i]]
    BY DEF Picture, RestrictValues, Restrict
  <1>. QED
    BY <1>5, <1>6

LEMMA DirtyAll == ASSUME ~hasPrevious, NEW before, NEW now PROVE DirtyStrips(before, now) = 1..Strips
  BY DEF DirtyStrips

LEMMA DirtyWithin == ASSUME NEW before, NEW now PROVE DirtyStrips(before, now) \subseteq 1..Strips
  BY DEF DirtyStrips

LEMMA FirstIsDirty ==
    ASSUME NEW S \in SUBSET (1..Strips), S # {} PROVE FirstOf(S) \in S
  <1>1. S \subseteq Nat
    BY DisplayAssumption
  <1>2. \E i \in S : \A j \in S : i <= j
    BY <1>1, Smallest
  <1>. QED
    BY <1>2 DEF FirstOf

-----------------------------------------------------------------------------
Kinds == {"screens", "log"}

(* How many entries of a queue are announced: by handles, or to the task that is about to receive one. *)
Signalled(s, which) == {i \in DOMAIN s : s[i] = which}
One(which, at) == IF at = which THEN 1 ELSE 0
Announced(which) == Cardinality(Signalled(handles, which)) + One(which, task.at)

QueuesType ==
    /\ queued = [screens |-> queued.screens, log |-> queued.log]
    /\ queued.screens \in Seq(Screens) /\ Len(queued.screens) <= ScreenQueue
    /\ queued.log \in Seq(LogCommands) /\ Len(queued.log) <= LogQueue
    /\ handles \in Seq(Kinds) /\ Len(handles) <= ScreenQueue + LogQueue

LogShape(l) ==
    /\ l \in [visible : BOOLEAN, lines : Seq(LogTexts), scroll : Nat]
    /\ Len(l.lines) <= LogLines /\ l.scroll <= MaxScroll(l.lines)
LogType == LogShape(log)

TaskType ==
    /\ task \in [at : {"select", "screens", "log", "draw"}, dirty : SUBSET (1..Strips)]
    /\ hasPrevious \in BOOLEAN /\ calibrating \in BOOLEAN /\ beside \in BOOLEAN /\ drawn \in BOOLEAN
    /\ DOMAIN panel = 1..Strips

NothingUnannounced == \A which \in Kinds : Len(queued[which]) <= Announced(which)

NewestIsDrawn == queued.screens = <<>> => drawn

PanelIsTrue ==
    /\ task.at = "draw" /\ ~beside => Shows(current, task.dirty)
    /\ task.at # "draw" /\ hasPrevious /\ ~beside /\ ~calibrating => Shows(previous, {})

DisplayInv ==
    QueuesType /\ LogType /\ TaskType /\ NothingUnannounced /\ NewestIsDrawn /\ PanelIsTrue

LEMMA WaitingIsFinite ==
    ASSUME NEW s \in Seq(Kinds), NEW which
    PROVE  IsFiniteSet(Signalled(s, which)) /\ Cardinality(Signalled(s, which)) \in Nat
  <1>1. Signalled(s, which) \subseteq 1..Len(s) /\ IsFiniteSet(1..Len(s))
    BY FS_Interval DEF Signalled
  <1>. QED
    BY <1>1, FS_Subset, FS_CardinalityType

LEMMA WaitingMore ==
    ASSUME NEW s \in Seq(Kinds), NEW k \in Kinds, NEW which
    PROVE  Cardinality(Signalled(Append(s, k), which)) = Cardinality(Signalled(s, which)) + One(which, k)
  <1>1. /\ Len(s) \in Nat /\ DOMAIN s = 1..Len(s) /\ DOMAIN Append(s, k) = 1..Len(s) + 1
        /\ \A i \in 1..Len(s) : Append(s, k)[i] = s[i]
        /\ Append(s, k)[Len(s) + 1] = k
    BY AppendProperties, LenProperties
  <1>2. Signalled(Append(s, k), which) = IF k = which THEN Signalled(s, which) \cup {Len(s) + 1} ELSE Signalled(s, which)
    BY <1>1 DEF Signalled
  <1>3. Len(s) + 1 \notin Signalled(s, which)
    BY <1>1 DEF Signalled
  <1>4. IsFiniteSet(Signalled(s, which)) /\ Cardinality(Signalled(s, which)) \in Nat
    BY WaitingIsFinite
  <1>5. Cardinality(Signalled(s, which) \cup {Len(s) + 1}) = Cardinality(Signalled(s, which)) + 1
    BY <1>3, <1>4, FS_AddElement
  <1>. QED
    BY <1>2, <1>4, <1>5 DEF One

LEMMA WaitingLess ==
    ASSUME NEW s \in Seq(Kinds), s # <<>>, NEW which
    PROVE  /\ Cardinality(Signalled(s, which)) = Cardinality(Signalled(Tail(s), which)) + One(which, Head(s))
           /\ Cardinality(Signalled(Tail(s), which)) \in Nat
  <1>. DEFINE rest == Signalled(s, which) \ {1}
              move == [i \in Signalled(Tail(s), which) |-> i + 1]
  <1>1. Len(s) \in Nat \ {0} /\ DOMAIN s = 1..Len(s)
    BY LenProperties, EmptySeq
  <1>2. /\ Tail(s) \in Seq(Kinds) /\ DOMAIN Tail(s) = 1..Len(s) - 1
        /\ \A i \in 1..Len(s) - 1 : Tail(s)[i] = s[i + 1]
    BY <1>1, HeadTailProperties, LenProperties
  <1>3. Head(s) = s[1] /\ 1 \in DOMAIN s
    BY <1>1
  <1>4. move \in Bijection(Signalled(Tail(s), which), rest)
    <2>1. move \in [Signalled(Tail(s), which) -> rest]
      BY <1>1, <1>2 DEF Signalled
    <2>2. \A i, j \in Signalled(Tail(s), which) : move[i] = move[j] => i = j
      BY <1>1, <1>2 DEF Signalled
    <2>3. ASSUME NEW k \in rest PROVE \E i \in Signalled(Tail(s), which) : move[i] = k
      <3>1. k \in 2..Len(s) /\ s[k] = which
        BY <1>1 DEF Signalled
      <3>2. k - 1 \in 1..Len(s) - 1 /\ (k - 1) + 1 = k
        BY <1>1, <3>1
      <3>3. k - 1 \in Signalled(Tail(s), which)
        BY <1>2, <3>1, <3>2 DEF Signalled
      <3>. QED
        BY <3>2, <3>3
    <2>. QED
      BY <2>1, <2>2, <2>3 DEF Bijection, Injection, Surjection, IsInjective
  <1>5. /\ IsFiniteSet(Signalled(Tail(s), which)) /\ IsFiniteSet(Signalled(s, which))
        /\ Cardinality(Signalled(Tail(s), which)) \in Nat /\ Cardinality(Signalled(s, which)) \in Nat
    BY <1>2, WaitingIsFinite
  <1>. HIDE DEF move
  <1>6. Cardinality(rest) = Cardinality(Signalled(Tail(s), which))
    BY <1>4, <1>5, FS_Bijection DEF ExistsBijection
  <1>7. Cardinality(rest) = IF 1 \in Signalled(s, which) THEN Cardinality(Signalled(s, which)) - 1
                                                       ELSE Cardinality(Signalled(s, which))
    BY <1>5, FS_RemoveElement
  <1>8. 1 \in Signalled(s, which) <=> One(which, Head(s)) = 1
    BY <1>3 DEF Signalled, One
  <1>. QED
    BY <1>5, <1>6, <1>7, <1>8 DEF One

LEMMA DisplayStarts == DisplayInit => DisplayInv
  <1>. SUFFICES ASSUME DisplayInit PROVE DisplayInv
    OBVIOUS
  <1>1. <<>> \in Seq(Screens) /\ <<>> \in Seq(LogCommands) /\ <<>> \in Seq(Kinds) /\ <<>> \in Seq(LogTexts) /\ Len(<<>>) = 0
    OBVIOUS
  <1>2. QueuesType
    BY <1>1, DisplayAssumption DEF DisplayInit, QueuesType
  <1>3. LogType
    <2>1. MaxScroll(<<>>) = 0
      BY <1>1, DisplayAssumption DEF MaxScroll, VisibleRows, LogRows
    <2>. QED
      BY <1>1, <2>1, DisplayAssumption DEF DisplayInit, LogType, LogShape
  <1>4. TaskType
    BY DEF DisplayInit, TaskType
  <1>5. NothingUnannounced
    <2>1. \A which \in Kinds : Len(queued[which]) = 0
      BY <1>1 DEF DisplayInit, Kinds
    <2>2. \A which \in Kinds : Cardinality(Signalled(handles, which)) \in Nat
      BY <1>2, WaitingIsFinite DEF QueuesType
    <2>. QED
      BY <2>1, <2>2 DEF NothingUnannounced, Announced, One
  <1>. QED
    BY <1>2, <1>3, <1>4, <1>5 DEF DisplayInit, DisplayInv, NewestIsDrawn, PanelIsTrue

-----------------------------------------------------------------------------
(* The app's task. *)
LEMMA QueueAfter ==
    ASSUME NEW S, NEW q \in Seq(S), NEW length \in Nat \ {0}, Len(q) <= length, NEW item \in S
    PROVE  LET new == Append(IF Len(q) < length THEN q ELSE MakeRoom(q), item)
           IN  new \in Seq(S) /\ Len(new) <= length /\ Len(new) <= Len(q) + 1 /\ new # <<>>
  <1>1. CASE Len(q) < length
    BY <1>1 DEF MakeRoom
  <1>2. CASE ~(Len(q) < length)
    <2>1. q # <<>> /\ Len(q) = length
      BY <1>2
    <2>2. Tail(q) \in Seq(S) /\ Len(Tail(q)) = Len(q) - 1
      BY <2>1
    <2>. DEFINE t == Tail(q)
    <2>. HIDE DEF t
    <2>3. t \in Seq(S) /\ Len(t) = Len(q) - 1
      BY <2>2 DEF t
    <2>4. Append(t, item) \in Seq(S) /\ Len(Append(t, item)) = Len(t) + 1 /\ Append(t, item) # <<>>
      BY <2>3
    <2>. QED
      BY <1>2, <2>1, <2>3, <2>4 DEF MakeRoom, t
  <1>. QED
    BY <1>1, <1>2

LEMMA SubmitKeeps ==
    ASSUME QueuesType, LogType, TaskType, NothingUnannounced, PanelIsTrue,
           NEW which \in Kinds, NEW length \in Nat \ {0}, NEW S, NEW item \in S,
           which = "screens" => S = Screens /\ length = ScreenQueue,
           which = "log" => S = LogCommands /\ length = LogQueue,
           Submit(which, length, item), drawn' \in BOOLEAN
    PROVE  /\ QueuesType' /\ LogType' /\ TaskType' /\ NothingUnannounced' /\ PanelIsTrue'
           /\ queued'[which] # <<>>
           /\ \A other \in Kinds : other # which => queued'[other] = queued[other]
  <1>. DEFINE q == queued[which]
              new == Append(IF Len(q) < length THEN q ELSE MakeRoom(q), item)
  <1>1. /\ Len(handles) < ScreenQueue + LogQueue
        /\ queued' = [queued EXCEPT ![which] = new]
        /\ handles' = Append(handles, which)
        /\ UNCHANGED <<task, current, previous, hasPrevious, log, panel, calibrating, beside>>
    BY DEF Submit
  <1>2. q \in Seq(S) /\ Len(q) <= length
    BY DEF QueuesType, Kinds
  <1>. HIDE DEF q
  <1>3. new \in Seq(S) /\ Len(new) <= length /\ Len(new) <= Len(q) + 1 /\ new # <<>>
    BY <1>2, QueueAfter
  <1>. HIDE DEF new
  <1>4. /\ queued'[which] = new /\ \A other \in Kinds : other # which => queued'[other] = queued[other]
        /\ queued' = [screens |-> queued'.screens, log |-> queued'.log]
    BY <1>1 DEF QueuesType, Kinds
  <1>5. handles \in Seq(Kinds) /\ Len(handles) \in Nat
    BY DEF QueuesType
  <1>6. handles' \in Seq(Kinds) /\ Len(handles') = Len(handles) + 1
    BY <1>1, <1>5
  <1>7. QueuesType'
    <2>1. Len(handles') <= ScreenQueue + LogQueue
      BY <1>1, <1>5, <1>6, DisplayAssumption
    <2>2. queued'.screens \in Seq(Screens) /\ Len(queued'.screens) <= ScreenQueue
      BY <1>3, <1>4 DEF QueuesType, Kinds
    <2>3. queued'.log \in Seq(LogCommands) /\ Len(queued'.log) <= LogQueue
      BY <1>3, <1>4 DEF QueuesType, Kinds
    <2>. QED
      BY <1>4, <1>6, <2>1, <2>2, <2>3 DEF QueuesType
  <1>8. NothingUnannounced'
    <2>. SUFFICES ASSUME NEW k \in Kinds PROVE Len(queued'[k]) <= Announced(k)'
      BY DEF NothingUnannounced
    <2>1. Cardinality(Signalled(handles', k)) = Cardinality(Signalled(handles, k)) + One(k, which)
      BY <1>1, <1>5, WaitingMore
    <2>2. Cardinality(Signalled(handles, k)) \in Nat
      BY <1>5, WaitingIsFinite
    <2>3. Announced(k)' = Announced(k) + One(k, which) /\ Announced(k) \in Nat
      BY <1>1, <2>1, <2>2 DEF Announced, One
    <2>4. Len(queued[k]) <= Announced(k) /\ Len(queued[k]) \in Nat
      BY DEF NothingUnannounced, QueuesType, Kinds
    <2>5. CASE k = which
      <3>1. Len(queued'[k]) <= Len(queued[k]) + 1 /\ Len(queued'[k]) \in Nat
        BY <1>3, <1>4, <2>5 DEF q
      <3>. QED
        BY <2>3, <2>4, <2>5, <3>1 DEF One
    <2>6. CASE k # which
      <3>1. queued'[k] = queued[k]
        BY <2>6, <1>4
      <3>. QED
        BY <2>3, <2>4, <2>6, <3>1 DEF One
    <2>. QED
      BY <2>5, <2>6
  <1>9. LogType' /\ TaskType' /\ PanelIsTrue'
    BY <1>1 DEF LogType, LogShape, TaskType, PanelIsTrue, Shows
  <1>. QED
    BY <1>3, <1>4, <1>7, <1>8, <1>9

LEMMA CalibrationKeeps ==
    ASSUME DisplayInv, DrawCalibration \/ Invalidate PROVE DisplayInv'
  <1>1. UNCHANGED <<queued, handles, task, current, previous, log, drawn>>
    BY DEF DrawCalibration, Invalidate
  <1>2. QueuesType' /\ LogType' /\ NothingUnannounced' /\ NewestIsDrawn'
    BY <1>1 DEF DisplayInv, QueuesType, LogType, LogShape, NothingUnannounced, Announced, NewestIsDrawn
  <1>3. TaskType'
    BY <1>1 DEF DisplayInv, TaskType, DrawCalibration, Invalidate, Busy
  <1>4. PanelIsTrue'
    BY <1>1 DEF DisplayInv, PanelIsTrue, TaskType, DrawCalibration, Invalidate, Busy, Shows
  <1>. QED
    BY <1>2, <1>3, <1>4 DEF DisplayInv

-----------------------------------------------------------------------------
(* The display task. *)
LEMMA SelectKeeps ==
    ASSUME DisplayInv, Select PROVE DisplayInv'
  <1>1. /\ task.at = "select" /\ handles # <<>>
        /\ task' = [task EXCEPT !.at = Head(handles)] /\ handles' = Tail(handles)
        /\ UNCHANGED <<queued, current, previous, hasPrevious, log, panel, calibrating, drawn, beside>>
    BY DEF Select
  <1>2. handles \in Seq(Kinds) /\ Len(handles) <= ScreenQueue + LogQueue
    BY DEF DisplayInv, QueuesType
  <1>3. Head(handles) \in Kinds /\ handles' \in Seq(Kinds) /\ Len(handles') = Len(handles) - 1
    BY <1>1, <1>2
  <1>4. task'.at = Head(handles) /\ task'.dirty = task.dirty
    BY <1>1 DEF DisplayInv, TaskType
  <1>5. QueuesType'
    <2>1. Len(handles') <= ScreenQueue + LogQueue
      BY <1>2, <1>3, DisplayAssumption
    <2>. QED
      BY <1>1, <1>3, <2>1 DEF DisplayInv, QueuesType
  <1>6. NothingUnannounced'
    <2>. SUFFICES ASSUME NEW k \in Kinds PROVE Len(queued'[k]) <= Announced(k)'
      BY DEF NothingUnannounced
    <2>1. /\ Cardinality(Signalled(handles, k)) = Cardinality(Signalled(handles', k)) + One(k, Head(handles))
          /\ Cardinality(Signalled(handles', k)) \in Nat
      BY <1>1, <1>2, WaitingLess
    <2>2. One(k, task.at) = 0
      BY <1>1 DEF One, Kinds
    <2>3. Announced(k)' = Announced(k)
      BY <1>4, <2>1, <2>2 DEF Announced, One
    <2>. QED
      BY <1>1, <2>3 DEF DisplayInv, NothingUnannounced
  <1>7. TaskType'
    BY <1>1, <1>3, <1>4 DEF DisplayInv, TaskType, Kinds
  <1>8. LogType' /\ NewestIsDrawn'
    BY <1>1 DEF DisplayInv, LogType, LogShape, NewestIsDrawn
  <1>9. PanelIsTrue'
    BY <1>1, <1>3, <1>4 DEF DisplayInv, PanelIsTrue, Shows, Kinds
  <1>. QED
    BY <1>5, <1>6, <1>7, <1>8, <1>9 DEF DisplayInv

(* Leaving the receipt of a queue's entry behind: that queue has an entry less, or had none. *)
LEMMA ReceivedKeeps ==
    ASSUME DisplayInv, NEW which \in Kinds, task.at = which, task'.at \notin Kinds, handles' = handles,
           \A k \in Kinds : k # which => queued'[k] = queued[k],
           Len(queued'[which]) = 0 \/ Len(queued'[which]) = Len(queued[which]) - 1
    PROVE  NothingUnannounced'
  <1>. SUFFICES ASSUME NEW k \in Kinds PROVE Len(queued'[k]) <= Announced(k)'
    BY DEF NothingUnannounced
  <1>1. Cardinality(Signalled(handles, k)) \in Nat
    BY WaitingIsFinite DEF DisplayInv, QueuesType
  <1>2. One(k, task'.at) = 0 /\ One(k, task.at) = IF k = which THEN 1 ELSE 0
    BY DEF One
  <1>3. Len(queued[k]) <= Announced(k) /\ Len(queued[k]) \in Nat
    BY DEF DisplayInv, NothingUnannounced, QueuesType, Kinds
  <1>4. Announced(k)' = Cardinality(Signalled(handles, k)) /\ Announced(k) = Cardinality(Signalled(handles, k)) + One(k, task.at)
    BY <1>1, <1>2 DEF Announced
  <1>5. CASE k = which
    BY <1>1, <1>2, <1>3, <1>4, <1>5
  <1>6. CASE k # which
    BY <1>1, <1>2, <1>3, <1>4, <1>6
  <1>. QED
    BY <1>5, <1>6

LEMMA NothingKeeps ==
    ASSUME DisplayInv, ReceiveNothing PROVE DisplayInv'
  <1>1. /\ task.at \in Kinds /\ queued[task.at] = <<>> /\ task' = [task EXCEPT !.at = "select"]
        /\ UNCHANGED <<queued, handles, current, previous, hasPrevious, log, panel, calibrating, drawn, beside>>
    BY DEF ReceiveNothing, Kinds
  <1>2. task'.at = "select" /\ task'.dirty = task.dirty
    BY <1>1 DEF DisplayInv, TaskType
  <1>3. NothingUnannounced'
    <2>1. Len(queued'[task.at]) = 0
      BY <1>1
    <2>2. task'.at \notin Kinds
      BY <1>2 DEF Kinds
    <2>. QED
      BY <1>1, <2>1, <2>2, ReceivedKeeps
  <1>4. TaskType'
    BY <1>1, <1>2 DEF DisplayInv, TaskType
  <1>. QED
    BY <1>1, <1>2, <1>3, <1>4
       DEF DisplayInv, QueuesType, LogType, LogShape, NewestIsDrawn, PanelIsTrue, Shows, Kinds

(* A screen that is applied: outside the dirty strips the panel shows it already. *)
LEMMA ApplyShows ==
    ASSUME DisplayInv, NEW screen, task.at # "draw", Apply(screen),
           UNCHANGED <<previous, hasPrevious, panel, calibrating, handles>>
    PROVE  /\ PanelIsTrue' /\ task'.at = "draw" /\ beside' \in BOOLEAN
           /\ task' \in [at : {"select", "screens", "log", "draw"}, dirty : SUBSET (1..Strips)]
  <1>. DEFINE dirty == DirtyStrips(previous, screen)
  <1>1. current' = screen /\ task' = [at |-> "draw", dirty |-> dirty] /\ beside' = (calibrating \/ (beside /\ hasPrevious))
    BY DEF Apply
  <1>2. dirty \subseteq 1..Strips
    BY DirtyWithin
  <1>3. ASSUME ~beside', NEW s \in (1..Strips) \ dirty PROVE panel[s] = Picture(screen, s)
    <2>1. hasPrevious
      BY <1>3, DirtyAll
    <2>2. panel[s] = Picture(previous, s)
      BY <2>1, <1>1, <1>3 DEF DisplayInv, PanelIsTrue, Shows
    <2>3. Picture(previous, s) = Picture(screen, s)
      BY <2>1, <1>3, DirtyIsEnough
    <2>. QED
      BY <2>2, <2>3
  <1>. HIDE DEF dirty
  <1>4. task'.at = "draw" /\ task'.dirty = dirty
    BY <1>1
  <1>5. PanelIsTrue'
    <2>1. ~beside' => \A s \in (1..Strips) \ task'.dirty : panel'[s] = Picture(current', s)
      BY <1>1, <1>3, <1>4
    <2>. QED
      BY <1>4, <2>1 DEF PanelIsTrue, Shows
  <1>. QED
    BY <1>1, <1>2, <1>4, <1>5 DEF DisplayInv, TaskType

LEMMA NextScreenKeeps ==
    ASSUME DisplayInv, ReceiveScreen PROVE DisplayInv'
  <1>. DEFINE screen == Head(queued.screens)
  <1>1. /\ task.at = "screens" /\ queued.screens # <<>> /\ Apply(screen)
        /\ queued' = [queued EXCEPT !.screens = Tail(@)] /\ drawn' = (Len(queued.screens) = 1)
        /\ UNCHANGED <<handles, previous, hasPrevious, log, panel, calibrating>>
    BY DEF ReceiveScreen
  <1>. HIDE DEF screen
  <1>2. queued.screens \in Seq(Screens) /\ Len(queued.screens) <= ScreenQueue
    BY DEF DisplayInv, QueuesType
  <1>3. /\ queued'.screens = Tail(queued.screens) /\ queued'.log = queued.log
        /\ queued' = [screens |-> queued'.screens, log |-> queued'.log]
    BY <1>1 DEF DisplayInv, QueuesType
  <1>4. queued'.screens \in Seq(Screens) /\ Len(queued'.screens) = Len(queued.screens) - 1
    BY <1>1, <1>2, <1>3
  <1>5. /\ PanelIsTrue' /\ task'.at = "draw" /\ beside' \in BOOLEAN
        /\ task' \in [at : {"select", "screens", "log", "draw"}, dirty : SUBSET (1..Strips)]
    BY <1>1, ApplyShows
  <1>6. QueuesType'
    <2>1. Len(queued'.screens) <= ScreenQueue
      BY <1>2, <1>4, DisplayAssumption
    <2>. QED
      BY <1>1, <1>3, <1>4, <2>1 DEF DisplayInv, QueuesType
  <1>7. NothingUnannounced'
    <2>1. task'.at \notin Kinds /\ "screens" \in Kinds
      BY <1>5 DEF Kinds
    <2>2. \A k \in Kinds : k # "screens" => queued'[k] = queued[k]
      BY <1>3 DEF Kinds
    <2>. QED
      BY <1>1, <1>4, <2>1, <2>2, ReceivedKeeps
  <1>8. NewestIsDrawn'
    <2>1. ASSUME queued'.screens = <<>> PROVE Len(queued.screens) = 1
      BY <1>2, <1>4, <2>1
    <2>. QED
      BY <1>1, <2>1 DEF NewestIsDrawn
  <1>9. TaskType' /\ LogType'
    BY <1>1, <1>5 DEF DisplayInv, TaskType, LogType, LogShape
  <1>. QED
    BY <1>5, <1>6, <1>7, <1>8, <1>9 DEF DisplayInv

LEMMA LogRowsType ==
    ASSUME NEW lines \in Seq(LogTexts)
    PROVE  /\ MaxScroll(lines) \in Nat
           /\ Len(lines) = 0 => MaxScroll(lines) = 0
  BY DisplayAssumption DEF MaxScroll, VisibleRows, LogRows

LEMMA PushedLine ==
    ASSUME NEW lines \in Seq(LogTexts), Len(lines) <= LogLines, NEW line \in LogTexts
    PROVE  Newest(Append(lines, line)) \in Seq(LogTexts) /\ Len(Newest(Append(lines, line))) <= LogLines
  <1>. DEFINE more == Append(lines, line)
  <1>1. more \in Seq(LogTexts) /\ Len(more) = Len(lines) + 1 /\ Len(lines) \in Nat
    OBVIOUS
  <1>. HIDE DEF more
  <1>2. more # <<>>
    BY <1>1
  <1>3. Tail(more) \in Seq(LogTexts) /\ Len(Tail(more)) = Len(more) - 1
    BY <1>1, <1>2
  <1>4. Newest(more) \in Seq(LogTexts) /\ Len(Newest(more)) <= LogLines
    BY <1>1, <1>3, DisplayAssumption DEF Newest
  <1>. QED
    BY <1>4 DEF more

LEMMA LogOf ==
    ASSUME NEW visible \in BOOLEAN, NEW lines \in Seq(LogTexts), Len(lines) <= LogLines,
           NEW n \in Nat, n <= MaxScroll(lines)
    PROVE  LogShape([visible |-> visible, lines |-> lines, scroll |-> n])
  BY DEF LogShape

LEMMA LogAfterShape ==
    ASSUME LogType, NEW cmd \in LogCommands PROVE LogShape(LogAfter(cmd))
  <1>1. /\ log = [visible |-> log.visible, lines |-> log.lines, scroll |-> log.scroll]
        /\ log.visible \in BOOLEAN /\ log.lines \in Seq(LogTexts) /\ log.scroll \in Nat
        /\ Len(log.lines) <= LogLines /\ log.scroll <= MaxScroll(log.lines)
        /\ MaxScroll(log.lines) \in Nat
    BY LogRowsType DEF LogType, LogShape
  <1>2. CASE cmd.id = "show"
    <2>1. LogAfter(cmd) = [visible |-> TRUE, lines |-> log.lines, scroll |-> 0]
      BY <1>1, <1>2 DEF LogAfter
    <2>2. 0 <= MaxScroll(log.lines)
      BY <1>1
    <2>. QED
      BY <1>1, <2>1, <2>2, LogOf
  <1>3. CASE cmd.id = "hide"
    <2>1. LogAfter(cmd) = [visible |-> FALSE, lines |-> log.lines, scroll |-> log.scroll]
      BY <1>1, <1>3 DEF LogAfter
    <2>. QED
      BY <1>1, <2>1, LogOf
  <1>4. CASE cmd.id = "clear"
    <2>1. <<>> \in Seq(LogTexts) /\ Len(<<>>) = 0
      OBVIOUS
    <2>2. MaxScroll(<<>>) = 0
      BY <2>1, LogRowsType
    <2>3. LogAfter(cmd) = [visible |-> log.visible, lines |-> <<>>, scroll |-> 0]
      BY <1>1, <1>4 DEF LogAfter
    <2>4. Len(<<>>) <= LogLines /\ 0 <= MaxScroll(<<>>)
      BY <2>1, <2>2, DisplayAssumption
    <2>. QED
      BY <1>1, <2>1, <2>3, <2>4, LogOf
  <1>5. CASE cmd.id = "push"
    <2>1. cmd.text \in LogTexts
      BY <1>5 DEF LogCommands
    <2>. DEFINE lines == Newest(Append(log.lines, cmd.text))
    <2>2. lines \in Seq(LogTexts) /\ Len(lines) <= LogLines
      BY <1>1, <2>1, PushedLine
    <2>3. LogAfter(cmd) = [visible |-> log.visible, lines |-> lines, scroll |-> 0]
      BY <1>1, <1>5 DEF LogAfter
    <2>. HIDE DEF lines
    <2>4. 0 <= MaxScroll(lines)
      BY <2>2, LogRowsType
    <2>. QED
      BY <1>1, <2>2, <2>3, <2>4, LogOf
  <1>6. CASE cmd.id = "scroll older"
    <2>. DEFINE n == IF log.scroll < MaxScroll(log.lines) THEN log.scroll + 1 ELSE MaxScroll(log.lines)
    <2>1. n \in Nat /\ n <= MaxScroll(log.lines)
      BY <1>1
    <2>2. LogAfter(cmd) = [visible |-> log.visible, lines |-> log.lines, scroll |-> n]
      BY <1>1, <1>6 DEF LogAfter
    <2>. HIDE DEF n
    <2>. QED
      BY <1>1, <2>1, <2>2, LogOf
  <1>7. CASE cmd.id = "scroll newer"
    <2>. DEFINE n == IF log.scroll = 0 THEN 0 ELSE log.scroll - 1
    <2>1. n \in Nat /\ n <= MaxScroll(log.lines)
      BY <1>1
    <2>2. LogAfter(cmd) = [visible |-> log.visible, lines |-> log.lines, scroll |-> n]
      BY <1>1, <1>7 DEF LogAfter
    <2>. HIDE DEF n
    <2>. QED
      BY <1>1, <2>1, <2>2, LogOf
  <1>. QED
    BY <1>2, <1>3, <1>4, <1>5, <1>6, <1>7 DEF LogCommands

LEMMA LogKeeps ==
    ASSUME DisplayInv, ReceiveLog PROVE DisplayInv'
  <1>. DEFINE cmd == Head(queued.log)
  <1>1. /\ task.at = "log" /\ queued.log # <<>> /\ log' = LogAfter(cmd)
        /\ queued' = [queued EXCEPT !.log = Tail(@)]
        /\ UNCHANGED <<handles, previous, hasPrevious, panel, calibrating, drawn>>
    BY DEF ReceiveLog
  <1>2. \/ Apply(LogScreen(log')) \/ Apply(<<>>)
        \/ task' = [task EXCEPT !.at = "select"] /\ UNCHANGED <<current, beside>>
    BY DEF ReceiveLog
  <1>3. queued.log \in Seq(LogCommands) /\ Len(queued.log) <= LogQueue
    BY DEF DisplayInv, QueuesType
  <1>4. cmd \in LogCommands
    BY <1>1, <1>3
  <1>. HIDE DEF cmd
  <1>5. /\ queued'.log = Tail(queued.log) /\ queued'.screens = queued.screens
        /\ queued' = [screens |-> queued'.screens, log |-> queued'.log]
    BY <1>1 DEF DisplayInv, QueuesType
  <1>6. queued'.log \in Seq(LogCommands) /\ Len(queued'.log) = Len(queued.log) - 1
    BY <1>1, <1>3, <1>5
  <1>7. /\ PanelIsTrue' /\ task'.at \in {"draw", "select"} /\ beside' \in BOOLEAN
        /\ task' \in [at : {"select", "screens", "log", "draw"}, dirty : SUBSET (1..Strips)]
    <2>1. ASSUME NEW screen, Apply(screen)
          PROVE  /\ PanelIsTrue' /\ task'.at \in {"draw", "select"} /\ beside' \in BOOLEAN
                 /\ task' \in [at : {"select", "screens", "log", "draw"}, dirty : SUBSET (1..Strips)]
      BY <1>1, <2>1, ApplyShows
    <2>2. CASE Apply(LogScreen(log'))
      <3>1. PICK screen : screen = LogScreen(log')
        OBVIOUS
      <3>. QED
        BY <2>1, <2>2, <3>1
    <2>3. CASE Apply(<<>>)
      BY <2>1, <2>3
    <2>4. CASE task' = [task EXCEPT !.at = "select"] /\ UNCHANGED <<current, beside>>
      BY <1>1, <2>4 DEF DisplayInv, TaskType, PanelIsTrue, Shows
    <2>. QED
      BY <1>2, <2>2, <2>3, <2>4
  <1>8. QueuesType'
    <2>1. Len(queued'.log) <= LogQueue
      BY <1>3, <1>6, DisplayAssumption
    <2>. QED
      BY <1>1, <1>5, <1>6, <2>1 DEF DisplayInv, QueuesType
  <1>9. NothingUnannounced'
    <2>1. task'.at \notin Kinds /\ "log" \in Kinds
      BY <1>7 DEF Kinds
    <2>2. \A k \in Kinds : k # "log" => queued'[k] = queued[k]
      BY <1>5 DEF Kinds
    <2>. QED
      BY <1>1, <1>6, <2>1, <2>2, ReceivedKeeps
  <1>10. LogType'
    BY <1>1, <1>4, LogAfterShape DEF DisplayInv, LogType
  <1>11. TaskType' /\ NewestIsDrawn'
    BY <1>1, <1>5, <1>7 DEF DisplayInv, TaskType, NewestIsDrawn
  <1>. QED
    BY <1>7, <1>8, <1>9, <1>10, <1>11 DEF DisplayInv

LEMMA FlushKeeps ==
    ASSUME DisplayInv, FlushStrip PROVE DisplayInv'
  <1>. DEFINE f == FirstOf(task.dirty)
  <1>1. /\ task.at = "draw" /\ task.dirty # {}
        /\ panel' = [panel EXCEPT ![f] = Picture(current, f)]
        /\ task' = [task EXCEPT !.dirty = @ \ {f}]
        /\ beside' = (beside \/ calibrating)
        /\ UNCHANGED <<queued, handles, current, previous, hasPrevious, log, calibrating, drawn>>
    BY DEF FlushStrip
  <1>2. task.dirty \in SUBSET (1..Strips) /\ f \in task.dirty
    BY <1>1, FirstIsDirty DEF DisplayInv, TaskType
  <1>. HIDE DEF f
  <1>3. task'.at = "draw" /\ task'.dirty = task.dirty \ {f}
    BY <1>1 DEF DisplayInv, TaskType
  <1>4. TaskType'
    BY <1>1, <1>2, <1>3 DEF DisplayInv, TaskType
  <1>5. PanelIsTrue'
    BY <1>1, <1>2, <1>3 DEF DisplayInv, TaskType, PanelIsTrue, Shows
  <1>6. NothingUnannounced'
    BY <1>1, <1>3 DEF DisplayInv, NothingUnannounced, Announced
  <1>. QED
    BY <1>1, <1>4, <1>5, <1>6 DEF DisplayInv, QueuesType, LogType, LogShape, NewestIsDrawn

LEMMA DrawnKeeps ==
    ASSUME DisplayInv, Drawn PROVE DisplayInv'
  <1>1. /\ task.at = "draw" /\ task.dirty = {} /\ previous' = current /\ hasPrevious' = TRUE
        /\ task' = [task EXCEPT !.at = "select"]
        /\ UNCHANGED <<queued, handles, current, log, panel, calibrating, drawn, beside>>
    BY DEF Drawn
  <1>2. task'.at = "select" /\ task'.dirty = {}
    BY <1>1 DEF DisplayInv, TaskType
  <1>3. TaskType'
    BY <1>1 DEF DisplayInv, TaskType
  <1>4. PanelIsTrue'
    BY <1>1, <1>2 DEF DisplayInv, PanelIsTrue, Shows
  <1>5. NothingUnannounced'
    BY <1>1, <1>2 DEF DisplayInv, NothingUnannounced, Announced, One, Kinds
  <1>. QED
    BY <1>1, <1>3, <1>4, <1>5 DEF DisplayInv, QueuesType, LogType, LogShape, NewestIsDrawn

LEMMA DisplayKeeps == DisplayInv /\ [DisplayNext]_displayVars => DisplayInv'
  <1>. SUFFICES ASSUME DisplayInv, [DisplayNext]_displayVars PROVE DisplayInv'
    OBVIOUS
  <1>1. CASE DisplayTask
    BY <1>1, SelectKeeps, NothingKeeps, NextScreenKeeps, LogKeeps, FlushKeeps, DrawnKeeps DEF DisplayTask
  <1>2. ASSUME NEW screen \in Screens, SubmitScreen(screen) PROVE DisplayInv'
    <2>1. /\ QueuesType' /\ LogType' /\ TaskType' /\ NothingUnannounced' /\ PanelIsTrue'
          /\ queued'["screens"] # <<>>
      BY <1>2, SubmitKeeps, DisplayAssumption DEF SubmitScreen, DisplayInv, Kinds
    <2>. QED
      BY <2>1 DEF DisplayInv, NewestIsDrawn
  <1>3. ASSUME NEW cmd \in LogCommands, SubmitLog(cmd) PROVE DisplayInv'
    <2>1. drawn' = drawn /\ drawn \in BOOLEAN
      BY <1>3 DEF SubmitLog, DisplayInv, TaskType
    <2>2. /\ QueuesType' /\ LogType' /\ TaskType' /\ NothingUnannounced' /\ PanelIsTrue'
          /\ queued'["screens"] = queued["screens"]
      BY <1>3, <2>1, SubmitKeeps, DisplayAssumption DEF SubmitLog, DisplayInv, Kinds
    <2>. QED
      BY <2>1, <2>2 DEF DisplayInv, NewestIsDrawn
  <1>4. CASE DrawCalibration \/ Invalidate
    BY <1>4, CalibrationKeeps
  <1>5. CASE UNCHANGED displayVars
    BY <1>5 DEF displayVars, DisplayInv, QueuesType, LogType, LogShape, TaskType, NothingUnannounced, Announced,
                NewestIsDrawn, PanelIsTrue, Shows
  <1>. QED
    BY <1>1, <1>2, <1>3, <1>4, <1>5 DEF DisplayNext

LEMMA DisplayAtRest == DisplayInv => DisplayTypeOK /\ PanelShowsNewest
  <1>. SUFFICES ASSUME DisplayInv PROVE DisplayTypeOK /\ PanelShowsNewest
    OBVIOUS
  <1>1. DisplayTypeOK
    BY DEF DisplayInv, DisplayTypeOK, QueuesType, TaskType, LogType, LogShape
  <1>2. ASSUME AtRest
        PROVE  /\ drawn /\ queued.screens = <<>> /\ queued.log = <<>>
               /\ hasPrevious /\ ~beside => \A s \in 1..Strips : panel[s] = Picture(previous, s)
    <2>1. task.at = "select" /\ handles = <<>> /\ ~calibrating
      BY <1>2 DEF AtRest, Busy
    <2>2. \A k \in Kinds : Cardinality(Signalled(handles, k)) = 0 /\ One(k, task.at) = 0
      <3>1. \A k \in Kinds : Signalled(handles, k) = {}
        BY <2>1 DEF Signalled
      <3>. QED
        BY <2>1, <3>1, FS_EmptySet DEF One, Kinds
    <2>3. Len(queued.screens) <= 0 /\ Len(queued.log) <= 0
      BY <2>2 DEF DisplayInv, NothingUnannounced, Announced, Kinds
    <2>4. queued.screens = <<>> /\ queued.log = <<>>
      BY <2>3 DEF DisplayInv, QueuesType
    <2>. QED
      BY <2>1, <2>4 DEF DisplayInv, NewestIsDrawn, PanelIsTrue, Shows
  <1>. QED
    BY <1>1, <1>2 DEF PanelShowsNewest

-----------------------------------------------------------------------------
(* The keyboard (CydTextInput). *)

(* The separators in front of a character. *)
Boundaries(s, n) == {k \in 1..(n - 1) : IsBoundary(s, k)}

LEMMA SeparatorsCounted ==
    ASSUME NEW s, NEW n \in Nat
    PROVE  /\ IsFiniteSet(Boundaries(s, n)) /\ SeparatorCount(s, n) = Cardinality(Boundaries(s, n))
           /\ SeparatorCount(s, n) \in Nat
  <1>1. Boundaries(s, n) \subseteq 1..n /\ IsFiniteSet(1..n)
    BY FS_Interval DEF Boundaries
  <1>2. IsFiniteSet(Boundaries(s, n))
    BY <1>1, FS_Subset
  <1>3. Cardinality(Boundaries(s, n)) \in Nat
    BY <1>2, FS_CardinalityType
  <1>. QED
    BY <1>2, <1>3 DEF SeparatorCount, Boundaries

LEMMA SeparatorsGrow ==
    ASSUME NEW s, NEW m \in Nat, NEW n \in Nat, m <= n
    PROVE  SeparatorCount(s, m) <= SeparatorCount(s, n)
  <1>1. Boundaries(s, m) \subseteq Boundaries(s, n)
    BY DEF Boundaries
  <1>2. IsFiniteSet(Boundaries(s, n))
    BY SeparatorsCounted
  <1>3. Cardinality(Boundaries(s, m)) <= Cardinality(Boundaries(s, n))
    BY <1>1, <1>2, FS_Subset
  <1>. QED
    BY <1>3, SeparatorsCounted

LEMMA NoBoundaryAtStart == ASSUME NEW s PROVE ~IsBoundary(s, 0) /\ SeparatorCount(s, 0) = 0
  <1>1. Boundaries(s, 0) = {}
    BY DEF Boundaries
  <1>2. SeparatorCount(s, 0) = 0
    BY <1>1, SeparatorsCounted, FS_EmptySet
  <1>. QED
    BY <1>2 DEF IsBoundary

(* Where the characters stand. *)
Begun(i) == {j \in 1..i : BeginsGroup(j)}

LEMMA PlaceCounts ==
    ASSUME NEW i \in Nat
    PROVE  /\ IsFiniteSet(Begun(i)) /\ Cardinality(Begun(i)) \in Nat
           /\ Place(i) = i + Cardinality(Begun(i)) /\ Place(i) \in Nat
  <1>1. Begun(i) \subseteq 1..i /\ IsFiniteSet(1..i)
    BY FS_Interval DEF Begun
  <1>2. IsFiniteSet(Begun(i))
    BY <1>1, FS_Subset
  <1>3. Cardinality(Begun(i)) \in Nat
    BY <1>2, FS_CardinalityType
  <1>4. Place(i) = i + Cardinality(Begun(i))
    BY DEF Place, Begun
  <1>. QED
    BY <1>2, <1>3, <1>4

LEMMA PlacesInOrder ==
    ASSUME NEW i \in Nat, NEW j \in Nat, i < j PROVE Place(i) < Place(j)
  <1>1. Begun(i) \subseteq Begun(j)
    BY DEF Begun
  <1>2. Cardinality(Begun(i)) <= Cardinality(Begun(j))
    BY <1>1, PlaceCounts, FS_Subset
  <1>. QED
    BY <1>2, PlaceCounts

LEMMA GroupedForm ==
    ASSUME NEW entry \in Seq(Chars)
    PROVE  /\ Grouped(entry) \in Seq(Chars \cup {SEPARATOR})
           /\ Len(Grouped(entry)) = Place(Len(entry)) /\ DOMAIN Grouped(entry) = 1..Place(Len(entry))
           /\ \A i \in 1..Len(entry) : Place(i) \in 1..Place(Len(entry)) /\ Grouped(entry)[Place(i)] = entry[i]
           /\ \A p \in 1..Place(Len(entry)) :
                Grouped(entry)[p] = SEPARATOR \/ \E i \in 1..Len(entry) : Place(i) = p
  <1>. DEFINE n == Len(entry)
              g == Grouped(entry)
              From(p) == CHOOSE i \in 1..Len(entry) : Place(i) = p
  <1>1. n \in Nat /\ Place(n) \in Nat
    BY PlaceCounts
  <1>2. g = [p \in 1..Place(n) |-> IF \E i \in 1..n : Place(i) = p THEN entry[From(p)] ELSE SEPARATOR]
    BY DEF Grouped
  <1>3. \A p : (\E i \in 1..n : Place(i) = p) => From(p) \in 1..n /\ Place(From(p)) = p
    OBVIOUS
  <1>4. \A i, j \in 1..n : Place(i) = Place(j) => i = j
    <2>. SUFFICES ASSUME NEW i \in 1..n, NEW j \in 1..n, Place(i) = Place(j), i # j PROVE FALSE
      OBVIOUS
    <2>1. i \in Nat /\ j \in Nat /\ Place(i) \in Nat /\ Place(j) \in Nat
      BY <1>1, PlaceCounts
    <2>2. i < j \/ j < i
      BY <2>1
    <2>. QED
      BY <2>1, <2>2, PlacesInOrder
  <1>5. \A i \in 1..n : Place(i) \in 1..Place(n)
    <2>. SUFFICES ASSUME NEW i \in 1..n PROVE Place(i) \in 1..Place(n)
      OBVIOUS
    <2>1. i \in Nat /\ Place(i) \in Nat /\ i <= Place(i)
      BY <1>1, PlaceCounts
    <2>2. i = n \/ i < n
      BY <1>1
    <2>. QED
      BY <1>1, <2>1, <2>2, PlacesInOrder
  <1>. HIDE DEF From, g
  <1>6. \A i \in 1..n : entry[i] \in Chars
    OBVIOUS
  <1>7. \A p \in 1..Place(n) : g[p] \in Chars \cup {SEPARATOR}
    BY <1>2, <1>3, <1>6
  <1>8. g \in Seq(Chars \cup {SEPARATOR}) /\ Len(g) = Place(n) /\ DOMAIN g = 1..Place(n)
    BY <1>1, <1>2, <1>7
  <1>9. \A i \in 1..n : g[Place(i)] = entry[i]
    BY <1>2, <1>3, <1>4, <1>5
  <1>10. \A p \in 1..Place(n) : g[p] = SEPARATOR \/ \E i \in 1..n : Place(i) = p
    BY <1>2
  <1>. QED
    BY <1>5, <1>8, <1>9, <1>10 DEF g

(* What the format writes is as long as the two counts of the code say. *)
LEMMA LengthsAgree ==
    ASSUME session.prefix \in Seq(Chars), NEW n \in Nat, Len(session.prefix) <= n
    PROVE  Place(n) = FormattedLen(session, n - Len(session.prefix))
  <1>. DEFINE P == Len(session.prefix)
              K == Boundaries(session, n - P)
              f == [k \in K |-> k + P + 1]
  <1>1. P \in Nat /\ n - P \in Nat
    OBVIOUS
  <1>. HIDE DEF P
  <1>2. \A k \in K : f[k] \in Begun(n)
    BY <1>1 DEF Boundaries, Begun, BeginsGroup, P
  <1>3. \A j \in Begun(n) : j - P - 1 \in K /\ f[j - P - 1] = j
    BY <1>1, NoBoundaryAtStart DEF Boundaries, Begun, BeginsGroup, P
  <1>4. \A k, l \in K : f[k] = f[l] => k = l
    BY <1>1 DEF Boundaries
  <1>5. f \in Bijection(K, Begun(n))
    BY <1>2, <1>3, <1>4 DEF Bijection, Injection, Surjection, IsInjective
  <1>6. IsFiniteSet(K) /\ SeparatorCount(session, n - P) = Cardinality(K)
    BY <1>1, SeparatorsCounted
  <1>. HIDE DEF f, K
  <1>7. Cardinality(Begun(n)) = Cardinality(K)
    BY <1>5, <1>6, FS_Bijection DEF ExistsBijection
  <1>8. Cardinality(K) \in Nat
    BY <1>6, FS_CardinalityType
  <1>. QED
    BY <1>1, <1>6, <1>7, <1>8, PlaceCounts DEF FormattedLen, P

LEMMA FormattedGrows ==
    ASSUME NEW s, Len(s.prefix) \in Nat, NEW m \in Nat, NEW n \in Nat, m <= n
    PROVE  /\ FormattedLen(s, m) \in Nat /\ FormattedLen(s, m) <= FormattedLen(s, n)
           /\ Len(s.prefix) + m <= FormattedLen(s, m)
  BY SeparatorsCounted, SeparatorsGrow DEF FormattedLen

(* The largest of numbers that are bounded. *)
LEMMA Largest ==
    ASSUME NEW n \in Nat, NEW S \in SUBSET (0..n), S # {}
    PROVE  Max(S) \in S /\ \A y \in S : y <= Max(S)
  <1>. DEFINE D == {n - y : y \in S}
  <1>0. \A y \in S : y \in Nat /\ n - y \in Nat
    OBVIOUS
  <1>1. D \in SUBSET Nat /\ D # {}
    BY <1>0
  <1>2. PICK d \in D : \A e \in D : d <= e
    BY <1>1, Smallest
  <1>3. PICK x \in S : d = n - x
    BY <1>2
  <1>4. \A y \in S : x >= y
    <2>. SUFFICES ASSUME NEW y \in S PROVE x >= y
      OBVIOUS
    <2>1. n - y \in D
      OBVIOUS
    <2>2. n - x <= n - y
      BY <1>2, <1>3, <2>1
    <2>. QED
      BY <2>2
  <1>5. Max(S) \in S /\ \A y \in S : Max(S) >= y
    BY <1>4 DEF Max
  <1>. QED
    BY <1>5

-----------------------------------------------------------------------------
(* A entry that fits with its separators. *)
Fits(entry) ==
    IF session.groups = <<>> THEN Len(entry) <= session.max
    ELSE /\ Len(session.prefix) <= Len(entry)
         /\ FormattedLen(session, Len(entry) - Len(session.prefix)) <= session.max

SessionShape ==
    /\ session \in [open : BOOLEAN, max : Nat, prefix : Seq(Chars), groups : Seq(Nat \ {0}),
                    mode : {"generic", "password", "url"}, upper : BOOLEAN, digits : BOOLEAN]
    /\ Len(session.prefix) < session.max
    /\ session.groups # <<>> => session.mode # "url"

Texts == [value : Seq(Chars), page : DOMAIN PageKeys, show : BOOLEAN, step : 0..2, restore : Seq(Chars)]

TextShape ==
    /\ text \in Texts
    /\ kept \in Seq(Chars)
    /\ touched = [pending |-> touched.pending, long |-> touched.long] /\ touched.long \in BOOLEAN

(* The schemes come back to the entry that was kept. *)
SchemesReturn ==
    IF text.step = 0 THEN text.value = kept ELSE text.restore = kept /\ session.mode = "url"

TextInv == SessionShape /\ TextShape /\ SchemesReturn /\ Fits(text.value) /\ Fits(kept)

LEMMA SessionFacts ==
    ASSUME SessionShape
    PROVE  /\ session.prefix \in Seq(Chars) /\ Len(session.prefix) \in Nat /\ session.max \in Nat
           /\ Len(session.prefix) < session.max
  <1>1. session.prefix \in Seq(Chars) /\ session.max \in Nat
    BY DEF SessionShape
  <1>. QED
    BY <1>1 DEF SessionShape

LEMMA CapacityFits ==
    ASSUME SessionShape, session.groups # <<>>
    PROVE  \E m \in Nat : Capacity = Len(session.prefix) + m /\ FormattedLen(session, m) <= session.max
  <1>. DEFINE S == {n \in 0..session.max : FormattedLen(session, n) <= session.max}
              P == Len(session.prefix)
  <1>1. \A n : n \in S <=> n \in 0..session.max /\ FormattedLen(session, n) <= session.max
    OBVIOUS
  <1>2. Capacity = P + Max(S)
    BY DEF Capacity
  <1>3. P \in Nat /\ session.max \in Nat /\ P < session.max
    BY SessionFacts
  <1>4. FormattedLen(session, 0) = P
    BY <1>3, NoBoundaryAtStart DEF FormattedLen
  <1>. HIDE DEF S, P
  <1>5. S \in SUBSET (0..session.max)
    BY <1>1
  <1>6. FormattedLen(session, 0) <= session.max /\ 0 \in 0..session.max
    BY <1>3, <1>4
  <1>7. 0 \in S
    BY <1>1, <1>6
  <1>8. Max(S) \in S
    BY <1>3, <1>5, <1>7, Largest
  <1>9. Max(S) \in Nat /\ FormattedLen(session, Max(S)) <= session.max
    BY <1>1, <1>3, <1>8
  <1>. QED
    BY <1>2, <1>9 DEF P

LEMMA RoomForOne ==
    ASSUME SessionShape, NEW entry \in Seq(Chars), NEW c \in Chars, Fits(entry), Len(entry) < Capacity
    PROVE  Append(entry, c) \in Seq(Chars) /\ Fits(Append(entry, c))
  <1>1. PICK more : more = Append(entry, c)
    OBVIOUS
  <1>2. PICK P : P = Len(session.prefix)
    OBVIOUS
  <1>3. /\ more \in Seq(Chars) /\ Len(more) = Len(entry) + 1 /\ Len(entry) \in Nat
        /\ P \in Nat /\ session.max \in Nat /\ P < session.max
    BY <1>1, <1>2, SessionFacts
  <1>4. CASE session.groups = <<>>
    <2>1. Capacity = session.max
      BY <1>4 DEF Capacity
    <2>2. Len(more) <= session.max
      BY <1>3, <2>1
    <2>. QED
      BY <1>1, <1>3, <1>4, <2>2 DEF Fits
  <1>5. CASE session.groups # <<>>
    <2>1. PICK m \in Nat : Capacity = P + m /\ FormattedLen(session, m) <= session.max
      BY <1>2, <1>5, CapacityFits
    <2>2. P <= Len(entry)
      BY <1>2, <1>5 DEF Fits
    <2>3. P <= Len(more) /\ Len(more) - P \in Nat /\ Len(more) - P <= m
      BY <1>3, <2>1, <2>2
    <2>a. PICK k \in Nat : k = Len(more) - P /\ k <= m
      BY <2>3
    <2>b. Len(session.prefix) \in Nat
      BY <1>2, <1>3
    <2>4. /\ FormattedLen(session, k) \in Nat /\ FormattedLen(session, m) \in Nat
          /\ FormattedLen(session, k) <= FormattedLen(session, m)
      BY <2>a, <2>b, FormattedGrows
    <2>5. FormattedLen(session, Len(more) - P) <= session.max
      BY <1>3, <2>1, <2>4, <2>a
    <2>. QED
      BY <1>1, <1>2, <1>3, <1>5, <2>3, <2>5 DEF Fits
  <1>. QED
    BY <1>4, <1>5

LEMMA OneLess ==
    ASSUME SessionShape, NEW entry \in Seq(Chars), Fits(entry), Len(session.prefix) < Len(entry)
    PROVE  Front(entry) \in Seq(Chars) /\ Fits(Front(entry))
  <1>1. PICK less : less = Front(entry)
    OBVIOUS
  <1>2. PICK P : P = Len(session.prefix)
    OBVIOUS
  <1>3. P \in Nat /\ session.max \in Nat /\ P < Len(entry) /\ Len(entry) \in Nat
    BY <1>2, SessionFacts
  <1>4. entry # <<>> /\ Len(entry) - 1 \in Nat /\ P <= Len(entry) - 1
    BY <1>3
  <1>5. less \in Seq(Chars) /\ Len(less) = Len(entry) - 1
    <2>0. PICK m \in Nat : m = Len(entry) - 1
      BY <1>4
    <2>1. \A i \in 1..m : entry[i] \in Chars
      BY <1>3, <2>0
    <2>2. SubSeq(entry, 1, m) \in Seq(Chars) /\ Len(SubSeq(entry, 1, m)) = IF 1 <= m THEN m - 1 + 1 ELSE 0
      BY <2>1, SubSeqProperties
    <2>. QED
      BY <1>1, <2>0, <2>2 DEF Front
  <1>6. CASE session.groups = <<>>
    <2>1. Len(less) <= session.max
      BY <1>3, <1>5, <1>6 DEF Fits
    <2>. QED
      BY <1>1, <1>5, <1>6, <2>1 DEF Fits
  <1>7. CASE session.groups # <<>>
    <2>1. Len(less) - P \in Nat /\ Len(entry) - P \in Nat /\ Len(less) - P <= Len(entry) - P
      BY <1>3, <1>4, <1>5
    <2>a. PICK k \in Nat : k = Len(less) - P
      BY <2>1
    <2>b. PICK n \in Nat : n = Len(entry) - P /\ k <= n
      BY <2>1, <2>a
    <2>c. Len(session.prefix) \in Nat
      BY <1>2, <1>3
    <2>2. /\ FormattedLen(session, k) \in Nat /\ FormattedLen(session, n) \in Nat
          /\ FormattedLen(session, k) <= FormattedLen(session, n)
      BY <2>b, <2>c, FormattedGrows
    <2>3. FormattedLen(session, Len(entry) - P) <= session.max
      BY <1>2, <1>7 DEF Fits
    <2>4. FormattedLen(session, Len(less) - P) <= session.max
      BY <1>3, <2>2, <2>3, <2>a, <2>b
    <2>. QED
      BY <1>1, <1>2, <1>3, <1>4, <1>5, <1>7, <2>4 DEF Fits
  <1>. QED
    BY <1>6, <1>7

LEMMA KeysAreChars ==
    /\ \A k \in DOMAIN PageKeys : PageKeys[k] \in Chars
    /\ " " \in Chars /\ "A" \in Chars /\ "1" \in Chars /\ "h" \in Chars /\ "s" \in Chars
    /\ SEPARATOR \in Chars
  <1>1. DOMAIN PageKeys = {"lower", "upper", "symbol", "extra"} /\ PageKeys["upper"] = "A" /\ PageKeys["symbol"] = "1"
    BY DEF PageKeys
  <1>2. \A k \in DOMAIN PageKeys : PageKeys[k] \in Range(PageKeys)
    BY DEF Range
  <1>3. Schemes[2] = <<"h", "s">>
    BY DEF Schemes
  <1>4. "h" \in Range(Schemes[2]) /\ "s" \in Range(Schemes[2])
    <2>. DEFINE q == <<"h", "s">>
    <2>1. 1 \in DOMAIN q /\ 2 \in DOMAIN q /\ q[1] = "h" /\ q[2] = "s"
      OBVIOUS
    <2>. QED
      BY <1>3, <2>1 DEF Range
  <1>. QED
    BY <1>1, <1>2, <1>4 DEF Chars

-----------------------------------------------------------------------------
LEMMA TextStarts == TextInit => TextInv
  <1>. SUFFICES ASSUME TextInit PROVE TextInv
    OBVIOUS
  <1>1. <<>> \in Seq(Chars) /\ <<>> \in Seq(Nat \ {0}) /\ Len(<<>>) = 0
    OBVIOUS
  <1>2. SessionShape
    BY <1>1 DEF TextInit, ClosedSession, SessionShape
  <1>3. TextShape /\ text.step = 0 /\ text.value = kept
    BY <1>1 DEF TextInit, NoText, NoKey, TextShape, Texts, PageKeys
  <1>4. Fits(<<>>)
    BY <1>1 DEF TextInit, ClosedSession, Fits
  <1>. QED
    BY <1>2, <1>3, <1>4 DEF TextInit, NoText, TextInv, SchemesReturn

(* A cut-off text. *)
LEMMA CutShape ==
    ASSUME NEW v \in Seq(Chars), NEW n \in Nat
    PROVE  LET c == SubSeq(v, 1, IF Len(v) > n THEN n ELSE Len(v))
           IN  /\ c \in Seq(Chars) /\ Len(c) <= n /\ Len(c) <= Len(v)
               /\ Len(c) = IF Len(v) > n THEN n ELSE Len(v)
  <1>1. PICK m \in Nat : m = IF Len(v) > n THEN n ELSE Len(v)
    OBVIOUS
  <1>2. \A i \in 1..m : v[i] \in Chars
    BY <1>1
  <1>3. SubSeq(v, 1, m) \in Seq(Chars) /\ Len(SubSeq(v, 1, m)) = IF 1 <= m THEN m - 1 + 1 ELSE 0
    BY <1>2, SubSeqProperties
  <1>. QED
    BY <1>1, <1>3

LEMMA InitialShape ==
    ASSUME NEW config \in Sessions, Len(config.prefix) < config.max
    PROVE  /\ InitialValue(config) \in Seq(Chars) /\ Len(InitialValue(config)) <= config.max
           /\ Len(config.prefix) <= Len(InitialValue(config))
  <1>1. /\ config.max \in Nat /\ config.prefix \in Seq(Chars) /\ config.initial \in Seq(Chars)
        /\ Len(config.prefix) \in Nat
    BY TextAssumption
  <1>2. PICK v : v = IF IsPrefix(config.prefix, config.initial) THEN config.initial
                     ELSE config.prefix \o config.initial
    OBVIOUS
  <1>3. v \in Seq(Chars) /\ Len(config.prefix) <= Len(v)
    <2>1. CASE IsPrefix(config.prefix, config.initial)
      BY <1>1, <1>2, <2>1 DEF IsPrefix
    <2>2. CASE ~IsPrefix(config.prefix, config.initial)
      <3>1. PICK p \in Seq(Chars), q \in Seq(Chars) : p = config.prefix /\ q = config.initial
        BY <1>1
      <3>2. p \o q \in Seq(Chars) /\ Len(p \o q) = Len(p) + Len(q) /\ Len(p) \in Nat /\ Len(q) \in Nat
        OBVIOUS
      <3>3. PICK r \in Seq(Chars) : r = p \o q /\ Len(r) = Len(p) + Len(q)
        BY <3>2
      <3>4. v = r
        BY <1>2, <2>2, <3>1, <3>3
      <3>5. Len(p) <= Len(r)
        BY <3>2, <3>3
      <3>. QED
        BY <3>1, <3>4, <3>5
    <2>. QED
      BY <2>1, <2>2
  <1>4. InitialValue(config) = SubSeq(v, 1, IF Len(v) > config.max THEN config.max ELSE Len(v))
    BY <1>2 DEF InitialValue
  <1>. QED
    BY <1>1, <1>3, <1>4, CutShape

LEMMA BeginKeeps == ASSUME TextInv, NEW config \in Sessions, BeginSession(config) PROVE TextInv'
  <1>1. /\ config.max \in Nat /\ config.prefix \in Seq(Chars) /\ config.groups \in Seq(Nat \ {0})
        /\ config.mode \in {"generic", "password", "url"} /\ config.upper \in BOOLEAN /\ config.digits \in BOOLEAN
        /\ config.groups # <<>> => config.mode # "url"
    BY TextAssumption
  <1>2. Len(config.prefix) < config.max
    BY DEF BeginSession
  <1>3. session' = [open |-> TRUE, max |-> config.max, prefix |-> config.prefix, groups |-> config.groups,
                    mode |-> config.mode, upper |-> config.upper, digits |-> config.digits]
    BY DEF BeginSession, ClosedSession
  <1>4. SessionShape'
    BY <1>1, <1>2, <1>3 DEF SessionShape
  <1>5. PICK v : v = InitialValue(config)
    OBVIOUS
  <1>6. v \in Seq(Chars) /\ Len(v) <= config.max /\ Len(config.prefix) <= Len(v)
    BY <1>2, <1>5, InitialShape
  <1>7. /\ text'.value = v /\ kept' = v /\ text'.step = 0
        /\ text' = [value |-> v, page |-> IF config.upper THEN "upper" ELSE "lower",
                    show |-> config.mode # "password", step |-> 0, restore |-> <<>>]
        /\ touched' = [pending |-> "none", long |-> FALSE]
    BY <1>5 DEF BeginSession, NoKey
  <1>8. TextShape'
    BY <1>6, <1>7 DEF TextShape, Texts, PageKeys
  <1>9. SchemesReturn'
    BY <1>7 DEF SchemesReturn
  <1>10. config.groups # <<>> => FormattedLen(config, Len(v) - Len(config.prefix)) <= config.max
    BY <1>5, TextAssumption
  <1>11. config.groups # <<>> =>
            FormattedLen(session', Len(v) - Len(config.prefix)) = FormattedLen(config, Len(v) - Len(config.prefix))
    BY <1>3 DEF FormattedLen, SeparatorCount, IsBoundary, Boundary, GroupLen
  <1>12. Fits(v)'
    BY <1>3, <1>6, <1>10, <1>11 DEF Fits
  <1>. QED
    BY <1>4, <1>7, <1>8, <1>9, <1>12 DEF TextInv

(* A session that goes on leaves what fits as it is. *)
LEMMA FitsStill == ASSUME session' = session, NEW v PROVE Fits(v)' <=> Fits(v)
  BY DEF Fits, FormattedLen, SeparatorCount, IsBoundary, Boundary, GroupLen

LEMMA AddKeeps ==
    ASSUME TextInv, NEW c \in Chars PROVE Add(c) \in Texts /\ Fits(Add(c).value)
  <1>1. text \in Texts /\ text.value \in Seq(Chars) /\ SessionShape /\ Fits(text.value)
    BY DEF TextInv, TextShape, Texts
  <1>2. CASE Len(text.value) < Capacity
    <2>1. PICK v : v = Append(text.value, c)
      OBVIOUS
    <2>2. v \in Seq(Chars) /\ Fits(v)
      BY <1>1, <1>2, <2>1, RoomForOne
    <2>3. Add(c) = [text EXCEPT !.value = v]
      BY <1>2, <2>1 DEF Add
    <2>4. Add(c) \in Texts /\ Add(c).value = v
      BY <1>1, <2>2, <2>3 DEF Texts
    <2>. QED
      BY <2>2, <2>4
  <1>3. CASE ~(Len(text.value) < Capacity)
    BY <1>1, <1>3 DEF Add
  <1>. QED
    BY <1>2, <1>3

LEMMA EditedKeeps ==
    ASSUME TextInv, NEW b \in TextButtons, b \notin {"cancel", "save", "scheme"}
    PROVE  Edited(b) \in Texts /\ Fits(Edited(b).value)
  <1>1. text \in Texts /\ text.value \in Seq(Chars) /\ SessionShape /\ Fits(text.value)
    BY DEF TextInv, TextShape, Texts
  <1>2. CASE b = "delete"
    <2>1. CASE Len(text.value) > Len(session.prefix)
      <3>1. PICK v : v = Front(text.value)
        OBVIOUS
      <3>2. v \in Seq(Chars) /\ Fits(v)
        <4>1. Len(session.prefix) \in Nat /\ Len(text.value) \in Nat
          BY <1>1, SessionFacts
        <4>2. Len(session.prefix) < Len(text.value)
          BY <2>1, <4>1
        <4>. QED
          BY <1>1, <3>1, <4>2, OneLess
      <3>3. Edited(b) = [text EXCEPT !.value = v]
        BY <1>2, <2>1, <3>1 DEF Edited
      <3>4. Edited(b) \in Texts /\ Edited(b).value = v
        BY <1>1, <3>2, <3>3 DEF Texts
      <3>. QED
        BY <3>2, <3>4
    <2>2. CASE ~(Len(text.value) > Len(session.prefix))
      BY <1>1, <1>2, <2>2 DEF Edited
    <2>. QED
      BY <2>1, <2>2
  <1>3. CASE b = "space"
    BY <1>3, AddKeeps, KeysAreChars DEF Edited
  <1>4. CASE b \in {"case", "symbol", "show"}
    <2>1. Edited(b).value = text.value
      BY <1>1, <1>4 DEF Edited, Texts
    <2>2. Edited(b) \in Texts
      BY <1>1, <1>4 DEF Edited, Texts, NextPage, PageKeys
    <2>. QED
      BY <1>1, <2>1, <2>2
  <1>5. CASE b \notin {"delete", "space", "case", "symbol", "show"}
    <2>1. b = KeyShown \/ b = SEPARATOR
      BY <1>5 DEF TextButtons
    <2>2. text.page \in DOMAIN PageKeys
      BY <1>1 DEF Texts
    <2>3. b \in Chars
      BY <2>1, <2>2, KeysAreChars DEF KeyShown
    <2>4. (IF session.upper THEN ToUpper(b) ELSE b) \in Chars
      BY <2>3, KeysAreChars DEF ToUpper
    <2>5. Edited(b) = Add(IF session.upper THEN ToUpper(b) ELSE b)
      BY <1>5 DEF Edited
    <2>. QED
      BY <2>4, <2>5, AddKeeps
  <1>. QED
    BY <1>2, <1>3, <1>4, <1>5

LEMMA SchemesAreTexts == \A i \in {1, 2} : Schemes[i] \in Seq(Chars)
  <1>1. Schemes[1] = <<"h">> /\ Schemes[2] = <<"h", "s">>
    BY DEF Schemes
  <1>2. \A x, y \in Chars : <<x>> \in Seq(Chars) /\ <<x, y>> \in Seq(Chars)
    OBVIOUS
  <1>. QED
    BY <1>1, <1>2, KeysAreChars

LEMMA SchemeKeeps ==
    ASSUME TextInv, session.mode = "url"
    PROVE  /\ NextScheme \in Texts /\ Fits(NextScheme.value)
           /\ IF NextScheme.step = 0 THEN NextScheme.value = kept ELSE NextScheme.restore = kept
  <1>1. /\ text \in Texts /\ text.value \in Seq(Chars) /\ text.restore \in Seq(Chars) /\ text.step \in 0..2
        /\ SessionShape /\ Fits(kept) /\ kept \in Seq(Chars)
    BY DEF TextInv, TextShape, Texts
  <1>2. session.groups = <<>> /\ session.max \in Nat
    BY <1>1 DEF SessionShape
  <1>3. \A i \in {1, 2} : Cut(Schemes[i]) \in Seq(Chars) /\ Fits(Cut(Schemes[i]))
    <2>. SUFFICES ASSUME NEW i \in {1, 2} PROVE Cut(Schemes[i]) \in Seq(Chars) /\ Fits(Cut(Schemes[i]))
      OBVIOUS
    <2>1. PICK q \in Seq(Chars) : q = Schemes[i]
      BY SchemesAreTexts
    <2>2. Cut(q) \in Seq(Chars) /\ Len(Cut(q)) <= session.max
      BY <1>2, CutShape DEF Cut
    <2>. QED
      BY <1>2, <2>1, <2>2 DEF Fits
  <1>4. PICK v : v = IF text.step < 2 THEN Cut(Schemes[text.step + 1]) ELSE text.restore
    OBVIOUS
  <1>5. PICK w : w = IF text.step = 0 THEN text.value ELSE text.restore
    OBVIOUS
  <1>6. NextScheme = [text EXCEPT !.restore = w, !.value = v, !.step = (text.step + 1) % 3]
    BY <1>4, <1>5, <1>1 DEF NextScheme, Texts
  <1>7. w = kept
    BY <1>5 DEF TextInv, SchemesReturn
  <1>8. v \in Seq(Chars) /\ Fits(v) /\ (text.step = 2 => v = kept)
    <2>1. CASE text.step < 2
      <3>1. text.step + 1 \in {1, 2}
        BY <1>1, <2>1
      <3>. QED
        BY <1>3, <1>4, <2>1, <3>1
    <2>2. CASE text.step = 2
      BY <1>1, <1>4, <2>2 DEF TextInv, SchemesReturn
    <2>. QED
      BY <1>1, <2>1, <2>2
  <1>9. PICK k \in 0..2 : k = (text.step + 1) % 3 /\ (k = 0 => text.step = 2)
    BY <1>1
  <1>10. NextScheme \in Texts /\ NextScheme.value = v /\ NextScheme.restore = w /\ NextScheme.step = k
    BY <1>1, <1>6, <1>7, <1>8, <1>9 DEF Texts
  <1>. QED
    BY <1>7, <1>8, <1>9, <1>10

(* A closed session is as at the start. *)
LEMMA CloseKeeps ==
    ASSUME session' = ClosedSession, text' = NoText, kept' = <<>>, touched' = NoKey
    PROVE  TextInv'
  <1>1. <<>> \in Seq(Chars) /\ <<>> \in Seq(Nat \ {0}) /\ Len(<<>>) = 0
    OBVIOUS
  <1>2. SessionShape'
    BY <1>1 DEF ClosedSession, SessionShape
  <1>3. TextShape' /\ text'.step = 0 /\ text'.value = kept' /\ kept' = <<>>
    BY <1>1 DEF NoText, NoKey, TextShape, Texts, PageKeys
  <1>4. Fits(<<>>)'
    BY <1>1 DEF ClosedSession, Fits
  <1>. QED
    BY <1>2, <1>3, <1>4 DEF TextInv, SchemesReturn, Fits

LEMMA TextActKeeps ==
    ASSUME TextInv, NEW b \in TextButtons, ActOnKey(b), touched' = NoKey
    PROVE  TextInv'
  <1>1. CASE b \in {"cancel", "save"}
    BY <1>1, CloseKeeps DEF ActOnKey
  <1>2. CASE b = "scheme"
    <2>1. /\ session' = session /\ text' = NextScheme /\ kept' = kept
      BY <1>2 DEF ActOnKey
    <2>2. session.mode = "url"
      <3>1. KeyShown # "scheme"
        BY DEF KeyShown, PageKeys, TextInv, TextShape, Texts
      <3>. QED
        BY <1>2, <3>1 DEF TextButtons, SEPARATOR
    <2>3. PICK t \in Texts : /\ t = NextScheme /\ Fits(t.value)
                             /\ IF t.step = 0 THEN t.value = kept ELSE t.restore = kept
      BY <2>2, SchemeKeeps
    <2>4. Fits(t.value)' /\ Fits(kept)'
      <3>1. PICK v, w : v = t.value /\ w = kept
        OBVIOUS
      <3>2. Fits(v) /\ Fits(w)
        BY <2>3, <3>1 DEF TextInv
      <3>3. Fits(v)' /\ Fits(w)'
        BY <2>1, <3>2, FitsStill
      <3>. QED
        BY <2>1, <3>1, <3>3 DEF Fits
    <2>5. SessionShape'
      BY <2>1 DEF TextInv, SessionShape
    <2>6. TextShape'
      BY <2>1, <2>3 DEF TextInv, TextShape, NoKey
    <2>7. SchemesReturn'
      BY <2>1, <2>2, <2>3 DEF SchemesReturn
    <2>. QED
      BY <2>1, <2>3, <2>4, <2>5, <2>6, <2>7 DEF TextInv, Fits
  <1>3. CASE b \notin {"cancel", "save", "scheme"}
    <2>1. session' = session /\ text' = SchemeForgotten(Edited(b)) /\ kept' = text'.value
      BY <1>3 DEF ActOnKey
    <2>2. PICK e \in Texts : e = Edited(b) /\ Fits(e.value)
      BY <1>3, EditedKeeps
    <2>3. <<>> \in Seq(Chars)
      OBVIOUS
    <2>4. PICK v \in Seq(Chars) : v = e.value /\ Fits(v)
      BY <2>2 DEF Texts
    <2>5. text' = [e EXCEPT !.step = 0, !.restore = <<>>]
      BY <2>1, <2>2 DEF SchemeForgotten
    <2>a. text'.step = 0 /\ text'.value = v
      BY <2>4, <2>5 DEF Texts
    <2>b. text' \in Texts
      <3>1. PICK w \in Seq(Chars) : w = <<>>
        BY <2>3
      <3>2. text' = [e EXCEPT !.step = 0, !.restore = w]
        BY <2>5, <3>1
      <3>3. e = [value |-> e.value, page |-> e.page, show |-> e.show, step |-> e.step, restore |-> e.restore]
        BY DEF Texts
      <3>4. text' = [value |-> e.value, page |-> e.page, show |-> e.show, step |-> 0, restore |-> w]
        BY <3>2, <3>3
      <3>5. e.value \in Seq(Chars) /\ e.page \in DOMAIN PageKeys /\ e.show \in BOOLEAN /\ 0 \in 0..2
        BY DEF Texts
      <3>. QED
        BY <3>1, <3>4, <3>5 DEF Texts
    <2>6. text' \in Texts /\ text'.step = 0 /\ text'.value = v /\ kept' = v
      BY <2>1, <2>a, <2>b
    <2>7. Fits(v)'
      BY <2>1, <2>4, FitsStill
    <2>8. SessionShape'
      BY <2>1 DEF TextInv, SessionShape
    <2>9. TextShape' /\ SchemesReturn'
      BY <2>4, <2>6 DEF TextShape, SchemesReturn, NoKey
    <2>. QED
      BY <2>6, <2>7, <2>8, <2>9 DEF TextInv, Fits
  <1>. QED
    BY <1>1, <1>2, <1>3

LEMMA TextTouchKeeps ==
    ASSUME TextInv, UNCHANGED <<session, text, kept>>,
           touched' = [pending |-> touched'.pending, long |-> touched'.long], touched'.long \in BOOLEAN
    PROVE  TextInv'
  BY DEF TextInv, SessionShape, TextShape, SchemesReturn, Fits, FormattedLen, SeparatorCount, IsBoundary, Boundary, GroupLen

LEMMA TextKeeps == TextInv /\ [TextNext]_textVars => TextInv'
  <1>. SUFFICES ASSUME TextInv, [TextNext]_textVars PROVE TextInv'
    OBVIOUS
  <1>1. CASE \E config \in Sessions : BeginSession(config)
    BY <1>1, BeginKeeps
  <1>2. ASSUME NEW b \in TextButtons \cup {"none"}, PressKey(b) PROVE TextInv'
    BY <1>2, TextTouchKeeps DEF PressKey
  <1>3. ASSUME NEW b \in TextButtons \cup {"none"}, ReleaseKey(b) PROVE TextInv'
    <2>1. CASE b # "none" /\ b = touched.pending /\ ~touched.long
      BY <1>3, <2>1, TextActKeeps DEF ReleaseKey
    <2>2. CASE ~(b # "none" /\ b = touched.pending /\ ~touched.long)
      BY <1>3, <2>2, TextTouchKeeps DEF ReleaseKey, NoKey
    <2>. QED
      BY <2>1, <2>2
  <1>4. CASE HoldKey
    <2>1. touched' = [touched EXCEPT !.long = touched.pending # "none"] /\ UNCHANGED <<session, text, kept>>
      BY <1>4 DEF HoldKey
    <2>2. touched = [pending |-> touched.pending, long |-> touched.long]
      BY DEF TextInv, TextShape
    <2>3. touched' = [pending |-> touched.pending, long |-> touched.pending # "none"]
      BY <2>1, <2>2
    <2>. QED
      BY <2>1, <2>3, TextTouchKeeps
  <1>5. CASE UNCHANGED textVars
    BY <1>5, TextTouchKeeps DEF textVars, TextInv, TextShape
  <1>. QED
    BY <1>1, <1>2, <1>3, <1>4, <1>5 DEF TextNext

-----------------------------------------------------------------------------
(* What is shown. *)
LEMMA GroupedSpells == ASSUME NEW entry \in Seq(Chars) PROVE Spells(Grouped(entry), entry)
  <1>1. PICK g : g = Grouped(entry)
    OBVIOUS
  <1>2. PICK n \in Nat : n = Len(entry) /\ DOMAIN entry = 1..n
    OBVIOUS
  <1>3. /\ DOMAIN g = 1..Place(n)
        /\ \A i \in 1..n : Place(i) \in 1..Place(n) /\ g[Place(i)] = entry[i]
        /\ \A p \in 1..Place(n) : g[p] = SEPARATOR \/ \E i \in 1..n : Place(i) = p
    BY <1>1, <1>2, GroupedForm
  <1>4. \A i, j \in 1..n : i < j => Place(i) < Place(j)
    BY PlacesInOrder
  <1>5. PICK spot : spot = [i \in 1..n |-> Place(i)]
    OBVIOUS
  <1>6. spot \in [1..n -> DOMAIN g] /\ \A i \in 1..n : spot[i] = Place(i)
    BY <1>3, <1>5
  <1>7. /\ spot \in [DOMAIN entry -> DOMAIN g]
        /\ \A i, j \in DOMAIN entry : i < j => spot[i] < spot[j]
        /\ \A i \in DOMAIN entry : g[spot[i]] = entry[i]
        /\ \A p \in DOMAIN g : g[p] = SEPARATOR \/ \E i \in DOMAIN entry : spot[i] = p
    BY <1>2, <1>3, <1>4, <1>6
  <1>. QED
    BY <1>1, <1>7 DEF Spells

LEMMA SpellsMore ==
    ASSUME NEW S, NEW form \in Seq(S), NEW entry, Spells(form, entry), SEPARATOR \in S
    PROVE  Spells(Append(form, SEPARATOR), entry)
  <1>1. PICK more : more = Append(form, SEPARATOR)
    OBVIOUS
  <1>2. PICK n \in Nat : n = Len(form) /\ DOMAIN form = 1..n
    OBVIOUS
  <1>3. DOMAIN more = 1..(n + 1) /\ (\A p \in 1..n : more[p] = form[p]) /\ more[n + 1] = SEPARATOR
    BY <1>1, <1>2
  <1>4. PICK spot \in [DOMAIN entry -> DOMAIN form] :
            /\ \A i, j \in DOMAIN entry : i < j => spot[i] < spot[j]
            /\ \A i \in DOMAIN entry : form[spot[i]] = entry[i]
            /\ \A p \in DOMAIN form : form[p] = SEPARATOR \/ \E i \in DOMAIN entry : spot[i] = p
    BY DEF Spells
  <1>5. spot \in [DOMAIN entry -> DOMAIN more]
    BY <1>2, <1>3, <1>4
  <1>6. \A i \in DOMAIN entry : more[spot[i]] = entry[i]
    BY <1>2, <1>3, <1>4
  <1>7. \A p \in DOMAIN more : more[p] = SEPARATOR \/ \E i \in DOMAIN entry : spot[i] = p
    <2>1. \A p \in DOMAIN more : p \in 1..n \/ p = n + 1
      BY <1>3
    <2>. QED
      BY <1>2, <1>3, <1>4, <2>1
  <1>. QED
    BY <1>1, <1>4, <1>5, <1>6, <1>7 DEF Spells

LEMMA FrontOfAppend ==
    ASSUME NEW S, NEW s \in Seq(S), NEW e \in S
    PROVE  Front(Append(s, e)) = s /\ Last(Append(s, e)) = e /\ Append(s, e) # <<>>
  <1>0. Append(s, e) \in Seq(S) /\ Len(Append(s, e)) = Len(s) + 1 /\ Append(s, e)[Len(s) + 1] = e
    OBVIOUS
  <1>1. PICK t \in Seq(S) : t = Append(s, e) /\ Len(t) = Len(s) + 1 /\ t[Len(s) + 1] = e
    BY <1>0
  <1>2. PICK n \in Nat : n = Len(s) /\ Len(t) - 1 = n
    BY <1>1
  <1>3. \A i \in 1..n : t[i] = s[i] /\ t[i] \in S
    BY <1>1, <1>2
  <1>4. PICK f : f = SubSeq(t, 1, n)
    OBVIOUS
  <1>5. f \in Seq(S) /\ Len(f) = n /\ \A i \in 1..n : f[i] = t[i]
    BY <1>2, <1>3, <1>4, SubSeqProperties
  <1>6. f = s
    BY <1>2, <1>3, <1>5
  <1>7. Front(t) = f /\ Last(t) = e
    BY <1>1, <1>2, <1>4 DEF Front, Last
  <1>. QED
    BY <1>1, <1>6, <1>7

(* The entry ungrouped, or grouped within its limit with what follows it *)
LEMMA FormIsWithin ==
    ASSUME TextInv
    PROVE  /\ Len(Formatted(text.value)) <= session.max
           /\ \/ Formatted(text.value) = Grouped(text.value)
              \/ session.groups # <<>> /\ Formatted(text.value) = Append(Grouped(text.value), SEPARATOR)
  <1>1. PICK entry \in Seq(Chars) : entry = text.value /\ Fits(entry)
    BY DEF TextInv, TextShape, Texts
  <1>2. PICK n \in Nat : n = Len(entry)
    OBVIOUS
  <1>3. /\ session.prefix \in Seq(Chars) /\ Len(session.prefix) \in Nat /\ session.max \in Nat
    BY SessionFacts DEF TextInv
  <1>4. PICK P \in Nat : P = Len(session.prefix)
    BY <1>3
  <1>5. PICK g \in Seq(Chars \cup {SEPARATOR}) : g = Grouped(entry) /\ Len(g) = Place(n)
    BY <1>2, GroupedForm
  <1>6. CASE session.groups = <<>>
    <2>1. Begun(n) = {}
      BY <1>6 DEF Begun, BeginsGroup, IsBoundary
    <2>a. Cardinality(Begun(n)) = 0
      BY <2>1, FS_EmptySet
    <2>2. Place(n) = n
      BY <2>a, PlaceCounts
    <2>3. Formatted(entry) = g
      BY <1>5, <1>6 DEF Formatted, IsBoundary
    <2>4. n <= session.max
      BY <1>1, <1>2, <1>6 DEF Fits
    <2>. QED
      BY <1>1, <1>5, <2>2, <2>3, <2>4
  <1>7. CASE session.groups # <<>>
    <2>1. P <= n /\ FormattedLen(session, n - P) <= session.max
      BY <1>1, <1>2, <1>4, <1>7 DEF Fits
    <2>2. PICK k \in Nat : k = n - P
      BY <2>1
    <2>b. Typed(entry) = IF n > P THEN n - P ELSE 0
      BY <1>2, <1>4 DEF Typed
    <2>3. Typed(entry) = k
      BY <2>1, <2>2, <2>b
    <2>4. Place(n) = FormattedLen(session, k)
      BY <1>3, <1>4, <2>1, <2>2, LengthsAgree
    <2>5. Place(n) <= session.max
      BY <2>1, <2>2, <2>4
    <2>6. CASE k > 0 /\ IsBoundary(session, k) /\ FormattedLen(session, k + 1) <= session.max
      <3>1. Formatted(entry) = Append(g, SEPARATOR)
        BY <1>5, <2>3, <2>6 DEF Formatted
      <3>2. Len(Append(g, SEPARATOR)) = Place(n) + 1 /\ Place(n) \in Nat
        BY <1>5, PlaceCounts
      <3>3. /\ SeparatorCount(session, k) \in Nat /\ SeparatorCount(session, k + 1) \in Nat
            /\ SeparatorCount(session, k) <= SeparatorCount(session, k + 1)
        BY SeparatorsCounted, SeparatorsGrow
      <3>4. Place(n) = P + k + SeparatorCount(session, k)
        BY <1>4, <2>4 DEF FormattedLen
      <3>5. P + (k + 1) + SeparatorCount(session, k + 1) <= session.max
        BY <1>4, <2>6 DEF FormattedLen
      <3>6. Place(n) + 1 <= session.max
        BY <1>3, <3>3, <3>4, <3>5
      <3>. QED
        BY <1>1, <1>5, <1>7, <3>1, <3>2, <3>6
    <2>7. CASE ~(k > 0 /\ IsBoundary(session, k) /\ FormattedLen(session, k + 1) <= session.max)
      <3>1. Formatted(entry) = g
        BY <1>5, <2>3, <2>7 DEF Formatted
      <3>. QED
        BY <1>1, <1>5, <2>5, <3>1
    <2>. QED
      BY <2>6, <2>7
  <1>. QED
    BY <1>6, <1>7

LEMMA TextFollows == TextInv => TextTypeOK /\ TextIsKept
  <1>. SUFFICES ASSUME TextInv PROVE TextTypeOK /\ TextIsKept
    OBVIOUS
  <1>1. PICK entry \in Seq(Chars) : entry = text.value
    BY DEF TextInv, TextShape, Texts
  <1>2. PICK g \in Seq(Chars \cup {SEPARATOR}) :
            /\ g = Grouped(entry) /\ Len(g) = Place(Len(entry))
            /\ \A i \in 1..Len(entry) : Place(i) \in 1..Len(g) /\ g[Place(i)] = entry[i]
    BY GroupedForm
  <1>3. PICK form : form = Formatted(entry)
    OBVIOUS
  <1>4. /\ Len(form) <= session.max
        /\ form = g \/ (session.groups # <<>> /\ form = Append(g, SEPARATOR))
    BY <1>1, <1>2, <1>3, FormIsWithin
  <1>5. Spells(g, entry) /\ Spells(Append(g, SEPARATOR), entry)
    BY <1>2, GroupedSpells, SpellsMore
  <1>6. Spells(form, entry)
    BY <1>4, <1>5
  <1>7. PICK n \in Nat : n = Len(entry)
    OBVIOUS
  <1>8. n <= Place(n) /\ Place(n) \in Nat /\ (n = 0 => Place(n) = 0)
    <2>1. Begun(0) = {}
      BY DEF Begun
    <2>2. Cardinality(Begun(0)) = 0
      BY <2>1, FS_EmptySet
    <2>3. Place(0) = 0 + Cardinality(Begun(0))
      BY PlaceCounts
    <2>4. Place(n) = n + Cardinality(Begun(n)) /\ Cardinality(Begun(n)) \in Nat
      BY PlaceCounts
    <2>. QED
      BY <2>2, <2>3, <2>4
  <1>9. ASSUME ~(entry # <<>> /\ Last(entry) = SEPARATOR) PROVE Spells(Saved(entry), entry)
    <2>1. CASE form = Append(g, SEPARATOR)
      <3>1. Front(form) = g
        BY <2>1, FrontOfAppend
      <3>. QED
        BY <1>3, <1>5, <1>6, <3>1 DEF Saved
    <2>2. CASE form = g /\ n = 0
      <3>1. form = <<>>
        BY <1>2, <1>7, <1>8, <2>2
      <3>. QED
        BY <1>3, <1>6, <3>1 DEF Saved
    <2>3. CASE form = g /\ n > 0
      <3>1. n \in 1..Len(entry) /\ Place(n) = Len(g)
        BY <1>2, <1>7, <2>3
      <3>2. Last(g) = entry[n] /\ Last(entry) = entry[n] /\ entry # <<>>
        BY <1>2, <1>7, <3>1 DEF Last
      <3>3. Last(form) # SEPARATOR
        BY <1>9, <2>3, <3>2
      <3>. QED
        BY <1>3, <1>6, <3>3 DEF Saved
    <2>. QED
      BY <1>4, <1>7, <2>1, <2>2, <2>3
  <1>10. text.step = 0 => text.value = kept
    BY DEF TextInv, SchemesReturn
  <1>11. TextIsKept
    BY <1>1, <1>3, <1>4, <1>6, <1>9, <1>10 DEF TextIsKept
  <1>12. Len(entry) <= session.max
    <2>1. Len(g) <= Len(form) /\ Len(form) \in Nat
      <3>1. Len(Append(g, SEPARATOR)) = Len(g) + 1 /\ Len(g) \in Nat
        BY <1>2
      <3>. QED
        BY <1>4, <3>1
    <2>2. session.max \in Nat
      BY SessionFacts DEF TextInv
    <2>. QED
      BY <1>2, <1>4, <1>7, <1>8, <2>1, <2>2
  <1>13. TextTypeOK
    BY <1>1, <1>12 DEF TextInv, SessionShape, TextShape, Texts, TextTypeOK
  <1>. QED
    BY <1>11, <1>13

-----------------------------------------------------------------------------
(* The parts together: a step of one of them is a step of each, or leaves it alone. *)
LEMMA EachPartRuns ==
    Spec => /\ SpeakerInit /\ [][SpeakerNext]_speakerVars
            /\ LedInit /\ [][LedNext]_ledVars
            /\ DisplayInit /\ [][DisplayNext]_displayVars
            /\ TextInit /\ [][TextNext]_textVars
            /\ BootInit /\ [][BootNext]_bootVars
            /\ StoredInit /\ [][StoredNext]_storedVars
            /\ ScreensInit /\ [][ScreensNext]_screenVars
            /\ SetupInit /\ [][SetupNext]_setupVars
            /\ ClockInit /\ [][ClockNext]_clockVars
  <1>1. Init => /\ SpeakerInit /\ LedInit /\ DisplayInit /\ TextInit /\ BootInit /\ StoredInit
                /\ ScreensInit /\ SetupInit /\ ClockInit
    BY DEF Init
  <1>2. ASSUME [Next]_partVars
        PROVE  /\ [SpeakerNext]_speakerVars /\ [LedNext]_ledVars /\ [DisplayNext]_displayVars
               /\ [TextNext]_textVars /\ [BootNext]_bootVars /\ [StoredNext]_storedVars
               /\ [ScreensNext]_screenVars /\ [SetupNext]_setupVars /\ [ClockNext]_clockVars
    BY <1>2 DEF Next, partVars, RunSpeaker, RunLed, RunDisplay, RunText, RunBoot, RunStored, RunScreens,
                RunSetup, RunClock
  <1>. QED
    BY <1>1, <1>2, PTL DEF Spec

(* The panel ends with the newest screen: however screens and lines of the log are queued, dropped *)
(* and announced, a display at rest has drawn the newest screen, and each strip of the panel shows *)
(* what it would show had the screen been drawn as a whole, for all screens, queues and strips     *)
(* (cyd_display.cpp:441-500, 897-930, cyd_display_render.hpp:744-858).                             *)
THEOREM ThePanelShowsTheNewest == DisplayInit /\ [][DisplayNext]_displayVars => []PanelShowsNewest
  <1>1. DisplayInv => PanelShowsNewest
    BY DisplayAtRest
  <1>. QED
    BY <1>1, DisplayStarts, DisplayKeeps, PTL

(* What is in use outside the settings is what the next start reads, and a tap on a stepper is       *)
(* undone by the other: for every setting, number of zones and longest idle time, whichever task     *)
(* reads flash first (system_settings_app.c:488-519, radio_manager.c:173-181, app_shell.c:209-215).  *)
THEOREM SettingsAreSaved == StoredInit /\ [][StoredNext]_storedVars => [](SavedOnLeaving /\ StepsAreUndone)
  <1>1. StoredInv => SavedOnLeaving /\ StepsAreUndone
    BY StoredKeepsItsWord
  <1>. QED
    BY <1>1, StoredStarts, StoredKeeps, PTL

(* The settings delete and prefer the network whose name is on the screen, and reach nothing that     *)
(* the product hides, whatever it hides and however the manager changes the profiles meanwhile        *)
(* (system_settings_app.c:896-1061, system_settings_fix.c:36-90).                                    *)
THEOREM TheShownIsDeleted ==
    ScreensInit /\ [][ScreensNext]_screenVars => [](DeletesTheShown /\ HiddenStaysHidden)
  <1>1. ScreensInv => DeletesTheShown /\ HiddenStaysHidden
    BY ScreensKeepTheirWord
  <1>. QED
    BY <1>1, ScreensStart, ScreensKeep, PTL

(* Whatever is typed, deleted and saved, the text fits with its separators and nothing of it is lost *)
(* (cyd_text_input.c:108-195, 345-405).                                                              *)
THEOREM TheTextIsKept == TextInit /\ [][TextNext]_textVars => []TextIsKept
  <1>1. TextInit => TextInv
    BY TextStarts
  <1>2. TextInv /\ [TextNext]_textVars => TextInv'
    BY TextKeeps
  <1>3. TextInv => TextIsKept
    BY TextFollows
  <1>. QED
    BY <1>1, <1>2, <1>3, PTL

(* The speaker and the LED follow what was asked for last, whatever part of the two runs             *)
(* (cyd_speaker.c:111-129, cyd_status_led.c:215-283).                                                *)
THEOREM TheOutputsFollow == Spec => []OutputsFollow
  <1>1. [](NewestIsServed /\ ToneEndsWithSound) /\ []LedShowsResult => []OutputsFollow
    <2>1. NewestIsServed /\ ToneEndsWithSound /\ LedShowsResult => OutputsFollow
      BY DEF OutputsFollow
    <2>. QED
      BY <2>1, PTL
  <1>. QED
    BY <1>1, EachPartRuns, TheNewestIsServed, TheLedShowsTheResult, PTL

(* The settings save what was set, step back what they stepped, delete what was shown and act on     *)
(* nothing hidden (system_settings_app.c:488-546, 792-840, 982-1061, system_settings_fix.c:36-90).   *)
THEOREM TheSettingsKeepTheirWord == Spec => []SettingsKeepTheirWord
  <1>1. [](SavedOnLeaving /\ StepsAreUndone) /\ [](DeletesTheShown /\ HiddenStaysHidden)
          => []SettingsKeepTheirWord
    <2>1. SavedOnLeaving /\ StepsAreUndone /\ DeletesTheShown /\ HiddenStaysHidden => SettingsKeepTheirWord
      BY DEF SettingsKeepTheirWord
    <2>. QED
      BY <2>1, PTL
  <1>. QED
    BY <1>1, EachPartRuns, SettingsAreSaved, TheShownIsDeleted, PTL

-----------------------------------------------------------------------------
(* The values of the variables: the clock's. *)
PageNamesOfClock == {"back", "prev", "next", "up", "down", "pin", "none"}
Aims ==
    [face : FaceButtons \cup {"none"}, failed : FailedButtons \cup {"none"}, page : PageNamesOfClock, tap : BOOLEAN]
ClockTypes ==
    /\ face \in BOOLEAN /\ pressed \in BOOLEAN /\ ticked \in BOOLEAN /\ changed \in BOOLEAN /\ guarded \in BOOLEAN
    /\ alarms \in [Alarms -> [on : BOOLEAN, time : 0 .. Times - 1]]
    /\ aimed \in Aims
    /\ page \in 1 .. 4

LEMMA ClockTypesStart == ClockInit => ClockTypes
  <1>. SUFFICES ASSUME ClockInit PROVE ClockTypes
    OBVIOUS
  <1>1. [on |-> FALSE, time |-> 0] \in [on : BOOLEAN, time : 0 .. Times - 1]
    BY ClockAssumption
  <1>2. alarms \in [Alarms -> [on : BOOLEAN, time : 0 .. Times - 1]]
    BY <1>1 DEF ClockInit
  <1>3. aimed \in Aims
    BY DEF ClockInit, NoAim, Aims, PageNamesOfClock
  <1>4. face = TRUE /\ pressed \in BOOLEAN /\ ticked = FALSE /\ changed = FALSE /\ guarded \in BOOLEAN /\ page = 1
    BY DEF ClockInit
  <1>5. page \in 1..4
    BY <1>4
  <1>6. face \in BOOLEAN /\ ticked \in BOOLEAN /\ changed \in BOOLEAN
    BY <1>4, Zenon
  <1>. QED
    BY <1>2, <1>3, <1>4, <1>5, <1>6 DEF ClockTypes

LEMMA AlarmsCycle ==
    ASSUME ClockTypes, CycleAlarms PROVE alarms' \in [Alarms -> [on : BOOLEAN, time : 0 .. Times - 1]]
  <1>1. PICK m : m = NextMode(alarms)
    OBVIOUS
  <1>2. m[1] \in BOOLEAN /\ m[2] \in BOOLEAN
    BY <1>1 DEF NextMode
  <1>3. \A a \in Alarms : m[a] \in BOOLEAN /\ [alarms[a] EXCEPT !.on = m[a]] \in [on : BOOLEAN, time : 0 .. Times - 1]
    BY <1>2 DEF Alarms, ClockTypes
  <1>4. CASE alarms' = [a \in Alarms |-> [alarms[a] EXCEPT !.on = m[a]]]
    BY <1>3, <1>4
  <1>5. CASE alarms' = [alarms EXCEPT ![1].on = m[1]]
    BY <1>2, <1>5 DEF ClockTypes, Alarms
  <1>. QED
    BY <1>1, <1>4, <1>5 DEF CycleAlarms

LEMMA AlarmSteps ==
    ASSUME ClockTypes, NEW b, StepAlarm(b)
    PROVE  /\ alarms' \in [Alarms -> [on : BOOLEAN, time : 0 .. Times - 1]] /\ page' \in 1..4 /\ changed' \in BOOLEAN
           /\ guarded' = guarded
  <1>1. \A t \in 0 .. Times - 1 : Stepped(t, b) \in 0 .. Times - 1
    BY ClockAssumption DEF Stepped
  <1>2. alarms' = [alarms EXCEPT ![page] = [alarms[page] EXCEPT !.time = Stepped(alarms[page].time, b)]]
    BY DEF StepAlarm
  <1>3. CASE page \in Alarms
    <2>1. alarms[page] \in [on : BOOLEAN, time : 0 .. Times - 1]
      BY <1>3 DEF ClockTypes
    <2>2. Stepped(alarms[page].time, b) \in 0 .. Times - 1
      BY <1>1, <2>1
    <2>3. [alarms[page] EXCEPT !.time = Stepped(alarms[page].time, b)] \in [on : BOOLEAN, time : 0 .. Times - 1]
      BY <2>1, <2>2
    <2>. QED
      BY <1>2, <2>3 DEF ClockTypes, StepAlarm, ShowPage
  <1>4. CASE page \notin Alarms
    BY <1>2, <1>4 DEF ClockTypes, StepAlarm, ShowPage
  <1>. QED
    BY <1>3, <1>4

LEMMA ClockTypesKeep == ClockTypes /\ [ClockNext]_clockVars => ClockTypes'
  <1>. SUFFICES ASSUME ClockTypes, [ClockNext]_clockVars PROVE ClockTypes'
    OBVIOUS
  <1>. DEFINE AlarmSets == [Alarms -> [on : BOOLEAN, time : 0 .. Times - 1]]
  <1>0. /\ face \in BOOLEAN /\ pressed \in BOOLEAN /\ ticked \in BOOLEAN /\ changed \in BOOLEAN
        /\ guarded \in BOOLEAN /\ alarms \in AlarmSets /\ aimed \in Aims /\ page \in 1 .. 4
    BY DEF ClockTypes
  <1>a. \A f \in FaceButtons \cup {"none"}, t \in BOOLEAN : [aimed EXCEPT !.face = f, !.tap = t] \in Aims
    BY <1>0 DEF Aims
  <1>b. \A f \in FailedButtons \cup {"none"}, t \in BOOLEAN : [aimed EXCEPT !.failed = f, !.tap = t] \in Aims
    BY <1>0 DEF Aims
  <1>c. \A f \in PageNamesOfClock : [aimed EXCEPT !.page = f] \in Aims
    BY <1>0 DEF Aims
  <1>d. [aimed EXCEPT !.face = "none"] \in Aims /\ [aimed EXCEPT !.failed = "none"] \in Aims
    BY <1>0 DEF Aims
  <1>e. aimed.tap \in BOOLEAN
    BY <1>0 DEF Aims
  <1>f. \A b : b \in PageButtons(page) \cup {"none"} => b \in PageNamesOfClock
    BY DEF PageButtons, PageNamesOfClock, Arrows
  <1>. SUFFICES /\ face' \in BOOLEAN /\ pressed' \in BOOLEAN /\ ticked' \in BOOLEAN /\ changed' \in BOOLEAN
                /\ guarded' \in BOOLEAN /\ alarms' \in AlarmSets /\ aimed' \in Aims /\ page' \in 1 .. 4
    BY DEF ClockTypes
  <1>1. CASE Tick
    BY <1>0, <1>1 DEF Tick
  <1>2. CASE AlarmGoesOff
    <2>1. alarms' \in AlarmSets
      BY <1>0, <1>2 DEF AlarmGoesOff, Alarms
    <2>. QED
      BY <1>0, <1>2, <2>1 DEF AlarmGoesOff
  <1>3. ASSUME NEW b \in FaceButtons \cup {"time", "none"}, PressFace(b) PROVE ClockTypes'
    <2>1. Follow(b) \in FaceButtons \cup {"none"}
      BY DEF Follow, FaceButtons, FailedButtons
    <2>. QED
      BY <1>0, <1>3, <1>a, <2>1 DEF PressFace, ClockTypes
  <1>4. ASSUME NEW b \in FaceButtons \cup {"time", "none"}, ReleaseFace(b) PROVE ClockTypes'
    <2>1. alarms' \in AlarmSets
      BY <1>0, <1>4, AlarmsCycle DEF ReleaseFace
    <2>a. aimed' \in {[aimed EXCEPT !.face = "none"], [aimed EXCEPT !.face = "none", !.tap = FALSE]}
      BY <1>4 DEF ReleaseFace
    <2>2. aimed' \in Aims
      BY <1>a, <1>d, <2>a
    <2>3. face' \in BOOLEAN
      BY <1>0, <1>4 DEF ReleaseFace
    <2>. QED
      BY <1>0, <1>4, <2>1, <2>2, <2>3 DEF ReleaseFace, ClockTypes
  <1>5. CASE HoldFace
    BY <1>0, <1>5, <1>a DEF HoldFace
  <1>6. CASE TakeTicks \/ LookForSetup \/ LookForFailure \/ LeaveFace \/ EnterClock \/ Draw
    BY <1>0, <1>6 DEF TakeTicks, LookForSetup, LookForFailure, LeaveFace, EnterClock, Draw
  <1>7. CASE ShowFailed \/ FailedGivesUp \/ Retrying
    BY <1>0, <1>7, <1>d DEF ShowFailed, FailedGivesUp, Retrying
  <1>8. ASSUME NEW b, RetryTouch(b) PROVE ClockTypes'
    <2>1. aimed' \in Aims
      BY <1>0, <1>8 DEF RetryTouch, Aims
    <2>. QED
      BY <1>0, <1>8, <2>1 DEF RetryTouch, ClockTypes
  <1>9. ASSUME NEW b \in FailedButtons \cup {"time", "none"}, PressFailed(b) PROVE ClockTypes'
    <2>1. Follow(b) \in FailedButtons \cup {"none"}
      BY DEF Follow, FaceButtons, FailedButtons
    <2>. QED
      BY <1>0, <1>9, <1>b, <2>1 DEF PressFailed, ClockTypes
  <1>10. ASSUME NEW b, ReleaseFailed(b) PROVE ClockTypes'
    <2>1. aimed' \in Aims
      BY <1>0, <1>10, <1>e DEF ReleaseFailed, Aims
    <2>. QED
      BY <1>0, <1>10, <2>1 DEF ReleaseFailed, ClockTypes
  <1>11. CASE EnterPages
    <2>1. aimed' = [aimed EXCEPT !.page = "none"] /\ page' = 1 /\ changed' = FALSE /\ pressed' \in BOOLEAN
          /\ UNCHANGED <<face, alarms, guarded, ticked>>
      BY <1>11 DEF EnterPages, ShowPage
    <2>2. aimed' \in Aims
      BY <1>c, <2>1 DEF PageNamesOfClock
    <2>3. page' \in 1..4
      BY <2>1
    <2>4. changed' \in BOOLEAN
      BY <2>1, Zenon
    <2>. QED
      BY <1>0, <2>1, <2>2, <2>3, <2>4
  <1>12. ASSUME NEW b \in PageButtons(page) \cup {"none"}, PressPage(b) \/ HoldPage(b) PROVE ClockTypes'
    <2>1. CASE b \in Arrows
      <3>1. StepAlarm(b)
        BY <1>12, <2>1 DEF PressPage, HoldPage
      <3>. QED
        BY <1>0, <1>12, <2>1, <3>1, AlarmSteps DEF PressPage, HoldPage, ClockTypes
    <2>2. CASE b \notin Arrows
      BY <1>0, <1>12, <1>c, <1>f, <2>2 DEF PressPage, HoldPage, ClockTypes, PageNamesOfClock
    <2>. QED
      BY <2>1, <2>2
  <1>13. ASSUME NEW b, ReleasePage(b) PROVE ClockTypes'
    <2>1. alarms' = alarms /\ guarded' \in BOOLEAN /\ page' \in 1..4 /\ changed' \in BOOLEAN
      <3>1. CASE UNCHANGED <<clock, alarms, glass, page, guarded, changed>>
        BY <1>0, <3>1
      <3>2. CASE PageButton(b)
        <4>1. CASE b = "prev" /\ page > 1
          <5>1. TurnTo(page - 1)
            BY <3>2, <4>1 DEF PageButton
          <5>. QED
            <6>1. page' = page - 1 /\ changed' = FALSE /\ alarms' = alarms /\ guarded' = guarded
              BY <5>1 DEF TurnTo, ShowPage
            <6>2. page' \in 1..4
              BY <1>0, <4>1, <6>1
            <6>3. changed' \in BOOLEAN
              BY <6>1, Zenon
            <6>. QED
              BY <1>0, <6>1, <6>2, <6>3
        <4>2. CASE b = "next" /\ page < 4
          <5>1. TurnTo(page + 1)
            BY <3>2, <4>2 DEF PageButton
          <5>. QED
            <6>1. page' = page + 1 /\ changed' = FALSE /\ alarms' = alarms /\ guarded' = guarded
              BY <5>1 DEF TurnTo, ShowPage
            <6>2. page' \in 1..4
              BY <1>0, <4>2, <6>1
            <6>3. changed' \in BOOLEAN
              BY <6>1, Zenon
            <6>. QED
              BY <1>0, <6>1, <6>2, <6>3
        <4>3. CASE b = "pin"
          BY <1>0, <3>2, <4>3 DEF PageButton, ChoosePin, ShowPage
        <4>4. CASE b = "back"
          BY <1>0, <3>2, <4>4 DEF PageButton
        <4>5. CASE ~(b = "prev" /\ page > 1) /\ ~(b = "next" /\ page < 4) /\ b \notin {"pin", "back"}
          BY <1>0, <3>2, <4>5 DEF PageButton
        <4>. QED
          BY <4>1, <4>2, <4>3, <4>4, <4>5
      <3>. QED
        BY <1>13, <3>1, <3>2 DEF ReleasePage
    <2>2. aimed' \in Aims
      BY <1>13, <1>c DEF ReleasePage, PageNamesOfClock
    <2>. QED
      BY <1>0, <1>13, <2>1, <2>2 DEF ReleasePage, ClockTypes
  <1>14. CASE UNCHANGED clockVars
    BY <1>0, <1>14 DEF clockVars
  <1>. QED
    BY <1>1, <1>2, <1>3, <1>4, <1>5, <1>6, <1>7, <1>8, <1>9, <1>10, <1>11, <1>12, <1>13, <1>14 DEF ClockNext, ClockTypes

LEMMA ClockTyped == ClockInv /\ ClockTypes => ClockTypeOK
  BY DEF ClockInv, ClockShape, ClockPlaces, ClockTypes, ClockTypeOK, Aims

-----------------------------------------------------------------------------
(* The speaker's queue is never longer than it was made. *)
QueueFits == Len(speakerQueue) <= SpeakerQueue

LEMMA CommandsStart == SpeakerInit => QueueFits
  BY SpeakerAssumption DEF SpeakerInit, QueueFits

LEMMA CommandsFit == SpeakerInv /\ QueueFits /\ [SpeakerNext]_speakerVars => QueueFits'
  <1>. SUFFICES ASSUME SpeakerInv, Len(speakerQueue) <= SpeakerQueue, [SpeakerNext]_speakerVars
                PROVE  Len(speakerQueue') <= SpeakerQueue
    BY DEF QueueFits
  <1>0. speakerQueue \in Seq(Commands) /\ Len(speakerQueue) \in Nat /\ SpeakerQueue \in Nat /\ SpeakerQueue > 0
        /\ speaker.hand \in Commands
    BY SpeakerAssumption DEF SpeakerInv, SpeakerShape
  <1>1. ASSUME NEW sound, SpeakerSend(sound) PROVE Len(speakerQueue') <= SpeakerQueue
    BY <1>0, <1>1 DEF SpeakerSend
  <1>2. CASE speakerQueue' = speakerQueue
    BY <1>2
  <1>3. CASE speakerQueue # <<>> /\ speakerQueue' = Tail(speakerQueue)
    BY <1>0, <1>3
  <1>4. CASE speakerQueue' = <<>>
    BY <1>0, <1>4
  <1>5. CASE Requeue
    <2>1. <<speaker.hand>> \in Seq(Commands) /\ Len(<<speaker.hand>>) = 1
      BY <1>0
    <2>2. Len(PutBack(speaker.hand)) = 1 + Len(speakerQueue)
      BY <1>0, <2>1, ConcatProperties DEF PutBack
    <2>. QED
      BY <1>0, <1>5, <2>2 DEF Requeue
  <1>6. CASE SpeakerTask
    BY <1>2, <1>3, <1>5, <1>6 DEF SpeakerTask, ReceiveCommand, NextNote, WaitOver, Interrupt
  <1>7. ASSUME NEW c \in Callers, PlaySequence(c) \/ StopReset(c) \/ StopSend(c) \/ VolumeLook(c) \/ VolumeApply(c)
        PROVE  Len(speakerQueue') <= SpeakerQueue
    BY <1>1, <1>2, <1>4, <1>7 DEF PlaySequence, StopReset, StopSend, VolumeLook, VolumeApply
  <1>. QED
    BY <1>2, <1>6, <1>7 DEF SpeakerNext, speakerVars

LEMMA SpeakerTyped == SpeakerInv /\ QueueFits => SpeakerTypeOK
  BY DEF QueueFits, SpeakerInv, SpeakerShape, SpeakerTypeOK

-----------------------------------------------------------------------------
(* Nor is the LED's, and what the LED shows is a color. *)
LedTypes ==
    /\ Len(ledQueue) <= LedQueue /\ pins \in Colors
    /\ overlays \in 0..MaxOverlays /\ paints \in 0..MaxPaints

LEMMA LedTypesStart == LedInit => LedTypes
  BY LedAssumption DEF LedInit, LedTypes, Colors

LEMMA LedTypesKeep == LedInv /\ LedTypes /\ [LedNext]_ledVars => LedTypes'
  <1>. SUFFICES ASSUME LedInv, LedTypes, [LedNext]_ledVars PROVE LedTypes'
    OBVIOUS
  <1>0. /\ ledQueue \in Seq(LedCommands) /\ Len(ledQueue) \in Nat /\ LedQueue \in Nat
        /\ MaxOverlays \in Nat /\ MaxPaints \in Nat /\ led.base \in Patterns /\ led.overlay \in Patterns
    BY LedAssumption DEF LedInv, LedShape
  <1>1. ASSUME NEW id, NEW pattern, HasRoom, LedSend(id, pattern) PROVE Len(ledQueue') <= LedQueue
    BY <1>0, <1>1 DEF HasRoom, LedSend
  <1>2. ASSUME NEW r, ShowResult(r) PROVE LedTypes'
    BY <1>1, <1>2 DEF ShowResult, LedTypes
  <1>3. CASE TriggerPattern
    <2>1. Len(ledQueue') <= LedQueue
      BY <1>1, <1>3 DEF TriggerPattern
    <2>. QED
      BY <1>0, <1>3, <2>1 DEF TriggerPattern, LedTypes
  <1>4. CASE SetRgb
    BY <1>0, <1>4 DEF SetRgb, LedTypes, Colors
  <1>5. CASE LedRound
    <2>1. Len(ledQueue') <= LedQueue
      BY <1>0, <1>5 DEF LedRound, LedTypes
    <2>2. PICK state : /\ state = Rendered(IF ledQueue = <<>> THEN led ELSE Taken(led, Head(ledQueue)))
                       /\ \E color \in Looks(state) : pins' \in {color, pins}
      BY <1>5 DEF LedRound
    <2>3. state.base \in Patterns /\ state.overlay \in Patterns
      <3>1. PICK cmd : cmd = Head(ledQueue)
        OBVIOUS
      <3>2. ledQueue # <<>> => cmd \in LedCommands
        BY <1>0, <3>1
      <3>. QED
        BY <1>0, <2>2, <3>1, <3>2 DEF LedInv, LedShape, Rendered, Taken, TakeBase, TakeTrigger, LedCommands
    <2>4. Looks(state) \subseteq Colors
      BY <2>3, LooksAreColors DEF Looks
    <2>. QED
      BY <1>5, <2>1, <2>2, <2>4 DEF LedRound, LedTypes
  <1>6. CASE OverlayOver
    BY <1>6 DEF OverlayOver, LedTypes
  <1>7. CASE UNCHANGED ledVars
    BY <1>7 DEF ledVars, LedTypes
  <1>. QED
    BY <1>2, <1>3, <1>4, <1>5, <1>6, <1>7 DEF LedNext

LEMMA LedTyped == LedInv /\ LedTypes => LedTypeOK
  BY DEF LedInv, LedShape, LedTypes, LedTypeOK, LedCommands

-----------------------------------------------------------------------------
(* A list shows no more rows than a page of it has. *)
RowsFit == scan.visible \in 0..PerPage

SetupTypes ==
    /\ setup.active = (setup.at # "away")
    /\ RowsFit
    /\ Len(touches) <= MaxInput

(* Where an action of a screen leads. *)
Leads ==
    /\ \/ setup' = setup
       \/ setup' = [at |-> "away", active |-> FALSE]
       \/ setup' = [at |-> "scanning", active |-> TRUE]
       \/ setup' = [setup EXCEPT !.at = "password"]
       \/ setup' = [setup EXCEPT !.at = "testing"]
    /\ scan' = scan \/ scan'.visible = 0 \/ setup'.at = "list"

LEMMA ActionLeads ==
    ASSUME SetupInv, NEW b, setup.at \in {"list", "password", "dialog"}, ScreenAction(b) PROVE Leads
  <1>1. CASE BeginScan
    BY <1>1 DEF BeginScan, ShowScanning, Leads
  <1>2. CASE Still
    BY <1>2 DEF Still, Leads
  <1>3. CASE setup.at = "list"
    <2>1. ListAction(b)
      BY <1>3 DEF ScreenAction
    <2>2. CASE b = "back"
      BY <2>1, <2>2 DEF ListAction, Leave, Leads
    <2>3. CASE b = "rescan"
      BY <1>1, <2>1, <2>3 DEF ListAction
    <2>4. CASE b \in {"prev", "next"}
      <3>1. Still \/ setup' = setup
        BY <2>1, <2>4 DEF ListAction
      <3>. QED
        BY <1>2, <1>3, <3>1 DEF Leads
    <2>5. CASE b \notin {"back", "rescan", "prev", "next"}
      <3>1. Still \/ \E i \in 1..PerPage : Choose(i)
        BY <2>1, <2>5 DEF ListAction
      <3>. QED
        BY <1>2, <3>1 DEF Choose, Leads
    <2>. QED
      BY <2>2, <2>3, <2>4, <2>5
  <1>4. CASE setup.at = "password"
    BY <1>1, <1>4 DEF ScreenAction, PasswordAction, BeginTest, Leads
  <1>5. CASE setup.at = "dialog"
    BY <1>1, <1>5 DEF ScreenAction
  <1>. QED
    BY <1>3, <1>4, <1>5

RowsAreShown == setup.at \in {"scanned", "list"}

LEMMA ShownRowsFit == SetupInv /\ RowsAreShown => RowsFit
  <1>. SUFFICES ASSUME SetupInv, RowsAreShown PROVE RowsFit
    OBVIOUS
  <1>1. PICK records, p : records = scan.records /\ p = scan.page
    OBVIOUS
  <1>2. /\ records \in ScanLists \cup {<<>>} /\ p \in Nat /\ p < PageCount(records)
        /\ scan.visible = Len(OnPage(records, p))
    BY <1>1 DEF SetupInv, SetupShape, ListIsShown, OnPage, PageCount, RowsAreShown
  <1>3. Len(OnPage(records, p)) \in 0..PerPage
    BY <1>2, PageShows
  <1>. QED
    BY <1>2, <1>3 DEF RowsFit

LEMMA RowsFitThePage ==
    SetupInv' /\ RowsFit /\ (scan' = scan \/ scan'.visible = 0 \/ RowsAreShown') => RowsFit'
  <1>1. (SetupInv /\ RowsAreShown => RowsFit)'
    BY ShownRowsFit, PTL
  <1>2. RowsFit /\ scan' = scan => RowsFit'
    BY DEF RowsFit
  <1>3. scan'.visible = 0 => RowsFit'
    BY SetupAssumption DEF RowsFit
  <1>. QED
    BY <1>1, <1>2, <1>3

LEMMA SetupTypesStart == SetupInit => SetupTypes
  <1>. SUFFICES ASSUME SetupInit PROVE SetupTypes
    OBVIOUS
  <1>1. setup.active = FALSE /\ setup.at = "away" /\ scan.visible = 0 /\ Len(touches) = 0
    BY DEF SetupInit
  <1>2. setup.active = (setup.at # "away")
    BY <1>1
  <1>3. RowsFit /\ Len(touches) <= MaxInput
    BY <1>1, SetupAssumption DEF RowsFit
  <1>. QED
    BY <1>2, <1>3 DEF SetupTypes

LEMMA SetupTypesKeep == SetupInv /\ SetupTypes /\ [SetupNext]_setupVars => SetupTypes'
  <1>. SUFFICES ASSUME SetupInv, SetupTypes, [SetupNext]_setupVars PROVE SetupTypes'
    OBVIOUS
  <1>0. /\ SetupInv' /\ RowsFit /\ touches \in Seq(TouchEvents) /\ Len(touches) \in Nat
        /\ MaxInput \in Nat /\ Len(touches) <= MaxInput
        /\ setup = [at |-> setup.at, active |-> setup.at # "away"]
    BY SetupKeeps, SetupAssumption DEF SetupInv, SetupShape, SetupTypes
  <1>1. ASSUME NEW action, NEW b, Touch(action, b) PROVE SetupTypes'
    <2>1. Len(touches') <= MaxInput
      BY <1>0, <1>1 DEF Touch
    <2>. QED
      BY <1>0, <1>1, <2>1 DEF Touch, SetupTypes, RowsFit
  <1>2. CASE EnterSetup \/ DialogGivesUp
    <2>1. setup' = [at |-> "scanning", active |-> TRUE] /\ scan'.visible = 0 /\ touches' = touches
      BY <1>2 DEF EnterSetup, DialogGivesUp, BeginScan, ShowScanning
    <2>2. RowsFit'
      BY <1>0, <2>1, RowsFitThePage
    <2>3. setup'.active = (setup'.at # "away")
      BY <2>1
    <2>4. Len(touches') <= MaxInput
      BY <1>0, <2>1
    <2>. QED
      BY <2>2, <2>3, <2>4 DEF SetupTypes
  <1>3. CASE ScanEnds
    <2>1. setup' = [setup EXCEPT !.at = "scanned"] /\ touches' = touches /\ setup.at = "scanning"
      BY <1>3 DEF ScanEnds
    <2>2. setup'.at = "scanned" /\ setup'.active = (setup'.at # "away")
      BY <1>0, <2>1
    <2>3. RowsFit'
      BY <1>0, <2>2, RowsFitThePage DEF RowsAreShown
    <2>4. Len(touches') <= MaxInput
      BY <1>0, <2>1
    <2>. QED
      BY <2>2, <2>3, <2>4 DEF SetupTypes
  <1>4. CASE ScanShown \/ DialogShown \/ TestFails
    <2>1. \/ setup' = [setup EXCEPT !.at = "list"] \/ setup' = [setup EXCEPT !.at = "dialog"]
          \/ setup' = [setup EXCEPT !.at = "told"]
      BY <1>4 DEF ScanShown, DialogShown, TestFails
    <2>2. setup.at # "away" /\ scan' = scan /\ (touches' = <<>> \/ touches' = touches)
      BY <1>4 DEF ScanShown, DialogShown, TestFails, DiscardInput
    <2>3. setup'.active = (setup'.at # "away")
      BY <1>0, <2>1, <2>2
    <2>4. Len(touches') <= MaxInput
      BY <1>0, <2>2
    <2>5. RowsFit'
      BY <1>0, <2>2 DEF RowsFit
    <2>. QED
      BY <2>3, <2>4, <2>5 DEF SetupTypes
  <1>5. CASE TestSucceeds \/ ThrownOut
    <2>1. /\ setup' = [at |-> "away", active |-> FALSE] /\ scan' = scan
          /\ touches' = <<>> \/ touches' = touches
      BY <1>5 DEF TestSucceeds, ThrownOut, Leave
    <2>2. Len(touches') <= MaxInput
      BY <1>0, <2>1
    <2>. QED
      BY <1>0, <2>1, <2>2 DEF SetupTypes, RowsFit
  <1>6. CASE ReadTouch
    <2>1. Len(touches') <= MaxInput
      BY <1>0, <1>6 DEF ReadTouch
    <2>2. Leads
      <3>1. setup.at \in {"list", "password", "dialog"} /\ (Still \/ \E b : ScreenAction(b))
        BY <1>6 DEF ReadTouch
      <3>2. CASE Still
        BY <3>2 DEF Still, Leads
      <3>. QED
        BY <3>1, <3>2, ActionLeads
    <2>3. setup.at # "away"
      BY <1>6 DEF ReadTouch
    <2>4. setup'.active = (setup'.at # "away")
      <3>1. CASE setup' = setup
        BY <3>1 DEF SetupTypes
      <3>2. CASE setup' = [at |-> "away", active |-> FALSE]
        BY <3>2
      <3>3. CASE setup' = [at |-> "scanning", active |-> TRUE]
        BY <3>3
      <3>4. ASSUME NEW next \in {"password", "testing"}, setup' = [setup EXCEPT !.at = next]
            PROVE  setup'.active = (setup'.at # "away")
        BY <1>0, <2>3, <3>4
      <3>. QED
        BY <2>2, <3>1, <3>2, <3>3, <3>4 DEF Leads
    <2>5. RowsFit'
      BY <1>0, <2>2, RowsFitThePage DEF Leads, RowsAreShown
    <2>. QED
      BY <2>1, <2>4, <2>5 DEF SetupTypes
  <1>7. CASE UNCHANGED setupVars
    BY <1>7 DEF setupVars, SetupTypes, RowsFit
  <1>. QED
    BY <1>1, <1>2, <1>3, <1>4, <1>5, <1>6, <1>7 DEF SetupNext

LEMMA SetupTyped == SetupInv /\ SetupTypes => SetupTypeOK
  BY DEF SetupInv, SetupShape, SetupTypes, RowsFit, SetupTypeOK, SetupPlaces, Followings

-----------------------------------------------------------------------------
LEMMA DisplayTyped == DisplayInv => DisplayTypeOK
  BY DEF DisplayInv, QueuesType, LogType, LogShape, TaskType, DisplayTypeOK

LEMMA ScreensTyped == ScreensInv => ScreensTypeOK
  <1>. SUFFICES ASSUME ScreensInv PROVE ScreensTypeOK
    OBVIOUS
  <1>1. DOMAIN Offers = PageNames
    BY DEF Offers, PageNames
  <1>2. hidden \subseteq Items
    BY ScreensAssumption DEF ScreensInv
  <1>. QED
    BY <1>1, <1>2 DEF ScreensInv, ScreensTypeOK, Apps, Builds

(* Every variable of the part that runs has a value of its type, whatever the constants are. *)
THEOREM TheirTypesAreCorrect == Spec => []PartsTypeOK
  <1>1. SpeakerInit /\ [][SpeakerNext]_speakerVars => []SpeakerTypeOK
    BY SpeakerStarts, SpeakerKeeps, CommandsStart, CommandsFit, SpeakerTyped, PTL
  <1>2. LedInit /\ [][LedNext]_ledVars => []LedTypeOK
    BY LedStarts, LedKeeps, LedTypesStart, LedTypesKeep, LedTyped, PTL
  <1>3. DisplayInit /\ [][DisplayNext]_displayVars => []DisplayTypeOK
    BY DisplayStarts, DisplayKeeps, DisplayTyped, PTL
  <1>4. TextInit /\ [][TextNext]_textVars => []TextTypeOK
    <2>1. TextInv => TextTypeOK
      BY TextFollows
    <2>. QED
      BY <2>1, TextStarts, TextKeeps, PTL
  <1>5. BootInit /\ [][BootNext]_bootVars => []BootTypeOK
    <2>1. BootInv => BootTypeOK
      BY DEF BootInv
    <2>. QED
      BY <2>1, BootStarts, BootKeeps, PTL
  <1>6. StoredInit /\ [][StoredNext]_storedVars => []StoredTypeOK
    <2>1. StoredInv => StoredTypeOK
      BY StoredKeepsItsWord
    <2>. QED
      BY <2>1, StoredStarts, StoredKeeps, PTL
  <1>7. ScreensInit /\ [][ScreensNext]_screenVars => []ScreensTypeOK
    BY ScreensStart, ScreensKeep, ScreensTyped, PTL
  <1>8. SetupInit /\ [][SetupNext]_setupVars => []SetupTypeOK
    BY SetupStarts, SetupKeeps, SetupTypesStart, SetupTypesKeep, SetupTyped, PTL
  <1>9. ClockInit /\ [][ClockNext]_clockVars => []ClockTypeOK
    BY ClockStarts, ClockKeeps, ClockTypesStart, ClockTypesKeep, ClockTyped, PTL
  <1>10. Spec => [](part \in {"speaker", "led", "display", "text", "boot", "stored", "screens", "setup", "clock"})
    <2>. DEFINE Chosen == part \in {"speaker", "led", "display", "text", "boot", "stored", "screens", "setup", "clock"}
    <2>1. Init => Chosen
      BY DEF Init
    <2>2. Chosen /\ [Next]_partVars => Chosen'
      BY DEF Next, partVars
    <2>. QED
      BY <2>1, <2>2, PTL DEF Spec
  <1>11. /\ SpeakerTypeOK /\ LedTypeOK /\ DisplayTypeOK /\ TextTypeOK /\ BootTypeOK /\ StoredTypeOK
         /\ ScreensTypeOK /\ SetupTypeOK /\ ClockTypeOK
         /\ part \in {"speaker", "led", "display", "text", "boot", "stored", "screens", "setup", "clock"}
         => PartsTypeOK
    BY DEF PartsTypeOK
  <1>. QED
    BY <1>1, <1>2, <1>3, <1>4, <1>5, <1>6, <1>7, <1>8, <1>9, <1>10, <1>11, EachPartRuns, PTL

=============================================================================
