---------------------------- MODULE CydInput_proofs ----------------------------
(***************************************************************************)
(* The touch bus is never shared, no press of BOOT is lost, and PRESS and  *)
(* RELEASE of the finger take turns but where a calibration forgot a       *)
(* touch, for every length of the queue, number of samples and number of   *)
(* calibrations.                                                           *)
(***************************************************************************)
EXTENDS CydInput, TLAPS

(* The calibrator's request stands from the pause to the end; and a task that *)
(* answered it is parked, and stays so as long as it stands.                  *)
Away == task.at \in {"parking", "parked"}

ParkedForTheCalibrator ==
    /\ pause.requested <=> calibrator.at \in {"pausing", "collect", "reset", "resume"}
    /\ Calibrating("pausing") /\ pause.ack => Away
    /\ calibrator.at \in {"collect", "reset", "resume"} /\ calibrator.answered => Away

(* No click waits during a long press, and only what is pressed is held. *)
BootShape == boot.seconds > 0 => boot.stable /\ ~boot.pending

IInv ==
    /\ TypeOK /\ ParkedForTheCalibrator /\ BootShape
    /\ ClicksAddUp /\ TouchesAddUp /\ NewestEdgeIsKept

Boots == [stable: BOOLEAN, last: BOOLEAN, count: 0 .. StableCount, seconds: 0 .. MaxSeconds,
          pending: BOOLEAN, due: BOOLEAN]

Tasks == [at: {"top", "parking", "parked", "frame"}, guard: BOOLEAN]
Pauses == [requested: BOOLEAN, ack: BOOLEAN, notified: BOOLEAN]
Touches == [stable: BOOLEAN, last: BOOLEAN, stage: 0 .. MaxStage, repeats: 0 .. MaxHeld]
Calibrators == [at: {"idle", "pausing", "collect", "reset", "resume", "wake", "save"},
                answered: BOOLEAN, set: Sets, ok: BOOLEAN]
Stores == [saved: BOOLEAN, nvs: Sets \cup {"none"}]

Names == Edges \cup {"LONG_PRESS", "REPEAT", "BOOT_PRESS", "BOOT_RELEASE",
                     "BOOT_LONG_PRESS", "CLICK", "DOUBLE_CLICK"}

-----------------------------------------------------------------------------
(* An event is among two lists when it is among one of them. *)
LEMMA AmongBoth ==
    ASSUME NEW s \in Seq(Names), NEW t \in Seq(Names), NEW e \in Names
    PROVE  Among(e, s \o t) = IF Among(e, s) = 1 \/ Among(e, t) = 1 THEN 1 ELSE 0
  <1>1. CASE \E i \in DOMAIN s : s[i] = e
    <2>1. PICK i \in DOMAIN s : s[i] = e
      BY <1>1
    <2>2. i \in DOMAIN (s \o t) /\ (s \o t)[i] = e
      BY <2>1
    <2>. QED
      BY <1>1, <2>2 DEF Among
  <1>2. CASE \E i \in DOMAIN t : t[i] = e
    <2>1. PICK i \in DOMAIN t : t[i] = e
      BY <1>2
    <2>2. Len(s) + i \in DOMAIN (s \o t) /\ (s \o t)[Len(s) + i] = e
      BY <2>1
    <2>. QED
      BY <1>2, <2>2 DEF Among
  <1>3. CASE (~\E i \in DOMAIN s : s[i] = e) /\ (~\E i \in DOMAIN t : t[i] = e)
    <2>1. ASSUME NEW i \in DOMAIN (s \o t), (s \o t)[i] = e PROVE FALSE
      <3>1. CASE i <= Len(s)
        BY <1>3, <2>1, <3>1
      <3>2. CASE i > Len(s)
        <4>1. i - Len(s) \in DOMAIN t /\ (s \o t)[i] = t[i - Len(s)]
          BY <3>2, <2>1
        <4>. QED
          BY <1>3, <2>1, <4>1
      <3>. QED
        BY <3>1, <3>2, <2>1
    <2>. QED
      BY <1>3, <2>1 DEF Among
  <1>. QED
    BY <1>1, <1>2, <1>3

LEMMA AmongIsCount == ASSUME NEW e, NEW s PROVE Among(e, s) \in {0, 1}
  BY DEF Among

LEMMA AmongNone == ASSUME NEW e PROVE Among(e, <<>>) = 0
  BY DEF Among

LEMMA AmongOne == ASSUME NEW e, NEW f PROVE Among(e, <<f>>) = IF e = f THEN 1 ELSE 0
  BY DEF Among

LEMMA AmongTwo ==
    ASSUME NEW e, NEW f, NEW g PROVE Among(e, <<f, g>>) = IF e = f \/ e = g THEN 1 ELSE 0
  <1>1. DOMAIN <<f, g>> = {1, 2} /\ <<f, g>>[1] = f /\ <<f, g>>[2] = g
    OBVIOUS
  <1>. QED
    BY <1>1 DEF Among

(* What a list of events takes from the presses that are owed. *)
Told(events) == Among("CLICK", events) + 2 * Among("DOUBLE_CLICK", events)

Waits(b) == IF b.pending THEN 1 ELSE 0

(* A sample of the button keeps the shape, and counts each short press once.  *)
BootResult(b, r) ==
    /\ r.boot \in Boots /\ r.events \in Seq(Names)
    /\ r.boot.seconds > 0 => r.boot.stable /\ ~r.boot.pending
    /\ Waits(r.boot) + Told(r.events)
        = Waits(b) + (IF b.seconds = 0 THEN Among("BOOT_RELEASE", r.events) ELSE 0)
    /\ r.boot.pending => Among("CLICK", r.events) = 0

LEMMA SampledShape ==
    ASSUME NEW b \in Boots, NEW pressed \in BOOLEAN
    PROVE  /\ Sampled(b, pressed) \in Boots
           /\ Sampled(b, pressed).stable = b.stable /\ Sampled(b, pressed).seconds = b.seconds
           /\ Sampled(b, pressed).pending = b.pending
  <1>1. 1 \in 0 .. StableCount /\ b.count \in 0 .. StableCount /\ StableCount \in Nat
    BY InputAssumption DEF Boots
  <1>2. CASE pressed # b.last
    <2>. DEFINE c == [b EXCEPT !.last = pressed, !.count = 1]
    <2>1. c \in Boots
      BY <1>1, Zenon DEF Boots
    <2>2. c.stable = b.stable /\ c.seconds = b.seconds /\ c.pending = b.pending
      BY DEF Boots
    <2>. QED
      BY <1>2, <2>1, <2>2 DEF Sampled
  <1>3. CASE pressed = b.last /\ b.count < StableCount
    <2>. DEFINE c == [b EXCEPT !.count = b.count + 1]
    <2>1. b.count + 1 \in 0 .. StableCount
      BY <1>1, <1>3
    <2>2. c \in Boots
      BY <2>1, Zenon DEF Boots
    <2>3. c.stable = b.stable /\ c.seconds = b.seconds /\ c.pending = b.pending
      BY DEF Boots
    <2>. QED
      BY <1>3, <2>2, <2>3 DEF Sampled
  <1>4. CASE pressed = b.last /\ ~(b.count < StableCount)
    BY <1>4 DEF Sampled
  <1>. QED
    BY <1>2, <1>3, <1>4

LEMMA ReleasedResult ==
    ASSUME NEW b \in Boots, b.seconds > 0 => b.stable /\ ~b.pending
    PROVE  BootResult(b, Released(b))
  <1>0. 0 \in 0 .. MaxSeconds
    BY InputAssumption
  <1>1. CASE b.seconds = 0 /\ b.pending
    <2>. DEFINE c == [b EXCEPT !.stable = FALSE, !.pending = FALSE, !.due = FALSE]
    <2>1. c \in Boots
      BY Zenon DEF Boots
    <2>2. ~c.pending /\ c.seconds = 0
      BY <1>1 DEF Boots
    <2>3. Released(b) = [boot |-> c, events |-> <<"BOOT_RELEASE", "DOUBLE_CLICK">>] /\ <<"BOOT_RELEASE", "DOUBLE_CLICK">> \in Seq(Names)
      BY <1>1 DEF Released, ShortRelease, Boots, Names
    <2>4. \A e \in Names : Among(e, <<"BOOT_RELEASE", "DOUBLE_CLICK">>) = IF e \in {"BOOT_RELEASE", "DOUBLE_CLICK"} THEN 1 ELSE 0
      BY AmongTwo
    <2>. HIDE DEF c
    <2>. QED
      BY <1>1, <2>1, <2>2, <2>3, <2>4 DEF BootResult, Waits, Told, Names
  <1>2. CASE b.seconds = 0 /\ ~b.pending
    <2>. DEFINE c == [b EXCEPT !.stable = FALSE, !.pending = TRUE, !.due = FALSE]
    <2>1. c \in Boots
      BY Zenon DEF Boots
    <2>2. c.pending /\ c.seconds = 0
      BY <1>2 DEF Boots
    <2>3. Released(b) = [boot |-> c, events |-> <<"BOOT_RELEASE">>] /\ <<"BOOT_RELEASE">> \in Seq(Names)
      BY <1>2 DEF Released, ShortRelease, Boots, Names
    <2>4. \A e \in Names : Among(e, <<"BOOT_RELEASE">>) = IF e \in {"BOOT_RELEASE"} THEN 1 ELSE 0
      BY AmongOne
    <2>. HIDE DEF c
    <2>. QED
      BY <1>2, <2>1, <2>2, <2>3, <2>4 DEF BootResult, Waits, Told, Names
  <1>3. CASE b.seconds # 0
    <2>. DEFINE c == [b EXCEPT !.stable = FALSE, !.pending = FALSE, !.due = FALSE, !.seconds = 0]
    <2>1. c \in Boots
      BY <1>0, Zenon DEF Boots
    <2>2. ~c.pending /\ c.seconds = 0 /\ ~b.pending
      BY <1>3 DEF Boots
    <2>3. Released(b) = [boot |-> c, events |-> <<"BOOT_RELEASE">>] /\ <<"BOOT_RELEASE">> \in Seq(Names)
      BY <1>3 DEF Released, Names
    <2>4. \A e \in Names : Among(e, <<"BOOT_RELEASE">>) = IF e \in {"BOOT_RELEASE"} THEN 1 ELSE 0
      BY AmongOne
    <2>. HIDE DEF c
    <2>. QED
      BY <1>3, <2>1, <2>2, <2>3, <2>4 DEF BootResult, Waits, Told, Names
  <1>. QED
    BY <1>1, <1>2, <1>3

LEMMA HeldOnResult ==
    ASSUME NEW b \in Boots, b.seconds > 0 => b.stable /\ ~b.pending, b.stable,
           NEW seconds \in 0 .. MaxSeconds
    PROVE  BootResult(b, HeldOn(b, seconds))
  <1>1. CASE seconds <= b.seconds
    <2>1. HeldOn(b, seconds) = [boot |-> b, events |-> <<>>] /\ <<>> \in Seq(Names)
      BY <1>1 DEF HeldOn
    <2>2. Told(<<>>) = 0 /\ Among("BOOT_RELEASE", <<>>) = 0 /\ Among("CLICK", <<>>) = 0
      BY AmongNone DEF Told
    <2>. QED
      BY <2>1, <2>2 DEF BootResult, Waits
  <1>2. CASE ~(seconds <= b.seconds) /\ b.pending
    <2>. DEFINE c == [b EXCEPT !.seconds = seconds, !.pending = FALSE, !.due = FALSE]
    <2>1. c \in Boots
      BY Zenon DEF Boots
    <2>2. ~c.pending /\ c.stable /\ b.seconds = 0
      BY <1>2 DEF Boots
    <2>3. HeldOn(b, seconds) = [boot |-> c, events |-> <<"CLICK", "BOOT_LONG_PRESS">>] /\ <<"CLICK", "BOOT_LONG_PRESS">> \in Seq(Names)
      BY <1>2 DEF HeldOn, Names
    <2>4. \A e \in Names : Among(e, <<"CLICK", "BOOT_LONG_PRESS">>) = IF e \in {"CLICK", "BOOT_LONG_PRESS"} THEN 1 ELSE 0
      BY AmongTwo
    <2>. HIDE DEF c
    <2>. QED
      BY <1>2, <2>1, <2>2, <2>3, <2>4 DEF BootResult, Waits, Told, Names
  <1>3. CASE ~(seconds <= b.seconds) /\ ~b.pending
    <2>. DEFINE c == [b EXCEPT !.seconds = seconds, !.pending = FALSE, !.due = FALSE]
    <2>1. c \in Boots
      BY Zenon DEF Boots
    <2>2. ~c.pending /\ c.stable
      BY <1>3 DEF Boots
    <2>3. HeldOn(b, seconds) = [boot |-> c, events |-> <<"BOOT_LONG_PRESS">>] /\ <<"BOOT_LONG_PRESS">> \in Seq(Names)
      BY <1>3 DEF HeldOn, Names
    <2>4. \A e \in Names : Among(e, <<"BOOT_LONG_PRESS">>) = IF e \in {"BOOT_LONG_PRESS"} THEN 1 ELSE 0
      BY AmongOne
    <2>. HIDE DEF c
    <2>. QED
      BY <1>3, <2>1, <2>2, <2>3, <2>4 DEF BootResult, Waits, Told, Names
  <1>. QED
    BY <1>1, <1>2, <1>3

LEMMA BootAfterResult ==
    ASSUME boot \in Boots, BootShape, NEW pressed \in BOOLEAN, NEW seconds \in 0 .. MaxSeconds
    PROVE  BootResult(boot, BootAfter(pressed, seconds))
  <1>. DEFINE b == Sampled(boot, pressed)
  <1>0. 0 \in 0 .. MaxSeconds
    BY InputAssumption
  <1>1. /\ b \in Boots
        /\ b.stable = boot.stable /\ b.seconds = boot.seconds /\ b.pending = boot.pending
    BY SampledShape
  <1>2. Waits(b) = Waits(boot) /\ (b.seconds > 0 => b.stable /\ ~b.pending)
    BY <1>1 DEF Waits, BootShape
  <1>8. BootAfter(pressed, seconds)
          = IF b.count >= StableCount /\ pressed # b.stable
            THEN IF pressed
                 THEN [boot |-> [b EXCEPT !.stable = TRUE, !.seconds = 0],
                       events |-> <<"BOOT_PRESS">>]
                 ELSE Released(b)
            ELSE IF b.stable THEN HeldOn(b, seconds)
            ELSE [boot |-> b, events |-> <<>>]
    BY DEF BootAfter
  <1>. HIDE DEF b
  <1>3. \A r : BootResult(b, r) => BootResult(boot, r)
    BY <1>1, <1>2 DEF BootResult
  <1>4. CASE b.count >= StableCount /\ pressed # b.stable /\ pressed
    <2>. DEFINE c == [b EXCEPT !.stable = TRUE, !.seconds = 0]
    <2>1. c \in Boots
      BY <1>0, <1>1, Zenon DEF Boots
    <2>2. c.seconds = 0 /\ c.pending = b.pending
      BY <1>1 DEF Boots
    <2>3. /\ BootAfter(pressed, seconds) = [boot |-> c, events |-> <<"BOOT_PRESS">>]
          /\ <<"BOOT_PRESS">> \in Seq(Names)
      <3>1. BootAfter(pressed, seconds) = [boot |-> c, events |-> <<"BOOT_PRESS">>]
        BY <1>4, <1>8, Zenon
      <3>. QED
        BY <3>1 DEF Names
    <2>4. \A e \in Names : Among(e, <<"BOOT_PRESS">>) = IF e \in {"BOOT_PRESS"} THEN 1 ELSE 0
      BY AmongOne
    <2>. HIDE DEF c
    <2>5. BootResult(b, BootAfter(pressed, seconds))
      BY <2>1, <2>2, <2>3, <2>4 DEF BootResult, Waits, Told, Names
    <2>. QED
      BY <1>3, <2>5
  <1>5. CASE b.count >= StableCount /\ pressed # b.stable /\ ~pressed
    <2>1. BootAfter(pressed, seconds) = Released(b)
      BY <1>5, <1>8
    <2>. QED
      BY <1>1, <1>2, <1>3, <2>1, ReleasedResult
  <1>6. CASE ~(b.count >= StableCount /\ pressed # b.stable) /\ b.stable
    <2>1. BootAfter(pressed, seconds) = HeldOn(b, seconds)
      BY <1>6, <1>8
    <2>. QED
      BY <1>1, <1>2, <1>3, <1>6, <2>1, HeldOnResult
  <1>7. CASE ~(b.count >= StableCount /\ pressed # b.stable) /\ ~b.stable
    <2>1. BootAfter(pressed, seconds) = [boot |-> b, events |-> <<>>] /\ <<>> \in Seq(Names)
      BY <1>7, <1>8
    <2>2. Told(<<>>) = 0 /\ Among("BOOT_RELEASE", <<>>) = 0 /\ Among("CLICK", <<>>) = 0
      BY AmongNone DEF Told
    <2>3. BootResult(b, [boot |-> b, events |-> <<>>])
      BY <1>1, <1>2, <2>1, <2>2 DEF BootResult, Waits
    <2>. QED
      BY <1>3, <2>1, <2>3
  <1>. QED
    BY <1>4, <1>5, <1>6, <1>7

LEMMA FinalizedResult ==
    ASSUME NEW b \in Boots, b.seconds > 0 => b.stable /\ ~b.pending
    PROVE  /\ Finalized(b).boot \in Boots
           /\ Finalized(b).boot.seconds > 0 => Finalized(b).boot.stable /\ ~Finalized(b).boot.pending
           /\ Finalized(b).events \in Seq(Names)
           /\ Among("DOUBLE_CLICK", Finalized(b).events) = 0
           /\ Among("BOOT_RELEASE", Finalized(b).events) = 0
           /\ \A e \in Edges : Among(e, Finalized(b).events) = 0
           /\ Waits(Finalized(b).boot) + Among("CLICK", Finalized(b).events) = Waits(b)
           /\ ~b.pending => Among("CLICK", Finalized(b).events) = 0
  <1>1. CASE b.pending /\ b.due
    <2>. DEFINE c == [b EXCEPT !.pending = FALSE, !.due = FALSE]
    <2>1. c \in Boots
      BY Zenon DEF Boots
    <2>2. c.seconds = b.seconds /\ ~c.pending /\ c.stable = b.stable
      BY DEF Boots
    <2>3. Finalized(b) = [boot |-> c, events |-> <<"CLICK">>] /\ <<"CLICK">> \in Seq(Names)
      BY <1>1 DEF Finalized, Names
    <2>4. \A e \in Names : Among(e, <<"CLICK">>) = IF e = "CLICK" THEN 1 ELSE 0
      BY AmongOne
    <2>. HIDE DEF c
    <2>. QED
      BY <1>1, <2>1, <2>2, <2>3, <2>4 DEF Waits, Names, Edges
  <1>2. CASE ~(b.pending /\ b.due)
    <2>1. Finalized(b) = [boot |-> b, events |-> <<>>] /\ <<>> \in Seq(Names)
      BY <1>2 DEF Finalized
    <2>. QED
      BY <2>1, AmongNone DEF Waits, Boots
  <1>. QED
    BY <1>1, <1>2

(* The events of the button are no edges of a touch. *)
LEMMA BootEventsAreNoEdges ==
    ASSUME NEW pressed \in BOOLEAN, NEW seconds \in 0 .. MaxSeconds, NEW e \in Edges
    PROVE  Among(e, BootAfter(pressed, seconds).events) = 0
  <1>1. BootAfter(pressed, seconds).events
          \in {<<>>, <<"BOOT_PRESS">>, <<"BOOT_RELEASE">>, <<"BOOT_RELEASE", "DOUBLE_CLICK">>,
               <<"BOOT_LONG_PRESS">>, <<"CLICK", "BOOT_LONG_PRESS">>}
    <2>2. \A b : HeldOn(b, seconds).events
                    \in {<<>>, <<"BOOT_LONG_PRESS">>, <<"CLICK", "BOOT_LONG_PRESS">>}
      BY Zenon DEF HeldOn
    <2>3. \A b : Released(b).events \in {<<"BOOT_RELEASE">>, <<"BOOT_RELEASE", "DOUBLE_CLICK">>}
      BY Zenon DEF Released, ShortRelease
    <2>. DEFINE b == Sampled(boot, pressed)
    <2>4. BootAfter(pressed, seconds).events
            \in {<<"BOOT_PRESS">>, Released(b).events, HeldOn(b, seconds).events, <<>>}
      BY Zenon DEF BootAfter
    <2>. HIDE DEF b
    <2>. QED
      BY <2>2, <2>3, <2>4
  <1>. QED
    BY <1>1, AmongNone, AmongOne, AmongTwo DEF Edges

Once(said) == IF said THEN 1 ELSE 0

(* A round of touch samples has the edge of its change, if there is one, and  *)
(* nothing of the button.                                                     *)
LEMMA TouchEventsShape ==
    ASSUME NEW sample \in BOOLEAN, NEW after
    PROVE  /\ TouchEvents(sample, after) \in Seq(Names)
           /\ Among("PRESS", TouchEvents(sample, after)) = Once(TouchChanges(sample) /\ sample)
           /\ Among("RELEASE", TouchEvents(sample, after)) = Once(TouchChanges(sample) /\ ~sample)
           /\ \A e \in {"CLICK", "DOUBLE_CLICK", "BOOT_RELEASE"} :
                    Among(e, TouchEvents(sample, after)) = 0
  <1>. DEFINE edge == IF ~TouchChanges(sample) THEN <<>>
                      ELSE IF sample THEN <<"PRESS">> ELSE <<"RELEASE">>
              long == IF after.stable /\ after.stage > touch.stage THEN <<"LONG_PRESS">> ELSE <<>>
              again == IF after.stable /\ after.repeats > touch.repeats THEN <<"REPEAT">> ELSE <<>>
  <1>1. TouchEvents(sample, after) = edge \o long \o again
    BY DEF TouchEvents
  <1>2. /\ edge \in {<<>>, <<"PRESS">>, <<"RELEASE">>}
        /\ long \in {<<>>, <<"LONG_PRESS">>}
        /\ again \in {<<>>, <<"REPEAT">>}
    BY Zenon
  <1>. HIDE DEF edge, long, again
  <1>3. edge \in Seq(Names) /\ long \in Seq(Names) /\ again \in Seq(Names)
        /\ edge \o long \in Seq(Names)
    <2>1. /\ <<"PRESS">> \in Seq(Names) /\ <<"RELEASE">> \in Seq(Names)
          /\ <<"LONG_PRESS">> \in Seq(Names) /\ <<"REPEAT">> \in Seq(Names)
          /\ <<>> \in Seq(Names)
      BY DEF Names, Edges
    <2>2. edge \in Seq(Names) /\ long \in Seq(Names) /\ again \in Seq(Names)
      BY <1>2, <2>1
    <2>. QED
      BY <2>2
  <1>4. \A e \in Names \ {"LONG_PRESS", "REPEAT"} :
            Among(e, edge \o long \o again) = Among(e, edge)
    <2>. SUFFICES ASSUME NEW e \in Names \ {"LONG_PRESS", "REPEAT"}
                  PROVE  Among(e, edge \o long \o again) = Among(e, edge)
      OBVIOUS
    <2>1. Among(e, long) = 0 /\ Among(e, again) = 0
      BY <1>2, AmongNone, AmongOne
    <2>. DEFINE both == edge \o long
    <2>2. both \in Seq(Names) /\ e \in Names
      BY <1>3
    <2>3. Among(e, both) = Among(e, edge)
      BY <1>3, <2>1, <2>2, AmongBoth, AmongIsCount
    <2>. HIDE DEF both
    <2>4. Among(e, both \o again) = Among(e, both)
      BY <1>3, <2>1, <2>2, AmongBoth, AmongIsCount
    <2>. QED
      BY <2>3, <2>4 DEF both
  <1>5. /\ Among("PRESS", edge) = Once(TouchChanges(sample) /\ sample)
        /\ Among("RELEASE", edge) = Once(TouchChanges(sample) /\ ~sample)
        /\ \A e \in {"CLICK", "DOUBLE_CLICK", "BOOT_RELEASE"} : Among(e, edge) = 0
    <2>1. CASE ~TouchChanges(sample)
      BY <2>1, AmongNone DEF edge, Once
    <2>2. CASE TouchChanges(sample) /\ sample
      BY <2>2, AmongOne DEF edge, Once
    <2>3. CASE TouchChanges(sample) /\ ~sample
      BY <2>3, AmongOne DEF edge, Once
    <2>. QED
      BY <2>1, <2>2, <2>3
  <1>6. {"PRESS", "RELEASE", "CLICK", "DOUBLE_CLICK", "BOOT_RELEASE"}
            \subseteq Names \ {"LONG_PRESS", "REPEAT"}
    BY DEF Names, Edges
  <1>7. TouchEvents(sample, after) \in Seq(Names)
    <2>. DEFINE both == edge \o long
    <2>1. both \in Seq(Names)
      BY <1>3
    <2>. HIDE DEF both
    <2>2. both \o again \in Seq(Names)
      BY <1>3, <2>1
    <2>. QED
      BY <1>1, <2>2 DEF both
  <1>. HIDE DEF edge, long, again
  <1>8. \A e \in {"PRESS", "RELEASE", "CLICK", "DOUBLE_CLICK", "BOOT_RELEASE"} :
            Among(e, TouchEvents(sample, after)) = Among(e, edge)
    BY <1>1, <1>4, <1>6, Zenon
  <1>. QED
    BY <1>5, <1>7, <1>8

-----------------------------------------------------------------------------
(* The queue after some events: it is not longer than it may be, and its last *)
(* edge is the last that was told.                                            *)
Entries == Edges \cup {"other"}

EntriesOf(events) == [i \in DOMAIN events |-> Entry(events[i])]

LEMMA EntriesShape ==
    ASSUME NEW events \in Seq(Names)
    PROVE  /\ EntriesOf(events) \in Seq(Entries) /\ Len(EntriesOf(events)) = Len(events)
           /\ \A k \in 1 .. Len(events) : EntriesOf(events)[k] = Entry(events[k])
  <1>1. \A k \in 1 .. Len(events) : Entry(events[k]) \in Entries
    BY DEF Entry, Entries
  <1>2. DOMAIN events = 1 .. Len(events)
    OBVIOUS
  <1>3. EntriesOf(events) = [i \in 1 .. Len(events) |-> Entry(events[i])]
    BY <1>2 DEF EntriesOf
  <1>. QED
    BY <1>1, <1>3

(* What is left of a list are its last entries. *)
LEMMA QueuedShape ==
    ASSUME NEW all \in Seq(Entries)
    PROVE  /\ Queued(all) \in Seq(Entries) /\ Len(Queued(all)) <= QueueLength
           /\ \E gone \in Nat :
                /\ Len(all) = gone + Len(Queued(all))
                /\ \A i \in 1 .. Len(Queued(all)) : Queued(all)[i] = all[gone + i]
  <1>1. QueueLength \in Nat \ {0} /\ Len(all) \in Nat
    BY InputAssumption
  <1>2. CASE Len(all) <= QueueLength
    <2>1. Queued(all) = all
      BY <1>2 DEF Queued
    <2>2. Len(all) = 0 + Len(all) /\ \A i \in 1 .. Len(all) : all[i] = all[0 + i]
      BY <1>1
    <2>. QED
      BY <1>1, <1>2, <2>1, <2>2
  <1>3. CASE ~(Len(all) <= QueueLength)
    <2>. DEFINE gone == Len(all) - QueueLength
    <2>1. Queued(all) = SubSeq(all, gone + 1, Len(all)) /\ gone \in Nat
      BY <1>1, <1>3 DEF Queued
    <2>2. /\ Queued(all) \in Seq(Entries) /\ Len(Queued(all)) = QueueLength
          /\ \A i \in 1 .. QueueLength : Queued(all)[i] = all[gone + i]
      BY <1>1, <1>3, <2>1
    <2>3. Len(all) = gone + Len(Queued(all))
      BY <1>1, <2>2
    <2>4. Len(Queued(all)) <= QueueLength
      BY <1>1, <2>2
    <2>. HIDE DEF gone
    <2>5. \A i \in 1 .. Len(Queued(all)) : Queued(all)[i] = all[gone + i]
      BY <2>2
    <2>. QED
      BY <2>1, <2>2, <2>3, <2>4, <2>5
  <1>. QED
    BY <1>2, <1>3

LEMMA EmitKeepsQueue ==
    ASSUME queue \in Seq(Entries), told \in Edges, NewestEdgeIsKept,
           NEW events \in Seq(Names), Emit(events),
           Among("PRESS", events) = 0 \/ Among("RELEASE", events) = 0
    PROVE  /\ queue' \in Seq(Entries) /\ Len(queue') <= QueueLength /\ told' \in Edges
           /\ NewestEdgeIsKept'
  <1>. DEFINE new == EntriesOf(events)
              all == queue \o new
  <1>1. new \in Seq(Entries) /\ Len(new) = Len(events)
        /\ \A k \in 1 .. Len(events) : new[k] = Entry(events[k])
    BY EntriesShape
  <1>2. queue' = Queued(all)
    BY DEF Emit, EntriesOf
  <1>3. all \in Seq(Entries) /\ Len(all) = Len(queue) + Len(new)
        /\ (\A i \in 1 .. Len(queue) : all[i] = queue[i])
        /\ \A k \in 1 .. Len(new) : all[Len(queue) + k] = new[k]
    <2>. HIDE DEF new
    <2>1. all \in Seq(Entries) /\ Len(all) = Len(queue) + Len(new)
      BY <1>1
    <2>2. \A i \in 1 .. Len(queue) : all[i] = queue[i]
      BY <1>1
    <2>3. \A k \in 1 .. Len(new) : all[Len(queue) + k] = new[k]
      BY <1>1
    <2>. QED
      BY <2>1, <2>2, <2>3
  <1>. HIDE DEF new, all
  <1>4. PICK gone \in Nat : /\ Len(all) = gone + Len(queue')
                            /\ \A i \in 1 .. Len(queue') : queue'[i] = all[gone + i]
    BY <1>2, <1>3, QueuedShape
  <1>5. queue' \in Seq(Entries) /\ Len(queue') <= QueueLength
    BY <1>2, <1>3, QueuedShape
  <1>6. told' \in Edges
    BY DEF Emit, Edges
  <1>7. \A k \in 1 .. Len(events) : new[k] \in Edges => new[k] = events[k] /\ told' = new[k]
    <2>. SUFFICES ASSUME NEW k \in 1 .. Len(events), new[k] \in Edges
                  PROVE  new[k] = events[k] /\ told' = new[k]
      OBVIOUS
    <2>1. new[k] = events[k] /\ events[k] \in {"PRESS", "RELEASE"}
      BY <1>1 DEF Entry, Edges
    <2>2. Among(events[k], events) = 1
      BY DEF Among
    <2>. QED
      BY <2>1, <2>2 DEF Emit
  <1>8. (\A k \in 1 .. Len(events) : new[k] \notin Edges) => told' = told
    <2>. SUFFICES ASSUME \A k \in 1 .. Len(events) : new[k] \notin Edges
                  PROVE  told' = told
      OBVIOUS
    <2>1. \A k \in 1 .. Len(events) : events[k] \notin Edges
      BY <1>1 DEF Entry
    <2>2. Among("PRESS", events) = 0 /\ Among("RELEASE", events) = 0
      BY <2>1 DEF Among, Edges
    <2>. QED
      BY <2>2 DEF Emit
  <1>9. ASSUME NEW i \in DOMAIN queue', queue'[i] \in Edges,
               \A j \in DOMAIN queue' : j > i => queue'[j] \notin Edges
        PROVE  queue'[i] = told'
    <2>. DEFINE m == gone + i
    <2>1. i \in 1 .. Len(queue') /\ m \in 1 .. Len(all) /\ queue'[i] = all[m]
      BY <1>4, <1>5, <1>9
    <2>2. \A n \in 1 .. Len(all) : n > m => all[n] \notin Edges
      <3>. SUFFICES ASSUME NEW n \in 1 .. Len(all), n > m PROVE all[n] \notin Edges
        OBVIOUS
      <3>. DEFINE k == n - gone
      <3>1. Len(queue') \in Nat /\ i \in Nat
        BY <1>5, <2>1
      <3>2. k \in 1 .. Len(queue') /\ k > i /\ gone + k = n
        BY <1>4, <2>1, <3>1
      <3>. HIDE DEF k
      <3>4. k \in DOMAIN queue'
        BY <1>5, <3>2
      <3>5. queue'[k] = all[gone + k]
        BY <1>4, <3>2, Zenon
      <3>3. k \in DOMAIN queue' /\ queue'[k] = all[n]
        BY <3>2, <3>4, <3>5, Zenon
      <3>. QED
        BY <1>9, <3>2, <3>3
    <2>. HIDE DEF m
    <2>3. CASE m > Len(queue)
      <3>0. Len(queue) \in Nat /\ Len(new) \in Nat /\ m \in Nat /\ m <= Len(queue) + Len(new)
        BY <1>1, <1>3, <2>1
      <3>2. m - Len(queue) \in 1 .. Len(new) /\ Len(queue) + (m - Len(queue)) = m
        BY <2>3, <3>0
      <3>1. m - Len(queue) \in 1 .. Len(new) /\ all[m] = new[m - Len(queue)]
        BY <1>3, <3>2
      <3>. QED
        BY <1>1, <1>7, <1>9, <2>1, <3>1
    <2>4. CASE m <= Len(queue)
      <3>1. m \in 1 .. Len(queue) /\ all[m] = queue[m]
        BY <1>3, <2>1, <2>4
      <3>2. \A k \in 1 .. Len(events) : new[k] \notin Edges
        BY <1>1, <1>3, <2>1, <2>2, <2>4
      <3>3. \A j \in 1 .. Len(queue) : j > m => queue[j] \notin Edges
        BY <1>3, <2>1, <2>2
      <3>4. queue[m] = told
        BY <1>9, <2>1, <3>1, <3>3 DEF NewestEdgeIsKept, LastEdge
      <3>. QED
        BY <1>8, <2>1, <3>1, <3>2, <3>4
    <2>. QED
      BY <2>1, <2>3, <2>4, <1>3
  <1>. QED
    BY <1>5, <1>6, <1>9 DEF NewestEdgeIsKept, LastEdge

-----------------------------------------------------------------------------
(* One round's events, of the touch, the button and the click that waited,    *)
(* are those of each: none is lost and none is there twice.                   *)
LEMMA RoundEvents ==
    ASSUME boot \in Boots, BootShape,
           NEW sample \in BOOLEAN, NEW after, NEW pressed \in BOOLEAN, NEW seconds \in 0 .. MaxSeconds
    PROVE  LET t == TouchEvents(sample, after)
               b == BootAfter(pressed, seconds)
               c == Finalized(b.boot)
           IN  /\ BootResult(boot, [boot |-> c.boot, events |-> t \o b.events \o c.events])
               /\ Among("PRESS", t \o b.events \o c.events) = Once(TouchChanges(sample) /\ sample)
               /\ Among("RELEASE", t \o b.events \o c.events) = Once(TouchChanges(sample) /\ ~sample)
  <1>. DEFINE t == TouchEvents(sample, after)
              b == BootAfter(pressed, seconds)
              c == Finalized(b.boot)
  <1>1. BootResult(boot, b)
    BY BootAfterResult
  <1>2. /\ b.boot \in Boots /\ (b.boot.seconds > 0 => b.boot.stable /\ ~b.boot.pending)
        /\ b.events \in Seq(Names) /\ (b.boot.pending => Among("CLICK", b.events) = 0)
        /\ Waits(b.boot) + Told(b.events)
            = Waits(boot) + (IF boot.seconds = 0 THEN Among("BOOT_RELEASE", b.events) ELSE 0)
    BY <1>1 DEF BootResult
  <1>3. /\ c.boot \in Boots /\ (c.boot.seconds > 0 => c.boot.stable /\ ~c.boot.pending)
        /\ c.events \in Seq(Names)
        /\ Among("DOUBLE_CLICK", c.events) = 0 /\ Among("BOOT_RELEASE", c.events) = 0
        /\ \A e \in Edges : Among(e, c.events) = 0
        /\ Waits(c.boot) + Among("CLICK", c.events) = Waits(b.boot)
        /\ ~b.boot.pending => Among("CLICK", c.events) = 0
    BY <1>1, FinalizedResult DEF BootResult
  <1>4. /\ t \in Seq(Names)
        /\ Among("PRESS", t) = Once(TouchChanges(sample) /\ sample)
        /\ Among("RELEASE", t) = Once(TouchChanges(sample) /\ ~sample)
        /\ \A e \in {"CLICK", "DOUBLE_CLICK", "BOOT_RELEASE"} : Among(e, t) = 0
    BY TouchEventsShape
  <1>5. \A e \in Edges : Among(e, b.events) = 0
    BY BootEventsAreNoEdges
  <1>. HIDE DEF t, b, c
  <1>. DEFINE both == t \o b.events
              all == both \o c.events
  <1>6. both \in Seq(Names)
    BY <1>2, <1>4
  <1>7. \A e \in Names : Among(e, both) = IF Among(e, t) = 1 \/ Among(e, b.events) = 1 THEN 1 ELSE 0
    BY <1>2, <1>4, AmongBoth
  <1>. HIDE DEF both
  <1>8. all \in Seq(Names)
    BY <1>3, <1>6
  <1>9. \A e \in Names : Among(e, all) = IF Among(e, both) = 1 \/ Among(e, c.events) = 1 THEN 1 ELSE 0
    BY <1>3, <1>6, AmongBoth
  <1>. HIDE DEF all
  <1>10. {"PRESS", "RELEASE", "CLICK", "DOUBLE_CLICK", "BOOT_RELEASE"} \subseteq Names
         /\ {"PRESS", "RELEASE"} = Edges
    BY DEF Names, Edges
  <1>11. /\ Among("PRESS", all) = Once(TouchChanges(sample) /\ sample)
         /\ Among("RELEASE", all) = Once(TouchChanges(sample) /\ ~sample)
    <2>1. \A e \in Edges : Among(e, all) = Among(e, t)
      BY <1>3, <1>5, <1>7, <1>9, <1>10, AmongIsCount
    <2>. QED
      BY <1>4, <1>10, <2>1
  <1>12. /\ Among("BOOT_RELEASE", all) = Among("BOOT_RELEASE", b.events)
         /\ Among("DOUBLE_CLICK", all) = Among("DOUBLE_CLICK", b.events)
    BY <1>3, <1>4, <1>7, <1>9, <1>10, AmongIsCount
  <1>13. Among("CLICK", all) = Among("CLICK", b.events) + Among("CLICK", c.events)
    <2>1. Among("CLICK", b.events) \in {0, 1} /\ Among("CLICK", c.events) \in {0, 1}
          /\ (Among("CLICK", b.events) = 0 \/ Among("CLICK", c.events) = 0)
      BY <1>2, <1>3, AmongIsCount
    <2>2. Among("CLICK", t) = 0
      BY <1>4
    <2>. QED
      BY <1>7, <1>9, <1>10, <2>1, <2>2
  <1>14. c.boot.pending => Among("CLICK", all) = 0
    <2>1. Waits(c.boot) \in {0, 1} /\ Waits(b.boot) \in {0, 1}
          /\ (c.boot.pending => Waits(c.boot) = 1) /\ (Waits(b.boot) = 1 => b.boot.pending)
          /\ Among("CLICK", c.events) \in {0, 1}
      BY AmongIsCount DEF Waits
    <2>. QED
      BY <1>2, <1>3, <1>13, <2>1
  <1>15. Waits(c.boot) + Told(all)
          = Waits(boot) + (IF boot.seconds = 0 THEN Among("BOOT_RELEASE", all) ELSE 0)
    <2>1. Told(all) = Told(b.events) + Among("CLICK", c.events)
      BY <1>12, <1>13, AmongIsCount DEF Told
    <2>2. Told(b.events) \in Int /\ Waits(b.boot) \in Int /\ Waits(c.boot) \in Int
          /\ Among("CLICK", c.events) \in Int
      BY AmongIsCount DEF Told, Waits
    <2>. QED
      BY <1>2, <1>3, <1>12, <2>1, <2>2
  <1>16. BootResult(boot, [boot |-> c.boot, events |-> all])
    BY <1>3, <1>8, <1>14, <1>15 DEF BootResult
  <1>. QED
    BY <1>11, <1>16 DEF all, both, t, b, c

(* What a round makes of the finger: its change, if there is one, is told.     *)
LEMMA FingerAddsUp ==
    ASSUME IInv, NEW changes \in BOOLEAN, NEW sample \in BOOLEAN, NEW events, Emit(events),
           forgotten' = forgotten,
           touch'.stable = IF changes THEN sample ELSE touch.stable,
           changes => sample # touch.stable,
           Among("PRESS", events) = Once(changes /\ sample),
           Among("RELEASE", events) = Once(changes /\ ~sample)
    PROVE  TouchesAddUp' /\ lifts' \in Int
  <1>1. /\ lifts' = lifts + Among("PRESS", events) - Among("RELEASE", events)
        /\ told' = IF Among("PRESS", events) = 1 THEN "PRESS"
                   ELSE IF Among("RELEASE", events) = 1 THEN "RELEASE" ELSE told
    BY DEF Emit
  <1>2. /\ lifts = forgotten + (IF touch.stable THEN 1 ELSE 0)
        /\ touch.stable => told = "PRESS"
        /\ told = "PRESS" => touch.stable \/ forgotten > 0
        /\ forgotten \in Nat /\ lifts \in Int /\ touch.stable \in BOOLEAN
    BY DEF IInv, TypeOK, TouchesAddUp
  <1>3. CASE ~changes
    <2>1. Among("PRESS", events) = 0 /\ Among("RELEASE", events) = 0
      BY <1>3 DEF Once
    <2>2. lifts' = lifts /\ told' = told
      BY <1>1, <1>2, <2>1
    <2>3. touch'.stable = touch.stable
      BY <1>3
    <2>. QED
      BY <1>2, <2>2, <2>3 DEF TouchesAddUp
  <1>4. CASE changes /\ sample
    <2>1. Among("PRESS", events) = 1 /\ Among("RELEASE", events) = 0
      BY <1>4 DEF Once
    <2>2. lifts' = lifts + 1 /\ told' = "PRESS"
      BY <1>1, <1>2, <2>1
    <2>3. touch'.stable /\ ~touch.stable
      BY <1>2, <1>4
    <2>. QED
      BY <1>2, <2>2, <2>3 DEF TouchesAddUp
  <1>5. CASE changes /\ ~sample
    <2>1. Among("PRESS", events) = 0 /\ Among("RELEASE", events) = 1
      BY <1>5 DEF Once
    <2>2. lifts' = lifts - 1 /\ told' = "RELEASE"
      BY <1>1, <1>2, <2>1
    <2>3. ~touch'.stable /\ touch.stable
      BY <1>2, <1>5
    <2>. QED
      BY <1>2, <2>2, <2>3 DEF TouchesAddUp
  <1>. QED
    BY <1>3, <1>4, <1>5

(* What a round makes of the button and the queue. *)
LEMMA EmitKeeps ==
    ASSUME IInv, NEW r, BootResult(boot, r), boot' = r.boot, Emit(r.events),
           Among("PRESS", r.events) = 0 \/ Among("RELEASE", r.events) = 0
    PROVE  /\ boot' \in Boots /\ BootShape' /\ ClicksAddUp' /\ owed' \in Int
           /\ queue' \in Seq(Entries) /\ Len(queue') <= QueueLength /\ told' \in Edges
           /\ NewestEdgeIsKept'
  <1>1. boot' \in Boots /\ BootShape'
    BY DEF BootResult, BootShape
  <1>2. ClicksAddUp' /\ owed' \in Int
    <2>1. owed = Waits(boot) /\ (ClicksAddUp' <=> owed' = Waits(boot'))
      BY DEF IInv, ClicksAddUp, Waits
    <2>2. owed' = owed + (IF boot.seconds = 0 THEN Among("BOOT_RELEASE", r.events) ELSE 0)
                       - Among("CLICK", r.events) - 2 * Among("DOUBLE_CLICK", r.events)
      BY DEF Emit
    <2>3. Waits(boot') + Told(r.events)
            = Waits(boot) + (IF boot.seconds = 0 THEN Among("BOOT_RELEASE", r.events) ELSE 0)
      BY DEF BootResult
    <2>4. /\ Among("CLICK", r.events) \in {0, 1} /\ Among("DOUBLE_CLICK", r.events) \in {0, 1}
          /\ Among("BOOT_RELEASE", r.events) \in {0, 1}
          /\ Waits(boot) \in {0, 1} /\ Waits(boot') \in {0, 1}
      BY AmongIsCount DEF Waits
    <2>. QED
      BY <2>1, <2>2, <2>3, <2>4 DEF Told
  <1>3. /\ queue' \in Seq(Entries) /\ Len(queue') <= QueueLength /\ told' \in Edges
        /\ NewestEdgeIsKept'
    BY EmitKeepsQueue DEF IInv, TypeOK, BootResult, Entries
  <1>. QED
    BY <1>1, <1>2, <1>3

(* The long press stages do not go beyond the last. *)
LEMMA StageBounds == ASSUME NEW held \in Nat PROVE Stage(held) \in 0 .. MaxStage
  <1>1. LongEvery \in Nat /\ LongEvery > 0 /\ MaxStage \in Nat /\ MaxStage > 0
    BY InputAssumption
  <1>2. CASE held = 0
    BY <1>1, <1>2 DEF Stage
  <1>3. CASE held > 0
    <2>. DEFINE more == (held - 1) \div LongEvery
    <2>1. more \in Nat
      BY <1>1, <1>3
    <2>2. Stage(held) = IF 1 + more > MaxStage THEN MaxStage ELSE 1 + more
      BY <1>3 DEF Stage
    <2>. HIDE DEF more
    <2>. QED
      BY <1>1, <2>1, <2>2
  <1>. QED
    BY <1>2, <1>3

LEMMA TouchAfterShape ==
    ASSUME TypeOK, NEW sample \in BOOLEAN, NEW held \in 0 .. MaxHeld
    PROVE  TouchAfter(sample, held)
            \in [stable: BOOLEAN, last: BOOLEAN, stage: 0 .. MaxStage, repeats: 0 .. MaxHeld]
  <1>. DEFINE stable == IF TouchChanges(sample) THEN sample ELSE touch.stable
              repeats == IF stable THEN held ELSE 0
  <1>1. stable \in BOOLEAN
    BY DEF TypeOK
  <1>2. repeats \in 0 .. MaxHeld /\ repeats \in Nat
    BY InputAssumption
  <1>3. TouchAfter(sample, held)
          = [stable |-> stable, last |-> sample, stage |-> Stage(repeats), repeats |-> repeats]
    BY DEF TouchAfter
  <1>. HIDE DEF stable, repeats
  <1>4. Stage(repeats) \in 0 .. MaxStage
    BY <1>2, StageBounds
  <1>. QED
    BY <1>1, <1>2, <1>3, <1>4

-----------------------------------------------------------------------------
(* The steps. *)

LEMMA InitHolds == Init => IInv
  <1>. SUFFICES ASSUME Init PROVE IInv
    OBVIOUS
  <1>. USE InputAssumption
  <1>1. touch \in [stable: BOOLEAN, last: BOOLEAN, stage: 0 .. MaxStage, repeats: 0 .. MaxHeld]
    <2>1. 0 \in 0 .. MaxStage /\ 0 \in 0 .. MaxHeld
      OBVIOUS
    <2>. QED
      BY <2>1 DEF Init, Untouched
  <1>2. boot \in Boots /\ boot.seconds = 0 /\ ~boot.pending
    <2>1. 0 \in 0 .. StableCount /\ 0 \in 0 .. MaxSeconds
      OBVIOUS
    <2>2. Unpressed \in Boots
      BY <2>1, Zenon DEF Unpressed, Boots
    <2>3. Unpressed.seconds = 0 /\ ~Unpressed.pending
      BY DEF Unpressed
    <2>. QED
      BY <2>2, <2>3 DEF Init
  <1>3. store \in [saved: BOOLEAN, nvs: Sets \cup {"none"}]
    <2>1. PICK nvs \in {"none", "good"}, readable \in BOOLEAN : store = Loaded(nvs, readable)
      BY DEF Init
    <2>2. PICK saved \in BOOLEAN : store = [saved |-> saved, nvs |-> nvs]
      <3>1. (readable /\ nvs # "none" /\ Usable(nvs)) \in BOOLEAN
        OBVIOUS
      <3>. QED
        BY <2>1, <3>1, Zenon DEF Loaded
    <2>3. nvs \in Sets \cup {"none"}
      BY DEF Sets
    <2>. QED
      BY <2>2, <2>3
  <1>4. TypeOK
    <2>1. /\ finger \in BOOLEAN /\ queue \in Seq(Edges \cup {"other"}) /\ Len(queue) <= QueueLength
          /\ told \in Edges /\ owed \in Int /\ calls \in 0 .. MaxCalls
          /\ lifts \in Int /\ forgotten \in Nat
      BY DEF Init, Edges
    <2>2. task \in Tasks /\ pause \in Pauses
      <3>1. PICK stuck \in BOOLEAN : task = [at |-> "top", guard |-> finger \/ stuck]
        BY DEF Init
      <3>2. (finger \/ stuck) \in BOOLEAN
        OBVIOUS
      <3>3. task \in Tasks
        BY <3>1, <3>2, Zenon DEF Tasks
      <3>. QED
        BY <3>3 DEF Init, Pauses
    <2>3. calibrator \in Calibrators
      BY DEF Init, Idle, Calibrators, Sets
    <2>. QED
      BY <1>1, <1>2, <1>3, <2>1, <2>2, <2>3 DEF TypeOK, Boots, Tasks, Pauses, Calibrators
  <1>5. BootShape /\ ClicksAddUp
    BY <1>2 DEF Init, BootShape, ClicksAddUp
  <1>6. NewestEdgeIsKept
    BY DEF Init, NewestEdgeIsKept
  <1>7. ParkedForTheCalibrator
    BY DEF Init, ParkedForTheCalibrator, Idle, Calibrating, Away
  <1>8. TouchesAddUp
    BY DEF Init, TouchesAddUp, Untouched
  <1>. QED
    BY <1>4, <1>5, <1>6, <1>7, <1>8 DEF IInv

(* A step that samples nothing keeps what is known of the filters and events. *)
LEMMA NotSampledKeeps ==
    ASSUME IInv, UNCHANGED <<boot, queue, told, owed, lifts>>
    PROVE  /\ BootShape' /\ ClicksAddUp' /\ NewestEdgeIsKept'
           /\ UNCHANGED <<touch, forgotten>> => TouchesAddUp'
  BY DEF IInv, BootShape, ClicksAddUp, TouchesAddUp, NewestEdgeIsKept, LastEdge

LEMMA ParkingKeeps ==
    ASSUME IInv, Park \/ StayParked \/ Notified \/ LineIsHigh \/ BeginFrame
    PROVE  IInv'
  <1>1. NotSampled /\ NotTask
    BY DEF Park, StayParked, Notified, LineIsHigh, BeginFrame
  <1>2. BootShape' /\ ClicksAddUp' /\ TouchesAddUp' /\ NewestEdgeIsKept'
    BY <1>1, NotSampledKeeps DEF IInv, NotSampled, NotTask
  <1>3. /\ task' \in [at: {"top", "parking", "parked", "frame"}, guard: BOOLEAN]
        /\ pause' \in [requested: BOOLEAN, ack: BOOLEAN, notified: BOOLEAN]
    <2>1. task' \in Tasks
      <3>1. CASE Park
        BY <3>1 DEF IInv, TypeOK, Park, Goto, Tasks
      <3>2. CASE StayParked
        BY <3>2 DEF IInv, TypeOK, StayParked, Goto, Tasks
      <3>3. CASE Notified
        BY <3>3 DEF IInv, TypeOK, Notified, Goto, Tasks
      <3>4. CASE LineIsHigh
        BY <3>4 DEF IInv, TypeOK, LineIsHigh, Tasks
      <3>5. CASE BeginFrame
        BY <3>5 DEF IInv, TypeOK, BeginFrame, Goto, Tasks
      <3>. QED
        BY <3>1, <3>2, <3>3, <3>4, <3>5
    <2>2. pause' \in Pauses
      <3>1. CASE Park
        BY <3>1 DEF IInv, TypeOK, Park, Pauses
      <3>2. CASE StayParked \/ LineIsHigh
        BY <3>2 DEF IInv, TypeOK, StayParked, LineIsHigh, Pauses
      <3>3. CASE Notified
        BY <3>3 DEF IInv, TypeOK, Notified, Pauses
      <3>5. CASE BeginFrame
        <4>1. (pause.notified /\ (task.guard \/ touch.last \/ touch.stable)) \in BOOLEAN
          OBVIOUS
        <4>2. pause' = [pause EXCEPT !.notified = pause.notified /\ (task.guard \/ touch.last \/ touch.stable)]
          BY <3>5 DEF BeginFrame
        <4>. QED
          BY <4>1, <4>2, Zenon DEF IInv, TypeOK, Pauses
      <3>. QED
        BY <3>1, <3>2, <3>3, <3>5
    <2>. QED
      BY <2>1, <2>2 DEF Tasks, Pauses
  <1>4. TypeOK'
    BY <1>1, <1>3 DEF IInv, TypeOK, NotSampled, NotTask
  <1>5. pause'.requested = pause.requested
    BY DEF IInv, TypeOK, Park, StayParked, Notified, LineIsHigh, BeginFrame
  <1>6. (pause'.ack => pause.ack \/ Away') /\ (Away /\ pause.requested => Away')
    BY DEF IInv, TypeOK, Park, StayParked, Notified, LineIsHigh, BeginFrame, At, Goto, Away
  <1>7. ParkedForTheCalibrator'
    BY <1>1, <1>5, <1>6 DEF IInv, ParkedForTheCalibrator, NotTask, Calibrating
  <1>. QED
    BY <1>2, <1>4, <1>7 DEF IInv

LEMMA SampleKeeps ==
    ASSUME IInv, GuardedRound \/ Round
    PROVE  IInv'
  <1>0. ~Away /\ UNCHANGED pause /\ NotTask /\ At("frame")
    BY DEF GuardedRound, Round, At, Away
  <1>1. ParkedForTheCalibrator'
    BY <1>0 DEF IInv, ParkedForTheCalibrator, NotTask, Calibrating
  <1>3. task' \in [at: {"top", "parking", "parked", "frame"}, guard: BOOLEAN]
    <2>1. task' = [task EXCEPT !.at = "top"] \/ task' = [at |-> "top", guard |-> FALSE]
      BY DEF GuardedRound, Round, Goto
    <2>2. task \in Tasks
      BY DEF IInv, TypeOK, Tasks
    <2>3. [task EXCEPT !.at = "top"] \in Tasks /\ [at |-> "top", guard |-> FALSE] \in Tasks
      BY <2>2 DEF Tasks
    <2>. QED
      BY <2>1, <2>3 DEF Tasks
  <1>4. /\ touch' \in [stable: BOOLEAN, last: BOOLEAN, stage: 0 .. MaxStage, repeats: 0 .. MaxHeld]
        /\ boot' \in Boots /\ BootShape' /\ ClicksAddUp' /\ owed' \in Int
        /\ queue' \in Seq(Entries) /\ Len(queue') <= QueueLength /\ told' \in Edges
        /\ NewestEdgeIsKept'
        /\ TouchesAddUp' /\ lifts' \in Int
    <2>0. forgotten' = forgotten
      BY <1>0 DEF NotTask
    <2>1. CASE NotSampled
      BY <2>0, <2>1, NotSampledKeeps DEF IInv, TypeOK, NotSampled, Boots, Entries
    <2>2. ASSUME NEW pressed \in BOOLEAN, NEW seconds \in boot.seconds .. MaxSeconds,
                 boot' = BootAfter(pressed, seconds).boot,
                 Emit(BootAfter(pressed, seconds).events), UNCHANGED touch
          PROVE  <1>4!1 /\ <1>4!2 /\ <1>4!3 /\ <1>4!4 /\ <1>4!5
      <3>1. boot \in Boots /\ BootShape /\ seconds \in 0 .. MaxSeconds
        BY DEF IInv, TypeOK, Boots
      <3>2. /\ BootResult(boot, BootAfter(pressed, seconds))
            /\ Among("PRESS", BootAfter(pressed, seconds).events) = 0
            /\ Among("RELEASE", BootAfter(pressed, seconds).events) = 0
        BY <3>1, BootAfterResult, BootEventsAreNoEdges DEF Edges
      <3>3. touch' \in [stable: BOOLEAN, last: BOOLEAN, stage: 0 .. MaxStage, repeats: 0 .. MaxHeld]
        BY <2>2 DEF IInv, TypeOK
      <3>4. TouchesAddUp' /\ lifts' \in Int
        <4>1. Once(FALSE /\ TRUE) = 0 /\ Once(FALSE /\ ~TRUE) = 0
          BY DEF Once
        <4>. QED
          BY <2>0, <2>2, <3>2, <4>1, FingerAddsUp
      <3>. QED
        BY <2>2, <3>2, <3>3, <3>4, EmitKeeps
    <2>3. CASE Round
      <3>1. PICK held \in 0 .. MaxHeld, pressed \in BOOLEAN, seconds \in boot.seconds .. MaxSeconds :
                /\ boot' = Finalized(BootAfter(pressed, seconds).boot).boot
                /\ touch' = TouchAfter(finger, held)
                /\ Emit(TouchEvents(finger, TouchAfter(finger, held))
                        \o BootAfter(pressed, seconds).events
                        \o Finalized(BootAfter(pressed, seconds).boot).events)
        BY <2>3 DEF Round
      <3>2. boot \in Boots /\ BootShape /\ seconds \in 0 .. MaxSeconds /\ finger \in BOOLEAN
        BY DEF IInv, TypeOK, Boots
      <3>3. touch' \in [stable: BOOLEAN, last: BOOLEAN, stage: 0 .. MaxStage, repeats: 0 .. MaxHeld]
        BY <3>1, <3>2, TouchAfterShape DEF IInv
      <3>. DEFINE b == BootAfter(pressed, seconds)
                  c == Finalized(b.boot)
                  t == TouchEvents(finger, TouchAfter(finger, held))
                  r == [boot |-> c.boot, events |-> t \o b.events \o c.events]
      <3>4. r.boot = c.boot /\ r.events = t \o b.events \o c.events
        OBVIOUS
      <3>5. boot' = r.boot /\ Emit(r.events)
        BY <3>1, <3>4
      <3>6. /\ BootResult(boot, r)
            /\ Among("PRESS", r.events) = Once(TouchChanges(finger) /\ finger)
            /\ Among("RELEASE", r.events) = Once(TouchChanges(finger) /\ ~finger)
        <4>. DEFINE after == TouchAfter(finger, held)
        <4>. HIDE DEF after
        <4>1. LET u == TouchEvents(finger, after)
              IN  /\ BootResult(boot, [boot |-> c.boot, events |-> u \o b.events \o c.events])
                  /\ Among("PRESS", u \o b.events \o c.events) = Once(TouchChanges(finger) /\ finger)
                  /\ Among("RELEASE", u \o b.events \o c.events) = Once(TouchChanges(finger) /\ ~finger)
          BY <3>2, RoundEvents
        <4>. QED
          BY <4>1, <3>4 DEF after
      <3>. HIDE DEF b, c, t, r
      <3>7. Among("PRESS", r.events) = 0 \/ Among("RELEASE", r.events) = 0
        BY <3>6 DEF Once
      <3>8. TouchesAddUp' /\ lifts' \in Int
        <4>1. touch'.stable = IF TouchChanges(finger) THEN finger ELSE touch.stable
          BY <3>1 DEF TouchAfter
        <4>2. TouchChanges(finger) \in BOOLEAN /\ (TouchChanges(finger) => finger # touch.stable)
          BY DEF TouchChanges
        <4>. QED
          BY <2>0, <3>2, <3>5, <3>6, <4>1, <4>2, FingerAddsUp
      <3>. QED
        BY <3>3, <3>5, <3>6, <3>7, <3>8, EmitKeeps
    <2>. QED
      BY <2>1, <2>2, <2>3 DEF GuardedRound
  <1>5. TypeOK'
    BY <1>0, <1>3, <1>4 DEF IInv, TypeOK, NotTask, Boots, Entries
  <1>. QED
    BY <1>1, <1>4, <1>5 DEF IInv

LEMMA CalibratorKeeps ==
    ASSUME IInv, Calibrator
    PROVE  IInv'
  <1>1. CASE ReadEvent \/ DiscardEvents
    <2>1. UNCHANGED <<finger, task, pause, touch, boot, calibrator, store, told, owed, lifts, forgotten, calls>>
      BY <1>1 DEF ReadEvent, DiscardEvents
    <2>2. /\ queue' \in Seq(Entries) /\ Len(queue') <= QueueLength
          /\ \E gone \in Nat : /\ Len(queue) = gone + Len(queue')
                               /\ \A i \in 1 .. Len(queue') : queue'[i] = queue[gone + i]
      <3>0. queue \in Seq(Entries) /\ Len(queue) <= QueueLength /\ QueueLength \in Nat
            /\ Len(queue) \in Nat /\ queue # <<>>
        BY <1>1, InputAssumption DEF IInv, TypeOK, Entries, ReadEvent, DiscardEvents
      <3>1. CASE ReadEvent
        <4>1. queue' = Tail(queue)
          BY <3>1 DEF ReadEvent
        <4>2. queue' \in Seq(Entries) /\ Len(queue) = 1 + Len(queue')
              /\ \A i \in 1 .. Len(queue') : queue'[i] = queue[1 + i]
          BY <3>0, <4>1
        <4>. QED
          BY <3>0, <4>2
      <3>2. CASE DiscardEvents
        <4>1. queue' = <<>>
          BY <3>2 DEF DiscardEvents
        <4>. QED
          BY <3>0, <4>1
      <3>. QED
        BY <1>1, <3>1, <3>2
    <2>3. PICK gone \in Nat : /\ Len(queue) = gone + Len(queue')
                              /\ \A i \in 1 .. Len(queue') : queue'[i] = queue[gone + i]
      BY <2>2
    <2>4. NewestEdgeIsKept'
      <3>. SUFFICES ASSUME NEW i \in DOMAIN queue', LastEdge(i)' PROVE queue'[i] = told'
        BY DEF NewestEdgeIsKept
      <3>0. queue \in Seq(Entries) /\ queue' \in Seq(Entries) /\ i \in 1 .. Len(queue')
            /\ Len(queue) \in Nat /\ Len(queue') \in Nat
        BY <2>2 DEF IInv, TypeOK, Entries
      <3>. DEFINE m == gone + i
      <3>1. m \in 1 .. Len(queue) /\ queue'[i] = queue[m]
        BY <2>3, <3>0
      <3>2. \A n \in 1 .. Len(queue) : n > m => queue[n] \notin Edges
        <4>. SUFFICES ASSUME NEW n \in 1 .. Len(queue), n > m PROVE queue[n] \notin Edges
          OBVIOUS
        <4>. DEFINE k == n - gone
        <4>1. k \in 1 .. Len(queue') /\ k > i /\ gone + k = n
          BY <2>3, <3>0
        <4>. HIDE DEF k
        <4>2. queue'[k] = queue[gone + k]
          BY <2>3, <4>1, Zenon
        <4>3. k \in DOMAIN queue'
          BY <3>0, <4>1
        <4>4. queue'[k] \notin Edges
          BY <4>1, <4>3 DEF LastEdge
        <4>. QED
          BY <4>1, <4>2, <4>4
      <3>3. queue[m] \in Edges
        BY <3>1 DEF LastEdge
      <3>. HIDE DEF m
      <3>4. m \in DOMAIN queue /\ LastEdge(m)
        BY <3>0, <3>1, <3>2, <3>3 DEF LastEdge
      <3>5. queue[m] = told
        BY <3>4 DEF IInv, NewestEdgeIsKept
      <3>. QED
        BY <2>1, <3>1, <3>5
    <2>5. TypeOK'
      BY <2>1, <2>2 DEF IInv, TypeOK, Entries
    <2>6. BootShape' /\ ClicksAddUp' /\ TouchesAddUp' /\ ParkedForTheCalibrator'
      BY <2>1 DEF IInv, BootShape, ClicksAddUp, TouchesAddUp, ParkedForTheCalibrator,
                  Calibrating, Away
    <2>. QED
      BY <2>4, <2>5, <2>6 DEF IInv
  <1>2. CASE \/ PauseTask \/ PauseEnds \/ CollectFails \/ ResetTouch \/ ResumeTask \/ WakeTask
             \/ (\E set \in Sets : Collect(set))
             \/ (\E result \in {"ok", "failed"} : Save(result) \/ Clear(result))
    <2>1. NotCalibrator
      BY <1>2 DEF PauseTask, PauseEnds, CollectFails, ResetTouch, ResumeTask, WakeTask, Collect,
                  Save, Clear
    <2>2. BootShape' /\ ClicksAddUp' /\ NewestEdgeIsKept'
      BY <2>1, NotSampledKeeps DEF NotCalibrator
    <2>3. /\ pause \in Pauses /\ touch \in Touches /\ calls \in 0 .. MaxCalls
          /\ calibrator \in Calibrators /\ store \in Stores
          /\ ParkedForTheCalibrator /\ MaxCalls \in Nat /\ Untouched \in Touches
      <3>1. 0 \in 0 .. MaxStage /\ 0 \in 0 .. MaxHeld
        BY InputAssumption
      <3>2. Untouched \in Touches
        BY <3>1 DEF Untouched, Touches
      <3>. QED
        BY <3>2, InputAssumption DEF IInv, TypeOK, Pauses, Touches, Calibrators, Stores
    <2>. DEFINE Kept == /\ pause' \in Pauses /\ touch' \in Touches /\ calls' \in 0 .. MaxCalls
                        /\ calibrator' \in Calibrators /\ store' \in Stores
                        /\ ParkedForTheCalibrator'
    <2>4. ASSUME PauseTask PROVE Kept
      <3>1. pause' \in Pauses /\ touch' \in Touches /\ calls' \in 0 .. MaxCalls
        BY <2>4, <2>3 DEF PauseTask, Called, Pauses
      <3>2. calibrator' \in Calibrators
        BY <2>4, <2>3 DEF PauseTask, Then, Idle, Calibrators, Sets
      <3>3. store' \in Stores
        BY <2>4, <2>3 DEF PauseTask, Stores, Calibrators, Sets
      <3>4. ParkedForTheCalibrator'
        <4>1. calibrator.at = "idle" /\ pause'.requested /\ ~pause'.ack /\ calibrator'.at = "pausing"
          BY <2>4, <2>3 DEF PauseTask, Then, Calibrating, Pauses, Calibrators
        <4>. QED
          BY <4>1, <2>1, <2>3 DEF ParkedForTheCalibrator, Calibrating, Away, NotCalibrator
      <3>. QED
        BY <3>1, <3>2, <3>3, <3>4
    <2>5. ASSUME PauseEnds PROVE Kept
      <3>1. pause' \in Pauses /\ touch' \in Touches /\ calls' \in 0 .. MaxCalls
        BY <2>5, <2>3 DEF PauseEnds, Called, Pauses
      <3>2. calibrator' \in Calibrators
        <4>1. pause.ack \in BOOLEAN
          BY <2>3 DEF Pauses
        <4>2. calibrator' = [calibrator EXCEPT !.at = "collect", !.answered = pause.ack]
          BY <2>5 DEF PauseEnds
        <4>. QED
          BY <4>1, <4>2, <2>3, Zenon DEF Calibrators
      <3>3. store' \in Stores
        BY <2>5, <2>3 DEF PauseEnds, Stores, Calibrators, Sets
      <3>4. ParkedForTheCalibrator'
        <4>1. calibrator.at = "pausing" /\ pause'.requested = pause.requested /\ calibrator'.at = "collect"
             /\ calibrator'.answered = pause.ack /\ ~pause'.ack
          BY <2>5, <2>3 DEF PauseEnds, Calibrating, Pauses, Calibrators
        <4>. QED
          BY <4>1, <2>1, <2>3 DEF ParkedForTheCalibrator, Calibrating, Away, NotCalibrator
      <3>. QED
        BY <3>1, <3>2, <3>3, <3>4
    <2>6. ASSUME CollectFails PROVE Kept
      <3>1. pause' \in Pauses /\ touch' \in Touches /\ calls' \in 0 .. MaxCalls
        BY <2>6, <2>3 DEF CollectFails, Called, Pauses
      <3>2. calibrator' \in Calibrators
        BY <2>6, <2>3 DEF CollectFails, Then, Idle, Calibrators, Sets
      <3>3. store' \in Stores
        BY <2>6, <2>3 DEF CollectFails, Stores, Calibrators, Sets
      <3>4. ParkedForTheCalibrator'
        <4>1. calibrator.at = "collect" /\ pause' = pause /\ calibrator'.at = "reset"
             /\ calibrator'.answered = calibrator.answered
          BY <2>6, <2>3 DEF CollectFails, Calibrating, Pauses, Calibrators
        <4>. QED
          BY <4>1, <2>1, <2>3 DEF ParkedForTheCalibrator, Calibrating, Away, NotCalibrator
      <3>. QED
        BY <3>1, <3>2, <3>3, <3>4
    <2>7. ASSUME ResetTouch PROVE Kept
      <3>1. pause' \in Pauses /\ touch' \in Touches /\ calls' \in 0 .. MaxCalls
        BY <2>7, <2>3 DEF ResetTouch, Called, Pauses
      <3>2. calibrator' \in Calibrators
        BY <2>7, <2>3 DEF ResetTouch, Then, Idle, Calibrators, Sets
      <3>3. store' \in Stores
        BY <2>7, <2>3 DEF ResetTouch, Stores, Calibrators, Sets
      <3>4. ParkedForTheCalibrator'
        <4>1. calibrator.at = "reset" /\ pause' = pause /\ calibrator'.at = "resume"
             /\ calibrator'.answered = calibrator.answered
          BY <2>7, <2>3 DEF ResetTouch, Then, Calibrating, Pauses, Calibrators
        <4>. QED
          BY <4>1, <2>1, <2>3 DEF ParkedForTheCalibrator, Calibrating, Away, NotCalibrator
      <3>. QED
        BY <3>1, <3>2, <3>3, <3>4
    <2>8. ASSUME ResumeTask PROVE Kept
      <3>1. pause' \in Pauses /\ touch' \in Touches /\ calls' \in 0 .. MaxCalls
        BY <2>8, <2>3 DEF ResumeTask, Called, Pauses
      <3>2. calibrator' \in Calibrators
        BY <2>8, <2>3 DEF ResumeTask, Then, Idle, Calibrators, Sets
      <3>3. store' \in Stores
        BY <2>8, <2>3 DEF ResumeTask, Stores, Calibrators, Sets
      <3>4. ParkedForTheCalibrator'
        <4>1. calibrator.at = "resume" /\ ~pause'.requested /\ calibrator'.at = "wake"
          BY <2>8, <2>3 DEF ResumeTask, Then, Calibrating, Pauses, Calibrators
        <4>. QED
          BY <4>1, <2>1, <2>3 DEF ParkedForTheCalibrator, Calibrating, Away, NotCalibrator
      <3>. QED
        BY <3>1, <3>2, <3>3, <3>4
    <2>9. ASSUME WakeTask PROVE Kept
      <3>1. pause' \in Pauses /\ touch' \in Touches /\ calls' \in 0 .. MaxCalls
        BY <2>9, <2>3 DEF WakeTask, Called, Pauses
      <3>2. calibrator' \in Calibrators
        <4>1. calibrator' = [calibrator EXCEPT !.at = "save"] \/ calibrator' = Idle
          BY <2>9 DEF WakeTask, Then
        <4>2. Idle \in Calibrators
          BY DEF Idle, Calibrators, Sets
        <4>. QED
          BY <4>1, <4>2, <2>3 DEF Calibrators
      <3>3. store' \in Stores
        BY <2>9, <2>3 DEF WakeTask, Stores, Calibrators, Sets
      <3>4. ParkedForTheCalibrator'
        <4>1. calibrator.at = "wake" /\ pause'.requested = pause.requested /\ calibrator'.at \in {"save", "idle"}
          BY <2>9, <2>3 DEF WakeTask, Then, Calibrating, Idle, Pauses, Calibrators
        <4>. QED
          BY <4>1, <2>1, <2>3 DEF ParkedForTheCalibrator, Calibrating, Away, NotCalibrator
      <3>. QED
        BY <3>1, <3>2, <3>3, <3>4
    <2>10. ASSUME NEW set \in Sets, Collect(set) PROVE Kept
      <3>1. pause' \in Pauses /\ touch' \in Touches /\ calls' \in 0 .. MaxCalls
        BY <2>10, <2>3 DEF Collect, Called, Pauses
      <3>2. calibrator' \in Calibrators
        BY <2>10, <2>3 DEF Collect, Then, Idle, Calibrators, Sets
      <3>3. store' \in Stores
        BY <2>10, <2>3 DEF Collect, Stores, Calibrators, Sets
      <3>4. ParkedForTheCalibrator'
        BY <2>10, <2>1, <2>3 DEF Collect, Calibrating, Then, Called, Idle, NotCalibrator, ParkedForTheCalibrator, Away, Pauses, Calibrators
      <3>. QED
        BY <3>1, <3>2, <3>3, <3>4
    <2>11. ASSUME NEW result \in {"ok", "failed"}, Save(result) PROVE Kept
      <3>1. pause' \in Pauses /\ touch' \in Touches /\ calls' \in 0 .. MaxCalls
        BY <2>11, <2>3 DEF Save, Called, Pauses
      <3>2. calibrator' \in Calibrators
        BY <2>11, <2>3 DEF Save, Then, Idle, Calibrators, Sets
      <3>3. store' \in Stores
        <4>2. \/ store' = [store EXCEPT !.nvs = calibrator.set, !.saved = TRUE]
              \/ store' = [store EXCEPT !.nvs = store.nvs]
              \/ store' = [store EXCEPT !.nvs = calibrator.set]
          BY <2>11 DEF Save
        <4>3. /\ calibrator.set \in Sets \cup {"none"} /\ store.nvs \in Sets \cup {"none"}
              /\ TRUE \in BOOLEAN
          BY <2>3 DEF Calibrators, Stores
        <4>. QED
          BY <4>2, <4>3, <2>3, Zenon DEF Stores
      <3>4. ParkedForTheCalibrator'
        BY <2>11, <2>1, <2>3 DEF Save, Calibrating, Then, Called, Idle, NotCalibrator, ParkedForTheCalibrator, Away, Pauses, Calibrators
      <3>. QED
        BY <3>1, <3>2, <3>3, <3>4
    <2>12. ASSUME NEW result \in {"ok", "failed"}, Clear(result) PROVE Kept
      <3>1. pause' \in Pauses /\ touch' \in Touches /\ calls' \in 0 .. MaxCalls
        BY <2>12, <2>3 DEF Clear, Called, Pauses
      <3>2. calibrator' \in Calibrators
        BY <2>12, <2>3 DEF Clear, Then, Idle, Calibrators, Sets
      <3>3. store' \in Stores
        BY <2>12, <2>3 DEF Clear, Stores, Calibrators, Sets
      <3>4. ParkedForTheCalibrator'
        BY <2>12, <2>1, <2>3 DEF Clear, Calibrating, Then, Called, Idle, NotCalibrator, ParkedForTheCalibrator, Away, Pauses, Calibrators
      <3>. QED
        BY <3>1, <3>2, <3>3, <3>4
    <2>15. TouchesAddUp' /\ forgotten' \in Nat
      <3>1. CASE ResetTouch
        <4>1. /\ lifts' = lifts /\ told' = told /\ ~touch'.stable
              /\ forgotten' = IF touch.stable THEN forgotten + 1 ELSE forgotten
          BY <2>1, <3>1 DEF ResetTouch, Untouched, NotCalibrator
        <4>2. forgotten \in Nat /\ lifts \in Int /\ touch.stable \in BOOLEAN
          BY DEF IInv, TypeOK
        <4>. QED
          BY <4>1, <4>2 DEF IInv, TouchesAddUp
      <3>2. CASE ~ResetTouch
        <4>1. UNCHANGED <<touch, forgotten>>
          BY <1>2, <3>2 DEF PauseTask, PauseEnds, CollectFails, ResumeTask, WakeTask, Collect, Save, Clear
        <4>. QED
          BY <2>1, <4>1, NotSampledKeeps DEF NotCalibrator, IInv, TypeOK
      <3>. QED
        BY <3>1, <3>2
    <2>. HIDE DEF Kept
    <2>13. Kept
      BY <1>2, <2>4, <2>5, <2>6, <2>7, <2>8, <2>9, <2>10, <2>11, <2>12
    <2>. USE DEF Kept
    <2>14. TypeOK'
      BY <2>1, <2>13, <2>15 DEF IInv, TypeOK, NotCalibrator, Pauses, Touches, Calibrators, Stores
    <2>. QED
      BY <2>2, <2>13, <2>14, <2>15 DEF IInv
  <1>. QED
    BY <1>1, <1>2 DEF Calibrator

LEMMA AroundKeeps ==
    ASSUME IInv, FingerMoves \/ ClickIsDue \/ UNCHANGED vars
    PROVE  IInv'
  <1>1. UNCHANGED <<task, pause, touch, queue, calibrator, store, told, owed, lifts, forgotten, calls>>
    BY DEF FingerMoves, ClickIsDue, vars
  <1>2. /\ boot' \in Boots /\ boot'.seconds = boot.seconds /\ boot'.stable = boot.stable
        /\ boot'.pending = boot.pending
    <2>1. CASE ClickIsDue
      BY <2>1 DEF ClickIsDue, IInv, TypeOK, Boots
    <2>2. CASE FingerMoves \/ UNCHANGED vars
      BY <2>2 DEF FingerMoves, vars, IInv, TypeOK, Boots
    <2>. QED
      BY <2>1, <2>2
  <1>3. finger' \in BOOLEAN
    BY DEF FingerMoves, ClickIsDue, vars, IInv, TypeOK
  <1>4. TypeOK'
    BY <1>1, <1>2, <1>3 DEF IInv, TypeOK, Boots
  <1>. QED
    BY <1>1, <1>2, <1>4 DEF IInv, ParkedForTheCalibrator, BootShape, ClicksAddUp, TouchesAddUp,
                            NewestEdgeIsKept, LastEdge, Calibrating, Away

LEMMA Invariance == Spec => []IInv
  <1>1. IInv /\ [Next]_vars => IInv'
    BY ParkingKeeps, SampleKeeps, CalibratorKeeps, AroundKeeps DEF Next, InputTask
  <1>. QED
    BY InitHolds, <1>1, PTL DEF Spec

-----------------------------------------------------------------------------
(* The types; the queue never holds more than its length. *)
THEOREM TypeCorrect == Spec => []TypeOK
  <1>1. IInv => TypeOK
    BY DEF IInv
  <1>. QED
    BY <1>1, Invariance, PTL

(* Whoever calibrates after its pause was answered has the touch controller   *)
(* for itself (pause_task() and the top of cyd_input_task()), however often   *)
(* it calibrates and whatever notification is left of the time before.        *)
THEOREM BusIsExclusive == Spec => []TouchBusIsExclusive
  <1>1. IInv => TouchBusIsExclusive
    BY DEF IInv, ParkedForTheCalibrator, TouchBusIsExclusive, Calibrating, Away, At
  <1>. QED
    BY <1>1, Invariance, PTL

(* Every short press of BOOT is reported once, or waits to be                 *)
(* (handle_boot_button_sample() and finalize_boot_button_click()).            *)
THEOREM PressesAreReportedOnce == Spec => []ClicksAddUp
  <1>1. IInv => ClicksAddUp
    BY DEF IInv
  <1>. QED
    BY <1>1, Invariance, PTL

(* Whatever a full queue gave up, its last press or release of a touch is the *)
(* last there was (cyd_input_queue_event()), for every length of the queue.   *)
THEOREM NewestEdgeSurvives == Spec => []NewestEdgeIsKept
  <1>1. IInv => NewestEdgeIsKept
    BY DEF IInv
  <1>. QED
    BY <1>1, Invariance, PTL

(* Every touch is told as a PRESS and a RELEASE, in turn, but for the RELEASE  *)
(* that a calibration in the middle of a touch drops                          *)
(* (handle_stable_touch_change() and reset_touch_runtime_state()).             *)
THEOREM TouchesAreToldInTurn == Spec => []TouchesAddUp
  <1>1. IInv => TouchesAddUp
    BY DEF IInv
  <1>. QED
    BY <1>1, Invariance, PTL

(* What is told of BOOT and of the finger adds up, for samples in any order,   *)
(* presses of any length and any number of calibrations; what a calibration    *)
(* forgets is counted.  The last edge in the queue is the last that was told.  *)
THEOREM EdgesAlwaysAddUp == Spec => []EdgesAddUp
  <1>1. ClicksAddUp /\ TouchesAddUp /\ NewestEdgeIsKept => EdgesAddUp
    BY DEF EdgesAddUp
  <1>. QED
    BY <1>1, PressesAreReportedOnce, TouchesAreToldInTurn, NewestEdgeSurvives, PTL
=============================================================================
