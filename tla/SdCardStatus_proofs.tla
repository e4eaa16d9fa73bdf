-------------------------- MODULE SdCardStatus_proofs --------------------------
(***************************************************************************)
(* The error log and the monitor of its card, for any number of tasks that *)
(* log, of events remembered and of lines held: no line overtakes an older *)
(* one, nobody writes to a stream that is gone, no line is left in the     *)
(* hold of an open door, what is counted is told, and the state that is    *)
(* shown is the truth.                                                     *)
(***************************************************************************)
EXTENDS SdCardStatus, FiniteSetTheorems, SequenceTheorems, TLAPS

Releasing == {"open", "publish", "drops", "pop", "held"}
(* The places of a task that has nothing of the log in hand. *)
Aside == {"idle", "emit", "collect", "collectAll", "arm", "setTimer"}
Releasers == {t \in Tasks : doing[t].at \in Releasing}

(* A task that has a line to log has one left; and one that writes a line is  *)
(* found with it in the log.                                                  *)
TaskShape ==
    \A t \in Tasks :
        /\ At(t, "emit") => doing[t].todo > 0
        /\ doing[t].at \in {"direct", "held"} => \E k \in DOMAIN lines : lines[k] = t

(* One task at most releases, and the flag says whether one does. *)
OneReleaser ==
    /\ \A t, u \in Releasers : t = u
    /\ log.releasing <=> Releasers # {}

(* The log opens with nothing held, on a card that is ready.                  *)
OpenShape ==
    log.open => /\ log.has /\ log.ready /\ ~log.releasing
                /\ \A k \in DOMAIN lines : lines[k] # Held

(* The stream has the log's name, but for the time that stop() waits for the  *)
(* tasks that still write to it.                                              *)
StreamShape ==
    IF mon.at = "drain"
    THEN ~log.has /\ ~log.open /\ ~log.ready /\ (mon.own <=> stream # "none")
    ELSE log.has <=> stream # "none"

(* A log that is not started has nobody in it, and no stream.                 *)
Silent ==
    ~log.ready /\ mon.at # "drain" => ~log.releasing /\ ~InFlight /\ stream = "none"

(* What the monitor knows at each of its places.                              *)
MonitorShape ==
    /\ mon.at = "poll" => (mounted <=> state \in MountedStates)
    /\ mon.at # "poll" => mounted
    /\ mon.at = "check" => state \in MountedStates
    /\ mon.at \in {"poll", "check"} => (logging <=> state = "OK") /\ (log.ready <=> state = "OK")
    /\ mon.at \in {"selftest", "start", "started", "deinit"} => ~logging
    /\ mon.at \in {"selftest", "start", "deinit"} => ~log.ready
    /\ mon.at = "selftest" => state \notin MountedStates
    /\ mon.at \in {"start", "started"} => state # "OK"
    /\ mon.at = "started" => log.ready
    /\ mon.at \in {"stop", "clear", "drain"} => mon.to # "OK" /\ (mon.to = "FULL" => state = "FULL")
    /\ mon.at = "deinit" => mon.to \notin MountedStates

LogInv ==
    /\ LogTypeOK /\ TaskShape /\ OneReleaser /\ OpenShape
    /\ NeverOvertakes /\ WritesToLiveStream /\ NothingLeftBehind

MonitorInv == StreamShape /\ Silent /\ MonitorShape

IInv == TypeOK /\ LogInv /\ MonitorInv

-----------------------------------------------------------------------------
(* A set of places has a first: of the intervals below its members, ordered by *)
(* inclusion, one is minimal.                                                 *)
LEMMA Smallest ==
    ASSUME NEW S \in SUBSET Nat, S # {}
    PROVE  \E i \in S : \A j \in S : i <= j
  <1>. DEFINE Below == {0 .. i : i \in S}
  <1>1. Below \subseteq FiniteSubsetsOf(Nat) /\ Below # {}
    <2>1. \A i \in S : 0 .. i \subseteq Nat /\ IsFiniteSet(0 .. i)
      BY FS_Interval
    <2>. QED
      BY <2>1 DEF FiniteSubsetsOf
  <1>2. PICK x \in Below : \A y \in Below : <<y, x>> \notin StrictSubsetOrdering(Nat)
    <2>. HIDE DEF Below
    <2>. QED
      BY <1>1, WFMin, FS_StrictSubsetOrderingWellFounded
  <1>3. PICK i \in S : x = 0 .. i
    BY <1>2
  <1>4. ASSUME NEW j \in S, j < i PROVE FALSE
    <2>1. 0 .. j \in Below /\ 0 .. j \subseteq 0 .. i /\ i \notin 0 .. j /\ i \in 0 .. i
      BY <1>4
    <2>2. <<0 .. j, x>> \in StrictSubsetOrdering(Nat)
      BY <2>1, <1>3 DEF StrictSubsetOrdering
    <2>. QED
      BY <1>2, <2>1, <2>2
  <1>. QED
    BY <1>4

(* A sequence without one of its elements. *)
LEMMA Removed ==
    ASSUME NEW S, NEW s \in Seq(S), NEW i \in 1 .. Len(s)
    PROVE  /\ RemoveAt(s, i) \in Seq(S)
           /\ Len(RemoveAt(s, i)) = Len(s) - 1
           /\ \A k \in 1 .. Len(s) - 1 : RemoveAt(s, i)[k] = IF k < i THEN s[k] ELSE s[k + 1]
  <1>. DEFINE before == SubSeq(s, 1, i - 1)
              after == SubSeq(s, i + 1, Len(s))
  <1>1. Len(s) \in Nat /\ \A k \in 1 .. Len(s) : s[k] \in S
    BY LenProperties, ElementOfSeq
  <1>2. /\ before \in Seq(S) /\ Len(before) = i - 1
        /\ \A k \in 1 .. i - 1 : before[k] = s[k]
    <2>1. \A k \in 1 .. i - 1 : s[k] \in S
      BY <1>1
    <2>. QED
      BY <1>1, <2>1, SubSeqProperties
  <1>3. /\ after \in Seq(S) /\ Len(after) = Len(s) - i
        /\ \A k \in 1 .. Len(s) - i : after[k] = s[i + k]
    <2>1. \A k \in i + 1 .. Len(s) : s[k] \in S
      BY <1>1
    <2>. QED
      BY <1>1, <2>1, SubSeqProperties
  <1>. HIDE DEF before, after
  <1>4. /\ before \o after \in Seq(S)
        /\ Len(before \o after) = Len(before) + Len(after)
        /\ \A k \in 1 .. Len(before) + Len(after) : (before \o after)[k] =
                IF k <= Len(before) THEN before[k] ELSE after[k - Len(before)]
    BY <1>2, <1>3, ConcatProperties
  <1>5. Len(before) + Len(after) = Len(s) - 1
    BY <1>1, <1>2, <1>3
  <1>6. ASSUME NEW k \in 1 .. Len(s) - 1
        PROVE  (before \o after)[k] = IF k < i THEN s[k] ELSE s[k + 1]
    <2>1. CASE k < i
      BY <1>1, <1>2, <1>4, <1>5, <2>1
    <2>2. CASE ~(k < i)
      <3>1. k - (i - 1) \in 1 .. Len(s) - i /\ i + (k - (i - 1)) = k + 1 /\ ~(k <= i - 1)
        BY <1>1, <2>2
      <3>. QED
        BY <1>2, <1>3, <1>4, <1>5, <2>2, <3>1
    <2>. QED
      BY <2>1, <2>2
  <1>. QED
    BY <1>4, <1>5, <1>6 DEF RemoveAt, before, after

-----------------------------------------------------------------------------
(* The lines that are held, in any sequence of lines. *)
HeldOf(s) == {i \in DOMAIN s : s[i] = Held}

LEMMA HeldIsFinite ==
    ASSUME NEW S, NEW s \in Seq(S)
    PROVE  /\ IsFiniteSet(HeldOf(s)) /\ Cardinality(HeldOf(s)) \in Nat
           /\ Cardinality(HeldOf(s)) = 0 <=> \A i \in 1 .. Len(s) : s[i] # Held
  <1>1. Len(s) \in Nat /\ DOMAIN s = 1 .. Len(s)
    BY LenProperties
  <1>2. IsFiniteSet(1 .. Len(s)) /\ HeldOf(s) \in SUBSET (1 .. Len(s))
    BY <1>1, FS_Interval DEF HeldOf
  <1>3. IsFiniteSet(HeldOf(s))
    BY <1>2, FS_Subset
  <1>4. Cardinality(HeldOf(s)) = 0 <=> HeldOf(s) = {}
    BY <1>3, FS_EmptySet
  <1>. QED
    BY <1>1, <1>3, <1>4, FS_CardinalityType DEF HeldOf

(* A line more at the end. *)
LEMMA HeldAppended ==
    ASSUME NEW S, NEW s \in Seq(S), NEW e
    PROVE  Cardinality(HeldOf(Append(s, e))) =
               IF e = Held THEN Cardinality(HeldOf(s)) + 1 ELSE Cardinality(HeldOf(s))
  <1>1. Len(s) \in Nat /\ DOMAIN s = 1 .. Len(s)
    BY LenProperties
  <1>2. DOMAIN Append(s, e) = 1 .. Len(s) + 1 /\ Append(s, e)[Len(s) + 1] = e
        /\ \A i \in 1 .. Len(s) : Append(s, e)[i] = s[i]
    BY <1>1
  <1>3. HeldOf(Append(s, e)) = IF e = Held THEN HeldOf(s) \cup {Len(s) + 1} ELSE HeldOf(s)
    BY <1>1, <1>2 DEF HeldOf
  <1>4. Len(s) + 1 \notin HeldOf(s)
    BY <1>1 DEF HeldOf
  <1>. QED
    BY <1>3, <1>4, HeldIsFinite, FS_AddElement

(* A line that leaves leaves no more lines held than there were. *)
LEMMA HeldRemoved ==
    ASSUME NEW S, NEW s \in Seq(S), NEW i \in 1 .. Len(s)
    PROVE  Cardinality(HeldOf(RemoveAt(s, i))) <= Cardinality(HeldOf(s))
  <1>. DEFINE rest == RemoveAt(s, i)
              place == [k \in HeldOf(rest) |-> IF k < i THEN k ELSE k + 1]
  <1>1. Len(s) \in Nat /\ DOMAIN s = 1 .. Len(s)
    BY LenProperties
  <1>2. /\ rest \in Seq(S) /\ Len(rest) = Len(s) - 1
        /\ \A k \in 1 .. Len(s) - 1 : rest[k] = IF k < i THEN s[k] ELSE s[k + 1]
    BY Removed
  <1>3. DOMAIN rest = 1 .. Len(s) - 1
    BY <1>2, LenProperties
  <1>. HIDE DEF rest
  <1>4. place \in [HeldOf(rest) -> HeldOf(s)]
    BY <1>1, <1>2, <1>3 DEF HeldOf
  <1>5. \A k, l \in HeldOf(rest) : place[k] = place[l] => k = l
    BY <1>1, <1>3 DEF HeldOf
  <1>6. place \in Injection(HeldOf(rest), HeldOf(s))
    BY <1>4, <1>5 DEF Injection, IsInjective
  <1>7. IsFiniteSet(HeldOf(s))
    BY HeldIsFinite
  <1>. QED
    BY <1>6, <1>7, FS_Injection DEF rest

(* A held line that a task takes is no longer held. *)
LEMMA HeldTaken ==
    ASSUME NEW S, NEW s \in Seq(S), NEW i \in 1 .. Len(s), NEW e \in S, e # Held
    PROVE  /\ [s EXCEPT ![i] = e] \in Seq(S)
           /\ Cardinality(HeldOf([s EXCEPT ![i] = e])) <= Cardinality(HeldOf(s))
  <1>1. DOMAIN [s EXCEPT ![i] = e] = DOMAIN s /\ DOMAIN s = 1 .. Len(s)
    BY LenProperties
  <1>2. HeldOf([s EXCEPT ![i] = e]) \in SUBSET HeldOf(s)
    BY <1>1 DEF HeldOf
  <1>3. IsFiniteSet(HeldOf(s))
    BY HeldIsFinite
  <1>. QED
    BY <1>2, <1>3, FS_Subset, ExceptSeq

-----------------------------------------------------------------------------
(* A task goes to a place.  The rest of the proof looks at no more of it.     *)
Moved(t, place) ==
    /\ doing' \in [Tasks -> Doings]
    /\ doing'[t].at = place
    /\ place = "emit" => doing'[t].todo > 0
    /\ \A u \in Tasks \ {t} : doing'[u] = doing[u]

LEMMA Replaced ==
    ASSUME LogTypeOK, NEW t \in Tasks, NEW d \in Doings,
           d.at = "emit" => d.todo > 0, doing' = [doing EXCEPT ![t] = d]
    PROVE  Moved(t, d.at)
  <1>1. doing \in [Tasks -> Doings]
    BY DEF LogTypeOK
  <1>2. doing' \in [Tasks -> Doings] /\ doing'[t] = d
    BY <1>1
  <1>. QED
    BY <1>1, <1>2 DEF Moved

LEMMA GoesMoves ==
    ASSUME LogTypeOK, NEW t \in Tasks, NEW place \in Places \ {"emit"}, Goes(t, place)
    PROVE  Moved(t, place)
  <1>. DEFINE d == [doing[t] EXCEPT !.at = place]
  <1>1. doing \in [Tasks -> Doings]
    BY DEF LogTypeOK
  <1>2. doing[t] \in Doings
    BY <1>1
  <1>3. d \in Doings /\ d.at = place
    BY <1>2 DEF Doings
  <1>4. doing' = [doing EXCEPT ![t] = d]
    BY <1>1 DEF Goes
  <1>. HIDE DEF d
  <1>5. Moved(t, d.at)
    BY <1>3, <1>4, Replaced
  <1>. QED
    BY <1>3, <1>5

LEMMA HasMoves ==
    ASSUME LogTypeOK, NEW t \in Tasks, NEW n \in 0 .. Batch + 1, NEW after \in Afters, Has(t, n, after)
    PROVE  \E place \in Aside : Moved(t, place)
  <1>. DEFINE d == IF n > 0 THEN [at |-> "emit", todo |-> n, after |-> after]
                            ELSE [at |-> after, todo |-> 0, after |-> "idle"]
  <1>1. d \in Doings
    BY LogAssumption DEF Doings, Places, Afters
  <1>2. (d.at = "emit" => d.todo > 0) /\ d.at \in Aside
    BY DEF Afters, Aside
  <1>3. doing' = [doing EXCEPT ![t] = d]
    BY DEF Has
  <1>. HIDE DEF d
  <1>4. Moved(t, d.at)
    BY <1>1, <1>2, <1>3, Replaced
  <1>. QED
    BY <1>2, <1>4

LEMMA GoesOnMoves ==
    ASSUME LogTypeOK, NEW t \in Tasks, GoesOn(t)
    PROVE  \E place \in Aside : Moved(t, place)
  <1>1. doing[t].todo \in 0 .. Batch + 1 /\ doing[t].after \in Afters
    BY DEF LogTypeOK, Doings
  <1>. QED
    BY <1>1, HasMoves DEF GoesOn

LEMMA OneLessMoves ==
    ASSUME LogTypeOK, NEW t \in Tasks, doing[t].todo > 0, NEW place \in Places \ {"emit"},
           OneLess(t, place)
    PROVE  Moved(t, place)
  <1>. DEFINE d == [at |-> place, todo |-> doing[t].todo - 1, after |-> doing[t].after]
  <1>1. doing \in [Tasks -> Doings]
    BY DEF LogTypeOK
  <1>2. doing[t] \in Doings /\ doing[t].todo \in 0 .. Batch + 1 /\ Batch \in Nat
    BY <1>1, LogAssumption DEF Doings
  <1>3. d \in Doings
    <2>1. doing[t].todo - 1 \in 0 .. Batch + 1
      BY <1>2
    <2>. QED
      BY <1>2, <2>1 DEF Doings
  <1>4. doing' = [doing EXCEPT ![t] = d]
    BY <1>1 DEF OneLess
  <1>5. d.at = place
    BY <1>2 DEF Doings
  <1>. HIDE DEF d
  <1>6. Moved(t, d.at)
    BY <1>3, <1>4, <1>5, Replaced
  <1>. QED
    BY <1>5, <1>6

(* Who releases after a task has moved. *)
LEMMA ReleasersMoved ==
    ASSUME NEW t \in Tasks, NEW place, Moved(t, place)
    PROVE  Releasers' = IF place \in Releasing THEN Releasers \cup {t} ELSE Releasers \ {t}
  BY DEF Moved, Releasers

-----------------------------------------------------------------------------
(* There is an event to give its place to, when all the slots are taken. *)
LEMMA VictimIsThere ==
    ASSUME LogTypeOK, ~(Len(repeats) < Slots)
    PROVE  Victim \in 1 .. Len(repeats)
  <1>1. Len(repeats) \in Nat /\ Len(repeats) > 0 /\ DOMAIN repeats = 1 .. Len(repeats)
    BY LogAssumption, LenProperties DEF LogTypeOK
  <1>2. CASE Quiet = {}
    BY <1>1, <1>2 DEF Victim
  <1>3. CASE Quiet # {}
    <2>1. Quiet \in SUBSET Nat /\ Quiet \subseteq 1 .. Len(repeats)
      BY <1>1 DEF Quiet
    <2>2. \E i \in Quiet : \A j \in Quiet : i <= j
      BY <1>3, <2>1, Smallest
    <2>. QED
      BY <1>3, <2>1, <2>2 DEF Victim
  <1>. QED
    BY <1>2, <1>3

(* The events remembered, after one more was seen. *)
LEMMA CheckedType ==
    ASSUME LogTypeOK, NEW key \in Keys \cup {NoteKey}
    PROVE  /\ Checked(key).slots \in Seq(Events) /\ Len(Checked(key).slots) <= Slots
           /\ Checked(key).lines \in 0 .. Batch + 1
  <1>1. repeats \in Seq(Events) /\ Len(repeats) \in Nat /\ Len(repeats) <= Slots
        /\ DOMAIN repeats = 1 .. Len(repeats) /\ Slots \in Nat \ {0} /\ Batch \in Nat \ {0}
    BY LogAssumption, LenProperties DEF LogTypeOK
  <1>2. Event(key) \in Events
    BY DEF Event, Events
  <1>3. ASSUME NEW i \in 1 .. Len(repeats)
        PROVE  /\ RemoveAt(repeats, i) \in Seq(Events)
               /\ Len(RemoveAt(repeats, i)) = Len(repeats) - 1
               /\ Count(repeats[i]) \in 0 .. 1
               /\ [repeats[i] EXCEPT !.again = TRUE] \in Events
    <2>1. repeats[i] \in Events
      BY <1>1, ElementOfSeq
    <2>2. [repeats[i] EXCEPT !.again = TRUE] \in Events
      BY <2>1 DEF Events
    <2>3. Count(repeats[i]) \in 0 .. 1
      BY DEF Count
    <2>4. RemoveAt(repeats, i) \in Seq(Events) /\ Len(RemoveAt(repeats, i)) = Len(repeats) - 1
      BY <1>1, Removed
    <2>. QED
      BY <2>2, <2>3, <2>4
  <1>4. ASSUME NEW s \in Seq(Events), NEW e \in Events
        PROVE  Append(s, e) \in Seq(Events) /\ Len(Append(s, e)) = Len(s) + 1
    OBVIOUS
  <1>0. Len(repeats) - 1 + 1 = Len(repeats)
    BY <1>1
  <1>5. CASE Seen(key)
    <2>1. PlaceOf(key) \in 1 .. Len(repeats)
      BY <1>1, <1>5 DEF Seen, PlaceOf
    <2>. DEFINE i == PlaceOf(key)
                others == RemoveAt(repeats, i)
    <2>2. others \in Seq(Events) /\ Len(others) = Len(repeats) - 1 /\ Count(repeats[i]) \in 0 .. 1
          /\ [repeats[i] EXCEPT !.again = TRUE] \in Events
      BY <1>3, <2>1
    <2>3. Checked(key) = IF repeats[i].recent
                         THEN [slots |-> Append(others, [repeats[i] EXCEPT !.again = TRUE]), lines |-> 0]
                         ELSE [slots |-> Append(others, Event(key)), lines |-> Count(repeats[i]) + 1]
      BY <1>5 DEF Checked
    <2>. HIDE DEF i, others
    <2>4. /\ Append(others, [repeats[i] EXCEPT !.again = TRUE]) \in Seq(Events)
          /\ Len(Append(others, [repeats[i] EXCEPT !.again = TRUE])) = Len(repeats)
          /\ Append(others, Event(key)) \in Seq(Events)
          /\ Len(Append(others, Event(key))) = Len(repeats)
      BY <1>0, <1>2, <1>4, <2>2
    <2>. QED
      BY <1>1, <2>2, <2>3, <2>4
  <1>6. CASE ~Seen(key) /\ Len(repeats) < Slots
    BY <1>1, <1>2, <1>4, <1>6 DEF Checked
  <1>7. CASE ~Seen(key) /\ ~(Len(repeats) < Slots)
    <2>1. Victim \in 1 .. Len(repeats)
      BY <1>7, VictimIsThere
    <2>. DEFINE others == RemoveAt(repeats, Victim)
    <2>2. others \in Seq(Events) /\ Len(others) = Len(repeats) - 1
          /\ Count(repeats[Victim]) \in 0 .. 1
      BY <1>3, <2>1
    <2>3. Checked(key) = [slots |-> Append(others, Event(key)), lines |-> Count(repeats[Victim]) + 1]
      BY <1>7 DEF Checked
    <2>. HIDE DEF others
    <2>4. Append(others, Event(key)) \in Seq(Events) /\ Len(Append(others, Event(key))) = Len(repeats)
      BY <1>0, <1>2, <1>4, <2>2
    <2>. QED
      BY <1>1, <2>2, <2>3, <2>4
  <1>. QED
    BY <1>5, <1>6, <1>7

(* What a task does that has nothing of the log in hand: it has some lines to *)
(* log, or none.                                                              *)
StartsLogging(t) ==
    /\ doing[t].at \in Aside
    /\ \E place \in Aside : Moved(t, place)
    /\ repeats' \in Seq(Events) /\ Len(repeats') <= Slots /\ repeatTimer' \in BOOLEAN
    /\ UNCHANGED <<log, stream, lines, dropped, refused>>

LEMMA RecordStarts ==
    ASSUME LogTypeOK, NEW t \in Tasks, NEW key \in Keys \cup {NoteKey}, Record(t, key)
    PROVE  StartsLogging(t)
  <1>1. Checked(key).lines \in 0 .. Batch + 1
    BY CheckedType
  <1>2. \E place \in Aside : Moved(t, place)
    BY <1>1, HasMoves DEF Record, Afters
  <1>3. repeatTimer' \in BOOLEAN /\ doing[t].at \in Aside
    BY DEF LogTypeOK, Record, At, Aside
  <1>. QED
    BY <1>2, <1>3, CheckedType DEF Record, StartsLogging

LEMMA WriteErrorLogStarts ==
    ASSUME LogTypeOK, NEW t \in Tasks, WriteErrorLog(t)
    PROVE  StartsLogging(t)
  <1>1. 1 \in 0 .. Batch + 1 /\ "idle" \in Afters
    BY LogAssumption DEF Afters
  <1>2. \E place \in Aside : Moved(t, place)
    BY <1>1, HasMoves DEF WriteErrorLog
  <1>. QED
    BY <1>2 DEF LogTypeOK, WriteErrorLog, StartsLogging, At, Aside

(* Some counts are taken: fewer events are remembered, and their lines are    *)
(* logged.                                                                    *)
LEMMA TakesStarts ==
    ASSUME LogTypeOK, NEW t \in Tasks, doing[t].at \in Aside,
           NEW taken \in SUBSET Counted, Cardinality(taken) <= Batch,
           NEW next \in Afters, Takes(t, taken, next), repeatTimer' \in BOOLEAN
    PROVE  StartsLogging(t)
  <1>. DEFINE rest == DOMAIN repeats \ taken
              kept == 1 .. Cardinality(rest)
  <1>1. repeats \in Seq(Events) /\ Len(repeats) \in Nat /\ Len(repeats) <= Slots
        /\ DOMAIN repeats = 1 .. Len(repeats) /\ Slots \in Nat /\ Batch \in Nat
    BY LogAssumption, LenProperties DEF LogTypeOK
  <1>2. IsFiniteSet(1 .. Len(repeats)) /\ Cardinality(1 .. Len(repeats)) = Len(repeats)
    <2>1. 1 \in Int /\ Len(repeats) \in Int /\ (1 > Len(repeats) => Len(repeats) = 0)
          /\ Len(repeats) - 1 + 1 = Len(repeats)
      BY <1>1
    <2>. QED
      BY <2>1, FS_Interval
  <1>3. taken \in SUBSET (1 .. Len(repeats)) /\ rest \in SUBSET (1 .. Len(repeats))
    BY <1>1 DEF Counted
  <1>4. Cardinality(taken) \in Nat
    BY <1>2, <1>3, FS_Subset, FS_CardinalityType
  <1>5. Cardinality(rest) \in Nat /\ Cardinality(rest) <= Slots
    BY <1>1, <1>2, <1>3, FS_Subset, FS_CardinalityType
  <1>6. PICK place \in [kept -> rest] : repeats' = [i \in kept |-> repeats[place[i]]]
    BY DEF Takes
  <1>7. \A i \in kept : repeats[place[i]] \in Events
    BY <1>1, <1>3, ElementOfSeq
  <1>. HIDE DEF rest
  <1>8. repeats' \in Seq(Events) /\ Len(repeats') = Cardinality(rest)
    <2>1. repeats' \in [kept -> Events]
      BY <1>6, <1>7
    <2>. QED
      BY <1>5, <2>1
  <1>9. Cardinality(taken) \in 0 .. Batch + 1
    BY <1>1, <1>4
  <1>10. (IF Cardinality(taken) = Batch THEN next ELSE "arm") \in Afters
    BY DEF Afters
  <1>11. \E to \in Aside : Moved(t, to)
    BY <1>9, <1>10, HasMoves DEF Takes
  <1>. QED
    BY <1>5, <1>8, <1>11 DEF Takes, StartsLogging

LEMMA MostAreFew ==
    ASSUME NEW counts, NEW taken \in Most(counts)
    PROVE  taken \in SUBSET counts /\ Cardinality(taken) <= Batch
  BY DEF Most

LEMMA FlushStarts ==
    ASSUME LogTypeOK, NEW t \in Tasks, NEW force \in BOOLEAN, Flush(t, force), repeatTimer' \in BOOLEAN
    PROVE  StartsLogging(t)
  <1>1. PICK taken \in Most(Over(force)) : Takes(t, taken, IF force THEN "collectAll" ELSE "collect")
    BY DEF Flush
  <1>2. taken \in SUBSET Counted /\ Cardinality(taken) <= Batch
    BY MostAreFew DEF Over
  <1>3. (IF force THEN "collectAll" ELSE "collect") \in Afters
    BY DEF Afters
  <1>4. doing[t].at \in Aside
    BY DEF Flush, At, Aside
  <1>. QED
    BY <1>1, <1>2, <1>3, <1>4, TakesStarts

LEMMA CollectStarts ==
    ASSUME LogTypeOK, NEW t \in Tasks, Collect(t)
    PROVE  StartsLogging(t)
  <1>1. PICK taken \in SUBSET Counted, next \in {"collect", "collectAll"} :
            Cardinality(taken) <= Batch /\ Takes(t, taken, next)
    <2>1. CASE \E taken \in SUBSET Counted : Cardinality(taken) <= Batch /\ Takes(t, taken, "collect")
      BY <2>1
    <2>2. CASE \E taken \in Most(Counted) : Takes(t, taken, "collectAll")
      BY <2>2, MostAreFew
    <2>. QED
      BY <2>1, <2>2 DEF Collect
  <1>2. doing[t].at \in Aside /\ next \in Afters /\ repeatTimer' \in BOOLEAN
    BY DEF Collect, At, Aside, Afters, LogTypeOK
  <1>. QED
    BY <1>1, <1>2, TakesStarts

(* The timer is seen to. *)
LEMMA ArmStarts ==
    ASSUME LogTypeOK, NEW t \in Tasks, Arm(t) \/ SetTimer(t)
    PROVE  StartsLogging(t)
  <1>1. PICK place \in {"idle", "setTimer"} : Goes(t, place)
    BY DEF Arm, SetTimer
  <1>2. Moved(t, place) /\ place \in Aside
    BY <1>1, GoesMoves DEF Places, Aside
  <1>3. /\ repeats' = repeats /\ repeatTimer' \in BOOLEAN /\ doing[t].at \in Aside
        /\ UNCHANGED <<log, stream, lines, dropped, refused>>
    BY DEF Arm, SetTimer, At, Aside, LogTypeOK
  <1>. QED
    BY <1>2, <1>3 DEF StartsLogging, LogTypeOK

-----------------------------------------------------------------------------
(* What is known of the lines. *)
LEMMA LinesType ==
    ASSUME LogTypeOK
    PROVE  /\ lines \in Seq(Tasks \cup {Held}) /\ Len(lines) \in Nat
           /\ DOMAIN lines = 1 .. Len(lines)
           /\ \A i \in 1 .. Len(lines) : lines[i] \in Tasks \cup {Held}
           /\ HeldCount = Cardinality(HeldOf(lines)) /\ HeldCount \in Nat
           /\ HeldCount = 0 <=> \A i \in 1 .. Len(lines) : lines[i] # Held
  <1>1. lines \in Seq(Tasks \cup {Held})
    BY DEF LogTypeOK
  <1>2. HeldCount = Cardinality(HeldOf(lines))
    BY DEF HeldCount, HeldOf
  <1>. QED
    BY <1>1, <1>2, LenProperties, ElementOfSeq, HeldIsFinite

(* A line written leaves the others in their order. *)
LEMMA SentKeeps ==
    ASSUME LogInv, NEW t \in Tasks, doing[t].at \in {"direct", "held"}, Sent(t)
    PROVE  /\ lines' \in Seq(Tasks \cup {Held})
           /\ HeldCount' \in Nat /\ HeldCount' <= HeldCount
           /\ NeverOvertakes'
           /\ (\A k \in DOMAIN lines : lines[k] # Held) => \A k \in DOMAIN lines' : lines'[k] # Held
           /\ \A u \in Tasks \ {t} :
                (\E k \in DOMAIN lines : lines[k] = u) => \E k \in DOMAIN lines' : lines'[k] = u
  <1>1. LogTypeOK /\ \E k \in DOMAIN lines : lines[k] = t
    BY DEF LogInv, TaskShape
  <1>2. /\ lines \in Seq(Tasks \cup {Held}) /\ Len(lines) \in Nat /\ DOMAIN lines = 1 .. Len(lines)
        /\ HeldCount = Cardinality(HeldOf(lines))
    BY <1>1, LinesType
  <1>3. PICK i \in 1 .. Len(lines) : lines[i] = t /\ lines' = RemoveAt(lines, i)
    <2>. DEFINE i == CHOOSE k \in DOMAIN lines : lines[k] = t
    <2>1. i \in DOMAIN lines /\ lines[i] = t
      BY <1>1
    <2>2. lines' = RemoveAt(lines, i)
      BY DEF Sent
    <2>. QED
      BY <1>2, <2>1, <2>2
  <1>4. /\ lines' \in Seq(Tasks \cup {Held}) /\ Len(lines') = Len(lines) - 1
        /\ \A k \in 1 .. Len(lines) - 1 : lines'[k] = IF k < i THEN lines[k] ELSE lines[k + 1]
    BY <1>2, <1>3, Removed
  <1>5. DOMAIN lines' = 1 .. Len(lines) - 1
    BY <1>4, LenProperties
  <1>6. HeldCount' = Cardinality(HeldOf(lines'))
    BY DEF HeldCount, HeldOf
  <1>7. HeldCount' \in Nat /\ HeldCount' <= HeldCount
    BY <1>2, <1>3, <1>4, <1>6, HeldIsFinite, HeldRemoved
  <1>8. NeverOvertakes'
    <2>. SUFFICES ASSUME NEW a \in DOMAIN lines', NEW b \in DOMAIN lines', a < b, lines'[a] = Held
                  PROVE  lines'[b] = Held
      BY DEF NeverOvertakes
    <2>1. NeverOvertakes
      BY DEF LogInv
    <2>. DEFINE a0 == IF a < i THEN a ELSE a + 1
                b0 == IF b < i THEN b ELSE b + 1
    <2>2. a0 \in DOMAIN lines /\ b0 \in DOMAIN lines /\ a0 < b0
      BY <1>2, <1>5
    <2>3. lines'[a] = lines[a0] /\ lines'[b] = lines[b0]
      BY <1>4, <1>5
    <2>. QED
      BY <2>1, <2>2, <2>3 DEF NeverOvertakes
  <1>9. (\A k \in DOMAIN lines : lines[k] # Held) => \A k \in DOMAIN lines' : lines'[k] # Held
    BY <1>2, <1>4, <1>5
  <1>10. ASSUME NEW u \in Tasks \ {t}, NEW k \in DOMAIN lines, lines[k] = u
         PROVE  \E l \in DOMAIN lines' : lines'[l] = u
    <2>. DEFINE l == IF k < i THEN k ELSE k - 1
    <2>1. k # i
      BY <1>3, <1>10
    <2>2. l \in 1 .. Len(lines) - 1 /\ (IF l < i THEN l ELSE l + 1) = k
      BY <1>2, <1>3, <2>1
    <2>. QED
      BY <1>4, <1>5, <1>10, <2>2
  <1>. QED
    BY <1>4, <1>7, <1>8, <1>9, <1>10

(* A line more leaves them in their order, when nothing is held or it is held too. *)
LEMMA AppendKeeps ==
    ASSUME LogInv, NEW e \in Tasks \cup {Held}, lines' = Append(lines, e),
           e = Held \/ \A k \in DOMAIN lines : lines[k] # Held
    PROVE  /\ lines' \in Seq(Tasks \cup {Held})
           /\ HeldCount' = IF e = Held THEN HeldCount + 1 ELSE HeldCount
           /\ NeverOvertakes'
           /\ \E k \in DOMAIN lines' : lines'[k] = e
           /\ e # Held => \A k \in DOMAIN lines' : lines'[k] # Held
           /\ \A u \in Tasks :
                (\E k \in DOMAIN lines : lines[k] = u) => \E k \in DOMAIN lines' : lines'[k] = u
  <1>1. /\ lines \in Seq(Tasks \cup {Held}) /\ Len(lines) \in Nat /\ DOMAIN lines = 1 .. Len(lines)
        /\ HeldCount = Cardinality(HeldOf(lines))
    BY LinesType DEF LogInv
  <1>2. /\ lines' \in Seq(Tasks \cup {Held}) /\ DOMAIN lines' = 1 .. Len(lines) + 1
        /\ lines'[Len(lines) + 1] = e /\ \A k \in 1 .. Len(lines) : lines'[k] = lines[k]
    BY <1>1
  <1>3. HeldCount' = Cardinality(HeldOf(lines'))
    BY DEF HeldCount, HeldOf
  <1>4. HeldCount' = IF e = Held THEN HeldCount + 1 ELSE HeldCount
    BY <1>1, <1>3, HeldAppended
  <1>5. NeverOvertakes'
    BY <1>1, <1>2 DEF NeverOvertakes, LogInv
  <1>. QED
    BY <1>1, <1>2, <1>4, <1>5

(* The first of the lines held becomes a task's. *)
LEMMA PopKeeps ==
    ASSUME LogInv, NEW t \in Tasks, HeldCount # 0, lines' = [lines EXCEPT ![FirstHeld] = t]
    PROVE  /\ lines' \in Seq(Tasks \cup {Held})
           /\ HeldCount' \in Nat /\ HeldCount' <= HeldCount
           /\ NeverOvertakes'
           /\ \E k \in DOMAIN lines' : lines'[k] = t
           /\ \A u \in Tasks :
                (\E k \in DOMAIN lines : lines[k] = u) => \E k \in DOMAIN lines' : lines'[k] = u
  <1>1. /\ lines \in Seq(Tasks \cup {Held}) /\ Len(lines) \in Nat /\ DOMAIN lines = 1 .. Len(lines)
        /\ HeldCount = Cardinality(HeldOf(lines)) /\ t # Held
        /\ ~(\A i \in 1 .. Len(lines) : lines[i] # Held) /\ Held \notin Tasks
    BY LinesType, LogAssumption DEF LogInv
  <1>2. FirstHeld \in 1 .. Len(lines) /\ lines[FirstHeld] = Held
        /\ \A j \in 1 .. FirstHeld - 1 : lines[j] # Held
    <2>. DEFINE held == HeldOf(lines)
    <2>1. held \in SUBSET Nat /\ held # {} /\ held \subseteq 1 .. Len(lines)
      BY <1>1 DEF HeldOf
    <2>2. PICK i \in held : \A j \in held : i <= j
      BY <2>1, Smallest
    <2>3. i \in DOMAIN lines /\ lines[i] = Held /\ \A j \in 1 .. i - 1 : lines[j] # Held
      BY <1>1, <2>1, <2>2 DEF HeldOf
    <2>. QED
      BY <1>1, <2>3 DEF FirstHeld
  <1>3. DOMAIN lines' = DOMAIN lines
        /\ \A k \in DOMAIN lines : lines'[k] = IF k = FirstHeld THEN t ELSE lines[k]
    BY <1>1, <1>2
  <1>4. lines' \in Seq(Tasks \cup {Held}) /\ Cardinality(HeldOf(lines')) <= Cardinality(HeldOf(lines))
    BY <1>1, <1>2, HeldTaken
  <1>5. HeldCount' = Cardinality(HeldOf(lines'))
    BY DEF HeldCount, HeldOf
  <1>6. HeldCount' \in Nat /\ HeldCount' <= HeldCount
    BY <1>1, <1>4, <1>5, HeldIsFinite
  <1>7. NeverOvertakes'
    <2>. SUFFICES ASSUME NEW a \in DOMAIN lines', NEW b \in DOMAIN lines', a < b, lines'[a] = Held
                  PROVE  lines'[b] = Held
      BY DEF NeverOvertakes
    <2>1. a # FirstHeld /\ lines[a] = Held
      BY <1>1, <1>3
    <2>2. a > FirstHeld /\ lines[b] = Held
      BY <1>1, <1>2, <1>3, <2>1 DEF LogInv, NeverOvertakes
    <2>. QED
      BY <1>1, <1>2, <1>3, <2>2
  <1>. QED
    BY <1>1, <1>2, <1>3, <1>4, <1>6, <1>7

-----------------------------------------------------------------------------
(* What a task logs that was idle changes nothing in the log. *)
LEMMA StartKeepsLog ==
    ASSUME LogInv, NEW t \in Tasks, StartsLogging(t)
    PROVE  LogInv' /\ InFlight' = InFlight
  <1>. USE DEF Aside
  <1>1. PICK place \in Aside : Moved(t, place)
    BY DEF StartsLogging
  <1>2. /\ UNCHANGED <<log, stream, lines, dropped, refused>> /\ doing[t].at \in Aside
        /\ place \in Aside
        /\ doing'[t].at = place /\ (place = "emit" => doing'[t].todo > 0)
        /\ \A u \in Tasks \ {t} : doing'[u] = doing[u]
    BY <1>1 DEF StartsLogging, At, Moved
  <1>3. LogTypeOK'
    <2>1. HeldCount' = HeldCount
      BY <1>2 DEF HeldCount
    <2>. QED
      BY <1>1, <1>2, <2>1 DEF LogInv, LogTypeOK, StartsLogging, Moved
  <1>4. TaskShape'
    BY <1>2 DEF LogInv, TaskShape, At
  <1>5. Releasers' = Releasers
    BY <1>2 DEF Releasers, Releasing
  <1>6. OneReleaser' /\ OpenShape' /\ NeverOvertakes'
    BY <1>2, <1>5 DEF LogInv, OneReleaser, OpenShape, NeverOvertakes
  <1>7. WritesToLiveStream'
    BY <1>2 DEF LogInv, WritesToLiveStream
  <1>8. NothingLeftBehind'
    BY <1>2 DEF LogInv, NothingLeftBehind, HeldCount
  <1>9. InFlight' = InFlight
    BY <1>2 DEF InFlight, At
  <1>. QED
    BY <1>3, <1>4, <1>5, <1>6, <1>7, <1>8, <1>9 DEF LogInv

(* What the monitor knows of the log is its flags, and who is in it. *)
LEMMA MonitorKeeps ==
    ASSUME MonitorInv, log' = log, stream' = stream, InFlight' => InFlight, UNCHANGED cardVars
    PROVE  MonitorInv'
  BY DEF MonitorInv, StreamShape, Silent, MonitorShape, cardVars

LEMMA TypeKeeps == ASSUME TypeOK, LogTypeOK', UNCHANGED cardVars PROVE TypeOK'
  BY DEF TypeOK, cardVars

LEMMA StartStep ==
    ASSUME IInv, NEW t \in Tasks, StartsLogging(t), UNCHANGED cardVars
    PROVE  IInv'
  <1>1. LogInv' /\ InFlight' = InFlight
    BY StartKeepsLog DEF IInv
  <1>2. log' = log /\ stream' = stream
    BY DEF StartsLogging
  <1>3. MonitorInv'
    BY <1>1, <1>2, MonitorKeeps DEF IInv
  <1>. QED
    BY <1>1, <1>3, TypeKeeps DEF IInv, LogInv

-----------------------------------------------------------------------------
(* The steps of a task that is logging. *)
LEMMA EmitStep == ASSUME IInv, NEW t \in Tasks, Emit(t), UNCHANGED cardVars PROVE IInv'
  <1>. USE DEF IInv, LogInv
  <1>1. doing[t].at = "emit" /\ doing[t].todo > 0 /\ UNCHANGED <<log, stream, repeats, repeatTimer, refused>>
    BY DEF Emit, At, TaskShape
  <1>2. HeldCount \in Nat
    BY LinesType
  <1>3. CASE log.open
    <2>1. lines' = Append(lines, t) /\ OneLess(t, "direct") /\ dropped' = dropped
      BY <1>3 DEF Emit
    <2>2. Moved(t, "direct")
      BY <1>1, <2>1, OneLessMoves DEF Places
    <2>3. t # Held /\ \A k \in DOMAIN lines : lines[k] # Held
      BY <1>3, LogAssumption DEF OpenShape
    <2>4. /\ lines' \in Seq(Tasks \cup {Held}) /\ HeldCount' = HeldCount /\ NeverOvertakes'
          /\ \E k \in DOMAIN lines' : lines'[k] = t
          /\ \A k \in DOMAIN lines' : lines'[k] # Held
          /\ \A u \in Tasks :
               (\E k \in DOMAIN lines : lines[k] = u) => \E k \in DOMAIN lines' : lines'[k] = u
      BY <2>1, <2>3, AppendKeeps
    <2>5. LogTypeOK'
      BY <1>1, <2>1, <2>2, <2>4 DEF LogTypeOK, Moved
    <2>6. TaskShape'
      BY <1>1, <2>2, <2>4 DEF TaskShape, Moved, At
    <2>7. Releasers' = Releasers
      BY <1>1, <2>2, ReleasersMoved DEF Releasing, Releasers
    <2>8. OneReleaser' /\ OpenShape'
      BY <1>1, <2>4, <2>7 DEF OneReleaser, OpenShape
    <2>9. log.has /\ log.ready /\ stream # "none" /\ mon.at # "drain"
      BY <1>3 DEF OpenShape, MonitorInv, StreamShape
    <2>10. WritesToLiveStream' /\ NothingLeftBehind'
      BY <1>1, <1>3, <2>2, <2>9 DEF WritesToLiveStream, NothingLeftBehind, Moved
    <2>11. MonitorInv'
      BY <1>1, <2>9 DEF MonitorInv, StreamShape, Silent, MonitorShape, cardVars
    <2>. QED
      BY <2>4, <2>5, <2>6, <2>8, <2>10, <2>11, TypeKeeps
  <1>4. CASE ~log.open
    <2>1. OneLess(t, "release")
      BY <1>4 DEF Emit
    <2>2. Moved(t, "release")
      BY <1>1, <2>1, OneLessMoves DEF Places
    <2>3. /\ lines' \in Seq(Tasks \cup {Held}) /\ HeldCount' <= HoldLines /\ NeverOvertakes'
          /\ dropped' \in BOOLEAN
          /\ \A u \in Tasks :
               (\E k \in DOMAIN lines : lines[k] = u) => \E k \in DOMAIN lines' : lines'[k] = u
      <3>1. CASE HeldCount < HoldLines
        <4>1. lines' = Append(lines, Held) /\ dropped' = dropped
          BY <1>4, <3>1 DEF Emit
        <4>2. /\ lines' \in Seq(Tasks \cup {Held}) /\ HeldCount' = HeldCount + 1 /\ NeverOvertakes'
              /\ \A u \in Tasks :
                   (\E k \in DOMAIN lines : lines[k] = u) => \E k \in DOMAIN lines' : lines'[k] = u
          BY <4>1, AppendKeeps
        <4>3. HeldCount' <= HoldLines
          BY <1>2, <3>1, <4>2, LogAssumption
        <4>. QED
          BY <4>1, <4>2, <4>3 DEF LogTypeOK
      <3>2. CASE ~(HeldCount < HoldLines)
        <4>1. lines' = lines /\ dropped' = TRUE
          BY <1>4, <3>2 DEF Emit
        <4>2. HeldCount' = HeldCount
          BY <4>1 DEF HeldCount
        <4>. QED
          BY <4>1, <4>2 DEF LogTypeOK, NeverOvertakes
      <3>. QED
        BY <3>1, <3>2
    <2>4. LogTypeOK'
      BY <1>1, <2>2, <2>3 DEF LogTypeOK, Moved
    <2>5. TaskShape'
      BY <1>1, <2>2, <2>3 DEF TaskShape, Moved, At
    <2>6. Releasers' = Releasers
      BY <1>1, <2>2, ReleasersMoved DEF Releasing, Releasers
    <2>7. OneReleaser' /\ OpenShape'
      BY <1>1, <1>4, <2>6 DEF OneReleaser, OpenShape
    <2>8. WritesToLiveStream' /\ NothingLeftBehind'
      BY <1>1, <2>2 DEF WritesToLiveStream, NothingLeftBehind, Moved, Places
    <2>9. InFlight' => InFlight
      BY <2>2 DEF InFlight, At, Moved
    <2>10. MonitorInv'
      BY <1>1, <2>9, MonitorKeeps
    <2>. QED
      BY <2>3, <2>4, <2>5, <2>7, <2>8, <2>10, TypeKeeps
  <1>. QED
    BY <1>3, <1>4

LEMMA WriteDirectStep ==
    ASSUME IInv, NEW t \in Tasks, WriteDirect(t), UNCHANGED cardVars PROVE IInv'
  <1>. USE DEF Aside, IInv, LogInv
  <1>1. /\ doing[t].at = "direct" /\ Sent(t)
        /\ UNCHANGED <<log, stream, dropped, repeats, repeatTimer, refused>>
    BY DEF WriteDirect, At
  <1>2. PICK place \in Aside : Moved(t, place)
    BY GoesOnMoves DEF WriteDirect
  <1>3. /\ lines' \in Seq(Tasks \cup {Held}) /\ HeldCount' \in Nat /\ HeldCount' <= HeldCount
        /\ NeverOvertakes'
        /\ (\A k \in DOMAIN lines : lines[k] # Held) => \A k \in DOMAIN lines' : lines'[k] # Held
        /\ \A u \in Tasks \ {t} :
             (\E k \in DOMAIN lines : lines[k] = u) => \E k \in DOMAIN lines' : lines'[k] = u
    BY <1>1, SentKeeps
  <1>4. HeldCount \in Nat
    BY LinesType
  <1>5. LogTypeOK'
    BY <1>1, <1>2, <1>3, <1>4, LogAssumption DEF LogTypeOK, Moved
  <1>6. TaskShape'
    BY <1>2, <1>3 DEF TaskShape, Moved, At
  <1>7. Releasers' = Releasers
    BY <1>1, <1>2, ReleasersMoved DEF Releasing, Releasers
  <1>8. OneReleaser' /\ OpenShape'
    BY <1>1, <1>3, <1>7 DEF OneReleaser, OpenShape
  <1>9. WritesToLiveStream'
    BY <1>1, <1>2 DEF WritesToLiveStream, Moved
  <1>10. NothingLeftBehind'
    <2>1. HeldCount' > 0 => HeldCount > 0
      BY <1>3, <1>4
    <2>. QED
      BY <1>1, <1>2, <2>1 DEF NothingLeftBehind, Moved
  <1>11. InFlight' => InFlight
    BY <1>1, <1>2 DEF InFlight, At, Moved
  <1>12. MonitorInv'
    BY <1>1, <1>11, MonitorKeeps
  <1>. QED
    BY <1>3, <1>5, <1>6, <1>8, <1>9, <1>10, <1>12, TypeKeeps

(* A step that leaves the lines alone leaves them in order and counted. *)
LEMMA LinesKept ==
    ASSUME LogInv, lines' = lines
    PROVE  NeverOvertakes' /\ HeldCount' = HeldCount /\ lines' \in Seq(Tasks \cup {Held})
           /\ HeldCount' <= HoldLines
  BY DEF LogInv, NeverOvertakes, HeldCount, LogTypeOK

LEMMA TakeReleaseStep ==
    ASSUME IInv, NEW t \in Tasks, TakeRelease(t), UNCHANGED cardVars PROVE IInv'
  <1>. USE DEF Aside, IInv, LogInv
  <1>1. /\ doing[t].at = "release" /\ lines' = lines
        /\ UNCHANGED <<stream, dropped, repeats, repeatTimer, refused>>
    BY DEF TakeRelease, At
  <1>2. /\ log \in [has: BOOLEAN, open: BOOLEAN, releasing: BOOLEAN, ready: BOOLEAN, decided: BOOLEAN]
        /\ t \notin Releasers
    BY <1>1 DEF LogTypeOK, Releasers, Releasing
  <1>3. CASE /\ CanRelease
             /\ log' = [log EXCEPT !.releasing = TRUE, !.decided = TRUE]
             /\ Goes(t, IF log.has THEN "drops" ELSE "open")
    <2>. DEFINE place == IF log.has THEN "drops" ELSE "open"
    <2>1. /\ log' \in [has: BOOLEAN, open: BOOLEAN, releasing: BOOLEAN, ready: BOOLEAN, decided: BOOLEAN]
          /\ log'.has = log.has /\ log'.open = FALSE /\ log'.ready = TRUE /\ log'.releasing = TRUE
          /\ log.ready /\ ~log.open /\ ~log.releasing
      BY <1>2, <1>3 DEF CanRelease
    <2>2. Moved(t, place) /\ place \in {"drops", "open"}
      BY <1>3, GoesMoves DEF Places
    <2>3. LogTypeOK'
      BY <1>1, <2>1, <2>2, LinesKept DEF LogTypeOK, Moved
    <2>4. TaskShape'
      BY <1>1, <2>2 DEF TaskShape, Moved, At
    <2>5. Releasers = {} /\ Releasers' = {t}
      BY <2>1, <2>2, ReleasersMoved DEF OneReleaser, Releasing
    <2>6. OneReleaser' /\ OpenShape'
      BY <2>1, <2>5 DEF OneReleaser, OpenShape
    <2>7. mon.at # "drain" /\ (log.has => stream # "none")
      BY <2>1 DEF MonitorInv, StreamShape
    <2>8. WritesToLiveStream'
      BY <1>1, <2>2, <2>7 DEF WritesToLiveStream, Moved
    <2>9. NothingLeftBehind'
      BY <2>2 DEF NothingLeftBehind, Moved, Places
    <2>10. MonitorInv'
      BY <1>1, <2>1, <2>7 DEF MonitorInv, StreamShape, Silent, MonitorShape, cardVars
    <2>. QED
      BY <1>1, <2>3, <2>4, <2>6, <2>8, <2>9, <2>10, TypeKeeps, LinesKept
  <1>4. CASE log' = log /\ GoesOn(t) /\ (~CanRelease \/ ~log.decided)
    <2>1. PICK place \in Aside : Moved(t, place)
      BY <1>4, GoesOnMoves
    <2>2. LogTypeOK'
      BY <1>1, <1>4, <2>1, LinesKept DEF LogTypeOK, Moved
    <2>3. TaskShape'
      BY <1>1, <2>1 DEF TaskShape, Moved, At
    <2>4. Releasers' = Releasers
      BY <1>2, <2>1, ReleasersMoved DEF Releasing
    <2>5. OneReleaser' /\ OpenShape'
      BY <1>1, <1>4, <2>4 DEF OneReleaser, OpenShape
    <2>6. WritesToLiveStream'
      BY <1>1, <2>1 DEF WritesToLiveStream, Moved
    <2>7. NothingLeftBehind'
      <3>1. CASE log.releasing
        <4>1. PICK u \in Tasks : u \in Releasers'
          BY <2>4, <3>1 DEF OneReleaser, Releasers
        <4>. QED
          BY <4>1 DEF NothingLeftBehind, Releasers, Releasing, Places
      <3>2. CASE ~log.releasing
        BY <1>4, <3>2 DEF NothingLeftBehind, CanRelease
      <3>. QED
        BY <3>1, <3>2
    <2>8. InFlight' => InFlight
      BY <2>1 DEF InFlight, At, Moved
    <2>9. MonitorInv'
      BY <1>1, <1>4, <2>8, MonitorKeeps
    <2>. QED
      BY <1>1, <2>2, <2>3, <2>5, <2>6, <2>7, <2>9, TypeKeeps, LinesKept
  <1>. QED
    BY <1>3, <1>4 DEF TakeRelease

(* A task that ends a release without opening the log: the card is gone, or no *)
(* stream could be opened.                                                    *)
LEMMA ReleaseEnds ==
    ASSUME IInv, UNCHANGED cardVars, NEW t \in Releasers, NEW place \in Aside \cup {"closeOwn"},
           Moved(t, place), log' = [log EXCEPT !.releasing = FALSE],
           UNCHANGED <<stream, lines, dropped, repeats, repeatTimer>>,
           refused' \in BOOLEAN, refused' \/ ~log.ready
    PROVE  IInv'
  <1>. USE DEF Aside, IInv, LogInv
  <1>1. /\ log \in [has: BOOLEAN, open: BOOLEAN, releasing: BOOLEAN, ready: BOOLEAN, decided: BOOLEAN]
        /\ t \in Tasks
    BY DEF LogTypeOK, Releasers
  <1>2. /\ log' \in [has: BOOLEAN, open: BOOLEAN, releasing: BOOLEAN, ready: BOOLEAN, decided: BOOLEAN]
        /\ log'.has = log.has /\ log'.open = log.open /\ log'.ready = log.ready /\ log'.releasing = FALSE
    BY <1>1
  <1>3. LogTypeOK'
    BY <1>2, LinesKept DEF LogTypeOK, Moved
  <1>4. TaskShape'
    BY <1>1 DEF TaskShape, Moved, At
  <1>5. Releasers' = {}
    <2>1. Releasers = {t}
      BY DEF OneReleaser
    <2>. QED
      BY <1>1, <2>1, ReleasersMoved DEF Releasing
  <1>6. OneReleaser' /\ OpenShape'
    BY <1>2, <1>5 DEF OneReleaser, OpenShape
  <1>7. WritesToLiveStream'
    BY <1>1 DEF WritesToLiveStream, Moved
  <1>8. NothingLeftBehind'
    BY <1>2 DEF NothingLeftBehind
  <1>9. InFlight' => InFlight
    BY <1>1 DEF InFlight, At, Moved
  <1>10. MonitorInv'
    BY <1>2, <1>9 DEF MonitorInv, StreamShape, Silent, MonitorShape, cardVars
  <1>. QED
    BY <1>3, <1>4, <1>6, <1>7, <1>8, <1>10, TypeKeeps, LinesKept

(* A task that goes on from place to place in its release, or that a look at the *)
(* hold brings to the door.                                                   *)
LEMMA WalkStep ==
    ASSUME IInv, UNCHANGED cardVars, NEW t \in Tasks,
           NEW place \in Aside \cup {"release", "publish", "pop"}, Moved(t, place),
           t \in Releasers <=> place \in Releasing,
           place \in Aside => doing[t].at = "closeOwn",
           place = "pop" => doing[t].at = "drops",
           UNCHANGED <<log, stream, lines, repeats, repeatTimer, refused>>, dropped' \in BOOLEAN
    PROVE  IInv'
  <1>. USE DEF Aside, IInv, LogInv
  <1>1. LogTypeOK'
    BY LinesKept DEF LogTypeOK, Moved
  <1>2. TaskShape'
    BY DEF TaskShape, Moved, At
  <1>3. Releasers' = Releasers
    BY ReleasersMoved DEF Releasers
  <1>4. OneReleaser' /\ OpenShape'
    BY <1>3 DEF OneReleaser, OpenShape
  <1>5. WritesToLiveStream'
    BY DEF WritesToLiveStream, Moved
  <1>6. NothingLeftBehind'
    BY LinesKept DEF NothingLeftBehind, Moved, Places
  <1>7. InFlight' => InFlight
    BY DEF InFlight, At, Moved
  <1>8. MonitorInv'
    BY <1>7, MonitorKeeps
  <1>. QED
    BY <1>1, <1>2, <1>4, <1>5, <1>6, <1>8, TypeKeeps, LinesKept

LEMMA PublishStep ==
    ASSUME IInv, NEW t \in Tasks, Publish(t), UNCHANGED cardVars PROVE IInv'
  <1>. USE DEF IInv, LogInv
  <1>1. doing[t].at = "publish" /\ t \in Releasers /\ log.releasing
        /\ UNCHANGED <<lines, dropped, repeats, repeatTimer>>
    BY DEF Publish, At, Releasers, Releasing, OneReleaser
  <1>2. CASE log.ready
    <2>1. /\ log' = [log EXCEPT !.has = TRUE] /\ stream' = "ok" /\ refused' = FALSE
          /\ Moved(t, "drops")
      BY <1>2, GoesMoves DEF Publish, Places
    <2>2. /\ log' \in [has: BOOLEAN, open: BOOLEAN, releasing: BOOLEAN, ready: BOOLEAN, decided: BOOLEAN]
          /\ log'.has = TRUE /\ log'.open = log.open /\ log'.ready = TRUE /\ log'.releasing = TRUE
      BY <1>1, <1>2, <2>1 DEF LogTypeOK
    <2>3. LogTypeOK'
      BY <1>1, <2>1, <2>2, LinesKept DEF LogTypeOK, Moved
    <2>4. TaskShape'
      BY <1>1, <2>1 DEF TaskShape, Moved, At
    <2>5. Releasers' = Releasers
      BY <1>1, <2>1, ReleasersMoved DEF Releasing
    <2>6. OneReleaser' /\ OpenShape'
      BY <1>1, <2>2, <2>5 DEF OneReleaser, OpenShape
    <2>7. WritesToLiveStream'
      BY <2>1 DEF WritesToLiveStream
    <2>8. NothingLeftBehind'
      BY <2>1 DEF NothingLeftBehind, Moved, Places
    <2>9. MonitorInv'
      BY <1>2, <2>1, <2>2 DEF MonitorInv, StreamShape, Silent, MonitorShape, cardVars
    <2>. QED
      BY <1>1, <2>3, <2>4, <2>6, <2>7, <2>8, <2>9, TypeKeeps, LinesKept
  <1>3. CASE ~log.ready
    <2>1. /\ log' = [log EXCEPT !.releasing = FALSE] /\ UNCHANGED <<stream, refused>>
          /\ Moved(t, "closeOwn")
      BY <1>3, GoesMoves DEF Publish, Places
    <2>2. refused' \in BOOLEAN
      BY <2>1 DEF LogTypeOK
    <2>. QED
      BY <1>1, <1>3, <2>1, <2>2, ReleaseEnds
  <1>. QED
    BY <1>2, <1>3

LEMMA PopStep ==
    ASSUME IInv, NEW t \in Tasks, Pop(t), UNCHANGED cardVars PROVE IInv'
  <1>. USE DEF Aside, IInv, LogInv
  <1>1. doing[t].at = "pop" /\ t \in Releasers /\ log.releasing
        /\ UNCHANGED <<stream, dropped, repeats, repeatTimer, refused>>
    BY DEF Pop, At, Releasers, Releasing, OneReleaser
  <1>2. log \in [has: BOOLEAN, open: BOOLEAN, releasing: BOOLEAN, ready: BOOLEAN, decided: BOOLEAN]
        /\ refused' \in BOOLEAN /\ stream # "none" /\ ~log.open
    BY <1>1 DEF LogTypeOK, WritesToLiveStream, OpenShape
  <1>3. CASE ~log.ready
    <2>1. log' = [log EXCEPT !.releasing = FALSE] /\ GoesOn(t) /\ lines' = lines
      BY <1>3 DEF Pop
    <2>2. PICK place \in Aside : Moved(t, place)
      BY <2>1, GoesOnMoves
    <2>. QED
      BY <1>1, <1>2, <1>3, <2>1, <2>2, ReleaseEnds
  <1>4. CASE log.ready /\ HeldCount = 0
    <2>1. log' = [log EXCEPT !.open = TRUE, !.releasing = FALSE] /\ GoesOn(t) /\ lines' = lines
      BY <1>4 DEF Pop
    <2>2. PICK place \in Aside : Moved(t, place)
      BY <2>1, GoesOnMoves
    <2>3. /\ log' \in [has: BOOLEAN, open: BOOLEAN, releasing: BOOLEAN, ready: BOOLEAN, decided: BOOLEAN]
          /\ log'.has = log.has /\ log'.open = TRUE /\ log'.ready = TRUE /\ log'.releasing = FALSE
      BY <1>2, <1>4, <2>1
    <2>4. LogTypeOK'
      BY <1>1, <2>1, <2>2, <2>3, LinesKept DEF LogTypeOK, Moved
    <2>5. TaskShape'
      BY <1>1, <2>1, <2>2 DEF TaskShape, Moved, At
    <2>6. Releasers' = {}
      BY <1>1, <2>2, ReleasersMoved DEF Releasing, OneReleaser
    <2>7. mon.at # "drain" /\ log.has
      BY <1>2, <1>4 DEF MonitorInv, StreamShape
    <2>8. \A k \in DOMAIN lines : lines[k] # Held
      BY <1>4, LinesType
    <2>9. OneReleaser' /\ OpenShape'
      BY <2>1, <2>3, <2>6, <2>7, <2>8 DEF OneReleaser, OpenShape
    <2>10. WritesToLiveStream' /\ NothingLeftBehind'
      BY <1>1, <2>2, <2>3 DEF WritesToLiveStream, NothingLeftBehind, Moved
    <2>11. MonitorInv'
      BY <1>1, <2>3, <2>7, <1>4 DEF MonitorInv, StreamShape, Silent, MonitorShape, cardVars
    <2>. QED
      BY <2>1, <2>4, <2>5, <2>9, <2>10, <2>11, TypeKeeps, LinesKept
  <1>5. CASE log.ready /\ HeldCount # 0
    <2>1. log' = log /\ Goes(t, "held") /\ lines' = [lines EXCEPT ![FirstHeld] = t]
      BY <1>5 DEF Pop
    <2>2. Moved(t, "held")
      BY <2>1, GoesMoves DEF Places
    <2>3. /\ lines' \in Seq(Tasks \cup {Held}) /\ HeldCount' \in Nat /\ HeldCount' <= HeldCount
          /\ NeverOvertakes' /\ \E k \in DOMAIN lines' : lines'[k] = t
          /\ \A u \in Tasks :
               (\E k \in DOMAIN lines : lines[k] = u) => \E k \in DOMAIN lines' : lines'[k] = u
      BY <1>5, <2>1, PopKeeps
    <2>4. HeldCount \in Nat
      BY LinesType
    <2>5. LogTypeOK'
      BY <1>1, <2>1, <2>2, <2>3, <2>4, LogAssumption DEF LogTypeOK, Moved
    <2>6. TaskShape'
      BY <1>1, <2>2, <2>3 DEF TaskShape, Moved, At
    <2>7. Releasers' = Releasers
      BY <1>1, <2>2, ReleasersMoved DEF Releasing
    <2>8. OneReleaser' /\ OpenShape'
      BY <1>2, <2>1, <2>7 DEF OneReleaser, OpenShape
    <2>9. WritesToLiveStream' /\ NothingLeftBehind'
      BY <1>1, <1>2, <2>2 DEF WritesToLiveStream, NothingLeftBehind, Moved, Places
    <2>10. InFlight' => InFlight
      BY <2>2 DEF InFlight, At, Moved
    <2>11. MonitorInv'
      BY <1>1, <2>1, <2>10, MonitorKeeps
    <2>. QED
      BY <2>3, <2>5, <2>6, <2>8, <2>9, <2>11, TypeKeeps
  <1>. QED
    BY <1>3, <1>4, <1>5

LEMMA WriteHeldStep ==
    ASSUME IInv, NEW t \in Tasks, WriteHeld(t), UNCHANGED cardVars PROVE IInv'
  <1>. USE DEF IInv, LogInv
  <1>1. /\ doing[t].at = "held" /\ Sent(t) /\ t \in Releasers
        /\ UNCHANGED <<log, stream, dropped, repeats, repeatTimer, refused>>
    BY DEF WriteHeld, At, Releasers, Releasing
  <1>2. Moved(t, "pop")
    BY GoesMoves DEF WriteHeld, Places
  <1>3. /\ lines' \in Seq(Tasks \cup {Held}) /\ HeldCount' \in Nat /\ HeldCount' <= HeldCount
        /\ NeverOvertakes'
        /\ (\A k \in DOMAIN lines : lines[k] # Held) => \A k \in DOMAIN lines' : lines'[k] # Held
        /\ \A u \in Tasks \ {t} :
             (\E k \in DOMAIN lines : lines[k] = u) => \E k \in DOMAIN lines' : lines'[k] = u
    BY <1>1, SentKeeps
  <1>4. HeldCount \in Nat
    BY LinesType
  <1>5. LogTypeOK'
    BY <1>1, <1>2, <1>3, <1>4, LogAssumption DEF LogTypeOK, Moved
  <1>6. TaskShape'
    BY <1>2, <1>3 DEF TaskShape, Moved, At
  <1>7. Releasers' = Releasers
    BY <1>1, <1>2, ReleasersMoved DEF Releasing
  <1>8. OneReleaser' /\ OpenShape'
    BY <1>1, <1>3, <1>7 DEF OneReleaser, OpenShape
  <1>9. WritesToLiveStream' /\ NothingLeftBehind'
    BY <1>1, <1>2 DEF WritesToLiveStream, NothingLeftBehind, Moved, Places
  <1>10. InFlight' => InFlight
    BY <1>2 DEF InFlight, At, Moved
  <1>11. MonitorInv'
    BY <1>1, <1>10, MonitorKeeps
  <1>. QED
    BY <1>3, <1>5, <1>6, <1>8, <1>9, <1>11, TypeKeeps

LEMMA TaskSteps ==
    ASSUME IInv, NEW t \in Tasks, TaskStep(t) PROVE IInv'
  <1>. USE DEF TaskStep
  <1>0. LogTypeOK /\ dropped \in BOOLEAN /\ UNCHANGED cardVars
    BY DEF IInv, LogInv, LogTypeOK
  <1>1. CASE Emit(t)
    BY <1>1, EmitStep
  <1>2. CASE WriteDirect(t)
    BY <1>2, WriteDirectStep
  <1>3. CASE TakeRelease(t)
    BY <1>3, TakeReleaseStep
  <1>4. CASE CannotOpen(t)
    <2>1. PICK place \in Aside : Moved(t, place)
      BY <1>0, <1>4, GoesOnMoves DEF CannotOpen
    <2>. QED
      BY <1>0, <1>4, <2>1, ReleaseEnds DEF CannotOpen, At, Releasers, Releasing
  <1>5. CASE Open(t)
    <2>1. Moved(t, "publish")
      BY <1>0, <1>5, GoesMoves DEF Open, Places
    <2>. QED
      BY <1>0, <1>5, <2>1, WalkStep DEF Aside, Open, At, Releasers, Releasing
  <1>6. CASE Publish(t)
    BY <1>6, PublishStep
  <1>7. CASE CloseOwn(t)
    <2>1. PICK place \in Aside : Moved(t, place)
      BY <1>0, <1>7, GoesOnMoves DEF CloseOwn
    <2>. QED
      BY <1>0, <1>7, <2>1, WalkStep DEF Aside, CloseOwn, At, Releasers, Releasing
  <1>8. CASE TellDropped(t)
    <2>1. Moved(t, "pop")
      BY <1>0, <1>8, GoesMoves DEF TellDropped, Places
    <2>. QED
      BY <1>0, <1>8, <2>1, WalkStep DEF Aside, TellDropped, At, Releasers, Releasing
  <1>9. CASE Pop(t)
    BY <1>9, PopStep
  <1>10. CASE WriteHeld(t)
    BY <1>10, WriteHeldStep
  <1>11. CASE Collect(t)
    BY <1>0, <1>11, CollectStarts, StartStep
  <1>12. CASE Arm(t) \/ SetTimer(t)
    BY <1>0, <1>12, ArmStarts, StartStep
  <1>. QED
    BY <1>1, <1>2, <1>3, <1>4, <1>5, <1>6, <1>7, <1>8, <1>9, <1>10, <1>11, <1>12 DEF Step

(* The clock's answer arrives, or the time to wait for it is over. *)
LEMMA NotifyStep ==
    ASSUME IInv, NEW t \in Tasks, NotifyTimeDecided(t), UNCHANGED cardVars PROVE IInv'
  <1>. USE DEF IInv, LogInv
  <1>1. /\ doing[t].at = "idle" /\ t \notin Releasers
        /\ log' = [log EXCEPT !.decided = TRUE]
        /\ UNCHANGED <<stream, lines, dropped, repeats, repeatTimer, refused>>
    BY DEF NotifyTimeDecided, At, Releasers, Releasing
  <1>2. Moved(t, "release")
    BY GoesMoves DEF NotifyTimeDecided, Places
  <1>3. /\ log' \in [has: BOOLEAN, open: BOOLEAN, releasing: BOOLEAN, ready: BOOLEAN, decided: BOOLEAN]
        /\ log'.has = log.has /\ log'.open = log.open /\ log'.ready = log.ready
        /\ log'.releasing = log.releasing
    BY <1>1 DEF LogTypeOK
  <1>4. LogTypeOK'
    BY <1>1, <1>2, <1>3, LinesKept DEF LogTypeOK, Moved
  <1>5. TaskShape'
    BY <1>1, <1>2 DEF TaskShape, Moved, At
  <1>6. Releasers' = Releasers
    BY <1>1, <1>2, ReleasersMoved DEF Releasing
  <1>7. OneReleaser' /\ OpenShape'
    BY <1>1, <1>3, <1>6 DEF OneReleaser, OpenShape
  <1>8. WritesToLiveStream' /\ NothingLeftBehind'
    BY <1>1, <1>2 DEF WritesToLiveStream, NothingLeftBehind, Moved, Places
  <1>9. InFlight' => InFlight
    BY <1>2 DEF InFlight, At, Moved
  <1>10. MonitorInv'
    BY <1>1, <1>3, <1>9 DEF MonitorInv, StreamShape, Silent, MonitorShape, cardVars
  <1>. QED
    BY <1>1, <1>4, <1>5, <1>7, <1>8, <1>10, TypeKeeps, LinesKept

LEMMA LogsSteps ==
    ASSUME IInv, NEW t \in Tasks, Logs(t) \/ RepeatTimer(t), UNCHANGED cardVars PROVE IInv'
  <1>0. LogTypeOK /\ dropped \in BOOLEAN
    BY DEF IInv, LogInv, LogTypeOK
  <1>1. CASE \E key \in Keys : Record(t, key)
    BY <1>0, <1>1, RecordStarts, StartStep
  <1>2. CASE WriteErrorLog(t)
    BY <1>0, <1>2, WriteErrorLogStarts, StartStep
  <1>3. CASE RepeatTimer(t)
    BY <1>0, <1>3, FlushStarts, StartStep DEF RepeatTimer
  <1>4. CASE NotifyTimeDecided(t)
    BY <1>4, NotifyStep
  <1>5. CASE GateTimer(t)
    <2>1. Moved(t, "release")
      BY <1>0, <1>5, GoesMoves DEF GateTimer, Places
    <2>. QED
      BY <1>0, <1>5, <2>1, WalkStep DEF Aside, GateTimer, At, Releasers, Releasing
  <1>. QED
    BY <1>1, <1>2, <1>3, <1>4, <1>5 DEF Logs

-----------------------------------------------------------------------------
(* What comes from outside: a window ends, the stream or the card fails. *)
LEMMA OutsideStep ==
    ASSUME IInv, \/ (WindowEnds \/ StreamFails) /\ UNCHANGED cardVars
                 \/ CardChanges \/ UNCHANGED vars
    PROVE  IInv'
  <1>1. CASE WindowEnds /\ UNCHANGED cardVars
    <2>1. PICK i \in DOMAIN repeats : repeats' = [repeats EXCEPT ![i].recent = FALSE]
      BY <1>1 DEF WindowEnds
    <2>2. repeats \in Seq(Events) /\ Len(repeats) <= Slots
      BY DEF IInv, LogInv, LogTypeOK
    <2>. DEFINE e == [repeats[i] EXCEPT !.recent = FALSE]
    <2>3. i \in 1 .. Len(repeats) /\ repeats[i] \in Events
      BY <2>2, LenProperties, ElementOfSeq
    <2>4. e \in Events /\ repeats' = [repeats EXCEPT ![i] = e]
      BY <2>1, <2>2, <2>3 DEF Events
    <2>. HIDE DEF e
    <2>5. repeats' \in Seq(Events) /\ Len(repeats') <= Slots
      BY <2>2, <2>3, <2>4, ExceptSeq
    <2>6. UNCHANGED <<log, stream, lines, dropped, repeatTimer, doing, refused, cardVars>>
      BY <1>1 DEF WindowEnds
    <2>7. LogInv'
      BY <2>5, <2>6 DEF IInv, LogInv, LogTypeOK, HeldCount, TaskShape, At, OneReleaser, Releasers,
                        OpenShape, NeverOvertakes, WritesToLiveStream, NothingLeftBehind
    <2>8. MonitorInv'
      BY <2>6, MonitorKeeps DEF IInv, InFlight, At
    <2>. QED
      BY <2>6, <2>7, <2>8, TypeKeeps DEF IInv, LogInv
  <1>2. CASE StreamFails /\ UNCHANGED cardVars
    <2>1. stream # "none" /\ stream' = "failed"
          /\ UNCHANGED <<log, lines, dropped, repeats, repeatTimer, doing, refused, cardVars>>
      BY <1>2 DEF StreamFails
    <2>2. LogInv'
      BY <2>1 DEF IInv, LogInv, LogTypeOK, HeldCount, TaskShape, At, OneReleaser, Releasers,
                  OpenShape, NeverOvertakes, WritesToLiveStream, NothingLeftBehind
    <2>3. MonitorInv'
      BY <2>1 DEF IInv, MonitorInv, StreamShape, Silent, MonitorShape, cardVars
    <2>. QED
      BY <2>1, <2>2, <2>3, TypeKeeps DEF IInv, LogInv
  <1>3. CASE CardChanges
    <2>1. card' \in Cards /\ UNCHANGED <<logVars, mounted, state, logging, noRoom, mon>>
      BY <1>3 DEF CardChanges
    <2>. QED
      BY <2>1 DEF IInv, TypeOK, LogInv, LogTypeOK, HeldCount, TaskShape, At, OneReleaser, Releasers,
                  OpenShape, NeverOvertakes, WritesToLiveStream, NothingLeftBehind, logVars,
                  MonitorInv, StreamShape, Silent, InFlight, MonitorShape
  <1>4. CASE UNCHANGED vars
    BY <1>4 DEF vars, cardVars, IInv, TypeOK, LogInv, LogTypeOK, HeldCount, TaskShape, At,
                OneReleaser, Releasers, OpenShape, NeverOvertakes, WritesToLiveStream,
                NothingLeftBehind, logVars, MonitorInv, StreamShape, Silent, InFlight, MonitorShape
  <1>. QED
    BY <1>1, <1>2, <1>3, <1>4

-----------------------------------------------------------------------------
(* The monitor. *)
MonPlaces == {"poll", "selftest", "start", "started", "check", "stop", "clear", "drain", "deinit"}

LEMMA MonGoesType ==
    ASSUME NEW place \in MonPlaces, NEW to \in States, MonGoes(place, to)
    PROVE  mon' \in [at: MonPlaces, to: States, own: BOOLEAN] /\ mon'.at = place /\ mon'.to = to
  BY DEF MonGoes

(* A state that is published leaves the log's flags, its stream and the tasks in it. *)
LEMMA PublishedKeeps ==
    ASSUME IInv, NEW new \in States, NEW place \in MonPlaces, Published(new, place),
           At(Monitor, "idle")
    PROVE  /\ LogInv' /\ log' = log /\ stream' = stream /\ InFlight' = InFlight /\ state' = new
           /\ mon' \in [at: MonPlaces, to: States, own: BOOLEAN] /\ mon'.at = place /\ mon'.to = new
  <1>1. state' = new /\ MonGoes(place, new)
    BY DEF Published
  <1>2. CASE state \in {"DISABLED", new}
    <2>1. UNCHANGED logVars
      BY <1>2 DEF Published
    <2>. QED
      BY <1>1, <2>1, MonGoesType DEF IInv, LogInv, LogTypeOK, HeldCount, TaskShape, At, OneReleaser,
              Releasers, OpenShape, NeverOvertakes, WritesToLiveStream, NothingLeftBehind, logVars, InFlight
  <1>3. CASE state \notin {"DISABLED", new}
    <2>1. Record(Monitor, NoteKey)
      BY <1>3 DEF Published
    <2>2. StartsLogging(Monitor) /\ Monitor \in Tasks
      BY <2>1, RecordStarts DEF IInv, LogInv, Tasks
    <2>. QED
      BY <1>1, <2>2, StartKeepsLog, MonGoesType DEF IInv, StartsLogging
  <1>. QED
    BY <1>2, <1>3

LEMMA LogUnchanged ==
    ASSUME LogInv, UNCHANGED logVars
    PROVE  LogInv' /\ log' = log /\ stream' = stream /\ InFlight' = InFlight
  BY DEF LogInv, LogTypeOK, HeldCount, TaskShape, At, OneReleaser, Releasers, OpenShape,
         NeverOvertakes, WritesToLiveStream, NothingLeftBehind, logVars, InFlight

LEMMA TryMountStep == ASSUME IInv, TryMount PROVE IInv'
  <1>. USE DEF IInv
  <1>1. mon.at = "poll" /\ At(Monitor, "idle") /\ state \notin MountedStates
        /\ UNCHANGED <<card, logging, noRoom>>
    BY DEF TryMount, MonAt
  <1>2. PICK answer \in MountAnswers :
            IF answer # "OK"
            THEN Published(answer, "poll") /\ UNCHANGED mounted
            ELSE mounted' = TRUE /\ MonGoes("selftest", "OK") /\ UNCHANGED <<logVars, state>>
    BY DEF TryMount
  <1>3. answer \in {"NO_CARD", "NO_FILESYSTEM", "FAULT", "OK"}
    BY DEF MountAnswers
  <1>4. CASE answer # "OK"
    <2>1. /\ LogInv' /\ log' = log /\ stream' = stream /\ InFlight' = InFlight /\ state' = answer
          /\ mon' \in [at: MonPlaces, to: States, own: BOOLEAN] /\ mon'.at = "poll"
      BY <1>1, <1>2, <1>3, <1>4, PublishedKeeps DEF States, MonPlaces
    <2>2. TypeOK'
      BY <1>1, <1>2, <1>3, <1>4, <2>1 DEF TypeOK, LogInv, States, MonPlaces
    <2>3. MonitorInv'
      BY <1>1, <1>2, <1>3, <1>4, <2>1 DEF MonitorInv, StreamShape, Silent, MonitorShape, MountedStates
    <2>. QED
      BY <2>1, <2>2, <2>3
  <1>5. CASE answer = "OK"
    <2>1. mounted' = TRUE /\ MonGoes("selftest", "OK") /\ UNCHANGED <<logVars, state>>
      BY <1>2, <1>5
    <2>2. /\ LogInv' /\ log' = log /\ stream' = stream /\ InFlight' = InFlight
          /\ mon' \in [at: MonPlaces, to: States, own: BOOLEAN] /\ mon'.at = "selftest"
      BY <2>1, LogUnchanged, MonGoesType DEF States, MonPlaces
    <2>3. TypeOK'
      BY <1>1, <2>1, <2>2 DEF TypeOK, LogInv, MonPlaces
    <2>4. MonitorInv'
      BY <1>1, <2>1, <2>2 DEF MonitorInv, StreamShape, Silent, MonitorShape, MountedStates
    <2>. QED
      BY <2>2, <2>3, <2>4
  <1>. QED
    BY <1>4, <1>5

LEMMA SelfTestStep == ASSUME IInv, SelfTest PROVE IInv'
  <1>. USE DEF IInv
  <1>1. mon.at = "selftest" /\ At(Monitor, "idle") /\ UNCHANGED <<card, mounted, logging>>
        /\ noRoom' \in BOOLEAN
    BY DEF SelfTest, MonAt
  <1>2. CASE TestAnswer = "FULL"
    <2>1. Published("FULL", "check")
      BY <1>2 DEF SelfTest
    <2>2. /\ LogInv' /\ log' = log /\ stream' = stream /\ InFlight' = InFlight /\ state' = "FULL"
          /\ mon' \in [at: MonPlaces, to: States, own: BOOLEAN] /\ mon'.at = "check"
      BY <1>1, <2>1, PublishedKeeps DEF States, MonPlaces
    <2>3. TypeOK'
      BY <1>1, <2>2 DEF TypeOK, LogInv, States, MonPlaces
    <2>4. MonitorInv'
      BY <1>1, <2>2 DEF MonitorInv, StreamShape, Silent, MonitorShape, MountedStates
    <2>. QED
      BY <2>2, <2>3, <2>4
  <1>3. CASE TestAnswer # "FULL"
    <2>1. PICK place \in {"stop", "start"} :
             /\ MonGoes(place, IF place = "stop" THEN "FAULT" ELSE "OK") /\ UNCHANGED <<logVars, state>>
      BY <1>3 DEF SelfTest, TestAnswer
    <2>2. /\ LogInv' /\ log' = log /\ stream' = stream /\ InFlight' = InFlight
          /\ mon' \in [at: MonPlaces, to: States, own: BOOLEAN] /\ mon'.at = place
          /\ place = "stop" => mon'.to = "FAULT"
      BY <2>1, LogUnchanged, MonGoesType DEF States, MonPlaces
    <2>3. TypeOK'
      BY <1>1, <2>1, <2>2 DEF TypeOK, LogInv, MonPlaces
    <2>4. MonitorInv'
      BY <1>1, <2>1, <2>2 DEF MonitorInv, StreamShape, Silent, MonitorShape, MountedStates
    <2>. QED
      BY <2>2, <2>3, <2>4
  <1>. QED
    BY <1>2, <1>3

LEMMA StartWriterStep == ASSUME IInv, StartWriter PROVE IInv'
  <1>. USE DEF IInv, LogInv
  <1>1. /\ mon.at = "start" /\ doing[Monitor].at = "idle" /\ Monitor \in Tasks
        /\ log' = [log EXCEPT !.ready = TRUE]
        /\ UNCHANGED <<card, mounted, state, logging, noRoom>>
        /\ UNCHANGED <<stream, lines, dropped, repeats, repeatTimer>> /\ refused' = FALSE
        /\ MonGoes("started", "OK")
    BY DEF StartWriter, StartLog, MonAt, At, Tasks
  <1>2. Moved(Monitor, "release")
    <2>1. Goes(Monitor, "release")
      BY DEF StartWriter, StartLog, Goes
    <2>. QED
      BY <1>1, <2>1, GoesMoves DEF Places
  <1>3. /\ log' \in [has: BOOLEAN, open: BOOLEAN, releasing: BOOLEAN, ready: BOOLEAN, decided: BOOLEAN]
        /\ log'.has = log.has /\ log'.open = log.open /\ log'.ready = TRUE
        /\ log'.releasing = log.releasing
    BY <1>1 DEF LogTypeOK
  <1>4. LogTypeOK'
    BY <1>1, <1>2, <1>3, LinesKept DEF LogTypeOK, Moved
  <1>5. TaskShape'
    BY <1>1, <1>2 DEF TaskShape, Moved, At
  <1>6. Releasers' = Releasers
    BY <1>1, <1>2, ReleasersMoved DEF Releasing, Releasers
  <1>7. OneReleaser' /\ OpenShape'
    BY <1>1, <1>3, <1>6 DEF OneReleaser, OpenShape
  <1>8. WritesToLiveStream' /\ NothingLeftBehind'
    BY <1>1, <1>2 DEF WritesToLiveStream, NothingLeftBehind, Moved, Places
  <1>9. mon' \in [at: MonPlaces, to: States, own: BOOLEAN] /\ mon'.at = "started"
    BY <1>1, MonGoesType DEF States, MonPlaces
  <1>10. TypeOK'
    BY <1>1, <1>4, <1>9 DEF TypeOK, MonPlaces
  <1>11. MonitorInv'
    BY <1>1, <1>3, <1>9 DEF MonitorInv, StreamShape, Silent, MonitorShape
  <1>. QED
    BY <1>1, <1>4, <1>5, <1>7, <1>8, <1>10, <1>11, LinesKept

LEMMA WriterFailsStep == ASSUME IInv, WriterFails PROVE IInv'
  <1>. USE DEF IInv, LogInv
  <1>1. /\ mon.at = "start" /\ state # "FULL" /\ MonGoes("stop", "FAULT") /\ refused' = TRUE
        /\ UNCHANGED <<log, stream, lines, dropped, repeats, repeatTimer, doing>>
        /\ UNCHANGED <<card, mounted, state, logging, noRoom>>
    BY DEF WriterFails, MonAt
  <1>2. LogInv'
    BY <1>1 DEF LogTypeOK, HeldCount, TaskShape, At, OneReleaser, Releasers, OpenShape,
                NeverOvertakes, WritesToLiveStream, NothingLeftBehind
  <1>3. mon' \in [at: MonPlaces, to: States, own: BOOLEAN] /\ mon'.at = "stop" /\ mon'.to = "FAULT"
    BY <1>1, MonGoesType DEF States, MonPlaces
  <1>4. TypeOK'
    BY <1>1, <1>2, <1>3 DEF TypeOK, MonPlaces
  <1>5. MonitorInv'
    BY <1>1, <1>3 DEF MonitorInv, StreamShape, Silent, InFlight, At, MonitorShape
  <1>. QED
    BY <1>2, <1>4, <1>5

LEMMA StartedStep == ASSUME IInv, Started PROVE IInv'
  <1>. USE DEF IInv
  <1>1. mon.at = "started" /\ At(Monitor, "idle") /\ UNCHANGED <<card, mounted, noRoom>>
    BY DEF Started, MonAt
  <1>2. CASE MonGoes("stop", "FAULT") /\ UNCHANGED <<logVars, state, logging>>
    <2>1. /\ LogInv' /\ log' = log /\ stream' = stream /\ InFlight' = InFlight
          /\ mon' \in [at: MonPlaces, to: States, own: BOOLEAN] /\ mon'.at = "stop" /\ mon'.to = "FAULT"
      BY <1>2, LogUnchanged, MonGoesType DEF States, MonPlaces
    <2>2. TypeOK'
      BY <1>1, <1>2, <2>1 DEF TypeOK, LogInv, MonPlaces
    <2>3. MonitorInv'
      BY <1>1, <1>2, <2>1 DEF MonitorInv, StreamShape, Silent, MonitorShape
    <2>. QED
      BY <2>1, <2>2, <2>3
  <1>3. CASE logging' = TRUE /\ Published("OK", IF state = "FULL" THEN "poll" ELSE "check")
    <2>1. /\ LogInv' /\ log' = log /\ stream' = stream /\ InFlight' = InFlight /\ state' = "OK"
          /\ mon' \in [at: MonPlaces, to: States, own: BOOLEAN] /\ mon'.at \in {"poll", "check"}
      <3>1. (IF state = "FULL" THEN "poll" ELSE "check") \in MonPlaces \cap {"poll", "check"}
        BY DEF MonPlaces
      <3>. QED
        BY <1>1, <1>3, <3>1, PublishedKeeps DEF States
    <2>2. TypeOK'
      BY <1>1, <1>3, <2>1 DEF TypeOK, LogInv, States, MonPlaces
    <2>3. MonitorInv'
      BY <1>1, <1>3, <2>1 DEF MonitorInv, StreamShape, Silent, MonitorShape, MountedStates
    <2>. QED
      BY <2>1, <2>2, <2>3
  <1>. QED
    BY <1>2, <1>3 DEF Started

LEMMA CheckMountedStep == ASSUME IInv, CheckMounted PROVE IInv'
  <1>. USE DEF IInv
  <1>1. /\ At(Monitor, "idle") /\ UNCHANGED <<card, mounted, logging, noRoom>>
        /\ mon.at \in {"poll", "check"} /\ mounted /\ state \in MountedStates
    BY DEF CheckMounted, Looks, MonAt, MonitorInv, MonitorShape
  <1>2. PICK answer \in CheckAnswer :
            CASE answer \notin MountedStates -> MonGoes("stop", answer) /\ UNCHANGED <<logVars, state>>
              [] answer = "FULL" /\ state = "OK" -> Published("FULL", "stop")
              [] answer = "OK" /\ state = "FULL" -> MonGoes("start", "OK") /\ UNCHANGED <<logVars, state>>
              [] OTHER -> MonGoes("poll", state) /\ UNCHANGED <<logVars, state>>
    BY DEF CheckMounted
  <1>3. answer \in {"NO_CARD", "FAULT", "FULL", "OK"}
    BY DEF CheckAnswer
  <1>4. CASE answer = "FULL" /\ state = "OK"
    <2>1. Published("FULL", "stop")
      BY <1>2, <1>4 DEF MountedStates
    <2>2. /\ LogInv' /\ log' = log /\ stream' = stream /\ InFlight' = InFlight /\ state' = "FULL"
          /\ mon' \in [at: MonPlaces, to: States, own: BOOLEAN] /\ mon'.at = "stop" /\ mon'.to = "FULL"
      BY <1>1, <2>1, PublishedKeeps DEF States, MonPlaces
    <2>3. TypeOK'
      BY <1>1, <2>2 DEF TypeOK, LogInv, States, MonPlaces
    <2>4. MonitorInv'
      BY <1>1, <2>2 DEF MonitorInv, StreamShape, Silent, MonitorShape, MountedStates
    <2>. QED
      BY <2>2, <2>3, <2>4
  <1>5. CASE ~(answer = "FULL" /\ state = "OK")
    <2>1. PICK place \in {"stop", "start", "poll"}, to \in States :
             /\ MonGoes(place, to) /\ UNCHANGED <<logVars, state>>
             /\ place = "stop" => to \in {"NO_CARD", "FAULT"}
             /\ place = "start" => state = "FULL"
      <3>1. CASE answer \in {"NO_CARD", "FAULT"}
        BY <1>2, <3>1 DEF MountedStates, States
      <3>2. CASE answer = "OK" /\ state = "FULL"
        BY <1>2, <3>2 DEF MountedStates, States
      <3>3. CASE answer = state
        BY <1>1, <1>2, <3>3 DEF MountedStates, States
      <3>. QED
        BY <1>1, <1>3, <1>5, <3>1, <3>2, <3>3 DEF MountedStates
    <2>2. /\ LogInv' /\ log' = log /\ stream' = stream /\ InFlight' = InFlight
          /\ mon' \in [at: MonPlaces, to: States, own: BOOLEAN] /\ mon'.at = place /\ mon'.to = to
      BY <2>1, LogUnchanged, MonGoesType DEF MonPlaces
    <2>3. TypeOK'
      BY <1>1, <2>1, <2>2 DEF TypeOK, LogInv, MonPlaces
    <2>4. MonitorInv'
      <3>1. StreamShape' /\ Silent'
        BY <1>1, <2>1, <2>2 DEF MonitorInv, StreamShape, Silent
      <3>2. MonitorShape'
        BY <1>1, <2>1, <2>2 DEF MonitorInv, MonitorShape, MountedStates
      <3>. QED
        BY <3>1, <3>2 DEF MonitorInv
    <2>. QED
      BY <2>2, <2>3, <2>4
  <1>. QED
    BY <1>4, <1>5

LEMMA StopFlushStep == ASSUME IInv, StopFlush PROVE IInv'
  <1>. USE DEF IInv
  <1>1. mon.at = "stop" /\ Flush(Monitor, TRUE) /\ MonGoes("clear", mon.to) /\ repeatTimer' = repeatTimer
        /\ UNCHANGED <<card, mounted, state, logging, noRoom>>
    BY DEF StopFlush, MonAt
  <1>2. Monitor \in Tasks /\ mon.to \in States
    BY DEF Tasks, TypeOK
  <1>3. StartsLogging(Monitor)
    BY <1>1, <1>2, FlushStarts DEF LogInv, LogTypeOK
  <1>4. LogInv' /\ InFlight' = InFlight /\ log' = log /\ stream' = stream
    BY <1>2, <1>3, StartKeepsLog DEF StartsLogging
  <1>5. mon' \in [at: MonPlaces, to: States, own: BOOLEAN] /\ mon'.at = "clear" /\ mon'.to = mon.to
    BY <1>1, <1>2, MonGoesType DEF MonPlaces
  <1>6. TypeOK'
    BY <1>1, <1>4, <1>5 DEF TypeOK, LogInv, MonPlaces
  <1>7. MonitorInv'
    BY <1>1, <1>4, <1>5 DEF MonitorInv, StreamShape, Silent, MonitorShape
  <1>. QED
    BY <1>4, <1>6, <1>7

LEMMA StopClearStep == ASSUME IInv, StopClear PROVE IInv'
  <1>. USE DEF IInv, LogInv
  <1>1. /\ mon.at = "clear"
        /\ log' = [log EXCEPT !.has = FALSE, !.open = FALSE, !.ready = FALSE]
        /\ refused' = FALSE /\ UNCHANGED <<stream, lines, dropped, repeats, repeatTimer, doing>>
        /\ mon' = [mon EXCEPT !.at = "drain", !.own = log.has]
        /\ UNCHANGED <<card, mounted, state, logging, noRoom>>
    BY DEF StopClear, ClearLog, MonAt
  <1>2. /\ log' \in [has: BOOLEAN, open: BOOLEAN, releasing: BOOLEAN, ready: BOOLEAN, decided: BOOLEAN]
        /\ log'.has = FALSE /\ log'.open = FALSE /\ log'.ready = FALSE
        /\ log'.releasing = log.releasing /\ log.has \in BOOLEAN
    BY <1>1 DEF LogTypeOK
  <1>3. mon \in [at: MonPlaces, to: States, own: BOOLEAN]
    BY DEF TypeOK, MonPlaces
  <1>4. mon' \in [at: MonPlaces, to: States, own: BOOLEAN] /\ mon'.at = "drain" /\ mon'.to = mon.to
        /\ mon'.own = log.has
    BY <1>1, <1>2, <1>3 DEF MonPlaces
  <1>5. LogTypeOK'
    BY <1>1, <1>2, LinesKept DEF LogTypeOK
  <1>6. TaskShape' /\ OneReleaser' /\ OpenShape' /\ WritesToLiveStream' /\ NothingLeftBehind'
    BY <1>1, <1>2 DEF TaskShape, At, OneReleaser, Releasers, OpenShape, WritesToLiveStream,
                      NothingLeftBehind
  <1>7. TypeOK'
    BY <1>1, <1>4, <1>5 DEF TypeOK, MonPlaces
  <1>8. MonitorInv'
    BY <1>1, <1>2, <1>4 DEF MonitorInv, StreamShape, Silent, MonitorShape
  <1>. QED
    BY <1>1, <1>5, <1>6, <1>7, <1>8, LinesKept

(* The stream is closed when nobody writes to it, and nobody can begin to.    *)
LEMMA StopCloseStep == ASSUME IInv, StopClose PROVE IInv'
  <1>. USE DEF IInv, LogInv
  <1>. DEFINE place == IF mon.to = "FULL" THEN "poll" ELSE "deinit"
  <1>1. /\ mon.at = "drain" /\ ~InFlight /\ ~log.releasing
        /\ stream' = (IF mon.own THEN "none" ELSE stream)
        /\ UNCHANGED <<log, lines, dropped, repeats, repeatTimer, doing, refused>>
        /\ logging' = FALSE /\ MonGoes(place, mon.to)
        /\ UNCHANGED <<card, mounted, state, noRoom>>
    BY DEF StopClose, Drained, CloseStream, MonAt
  <1>2. ~log.has /\ ~log.open /\ ~log.ready /\ (mon.own <=> stream # "none")
    BY <1>1 DEF MonitorInv, StreamShape
  <1>3. stream' = "none"
    BY <1>1, <1>2 DEF TypeOK
  <1>4. Releasers = {} /\ \A t \in Tasks : doing[t].at \notin {"direct", "drops", "pop", "held"}
    BY <1>1 DEF OneReleaser, Releasers, Releasing, InFlight, At
  <1>5. place \in MonPlaces /\ mon.to \in States
    BY DEF MonPlaces, TypeOK
  <1>. HIDE DEF place
  <1>6. mon' \in [at: MonPlaces, to: States, own: BOOLEAN] /\ mon'.at = place /\ mon'.to = mon.to
    BY <1>1, <1>5, MonGoesType
  <1>7. LogTypeOK'
    BY <1>1, <1>3, LinesKept DEF LogTypeOK
  <1>8. TaskShape' /\ OneReleaser' /\ OpenShape' /\ WritesToLiveStream' /\ NothingLeftBehind'
    BY <1>1, <1>2, <1>4 DEF TaskShape, At, OneReleaser, Releasers, OpenShape, WritesToLiveStream,
                            NothingLeftBehind
  <1>9. TypeOK'
    BY <1>1, <1>6, <1>7 DEF TypeOK, MonPlaces
  <1>10. StreamShape' /\ Silent'
    BY <1>1, <1>2, <1>3, <1>6 DEF StreamShape, Silent, InFlight, At, place
  <1>11. MonitorShape'
    BY <1>1, <1>2, <1>6 DEF MonitorInv, MonitorShape, MountedStates, place
  <1>. QED
    BY <1>1, <1>7, <1>8, <1>9, <1>10, <1>11, LinesKept DEF MonitorInv

LEMMA DeinitStep == ASSUME IInv, Deinit PROVE IInv'
  <1>. USE DEF IInv
  <1>1. /\ mon.at = "deinit" /\ At(Monitor, "idle") /\ mounted' = FALSE /\ Published(mon.to, "poll")
        /\ UNCHANGED <<card, logging, noRoom>> /\ mon.to \in States
    BY DEF Deinit, MonAt, TypeOK
  <1>2. /\ LogInv' /\ log' = log /\ stream' = stream /\ InFlight' = InFlight /\ state' = mon.to
        /\ mon' \in [at: MonPlaces, to: States, own: BOOLEAN] /\ mon'.at = "poll"
    BY <1>1, PublishedKeeps DEF MonPlaces
  <1>3. TypeOK'
    BY <1>1, <1>2 DEF TypeOK, LogInv, MonPlaces
  <1>4. MonitorInv'
    BY <1>1, <1>2 DEF MonitorInv, StreamShape, Silent, MonitorShape, MountedStates
  <1>. QED
    BY <1>2, <1>3, <1>4

-----------------------------------------------------------------------------
LEMMA InitHolds == Init => IInv
  <1>. SUFFICES ASSUME Init PROVE IInv
    OBVIOUS
  <1>. USE DEF Init, LogInit
  <1>1. \A t \in Tasks : doing[t].at = "idle" /\ doing[t].todo = 0
    BY DEF Idle
  <1>2. HeldCount = 0 /\ lines \in Seq(Tasks \cup {Held}) /\ DOMAIN lines = {}
    BY FS_EmptySet DEF HeldCount
  <1>3. LogTypeOK
    <2>1. doing \in [Tasks -> Doings]
      BY LogAssumption DEF Idle, Places, Doings, Afters
    <2>2. repeats \in Seq(Events) /\ Len(repeats) <= Slots
      BY LogAssumption
    <2>3. log \in [has: BOOLEAN, open: BOOLEAN, releasing: BOOLEAN, ready: BOOLEAN, decided: BOOLEAN]
      OBVIOUS
    <2>4. HeldCount <= HoldLines
      BY <1>2, LogAssumption
    <2>. QED
      BY <1>2, <2>1, <2>2, <2>3, <2>4 DEF LogTypeOK
  <1>4. TypeOK
    BY <1>3 DEF TypeOK, States
  <1>5. LogInv
    BY <1>1, <1>2, <1>3 DEF LogInv, TaskShape, At, OneReleaser, Releasers, Releasing, OpenShape,
                            NeverOvertakes, WritesToLiveStream, NothingLeftBehind
  <1>6. MonitorInv
    BY <1>1 DEF MonitorInv, StreamShape, Silent, InFlight, At, MonitorShape, MountedStates
  <1>. QED
    BY <1>4, <1>5, <1>6 DEF IInv

LEMMA NextHolds == ASSUME IInv, [Next]_vars PROVE IInv'
  <1>1. CASE \E t \in Tasks : TaskStep(t)
    BY <1>1, TaskSteps
  <1>2. CASE \E t \in Loggers : (Logs(t) \/ RepeatTimer(t)) /\ UNCHANGED cardVars
    BY <1>2, LogsSteps DEF Tasks
  <1>3. CASE (WindowEnds \/ (StreamFails /\ card # "good")) /\ UNCHANGED cardVars
    BY <1>3, OutsideStep
  <1>4. CASE MonitorStep
    BY <1>4, TryMountStep, SelfTestStep, StartWriterStep, WriterFailsStep, StartedStep,
       CheckMountedStep, StopFlushStep, StopClearStep, StopCloseStep, DeinitStep DEF MonitorStep
  <1>5. CASE CardChanges \/ UNCHANGED vars
    BY <1>5, OutsideStep
  <1>. QED
    BY <1>1, <1>2, <1>3, <1>4, <1>5 DEF Next

LEMMA Invariance == Spec => []IInv
  <1>1. IInv /\ [Next]_vars => IInv'
    BY NextHolds
  <1>. QED
    BY InitHolds, <1>1, PTL DEF Spec

-----------------------------------------------------------------------------
(* The types; among them, that no more lines are held than there is room for, *)
(* and no more events remembered than there are slots.                        *)
THEOREM TypeCorrect == Spec => []TypeOK
  <1>1. IInv => TypeOK
    BY DEF IInv
  <1>. QED
    BY <1>1, Invariance, PTL

(* A line never overtakes an older one that is held, however the log is       *)
(* opened, stopped and started again under the feet of the tasks that log.    *)
THEOREM LinesKeepTheirOrder == Spec => []NeverOvertakes
  <1>1. IInv => NeverOvertakes
    BY DEF IInv, LogInv
  <1>. QED
    BY <1>1, Invariance, PTL

(* Nobody writes to a stream that error_log_store_stop() has closed.          *)
THEOREM NobodyWritesToTheClosed == Spec => []WritesToLiveStream
  <1>1. IInv => WritesToLiveStream
    BY DEF IInv, LogInv
  <1>. QED
    BY <1>1, Invariance, PTL

(* No line is left in the hold of an open door: whenever lines are held that  *)
(* could be written, and no open has failed, some task is about to look.      *)
THEOREM TheHoldIsLookedAt == Spec => []NothingLeftBehind
  <1>1. IInv => NothingLeftBehind
    BY DEF IInv, LogInv
  <1>. QED
    BY <1>1, Invariance, PTL

(* What is shown of the card is true whenever the monitor rests.              *)
THEOREM WhatIsShownIsTrue == Spec => []StateIsTrue
  <1>1. IInv => StateIsTrue
    BY DEF IInv, MonitorInv, MonitorShape, Silent, StateIsTrue, MonAt
  <1>. QED
    BY <1>1, Invariance, PTL

-----------------------------------------------------------------------------
(* What is counted is told.  Whoever stands between two sections of a flush   *)
(* has nowhere else to go.                                                    *)
AtRest == \A t \in Tasks : doing[t].at \in {"idle"} \cup ToCollect => doing[t].after = "idle"
Collects(d) == d.at \in ToCollect \/ d.after \in ToCollect

CountInv == LogTypeOK /\ AtRest /\ CountsAreTold

LEMMA StillTold ==
    ASSUME CountInv, LogTypeOK', NEW t \in Tasks, NEW d, doing' = [doing EXCEPT ![t] = d],
           d.at \in {"idle"} \cup ToCollect => d.after = "idle",
           \/ Collects(d)
           \/ Counted' = {} \/ repeatTimer'
           \/ ~Collects(doing[t]) /\ (Counted' # {} => Counted # {}) /\ repeatTimer' = repeatTimer
    PROVE  CountInv'
  <1>1. doing'[t] = d /\ \A u \in Tasks \ {t} : doing'[u] = doing[u]
    BY DEF CountInv, LogTypeOK
  <1>2. AtRest'
    BY <1>1 DEF CountInv, AtRest
  <1>3. CountsAreTold'
    BY <1>1 DEF CountInv, CountsAreTold, Collects
  <1>. QED
    BY <1>2, <1>3 DEF CountInv

(* A task on its way through the log keeps what it has to do afterwards.      *)
LEMMA WayKeepsCounts ==
    ASSUME CountInv, LogTypeOK', NEW t \in Tasks, doing[t].at \notin ToCollect,
           repeats' = repeats, repeatTimer' = repeatTimer,
           \/ GoesOn(t)
           \/ \E place \in Places \ ({"idle"} \cup ToCollect) : Goes(t, place) \/ OneLess(t, place)
    PROVE  CountInv'
  <1>1. doing \in [Tasks -> Doings] /\ doing[t] \in Doings /\ Counted' = Counted
    BY DEF CountInv, LogTypeOK, Counted
  <1>2. CASE GoesOn(t)
    <2>. DEFINE d == IF doing[t].todo > 0
                     THEN [at |-> "emit", todo |-> doing[t].todo, after |-> doing[t].after]
                     ELSE [at |-> doing[t].after, todo |-> 0, after |-> "idle"]
    <2>1. doing' = [doing EXCEPT ![t] = d]
      BY <1>2 DEF GoesOn, Has
    <2>2. d.at \in {"idle"} \cup ToCollect => d.after = "idle"
      BY DEF ToCollect
    <2>3. Collects(doing[t]) => Collects(d)
      BY DEF Collects
    <2>. HIDE DEF d
    <2>. QED
      BY <1>1, <2>1, <2>2, <2>3, StillTold
  <1>3. ASSUME NEW place \in Places \ ({"idle"} \cup ToCollect), Goes(t, place) PROVE CountInv'
    <2>. DEFINE d == [doing[t] EXCEPT !.at = place]
    <2>1. doing' = [doing EXCEPT ![t] = d]
      BY <1>1, <1>3 DEF Goes
    <2>2. d.at = place /\ d.after = doing[t].after
      BY <1>1 DEF Doings
    <2>3. Collects(doing[t]) => Collects(d)
      BY <2>2 DEF Collects
    <2>. HIDE DEF d
    <2>. QED
      BY <1>1, <2>1, <2>2, <2>3, StillTold
  <1>4. ASSUME NEW place \in Places \ ({"idle"} \cup ToCollect), OneLess(t, place) PROVE CountInv'
    <2>. DEFINE d == [at |-> place, todo |-> doing[t].todo - 1, after |-> doing[t].after]
    <2>1. doing' = [doing EXCEPT ![t] = d]
      BY <1>1, <1>4 DEF OneLess
    <2>2. d.at = place /\ d.after = doing[t].after
      OBVIOUS
    <2>3. Collects(doing[t]) => Collects(d)
      BY <2>2 DEF Collects
    <2>. HIDE DEF d
    <2>. QED
      BY <1>1, <2>1, <2>2, <2>3, StillTold
  <1>. QED
    BY <1>2, <1>3, <1>4

(* A flush that takes some counts comes back, or sees to the timer.           *)
LEMMA TakesKeepsCounts ==
    ASSUME CountInv, LogTypeOK', NEW t \in Tasks, NEW taken, NEW next \in {"collect", "collectAll"},
           Takes(t, taken, next), Cardinality(taken) \in Nat
    PROVE  CountInv'
  <1>. DEFINE n == Cardinality(taken)
              after == IF n = Batch THEN next ELSE "arm"
              d == IF n > 0 THEN [at |-> "emit", todo |-> n, after |-> after]
                            ELSE [at |-> after, todo |-> 0, after |-> "idle"]
  <1>1. doing' = [doing EXCEPT ![t] = d]
    BY DEF Takes, Has
  <1>2. after \in ToCollect
    BY DEF ToCollect
  <1>. HIDE DEF after
  <1>3. Collects(d) /\ (d.at \in {"idle"} \cup ToCollect => d.after = "idle")
    BY <1>2 DEF Collects, ToCollect
  <1>. HIDE DEF d
  <1>. QED
    BY <1>1, <1>3, StillTold

(* Only a repeat is counted. *)
LEMMA CheckedCounts ==
    ASSUME LogTypeOK, NEW key \in Keys \cup {NoteKey}, Checked(key).lines # 0, repeats' = Checked(key).slots
    PROVE  Counted' # {} => Counted # {}
  <1>1. repeats \in Seq(Events) /\ Len(repeats) \in Nat /\ DOMAIN repeats = 1 .. Len(repeats)
    BY LenProperties DEF LogTypeOK
  <1>2. Event(key) \in Events /\ ~Event(key).again
    BY DEF Event, Events
  <1>3. ASSUME NEW s \in Seq(Events), repeats' = Append(s, Event(key)),
               \A i \in 1 .. Len(s) : \E j \in 1 .. Len(repeats) : s[i] = repeats[j]
        PROVE  Counted' # {} => Counted # {}
    <2>. SUFFICES ASSUME NEW i \in DOMAIN repeats', repeats'[i].again PROVE Counted # {}
      BY DEF Counted
    <2>1. Len(s) \in Nat /\ i \in 1 .. Len(s) + 1 /\ repeats'[Len(s) + 1] = Event(key)
          /\ \A k \in 1 .. Len(s) : repeats'[k] = s[k]
      BY <1>2, <1>3
    <2>2. i \in 1 .. Len(s)
      BY <1>2, <2>1
    <2>3. PICK j \in 1 .. Len(repeats) : s[i] = repeats[j]
      BY <1>3, <2>2
    <2>. QED
      BY <1>1, <2>1, <2>2, <2>3 DEF Counted
  <1>4. ASSUME NEW i \in 1 .. Len(repeats), repeats' = Append(RemoveAt(repeats, i), Event(key))
        PROVE  Counted' # {} => Counted # {}
    <2>. DEFINE s == RemoveAt(repeats, i)
    <2>1. /\ s \in Seq(Events) /\ Len(s) = Len(repeats) - 1
          /\ \A k \in 1 .. Len(repeats) - 1 : s[k] = IF k < i THEN repeats[k] ELSE repeats[k + 1]
      BY <1>1, Removed
    <2>. HIDE DEF s
    <2>2. \A k \in 1 .. Len(s) : \E j \in 1 .. Len(repeats) : s[k] = repeats[j]
      BY <1>1, <2>1
    <2>3. repeats' = Append(s, Event(key))
      BY <1>4 DEF s
    <2>. QED
      BY <1>3, <2>1, <2>2, <2>3
  <1>5. CASE Seen(key)
    <2>1. PlaceOf(key) \in 1 .. Len(repeats)
      BY <1>1, <1>5 DEF Seen, PlaceOf
    <2>2. repeats' = Append(RemoveAt(repeats, PlaceOf(key)), Event(key))
      BY <1>5 DEF Checked
    <2>. QED
      BY <1>4, <2>1, <2>2
  <1>6. CASE ~Seen(key) /\ Len(repeats) < Slots
    <2>1. repeats' = Append(repeats, Event(key))
      BY <1>6 DEF Checked
    <2>. QED
      BY <1>1, <1>3, <2>1
  <1>7. CASE ~Seen(key) /\ ~(Len(repeats) < Slots)
    <2>1. Victim \in 1 .. Len(repeats) /\ repeats' = Append(RemoveAt(repeats, Victim), Event(key))
      BY <1>7, VictimIsThere DEF Checked
    <2>. QED
      BY <1>4, <2>1
  <1>. QED
    BY <1>5, <1>6, <1>7

LEMMA LogsKeepCounts ==
    ASSUME CountInv, LogTypeOK', NEW t \in Tasks,
           (\E key \in Keys \cup {NoteKey} : Record(t, key)) \/ WriteErrorLog(t)
    PROVE  CountInv'
  <1>1. doing[t].at = "idle" /\ ~Collects(doing[t]) /\ repeatTimer' = repeatTimer
    BY DEF CountInv, AtRest, Collects, ToCollect, Record, WriteErrorLog, At
  <1>2. ASSUME NEW key \in Keys \cup {NoteKey}, Record(t, key), Checked(key).lines = 0 PROVE CountInv'
    <2>. DEFINE d == [at |-> "arm", todo |-> 0, after |-> "idle"]
    <2>1. doing' = [doing EXCEPT ![t] = d]
      BY <1>2 DEF Record, Has
    <2>2. Collects(d)
      BY DEF Collects, ToCollect
    <2>. QED
      BY <2>1, <2>2, StillTold
  <1>3. ASSUME NEW key \in Keys \cup {NoteKey}, Record(t, key), Checked(key).lines # 0 PROVE CountInv'
    <2>. DEFINE d == [at |-> "emit", todo |-> Checked(key).lines, after |-> "idle"]
    <2>1. Checked(key).lines > 0
      BY <1>3, CheckedType, LogAssumption DEF CountInv
    <2>2. doing' = [doing EXCEPT ![t] = d]
      BY <1>3, <2>1 DEF Record, Has
    <2>3. Counted' # {} => Counted # {}
      BY <1>3, CheckedCounts DEF CountInv, Record
    <2>. QED
      BY <1>1, <2>2, <2>3, StillTold
  <1>4. CASE WriteErrorLog(t)
    <2>. DEFINE d == [at |-> "emit", todo |-> 1, after |-> "idle"]
    <2>1. doing' = [doing EXCEPT ![t] = d] /\ Counted' = Counted
      BY <1>4 DEF WriteErrorLog, Has, Counted
    <2>. QED
      BY <1>1, <2>1, StillTold
  <1>. QED
    BY <1>2, <1>3, <1>4

LEMMA FlushKeepsCounts ==
    ASSUME CountInv, LogTypeOK', NEW t \in Tasks,
           Collect(t) \/ \E force \in BOOLEAN : Flush(t, force)
    PROVE  CountInv'
  <1>1. PICK taken \in SUBSET Counted, next \in {"collect", "collectAll"} : Takes(t, taken, next)
    <2>1. CASE \E taken \in SUBSET Counted : Takes(t, taken, "collect")
      BY <2>1
    <2>2. CASE \E taken \in Most(Counted) : Takes(t, taken, "collectAll")
      BY <2>2, MostAreFew
    <2>3. ASSUME NEW force \in BOOLEAN, Flush(t, force)
          PROVE  \E taken \in SUBSET Counted, next \in {"collect", "collectAll"} : Takes(t, taken, next)
      BY <2>3, MostAreFew DEF Flush, Over
    <2>. QED
      BY <2>1, <2>2, <2>3 DEF Collect
  <1>2. Cardinality(taken) \in Nat
    <2>1. repeats \in Seq(Events) /\ Len(repeats) \in Nat /\ DOMAIN repeats = 1 .. Len(repeats)
      BY LenProperties DEF CountInv, LogTypeOK
    <2>2. IsFiniteSet(1 .. Len(repeats))
      BY <2>1, FS_Interval
    <2>3. taken \in SUBSET (1 .. Len(repeats))
      BY <2>1 DEF Counted
    <2>. QED
      BY <2>2, <2>3, FS_Subset, FS_CardinalityType
  <1>. QED
    BY <1>1, <1>2, TakesKeepsCounts

LEMMA TimerKeepsCounts ==
    ASSUME CountInv, LogTypeOK', NEW t \in Tasks, Arm(t) \/ SetTimer(t)
    PROVE  CountInv'
  <1>1. PICK place \in {"idle", "setTimer"} : Goes(t, place)
    BY DEF Arm, SetTimer
  <1>. DEFINE d == [doing[t] EXCEPT !.at = place]
  <1>2. doing \in [Tasks -> Doings] /\ doing[t] \in Doings /\ doing[t].after = "idle"
    BY DEF CountInv, LogTypeOK, AtRest, ToCollect, Arm, SetTimer, At
  <1>3. doing' = [doing EXCEPT ![t] = d]
    BY <1>1, <1>2 DEF Goes
  <1>4. d.at = place /\ d.after = "idle"
    BY <1>2 DEF Doings
  <1>5. Collects(d) \/ Counted' = {} \/ repeatTimer'
    <2>1. CASE Arm(t) /\ Counted # {}
      <3>1. doing'[t].at = "setTimer"
        BY <1>2, <2>1 DEF Arm, Goes, Doings
      <3>2. doing'[t] = d
        BY <1>2, <1>3
      <3>. QED
        BY <3>1, <3>2 DEF Collects, ToCollect
    <2>2. CASE Arm(t) /\ Counted = {}
      BY <2>2 DEF Arm, Counted
    <2>. QED
      BY <2>1, <2>2 DEF SetTimer
  <1>. HIDE DEF d
  <1>. QED
    BY <1>3, <1>4, <1>5, StillTold

LEMMA StepKeepsCounts ==
    ASSUME CountInv, LogTypeOK', NEW t \in Tasks, Step(t)
    PROVE  CountInv'
  <1>1. CASE Collect(t) \/ Arm(t) \/ SetTimer(t)
    BY <1>1, FlushKeepsCounts, TimerKeepsCounts
  <1>2. CASE ~(Collect(t) \/ Arm(t) \/ SetTimer(t))
    <2>1. doing[t].at \notin ToCollect /\ repeats' = repeats /\ repeatTimer' = repeatTimer
      BY <1>2 DEF Step, ToCollect, At, Emit, WriteDirect, TakeRelease, CannotOpen, Open, Publish,
                  CloseOwn, TellDropped, Pop, WriteHeld
    <2>2. \/ GoesOn(t)
          \/ \E place \in Places \ ({"idle"} \cup ToCollect) : Goes(t, place) \/ OneLess(t, place)
      BY <1>2 DEF Step, ToCollect, Places, Emit, WriteDirect, TakeRelease, CannotOpen, Open, Publish,
                  CloseOwn, TellDropped, Pop, WriteHeld
    <2>. QED
      BY <2>1, <2>2, WayKeepsCounts
  <1>. QED
    BY <1>1, <1>2

(* Whoever does not touch the tasks or the counts. *)
LEMMA OthersKeepCounts ==
    ASSUME CountInv, LogTypeOK', doing' = doing, repeatTimer' = repeatTimer, Counted' = Counted
    PROVE  CountInv'
  BY DEF CountInv, AtRest, CountsAreTold

LEMMA MonitorKeepsCounts ==
    ASSUME CountInv, LogTypeOK', MonitorStep
    PROVE  CountInv'
  <1>1. CASE UNCHANGED <<doing, repeatTimer, repeats>>
    BY <1>1, OthersKeepCounts DEF Counted
  <1>2. CASE Record(Monitor, NoteKey)
    BY <1>2, LogsKeepCounts DEF Tasks
  <1>3. CASE StopFlush
    BY <1>3, FlushKeepsCounts DEF StopFlush, Tasks
  <1>4. CASE StartWriter
    <2>1. /\ doing[Monitor].at \notin ToCollect /\ repeats' = repeats /\ repeatTimer' = repeatTimer
          /\ Goes(Monitor, "release") /\ "release" \in Places \ ({"idle"} \cup ToCollect)
      BY <1>4 DEF StartWriter, StartLog, MonAt, At, Goes, ToCollect, Places
    <2>. QED
      BY <2>1, WayKeepsCounts DEF Tasks
  <1>5. ASSUME ~StopFlush, ~StartWriter
        PROVE  UNCHANGED <<doing, repeatTimer, repeats>> \/ Record(Monitor, NoteKey)
    <2>1. CASE TryMount \/ SelfTest
      BY <2>1 DEF TryMount, SelfTest, Published, logVars
    <2>2. CASE WriterFails \/ Started \/ Deinit
      BY <2>2 DEF WriterFails, Started, Deinit, Published, logVars
    <2>3. CASE CheckMounted
      BY <2>3 DEF CheckMounted, Published, logVars
    <2>4. CASE StopClear \/ StopClose
      BY <2>4 DEF StopClear, StopClose, ClearLog, CloseStream
    <2>. QED
      BY <1>5, <2>1, <2>2, <2>3, <2>4 DEF MonitorStep
  <1>. QED
    BY <1>1, <1>2, <1>3, <1>4, <1>5

LEMMA OutsideKeepsCounts ==
    ASSUME CountInv, LogTypeOK', WindowEnds \/ StreamFails \/ CardChanges \/ UNCHANGED vars
    PROVE  CountInv'
  <1>1. doing' = doing /\ repeatTimer' = repeatTimer
    BY DEF WindowEnds, StreamFails, CardChanges, vars, logVars
  <1>2. CASE WindowEnds
    <2>1. PICK i \in DOMAIN repeats : repeats' = [repeats EXCEPT ![i].recent = FALSE]
      BY <1>2 DEF WindowEnds
    <2>2. repeats \in Seq(Events) /\ DOMAIN repeats = 1 .. Len(repeats)
      BY LenProperties DEF CountInv, LogTypeOK
    <2>3. DOMAIN repeats' = DOMAIN repeats /\ \A j \in DOMAIN repeats : repeats'[j].again = repeats[j].again
      <3>1. \A j \in DOMAIN repeats : repeats[j] \in Events
        BY <2>2, ElementOfSeq
      <3>. QED
        BY <2>1, <2>2, <3>1 DEF Events
    <2>. QED
      BY <1>1, <2>3, OthersKeepCounts DEF Counted
  <1>3. CASE repeats' = repeats
    BY <1>1, <1>3, OthersKeepCounts DEF Counted
  <1>. QED
    BY <1>2, <1>3 DEF StreamFails, CardChanges, vars, logVars

LEMMA NextKeepsCounts == ASSUME CountInv, LogTypeOK', [Next]_vars PROVE CountInv'
  <1>1. ASSUME NEW t \in Tasks, TaskStep(t) PROVE CountInv'
    BY <1>1, StepKeepsCounts DEF TaskStep
  <1>2. ASSUME NEW t \in Loggers, Logs(t) \/ RepeatTimer(t) PROVE CountInv'
    <2>1. CASE (\E key \in Keys : Record(t, key)) \/ WriteErrorLog(t)
      BY <2>1, LogsKeepCounts DEF Tasks
    <2>2. CASE RepeatTimer(t)
      BY <2>2, FlushKeepsCounts DEF RepeatTimer, Tasks
    <2>3. CASE NotifyTimeDecided(t) \/ GateTimer(t)
      <3>1. /\ doing[t].at \notin ToCollect /\ repeats' = repeats /\ repeatTimer' = repeatTimer
            /\ Goes(t, "release") /\ "release" \in Places \ ({"idle"} \cup ToCollect)
        BY <2>3 DEF NotifyTimeDecided, GateTimer, At, ToCollect, Places
      <3>. QED
        BY <3>1, WayKeepsCounts DEF Tasks
    <2>. QED
      BY <1>2, <2>1, <2>2, <2>3 DEF Logs
  <1>. QED
    BY <1>1, <1>2, OutsideKeepsCounts, MonitorKeepsCounts DEF Next

(* A repeat that was counted is told: as long as something is counted, the    *)
(* timer is set, or some task is on its way to collect or to set it.          *)
THEOREM CountsAlwaysTold == Spec => []CountsAreTold
  <1>1. Init => CountInv
    <2>. SUFFICES ASSUME Init PROVE CountInv
      OBVIOUS
    <2>1. LogTypeOK
      BY InitHolds DEF IInv, LogInv
    <2>2. Counted = {} /\ AtRest
      BY DEF Init, LogInit, Idle, Counted, AtRest
    <2>. QED
      BY <2>1, <2>2 DEF CountInv, CountsAreTold
  <1>2. IInv' /\ CountInv /\ [Next]_vars => CountInv'
    BY NextKeepsCounts DEF IInv, LogInv
  <1>3. CountInv => CountsAreTold
    BY DEF CountInv
  <1>. QED
    BY <1>1, <1>2, <1>3, Invariance, PTL DEF Spec
=============================================================================
