---------------------------- MODULE Services_proofs ----------------------------
(***************************************************************************)
(* Services that share nothing, each for itself.  The task of the time     *)
(* service never sleeps over what was asked of it; the blob with the Wi-Fi *)
(* profiles stays consistent however the operations of the two tasks that  *)
(* change it overlap, and implements SavedProfiles on every current copy;  *)
(* the blobs of the schedules agree with the table however the saves of    *)
(* the two tasks overlap, and a one-shot goes off once.                    *)
(***************************************************************************)
EXTENDS TimeSync, WifiProfileStore, AppScheduler, FiniteSetTheorems, TLAPS

(* Somebody is about to wake the task, or has. *)
Disturbed == notified \/ asker \in {"accepted", "published"}

(* What is known on the way to sleep: each check is outdated only by an app     *)
(* that is going to notify the task.                                          *)
NoRequest  == task.at \in {"schedule", "plan", "settle", "idle"} => ~requested \/ Disturbed
NoFlag     == task.at \in {"plan", "settle", "idle"} => ~reschedule \/ Disturbed
NewPlan    == task.at \in {"settle", "idle"} => task.planned = interval \/ Disturbed
StateIsSet == task.at = "idle" => state = "IDLE" \/ Disturbed

(* A retry is begun only while one is left. *)
RetryLeft == task.at \in {"retry", "retryWait", "retryWoken"} => task.attempt < RetryAttempts

SyncInv == SyncTypeOK /\ NoRequest /\ NoFlag /\ NewPlan /\ StateIsSet /\ RetryLeft

-----------------------------------------------------------------------------
LEMMA SyncStarts == SyncInit => SyncInv
  <1>. SUFFICES ASSUME SyncInit PROVE SyncInv
    OBVIOUS
  <1>1. 0 \in Generations /\ 0 \in 0 .. RetryAttempts
    BY TimeSyncAssumption DEF Generations
  <1>2. SyncTypeOK
    BY <1>1 DEF SyncInit, SyncTypeOK, SyncStates, Places
  <1>. QED
    BY <1>2 DEF SyncInit, SyncInv, NoRequest, NoFlag, NewPlan, StateIsSet, RetryLeft

LEMMA Accepted == ASSUME SyncTypeOK, Accept PROVE requested' \in BOOLEAN /\ generation' \in Generations /\ recent' \in BOOLEAN
  BY TimeSyncAssumption DEF SyncTypeOK, Accept, Generations

LEMMA Retried ==
    ASSUME SyncTypeOK, RetryLeft, task.at \in {"retryWait", "retryWoken"}, NextAttempt
    PROVE  task' \in [ at: Places, generation: Generations, attempt: 0 .. RetryAttempts,
                       planned: Intervals, cleared: BOOLEAN ] /\ task'.at = "sync"
  <1>1. task.attempt + 1 \in 0 .. RetryAttempts
    BY TimeSyncAssumption DEF SyncTypeOK, RetryLeft
  <1>. QED
    BY <1>1 DEF SyncTypeOK, NextAttempt, Places

LEMMA AppStep == ASSUME SyncInv, AppAsks PROVE SyncInv'
  <1>1. CASE AppRequests
    <2>1. UNCHANGED <<setting, notified, state, decided, task>>
      BY <1>1 DEF AppRequests
    <2>2. CASE Accept /\ asker' = "accepted"
      BY <2>1, <2>2, Accepted DEF SyncInv, SyncTypeOK, NoRequest, NoFlag, NewPlan, StateIsSet, RetryLeft,
                                  Disturbed, setting
    <2>3. CASE Drop /\ asker' = "idle" /\ asker \in {"starting", "idle"}
      BY <2>1, <2>3 DEF Drop, SyncInv, SyncTypeOK, NoRequest, NoFlag, NewPlan, StateIsSet, RetryLeft,
                        Disturbed, setting, request
    <2>. QED
      BY <1>1, <2>2, <2>3 DEF AppRequests
  <1>2. CASE AppPublishes
    BY <1>2 DEF AppPublishes, SyncInv, SyncTypeOK, SyncStates, NoRequest, NoFlag, NewPlan, StateIsSet,
                RetryLeft, Disturbed, request, setting
  <1>3. CASE AppSetsInterval
    BY <1>3 DEF AppSetsInterval, SyncInv, SyncTypeOK, NoRequest, NoFlag, NewPlan, StateIsSet, RetryLeft,
                Disturbed, request
  <1>4. CASE AppNotifies
    BY <1>4 DEF AppNotifies, SyncInv, SyncTypeOK, NoRequest, NoFlag, NewPlan, StateIsSet, RetryLeft,
                Disturbed, request, setting
  <1>. QED
    BY <1>1, <1>2, <1>3, <1>4 DEF AppAsks

(* The task goes to sleep, and is woken. *)
LEMMA WaitStep == ASSUME SyncInv, Wait \/ IdleElapsed PROVE SyncInv'
  <1>. USE DEF At, Goto, SyncInv, SyncTypeOK, Places, NoRequest, NoFlag, NewPlan, StateIsSet,
              RetryLeft, Disturbed, request, setting
  <1>1. CASE Check
    BY <1>1 DEF Check
  <1>2. CASE Schedule
    BY <1>2 DEF Schedule, TakeReschedule
  <1>3. CASE Plan
    BY <1>3 DEF Plan
  <1>4. CASE Settle
    BY <1>4 DEF Settle, SyncStates
  <1>5. CASE IdleNotified
    BY <1>5 DEF IdleNotified
  <1>6. CASE Woken
    BY <1>6 DEF Woken, TakeReschedule
  <1>7. CASE WokenIdle
    BY <1>7 DEF WokenIdle
  <1>8. CASE Due
    BY <1>8, Accepted DEF Due, Accept, Drop
  <1>9. CASE IdleElapsed
    BY <1>9 DEF IdleElapsed
  <1>. QED
    BY <1>1, <1>2, <1>3, <1>4, <1>5, <1>6, <1>7, <1>8, <1>9 DEF Wait

(* The task serves a request. *)
LEMMA AttemptStep == ASSUME SyncInv, Attempt PROVE SyncInv'
  <1>. USE DEF At, Goto, SyncInv, SyncTypeOK, Places, NoRequest, NoFlag, NewPlan, StateIsSet,
              RetryLeft, Disturbed, request, setting
  <1>1. CASE Begin
    <2>1. 0 \in 0 .. RetryAttempts
      BY TimeSyncAssumption
    <2>. QED
      BY <1>1, <2>1 DEF Begin, SyncStates
  <1>2. CASE RadioPaused \/ RadioFailed \/ RadioGranted
    BY <1>2 DEF RadioPaused, RadioFailed, RadioGranted
  <1>3. CASE PauseOver
    BY <1>3 DEF PauseOver
  <1>4. CASE StartSync
    BY <1>4 DEF StartSync, SyncStates
  <1>5. CASE SntpSucceeds
    BY <1>5 DEF SntpSucceeds
  <1>6. CASE SntpFails
    BY <1>6, TimeSyncAssumption DEF SntpFails, RetriesUsedUp
  <1>7. CASE BeginRetry
    BY <1>7 DEF BeginRetry, SyncStates
  <1>8. CASE RetryElapsed
    BY <1>8, Retried DEF RetryElapsed
  <1>9. CASE RetryNotified
    BY <1>9 DEF RetryNotified
  <1>10. CASE RetryWoken
    BY <1>10, Retried DEF RetryWoken, TakeReschedule
  <1>11. CASE Succeeded
    BY <1>11 DEF Succeeded, ClearAll, Tell
  <1>12. CASE Failed
    BY <1>12 DEF Failed, ClearIfGeneration, Tell
  <1>13. CASE Finish
    BY <1>13 DEF Finish, SyncStates
  <1>. QED
    BY <1>1, <1>2, <1>3, <1>4, <1>5, <1>6, <1>7, <1>8, <1>9, <1>10, <1>11, <1>12, <1>13
    DEF Attempt

LEMMA OtherStep == ASSUME SyncInv, WindowCloses \/ UNCHANGED syncVars PROVE SyncInv'
  <1>1. /\ requested' = requested /\ generation' = generation /\ recent' \in BOOLEAN
        /\ UNCHANGED <<interval, reschedule, notified, state, decided, task, asker>>
    BY DEF WindowCloses, syncVars, request, setting, SyncInv, SyncTypeOK
  <1>. QED
    BY <1>1 DEF SyncInv, SyncTypeOK, NoRequest, NoFlag, NewPlan, StateIsSet, RetryLeft, Disturbed

LEMMA SyncInvariance == SyncSpec => []SyncInv
  <1>1. SyncInv /\ [SyncNext]_syncVars => SyncInv'
    BY AppStep, WaitStep, AttemptStep, OtherStep DEF SyncNext
  <1>. QED
    BY SyncStarts, <1>1, PTL DEF SyncSpec

-----------------------------------------------------------------------------
(* The types, and with them the number of retries. *)
THEOREM SyncTypeCorrect == SyncSpec => []SyncTypeOK
  <1>1. SyncInv => SyncTypeOK
    BY DEF SyncInv
  <1>. QED
    BY SyncInvariance, <1>1, PTL

(* The task never sleeps over a request, an interval change, or a state that    *)
(* still looks busy: whoever outdates what it saw on its way to sleep is going  *)
(* to notify it.                                                              *)
THEOREM NothingIsSleptOver == SyncSpec => []SleepsOverNothing
  <1>1. SyncInv => SleepsOverNothing
    BY DEF SyncInv, NoRequest, NoFlag, NewPlan, StateIsSet, Disturbed, SleepsOverNothing
  <1>. QED
    BY SyncInvariance, <1>1, PTL

-----------------------------------------------------------------------------
(* The store of Wi-Fi profiles.                                               *)
(* Each task's copy was once the blob in flash, with room to count one more. *)
CopiesShape ==
    \A w \in Writers :
        /\ Consistent(writer[w].copy)
        /\ writer[w].op # "none" => writer[w].ssid \in Networks
        /\ writer[w].op \in {"record", "prefer"} => writer[w].copy.success < MaxSuccess

StoreInv == StoreTypeOK /\ BlobConsistent /\ CopiesShape

-----------------------------------------------------------------------------
(* A set of numbers has a smallest: of the intervals below its members, ordered *)
(* by inclusion, one is minimal.                                              *)
LEMMA Smallest ==
    ASSUME NEW S \in SUBSET Nat, S # {}
    PROVE  \E i \in S : \A j \in S : i <= j
  <1>. DEFINE Below == {0 .. i : i \in S}
  <1>1. Below \subseteq FiniteSubsetsOf(Nat) /\ Below # {}
    <2>1. \A i \in S : 0 .. i \subseteq Nat /\ IsFiniteSet(0 .. i)
      BY FS_Interval
    <2>. QED
      BY <2>1 DEF FiniteSubsetsOf
  <1>2. PICK x \in Below : \A y \in Below : <<y, x>> \notin StrictSubsetOrdering(Nat)
    <2>. HIDE DEF Below
    <2>. QED
      BY <1>1, WFMin, FS_StrictSubsetOrderingWellFounded
  <1>3. PICK i \in S : x = 0 .. i
    BY <1>2
  <1>4. ASSUME NEW j \in S, j < i PROVE FALSE
    <2>1. 0 .. j \in Below /\ 0 .. j \subseteq 0 .. i /\ i \notin 0 .. j /\ i \in 0 .. i
      BY <1>4
    <2>2. <<0 .. j, x>> \in StrictSubsetOrdering(Nat)
      BY <2>1, <1>3 DEF StrictSubsetOrdering
    <2>. QED
      BY <1>2, <2>1, <2>2
  <1>. QED
    BY <1>4

(* The first of some entries is one of them; the oldest is an entry. *)
LEMMA FirstIn == ASSUME NEW S \in SUBSET Slots, S # {} PROVE First(S) \in S
  <1>1. S \subseteq Nat
    BY StoreAssumption DEF Slots
  <1>. QED
    BY <1>1, Smallest DEF First

LEMMA OldestIsLeast ==
    ASSUME NEW blob \in Blobs
    PROVE  /\ Oldest(blob) \in Slots
           /\ \A i \in Slots : blob.entries[Oldest(blob)].seq <= blob.entries[i].seq
  <1>. DEFINE seqs == {blob.entries[i].seq : i \in Slots}
  <1>1. seqs \in SUBSET Nat /\ seqs # {}
    BY StoreAssumption DEF Blobs, Entries, Seqs, Slots
  <1>2. PICK s \in seqs : \A t \in seqs : s <= t
    BY <1>1, Smallest
  <1>. DEFINE least == {i \in Slots : blob.entries[i].seq = s}
  <1>3. least \in SUBSET Nat /\ least # {}
    BY <1>2, StoreAssumption DEF Slots
  <1>4. PICK i \in least : \A j \in least : i <= j
    BY <1>3, Smallest
  <1>5. \A j \in Slots : \/ blob.entries[i].seq < blob.entries[j].seq
                         \/ blob.entries[i].seq = blob.entries[j].seq /\ i <= j
    <2>. TAKE j \in Slots
    <2>1. s \in Nat /\ blob.entries[j].seq \in seqs /\ blob.entries[i].seq = s
      BY <1>1, <1>2, <1>4
    <2>2. s <= blob.entries[j].seq /\ blob.entries[j].seq \in Nat
      BY <1>1, <1>2, <2>1
    <2>3. CASE blob.entries[j].seq = s
      BY <1>4, <2>1, <2>3
    <2>4. CASE blob.entries[j].seq # s
      BY <2>1, <2>2, <2>4
    <2>. QED
      BY <2>3, <2>4
  <1>6. i \in Slots
    BY <1>4
  <1>7. \A j \in Slots : blob.entries[j].seq \in Nat
    BY StoreAssumption DEF Blobs, Entries, Seqs
  <1>. DEFINE IsOldest(k) == \A j \in Slots : \/ blob.entries[k].seq < blob.entries[j].seq
                                              \/ blob.entries[k].seq = blob.entries[j].seq /\ k <= j
  <1>8. Oldest(blob) \in Slots /\ IsOldest(Oldest(blob))
    BY <1>5, <1>6 DEF Oldest
  <1>. QED
    BY <1>7, <1>8

-----------------------------------------------------------------------------
(* To number an entry keeps the blob consistent when no other entry has the     *)
(* network.                                                                   *)
LEMMA NumberedKeeps ==
    ASSUME NEW blob \in Blobs, Consistent(blob), blob.success < MaxSuccess,
           NEW i \in Slots, NEW ssid \in Networks, SlotsOf(blob, ssid) \subseteq {i}
    PROVE  Numbered(blob, i, ssid) \in Blobs /\ Consistent(Numbered(blob, i, ssid))
  <1>. DEFINE new == Numbered(blob, i, ssid)
  <1>1. blob.success \in Nat /\ blob.success + 1 \in Seqs
    BY StoreAssumption DEF Blobs, Seqs
  <1>2. new \in Blobs
    BY <1>1 DEF Numbered, Blobs, Entries
  <1>3. /\ new.success = blob.success + 1
        /\ new.entries[i] = [ssid |-> ssid, seq |-> blob.success + 1]
        /\ \A j \in Slots \ {i} : new.entries[j] = blob.entries[j] /\ blob.entries[j].ssid # ssid
    BY DEF Numbered, Blobs, SlotsOf
  <1>4. \A l \in Slots : /\ blob.entries[l].seq \in Nat
                         /\ blob.entries[l].seq <= blob.success
                         /\ blob.entries[l].ssid = NoNetwork => blob.entries[l].seq = 0
                         /\ blob.entries[l].ssid # NoNetwork => blob.entries[l].seq >= 1
    BY <1>1 DEF Consistent, Blobs, Entries, Seqs
  <1>5. Consistent(new)
    <2>. SUFFICES ASSUME NEW j \in Slots, NEW k \in Slots
                  PROVE  IF new.entries[j].ssid = NoNetwork THEN new.entries[j].seq = 0
                         ELSE /\ new.entries[j].seq \in 1 .. new.success
                              /\ j # k => /\ new.entries[j].ssid # new.entries[k].ssid
                                          /\ new.entries[j].seq # new.entries[k].seq
      BY DEF Consistent
    <2>. HIDE DEF new
    <2>1. CASE j = i
      BY <2>1, <1>1, <1>3, <1>4, StoreAssumption
    <2>2. CASE j # i /\ k = i
      BY <2>2, <1>1, <1>3, <1>4, StoreAssumption
    <2>3. CASE j # i /\ k # i
      <3>1. new.entries[j] = blob.entries[j] /\ new.entries[k] = blob.entries[k]
        BY <2>3, <1>3
      <3>. QED
        BY <3>1, <1>1, <1>3, <1>4 DEF Consistent
    <2>. QED
      BY <2>1, <2>2, <2>3
  <1>. QED
    BY <1>2, <1>5

(* So does to empty one. *)
LEMMA EmptiedKeeps ==
    ASSUME NEW blob \in Blobs, Consistent(blob), NEW i \in Slots
    PROVE  LET new == [blob EXCEPT !.entries[i] = NoEntry]
           IN  new \in Blobs /\ Consistent(new)
  <1>. DEFINE new == [blob EXCEPT !.entries[i] = NoEntry]
  <1>1. NoEntry \in Entries /\ NoEntry.ssid = NoNetwork /\ NoEntry.seq = 0
    BY StoreAssumption DEF NoEntry, Entries, Seqs
  <1>2. new \in Blobs
    BY <1>1 DEF Blobs
  <1>3. /\ new.success = blob.success /\ new.entries[i] = NoEntry
        /\ \A j \in Slots \ {i} : new.entries[j] = blob.entries[j]
    BY DEF Blobs
  <1>4. Consistent(new)
    <2>. SUFFICES ASSUME NEW j \in Slots, NEW k \in Slots
                  PROVE  IF new.entries[j].ssid = NoNetwork THEN new.entries[j].seq = 0
                         ELSE /\ new.entries[j].seq \in 1 .. new.success
                              /\ j # k => /\ new.entries[j].ssid # new.entries[k].ssid
                                          /\ new.entries[j].seq # new.entries[k].seq
      BY DEF Consistent
    <2>. HIDE DEF new
    <2>1. CASE j = i
      BY <2>1, <1>1, <1>3
    <2>2. CASE j # i /\ k = i
      <3>1. new.entries[j] = blob.entries[j] /\ new.entries[k] = NoEntry
        BY <2>2, <1>3
      <3>2. blob.entries[j].ssid # NoNetwork => blob.entries[j].seq # 0
        BY DEF Consistent, Blobs, Seqs
      <3>. QED
        BY <3>1, <3>2, <1>1, <1>3 DEF Consistent
    <2>3. CASE j # i /\ k # i
      <3>1. new.entries[j] = blob.entries[j] /\ new.entries[k] = blob.entries[k]
        BY <2>3, <1>3
      <3>. QED
        BY <3>1, <1>3 DEF Consistent
    <2>. QED
      BY <2>1, <2>2, <2>3
  <1>. QED
    BY <1>2, <1>4

(* An operation takes the network's one entry, or one nobody else needs. *)
LEMMA OwnEntry ==
    ASSUME NEW blob \in Blobs, Consistent(blob), NEW ssid \in Networks
    PROVE  /\ Target(blob, ssid) \in Slots /\ SlotsOf(blob, ssid) \subseteq {Target(blob, ssid)}
           /\ ssid \in SavedSsids(blob) =>
                  /\ First(SlotsOf(blob, ssid)) \in Slots
                  /\ SlotsOf(blob, ssid) \subseteq {First(SlotsOf(blob, ssid))}
  <1>1. SlotsOf(blob, ssid) \in SUBSET Slots /\ SlotsOf(blob, NoNetwork) \in SUBSET Slots
    BY DEF SlotsOf
  <1>2. \A i, j \in SlotsOf(blob, ssid) : i = j
    BY StoreAssumption DEF SlotsOf, Consistent
  <1>3. SlotsOf(blob, ssid) # {} => First(SlotsOf(blob, ssid)) \in SlotsOf(blob, ssid)
    BY <1>1, FirstIn
  <1>4. SlotsOf(blob, NoNetwork) # {} => First(SlotsOf(blob, NoNetwork)) \in Slots
    BY <1>1, FirstIn
  <1>5. ssid \in SavedSsids(blob) => SlotsOf(blob, ssid) # {}
    BY DEF SavedSsids, SlotsOf
  <1>. QED
    BY <1>1, <1>2, <1>3, <1>4, <1>5, OldestIsLeast DEF Target

(* Every operation keeps its copy consistent. *)
LEMMA ChangedKeeps ==
    ASSUME NEW blob \in Blobs, Consistent(blob), NEW ssid \in Networks,
           NEW op \in {"record", "prefer", "remove"}, op # "remove" => blob.success < MaxSuccess,
           Finds(op, blob, ssid)
    PROVE  Changed(op, blob, ssid) \in Blobs /\ Consistent(Changed(op, blob, ssid))
  <1>1. CASE op = "record"
    BY <1>1, OwnEntry, NumberedKeeps DEF Changed
  <1>2. CASE op = "prefer"
    BY <1>2, OwnEntry, NumberedKeeps DEF Changed, Finds
  <1>3. CASE op = "remove"
    BY <1>3, OwnEntry, EmptiedKeeps DEF Changed, Finds
  <1>. QED
    BY <1>1, <1>2, <1>3

-----------------------------------------------------------------------------
LEMMA StoreInitInvariant == StoreInit => StoreInv
  <1>1. EmptyBlob \in Blobs /\ Consistent(EmptyBlob)
    BY StoreAssumption DEF EmptyBlob, NoEntry, Blobs, Entries, Seqs, Consistent
  <1>. QED
    BY <1>1 DEF StoreInit, StoreInv, StoreTypeOK, BlobConsistent, CopiesShape, Idle

LEMMA StoreNextInvariant == StoreInv /\ [StoreNext]_storeVars => StoreInv'
  <1>. SUFFICES ASSUME StoreInv, [StoreNext]_storeVars PROVE StoreInv'
    OBVIOUS
  <1>. USE DEF StoreInv, StoreTypeOK, BlobConsistent, CopiesShape
  <1>1. ASSUME NEW w \in Writers, NEW op \in Ops[w], NEW ssid \in Networks, Read(w, op, ssid)
        PROVE  StoreInv'
    BY <1>1 DEF Read, Blobs, Seqs
  <1>2. ASSUME NEW w \in Writers, Write(w)
        PROVE  StoreInv'
    <2>. DEFINE op == writer[w].op  ssid == writer[w].ssid  copy == writer[w].copy
    <2>1. op \in {"record", "prefer", "remove"}
      BY <1>2 DEF Write, Ops, Writers
    <2>2. Idle.copy \in Blobs /\ Consistent(Idle.copy) /\ Idle.op = "none" /\ Idle.ssid = NoNetwork
      BY StoreAssumption DEF Idle, EmptyBlob, NoEntry, Blobs, Entries, Seqs, Consistent
    <2>3. /\ copy \in Blobs /\ Consistent(copy)
          /\ op # "remove" => copy.success < MaxSuccess
          /\ ssid \in Networks
      BY <2>1
    <2>4. Finds(op, copy, ssid) => Changed(op, copy, ssid) \in Blobs /\ Consistent(Changed(op, copy, ssid))
      BY <2>1, <2>3, ChangedKeeps
    <2>5. nvs' \in Blobs /\ Consistent(nvs')
      BY <1>2, <2>4 DEF Write
    <2>6. removed' \subseteq Networks
      BY <1>2, <2>3 DEF Write
    <2>7. writer' = [writer EXCEPT ![w] = Idle]
      BY <1>2 DEF Write
    <2>. QED
      BY <2>2, <2>5, <2>6, <2>7 DEF Idle
  <1>3. CASE UNCHANGED storeVars
    BY <1>3 DEF storeVars, Consistent
  <1>. QED
    BY <1>1, <1>2, <1>3 DEF StoreNext

-----------------------------------------------------------------------------
(* The blob and the copies always have the shape the code gives them. *)
THEOREM StoreTypeCorrect == StoreSpec => []StoreTypeOK
  <1>1. StoreInv => StoreTypeOK
    BY DEF StoreInv
  <1>. QED
    BY <1>1, StoreInitInvariant, StoreNextInvariant, PTL DEF StoreSpec

(* However many networks and entries there are, and however the operations of    *)
(* the two tasks overlap, the blob in flash names no network twice and orders   *)
(* their successes.                                                           *)
THEOREM BlobStaysConsistent == StoreSpec => []BlobConsistent
  <1>1. StoreInv => BlobConsistent
    BY DEF StoreInv
  <1>. QED
    BY <1>1, StoreInitInvariant, StoreNextInvariant, PTL DEF StoreSpec

-----------------------------------------------------------------------------
(* The places of the profiles.  A network's place is the number of entries that  *)
(* are no older than its own.                                                 *)
NoOlder(blob, seq) == {i \in Slots : blob.entries[i].seq >= seq}

LEMMA SlotsAreFinite == IsFiniteSet(Slots) /\ Cardinality(Slots) = MaxProfiles
  BY FS_Interval, StoreAssumption DEF Slots

LEMMA CountOfNoOlder ==
    ASSUME NEW blob, NEW seq
    PROVE  /\ IsFiniteSet(NoOlder(blob, seq)) /\ Cardinality(NoOlder(blob, seq)) \in 0 .. MaxProfiles
           /\ Cardinality(NoOlder(blob, seq)) = MaxProfiles => NoOlder(blob, seq) = Slots
  <1>1. NoOlder(blob, seq) \in SUBSET Slots
    BY DEF NoOlder
  <1>2. IsFiniteSet(NoOlder(blob, seq)) /\ Cardinality(NoOlder(blob, seq)) <= MaxProfiles
    BY <1>1, SlotsAreFinite, FS_Subset
  <1>3. Cardinality(NoOlder(blob, seq)) \in Nat
    BY <1>2, FS_CardinalityType
  <1>4. Cardinality(NoOlder(blob, seq)) = MaxProfiles => NoOlder(blob, seq) = Slots
    BY <1>1, SlotsAreFinite, FS_Subset
  <1>. QED
    BY <1>2, <1>3, <1>4, StoreAssumption

(* The entry of a saved network, and what it says of its place. *)
LEMMA PlaceOfEntry ==
    ASSUME NEW blob \in Blobs, Consistent(blob), NEW i \in Slots,
           blob.entries[i].ssid # NoNetwork
    PROVE  /\ blob.entries[i].ssid \in SavedSsids(blob)
           /\ First(SlotsOf(blob, blob.entries[i].ssid)) = i
           /\ Place(blob, blob.entries[i].ssid) = Cardinality(NoOlder(blob, blob.entries[i].seq))
           /\ Place(blob, blob.entries[i].ssid) \in 1 .. MaxProfiles
  <1>. DEFINE net == blob.entries[i].ssid
  <1>1. net \in SavedSsids(blob)
    BY DEF SavedSsids
  <1>2. SlotsOf(blob, net) = {i}
    BY DEF SlotsOf, Consistent
  <1>3. First(SlotsOf(blob, net)) = i
    BY <1>2, FirstIn DEF Slots
  <1>4. Place(blob, net) = Cardinality(NoOlder(blob, blob.entries[i].seq))
    BY <1>1, <1>3 DEF Place, NoOlder
  <1>5. i \in NoOlder(blob, blob.entries[i].seq)
    BY DEF NoOlder, Blobs, Entries, Seqs
  <1>6. Cardinality(NoOlder(blob, blob.entries[i].seq)) # 0
    BY <1>5, CountOfNoOlder, FS_EmptySet
  <1>7. Cardinality(NoOlder(blob, blob.entries[i].seq)) \in 1 .. MaxProfiles
    BY <1>6, CountOfNoOlder, StoreAssumption
  <1>. QED
    BY <1>1, <1>3, <1>4, <1>7

LEMMA EntryOfStored ==
    ASSUME NEW blob, NEW net \in SavedSsids(blob)
    PROVE  \E i \in Slots : blob.entries[i].ssid = net /\ net # NoNetwork
  BY DEF SavedSsids

(* Of two saved networks the newer has the smaller place. *)
LEMMA PlacesAreOrdered ==
    ASSUME NEW blob \in Blobs, Consistent(blob), NEW i \in Slots, NEW j \in Slots,
           blob.entries[i].ssid # NoNetwork, blob.entries[j].ssid # NoNetwork
    PROVE  Place(blob, blob.entries[j].ssid) > Place(blob, blob.entries[i].ssid)
               <=> blob.entries[i].seq > blob.entries[j].seq
  <1>. DEFINE a == NoOlder(blob, blob.entries[i].seq)  b == NoOlder(blob, blob.entries[j].seq)
  <1>1. \A k \in Slots : blob.entries[k].seq \in Nat
    BY StoreAssumption DEF Blobs, Entries, Seqs
  <1>2. i \in a /\ j \in b
    BY <1>1 DEF NoOlder
  <1>3. ASSUME blob.entries[i].seq > blob.entries[j].seq
        PROVE  Cardinality(b) > Cardinality(a)
    <2>1. a \subseteq b /\ j \notin a
      BY <1>1, <1>3 DEF NoOlder
    <2>2. Cardinality(a) <= Cardinality(b) /\ (Cardinality(b) = Cardinality(a) => b = a)
      BY <2>1, CountOfNoOlder, FS_Subset
    <2>. QED
      BY <2>1, <2>2, <1>2, CountOfNoOlder, StoreAssumption
  <1>4. ASSUME ~(blob.entries[i].seq > blob.entries[j].seq)
        PROVE  ~(Cardinality(b) > Cardinality(a))
    <2>1. b \subseteq a
      BY <1>1, <1>4 DEF NoOlder
    <2>2. Cardinality(b) <= Cardinality(a)
      BY <2>1, CountOfNoOlder, FS_Subset
    <2>. QED
      BY <2>2, CountOfNoOlder, StoreAssumption
  <1>. QED
    BY <1>3, <1>4, PlaceOfEntry

(* To number an entry makes its network the newest: an entry of its own, or one  *)
(* that is empty or the oldest while the network has none.                     *)
LEMMA NumberedIsNewest ==
    ASSUME NEW blob \in Blobs, Consistent(blob), blob.success < MaxSuccess,
           NEW t \in Slots, NEW net \in Networks, SlotsOf(blob, net) \subseteq {t},
           blob.entries[t].ssid \in {net, NoNetwork}
               \/ \A i \in Slots : blob.entries[t].seq <= blob.entries[i].seq
    PROVE  Order(Numbered(blob, t, net)) = AsNewest(Order(blob), net, MaxProfiles)
  <1>. DEFINE new == Numbered(blob, t, net)  old == blob.entries
  <1>1. new \in Blobs /\ Consistent(new)
    BY NumberedKeeps
  <1>2. /\ new.entries[t].ssid = net /\ new.entries[t].seq = blob.success + 1
        /\ \A j \in Slots \ {t} : new.entries[j] = old[j] /\ old[j].ssid # net
    BY DEF Numbered, Blobs, SlotsOf
  <1>3. \A l \in Slots : /\ old[l].seq \in Nat /\ old[l].seq <= blob.success
                         /\ old[l].ssid = NoNetwork => old[l].seq = 0
                         /\ old[l].ssid # NoNetwork => old[l].seq >= 1
    BY StoreAssumption DEF Consistent, Blobs, Entries, Seqs
  <1>4. blob.success \in Nat /\ net # NoNetwork
    BY StoreAssumption DEF Blobs, Seqs
  <1>. HIDE DEF new
  <1>5. Place(new, net) = 1
    <2>1. NoOlder(new, new.entries[t].seq) = {t}
      BY <1>2, <1>3, <1>4 DEF NoOlder
    <2>2. Place(new, net) = Cardinality(NoOlder(new, new.entries[t].seq))
      BY <1>1, <1>2, <1>4, PlaceOfEntry
    <2>. QED
      BY <2>1, <2>2, FS_Singleton
  <1>6. ASSUME NEW n \in Networks, n # net, n \notin SavedSsids(blob)
        PROVE  Place(new, n) = 0 /\ Place(blob, n) = 0
    <2>1. n \notin SavedSsids(new)
      BY <1>2, <1>6 DEF SavedSsids
    <2>. QED
      BY <1>6, <2>1 DEF Place
  <1>7. ASSUME NEW j \in Slots, j # t, old[j].ssid # NoNetwork
        PROVE  LET n == old[j].ssid
               IN  Place(new, n) = IF Place(blob, net) # 0 /\ Place(blob, n) > Place(blob, net)
                                   THEN Place(blob, n)
                                   ELSE IF Place(blob, n) = MaxProfiles THEN 0 ELSE Place(blob, n) + 1
    <2>. DEFINE n == old[j].ssid
    <2>1. new.entries[j] = old[j] /\ n # net
      BY <1>2, <1>7
    <2>2. /\ Place(new, n) = Cardinality(NoOlder(new, old[j].seq))
          /\ Place(blob, n) = Cardinality(NoOlder(blob, old[j].seq))
      BY <1>1, <1>7, <2>1, PlaceOfEntry
    <2>3. NoOlder(new, old[j].seq) = NoOlder(blob, old[j].seq) \cup {t}
      BY <1>2, <1>3, <1>4 DEF NoOlder
    <2>4. IsFiniteSet(NoOlder(blob, old[j].seq))
      BY CountOfNoOlder
    <2>5. Cardinality(NoOlder(blob, old[j].seq) \cup {t}) =
              IF t \in NoOlder(blob, old[j].seq) THEN Cardinality(NoOlder(blob, old[j].seq))
              ELSE Cardinality(NoOlder(blob, old[j].seq)) + 1
      BY <2>4, FS_AddElement
    <2>6. Place(new, n) = IF t \in NoOlder(blob, old[j].seq) THEN Place(blob, n) ELSE Place(blob, n) + 1
      BY <2>2, <2>3, <2>5
    <2>7. CASE old[t].ssid = net
      <3>1. Place(blob, net) \in 1 .. MaxProfiles
        BY <1>4, <2>7, PlaceOfEntry
      <3>2. Place(blob, n) > Place(blob, net) <=> old[t].seq > old[j].seq
        BY <1>4, <1>7, <2>7, PlacesAreOrdered
      <3>3. old[t].seq # old[j].seq
        BY <1>7, <2>7, <1>4 DEF Consistent
      <3>4. t \in NoOlder(blob, old[j].seq) <=> Place(blob, n) > Place(blob, net)
        BY <1>3, <3>2, <3>3 DEF NoOlder
      <3>5. Place(blob, n) \in 1 .. MaxProfiles
        BY <1>7, PlaceOfEntry
      <3>6. Place(blob, net) > Place(blob, n) <=> old[j].seq > old[t].seq
        BY <1>4, <1>7, <2>7, PlacesAreOrdered
      <3>7. Place(blob, n) > Place(blob, net) \/ Place(blob, net) > Place(blob, n)
        BY <1>3, <3>2, <3>3, <3>6
      <3>. QED
        BY <2>6, <3>1, <3>4, <3>5, <3>7, StoreAssumption
    <2>8. CASE old[t].ssid # net
      <3>1. Place(blob, net) = 0
        <4>1. net \notin SavedSsids(blob)
          BY <1>2, <2>8 DEF SavedSsids
        <4>. QED
          BY <4>1 DEF Place
      <3>2. t \notin NoOlder(blob, old[j].seq)
        <4>1. CASE old[t].ssid = NoNetwork
          BY <4>1, <1>3, <1>7 DEF NoOlder
        <4>2. CASE old[t].ssid # NoNetwork
          <5>1. old[t].seq <= old[j].seq /\ old[t].seq # old[j].seq
            BY <4>2, <1>7, <2>8 DEF Consistent
          <5>. QED
            BY <5>1, <1>3 DEF NoOlder
        <4>. QED
          BY <4>1, <4>2
      <3>3. Place(blob, n) # MaxProfiles
        BY <2>2, <3>2, CountOfNoOlder
      <3>. QED
        BY <2>6, <3>1, <3>2, <3>3
    <2>. QED
      BY <2>7, <2>8
  <1>8. ASSUME old[t].ssid # NoNetwork, old[t].ssid # net
        PROVE  LET n == old[t].ssid
               IN  Place(new, n) = 0 /\ Place(blob, n) = MaxProfiles /\ Place(blob, net) = 0
    <2>. DEFINE n == old[t].ssid
    <2>1. n \notin SavedSsids(new)
      BY <1>2, <1>8 DEF SavedSsids, Consistent
    <2>2. NoOlder(blob, old[t].seq) = Slots
      BY <1>8 DEF NoOlder
    <2>3. Place(blob, n) = MaxProfiles
      BY <1>8, <2>2, PlaceOfEntry, SlotsAreFinite
    <2>4. net \notin SavedSsids(blob)
      BY <1>2, <1>8 DEF SavedSsids
    <2>. QED
      BY <2>1, <2>3, <2>4 DEF Place
  <1>9. ASSUME NEW n \in Networks
        PROVE  Place(new, n) =
                   IF n = net THEN 1
                   ELSE IF Place(blob, n) = 0 \/ (Place(blob, net) # 0 /\ Place(blob, n) > Place(blob, net))
                        THEN Place(blob, n)
                   ELSE IF Place(blob, n) = MaxProfiles THEN 0 ELSE Place(blob, n) + 1
    <2>1. CASE n = net
      BY <2>1, <1>5
    <2>2. CASE n # net /\ n \notin SavedSsids(blob)
      BY <2>2, <1>6
    <2>3. CASE n # net /\ n \in SavedSsids(blob)
      <3>1. PICK j \in Slots : old[j].ssid = n /\ n # NoNetwork
        BY <2>3, EntryOfStored
      <3>2. Place(blob, n) \in 1 .. MaxProfiles
        BY <3>1, PlaceOfEntry
      <3>3. Place(blob, n) # 0
        BY <3>2
      <3>4. CASE j # t
        BY <2>3, <3>1, <3>3, <3>4, <1>7
      <3>5. CASE j = t
        BY <2>3, <3>1, <3>3, <3>5, <1>8
      <3>. QED
        BY <3>4, <3>5
    <2>. QED
      BY <2>1, <2>2, <2>3
  <1>. QED
    BY <1>9 DEF Order, AsNewest, new

(* To empty an entry takes its network out, and those behind it move up. *)
LEMMA EmptiedIsWithout ==
    ASSUME NEW blob \in Blobs, Consistent(blob), NEW t \in Slots, blob.entries[t].ssid # NoNetwork
    PROVE  Order([blob EXCEPT !.entries[t] = NoEntry]) = Without(Order(blob), blob.entries[t].ssid)
  <1>. DEFINE new == [blob EXCEPT !.entries[t] = NoEntry]  old == blob.entries  net == blob.entries[t].ssid
  <1>1. new \in Blobs /\ Consistent(new)
    BY EmptiedKeeps
  <1>2. /\ new.entries[t].ssid = NoNetwork /\ new.entries[t].seq = 0
        /\ \A j \in Slots \ {t} : new.entries[j] = old[j] /\ old[j].ssid # net
    BY DEF Blobs, NoEntry, Consistent
  <1>3. \A l \in Slots : /\ old[l].seq \in Nat
                         /\ old[l].ssid # NoNetwork => old[l].seq >= 1
    BY StoreAssumption DEF Consistent, Blobs, Entries, Seqs
  <1>4. Place(blob, net) \in 1 .. MaxProfiles
    BY PlaceOfEntry
  <1>. HIDE DEF new
  <1>5. Place(new, net) = 0
    BY <1>2 DEF Place, SavedSsids
  <1>6. ASSUME NEW n \in Networks, n # net, n \notin SavedSsids(blob)
        PROVE  Place(new, n) = 0 /\ Place(blob, n) = 0
    <2>1. n \notin SavedSsids(new)
      BY <1>2, <1>6 DEF SavedSsids
    <2>. QED
      BY <1>6, <2>1 DEF Place
  <1>7. ASSUME NEW j \in Slots, j # t, old[j].ssid # NoNetwork
        PROVE  Place(new, old[j].ssid) =
                   IF Place(blob, old[j].ssid) > Place(blob, net) THEN Place(blob, old[j].ssid) - 1
                   ELSE Place(blob, old[j].ssid)
    <2>1. new.entries[j] = old[j]
      BY <1>2, <1>7
    <2>2. /\ Place(new, old[j].ssid) = Cardinality(NoOlder(new, old[j].seq))
          /\ Place(blob, old[j].ssid) = Cardinality(NoOlder(blob, old[j].seq))
      BY <1>1, <1>7, <2>1, PlaceOfEntry
    <2>3. NoOlder(new, old[j].seq) = NoOlder(blob, old[j].seq) \ {t}
      BY <1>2, <1>3, <1>7 DEF NoOlder
    <2>4. IsFiniteSet(NoOlder(blob, old[j].seq))
      BY CountOfNoOlder
    <2>5. Cardinality(NoOlder(blob, old[j].seq) \ {t}) =
              IF t \in NoOlder(blob, old[j].seq) THEN Cardinality(NoOlder(blob, old[j].seq)) - 1
              ELSE Cardinality(NoOlder(blob, old[j].seq))
      BY <2>4, FS_RemoveElement
    <2>6. Place(blob, old[j].ssid) > Place(blob, net) <=> old[t].seq > old[j].seq
      BY <1>7, PlacesAreOrdered
    <2>7. old[t].seq # old[j].seq
      BY <1>7 DEF Consistent
    <2>8. t \in NoOlder(blob, old[j].seq) <=> Place(blob, old[j].ssid) > Place(blob, net)
      BY <1>3, <2>6, <2>7 DEF NoOlder
    <2>. QED
      BY <2>2, <2>3, <2>5, <2>8
  <1>8. ASSUME NEW n \in Networks
        PROVE  Place(new, n) = IF n = net THEN 0
                               ELSE IF Place(blob, n) > Place(blob, net) THEN Place(blob, n) - 1
                               ELSE Place(blob, n)
    <2>1. CASE n = net
      BY <2>1, <1>5
    <2>2. CASE n # net /\ n \notin SavedSsids(blob)
      BY <2>2, <1>4, <1>6
    <2>3. CASE n # net /\ n \in SavedSsids(blob)
      <3>1. PICK j \in Slots : old[j].ssid = n /\ n # NoNetwork
        BY <2>3, EntryOfStored
      <3>. QED
        BY <2>3, <3>1, <1>7
    <2>. QED
      BY <2>1, <2>2, <2>3
  <1>9. net \in Networks
    BY DEF Blobs, Entries
  <1>. QED
    BY <1>8, <1>9 DEF Order, Without, new

(* What an operation writes from a current copy is one operation on the order. *)
LEMMA ChangeIsAtomic ==
    ASSUME NEW blob \in Blobs, Consistent(blob), NEW ssid \in Networks,
           NEW op \in {"record", "prefer", "remove"}, op # "remove" => blob.success < MaxSuccess,
           Finds(op, blob, ssid)
    PROVE  SavedNext(Order(blob), Order(Changed(op, blob, ssid)), MaxProfiles)
  <1>1. DOMAIN Order(blob) = Networks
    BY DEF Order
  <1>2. ssid # NoNetwork
    BY StoreAssumption
  <1>3. ssid \in SavedSsids(blob) => /\ First(SlotsOf(blob, ssid)) \in Slots
                                 /\ SlotsOf(blob, ssid) = {First(SlotsOf(blob, ssid))}
                                 /\ blob.entries[First(SlotsOf(blob, ssid))].ssid = ssid
    <2>. SUFFICES ASSUME ssid \in SavedSsids(blob) PROVE /\ First(SlotsOf(blob, ssid)) \in Slots
                                 /\ SlotsOf(blob, ssid) = {First(SlotsOf(blob, ssid))}
                                 /\ blob.entries[First(SlotsOf(blob, ssid))].ssid = ssid
      OBVIOUS
    <2>1. PICK i \in Slots : blob.entries[i].ssid = ssid
      BY EntryOfStored
    <2>2. First(SlotsOf(blob, ssid)) = i
      BY <1>2, <2>1, PlaceOfEntry
    <2>. QED
      BY <2>1, <2>2, OwnEntry DEF SlotsOf
  <1>4. CASE op = "remove"
    <2>1. Order(Changed(op, blob, ssid)) = Without(Order(blob), ssid)
      BY <1>2, <1>3, <1>4, EmptiedIsWithout DEF Changed, Finds
    <2>2. Order(blob)[ssid] # 0
      BY <1>2, <1>3, <1>4, PlaceOfEntry DEF Order, Finds
    <2>. QED
      BY <1>1, <2>1, <2>2 DEF SavedNext
  <1>5. CASE op = "prefer"
    <2>1. Order(Changed(op, blob, ssid)) = AsNewest(Order(blob), ssid, MaxProfiles)
      BY <1>3, <1>5, NumberedIsNewest DEF Changed, Finds
    <2>. QED
      BY <1>1, <2>1 DEF SavedNext
  <1>6. CASE op = "record"
    <2>. DEFINE t == Target(blob, ssid)
    <2>1. t \in Slots /\ SlotsOf(blob, ssid) \subseteq {t}
      BY OwnEntry
    <2>2. blob.entries[t].ssid \in {ssid, NoNetwork} \/ \A i \in Slots : blob.entries[t].seq <= blob.entries[i].seq
      <3>1. \A n : SlotsOf(blob, n) \in SUBSET Slots
        BY DEF SlotsOf
      <3>2. \A n : SlotsOf(blob, n) # {} => blob.entries[First(SlotsOf(blob, n))].ssid = n
        BY <3>1, FirstIn DEF SlotsOf
      <3>. QED
        BY <3>2, OldestIsLeast DEF Target
    <2>3. Order(Changed(op, blob, ssid)) = AsNewest(Order(blob), ssid, MaxProfiles)
      BY <1>6, <2>1, <2>2, NumberedIsNewest DEF Changed
    <2>. QED
      BY <1>1, <2>3 DEF SavedNext
  <1>. QED
    BY <1>4, <1>5, <1>6

(* Whatever the tasks do in between, an operation whose copy is still what flash *)
(* holds when it writes changes the order of the profiles as SavedProfiles has   *)
(* it, for any number of networks and entries: the store implements that         *)
(* specification on every current copy.                                        *)
THEOREM CurrentWritesAreAtomic == StoreSpec => ImplementsSavedProfiles
  <1>1. ASSUME StoreInv, [StoreNext]_storeVars, WritesCurrentCopy
        PROVE  SavedNext(Order(nvs), Order(nvs'), MaxProfiles)
    <2>1. CASE nvs' = nvs
      BY <2>1 DEF SavedNext
    <2>2. ASSUME NEW w \in Writers, Write(w), nvs' # nvs
          PROVE  SavedNext(Order(nvs), Order(nvs'), MaxProfiles)
      <3>. DEFINE op == writer[w].op  ssid == writer[w].ssid
      <3>1. op \in {"record", "prefer", "remove"} /\ writer[w] # Idle /\ writer'[w] = Idle
        BY <1>1, <2>2 DEF Write, Ops, Writers, Idle, StoreInv, StoreTypeOK
      <3>2. writer[w].copy = nvs
        BY <1>1, <3>1 DEF WritesCurrentCopy
      <3>3. /\ nvs \in Blobs /\ Consistent(nvs) /\ ssid \in Networks
            /\ op # "remove" => nvs.success < MaxSuccess
        BY <1>1, <3>1, <3>2 DEF StoreInv, StoreTypeOK, BlobConsistent, CopiesShape
      <3>4. Finds(op, nvs, ssid) /\ nvs' = Changed(op, nvs, ssid)
        BY <2>2, <3>2 DEF Write
      <3>. QED
        BY <3>1, <3>3, <3>4, ChangeIsAtomic
    <2>. QED
      BY <1>1, <2>1, <2>2 DEF StoreNext, Read, storeVars
  <1>. QED
    BY <1>1, StoreInitInvariant, StoreNextInvariant, PTL DEF StoreSpec, ImplementsSavedProfiles

-----------------------------------------------------------------------------
(* The schedules: what is known of the tasks and their saves, and what is true of an entry. *)
(* A save of the scope is still to take its snapshot. *)
Pending(scope) ==
    \/ \E t \in Tasks : scope = save[t].next \/ (scope = save[t].scope /\ ~save[t].taken)
    \/ sched.owes = scope
    \/ app.at = "deliver" /\ app.config.scope = scope

(* Where the tasks are when they save, and when they hold something to save. *)
TasksAgree ==
    /\ \A t \in Tasks : save[t].scope = None => save[t].next = None /\ ~save[t].taken
    /\ \A t \in Tasks : save[t].taken => \A other \in Tasks \ {t} : ~save[other].taken
    /\ sched.at = "deliver" => ~Saving("scheduler") /\ sched.key \in Keys
    /\ sched.owes # None => sched.at = "deliver"
    /\ sched.at # "wait" => sched.moment \in Moments
    /\ sched.at = "look" => sched.event = None
    /\ app.at \in {"edit", "deliver"} => ~Saving("app") /\ app.key \in Keys /\ app.config \in Config

(* An entry is what TypeOK says; and a one-shot instant that is stopped is disabled *)
(* by that, so that no later look has to disable it.                             *)
Sound(e) ==
    /\ e \in Entry
    /\ IF e.config.enabled THEN e.state # "DISABLED" ELSE e.state \in {"DISABLED", "STOPPED"}
    /\ e.config.mode = "INSTANT" =>
          /\ e.state \in {"ACTIVE", "STOPPED"} => e.config.latched
          /\ e.state = "STOPPED" /\ e.config.enabled => e.config.repeat

EntriesSound == entries \in [Keys -> Entry \cup {None}] /\ \A k \in Occupied : Sound(entries[k])

(* TypeOK without the entries. *)
SchedType == [ at: {"wait", "look", "deliver"}, moment: Moments \cup {None}, todo: SUBSET Keys,
               key: Keys \cup {None}, event: Events \cup {None}, owes: Scopes \cup {None} ]
AppType   == [ at: {"off", "idle", "edit", "deliver"}, key: Keys \cup {None},
               config: Config \cup {None}, todo: SUBSET Alarms ]
SaveType  == [ scope: Scopes \cup {None}, next: Scopes \cup {None}, taken: BOOLEAN, copy: Stored ]

RestTyped ==
    /\ now \in Moments \cup {None} /\ tick \in Moments \cup {None}
    /\ flash \in [Scopes -> Stored]
    /\ sched \in SchedType /\ app \in AppType /\ save \in [Tasks -> SaveType]
    /\ stale \subseteq Scopes /\ rung \subseteq Keys

(* A snapshot is what the entries are, or another is still to be taken. *)
SavesAgree ==
    app.at # "off" =>
        \A scope \in Scopes :
            \/ Pending(scope)
            \/ \E t \in Tasks : /\ save[t].taken /\ save[t].scope = scope
                                /\ save[t].copy = Snapshot(entries, scope)
            \/ /\ \A t \in Tasks : save[t].scope # scope
               /\ scope \in stale \/ flash[scope] = Snapshot(entries, scope)

(* A one-shot that went off is disabled, or is not over and will be by its end. *)
Over(e) == /\ e # None
           /\ e.config.enabled => ~e.config.repeat /\ e.state \in {"ACTIVE", "STOPPED"}

RungOver == \A k \in rung : Over(entries[k])

IInv == EntriesSound /\ RestTyped /\ TasksAgree /\ SavesAgree /\ RungOver

-----------------------------------------------------------------------------
(* What a look or a call makes of a sound entry is sound. *)
LEMMA FreshSound == ASSUME NEW c \in Config PROVE Sound(Fresh(c))
  BY DEF Sound, Fresh, Entry, Config, States

LEMMA EnabledConfig ==
  ASSUME NEW c \in Config, NEW b \in BOOLEAN PROVE [c EXCEPT !.enabled = b] \in Config
  BY DEF Config

LEMMA ScopeConfig ==
  ASSUME NEW c \in Config, NEW s \in Scopes PROVE [c EXCEPT !.scope = s] \in Config
  BY DEF Config

LEMMA DisabledSound == ASSUME NEW e, Sound(e) PROVE Sound(Disabled(e))
  BY DEF Sound, Disabled, Entry, Config, States

LEMMA StampSound ==
  ASSUME NEW e, Sound(e), NEW m \in Moments PROVE Sound([e EXCEPT !.stamp = m])
  BY DEF Sound, Entry, Config, States

LEMMA RearmedSound ==
  ASSUME NEW e, Sound(e), e.config.enabled PROVE Sound(Rearmed(e))
<1>1. CASE e.config.repeat  BY <1>1 DEF Rearmed, Sound, Entry, Config, States
<1>2. CASE ~e.config.repeat  BY <1>2, DisabledSound DEF Rearmed
<1> QED  BY <1>1, <1>2

LEMMA OffSound ==
  ASSUME NEW e, Sound(e), sched.moment \in Moments, GoesOff(e, sched.moment) PROVE Sound(Off(e))
<1> DEFINE gone == [e EXCEPT !.stamp = sched.moment]
<1>1. Sound(gone) /\ gone.config = e.config  BY StampSound DEF Sound, Entry
<1>2. e.config.enabled  BY DEF GoesOff
<1>3. CASE e.config.mode = "INSTANT" /\ ~e.config.latched
  BY <1>1, <1>2, <1>3, RearmedSound DEF Off
<1>4. CASE ~(e.config.mode = "INSTANT" /\ ~e.config.latched)
  <2>1. Off(e) = [gone EXCEPT !.state = "ACTIVE"]  BY <1>4 DEF Off
  <2> QED  BY <2>1, <1>1, <1>2, <1>4 DEF Sound, Entry, Config, States
<1> QED  BY <1>3, <1>4

LEMMA SettledSound ==
  ASSUME NEW e, Sound(e), NEW m PROVE Sound(Settled(e, m)) /\ Settled(e, m).config = e.config
<1>1. CASE ~e.config.enabled
  BY <1>1 DEF Settled, Sound, Entry, Config, States
<1>2. CASE e.config.enabled /\ e.config.mode = "INSTANT" /\ e.state = "STOPPED"
  <2>1. e.config.repeat /\ e.config.latched  BY <1>2 DEF Sound
  <2>2. Settled(e, m) = IF Matches(e.config, m) THEN e ELSE [e EXCEPT !.state = "WAITING"]
    BY <1>2, <2>1 DEF Settled, Rearmed
  <2> QED  BY <2>1, <2>2, <1>2 DEF Sound, Entry, Config, States
<1>3. CASE e.config.enabled /\ e.config.mode = "INSTANT" /\ e.state # "STOPPED"
  <2>1. Settled(e, m) = IF e.state = "ACTIVE" THEN e ELSE [e EXCEPT !.state = "WAITING"]
    BY <1>3 DEF Settled
  <2> QED  BY <2>1, <1>3 DEF Sound, Entry, Config, States
<1>4. CASE e.config.enabled /\ e.config.mode = "WINDOW"
  <2>1. Settled(e, m) = IF Matches(e.config, m) THEN e ELSE [e EXCEPT !.state = "WAITING"]
    BY <1>4 DEF Settled
  <2> QED  BY <2>1, <1>4 DEF Sound, Entry, Config, States
<1> QED  BY <1>1, <1>2, <1>3, <1>4 DEF Sound, Entry, Config

-----------------------------------------------------------------------------
(* A one-shot on its way that stays so: the scheduler closes a window itself. *)
LEMMA SettledOver ==
  ASSUME NEW e, NEW m, Sound(e), e.config.enabled, ~e.config.repeat, e.state \in {"ACTIVE", "STOPPED"},
         ~Closes(e, m)
  PROVE  Settled(e, m).state \in {"ACTIVE", "STOPPED"}
<1>1. CASE e.config.mode = "INSTANT"
  <2>1. e.state = "ACTIVE"  BY <1>1 DEF Sound
  <2>2. Settled(e, m) = e  BY <1>1, <2>1 DEF Settled
  <2> QED  BY <2>1, <2>2
<1>2. CASE e.config.mode = "WINDOW"
  <2>1. Matches(e.config, m)  BY <1>2 DEF Closes
  <2>2. Settled(e, m) = e  BY <1>2, <2>1 DEF Settled
  <2> QED  BY <2>2
<1> QED  BY <1>1, <1>2 DEF Sound, Entry, Config

(* A step that writes no blob keeps SavesAgree if every scope that it changes has  *)
(* a snapshot to come, and no save that is under way is disturbed.               *)
LEMMA NothingForgotten ==
  ASSUME SavesAgree, app.at # "off", UNCHANGED <<flash, stale>>,
         \A scope \in Scopes :
            \/ Pending(scope)'
            \/ /\ ~Pending(scope)
               /\ Snapshot(entries, scope)' = Snapshot(entries, scope)
               /\ \A t \in Tasks : \/ save'[t] = save[t]
                                   \/ ~save[t].taken /\ save'[t].scope # scope
  PROVE  SavesAgree'
<1> SUFFICES ASSUME NEW scope \in Scopes, ~Pending(scope)'
             PROVE  \/ \E t \in Tasks : /\ save'[t].taken /\ save'[t].scope = scope
                                        /\ save'[t].copy = Snapshot(entries, scope)'
                    \/ /\ \A t \in Tasks : save'[t].scope # scope
                       /\ scope \in stale' \/ flash'[scope] = Snapshot(entries, scope)'
  BY DEF SavesAgree
<1>1. /\ ~Pending(scope)
      /\ Snapshot(entries, scope)' = Snapshot(entries, scope)
      /\ \A t \in Tasks : \/ save'[t] = save[t]
                          \/ ~save[t].taken /\ save'[t].scope # scope
  OBVIOUS
<1>2. CASE \E t \in Tasks : /\ save[t].taken /\ save[t].scope = scope
                            /\ save[t].copy = Snapshot(entries, scope)
  BY <1>1, <1>2
<1>3. CASE /\ \A t \in Tasks : save[t].scope # scope
           /\ scope \in stale \/ flash[scope] = Snapshot(entries, scope)
  BY <1>1, <1>3
<1> QED  BY <1>1, <1>2, <1>3 DEF SavesAgree

(* An entry shows in the blob of its scope, by its configuration only. *)
Shown(e, scope) == IF e # None /\ e.config.scope = scope THEN e.config ELSE None

LEMMA SnapshotKept ==
  ASSUME entries \in [Keys -> Entry \cup {None}], NEW k \in Keys, NEW e, NEW scope,
         entries' = [entries EXCEPT ![k] = e], Shown(e, scope) = Shown(entries[k], scope)
  PROVE  Snapshot(entries, scope)' = Snapshot(entries, scope)
<1>1. \A j \in Keys : Shown(entries'[j], scope) = Shown(entries[j], scope)  OBVIOUS
<1>2. /\ Snapshot(entries, scope) = [j \in Keys |-> Shown(entries[j], scope)]
      /\ Snapshot(entries, scope)' = [j \in Keys |-> Shown(entries'[j], scope)]
  BY DEF Snapshot, Shown
<1> QED  BY <1>1, <1>2

LEMMA SnapshotTyped ==
  ASSUME NEW table \in [Keys -> Entry \cup {None}], NEW scope PROVE Snapshot(table, scope) \in Stored
  BY DEF Snapshot, Stored, Entry

LEMMA RungKept ==
  ASSUME IInv, NEW k \in Keys, NEW e, entries' = [entries EXCEPT ![k] = e],
         rung' \subseteq rung \cup {k}, k \in rung' => Over(e)
  PROVE  RungOver'
<1> SUFFICES ASSUME NEW j \in rung' PROVE Over(entries'[j])  BY DEF RungOver
<1>1. CASE j = k  BY <1>1 DEF IInv, EntriesSound
<1>2. CASE j # k
  <2>1. j \in rung /\ j \in Keys  BY <1>2 DEF IInv, RestTyped
  <2> QED  BY <1>2, <2>1 DEF IInv, EntriesSound, RungOver
<1> QED  BY <1>1, <1>2

LEMMA PersistFacts ==
  ASSUME save \in [Tasks -> SaveType], NEW t \in Tasks, NEW scope \in Scopes, NEW previous \in Scopes,
         Persist(t, scope, previous)
  PROVE  /\ save' \in [Tasks -> SaveType] /\ \A u \in Tasks \ {t} : save'[u] = save[u]
         /\ save'[t].scope = scope /\ ~save'[t].taken
         /\ save'[t].next = IF previous = scope THEN None ELSE previous
<1> DEFINE after == IF previous = scope THEN None ELSE previous
           mine  == [NoSave EXCEPT !.scope = scope, !.next = after]
<1>1. save' = [save EXCEPT ![t] = mine]  BY DEF Persist
<1>2. after \in Scopes \cup {None} /\ NoBlob \in Stored  BY DEF NoBlob, Stored
<1> HIDE DEF after
<1>3. mine \in SaveType /\ mine.scope = scope /\ ~mine.taken /\ mine.next = after
  BY <1>2 DEF NoSave, SaveType
<1> HIDE DEF mine
<1> QED  BY <1>1, <1>3 DEF after

LEMMA OneEntrySound ==
  ASSUME EntriesSound, NEW k \in Keys, NEW e, e = None \/ Sound(e),
         entries' = [entries EXCEPT ![k] = e]
  PROVE  EntriesSound'
<1>1. entries' \in [Keys -> Entry \cup {None}]  BY DEF EntriesSound, Sound
<1>2. ASSUME NEW j \in Keys, entries'[j] # None PROVE Sound(entries'[j])
  BY <1>2 DEF EntriesSound, Occupied
<1> QED  BY <1>1, <1>2 DEF EntriesSound, Occupied

-----------------------------------------------------------------------------
THEOREM InitInv == Init => IInv
<1> SUFFICES ASSUME Init PROVE IInv  OBVIOUS
<1>1. NoBlob \in Stored  BY DEF NoBlob, Stored
<1>2. EntriesSound
  BY DEF Init, NoBlob, EntriesSound, Occupied
<1>3. flash \in [Scopes -> Stored]
  <2>1. PICK blob \in LegacyBlobs : flash = [s \in Scopes |-> IF s = "FEATURE" THEN blob ELSE NoBlob]
    BY DEF Init
  <2>2. ASSUME NEW k \in Keys PROVE Legacy(k) \subseteq Config
    BY SchedulerAssumption, ScopeConfig DEF Legacy, Scopes
  <2>3. blob \in Stored
    <3>1. ASSUME NEW k \in Keys PROVE blob[k] \in Config \cup {None}
      BY <2>2 DEF LegacyBlobs
    <3> QED  BY <3>1 DEF LegacyBlobs, Stored
  <2> QED  BY <1>1, <2>1, <2>3
<1>4. RestTyped
  BY <1>1, <1>3 DEF Init, RestTyped, SchedType, AppType, SaveType, Asleep, Started, NoSave, Scopes
<1>5. TasksAgree
  BY DEF Init, TasksAgree, Asleep, Started, NoSave, Saving
<1>6. SavesAgree
  BY DEF Init, SavesAgree, Started
<1> QED  BY <1>2, <1>4, <1>5, <1>6 DEF IInv, Init, RungOver

-----------------------------------------------------------------------------
(* The steps. *)
LEMMA StutterInv == ASSUME IInv, UNCHANGED vars PROVE IInv'
<1> USE DEF vars, tasks, history
<1>1. EntriesSound'  BY DEF IInv, EntriesSound, Occupied
<1>2. RestTyped'  BY DEF IInv, RestTyped, SchedType, AppType, SaveType
<1>3. TasksAgree'  BY DEF IInv, TasksAgree, Saving
<1>4. SavesAgree'  BY DEF IInv, SavesAgree, Pending, Snapshot
<1>5. RungOver'  BY DEF IInv, RungOver
<1> QED  BY <1>1, <1>2, <1>3, <1>4, <1>5 DEF IInv

LEMMA ClockTicksInv == ASSUME IInv, ClockTicks PROVE IInv'
<1> USE DEF ClockTicks, tasks, history
<1>1. EntriesSound'  BY DEF IInv, EntriesSound, Occupied
<1>2. RestTyped'  BY DEF IInv, RestTyped, SchedType, AppType, SaveType
<1>3. TasksAgree'  BY DEF IInv, TasksAgree, Saving
<1>4. SavesAgree'  BY DEF IInv, SavesAgree, Pending, Snapshot
<1>5. RungOver'  BY DEF IInv, RungOver
<1> QED  BY <1>1, <1>2, <1>3, <1>4, <1>5 DEF IInv

LEMMA TakeSnapshotInv == ASSUME IInv, NEW t \in Tasks, TakeSnapshot(t) PROVE IInv'
<1> USE DEF TakeSnapshot, history, Saving
<1>1. EntriesSound'  BY DEF IInv, EntriesSound, Occupied
<1>2. Snapshot(entries, save[t].scope) \in Stored  BY SnapshotTyped DEF IInv, EntriesSound
<1>3. /\ save'[t] = [save[t] EXCEPT !.taken = TRUE, !.copy = Snapshot(entries, save[t].scope)]
      /\ \A u \in Tasks \ {t} : save'[u] = save[u]
      /\ save' \in [Tasks -> SaveType]
  <2>1. save \in [Tasks -> SaveType]  BY DEF IInv, RestTyped, SchedType, AppType, SaveType
  <2> DEFINE mine == [save[t] EXCEPT !.taken = TRUE, !.copy = Snapshot(entries, save[t].scope)]
  <2>2. mine \in SaveType  BY <1>2, <2>1 DEF SaveType
  <2>3. save' = [save EXCEPT ![t] = mine]  BY <2>1
  <2> HIDE DEF mine
  <2>4. save'[t] = mine /\ save' \in [Tasks -> SaveType] /\ \A u \in Tasks \ {t} : save'[u] = save[u]
    BY <2>1, <2>2, <2>3
  <2> QED  BY <2>4 DEF mine
<1>4. RestTyped'  BY <1>3 DEF IInv, RestTyped, SchedType, AppType, SaveType
<1>5. TasksAgree'  BY <1>3 DEF IInv, RestTyped, SchedType, AppType, SaveType, TasksAgree
<1>6. SavesAgree'
  <2> SUFFICES ASSUME app.at # "off", NEW scope \in Scopes, ~Pending(scope)'
               PROVE  \/ \E u \in Tasks : /\ save'[u].taken /\ save'[u].scope = scope
                                          /\ save'[u].copy = Snapshot(entries, scope)'
                      \/ /\ \A u \in Tasks : save'[u].scope # scope
                         /\ scope \in stale' \/ flash'[scope] = Snapshot(entries, scope)'
    BY DEF SavesAgree
  <2>1. Snapshot(entries, scope)' = Snapshot(entries, scope)  BY DEF Snapshot
  <2>2. CASE save[t].scope = scope
    BY <1>3, <2>1, <2>2 DEF IInv, RestTyped, SchedType, AppType, SaveType
  <2>3. CASE save[t].scope # scope
    <3>1. ~Pending(scope)  BY <1>3, <2>3 DEF IInv, RestTyped, SchedType, AppType, SaveType, Pending
    <3> QED  BY <1>3, <2>1, <2>3, <3>1 DEF IInv, RestTyped, SchedType, AppType, SaveType, SavesAgree
  <2> QED  BY <2>2, <2>3
<1>7. RungOver'  BY DEF IInv, RungOver
<1> QED  BY <1>1, <1>4, <1>5, <1>6, <1>7 DEF IInv

LEMMA WriteBlobInv == ASSUME IInv, NEW t \in Tasks, WriteBlob(t) PROVE IInv'
<1> USE DEF WriteBlob
<1>0. NoBlob \in Stored  BY DEF NoBlob, Stored
<1>1. EntriesSound'  BY DEF IInv, EntriesSound, Occupied
<1>2. save[t].scope \in Scopes /\ save[t].copy \in Stored
  BY DEF IInv, RestTyped, SchedType, AppType, SaveType, TasksAgree
<1>3. save'[t] = [NoSave EXCEPT !.scope = save[t].next]
  BY DEF IInv, RestTyped, SchedType, AppType, SaveType
<1>4. RestTyped'  BY <1>0, <1>2 DEF IInv, RestTyped, SchedType, AppType, SaveType, NoSave
<1>5. TasksAgree'  BY <1>3 DEF IInv, RestTyped, SchedType, AppType, SaveType, TasksAgree, NoSave, Saving
<1>6. SavesAgree'
  <2> SUFFICES ASSUME app.at # "off", NEW scope \in Scopes, ~Pending(scope)'
               PROVE  \/ \E u \in Tasks : /\ save'[u].taken /\ save'[u].scope = scope
                                          /\ save'[u].copy = Snapshot(entries, scope)'
                      \/ /\ \A u \in Tasks : save'[u].scope # scope
                         /\ scope \in stale' \/ flash'[scope] = Snapshot(entries, scope)'
    BY DEF SavesAgree
  <2>1. Snapshot(entries, scope)' = Snapshot(entries, scope)  BY DEF Snapshot
  <2>2. save'[t].scope # scope  BY <1>3 DEF Pending, NoSave
  <2>3. ~Pending(scope)
    BY <1>3 DEF IInv, RestTyped, SchedType, AppType, SaveType, Pending, NoSave
  <2>4. \A u \in Tasks \ {t} : save'[u] = save[u] /\ ~save[u].taken
    BY DEF IInv, RestTyped, SchedType, AppType, SaveType, TasksAgree
  <2>5. CASE save[t].scope = scope
    <3>1. \A u \in Tasks \ {t} : save[u].scope # scope  BY <2>3, <2>4 DEF Pending
    <3>2. save[t].copy = Snapshot(entries, scope)
      BY <2>3, <2>4, <2>5 DEF IInv, SavesAgree
    <3> QED  BY <1>2, <2>1, <2>2, <2>4, <2>5, <3>1, <3>2 DEF IInv, RestTyped, SchedType, AppType, SaveType
  <2>6. CASE save[t].scope # scope
    <3>1. flash'[scope] = flash[scope] /\ (scope \in stale' <=> scope \in stale)
      BY <2>6 DEF IInv, RestTyped, SchedType, AppType, SaveType
    <3> QED  BY <2>1, <2>2, <2>3, <2>4, <2>6, <3>1 DEF IInv, SavesAgree
  <2> QED  BY <2>5, <2>6
<1>7. RungOver'  BY DEF IInv, RungOver
<1> QED  BY <1>1, <1>4, <1>5, <1>6, <1>7 DEF IInv

LEMMA WriteFailsInv == ASSUME IInv, NEW t \in Tasks, WriteFails(t) PROVE IInv'
<1> USE DEF WriteFails
<1>0. NoBlob \in Stored  BY DEF NoBlob, Stored
<1>1. EntriesSound'  BY DEF IInv, EntriesSound, Occupied
<1>2. save'[t] = NoSave  BY DEF IInv, RestTyped, SchedType, AppType, SaveType
<1>3. RestTyped'  BY <1>0 DEF IInv, RestTyped, SchedType, AppType, SaveType, NoSave
<1>4. TasksAgree'
  BY <1>2 DEF IInv, RestTyped, SchedType, AppType, SaveType, TasksAgree, NoSave, Saving
<1>5. SavesAgree'
  <2> SUFFICES ASSUME app.at # "off", NEW scope \in Scopes, ~Pending(scope)'
               PROVE  \/ \E u \in Tasks : /\ save'[u].taken /\ save'[u].scope = scope
                                          /\ save'[u].copy = Snapshot(entries, scope)'
                      \/ /\ \A u \in Tasks : save'[u].scope # scope
                         /\ scope \in stale' \/ flash'[scope] = Snapshot(entries, scope)'
    BY DEF SavesAgree, IInv, RestTyped, SchedType, AppType, SaveType
  <2>1. Snapshot(entries, scope)' = Snapshot(entries, scope)  BY DEF Snapshot
  <2>2. save'[t].scope # scope  BY <1>2, SchedulerAssumption DEF NoSave
  <2>3. \A u \in Tasks \ {t} : save'[u] = save[u] /\ ~save[u].taken
    BY DEF IInv, RestTyped, SchedType, AppType, SaveType, TasksAgree
  <2>4. \A u \in Tasks \ {t} : save'[u].scope # scope  BY <2>3 DEF Pending
  <2>5. CASE scope \in {save[t].scope, save[t].next}
    BY <2>2, <2>4, <2>5, SchedulerAssumption
  <2>6. CASE scope \notin {save[t].scope, save[t].next}
    <3>1. ~Pending(scope)
      BY <2>3, <2>6 DEF IInv, RestTyped, SchedType, AppType, SaveType, Pending
    <3> QED  BY <2>1, <2>2, <2>3, <2>4, <2>6, <3>1 DEF IInv, SavesAgree
  <2> QED  BY <2>5, <2>6
<1>6. RungOver'  BY DEF IInv, RungOver
<1> QED  BY <1>1, <1>3, <1>4, <1>5, <1>6 DEF IInv

(* The scheduler task. *)
LEMMA TicksInv == ASSUME IInv, TakeTick \/ LooksDone PROVE IInv'
<1> USE DEF history
<1>1. sched.owes = None  BY DEF IInv, TasksAgree, TakeTick, LooksDone
<1>2. /\ sched'.owes = None /\ sched'.at # "deliver"
      /\ sched'.at # "wait" => sched'.moment \in Moments
      /\ sched'.event = None
      /\ sched' \in SchedType
      /\ tick' \in Moments \cup {None}
      /\ UNCHANGED <<now, entries, flash, app, save, history>>
  <2>1. CASE TakeTick  BY <2>1 DEF TakeTick, Asleep, IInv, RestTyped, SchedType, AppType, SaveType
  <2>2. CASE LooksDone  BY <2>2 DEF LooksDone, Asleep, IInv, RestTyped, SchedType, AppType, SaveType
  <2> QED  BY <2>1, <2>2
<1>3. EntriesSound'  BY <1>2 DEF IInv, EntriesSound, Occupied
<1>4. RestTyped'  BY <1>2 DEF IInv, RestTyped, SchedType, AppType, SaveType
<1>5. TasksAgree'  BY <1>2 DEF IInv, TasksAgree, Saving
<1>6. SavesAgree'  BY <1>1, <1>2 DEF IInv, SavesAgree, Pending, Snapshot
<1>7. RungOver'  BY <1>1, <1>2 DEF IInv, RungOver
<1> QED  BY <1>3, <1>4, <1>5, <1>6, <1>7 DEF IInv

LEMMA DeliverInv == ASSUME IInv, Deliver PROVE IInv'
<1> USE DEF Deliver, history
<1>0. NoBlob \in Stored  BY DEF NoBlob, Stored
<1>1. ~Saving("scheduler") /\ sched.owes \in Scopes \cup {None}  BY DEF IInv, RestTyped, SchedType, AppType, SaveType, TasksAgree
<1>2. /\ save' \in [Tasks -> SaveType] /\ save'["app"] = save["app"]
      /\ save'["scheduler"].scope = sched.owes
      /\ save'["scheduler"].next = None /\ ~save'["scheduler"].taken
      /\ sched.owes = None => save' = save
  <2>1. CASE sched.owes = None
    BY <1>1, <2>1 DEF Saving, IInv, RestTyped, SchedType, AppType, SaveType, TasksAgree, Tasks
  <2>2. CASE sched.owes # None
    BY <1>1, <2>2, PersistFacts DEF IInv, RestTyped, Tasks
  <2> QED  BY <2>1, <2>2
<1>3. /\ sched'.owes = None /\ sched'.event = None /\ sched'.at = "look" /\ sched'.moment = sched.moment
      /\ sched' \in SchedType
  BY DEF IInv, RestTyped, SchedType, AppType, SaveType
<1>4. EntriesSound'  BY DEF IInv, EntriesSound, Occupied
<1>5. RestTyped'  BY <1>2, <1>3 DEF IInv, RestTyped, SchedType, AppType, SaveType
<1>6. TasksAgree'  BY <1>1, <1>2, <1>3 DEF IInv, RestTyped, SchedType, AppType, SaveType, TasksAgree, Saving, Tasks
<1>7. SavesAgree'
  <2>1. CASE app.at = "off"  BY <2>1 DEF SavesAgree
  <2>2. CASE app.at # "off"
    <3> SUFFICES ASSUME NEW scope \in Scopes, ~Pending(scope)'
                 PROVE  /\ ~Pending(scope)
                        /\ Snapshot(entries, scope)' = Snapshot(entries, scope)
                        /\ \A t \in Tasks : \/ save'[t] = save[t]
                                            \/ ~save[t].taken /\ save'[t].scope # scope
      BY <2>2, NothingForgotten DEF IInv
    <3>1. Snapshot(entries, scope)' = Snapshot(entries, scope)  BY DEF Snapshot
    <3>2. ~Pending(scope)
      <4>1. sched.owes # scope  BY <1>2 DEF Pending, Tasks
      <4>2. save["scheduler"].scope = None /\ save["scheduler"].next = None
        BY <1>1 DEF Saving, IInv, TasksAgree, Tasks
      <4> QED  BY <1>2, <4>1, <4>2, SchedulerAssumption DEF Pending, Tasks
    <3>3. ~save["scheduler"].taken /\ save'["scheduler"].scope # scope
      BY <1>1, <1>2 DEF Pending, Saving, IInv, TasksAgree, Tasks
    <3> QED  BY <1>2, <3>1, <3>2, <3>3 DEF Tasks
  <2> QED  BY <2>1, <2>2
<1>8. RungOver'  BY DEF IInv, RungOver
<1> QED  BY <1>4, <1>5, <1>6, <1>7, <1>8 DEF IInv

(* The scheduler publishes a change: the event is to be handed over, the end of a *)
(* one-shot to be saved.                                                         *)
LEMMA PublishInv ==
  ASSUME IInv, NEW k \in Keys, NEW next, NEW event \in Events, Looks(k), Publish(k, next, event),
         entries[k] # None, entries[k].config.enabled, Sound(next),
         next.config \in {entries[k].config, [entries[k].config EXCEPT !.enabled = FALSE]},
         UNCHANGED <<now, tick, flash, app, save, stale>>,
         rung' \subseteq rung \cup {k}, k \in rung' => Over(next)
  PROVE  IInv'
<1> USE DEF Publish, Looks
<1>1. EntriesSound'  BY OneEntrySound DEF IInv
<1>2. next.config.scope \in Scopes /\ next.config.scope = entries[k].config.scope
  BY DEF Sound, Entry, Config, IInv, EntriesSound, Occupied
<1>3. RestTyped'  BY <1>2 DEF IInv, RestTyped, SchedType, AppType, SaveType
<1>4. TasksAgree'  BY <1>2 DEF IInv, RestTyped, SchedType, AppType, SaveType, TasksAgree, Saving
<1>5. SavesAgree'
  <2>1. CASE app.at = "off"  BY <2>1 DEF SavesAgree
  <2>2. CASE app.at # "off"
    <3> SUFFICES ASSUME NEW scope \in Scopes, ~Pending(scope)'
                 PROVE  ~Pending(scope) /\ Snapshot(entries, scope)' = Snapshot(entries, scope)
      BY <2>2, NothingForgotten DEF IInv
    <3>1. sched.owes = None  BY DEF IInv, TasksAgree
    <3>2. ~Pending(scope)  BY <3>1, SchedulerAssumption DEF Pending, IInv, RestTyped, SchedType, AppType, SaveType
    <3>3. sched'.owes # scope  BY DEF Pending
    <3>4. Shown(next, scope) = Shown(entries[k], scope)
      <4>1. CASE next.config = entries[k].config
        <5>1. next # None  BY SchedulerAssumption DEF Sound
        <5> QED  BY <4>1, <5>1 DEF Shown
      <4>2. CASE next.config # entries[k].config
        <5>1. ~next.config.enabled
          BY <4>2 DEF IInv, EntriesSound, Occupied, Sound, Entry, Config
        <5>2. next.config.scope # scope
          BY <5>1, <3>3 DEF IInv, RestTyped, SchedType, AppType, SaveType
        <5> QED  BY <5>2, <1>2 DEF Shown
      <4> QED  BY <4>1, <4>2
    <3>5. Snapshot(entries, scope)' = Snapshot(entries, scope)
      BY <3>4, SnapshotKept DEF IInv, EntriesSound
    <3> QED  BY <3>2, <3>5
  <2> QED  BY <2>1, <2>2
<1>6. RungOver'  BY RungKept
<1> QED  BY <1>1, <1>3, <1>4, <1>5, <1>6 DEF IInv

LEMMA SetOffInv == ASSUME IInv, NEW k \in Keys, SetOff(k) PROVE IInv'
<1> DEFINE e == entries[k]
           event == IF e.config.mode = "INSTANT" /\ ~e.config.latched THEN "FIRED" ELSE "STARTED"
<1>1. /\ Looks(k) /\ e # None /\ GoesOff(e, sched.moment) /\ Publish(k, Off(e), event)
      /\ UNCHANGED <<now, tick, flash, app, save, stale>> /\ event \in Events
  BY DEF SetOff, Events
<1>3. Sound(e) /\ sched.moment \in Moments
  BY <1>1 DEF IInv, EntriesSound, Occupied, TasksAgree, Looks
<1>4. Sound(Off(e))  BY <1>1, <1>3, OffSound
<1>5. Off(e).config \in {e.config, [e.config EXCEPT !.enabled = FALSE]}
  BY <1>3 DEF Off, Rearmed, Disabled, Sound, Entry
<1>6. e.config.enabled  BY <1>1 DEF GoesOff
<1>2. rung' \subseteq rung \cup {k} /\ (k \in rung' => ~e.config.repeat)
  <2>1. k \notin rung  BY <1>1, <1>3, <1>6 DEF IInv, RungOver, Over, GoesOff, Sound
  <2> QED  BY <2>1 DEF SetOff
<1>7. ~e.config.repeat => Over(Off(e))
  BY <1>3, <1>4, SchedulerAssumption DEF Off, Rearmed, Disabled, Over, Sound, Entry, Config
<1> HIDE DEF event
<1> QED  BY <1>1, <1>2, <1>4, <1>5, <1>6, <1>7, PublishInv

LEMMA CloseWindowInv == ASSUME IInv, NEW k \in Keys, CloseWindow(k) PROVE IInv'
<1> DEFINE closed == [entries[k] EXCEPT !.stamp = sched.moment]
<1>1. /\ Looks(k) /\ entries[k] # None /\ entries[k].config.enabled
      /\ Publish(k, Rearmed(closed), "ENDED") /\ "ENDED" \in Events
      /\ UNCHANGED <<now, tick, flash, app, save, stale, rung>>
  BY DEF CloseWindow, Closes, Events, history
<1>2. Sound(closed) /\ closed.config = entries[k].config
  BY <1>1, StampSound DEF IInv, EntriesSound, Occupied, TasksAgree, Looks, Sound, Entry
<1>3. Sound(Rearmed(closed))  BY <1>1, <1>2, RearmedSound
<1>4. Rearmed(closed).config \in {entries[k].config, [entries[k].config EXCEPT !.enabled = FALSE]}
  BY <1>2 DEF Rearmed, Disabled, Sound, Entry
<1>5. k \in rung => Over(Rearmed(closed))
  BY <1>1, <1>2, <1>3, SchedulerAssumption DEF IInv, RungOver, Over, Rearmed, Disabled, Sound, Entry, Config
<1> HIDE DEF closed
<1> QED  BY <1>1, <1>3, <1>4, <1>5, PublishInv

LEMMA PassOverInv == ASSUME IInv, NEW k \in Keys, PassOver(k) PROVE IInv'
<1> DEFINE next == IF entries[k] = None THEN None ELSE Settled(entries[k], sched.moment)
<1>1. /\ entries' = [entries EXCEPT ![k] = next]
      /\ sched' = [sched EXCEPT !.todo = @ \ {k}]
      /\ UNCHANGED <<now, tick, flash, app, save, stale, rung>>
  BY DEF PassOver, history, IInv, EntriesSound
<1>2. entries[k] # None => Sound(next) /\ next.config = entries[k].config
  BY SettledSound DEF IInv, EntriesSound, Occupied
<1> HIDE DEF next
<1>3. entries[k] = None => next = None  BY DEF next
<1>4. EntriesSound'  BY <1>1, <1>2, <1>3, OneEntrySound DEF IInv
<1>5. RestTyped'  BY <1>1 DEF IInv, RestTyped, SchedType
<1>6. TasksAgree'  BY <1>1 DEF IInv, RestTyped, SchedType, TasksAgree, Saving
<1>7. SavesAgree'
  <2>1. ASSUME NEW scope \in Scopes PROVE Snapshot(entries, scope)' = Snapshot(entries, scope)
    <3>1. entries[k] # None => next # None  BY <1>2, SchedulerAssumption DEF Sound
    <3>2. Shown(next, scope) = Shown(entries[k], scope)  BY <1>2, <1>3, <3>1 DEF Shown
    <3> QED  BY <1>1, <3>2, SnapshotKept DEF IInv, EntriesSound
  <2>2. \A scope \in Scopes : Pending(scope)' <=> Pending(scope)
    BY <1>1 DEF Pending, IInv, RestTyped, SchedType
  <2>3. \A scope \in Scopes : scope \in stale' <=> scope \in stale  BY <1>1
  <2>4. save' = save /\ flash' = flash /\ app' = app  BY <1>1
  <2> QED  BY <2>1, <2>2, <2>3, <2>4 DEF IInv, SavesAgree
<1>8. k \in rung => Over(next)
  <2> SUFFICES ASSUME k \in rung PROVE Over(next)  OBVIOUS
  <2>1. Over(entries[k]) /\ Sound(entries[k])  BY DEF IInv, RungOver, Over, EntriesSound, Occupied
  <2>2. next = Settled(entries[k], sched.moment) /\ next # None
    BY <1>2, <2>1, SchedulerAssumption DEF next, Over, Sound
  <2>3. next.config = entries[k].config  BY <1>2, <2>1 DEF Over
  <2>4. entries[k].config.enabled => ~Closes(entries[k], sched.moment)
    BY <2>1 DEF PassOver, Over
  <2> QED  BY <2>1, <2>2, <2>3, <2>4, SettledOver DEF Over
<1>9. RungOver'  BY <1>1, <1>8, RungKept
<1> QED  BY <1>4, <1>5, <1>6, <1>7, <1>9 DEF IInv

(* The app task: a call that changes an entry and goes on to save it. *)
LEMMA SavedChangeInv ==
  ASSUME IInv, NEW k \in Keys, NEW next, next = None \/ Sound(next), ~Saving("app"), app.at # "off",
         NEW scope \in Scopes, NEW previous \in Scopes,
         entries' = [entries EXCEPT ![k] = next], Persist("app", scope, previous),
         entries[k] # None => entries[k].config.scope = previous,
         next # None => next.config.scope = scope,
         app' \in AppType, app'.at = "idle", app.at # "deliver",
         UNCHANGED <<now, tick, flash, sched, stale>>, rung' \subseteq rung,
         k \in rung' => next # None /\ ~next.config.enabled
  PROVE  IInv'
<1>1. EntriesSound'  BY OneEntrySound DEF IInv
<1>2. /\ save' \in [Tasks -> SaveType] /\ save'["scheduler"] = save["scheduler"]
      /\ save'["app"].scope = scope /\ ~save'["app"].taken
      /\ save'["app"].next = IF previous = scope THEN None ELSE previous
  BY PersistFacts DEF IInv, RestTyped, Tasks
<1>3. RestTyped'  BY <1>2 DEF IInv, RestTyped
<1>7. RungOver'  BY RungKept DEF Over
<1>4. ~save["app"].taken /\ save["app"].scope = None /\ save["app"].next = None
  BY DEF Saving, IInv, TasksAgree, Tasks
<1>5. TasksAgree'
  BY <1>2, <1>4, SchedulerAssumption DEF IInv, TasksAgree, Saving, Tasks
<1>6. SavesAgree'
  <2> SUFFICES ASSUME NEW s \in Scopes, ~Pending(s)'
               PROVE  /\ ~Pending(s)
                      /\ Snapshot(entries, s)' = Snapshot(entries, s)
                      /\ \A t \in Tasks : \/ save'[t] = save[t]
                                          \/ ~save[t].taken /\ save'[t].scope # s
    BY NothingForgotten DEF IInv
  <2>1. s # scope /\ s # previous  BY <1>2 DEF Pending, Tasks
  <2>2. ~Pending(s)
    BY <1>2, <1>4, SchedulerAssumption DEF Pending, Tasks
  <2>3. Shown(next, s) = Shown(entries[k], s)  BY <2>1 DEF Shown
  <2>4. Snapshot(entries, s)' = Snapshot(entries, s)
    BY <2>3, SnapshotKept DEF IInv, EntriesSound
  <2> QED  BY <1>2, <1>4, <2>1, <2>2, <2>4 DEF Tasks
<1> QED  BY <1>1, <1>3, <1>5, <1>6, <1>7 DEF IInv

(* A call that only reads, and may come back with a configuration to give. *)
LEMMA EditInv ==
  ASSUME IInv, Ready, app' \in AppType, app'.at \in {"idle", "edit"},
         app'.at = "edit" => app'.key \in Keys /\ app'.config \in Config,
         UNCHANGED <<now, tick, entries, flash, sched, save, history>>
  PROVE  IInv'
<1> USE DEF history, Ready
<1>1. EntriesSound'  BY DEF IInv, EntriesSound, Occupied
<1>2. RestTyped'  BY DEF IInv, RestTyped
<1>3. TasksAgree'  BY DEF IInv, TasksAgree, Saving
<1>4. SavesAgree'  BY DEF IInv, SavesAgree, Pending, Snapshot
<1>5. RungOver'  BY DEF IInv, RungOver
<1> QED  BY <1>1, <1>2, <1>3, <1>4, <1>5 DEF IInv

LEMMA SetUpInv == ASSUME IInv, NEW k \in Keys, SetUp(k) PROVE IInv'
<1>1. /\ Ready /\ k \in app.todo /\ k \in Alarms /\ app \in AppType
      /\ UNCHANGED <<now, tick, entries, flash, sched, save, history>>
  BY DEF SetUp, IInv, RestTyped, AppType
<1>2. CASE entries[k] = None
  <2>1. Edit(k, Default[k], app.todo \ {k}) /\ Default[k] \in Config
    BY <1>1, <1>2, SchedulerAssumption DEF SetUp
  <2> QED  BY <1>1, <2>1, EditInv DEF Edit, AppType
<1>3. CASE entries[k] # None /\ entries[k].config.scope = "FEATURE"
  <2> DEFINE moved == [entries[k].config EXCEPT !.scope = "APP"]
  <2>1. Edit(k, moved, app.todo \ {k})  BY <1>3 DEF SetUp
  <2>2. moved \in Config
    BY <1>3, ScopeConfig DEF IInv, EntriesSound, Occupied, Sound, Entry, Scopes
  <2> HIDE DEF moved
  <2> QED  BY <1>1, <2>1, <2>2, EditInv DEF Edit, AppType
<1>4. CASE entries[k] # None /\ entries[k].config.scope # "FEATURE"
  <2>1. app' = [app EXCEPT !.todo = @ \ {k}]  BY <1>4 DEF SetUp
  <2> QED  BY <1>1, <2>1, EditInv DEF AppType, Ready
<1> QED  BY <1>2, <1>3, <1>4

LEMMA BeginEditInv == ASSUME IInv, NEW k \in Keys, BeginEdit(k) PROVE IInv'
<1>1. PICK c \in Configs[k] : Edit(k, c, {})  BY DEF BeginEdit
<1>2. c \in Config  BY SchedulerAssumption
<1> QED  BY <1>1, <1>2, EditInv DEF BeginEdit, Edit, AppType

LEMMA UpsertInv == ASSUME IInv, Upsert PROVE IInv'
<1> DEFINE k == app.key
           c == app.config
           previous == IF k \in Occupied THEN entries[k].config.scope ELSE c.scope
<1>1. /\ app.at = "edit" /\ k \in Keys /\ c \in Config /\ ~Saving("app") /\ app \in AppType
      /\ UNCHANGED <<now, tick, flash, sched, stale>>
  BY DEF Upsert, IInv, RestTyped, TasksAgree
<1>2. CASE k \in Occupied \/ Cardinality(Occupied) < MaxEntries
  <2>1. /\ entries' = [entries EXCEPT ![k] = Fresh(c)] /\ Persist("app", c.scope, previous)
        /\ rung' = IF c.enabled THEN rung \ {k} ELSE rung
        /\ app' = [Started EXCEPT !.todo = app.todo]
    BY <1>2 DEF Upsert, SaveMoved
  <2>2. app' \in AppType /\ app'.at = "idle"  BY <1>1, <2>1 DEF Started, AppType
  <2>3. Sound(Fresh(c)) /\ Fresh(c).config.scope = c.scope /\ c.scope \in Scopes
    BY <1>1, FreshSound DEF Fresh, Config
  <2>4. previous \in Scopes /\ (entries[k] # None => entries[k].config.scope = previous)
    BY <1>1, <2>3 DEF Occupied, IInv, EntriesSound, Sound, Entry, Config
  <2>5. rung' \subseteq rung /\ (k \in rung' => Fresh(c) # None /\ ~Fresh(c).config.enabled)
    BY <2>1, <2>3, SchedulerAssumption DEF Fresh, Sound
  <2> HIDE DEF previous, k, c
  <2> QED  BY <1>1, <2>1, <2>2, <2>3, <2>4, <2>5, SavedChangeInv
<1>3. CASE ~(k \in Occupied \/ Cardinality(Occupied) < MaxEntries)
  <2>1. app' = [Started EXCEPT !.todo = {}] /\ UNCHANGED <<entries, save, rung>>
    BY <1>3 DEF Upsert
  <2>2. app' \in AppType /\ app'.at = "idle"  BY <2>1 DEF Started, AppType
  <2>3. EntriesSound'  BY <2>1 DEF IInv, EntriesSound, Occupied
  <2>4. RestTyped'  BY <1>1, <2>1, <2>2 DEF IInv, RestTyped
  <2>5. TasksAgree'  BY <1>1, <2>1, <2>2 DEF IInv, TasksAgree, Saving
  <2>6. SavesAgree'  BY <1>1, <2>1, <2>2 DEF IInv, SavesAgree, Pending, Snapshot
  <2>7. RungOver'  BY <2>1 DEF IInv, RungOver
  <2> QED  BY <2>3, <2>4, <2>5, <2>6, <2>7 DEF IInv
<1> QED  BY <1>2, <1>3

LEMMA RemoveInv == ASSUME IInv, NEW k \in Keys, Remove(k) PROVE IInv'
<1>1. /\ entries[k] # None /\ Sound(entries[k]) /\ app.at = "idle" /\ ~Saving("app") /\ app \in AppType
      /\ entries' = [entries EXCEPT ![k] = None]
      /\ Persist("app", entries[k].config.scope, entries[k].config.scope)
      /\ UNCHANGED <<now, tick, flash, sched, app, stale>> /\ rung' = rung \ {k}
  BY DEF Remove, Ready, Occupied, IInv, EntriesSound, RestTyped
<1>2. entries[k].config.scope \in Scopes  BY <1>1 DEF Sound, Entry, Config
<1> QED  BY <1>1, <1>2, SavedChangeInv

LEMMA SetEnabledInv == ASSUME IInv, NEW k \in Keys, NEW b \in BOOLEAN, SetEnabled(k, b) PROVE IInv'
<1> DEFINE c == [entries[k].config EXCEPT !.enabled = b]
<1>1. /\ entries[k] # None /\ Sound(entries[k]) /\ app.at = "idle" /\ ~Saving("app") /\ app \in AppType
      /\ entries' = [entries EXCEPT ![k] = Fresh(c)]
      /\ Persist("app", entries[k].config.scope, entries[k].config.scope)
      /\ UNCHANGED <<now, tick, flash, sched, app, stale>>
      /\ rung' = IF b THEN rung \ {k} ELSE rung
  BY DEF SetEnabled, Ready, Occupied, IInv, EntriesSound, RestTyped
<1>2. c \in Config /\ c.scope = entries[k].config.scope /\ c.scope \in Scopes
  BY <1>1, EnabledConfig DEF Sound, Entry, Config
<1>3. Sound(Fresh(c)) /\ Fresh(c).config = c  BY <1>2, FreshSound DEF Fresh
<1>4. Fresh(c) # None /\ c.enabled = b
  BY <1>1, <1>3, SchedulerAssumption DEF Sound, Entry, Config
<1> HIDE DEF c
<1> QED  BY <1>1, <1>2, <1>3, <1>4, SavedChangeInv

(* The save of a stop is owed until its event is handed over. *)
LEMMA StopInv == ASSUME IInv, NEW k \in Keys, Stop(k) PROVE IInv'
<1> DEFINE e    == entries[k]
           next == [e EXCEPT !.state = "STOPPED",
                             !.config.enabled = @ /\ (~e.config.latched \/ e.config.repeat)]
<1>1. /\ e # None /\ Sound(e) /\ e.state = "ACTIVE" /\ app.at = "idle" /\ ~Saving("app")
      /\ app \in AppType /\ UNCHANGED <<now, tick, flash, sched, save, history>>
      /\ app' = [app EXCEPT !.at = "deliver", !.key = k, !.config = e.config]
  BY DEF Stop, Ready, Occupied, IInv, EntriesSound, RestTyped
<1>2. entries' = [entries EXCEPT ![k] = next]  BY DEF Stop, IInv, EntriesSound
<1>3. Sound(next) /\ next.config.scope = e.config.scope
  BY <1>1 DEF Sound, Entry, Config, States
<1>4. app' \in AppType /\ app'.at = "deliver" /\ app'.key = k /\ app'.config = e.config /\ e.config \in Config
  BY <1>1 DEF AppType, Sound, Entry
<1> HIDE DEF next
<1>5. EntriesSound'  BY <1>2, <1>3, OneEntrySound DEF IInv
<1>6. RestTyped'  BY <1>1, <1>4 DEF IInv, RestTyped, history
<1>7. TasksAgree'  BY <1>1, <1>4 DEF IInv, TasksAgree, Saving
<1>8. SavesAgree'
  <2> SUFFICES ASSUME NEW s \in Scopes, ~Pending(s)'
               PROVE  ~Pending(s) /\ Snapshot(entries, s)' = Snapshot(entries, s)
    BY <1>1, NothingForgotten DEF IInv, history
  <2>1. s # e.config.scope  BY <1>4 DEF Pending
  <2>2. ~Pending(s)  BY <1>1 DEF Pending
  <2>3. Shown(next, s) = Shown(e, s)  BY <1>3, <2>1 DEF Shown
  <2>4. Snapshot(entries, s)' = Snapshot(entries, s)
    BY <1>2, <2>3, SnapshotKept DEF IInv, EntriesSound
  <2> QED  BY <2>2, <2>4
<1>9. k \in rung => Over(next)
  BY <1>1, <1>3, SchedulerAssumption DEF IInv, RungOver, Over, Sound, Entry, Config, next
<1>10. RungOver'  BY <1>1, <1>2, <1>9, RungKept DEF history
<1> QED  BY <1>5, <1>6, <1>7, <1>8, <1>10 DEF IInv

LEMMA DeliverStopInv == ASSUME IInv, DeliverStop PROVE IInv'
<1> DEFINE scope == app.config.scope
<1>1. /\ app.at = "deliver" /\ ~Saving("app") /\ scope \in Scopes /\ Persist("app", scope, scope)
      /\ UNCHANGED <<now, tick, entries, flash, sched, history>>
  BY DEF DeliverStop, IInv, TasksAgree, Config
<1>2. app' \in AppType /\ app'.at = "idle"  BY DEF DeliverStop, Started, AppType
<1>3. /\ save' \in [Tasks -> SaveType] /\ save'["scheduler"] = save["scheduler"]
      /\ save'["app"].scope = scope /\ ~save'["app"].taken /\ save'["app"].next = None
  BY <1>1, PersistFacts DEF IInv, RestTyped, Tasks
<1>4. ~save["app"].taken /\ save["app"].scope = None /\ save["app"].next = None
  BY <1>1 DEF Saving, IInv, TasksAgree, Tasks
<1>5. EntriesSound'  BY <1>1 DEF IInv, EntriesSound, Occupied
<1>6. RestTyped'  BY <1>1, <1>2, <1>3 DEF IInv, RestTyped, history
<1>7. TasksAgree'
  BY <1>1, <1>2, <1>3, <1>4, SchedulerAssumption DEF IInv, TasksAgree, Saving, Tasks
<1>8. SavesAgree'
  <2> SUFFICES ASSUME NEW s \in Scopes, ~Pending(s)'
               PROVE  /\ ~Pending(s)
                      /\ Snapshot(entries, s)' = Snapshot(entries, s)
                      /\ \A t \in Tasks : \/ save'[t] = save[t]
                                          \/ ~save[t].taken /\ save'[t].scope # s
    BY <1>1, NothingForgotten DEF IInv, history
  <2>1. s # scope  BY <1>3 DEF Pending, Tasks
  <2>2. ~Pending(s)  BY <1>1, <1>3, <1>4, <2>1, SchedulerAssumption DEF Pending, Tasks
  <2>3. Snapshot(entries, s)' = Snapshot(entries, s)  BY <1>1 DEF Snapshot
  <2> QED  BY <1>3, <1>4, <2>1, <2>2, <2>3 DEF Tasks
<1>9. RungOver'  BY <1>1 DEF IInv, RungOver, history
<1> QED  BY <1>5, <1>6, <1>7, <1>8, <1>9 DEF IInv

(* A start makes the entries from the blobs; what does not agree then is stale. *)
LEMMA BootInv == ASSUME IInv, Boot PROVE IInv'
<1>0. PICK appKeys \in Fitting(InBlob("APP"), 0) :
        \E keys \in Fitting(InBlob("FEATURE") \ appKeys, Cardinality(appKeys)) : Booted(appKeys, keys)
  BY DEF Boot, Booted
<1>1. PICK featureKeys \in Fitting(InBlob("FEATURE") \ appKeys, Cardinality(appKeys)) :
        /\ entries' = Loaded(appKeys, featureKeys)
        /\ \/ flash' = [flash EXCEPT !["FEATURE"] = Snapshot(Loaded(appKeys, featureKeys), "FEATURE")]
           \/ UNCHANGED flash
        /\ sched' = Asleep /\ app' = Started
        /\ save' = [t \in Tasks |-> NoSave]
        /\ now' \in {now, None} /\ tick' = now'
        /\ stale' = {s \in Scopes : flash'[s] # Snapshot(Loaded(appKeys, featureKeys), s)}
        /\ rung' = {k \in rung : Loaded(appKeys, featureKeys)[k] # None
                                 /\ ~Loaded(appKeys, featureKeys)[k].config.enabled}
  BY <1>0 DEF Booted
<1> DEFINE loaded == Loaded(appKeys, featureKeys)
<1>2. appKeys \subseteq InBlob("APP") /\ featureKeys \subseteq InBlob("FEATURE")
  BY DEF Fitting
<1>3. ASSUME NEW k \in Keys PROVE loaded[k] = None \/ Sound(loaded[k])
  <2>1. k \in appKeys => flash["APP"][k] \in Config
    BY <1>2 DEF InBlob, IInv, RestTyped, Stored, Scopes
  <2>2. k \in featureKeys => flash["FEATURE"][k] \in Config
    BY <1>2 DEF InBlob, IInv, RestTyped, Stored, Scopes
  <2> QED  BY <2>1, <2>2, FreshSound DEF Loaded
<1>4. loaded \in [Keys -> Entry \cup {None}]
  BY <1>3 DEF Loaded, Sound
<1>5. EntriesSound'  BY <1>1, <1>3, <1>4 DEF EntriesSound, Occupied
<1>6. flash' \in [Scopes -> Stored]
  BY <1>1, <1>4, SnapshotTyped DEF IInv, RestTyped
<1>7. NoBlob \in Stored  BY DEF NoBlob, Stored
<1>8. RestTyped'
  BY <1>1, <1>6, <1>7 DEF IInv, RestTyped, SchedType, AppType, SaveType, Asleep, Started, NoSave
<1>9. TasksAgree'  BY <1>1 DEF TasksAgree, Asleep, Started, NoSave, Saving
<1>10. SavesAgree'
  <2>1. \A scope \in Scopes : Snapshot(entries, scope)' = Snapshot(loaded, scope)
    BY <1>1 DEF Snapshot
  <2>2. \A scope \in Scopes : \A t \in Tasks : save'[t].scope # scope
    BY <1>1, SchedulerAssumption DEF NoSave
  <2>3. \A scope \in Scopes : scope \in stale' \/ flash'[scope] = Snapshot(loaded, scope)
    BY <1>1
  <2> QED  BY <2>1, <2>2, <2>3 DEF SavesAgree
<1>11. RungOver'  BY <1>1 DEF RungOver, Over
<1> QED  BY <1>5, <1>8, <1>9, <1>10, <1>11 DEF IInv

-----------------------------------------------------------------------------
THEOREM NextInv == IInv /\ [Next]_vars => IInv'
<1> SUFFICES ASSUME IInv, [Next]_vars PROVE IInv'  OBVIOUS
<1>1. CASE Boot  BY <1>1, BootInv
<1>2. CASE ClockTicks  BY <1>2, ClockTicksInv
<1>3. CASE Scheduler
  BY <1>3, TicksInv, DeliverInv, SetOffInv, CloseWindowInv, PassOverInv DEF Scheduler
<1>4. CASE App
  BY <1>4, SetUpInv, BeginEditInv, UpsertInv, RemoveInv, SetEnabledInv, StopInv, DeliverStopInv DEF App
<1>5. ASSUME NEW t \in Tasks, SaveStep(t) PROVE IInv'
  BY <1>5, TakeSnapshotInv, WriteBlobInv, WriteFailsInv DEF SaveStep
<1>6. CASE UNCHANGED vars  BY <1>6, StutterInv
<1> QED  BY <1>1, <1>2, <1>3, <1>4, <1>5, <1>6 DEF Next

THEOREM Invariance == Spec => []IInv
<1> QED  BY InitInv, NextInv, PTL DEF Spec

(* The variables have their types, and an entry's state agrees with what is set of *)
(* it (app_scheduler.c, app_scheduler_process_entry and the calls of its users).   *)
THEOREM TypeCorrect == Spec => []TypeOK
<1>1. IInv => TypeOK
  BY DEF IInv, EntriesSound, RestTyped, TypeOK, Sound, SchedType, AppType, SaveType
<1> QED  BY <1>1, Invariance, PTL

(* A blob is what its schedules are, unless a save of it is owed or has failed     *)
(* (app_scheduler_write_scope under s_persist_mutex).                            *)
THEOREM BlobsAgree == Spec => []BlobAgrees
<1>1. IInv => BlobAgrees
  BY DEF IInv, SavesAgree, BlobAgrees, Pending, Owed
<1> QED  BY <1>1, Invariance, PTL

(* A schedule that does not repeat goes off once, unless the flash did not keep    *)
(* its end (app_scheduler_process_entry, app_scheduler_stop).                     *)
THEOREM OneShotsGoOffOnce == Spec => OneShotGoesOffOnce
<1> DEFINE Again == \E k \in Keys : /\ sched.at = "look" /\ sched'.event \in {"FIRED", "STARTED"}
                                    /\ sched'.key = k /\ k \in rung
<1>1. IInv /\ Next => ~Again
  <2> SUFFICES ASSUME IInv, Next, sched.at = "look", sched'.event \in {"FIRED", "STARTED"},
                      sched'.key \in rung
               PROVE  FALSE
    OBVIOUS
  <2>0. sched.event = None /\ sched \in SchedType  BY DEF IInv, TasksAgree, RestTyped
  <2>1. ASSUME sched' = sched PROVE FALSE
    BY <2>0, <2>1, SchedulerAssumption DEF Events
  <2>2. CASE Boot  BY <2>2, SchedulerAssumption DEF Boot, Booted, Asleep, Events
  <2>3. CASE ClockTicks  BY <2>1, <2>3 DEF ClockTicks, tasks
  <2>4. CASE TakeTick \/ LooksDone \/ Deliver
    BY <2>4, SchedulerAssumption DEF TakeTick, LooksDone, Deliver, Asleep, Events
  <2>5. ASSUME NEW k \in Keys, SetOff(k) PROVE FALSE
    <3>1. sched'.key = k  BY <2>0, <2>5 DEF SetOff, Publish, SchedType
    <3>2. Over(entries[k]) /\ Sound(entries[k])
      BY <3>1 DEF IInv, RungOver, Over, EntriesSound, Occupied
    <3>3. GoesOff(entries[k], sched.moment)  BY <2>5 DEF SetOff
    <3> QED  BY <3>2, <3>3 DEF Over, GoesOff, Sound
  <2>6. ASSUME NEW k \in Keys, CloseWindow(k) PROVE FALSE
    BY <2>0, <2>6 DEF CloseWindow, Publish, SchedType
  <2>7. ASSUME NEW k \in Keys, PassOver(k) PROVE FALSE
    <3>1. sched'.event = sched.event  BY <2>0, <2>7 DEF PassOver, SchedType
    <3> QED  BY <2>0, <3>1, SchedulerAssumption DEF Events
  <2>8. CASE App
    BY <2>1, <2>8 DEF App, SetUp, BeginEdit, Upsert, Remove, SetEnabled, Stop, DeliverStop
  <2>9. ASSUME NEW t \in Tasks, SaveStep(t) PROVE FALSE
    BY <2>1, <2>9 DEF SaveStep, TakeSnapshot, WriteBlob, WriteFails
  <2> QED  BY <2>2, <2>3, <2>4, <2>5, <2>6, <2>7, <2>8, <2>9 DEF Next, Scheduler
<1>2. IInv /\ [Next]_vars
        => [\A k \in Keys : sched.at = "look" /\ sched'.event \in {"FIRED", "STARTED"} /\ sched'.key = k
              => k \notin rung]_vars
  BY <1>1
<1> QED  BY <1>2, Invariance, PTL DEF Spec, OneShotGoesOffOnce
=============================================================================
