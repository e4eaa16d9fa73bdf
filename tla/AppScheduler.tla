----------------------------- MODULE AppScheduler -----------------------------
(***************************************************************************)
(* The schedules, components/services/app_scheduler, with their clock      *)
(* (services/time_tick) and their first user (apps/cyd_clock_alarm).       *)
(*                                                                         *)
(* The scheduler task looks at every schedule once a second; the app task  *)
(* changes them.  A spin lock makes each look and each change a step; the  *)
(* events are handed to the owner, and the flash is written, after it.     *)
(* Schedules are stored in two scopes, each in a blob of its own, and the  *)
(* device may restart at any moment.                                       *)
(***************************************************************************)
EXTENDS Naturals, FiniteSets

CONSTANTS
    Keys,           \* the owner/tag pairs that name schedules
    Alarms,         \* those of cyd_clock_alarm, which it sets up at every start
    Configs,        \* Configs[k]: the configurations that the owner of k gives it
    Default,        \* Default[k]: cyd_clock_alarm_default_schedule()
    MaxEntries,     \* APP_SCHEDULER_MAX_ENTRIES
    Days, Seconds,  \* the days and the seconds of a day
    FlashMayFail,   \* whether a write to NVS may fail
    None            \* no schedule, no time, no scope

Scopes  == {"APP", "FEATURE"}
Moments == [day: Days, second: Seconds]

(* A configuration that app_scheduler_validate_config() accepts. *)
Config == { c \in [ mode: {"INSTANT", "WINDOW"}, latched: BOOLEAN, enabled: BOOLEAN, repeat: BOOLEAN,
                    days: SUBSET Days, at: Seconds, to: Seconds, scope: Scopes ] :
              c.mode = "WINDOW" => ~c.latched /\ c.at < c.to }

Tasks  == {"scheduler", "app"}
States == {"DISABLED", "WAITING", "ACTIVE", "STOPPED"}
Events == {"FIRED", "STARTED", "ENDED", "STOPPED_BY_USER"}
Stored == [Keys -> Config \cup {None}]
Entry  == [config: Config, state: States, stamp: Moments \cup {None}]

ASSUME SchedulerAssumption ==
    /\ Alarms \subseteq Keys /\ IsFiniteSet(Keys)
    /\ Seconds \subseteq Nat
    /\ \A k \in Keys : Configs[k] \subseteq Config
    /\ \A k \in Alarms : Default[k] \in Config /\ Default[k].scope = "APP"
    /\ MaxEntries \in Nat /\ FlashMayFail \in BOOLEAN
    /\ None \notin Config \cup Entry \cup Events \cup Moments \cup Scopes

VARIABLES
    now,            \* the clock, None until it is set
    tick,           \* the scheduler's time_tick queue, which holds the newest tick
    entries,        \* s_entries, by key
    flash,          \* the blob of each scope
    sched,          \* the scheduler task: its place, its tick, the entries still to look at,
                    \* the event it has for one of them, and the scope it then has to save
    app,            \* the app task: its place, the key it works on, its copy of the config,
                    \* and the alarms still to be set up
    save,           \* each task's call of persist: the scope it writes, the scope that is
                    \* next, and its snapshot of the first once it holds the mutex
    stale,          \* the scopes of which the last write failed, or was given up
    rung            \* the one-shots that went off and that nobody enabled since

tasks  == <<sched, app, save>>
history == <<stale, rung>>
vars == <<now, tick, entries, flash, tasks, history>>

-----------------------------------------------------------------------------
(* app_scheduler_initial_state(). *)
Fresh(c) == [config |-> c, state |-> IF c.enabled THEN "WAITING" ELSE "DISABLED", stamp |-> None]

Occupied == {k \in Keys : entries[k] # None}

(* What write_scope() puts into the blob of a scope. *)
Snapshot(table, scope) ==
    [k \in Keys |-> IF table[k] # None /\ table[k].config.scope = scope THEN table[k].config ELSE None]

NoBlob == [k \in Keys |-> None]
NoSave == [scope |-> None, next |-> None, taken |-> FALSE, copy |-> NoBlob]

Asleep  == [at |-> "wait", moment |-> None, todo |-> {}, key |-> None, event |-> None, owes |-> None]
Started == [at |-> "idle", key |-> None, config |-> None, todo |-> Alarms]

(* The device comes with what an earlier firmware stored: alarms in FEATURE. *)
Legacy(k) == IF k \in Alarms THEN {[c EXCEPT !.scope = "FEATURE"] : c \in Configs[k]} ELSE {}

LegacyBlobs ==
    {blob \in [Keys -> {None} \cup UNION {Legacy(k) : k \in Keys}] :
        \A k \in Keys : blob[k] # None => blob[k] \in Legacy(k)}

Init ==
    /\ now = None /\ tick = None
    /\ entries = NoBlob
    /\ \E blob \in LegacyBlobs : flash = [s \in Scopes |-> IF s = "FEATURE" THEN blob ELSE NoBlob]
    /\ sched = Asleep /\ app = [Started EXCEPT !.at = "off"]
    /\ save = [t \in Tasks |-> NoSave]
    /\ stale = {} /\ rung = {}

-----------------------------------------------------------------------------
(* Loading.  A scope's schedules go into the free entries, those of APP first; a  *)
(* key that is already loaded is a duplicate, and FEATURE's blob then loses it. *)
InBlob(scope) == {k \in Keys : flash[scope][k] # None}

Fitting(keys, taken) ==
    {fit \in SUBSET keys : Cardinality(fit) = IF Cardinality(keys) + taken <= MaxEntries
                                              THEN Cardinality(keys) ELSE MaxEntries - taken}

Loaded(appKeys, featureKeys) ==
    [k \in Keys |-> IF k \in appKeys THEN Fresh(flash["APP"][k])
                    ELSE IF k \in featureKeys THEN Fresh(flash["FEATURE"][k]) ELSE None]

Booted(appKeys, featureKeys) ==
    LET loaded     == Loaded(appKeys, featureKeys)
        duplicates == InBlob("FEATURE") \cap appKeys
        overflow   == InBlob("FEATURE") \ (appKeys \cup featureKeys)
    IN  /\ entries' = loaded
        /\ \/ /\ duplicates # {} /\ overflow = {}
              /\ flash' = [flash EXCEPT !["FEATURE"] = Snapshot(loaded, "FEATURE")]
           \/ /\ duplicates = {} \/ overflow # {} \/ FlashMayFail
              /\ UNCHANGED flash
        /\ sched' = Asleep /\ app' = Started
        /\ save' = [t \in Tasks |-> NoSave]
        /\ now' \in {now, None} /\ tick' = now'
        /\ stale' = {s \in Scopes : flash'[s] # Snapshot(loaded, s)}
        /\ rung' = {k \in rung : loaded[k] # None /\ ~loaded[k].config.enabled}

(* The power comes, or the device restarts at any moment: app_scheduler_init(),  *)
(* which is over before there is another task, then cyd_clock_alarm_register(). *)
Boot ==
    \E appKeys \in Fitting(InBlob("APP"), 0) :
        \E featureKeys \in Fitting(InBlob("FEATURE") \ appKeys, Cardinality(appKeys)) :
            Booted(appKeys, featureKeys)

(* time_tick: the clock shows another second, the next one or, when it is set,    *)
(* any; a tick that was not taken is overwritten.                              *)
ClockTicks ==
    /\ app.at # "off"
    /\ now' \in Moments \ {now}
    /\ tick' = now'
    /\ UNCHANGED <<entries, flash, tasks, history>>

-----------------------------------------------------------------------------
(* app_scheduler_persist(), by either task. *)
Saving(t) == save[t].scope # None

Persist(t, scope, previous) ==
    save' = [save EXCEPT ![t] = [NoSave EXCEPT !.scope = scope,
                                               !.next = IF previous = scope THEN None ELSE previous]]

\* Mistaken: the snapshot is taken before the mutex.
TakeSnapshotUnlocked(t) ==
    /\ app.at # "off" /\ Saving(t) /\ ~save[t].taken
    /\ save' = [save EXCEPT ![t] = [@ EXCEPT !.taken = TRUE, !.copy = Snapshot(entries, save[t].scope)]]
    /\ UNCHANGED <<now, tick, entries, flash, sched, app, history>>

(* write_scope(): the mutex, and the snapshot under the spin lock. *)
TakeSnapshot(t) ==
    /\ Saving(t) /\ \A other \in Tasks : ~save[other].taken
    /\ save' = [save EXCEPT ![t] = [@ EXCEPT !.taken = TRUE, !.copy = Snapshot(entries, save[t].scope)]]
    /\ UNCHANGED <<now, tick, entries, flash, sched, app, history>>

WriteBlob(t) ==
    /\ save[t].taken
    /\ flash' = [flash EXCEPT ![save[t].scope] = save[t].copy]
    /\ save' = [save EXCEPT ![t] = [NoSave EXCEPT !.scope = save[t].next]]
    /\ stale' = stale \ {save[t].scope}
    /\ UNCHANGED <<now, tick, entries, sched, app, rung>>

(* An error ends persist(), and the setup of the alarms. *)
WriteFails(t) ==
    /\ FlashMayFail /\ save[t].taken
    /\ save' = [save EXCEPT ![t] = NoSave]
    /\ stale' = stale \cup ({save[t].scope, save[t].next} \ {None})
    /\ app' = IF t = "app" THEN [app EXCEPT !.todo = {}] ELSE app
    /\ UNCHANGED <<now, tick, entries, flash, sched, rung>>

SaveStep(t) == TakeSnapshot(t) \/ WriteBlob(t) \/ WriteFails(t)

-----------------------------------------------------------------------------
(* The scheduler task: at each tick, app_scheduler_process_entry() for each entry. *)
TakeTick ==
    /\ sched.at = "wait" /\ tick # None
    /\ sched' = [Asleep EXCEPT !.at = "look", !.moment = tick, !.todo = Keys]
    /\ tick' = None
    /\ UNCHANGED <<now, entries, flash, app, save, history>>

LooksDone ==
    /\ sched.at = "look" /\ sched.todo = {} /\ ~Saving("scheduler")
    /\ sched' = Asleep
    /\ UNCHANGED <<now, tick, entries, flash, app, save, history>>

Matches(c, moment) ==
    /\ c.repeat => moment.day \in c.days
    /\ IF c.mode = "INSTANT" THEN moment.second = c.at
                             ELSE c.at <= moment.second /\ moment.second < c.to

(* An instant that starts now, a window that opens, a window that has closed. *)
GoesOff(e, moment) ==
    /\ e.config.enabled /\ Matches(e.config, moment)
    /\ IF e.config.mode = "INSTANT"
       THEN (~e.config.latched \/ e.state = "WAITING") /\ e.stamp # moment
       ELSE e.state = "WAITING"

Closes(e, moment) ==
    /\ e.config.enabled /\ ~Matches(e.config, moment)
    /\ e.config.mode = "WINDOW" /\ e.state \in {"ACTIVE", "STOPPED"}

Disabled(e) == [e EXCEPT !.config.enabled = FALSE, !.state = "DISABLED"]

\* Mistaken: whether there is a next time or not.
RearmedAlways(e) == [e EXCEPT !.state = "WAITING"]

(* Ready for the next time, if there is one. *)
Rearmed(e) == IF e.config.repeat THEN [e EXCEPT !.state = "WAITING"] ELSE Disabled(e)

Off(e) ==
    LET gone == [e EXCEPT !.stamp = sched.moment]
    IN  IF e.config.mode = "INSTANT" /\ ~e.config.latched THEN Rearmed(gone)
        ELSE [gone EXCEPT !.state = "ACTIVE"]

(* The entry changes to `next`, and the task goes on to hand over the event. *)
Publish(k, next, event) ==
    /\ entries' = [entries EXCEPT ![k] = next]
    /\ sched' = [sched EXCEPT !.at = "deliver", !.todo = @ \ {k}, !.key = k, !.event = event,
                              !.owes = IF entries[k].config.enabled /\ ~next.config.enabled
                                       THEN next.config.scope ELSE None]

Looks(k) == sched.at = "look" /\ ~Saving("scheduler") /\ k \in sched.todo

SetOff(k) ==
    /\ Looks(k) /\ entries[k] # None /\ GoesOff(entries[k], sched.moment)
    /\ Publish(k, Off(entries[k]),
               IF entries[k].config.mode = "INSTANT" /\ ~entries[k].config.latched THEN "FIRED" ELSE "STARTED")
    /\ rung' = IF entries[k].config.repeat THEN rung ELSE rung \cup {k}
    /\ UNCHANGED <<now, tick, flash, app, save, stale>>

CloseWindow(k) ==
    /\ Looks(k) /\ entries[k] # None /\ Closes(entries[k], sched.moment)
    /\ Publish(k, Rearmed([entries[k] EXCEPT !.stamp = sched.moment]), "ENDED")
    /\ UNCHANGED <<now, tick, flash, app, save, history>>

(* Without an event: a disabled entry, a stopped instant whose second is over, or  *)
(* nothing to do.                                                               *)
Settled(e, moment) ==
    CASE ~e.config.enabled -> [e EXCEPT !.state = "DISABLED"]
      [] e.config.enabled /\ e.config.mode = "INSTANT" /\ e.state = "STOPPED" ->
            IF Matches(e.config, moment) THEN e ELSE Rearmed(e)
      [] e.config.enabled /\ e.config.mode = "INSTANT" /\ e.state # "STOPPED" ->
            IF e.state = "ACTIVE" THEN e ELSE [e EXCEPT !.state = "WAITING"]
      [] e.config.enabled /\ e.config.mode = "WINDOW" ->
            IF Matches(e.config, moment) THEN e ELSE [e EXCEPT !.state = "WAITING"]

PassOver(k) ==
    /\ Looks(k)
    /\ entries[k] # None => ~GoesOff(entries[k], sched.moment) /\ ~Closes(entries[k], sched.moment)
    /\ entries' = IF entries[k] = None THEN entries
                  ELSE [entries EXCEPT ![k] = Settled(@, sched.moment)]
    /\ sched' = [sched EXCEPT !.todo = @ \ {k}]
    /\ UNCHANGED <<now, tick, flash, app, save, history>>

(* app_scheduler_deliver_event(), after the lock; then the change is saved. *)
Deliver ==
    /\ sched.at = "deliver"
    /\ sched' = [sched EXCEPT !.at = "look", !.key = None, !.event = None, !.owes = None]
    /\ IF sched.owes = None THEN UNCHANGED save ELSE Persist("scheduler", sched.owes, sched.owes)
    /\ UNCHANGED <<now, tick, entries, flash, app, history>>

Scheduler ==
    \/ TakeTick \/ LooksDone \/ Deliver
    \/ \E k \in Keys : SetOff(k) \/ CloseWindow(k) \/ PassOver(k)

-----------------------------------------------------------------------------
(* The app task, one call at a time.  First cyd_clock_alarm_register(): an alarm   *)
(* that is not there is made, one of an earlier firmware is moved to APP.        *)
Ready == app.at = "idle" /\ ~Saving("app")

Edit(k, c, rest) == app' = [at |-> "edit", key |-> k, config |-> c, todo |-> rest]

SetUp(k) ==
    /\ Ready /\ k \in app.todo
    /\ IF entries[k] = None THEN Edit(k, Default[k], app.todo \ {k})
       ELSE IF entries[k].config.scope = "FEATURE"
       THEN Edit(k, [entries[k].config EXCEPT !.scope = "APP"], app.todo \ {k})
       ELSE app' = [app EXCEPT !.todo = @ \ {k}]
    /\ UNCHANGED <<now, tick, entries, flash, sched, save, history>>

(* Then the user: a setting is read, changed, and given back with upsert. *)
BeginEdit(k) ==
    /\ Ready /\ app.todo = {}
    /\ \E c \in Configs[k] :
        /\ c.enabled = (entries[k] # None /\ entries[k].config.enabled)
        /\ Edit(k, c, {})
    /\ UNCHANGED <<now, tick, entries, flash, sched, save, history>>

(* The destination first, then the scope that is left. *)
SaveMoved(c, previous) == Persist("app", c.scope, previous)

Upsert ==
    /\ app.at = "edit"
    /\ LET k == app.key  c == app.config
       IN  IF k \in Occupied \/ Cardinality(Occupied) < MaxEntries
           THEN /\ entries' = [entries EXCEPT ![k] = Fresh(c)]
                /\ SaveMoved(c, IF k \in Occupied THEN entries[k].config.scope ELSE c.scope)
                /\ rung' = IF c.enabled THEN rung \ {k} ELSE rung
                /\ app' = [Started EXCEPT !.todo = app.todo]
           ELSE app' = [Started EXCEPT !.todo = {}] /\ UNCHANGED <<entries, save, rung>>
    /\ UNCHANGED <<now, tick, flash, sched, stale>>

Remove(k) ==
    /\ Ready /\ app.todo = {} /\ k \in Occupied
    /\ entries' = [entries EXCEPT ![k] = None]
    /\ Persist("app", entries[k].config.scope, entries[k].config.scope)
    /\ rung' = rung \ {k}
    /\ UNCHANGED <<now, tick, flash, sched, app, stale>>

SetEnabled(k, enabled) ==
    /\ Ready /\ app.todo = {} /\ k \in Occupied
    /\ entries' = [entries EXCEPT ![k] = Fresh([@.config EXCEPT !.enabled = enabled])]
    /\ Persist("app", entries[k].config.scope, entries[k].config.scope)
    /\ rung' = IF enabled THEN rung \ {k} ELSE rung
    /\ UNCHANGED <<now, tick, flash, sched, app, stale>>

(* app_scheduler_stop(): the state under the lock, the event after it. *)
Stop(k) ==
    /\ Ready /\ app.todo = {} /\ k \in Occupied /\ entries[k].state = "ACTIVE"
    /\ entries' = [entries EXCEPT ![k].state = "STOPPED",
                                  ![k].config.enabled = @ /\ (~entries[k].config.latched \/ entries[k].config.repeat)]
    /\ app' = [app EXCEPT !.at = "deliver", !.key = k, !.config = entries[k].config]
    /\ UNCHANGED <<now, tick, flash, sched, save, history>>

DeliverStop ==
    /\ app.at = "deliver"
    /\ Persist("app", app.config.scope, app.config.scope)
    /\ app' = [Started EXCEPT !.todo = {}]
    /\ UNCHANGED <<now, tick, entries, flash, sched, history>>

App ==
    \/ Upsert \/ DeliverStop
    \/ \E k \in Keys : \/ SetUp(k) \/ BeginEdit(k) \/ Remove(k) \/ Stop(k)
                       \/ \E enabled \in BOOLEAN : SetEnabled(k, enabled)

-----------------------------------------------------------------------------
Next == Boot \/ ClockTicks \/ Scheduler \/ App \/ (\E t \in Tasks : SaveStep(t))

Spec == Init /\ [][Next]_vars

-----------------------------------------------------------------------------
(* The types; and an entry is disabled in its state as in its configuration, but  *)
(* for a one-shot that was stopped, until the scheduler looks at it.             *)
TypeOK ==
    /\ now \in Moments \cup {None} /\ tick \in Moments \cup {None}
    /\ entries \in [Keys -> Entry \cup {None}]
    /\ \A k \in Occupied : IF entries[k].config.enabled THEN entries[k].state # "DISABLED"
                            ELSE entries[k].state \in {"DISABLED", "STOPPED"}
    /\ flash \in [Scopes -> Stored]
    /\ sched \in [ at: {"wait", "look", "deliver"}, moment: Moments \cup {None}, todo: SUBSET Keys,
                   key: Keys \cup {None}, event: Events \cup {None}, owes: Scopes \cup {None} ]
    /\ app \in [ at: {"off", "idle", "edit", "deliver"}, key: Keys \cup {None},
                 config: Config \cup {None}, todo: SUBSET Alarms ]
    /\ save \in [Tasks -> [ scope: Scopes \cup {None}, next: Scopes \cup {None}, taken: BOOLEAN,
                            copy: Stored ]]
    /\ stale \subseteq Scopes /\ rung \subseteq Keys

(* The comment on write_scope(): a task that disables a one-shot and an edit in    *)
(* the UI can both save, and no older snapshot is written last.  A scope's blob   *)
(* is what its schedules are, unless a save of it is under way or has failed.     *)
Owed(scope) ==
    \/ \E t \in Tasks : scope \in {save[t].scope, save[t].next}
    \/ sched.owes = scope
    \/ app.at = "deliver" /\ app.config.scope = scope

BlobAgrees ==
    app.at # "off" =>
        \A scope \in Scopes \ stale : Owed(scope) \/ flash[scope] = Snapshot(entries, scope)

(* docs/app_scheduler.md, Repeat and Weekdays: a schedule that does not repeat goes *)
(* off once, whatever the clock does and also after a restart, unless the         *)
(* restart kept its end from the flash.                                          *)
OneShotGoesOffOnce ==
    [][ \A k \in Keys : sched.at = "look" /\ sched'.event \in {"FIRED", "STARTED"} /\ sched'.key = k
            => k \notin rung ]_vars

-----------------------------------------------------------------------------
(* What the documents say and the code does not do: MCAppSchedulerMove.cfg finds  *)
(* the first violated, and the second when it is checked in its place.           *)

(* docs/app_scheduler.md, Scope: the destination of a move is written first, so     *)
(* that a reset on the way does not lose the schedule.  A save of the scope it    *)
(* leaves, by the other task, takes it out of there before.                       *)
InFlash == InBlob("APP") \cup InBlob("FEATURE")

MovedIsNeverLost == [][ \A k \in InFlash \ InFlash' : entries[k] = None ]_vars

(* docs/app_scheduler.md, Window Example: after stop() the scheduler gives no       *)
(* STARTED until the next window.  One that is on its way may come after the       *)
(* owner was told of the stop, and stays its last word.                          *)
NoStartAfterStop ==
    [][ sched.event = "STARTED" /\ sched'.at = "look" /\ entries[sched.key] # None
            /\ entries[sched.key].state = "STOPPED"
        => app.at = "deliver" /\ app.key = sched.key ]_vars
=============================================================================
