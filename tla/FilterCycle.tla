---------------------------- MODULE FilterCycle ----------------------------
(***************************************************************************)
(* The filter cycle the coordinator keeps (coordinator.py): when the       *)
(* filter was last changed, the interval, the history of changes and the   *)
(* reminder, followed from the unit's own hour counter (block 1024) and    *)
(* from HCP4, reset by the button in Home Assistant, stored on disk and    *)
(* loaded again after a restart.                                           *)
(*                                                                         *)
(* Time counts in ticks, Hour ticks to the hour.  The unit counts whole    *)
(* hours since its own reset; the coordinator only sees the decoder's copy *)
(* of that count, which stays as it was while block 1024 is not read.      *)
(* Every update carries the whole of the decoder's data, the ones          *)
(* PassiveLinkClient.run makes at every retry while the link is down       *)
(* included, and nothing looks at the age of the count: a start computed   *)
(* from an old one is too late by that age.                                *)
(*                                                                         *)
(* X_Bug is the definition X with a plausible bug, used by no action.      *)
(***************************************************************************)
EXTENDS Integers, Sequences

CONSTANTS
    Hour,           \* ticks in an hour
    Day,            \* ticks in a day
    UnitInterval,   \* days of the period the unit reports
    HcpIntervals,   \* intervals in days HCP4 may report (none: no HCP4)
    NotifyDays,     \* remaining days at which the reminder is due
    HistoryLimit,   \* changes kept (code: 20)
    Button,         \* is the reset button in Home Assistant used?
    MaxTime, MaxChanges, MaxCrashes   \* bounds on time, changes, restarts

ASSUME FilterAssumption ==
    /\ Hour \in Nat \ {0} /\ Day \in Nat \ {0}
    /\ UnitInterval \in Nat \ {0} /\ HcpIntervals \subseteq Nat \ {0}
    /\ NotifyDays \in Nat /\ HistoryLimit \in Nat \ {0}
    /\ Button \in BOOLEAN
    /\ MaxTime \in Nat /\ MaxChanges \in Nat /\ MaxCrashes \in Nat

None == -1
Tolerance_OneHour == Hour
Tolerance_Exact == 0
Tolerance == 2 * Hour       \* difference taken for jitter, not for a change
DefaultInterval == 360      \* DEFAULT_FILTER_INTERVAL_DAYS

VARIABLES
    now,
    unitStart,      \* when the unit's own counter was last reset
    hours, readAt,  \* the decoder's copy of the count, and when it was read
    countedFrom,    \* history: the unit's reset that copy counts from
    hcpInterval,    \* the decoder's filter_interval_days
    epoch,          \* _filter_reset_epoch
    interval,       \* _filter_interval_days
    marker,         \* _filter_notification_reset_epoch
    history,        \* _filter_reset_history
    remaining,      \* filter_days_remaining in the coordinator's data
    check,          \* the notification check: "none", "queued" or "saving"
    savePending,    \* is a save task waiting to run?
    store,          \* the file of the store
    changes,        \* filter changes that really happened
    pressed,        \* those of them told by the button in Home Assistant
    crashes,        \* restarts so far
    cycle,          \* history: the change that epoch stands for
    late,           \* history: starts taken from a count over an hour old
    warned          \* history: warnings sent per change

clockVars == <<now, unitStart, changes, pressed>>
decoderVars == <<hours, readAt, countedFrom, hcpInterval>>
cycleVars == <<epoch, interval, marker, history, cycle, late>>
vars == <<clockVars, decoderVars, cycleVars, remaining, check, savePending, store,
          crashes, warned>>

Abs(x) == IF x < 0 THEN -x ELSE x

LastN_Untrimmed(s, n) == s
LastN(s, n) == IF Len(s) > n THEN SubSeq(s, Len(s) - n + 1, Len(s)) ELSE s

\* filter_values: whole days left, rounded up, never negative.
DaysLeft(start, days, t) ==
    LET elapsed == IF t > start THEN t - start ELSE 0
        left    == days * Day - elapsed
    IN  IF left <= 0 THEN 0 ELSE (left + Day - 1) \div Day

\* What a save writes; nothing before the first cycle is known.
Snapshot == [ epoch |-> epoch, interval |-> interval, marker |-> marker,
              history |-> history, cycle |-> cycle ]

EmptyStore == [epoch |-> None, interval |-> None, marker |-> None,
               history |-> <<>>, cycle |-> None]

Init ==
    /\ now = 0 /\ unitStart = 0 /\ changes = 1 /\ pressed = 0
    /\ hours = None /\ readAt = None /\ countedFrom = None /\ hcpInterval = None
    /\ epoch = None /\ interval = None /\ marker = None /\ history = <<>>
    /\ cycle = None /\ late = 0
    /\ remaining = None
    /\ check = "queued"
    /\ savePending = FALSE
    /\ store = EmptyStore
    /\ crashes = 0
    /\ warned = [c \in 0..MaxTime |-> 0]

ScheduleCheck_Forgotten == UNCHANGED check
ScheduleCheck == check' = IF check = "none" THEN "queued" ELSE check

-----------------------------------------------------------------------------
\* Does the unit's count stand for another start than the one known?
Adopts_FirstOnly(reset) == epoch = None
Adopts(reset) == epoch = None \/ Abs(reset - epoch) > Tolerance

\* When an update asks for a save: the start was adopted, the interval changed
\* to the unit's or, with a cycle to store, to the one of HCP4.
SaveWanted_NotAdopted(adopt, synced) == synced # interval
SaveWanted_Always(adopt, synced) == epoch' # None
SaveWanted(adopt, synced) ==
    adopt \/ synced # interval \/ (interval' # synced /\ epoch' # None)

\* async_handle_update, filter part, with the decoder's data as it is after
\* the frame: _sync_unit_filter, then the interval of HCP4.
HandleUpdate ==
    LET has    == hours' # None
        reset  == now - hours' * Hour
        adopt  == has /\ Adopts(reset)
        newer  == adopt /\ epoch # None /\ reset > epoch
        kept   == IF newer THEN LastN(Append(history, reset), HistoryLimit) ELSE history
        synced == IF has THEN UnitInterval ELSE interval
    IN
    /\ epoch' = IF adopt THEN reset ELSE epoch
    /\ cycle' = IF adopt THEN countedFrom' ELSE cycle
    /\ late' = IF adopt /\ now - readAt' > Hour THEN late + 1 ELSE late
    /\ history' = IF has /\ kept = <<>> THEN <<reset>> ELSE kept
    /\ marker' = IF newer THEN None ELSE marker
    /\ interval' = IF hcpInterval' # None THEN hcpInterval' ELSE synced
    /\ savePending' = (savePending \/ SaveWanted(adopt, synced))
    /\ remaining' = IF epoch' # None /\ interval' # None
                    THEN DaysLeft(epoch', interval', now) ELSE remaining
    /\ ScheduleCheck

\* Block 1024 is read: the decoder's copy is fresh.
HearCounter ==
    /\ hours' = (now - unitStart) \div Hour
    /\ readAt' = now /\ countedFrom' = unitStart
    /\ UNCHANGED <<clockVars, hcpInterval>>
    /\ HandleUpdate
    /\ UNCHANGED <<store, crashes, warned>>

\* HCP4 sends the interval (register 168 after command 168).
HearInterval ==
    /\ hcpInterval' \in HcpIntervals
    /\ UNCHANGED <<clockVars, hours, readAt, countedFrom>>
    /\ HandleUpdate
    /\ UNCHANGED <<store, crashes, warned>>

\* Any other update: another frame, or a link that went up or down.
OtherUpdate ==
    /\ UNCHANGED <<clockVars, decoderVars>>
    /\ HandleUpdate
    /\ UNCHANGED <<store, crashes, warned>>

\* async_reset_filter: the button in Home Assistant.
ResetFilter ==
    /\ Button /\ changes < MaxChanges
    /\ changes' = changes + 1 /\ pressed' = pressed + 1
    /\ UNCHANGED <<now, unitStart, decoderVars, store, crashes, warned>>
    /\ epoch' = now
    /\ cycle' = now
    /\ UNCHANGED late
    /\ interval' = IF interval = None THEN DefaultInterval ELSE interval
    /\ marker' = None
    /\ history' = LastN(Append(history, now), HistoryLimit)
    /\ remaining' = DaysLeft(epoch', interval', now)
    /\ savePending' = TRUE
    /\ ScheduleCheck

\* The button on the unit; Home Assistant learns of it from the count.
ResetUnit ==
    /\ changes < MaxChanges /\ now > unitStart
    /\ unitStart' = now
    /\ changes' = changes + 1
    /\ UNCHANGED <<now, pressed, decoderVars, cycleVars, remaining, check, savePending,
                   store, crashes, warned>>

\* A tick passes; on the hour, _async_update_filter_clock.
Tick ==
    /\ now < MaxTime
    /\ now' = now + 1
    /\ IF now' % Hour = 0 /\ epoch # None /\ interval # None
       THEN remaining' = DaysLeft(epoch, interval, now') /\ ScheduleCheck
       ELSE UNCHANGED <<remaining, check>>
    /\ UNCHANGED <<unitStart, changes, pressed, decoderVars, cycleVars, savePending,
                   store, crashes, warned>>

-----------------------------------------------------------------------------
\* The reminder: _async_maybe_notify_filter.

Due_Unmarked == epoch # None /\ remaining # None /\ remaining <= NotifyDays
Due == /\ epoch # None
       /\ remaining # None /\ remaining <= NotifyDays
       /\ marker # epoch

\* The service call is not waited for, so the marker is set in the same step;
\* then the task waits for its save.
Notify ==
    /\ check = "queued"
    /\ IF Due
       THEN /\ warned' = [warned EXCEPT ![cycle] = @ + 1]
            /\ marker' = epoch
            /\ check' = "saving"
       ELSE /\ check' = "none"
            /\ UNCHANGED <<warned, marker>>
    /\ UNCHANGED <<clockVars, decoderVars, epoch, interval, history, cycle, late, remaining,
                   savePending, store, crashes>>

NotifySaved ==
    /\ check = "saving"
    /\ store' = Snapshot
    /\ check' = "none"
    /\ UNCHANGED <<clockVars, decoderVars, cycleVars, remaining, savePending, crashes, warned>>

\* _async_save_filter_state as a task of its own.
Save ==
    /\ savePending
    /\ savePending' = FALSE
    /\ store' = IF epoch # None THEN Snapshot ELSE store
    /\ UNCHANGED <<clockVars, decoderVars, cycleVars, remaining, check, crashes, warned>>

\* Home Assistant stops and starts again: async_load_filter_state.
Crash ==
    /\ crashes < MaxCrashes
    /\ crashes' = crashes + 1
    /\ epoch' = store.epoch /\ interval' = store.interval /\ marker' = store.marker
    /\ history' = store.history /\ cycle' = store.cycle
    /\ remaining' = IF epoch' # None THEN DaysLeft(epoch', interval', now) ELSE None
    /\ hours' = None /\ readAt' = None /\ countedFrom' = None /\ hcpInterval' = None
    /\ check' = "queued"
    /\ savePending' = FALSE
    /\ UNCHANGED <<clockVars, store, late, warned>>

Next ==
    \/ HearCounter \/ HearInterval \/ OtherUpdate
    \/ ResetFilter \/ ResetUnit \/ Tick
    \/ Notify \/ NotifySaved \/ Save \/ Crash

\* Tasks run, the unit's count is read again and again.
Fairness == WF_vars(Notify) /\ WF_vars(NotifySaved) /\ WF_vars(Save) /\ WF_vars(HearCounter)

Safety == Init /\ [][Next]_vars
Spec == Safety /\ Fairness

-----------------------------------------------------------------------------
\* Properties.

Times == 0..MaxTime

\* Every variable keeps its type.
TypeOK ==
    /\ now \in Times /\ unitStart \in Times
    /\ hours \in {None} \cup Nat /\ readAt \in {None} \cup Times
    /\ countedFrom \in {None} \cup Times
    /\ hcpInterval \in {None} \cup HcpIntervals
    /\ epoch \in {None} \cup Int /\ interval \in {None} \cup Nat
    /\ marker \in {None} \cup Int
    /\ history \in Seq(Int) /\ Len(history) <= HistoryLimit
    /\ remaining \in {None} \cup Nat
    /\ check \in {"none", "queued", "saving"}
    /\ savePending \in BOOLEAN
    /\ cycle \in {None} \cup Times /\ late \in Nat

\* The history has no more entries than the filter was changed, and one more for
\* each start taken from a count over an hour old: jitter of the whole-hour count
\* never enters it, and no change enters it twice.  The old counts are those of
\* the updates in an outage (client.py:72, coordinator.py:341).
HistoryIsReal == Len(history) <= changes + late

\* The warning is sent once per filter cycle (README.md:181).  The code sends it
\* again when an outage ages the count (coordinator.py:341-348).
WarnedOncePerCycle == \A c \in Times : warned[c] <= 1

\* What a change is warned of more than once for: a restart that came between a
\* warning and its save, a press of the button in Home Assistant that the unit's
\* count undid, and a start taken from a count over an hour old, which is warned
\* of once for itself and once for the start that replaces it.
WarningsHaveCause == \A c \in Times : warned[c] <= 1 + crashes + pressed + 2 * late

\* What is not on its way to the disk is on the disk: no change of the cycle
\* is lost at an orderly stop, whichever task was running.
\* (An interval without a cycle is not stored.)
StoreIsCurrent == epoch # None /\ ~savePending /\ check # "saving" => store = Snapshot

\* The cycle comes to follow the unit's counter again and again (coordinator.py:332),
\* up to the tolerance and the hour the count is rounded down by: an update with an
\* old count leads it away, the next reading of block 1024 back.
FollowsUnit == epoch # None /\ Abs(epoch - unitStart) < 3 * Hour
EventuallyFollowsUnit == []<>FollowsUnit

\* Within a cycle, jitter of the whole-hour count does not move the start.  Only a
\* count over an hour old does, and a reading that takes such a start back.
CycleStartIsStable ==
    [][crashes' = crashes /\ cycle' = cycle /\ epoch' # epoch =>
          late' > late \/ epoch > cycle + Tolerance]_vars

\* An update asks for a save only when it changes the file, unless HCP4 reports
\* an interval: then every update assigns the unit's and HCP4's in turn.
NoIdleSave ==
    [][~savePending /\ savePending' /\ check # "saving" /\ changes' = changes =>
          Snapshot' # store \/ hcpInterval' # None]_vars

\* A reminder that is due is sent, or the filter is changed.
DueIsSent == Due ~> ~Due
=============================================================================
