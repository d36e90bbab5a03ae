# A verification project for HCH5 PassiveLink

TLA+ models of the Home Assistant integration `hch_passivelink` and of the
services on the Raspberry Pi beside it, model-checked with TLC and, where it
matters most, proved with TLAPS. Paths are relative to the repository
(`custom_components/hch_passivelink/` is left out).

## The system

A Dantherm/Danfoss HCH5 ventilation unit, its HAC1 module and its HCP4 panel
talk Modbus RTU on an RS485 bus. The integration listens.

| Component | State it keeps | Operations | Talks to |
| --- | --- | --- | --- |
| Gateway on the Pi (`gateway/passivelink_gateway.py`, `temperature_snapshot.py`) | set of TCP clients, time of the last snapshot | accept/drop clients, broadcast, optional snapshot request every 10 s | bus, TCP clients |
| Bus clients (`client.py`) | `connected`, retry delay, stopped flag | connect, read, time out after 15 s, back off, stop; the serial client reads in a thread | gateway or adapter; decoder |
| Stream parser (`parser.py RtuStreamParser`) | byte buffer | `feed` | client, decoder |
| Decoder (`parser.py DanthermDecoder`) | `data`, snapshot mode and times, windows after command registers | `decode`, `_update_mode` | parser; calls `on_update` with the whole of `data` |
| Coordinator (`coordinator.py`) | published `data`, sample waiting for water temperatures, filter cycle and its store, notification marker, health timers | `async_handle_update`, `_async_update_auxiliary`, filter reset and clock, notification check, save, shutdown | decoder (callback), Pi (HTTP), store, entities (listeners) |
| Smart coordinator and controller API (`smart_coordinator.py`, `controller_api.py`) | `controller_state`, fireplace signal, push tasks | poll, command, leased signals and rooms | Pi controller (HTTP), entities |
| Life cycle (`__init__.py`) | tasks and listeners of the config entry | set up, reload, unload | all of the above |
| Water temperature server (`gateway/onewire_temperature_server.py`) | saved flow/return assignment, cached reading | read thread, HTTP handler, save | sensors, controller, coordinator |
| Options flow (`config_flow.py`) | pages, a copy of the rooms and pending options per dialog | probe, edit rooms, replace the options | entry, bus client's port, Pi |
| Entities (`sensor.py`, `switch.py`, ...) | restored setpoints, spike filter | show values, send commands | coordinators |

What is hard about it: the decoder learns requests and answers by overhearing
them and may miss either; a HAC1 answer does not say which registers it
carries; samples must stay whole although bus updates, a thread and an HTTP
fetch interleave; the filter cycle has two sources that disagree, a clock, a
file and restarts; the repair issues are looked at only when an update
happens; every network party retries. `PROJECT.json` lists these hazards at
their lines, with the properties that cover them.

What makes each component correct: the decoder takes an answer for what it is
and shows no old or mixed temperatures; the coordinator publishes whole
samples, the newest one, with the alarms that belong to it, and forgets none;
the filter cycle records real changes, warns once, keeps its file current;
the client comes back and an outage is reported, no false one is; the
controller link neither shows an older state over a newer one nor holds a
lease longer than asked; the stream parser loses no valid frame to garbage;
the water sensors do not swap and no old temperature is handed out; the
operating mode is never guessed without its command; after a reload one client
is at work and the options in force are the ones saved; no room is lost from
the options unasked.

## Modules

### SnapshotDecoder

The temperature side of `DanthermDecoder`. Seven temperatures are three
families (`Keys`: air, room, coil), since frames carry them in these groups. A
reading is abstracted to its origin: the time of the frame a number was decoded
from, or a reason why it is no number. `now` advances with every frame; the
decoder reads the clock nowhere else. `HearRequest`, `HearAnswer`,
`HearLegacyAir`, `HearLegacySlow`, `HearOther` are `decode` for the kinds of
frame; each begins with the expiry test of line 143. `Unheard` is a request or
an answer the decoder misses, `bus` says what the HAC1 will answer next; both
are environment.

### TemperatureSync and SampleFeed

`TemperatureSync` extends the decoder with the coordinator: `HearFrame` is a
decoded frame with the updates it makes (two, when the content changed, because
`_set` calls back for the frame counters first), `HandleUpdate` is
`async_handle_update`, `FetchDone` the end of the HTTP fetch and the rest of
`_async_update_auxiliary`. `Threaded` chooses the client: the serial client's
thread queues updates for the event loop; the TCP client's updates are handled
before anything else runs (`LoopIsFree`). `Auxiliary` says whether water
temperatures are configured.

`SampleFeed` is the abstract specification: numbered samples arrive, the
newest goes on show, none goes back, none stays unseen. `Feed` in
`TemperatureSync` maps `latest` to the newest sample handed to the coordinator
and `shown` to the number of the published one.

### FilterCycle

The filter cycle with its two sources, the reset button, the hourly clock, the
reminder, the save tasks and restarts. Time counts in ticks (`Hour`, `Day`). The
unit's counter shows whole hours; the decoder's copy stays as it was while block
1024 is not read, and an update may come with a copy of any age, as in an outage,
when each retry makes one (`client.py:72`, `OtherUpdate`). `cycle`, `warned` and
`late` are history variables: which change the start of the cycle stands for,
warnings per change, and how often a start was taken from a count over an hour
old. Only the unit and the user may reset a filter (`ResetUnit`, `ResetFilter`).

### LinkClient

`PassiveLinkClient.run` and `_update_health_issues`. `loop` is where `run` is
suspended: in `open_connection`, in `read`, in `sleep`; `failed` means it ended
by an exception. Time advances by `Tick`, which may not pass a step that is due
(`Limit`); ages saturate at `Cap`. `downFor` and `offFor` are history variables
that measure outages independently of the coordinator's timers.

### FireplaceLease

The fireplace signal: `TurnTo` is the switch calling `async_set_fireplace_signal`,
`Renew` and `RenewalSendEnds` are `_async_renew_signals` with the sends of power,
energy and weather before the signal's own, `SetUp` restores the switch. A
request ends for its sender with `CallEnds` or `RenewalSendEnds`, whether the Pi
has handled it or not; one that was not handled may still arrive for `Linger`
seconds (`strays`). `Reload`, `Stop` and `Start` are the life of the
coordinator: the timer goes, a renewal under way does not. `lease` is the Pi's.
`wantedFor` and `missed` are history variables: how long the signal in force has
had its value, and how many requests for the lease were lost in a row. The
longest times are `LostTime` (with the code's values 330 s plus `Linger`) and
`GraceTime`; three requests in a row may be lost (`Tolerated`).

### ControllerPoll

`ControllerApiClient` and `async_handle_controller_update`. The Pi answers polls,
commands and pushes with its whole state, reduced to its alarms; each sender has
one request at a time, senders do not wait for each other. `Answer` is the
moment the Pi reads its state, `PollAnswered` and `Answered` the moment Home
Assistant does. `PollUnreadable` is a body that is not JSON, which ends the poll
loop. `Reload` leaves commands and pushes of the unloaded coordinator under way,
with its own `_alarm_codes` (`oldCodes`). It needs a living poll loop: the task that
has ended raises its exception again when `async_shutdown` awaits it
(`smart_coordinator.py:356-361`), the unload fails, and only `Restart` helps. `ago` is a history variable: for every state
of the Pi, how many seconds ago it was last the Pi's, saturated beyond `StaleTime`. `StaleTime` is an answer's timeout, the longest
pause and the timeout of the poll that ends it; with the code's values 50 s.
`removed` holds active alarms whose notification the user, or the unloaded
coordinator, took away.

### ModeDecoder

The operating mode, which no register holds: it follows from commands (register
143), the two fan registers, which are written one after the other, a flag and
the time between them. The decoder's attributes are one record `dec`; each
paragraph of `_update_mode` is a function on it, and `Updated` applies them in
the order of the code. Every frame is an action that ends with `UpdateMode`.
Deadlines are kept as the time left. `command` is a history variable: the last
command of a level, the fan pair at that moment and its age; `alone` says that
no window for another level was open. A lost frame needs no action of its own:
every order of frames is a behaviour. 200 and 205 are one value, since the code
treats them alike; `current_level`, a function of the pair, is left out.

### WaterSensors

`SensorReader`, `CachedReader` and the client's `async_fetch`. `Choose` is
`_sensor_ids` with `_controller_ids` and `_save_state`, `ReadFlow` and
`ReadReturn` are the two reads, after which the answer is published; the time
between flow sample and answer is at most `MaxRead`. The thread may hang in any
phase, a refresh may fail (`RefreshFails`), the service may be restarted
(`Restart`), the disk may refuse the file. A temperature is its age. `last` and
`refused` are history variables: the last assignment, and whether the disk
refused to keep it.

### RoomPush and LifeCycle

`RoomPush` is the task that sends the rooms' values: `ValueChanges` and `Minute` start it
unless it runs (`_schedule_room_push`), `Sends` builds the payload, `Answered`, `Fails` and
`Ends` are its ends, the last one also by cancelling; `late` is a request that the Pi
may still handle then. `LifeCycle` extends it and says when listener and timer are
there.

The config entry with its serial client: `BeginSetup` and `EndSetup` around the
set-up's awaits, `BeginUnload` (`stop` and the shutdown up to its first await) and
`EndUnload` (`cancel`), the options
dialog with its probe (`Save`), the listener's reloads. Each client has a thread
(`_read_blocking`), which cancelling does not stop, and a task (`run`); `holder`
is the thread that has the adapter open, `queued` the clients with an update in
the event loop's queue. `RoomsWith` names the connections with which rooms are configured.
`missed` is a history variable: options saved in the middle of a set-up. With
`serial = FALSE` a TCP entry goes through the same life without thread and
adapter.

### OptionsFlow

The options dialog's pages with the list of rooms: each dialog edits its own copy
(`rooms`) and replaces the entry's options when it is finished. A room is its
name; `Strip`, `Cut` and `Fold` stand for `strip`, `name[:64]` and `casefold`.
`untouched` is a history variable: the rooms a dialog was opened with and its user
has left alone. `MCOptionsFlow` and `MCWaterSensors` give the constants that a
configuration file cannot.

### Proof modules

`TemperatureSync_proofs`, `FilterCycle_proofs`, `LinkClient_proofs`,
`FireplaceLease_proofs`, `ControllerPoll_proofs`, `LifeCycle_proofs`,
`ModeDecoder_proofs` and `WaterSensors_proofs` hold the theorems about the modules
they extend: the first one about `SnapshotDecoder` too, which `TemperatureSync`
extends, and `LifeCycle_proofs` also about `OptionsFlow`, the dialogs whose end
`LifeCycle` calls `Save`; it extends both, therefore `FlowSpec` and `FlowTypeOK`.

### Mutants

Operators named `X_Bug` are definitions of the model with a plausible bug.
No specification uses them; `PROJECT.json` names the property each of them
breaks, which shows that the property depends on that code.

## Runs

| Run | Bounds | What it shows |
| --- | --- | --- |
| `TemperatureSync` | window 2, expiry 1, gaps 1 and 2, 4 s, lossy bus, thread, one queued frame, fetch | All interleavings of bus, decoder thread, loop and fetch with up to four frames: an answer is paired inside and outside the window, a snapshot expires on and after the limit, a sample overtakes a fetch; liveness and the refinement of `SampleFeed`. |
| `FilterCycle` | 2 ticks an hour, 3 a day, periods of 2 and 3 days, 7 ticks, 3 changes, 1 restart | Counts of any age, jitter of a whole hour, changes told by the unit and by the button, a history limit of three, a reminder, a crash anywhere. |
| `LinkClient` | pause up to 4, silence 3, issue after 6, attempts up to 2 s, resets | Every way a connection ends; no bound on time. |
| `FireplaceLease` | lease 12, period 4, timeout 1, linger 2, two earlier sends, one stray | The switch turned at any moment of a renewal, lost and late requests, reload, stop, crash and start; no bound on time. The four constants keep the order of the code's values, and one second less in either bound is violated. |
| `ControllerPoll` | one alarm, poll 1, timeout 2, pause up to 3, a push and a command | Three requests that overtake each other, over a reload and a restart; no bound on time. The bound `StaleTime` is reached. |
| `WaterSensors` | three sensors, a choice and a configuration that contradict each other or nothing, cache 1, limit 1, read 1, one failure or restart | Every combination of sensors, WebUI and disk that come and go around each phase of the reader; no bound on time. |
| `ModeDecoder` | four speeds per fan, quiet 2, windows 1, 2 and 1 | Every sequence of frames and seconds, half-written pairs of all levels included; no bound on time or frames. |
| `OptionsFlow` | two dialogs, four names to type (two equal but for case, one longer than allowed that is cut after a space), two rooms, three openings | Every interleaving of two dialogs over any rooms saved before. |
| `LifeCycle` | three set-ups, two saves, USB without rooms and TCP with rooms, two changes of values, one late request at a time | Two reloads with saves, pulls of the adapter, late threads and late pushes at every point; no bound on time. |
| `LinkReset`, `FilterOutage`, `UsbOptions` | as above; `FilterOutage`: one change, 8 ticks, no button, no restart | Three statements of the repository that the code does not keep; see below. |

Bounds are small because the interesting cases are differences of times: inside,
on and beyond a limit. Four to six frames are enough for two full
request/answer exchanges with a missed or foreign one in between; seven ticks
for a change of the unit that exceeds the tolerance (five), the jitter around it
and changes by the button before and after. Three sensors are the least with
which a third may take the place of one that is lost; three set-ups the least
with which the thread of one client meets the next and the one after. Two speeds
that are not a level's pair (half of one, half of another) occur in every
switch. Larger instances were checked once: `TemperatureSync` with five seconds
(1.2 million states) and `FilterCycle` with eight ticks and two changes, where the
bound of `WarningsHaveCause` is reached. The TCP client and the entry without water sensors
(`Threaded` or `Auxiliary` FALSE) are covered by the proofs of `TemperatureSync`,
which hold for all four combinations.

`CHECK_DEADLOCK FALSE` is set where a bound ends the run (`MaxTime`, `MaxOpened`,
`MaxLoads` with `MaxSaves`) and in `LinkClient`, where `run()` may really have
ended. The others are checked for deadlock.

### Fairness

`TemperatureSync`: the event loop handles what is queued on it, and a fetch ends
because `async_fetch` has a timeout of five seconds. Nothing is assumed about
the bus. `FilterCycle`: tasks created on the loop run, and block 1024 is read
again and again (only `EventuallyFollowsUnit` needs the latter; it says "again and
again" and not "from some time on", since an update with an old count leads the
cycle away from the unit at any time). `LinkClient`:
an attempt ends, the loop runs what is due, time goes on. `KeepsConnecting`
assumes in its statement that the gateway stays reachable. `WaterSensors`: the
reader is a thread that only the end of the process stops, and its reads and the
request to the WebUI have time limits; `ChoiceIsFollowed` assumes in its
statement that the choice and its sensors stay. `LifeCycle`: the event loop runs
its tasks and its queue, `open` and `read` of the serial port return (the read
after one second), the timer fires, and of many pushes the Pi answers some; nothing is assumed of users and
adapters. `UsbOptions` adds a user who tries again and again (strong fairness of
`Save`), so that its violation is the program's.

### Where code and documentation disagree

- `LinkReset`: a connection that was reset makes `wait_closed` raise out of `run`
  (`client.py:79`); the client never reconnects and the issue promised by
  `README.md:170` is never raised.
- `FilterOutage`: the start of the cycle is computed from the decoder's hour count
  whatever its age (`coordinator.py:341`), and the retries of an outage make updates
  with an old one (`client.py:72`). After more than two hours the start has moved by
  more than the tolerance: a filter change nobody made is recorded (`README.md:172`), in
  an outage of days another one every two hours, until they have driven the real ones
  out of the twenty that are kept; the marker of the warning is cleared. With the link
  back the unit's start is adopted again, and the cycle is warned of a second time,
  although `README.md:181` says once.
- `UsbOptions`: the first page of the options probes the connection, and the probe
  opens the serial port exclusively (`client.py:116`) while the client of the
  entry holds it in the same way. With a working USB adapter no option can be
  changed, the Pi's address and the rooms included, though `README.md:215` tells the
  owner to do so (`config_flow.py:303`).

The models also behave in ways that other comments exclude. Each of these was seen
as a violation of the statement before the statement was given up for a property
that holds:

- An expired snapshot raises every sensor fault alarm (`parser.py:144`), though
  `parser.py:173` says that only the unit's fault words do.
- `room_sensor_missing` is not in `SAMPLE_KEYS`, so the flag of a waiting sample
  leaks into the alarms of the shown one (`coordinator.py:296`); `SettledAlarms`
  speaks of a coordinator without a waiting sample.
- An answer that is not JSON ends the poll loop (`controller_api.py:108`); the entities
  stay available with the state they had, although `README.md:31` promises changes with
  the next poll. `ShownIsRecent` speaks of a living poll loop only.
- A reload forgets the told alarms (`smart_coordinator.py:79`), and the note of one
  that clears meanwhile stays (`smart_coordinator.py:70`).
- The WebUI's choice is saved "so it also holds while the WebUI is down"
  (`onewire_temperature_server.py:129`), but `/etc` comes before what was saved: where
  it names sensors, flow and return change with every outage of the WebUI.
  `AssignmentIsKept` therefore allows for it.
- Options that are saved while the entry is being set up reload nothing, as the
  listener is registered last (`__init__.py:213`); `OptionsAreInForce` leaves them out
  (`missed`).
- Names of rooms are compared whole and kept with 64 characters
  (`config_flow.py:262`, `282`): two that differ later become one
  (`translations/en.json:210` promises unique names). A cut that ends with a space is
  stripped when the next dialog loads it (`config_flow.py:174`), which renames the room
  and may make it another's namesake. `RoomNamesAreUnique` allows for names that are
  what is left of a longer one, and for no other.

The models contain more surprises that contradict no statement, or one
whose reading is open. Where the unit's counter is on the bus, the update after
the reset button in Home Assistant adopts the unit's older start again
(`coordinator.py:344`); the reminder of the older cycle is then sent a second
time, which `WarningsHaveCause` allows for. An interval from HCP4 overrides the
unit's, and each update switches between the two and saves twice
(`coordinator.py:303-313`). A renewal that was sent before the switch was turned
off may arrive after it; the Pi then holds the fireplace mode until the lease
runs out, since an "off" is sent only once. The branch of `_update_mode` that
leaves level 3 for automatic (lines 388-392) is never taken, since the command
itself has set the mode before (`AutoIsImmediate`); and a 172 shortly before a 189
leaves its window open, so that a half-written pair may be taken for level 1 or 2
and the pair of level 3 that follows is missed (`Level3IsSeen` asks for `alone`).
A dialog that is finished last replaces the rooms of one that was finished
meanwhile (`OnlyTheUserRemovesRooms` allows for that and for nothing else). A
temperature's age is counted from the end of the whole read, so it may be older
than the limit by the time between its sample and the answer
(`NoStaleTemperature`).

## Proofs

TLAPS proves, for every value of the constants allowed by the assumptions
`DecoderAssumption`, `SyncAssumption`, `FilterAssumption`, `LinkAssumption`,
`LeaseAssumption`, `PollAssumption`, `LifeAssumption`, `ChangeAssumption`,
`ModeAssumption`, `SensorAssumption` and `RoomAssumption`, every type invariant and
every safety property, state or action, of the passing runs:

- `TemperatureSync_proofs`, of the decoder: `DecoderSampleIsWhole`,
  `DecoderIsNeverStale`, `DecoderPairsAnswers`, `ReplacesWhole`. They follow from one
  inductive invariant, `DecoderInv`: beside the types it says that in snapshot mode
  the sample is a snapshot's and all its numbers are from its own time, that
  `snapshotAt` is that time (or the time it was cleared), and that a pending request
  was heard after anything that could make it a wrong one was missed.
  `DecoderIsItsOwn` says that the decoder inside `TemperatureSync` takes only steps of
  its own specification, so these four hold of the whole.
- Of the coordinator: `TypeCorrect`, `PublishesWholeSamples`,
  `PublishesWaterWithAir`, `NoSampleIsForgotten`, `WaterFollowsSample`,
  `AlarmsSettle` and `RefinesFeed` (every step of the coordinator is a step of
  `SampleFeed` or a stutter). The inductive invariant adds that every update in the
  queue is whole, that numbers grow along queue, pending and published sample, and
  that a sample differs from the published one exactly while a fetch runs. The queue
  may have any length. `AlarmsSettle` needs to know in addition that every update in
  the queue carries the flag of its own sample (`FlagInv`).
- `FilterCycle_proofs`: `TypeCorrect`, `FileIsCurrent`, `SavesWithCause`,
  `OnlyCausedEntries`, `WarnsWithCause`, `WarnsOnce` and `StartIsStable`, for counts of
  any age and with no condition on the constants. The argument (`CauseInv`): a start
  that was not taken from an old count lies between the change it stands for and that
  change plus the tolerance, so one that differs by more is that of another change
  (`StartsTellChanges`), or one of the two is from an old count, which `late` has
  counted. For the warnings, the marker in memory and the one on disk are each a
  chance to warn again (`Chances`, `StoreChances`), and every step that creates one,
  a restart, a press of the button, a start from an old count and the one that
  replaces it, is paid by a cause in the sum (`WarningsFit`). `WarnsOnce` turns the
  sum round: without these causes the statement of `README.md:181` that `FilterOutage`
  refutes holds, so they are all there is.
- `LinkClient_proofs`: `NoFalseIssue` and `ReportsOutages`. An issue depends on the
  coordinator's timer, an outage is measured by the history variables, and the
  timer is read only by updates. `LinkInv` connects the three: the timer starts
  at the latest one attempt after the outage (`TimersAreTrue`), an issue on show
  has a timer beyond the delay (`IssuesFollowTimers`), and until the issue is on
  show the timer exceeds the delay by no more than the pause and the attempt
  since the last update (`UpdatesAreRecent`). The sum is `ReportTime`.
- `FireplaceLease_proofs`: `TypeCorrect`, `ForgetsUnwanted`, `RenewalsAreApart` and
  `KeepsWanted`. `LeaseInv` says beside the types that the renewal timer is never
  ahead of the sends made since it fired (`TimerFits`), and for everything that could
  still prolong an unwanted lease how old it is at least: the lease itself, strays, a
  renewal that has looked at the signal and one of an unloaded coordinator that will
  (`UnwantedEnds`). `LeaseAssumption` asks that a renewal's sends fit in a period
  and the lease outlives both; the code's 300, 60 and 10 s do. `KeepsWanted` is the other
  half: `HeldInv` says that once a signal has been on for `GraceTime` no "off" is under
  way any more (`OffsGone`), and that the silence since the last request the Pi
  accepted is explained (`Explains`): a period for each request lost since, what the
  timer shows, and the age of the request under way (`Held`). With `Tolerated` lost
  requests this sum is shorter than the lease.
- `ControllerPoll_proofs`: `TypeCorrect`, `TellsAlarms` and `ShowsRecentState`. An
  answer under way holds what was the Pi's state since its request was sent
  (`AnswersAreRecent`), and what is on show is at most as old as a timeout, the pause
  so far and the poll under way (`ShownFits`).
- `LifeCycle_proofs`: `TypeCorrect` and `OneWorksAtATime`, for any number of reloads,
  with `OneReader` (one thread has the adapter open) and `StaysSilent`, the safety part
  of `OldClientsFallSilent`. `LifeInv` adds that a task ends with its entry and none begins before its own
  (`TasksFollowEntry`), that the client of an entry that is set up always has a
  thread, an error to catch or a pause to wake from (`ReaderIsAlive`), and how the
  counts of set-ups, saves and reloads fit (`CountsFit`).
- `LifeCycle_proofs`, of the dialogs: `RoomsKeepType`, `NamesAreUnique` and
  `OnlyUserRemoves`, for any names, however they are stripped, cut and folded, and any number of
  rooms and dialogs. `FlowInv` says that the options and every dialog keep an orderly
  list (`Orderly`: cut names, of which one that ends with a space and two that are the
  same are what is left of longer ones), and that a dialog has lost no room it was
  opened with but those its user took away (`Fits`). One lemma for each way a list changes (`AppendedIsOrderly`,
  `RenamedIsOrderly`, `RemovedIsOrderly`, `LoadsAll`) carries the argument.
- `ModeDecoder_proofs`: `TypeCorrect`, `LevelsAreEarned`, `NoSwitchIsPending`,
  `SeesLevel3`. An open window belongs to the last command, is not longer than what is
  left of `PairWindow`, and the pair it compares with is that command's
  (`WindowsFollowCommand`). The lemmas `NightFields` to `UpdatedFields` say what each
  paragraph of `_update_mode` may change; `LevelIsEarned` follows for every frame.
  For `SeesLevel3` the window of level 3 must be open, and the pair it compares with
  unchanged, until the pair of level 3 is complete (`Awaited`), and what is on show
  must be the label of the attributes (`ShownFits`).
- `WaterSensors_proofs`: `TypeCorrect`, `NeverStale`, `KeepsAssignment`, for any finite
  set of sensors. A sample is older than its answer by at most `MaxRead`
  (`AgesFit`), whatever fails; and what the service remembers is its file and, but
  for `/etc` and a disk that refuses, the last assignment (`MemoryFits`).

The proof of `ShownIsRecent` found a mistake in an earlier form of it: measured as the
time since the state on show last equalled the Pi's, with the clock set back whenever
the two agreed, it is false as soon as there are two alarms, although it holds with
one. `ago` remembers every state instead.

Only model-checked: liveness and fairness (`EverySampleIsOvertaken`, the liveness
half of `ImplementsFeed`, `EventuallyFollowsUnit`, `DueIsSent`, `KeepsConnecting`,
`ChoiceIsFollowed`, `AdapterComesBack`, the liveness half of `OldClientsFallSilent`,
`OptionsAreInForce`, `PiIsUpToDate`), which are out of the prover's reach.

## Not modelled, and the plan

Planned: safety lemmas on the way to the liveness properties (that a room push which
was put off is still due, that a listener exists whenever options are saved unmissed).

Not modelled, and why:

- The stream parser (`RtuStreamParser`): it is about bytes, lengths and check sums.
  A model over symbols would assume away the accidents it guards against, and
  the unit tests pin down the bytes. The other modules take a frame as whole
  or lost.
- The gateway and its snapshot request: a loop that copies bytes. What it may do
  to the integration (close, reset, fall silent, lose frames) is in
  `LinkClient` and `SnapshotDecoder`.
- The status sensor's spike filter and the entities: functions of one value and
  views of the coordinators' data.
- The leases of power, energy and weather: sends like the fireplace signal's,
  without a switch that takes them back; they appear as sends that delay it.
- The first configuration and the pages of the options that pass settings on to
  the Pi: they keep nothing between two steps.
- Migration of old room slots, translations, conversions of weather and energy
  entities, the diagnostics of the Pi, the installer, and the byte-level values of
  registers, which the unit tests pin down.
