# somfy-shutters in TLA+

somfy-shutters drives the Somfy shutters of one household from a Raspberry Pi. A
Python program (`src/backend`) talks to Pi-Somfy, "the bridge", over MQTT, keeps
an estimate of where every shutter is, runs rules at times of day, and serves a
web client (`src/frontend`). The motors answer nothing: everything the program
says of a shutter is computed from what it sent, what the bridge reports, and time.
This directory specifies that program in TLA+, checks it with TLC and proves the
core of it with TLAPS. All paths below are relative to
`src/backend/src/somfy_shutters/` unless they say otherwise.

## The system

The program is one asyncio event loop (`main.py`). Between two awaits nothing else
runs; at an await anything may. One SQLite file holds what survives a restart, and
every store commits statement by statement.

| Component | State it keeps | Operations | Talks to |
|---|---|---|---|
| **Tracker** (`tracker.py`, `models.py`, `store.py`) | per shutter: estimate, travel, last report, last direction, the bridge's counter, the bridge's run, "somebody else drives"; the row in `shutter_state` | start a travel, stop, confirm an arrival, tick, position and movement reports, add, remove, restart | stores rows, emits events, is called by commands, calibration, roster, bridge |
| **Command path** (`commands.py`, resync in `api/rest.py`) | pending checks | one command, a list of commands | measurement lock, roster, bridge, tracker |
| **Bridge** (`bridge/mqtt.py`, `bridge/sim.py`, `bridge/base.py`) | reachability, a queue of reports; the simulator's shutters | send a level, send a stop, availability, retained and live reports, reconnect | command path, tracker, roster |
| **Roster** (`roster.py`, `roster_store.py`, `config.py`) | the household, its file and its rows, announcements, forgotten, the window after `online` | announce, confirm, rename, remove (a cascade over every other component), restore, close the window | everything that names a shutter |
| **Groups** (`groups.py`) | groups, members, order | create, update, delete, reorder, prune | automation targets |
| **Automation** (`automation/`) | rules, skips, the pause, the firing ledger, the clock's verdict, the heartbeat | run what is due, catch up after a restart, skip, pause, check the clock, plan | command path, clock, sun, stores |
| **Calibration** (`calibration.py`, `calibration_store.py`, `api/calibration_routes.py`) | active runs (the measurement lock), measured runs, curves, pending confirmations and checks | start, arrive, abort, sweep, home, confirm, answer a check | command path, tracker, bridge |
| **Feed** (`events.py`, `api/ws.py`, `api/serialize.py`) | connected clients, frame numbers, who owns a feed | connect, broadcast, close for | tracker, roster, auth |
| **Auth** (`auth/`, `cli.py`) | credentials, pairing codes, throttle, audit ledger | pair, renew, revoke, expire, prune | feed, REST |
| **Client** (`src/frontend`) | what it was told, the animation | render, interpolate, reconnect | feed, REST |

How they interact: a person, a group or a rule commands through the command path,
which checks the measurement lock and the roster, computes the level, awaits the
bridge, and only then tells the tracker. The tracker writes the row and publishes
an event; publishing awaits every subscriber, and the feed among them awaits every
client. The bridge's reports come back through a queue: announcements go to the
roster, everything else to the tracker. A tick every 0.2 s settles the travels that
are over and sweeps abandoned measurements. A second task fires rules.

## What is hard here

`PROJECT.json` lists the hazards, each at its line. In short:

- **state across an await.** A level is computed before the bridge is awaited and
  a travel is recorded after it; a tick walks a snapshot and awaits inside the loop;
  a removal cascades through seven components with two awaits in between.
- **two clocks for one motor.** Our travel, the bridge's counter and the person at
  the window each have their own idea of when a travel is over; late reports of our
  own command must not pass for a remote.
- **certainty and age.** What makes an estimate certain, and what may make it younger.
- **crashes.** A row written too late, a firing recorded and never carried out.
- **old news.** Retained messages, announcements from before a restart.
- **time.** A clock that is wrong, jumps, or changes to summer time.

## Modules

| Module | What it is |
|---|---|
| `Tables` | dictionaries: put, drop, typing |
| `Tracker` | the tracker, its row and the one path a command takes to it |
| `CommandPath` | everything that sends a shutter off, and the measurement lock: commands, lists, resync, home, runs, checks, questions after a travel |
| `Roster` | who belongs to the household, whom the bridge still knows, whom it offers |
| `Household` | groups, targets of rules and measurements while shutters are removed part by part |
| `Measurements` | what becomes of a measured time and of an answer to a check: medians, curves, the file |
| `Access` | credentials, pairing codes, guesses, live feeds and their closing |
| `Automation` | the automation engine: what fires, what is written off, what is held back |
| `Records` | the engine with a history of the instants it lets go of, and by which lines |
| `Firings` | an abstract specification: every planned instant has one fate, and keeps it; `Automation` implements it |
| `Pairings` | an abstract specification: a code and a credential go one way, what is closed is never exchanged, and what has expired stays so until the clock goes back; `Access` implements it |
| `MC...` | for each of them the values, symmetries and sub-specifications that TLC uses |
| `...Proofs` | for each component the theorems, for every value of the constants |
| `HeartbeatProofs` | the theorem about `Records`: what else a heartbeat has passed is on record |

The modules share `Tables` and meet in the code at a few lines, each of which is an
action on both sides: a command (`Tracker.Send` is `CommandPath.HandOver`), a removal
(`Tracker.RemoveShutter`, `CommandPath.Leaves`, `Roster.Remove`, and its parts in
`Household.CommitParts`), the end of a run (`CommandPath.MarkArrived` opens the lock,
`Measurements.MarkArrived` stores what it measured).

A definition whose comment begins with "Slip:" is not part of a specification: it
is a plausible mistake in the definition that follows it, used to see that a
property notices.

### Tracker

| Variable | Code |
|---|---|
| `household` | `settings.shutters` |
| `position`, `movement`, `report` | `_positions`, `_movements`, `_last_report` |
| `heading`, `counter`, `run`, `external` | `_last_direction`, `_bridge_level`, `_bridge_runs`, `_external_moving` |
| `stored` | the table `shutter_state` |
| `inflight` | commands inside `await bridge.send_...()` (`commands.py:92-121`) |
| `due`, `ticker` | the rest of the snapshot `tick()` walks, and whether its task still runs |

A step is what the event loop does between two awaits. `Send` computes the level
and hands the frame over; `StartMovement` and `Stop` are the code behind the await,
in the order the frames went out, with the code's check that the shutter is still
in the house. `Tick(s)` settles one travel of the snapshot and announces it;
between two of them anything may happen, and a travel that is gone by then is the
`KeyError` that ends the task (`ticker = "dead"`). The six report actions are the
branches of `handle_report()`; `Restart` is a crash at any moment followed by
`Store.load_all()`. Clocks are ages: `Pass` makes everything a unit older.

Levels and percentages are whole points `0..Full`. The curves are given functions
that keep the ends, which is what calibration guarantees, and both neutral and bent
ones are used. Datetimes become ages up to the first stale one.

### CommandPath

| Variable | Code |
|---|---|
| `household`, `forgotten` | `settings.shutters`, `Roster._forgotten` |
| `place`, `drive` | the tracker's rest positions and travels, as roughly as these handlers look at them |
| `run` | `RunRegistry._active`: the lock of FR-028 |
| `check` | `app.state.pending_checks` |
| `question`, `asked` | `app.state.pending_confirmations`, the table `confirmation_prompt` |
| `pump`, `due` | `pump_ticks()`: asleep, walking through its tick, or dead; the rest of the snapshot that the tick walks, as it saw it |
| `settled` | an end-to-end travel the tick has settled and is announcing |
| `told` | which shutters every client shows as being measured |
| `task`, `queue` | where each request stands, and who awaits the bridge in the order of the frames |

A request is up to three steps. The first is everything up to the bridge's await
(`Command`, `CommandAll`, `Resync`, `Home`, `StartRun`, `StartCheck`, `AbortRun`,
`MarkArrived`, `Remove`), with the refusals in the order of the code. The second is
the code behind the await: `BridgeTook` records the travel, `BridgeFailed` and
`ListMemberFailed` are the two ways a failure is handled. The third is what follows
the announcement: `ListGoesOn` goes to the next shutter of a list, `CheckOpens`,
`RunAnnounced`, `RemoveGoesOn` do the rest. Two requests may be under way at once.

The third
task is the loop of `pump_ticks()`. `TickBegins` takes a snapshot of the travels that
are over and settles the first; `TickGoesOn` is back from announcing it and settles the
next one of the snapshot, which is whatever travel that shutter has by now, at the old
target, or, if it has none any more, the `KeyError` that ends the task
(`pump = "dead"`). `NoteConfirmable` is the subscriber that asks about what was
settled, and `Sweep`, in the same task behind its tick, lets go of the runs that were
abandoned. `since` is history: what else has been sent to the shutter since the frame
of its run or of its check. A check has it from its frame on, while the request still
awaits (`Task.since`), and hands it to `pending_checks` with `CheckOpens`; a command
that came in between is `"early"`.

### Roster

| Variable | Code |
|---|---|
| `file`, `rows`, `household` | `shutters.toml`, the table `household_shutter`, `settings.shutter` |
| `forgotten`, `announced` | `Roster.forgotten`, `Roster.announced` |
| `broker`, `availability`, `inbox` | the adapter's connection, `_bridge_online` and its queue |
| `open`, `live`, `timer`, `closing` | `_live_since_online`, whether its timer runs, `close_window()` scheduled |
| `said`, `left` | history: announced live since online; how somebody left |

`Broker` and `Availability` take effect at once, as the callbacks do; `Announcement`
only queues, and `Handle` is `Roster.handle()` when the loop gets there.
`WindowElapsed` schedules `CloseWindow`, which decides who is forgotten. `Restart(f)`
is a process that ends anywhere and reads a file `f` that somebody may have edited.
Ids are a name and a number, which is what `slug()` makes of them.

### Household

| Variable | Code |
|---|---|
| `up`, `household`, `rows` | the process, `settings.shutters`, the active rows |
| `groups` | `shutter_group` and `shutter_group_member` |
| `rules` | `automation_rule.targets` |
| `measured` | who has runs, answers or a derived value |
| `removing` | removals under way, and how many of their parts are committed |
| `dropping` | groups that are deleted and that rules may still name |
| `slipped` | history: saved with a shutter that was being removed |

`Roster.remove()` walks through groups, rules, measurements, row and tracker, commits
each on its own and awaits twice. `RemoveOn` takes it from one await to the next;
`Crash` lets the process die after any of its commits, or between two rules of one
part; `Boot` prunes, as the lifespan does. `CreateGroup`, `ReplaceGroup`, `Reorder`,
`DeleteGroup` with `DropGroup`, `SaveRule`, `DeleteRule` and `Measure` are requests at
any of those moments.

### Measurements

| Variable | Code |
|---|---|
| `runs`, `answers` | the tables `measurement_run` and `check_answer` |
| `file` | `calibration.toml` |
| `cache`, `curves` | what `CalibrationService` holds in memory |
| `active`, `check` | the run and the check of a shutter |
| `behind` | history: keys whose travel time in the file has not followed their rows, since a crash or the file's loss |
| `told` | history: what the answers added up to when the curve followed them last |

Every action that writes a row, changes memory and writes the file takes a flag
`crash`: the process ends after the row. `Flushed` is the whole of the file that
`_flush()` writes. `Valid`, `Recent` and `TwiceMedian` are what `derive()` does
with a list, `Counts` is `rejection_for()`; travel times are kept twofold so that a median of two
is a whole number, and the two decimals to which the file rounds them are left out. An
answer that a crash kept from the curve is in `answers` and not in `told`; the next one
brings both along. `LoseFile` is the file that somebody deletes or damages.

### Access

| Variable | Code |
|---|---|
| `now`, `creds`, `codes` | the clock, the tables `credential` and `pairing_code` |
| `admitted` | callers of whom requests have passed the gate and may still await their bodies, any number of them |
| `guesses` | `Guesses.count` |
| `joining`, `feeds`, `doomed` | feeds that await their accept, `Hub._owners`, those `close_for()` is about to close |
| `since`, `sweep` | where the next sweep begins; the one under way |
| `confirmed`, `tried`, `late` | history: nobody was to manage any more, by confirmation; wrong codes since a code was minted or the process began; feeds that nothing closes any more |

`Admit` is the gate; `Issue`, `Mint`, `Revoke` and `CancelCode` act for whoever was
admitted, whatever has become of the credential since. `Issue` may give a credential an
end without a zone (`Zoneless`): comparing it raises, so that nobody gets its token, but
the row stays. `Pair`, `PairUnknown` and `PairRefused` are one attempt with a code.
`SweepBegins`, `SweepCloses` and `SweepEnds` are the loop of `main.py` that closes
expired feeds one await at a time; `SweepRaises` is a sweep that raises, which is logged
and moves `since` on all the same: with a `Zoneless` row in the table every sweep does,
until somebody revokes it. `RecoverToken` and `RecoverCode` are `cli.py`, another
process on the same database. `Restart` may set the clock back, to any time: the Pi has
no battery (`automation/clock.py:3`, `auth/audit.py:3`). The count of wrong codes, and
`tried` with it, begin anew with the process.

`Life`, `Fate`, `Minter` and `Became` are the tables as `Pairings` sees them. A
credential is out if it is revoked (or can be compared with no time), else expired or
valid by the clock. A code is exchanged if a credential refers to it; closed if it is
spent, cancelled, or minted by somebody who is out; else lapsed if its time is up, or
its minter's is; else open. What is lapsed or expired may come back, with a clock that
goes back.

### Automation

| Variable | Code |
|---|---|
| `truth`, `lag`, `synced` | the time, how far the system clock is behind it, `adjtimex` |
| `phase`, `verdict`, `started` | the lifespan, `engine.verdict`, `engine.started_at` |
| `timer` | the run date of the one APScheduler job |
| `rules`, `ledger` | the tables `automation_rule`, `automation_firing` |
| `pause`, `heartbeat` | two rows of `app_setting` |
| `task` | where `_wake()` and `pump_automations()` stand, with the lists they made before their awaits |
| `issued`, `carried`, `outage`, `requests` | history and a bound |

`Fire` is one turn of the loop in `run_due()`: the row, the pause read now, the skip
read from the old copy, and the start of the commands, which take until `Commanded`
or fail with `CommandRaises`. `CatchUp`, `WriteOff` and `RuleGone` are `catch_up()`;
the run that follows begins in the same step that finds its list empty, because no
await lies between. `Wake` is the timer, `WakeRefused` a scheduler that finds it too
late or its predecessor still at work, and `PumpChecks`, `PumpAnnounced`, `PumpRuns`
one round of the 30-second loop. The requests of `api/automation_routes.py` are
actions that all end in `Asked` (`changed()`, which reschedules). `Boot` starts the
process with a clock up to `MaxLag` behind and a kernel that may say so or not.

The moments at which a rule fires are a given set (`plan`). That is the interface of
`planner.py`: `firings_between()` is the plan inside a window and `next_firing()` the
first instant strictly after now. What a command does to a shutter is not told apart.

## Runs

Every run is listed in `PROJECT.json`; `tlc -config <cfg> <module>` repeats it.

| Run | Asks | Bounds, and why they are enough |
|---|---|---|
| `tracker_one` | types, the validator, an honest restart, the echo window, earned freshness | one shutter, three points, travels of two units, so that there is a middle of the scale and of a travel; ages up to one past stale; one command in flight; every action |
| `tracker_two` | nothing left behind of whoever leaves while a tick walks over two travels | two shutters, two points: the interleavings need no middle; the bridge is silent |
| `tracker_ends` | every travel ends, under fairness, unless the ticking task is dead | two shutters, so that a snapshot holds a second travel while the first is announced, and a stop, a removal or another command of it comes in between; two points, commands only |
| `automation_people` | never twice, in time, types, and that the engine implements `Firings` | one rule or none, two requests of any kind, both tasks, a lag of one unit, four instants |
| `automation_two` | never twice, skips honoured | two rules that fire together, one edit, no pause |
| `automation_records` | nothing planned vanishes but by four named lines | `Records`, module `MCRecords`: every step of the engine; one rule or none, a heartbeat or none, runs of a unit, a grace of two and a reach of three, so that an instant can be overdue and within reach; six instants, one request: the loop may stand before, in and behind a run when the process ends, a list raises or the clock turns unreliable |
| `commands_one` | the lock, checks closed by whatever is commanded, types | one shutter and two requests under way: every pair of handlers meets at every await; a drive of one unit, so that a run can be abandoned (more than two), half way and over; a question is asked again after one; the loop of the tick beside them, alive or dead |
| `commands_lists` | a list passes over whoever is measured; every measurement ends, under fairness, unless the ticking task is dead | two shutters, since the first one's await is what the second changes behind, in a list as in a tick's snapshot; one request; commands, runs, arrivals and removals only |
| `roster` | types, addresses, memory against the next start, marks, set aside, offline | two remotes and two names, so that names, ids and addresses can collide; one announcement in the queue (`QueueBound`) behind which availability and the window overtake it; a file that lists nobody or one |
| `household` | nobody gone is named, groups are a list, types | two shutters, two groups, two names, one rule; both shutters may be leaving at once; places up to `MaxPosition` = 2, where a deleted group has left a gap |
| `measurements` | a restart changes nothing, the median, one bad run, answers move the curve their way, types | one shutter; four runs in one direction, one more than the median looks at; totals that are too short, established, and both sides of half and twice; the other direction only answered about; sums of answers past both ends of the clamp; crashes between a row and the file, several in a row; `RunsOrAnswers` keeps many runs and many answers apart |
| `access` | somebody manages, a code is exchanged once, guesses, feeds, types, and that the tables implement `Pairings` | three credentials, two codes, one feed, two wrong codes to the limit, codes of one unit and a clock of two; `CodesOrFeeds` keeps codes and feeds apart, since they have only a credential in common, and the rows to three in all. With an end that has no zone every sweep raises, until its credential is revoked; a restart sets the clock back to any time. The third credential is there for the code that a second one minted |

The bounds that are not in the code are `MaxTime`, `MaxLag`, `MaxJob`, `MaxRequests`
(Automation), `Tasks` (CommandPath), `QueueBound` (Roster), `MaxPosition` (Household),
`MaxRuns`, `Balances` (Measurements), `MaxTime` (Access), and the constraints
`RunsOrAnswers` and `CodesOrFeeds`. The theorems below hold for every value of the
bounds; the constraints are no part of a specification. Symmetry is used for safety only: over requests in `commands_one`,
over shutters, groups and names in `household`, over credentials and codes in
`access`; `Nobody` is not one of the values that are permuted. `commands_one` leaves
`told` out of its view, because no guard and no property of that run reads it.

Time is short in all of the engine's runs. Its hard cases need one planned instant,
one grace, one crash and one jump of the clock around it; the second instant of every
plan is there for skips, the purge and "the next one". Deadlock is checked
everywhere: the last instant of a run is no deadlock, since the process can still
crash and boot.

### Fairness

Two properties need it.

`EveryTravelEnds`: the event loop keeps time (`Pass`), resumes whoever awaits the
bridge (`StartMovement`, `Stop`: paho's publish returns), and the tick's task, a
`while True` around a sleep, gets to every travel that is over (`Tick(s)`, and only
while the task lives).

`EveryMeasurementEnds`: time passes (`Pass`), and the loop of `pump_ticks()` takes its next
step, whichever it is (`Pump`: `TickBegins`, `TickGoesOn`, `NoteConfirmable` or
`Sweep`), as long as its task lives. Nothing is assumed of the bridge, which may never
answer, nor of the request that began the run, the person with the phone, or the
shutter, which may leave. A dead task takes no step; both properties say "unless it is
dead", and `Tracker_ends_two.cfg` and `CommandPath_stuck.cfg` show that it can die, and
what stays open then.

Nothing is assumed of people, of reports or of restarts in either.

## What the checks show

Held, and not obvious:

- `NeverTwice`: the unique row written before the command makes "whatever happens
  next, this instant is never fired twice" (`engine.py:187`) true for two tasks on
  one list, crashes, restarts with any clock, edits and the nightly purge. The purge
  needs `Grace + MaxJob < Retention`, which is the constants' assumption.
- `FatesAreFinal`: an instant that was skipped, paused over, missed, held or deleted is
  not carried out later; the engine implements `Firings`.
- `InTime`: no shutter moves at the wrong hour by the true time, whatever the wall
  clock says, if a clock the kernel calls synchronised is right.
- `NothingElseVanishes`: whatever crashes, boots, turns unreliable or is edited, an
  instant that a heartbeat has left behind by the grace is on record, unless one of four
  lines let go of it, which `Records` takes down as they act. That they do is below.
- `NothingReopens`: a request that was let in before its caller was revoked may still
  mint; `_unredeemable()` looks at the minter, so that such a code is closed from the
  beginning. What has only expired comes back when a restart sets the clock back (below).
  Without that look TLC exchanges it, although a revocation cancels all
  that its credential minted.
- `RestartIsHonest` and `NoGhosts` hold at every await, although commands and ticks
  resume on shutters that have left in the meantime.
- `FreshnessIsEarned`: no echo of our own command makes an estimate younger.
- `OnlyResyncReachesMeasured`: although a list awaits the bridge between two shutters,
  an abort opens the lock before its stop is out, and a shutter may leave and come
  back while its run awaits the bridge, a shutter under measurement is sent nothing by
  anybody else, with the exception of resync and home, which do not ask for the lock.
- `CommandsCloseTheCheck`: a check that is open is closed by every command, member of a
  list and run, before its frame goes out; one that overtakes the request to check itself is
  the exception (below).
- `MarksAreTakenBack`, `OfflineDecidesNothing`: availability overtakes announcements in
  the queue and a window may be up just as the bridge goes; still nobody is forgotten
  while it is away, and a mark that was set too early waits for its announcement only.
- `RestartKeepsTheHousehold`, `OneEntryPerAddress`: the rows the app writes and the file
  a person edits do not contradict each other, also not for ids (`slug()`).
- `NobodyGoneIsNamed`: the order of a removal's parts keeps its promise ("an
  interruption leaves nothing pointing at a shutter that is gone") at every crash, but
  for what is saved during its two awaits.
- `RestartChangesNothing`, `MeasuredIsRecentMedian`: the file follows every row, or
  memory has not followed it either.
- `AnswersMoveTheirWay`: a curve never goes further than what its answers have said since
  it followed them last, which after a crash may be several of them.
- `SomebodyManages`, `CodesAreExchangedOnce`, `GuessesAreBounded`,
  `FeedsEndWithTheirCredential` hold for requests that were let in and act later, with
  two exceptions, both in `late`: a feed that was let in before and joins after its
  closing is over, and one whose credential ran out in the window of a sweep that raised.
  Either stays open until the client or the process goes. `GuessesAreBounded` counts
  the tries of one process.

### Further disagreements

These state what a document, a comment or a reader expects and what the code does not
do. Each has a configuration, which TLC refutes; none is listed in `PROJECT.json`. TLC
stops at the first property of a configuration that is violated: keep one, delete the
others, to see its steps.

| Configuration | Property | What the code does |
|---|---|---|
| `Tracker_ends_two` | `TravelsAlwaysEnd` | the tick deletes from a snapshot; a stop, a confirmed arrival or a removal while it announces an earlier travel is a `KeyError` that nothing in `pump_ticks` catches, and no travel is settled and no run swept any more (`tracker.py:421`) |
| `Tracker_arrivals` | `OnlyArrivalsSettle` | a travel replaced during the tick's await is settled at the old target (`tracker.py:421`) |
| `Tracker_cut_short` | `CertainIsReached` | a travel stopped at once is certain of the end stop it left or was only assumed at (`tracker.py:435`; spec 001 FR-006) |
| `Tracker_end_stop` | `EndStopIsBelieved` | an end stop reported while idle is swallowed inside the window of our last run (`tracker.py:554` against the comment at 581) |
| `Tracker_sent_off` | `SentOffIsUnknown` | dying between the frame and `start_movement()` restores the old position (`commands.py:121`; spec 001 FR-010) |
| `Tracker_animated` | `StopSettlesWhereAnimated` | with a bent curve and a counter off it, client and server interpolate differently (`models.py:171`, `animate.ts:9`) |
| `Automation_late_beat` | `NothingVanishes` | the heartbeat is read off a later clock than the run before it; an instant between the two is behind it before a run has listed it (`main.py:334`) |
| `Automation_lost_queue` | `NothingVanishes` | deleting a rule raises inside the catch-up's list, and the next heartbeat passes the rest of the list by (`engine.py:280`) |
| `Automation_edited_behind` | `NothingVanishes` | a rule saved by a clock that is behind the heartbeat plans instants that no catch-up looks at (`engine.py:278`) |
| `Automation_new` | `NothingVanishes` | rules made before the clock was first trusted are never written off (`engine.py:278`; FR-013) |
| | `NotBeforeItsTime` | a rule saved at 7:05 for 7:00 drives at once (`engine.py:179`) |
| `Automation_further` | `InOrder` | timer and loop go through one list; the second rule begins while the first still drives (`engine.py:179`) |
| | `SkipKept` | clearing the skip of the firing just skipped goes by rule, from an old copy, and clears one set meanwhile (`engine.py:195`) |
| | `HeldWhenUnreliable` | the verdict is read once per run (`engine.py:176`; FR-013) |
| | `OffIsOff` | a rule switched off while an earlier one drives still fires (`engine.py:180`) |
| `Automation_held` | `HeldMeansRunning` | a boot clock that was behind makes missed firings held (`engine.py:281`) |
| `CommandPath_further` | `LockIsExclusive` | resync and home drive a shutter that is being measured (`api/rest.py:179`; spec 002 FR-028) |
| | `AnswerDescribesItsDrive` | the same two, and the stop of an aborted run, leave a check open for a shutter that has moved on |
| | `ChecksShowTheirMidpoint` | a command between a check's frame and its entry in `pending_checks` finds no check to close; the check then opens for a shutter that has been driven on (`api/calibration_routes.py:405-416` against `commands.py:107`) |
| | `ConfirmTimesOneDrive` | a question stays open when its shutter is sent off again; confirming it then times another drive (`main.py:190`) |
| | `QuestionIsEndToEnd` | a travel that began at an unknown position is asked about as well (spec 002 FR-018, FR-019) |
| | `QuestionsHaveAWindow` | a shutter removed between the tick's settling and its subscriber leaves a question behind |
| | `ClientsKnowWhatIsMeasured` | a run begun while its shutter's removal awaits holds the lock unseen, until it is swept (`roster.py:391`, `api/calibration_routes.py:200`) |
| `CommandPath_stuck` | `NoWindowStuck` | the tick's `KeyError` ends the task that would let go of abandoned runs; their shutters stay locked until a restart (`main.py:297`; spec 002 FR-009) |
| `Roster_further` | `OldNewsIsNoOffer` | a shutter removed before the bridge has announced it to this process is offered again by the broker's retained announcement (spec 005 FR-016) |
| | `NothingIsHidden` | when an edited file takes the id of a row, the row's address is neither a shutter, nor new, nor set aside (spec 005 FR-019) |
| | `NamesAreUnique` | an edited file may give a name that a row has |
| | `NoNewsDecidesNothing` | an announcement queued before `online` and handled after it counts as live news of the new window, and lets it mark the others (`roster.py:305`) |
| `Household_further` | `NothingNamesTheGone` | a group or a rule saved at one of a removal's awaits names whoever leaves (spec 005 FR-013) |
| `Measurements_further` | `RunsAreNotForgotten` | a crash between a run's row and the file, or a lost file: nothing rewrites it from SQLite before the next run of that direction |
| | `ChangeIsFollowed` | a genuine time beyond half or twice what is established is rejected for ever (spec 002 FR-021) |
| | `ChecksHaveAMeasurement` | discarding the measurements leaves an open check open |
| | `AnswersAreFelt` | answers past the clamp count, and the first ones back change nothing (`calibration.py:108`) |
| | `OneStepAtATime` | after a crash between an answer's row and the file, the next answer brings that one along and moves the curve by several steps (spec 002 FR-024, "a bounded amount") |
| `Access_further` | `FeedsAlwaysEnd` | a feed that was let in before a revocation and joins after its closing stays open (`api/ws.py`) |
| | `WindowsAreSwept` | an `expires_at` without a zone is accepted (`auth/models.py:41`) and makes every sweep raise at `auth/store.py:228`; `main.py:368-372` logs it and moves on, and feeds that expired in the window stay open |
| | `ExpiredIsTerminal` | a Pi without a battery boots in the past, and an expired code or credential is good again until the clock is set (`data-model.md:69`, `spec.md:133`) |

`Automation_lying.cfg` is not one of them: with a kernel that calls a wrong clock right,
`NeverTwice` still holds for a lag of two units, and not for one of three.

## Proofs

`tlapm <module>` on each of the eight `...Proofs` modules proves thirty-five theorems,
each for every value of the constants that the module's own assumption admits. Every
safety property of a run is the subject of one of them. In every module they follow from one inductive invariant, `IInv`: a lemma per action
shows that the action keeps it, and the theorems take out of it what they are about.

### TrackerProofs

The assumption is `ConstantsAssumption`: a scale with two ends, curves that keep the
ends, travel times above zero. One inductive invariant, `IInv`, carries the types,
`NoGhosts`, `WellFormed` and `RestartIsHonest` together. None of the four is
inductive alone: that a row is honest needs that a travelling shutter's row says so,
which needs that a movement exists only for a shutter of the house, which is what the
commands still in flight must respect when they come back. The lemma behind the types
is arithmetic: `Share` rounds half up and stays in its range, so no interpolation
leaves the scale.

| Theorem | Establishes |
|---|---|
| `TypeCorrect` | `TypeOK` |
| `NothingStaysBehind` | `NoGhosts`, whatever was awaiting when a shutter left |
| `EstimatesWellFormed` | `WellFormed`: no handler builds what the validator refuses |
| `RestartHonest` | `RestartIsHonest`, at every moment at which the process may die |
| `RunOutlastsTravel` | `EchoCovered`: the window for our own echo outlasts our travel |
| `FreshnessEarned` | `FreshnessIsEarned`, action by action over the same invariant |

### AutomationProofs

The assumption is `AutomationAssumption`, of which `Grace + MaxJob < Retention` is the
part that matters: the purge must be slower than the slowest run. A run of the engine
works through a list it made earlier, by a time it read earlier. So `IInv` says, beside
the types, how old the one and how wrong the other can be by now:

- `ClockKept`: a clock the engine trusts is behind by at most `Behind`, which is
  nothing if the kernel is right (`KernelHonest`) and `MaxLag` if it may lie;
- `JobsKept`: what a task has on its list or in its hands lies in the window of the
  time it read, and that time is not older than the run;
- `LedgerKept`: what was carried out is on record, or so old that the row was purged,
  or of a rule that is gone and whose id does not come back.

Whatever begins is then unrecorded, of an existing rule, and less than
`Grace + MaxJob + Behind` old (`Begins`), and that contradicts `LedgerKept` if it had
begun before.

| Theorem | Assumes | Establishes |
|---|---|---|
| `TypeCorrect` | - | `TypeOK`; no row outlives its rule |
| `CarriedOutOnce` | the kernel is right, or `Grace + MaxJob + MaxLag <= Retention + 1` | `NeverTwice` |
| `CarriedOutInTime` | the kernel is right | `InTime` |
| `SkipsHonoured` | - | `SkipHonoured` |
| `FatesFinal` | the kernel is right, `0 < Grace` | the engine implements `Firings` |

The second alternative of `CarriedOutOnce` is sharp: with a lag of three units in
`Automation_lying.cfg`, one beyond it, TLC finds an instant carried out twice.

`SkipsHonoured` needs a second invariant, `ListsKept`: wherever the rule's skip is the
instant on a list, the copy on that list has the same skip. It is kept because a list
only holds instants up to the wall clock, a person can only ask to skip one after it,
and the clock is never turned back while the process lives.

`FatesFinal` maps every planned instant to its fate: carried out if its commands were
begun; otherwise closed if there is a row, if its hour is past by the grace and a run,
or if its rule has gone; otherwise open. A step of the engine either begins one open
instant, and changes no other fate (`OneBegins`), or begins none and opens nothing that
was closed (`ClosedStays`); people and the machine only take steps of the second kind.

That one entry of a list comes first, or one instant of a set is the least, cannot be
shown by the library's induction theorems here, since they take an operator as a
parameter; it is derived from the well-foundedness of the naturals (`LeastNatural`).

### HeartbeatProofs

`NothingVanishes` says that what a heartbeat has left behind by the grace is on record:
fired, skipped, paused, missed or held. Four lines of the code break it. `RecordsSpec` is
the engine with every step it has (`Next`, with no condition on any of them) and a history,
`lapsed`, of the planned instants that these lines let go of as they act:

| In `lapsed` | What lets go | Shown by |
|---|---|---|
| `Forsaken` | an exception takes the rest of the loop's list with it (`engine.py:280`) | `Automation_lost_queue` |
| `Overtaken`, in a run | the heartbeat passes an instant that came behind the time the run goes by (`main.py:334`) | `Automation_late_beat` |
| `Overtaken`, beyond `Reach` | a catch-up reaches seven days back (`engine.py:279`, by design: `tasks.md` T012), and only the grace where there is no heartbeat (`engine.py:278`) | `Automation_new` |
| `EditedBehind` | a rule edited by a clock that is behind the heartbeat; nothing compares the two | `Automation_edited_behind` |

`NothingElseIsLost` proves that nothing else is ever lost: no crash, no restart, no stretch
of an unreliable clock, no purge, edit or pause, and neither of the two tasks working on
the other's list. It assumes a `Household`: the kernel is right about the clock, and a
run is over before the grace is. An instant in the history may still be recorded later,
so the history is an upper bound of what is lost, and the four configurations show that
each of its parts is really lost somewhere, the seven days apart.

`Owed[upto]` is what the rules planned up to an instant, nobody has recorded and nothing
has let go of. The inductive invariant, `RecordsKept`, says that nothing is owed by the
heartbeat (`Beaten`), and, as long as the clock is trusted, what is owed at most at each
point of the loop (`OwedAt`): idle, nothing up to one round and one run ago; checked,
nothing up to one run ago; in a catch-up, nothing older than the grace that is not on its
list or beyond its reach; in a run, nothing up to its own time that is not on its list.
`Beaten` alone is not inductive: the heartbeat moves to a time by which nothing is owed
only because the run before it listed everything since the grace and the catch-up
everything before. When trust comes back the loop has to be in a catch-up, which is why
the invariant asks nothing of it before; and the timer's task may record what the loop's
list holds, so the invariant is about what is owed and not about who recorded it. It
rests on `IInv` of `AutomationProofs`, which says how old a list can be.

| Theorem | Assumes | Establishes |
|---|---|---|
| `NothingElseIsLost` | `Household` | `RecordsSpec => []NothingElseVanishes` |

### CommandPathProofs

The assumption is `CommandAssumption`: the settings have an order, drives and
cool-downs last. Neither of the two properties needs the number of requests to be
bounded, but their induction needs to know who awaits the bridge: `Queued` says that
whoever is in the queue is there once and stands at the bridge, so that what
`BridgeTook` does is done once and for a request that exists. Both are proved over the
tick's walk through its snapshot and over its death. `CommandsClose` says of a check that
what has been sent since its frame is no command that found it open; a command that
overtook the request to check is recorded as `"early"` and exempt.

| Theorem | Establishes |
|---|---|
| `TypeCorrect` | `TypeOK` |
| `MeasuredIsLeftAlone` | `OnlyResyncReachesMeasured` |
| `CommandsClose` | `CommandsCloseTheCheck` |

### RosterProofs

The assumption is `RosterAssumption`: finitely many remotes and files that the settings
accept. `Rowed` says what memory is in terms of the file and the rows, item by item;
`household = Built(file)` follows from it, and cannot be kept without it, since
`Built` chooses an address for every id. That it chooses the right one is that two
rows never share an id, which `slug()` ensures: it tries one number more than there
are shutters and rows (`SlugIsFree`, by counting). `Windowed` says that an open window
has heard, or will hear, of everybody announced since online; `Aside` keeps
the row of whoever left while announced.

| Theorem | Establishes |
|---|---|
| `TypeCorrect` | `TypeOK`; a free id is always found |
| `AddressesAreUnique` | `OneEntryPerAddress` |
| `MemoryIsBuilt` | `RestartKeepsTheHousehold` |
| `MarksEnd` | `MarksAreTakenBack` |
| `AsideStays` | `SetAsideStaysAside` |
| `AwayDecidesNothing` | `OfflineDecidesNothing` |

### HouseholdProofs

The assumption is `HouseholdAssumption`. `Named` says that whoever is named has a row or
slipped in; `Cut` which parts of a removal under way are behind it, and it is what makes
a crash after the row harmless: by then the parts before it have been cut.
`GroupsAreAList` is inductive beside the types; that a reordering leaves places of
their own is the injection it is given, that a new group's place is free is that it
is behind the last.

| Theorem | Establishes |
|---|---|
| `TypeCorrect` | `TypeOK` |
| `NobodyGone` | `NobodyGoneIsNamed` |
| `GroupsStayAList` | `GroupsAreAList` |

### MeasurementsProofs

The assumption is `MeasurementAssumption`. `OneTravel` says that the file has one travel
time for a key or none; `Summed` that a curve in the file is the clamped sum of the answers
that it followed last (`told`), through crashes and a lost file. That the clamp moves a
curve no further than the answers, and not against them (`ClampFollows`), then gives
`CurvesFollow` for every key, those with answers that a crash kept from the file
included: for them it says how many steps the next answer may bring. Neither these
invariants nor the theorems that rest on them alone ask what a median is.

The others do. `Valid`, the runs of a list that count, is a recursive function;
`Collects` says what it is up to each run of a list, and an induction over that index,
by the least counterexample (`LeastNatural`), gives that it is a list of travel times,
no longer than what it was made of, and one longer or the same when a run is recorded.
That a list that is not empty has a median is that it has runs at which no more than
half are shorter (`Low`; the least is one), that the longest of those has no more than
half longer, and the same from the other side, by counting. `MedianKept` then carries
what the file says through rows, discards and crashes. `OneRunNeverDrags` is about two
runs that agree among three (`TwoThatAgree`): less than half can be on either side of
them. It asks for `Retain > 2`; `RETAIN_RUNS` is ten.

| Theorem | Assumes | Establishes |
|---|---|---|
| `TypeCorrect` | - | `TypeOK` |
| `RestartsChangeNothing` | - | `RestartChangesNothing` |
| `MeasuredIsMedian` | - | `MeasuredIsRecentMedian` |
| `OneRunNeverDrags` | `Retain > 2` | `OneRunDoesNotDrag` |
| `CurvesFollow` | - | `AnswersMoveTheirWay` |

### AccessProofs

The assumption is `AccessAssumption`. `Paired` ties every credential to the one code it
came from; `Counted` says that the count is at least what has been tried of any
code that is still good, which is why it may begin anew only when there is none;
`Watched` that a feed whose credential has run out is still on the list of a sweep
under way, or the sweeps have not looked that far, or it is `late`: it joined after the
credential's closing was over, or its sweep raised. The count is that of one process.

| Theorem | Establishes |
|---|---|
| `TypeCorrect` | `TypeOK` |
| `SomebodyAlwaysManages` | `SomebodyManages` |
| `ExchangedOnce` | `CodesAreExchangedOnce` |
| `GuessesBounded` | `GuessesAreBounded` |
| `FeedsEnd` | `FeedsEndWithTheirCredential` |
| `NothingOpensAgain` | `NothingReopens`: the tables implement `Pairings` |

`NothingOpensAgain` maps the tables to the life of a credential and the fate of a code.
Issuing and `recover` are `Enter`, minting is `Mint`, a good pairing is `Exchange`;
everything else that happens to the tables ends something or nothing (`Fades`), which is
`Lapse`: marks on a code are never taken back (`Marks`), and a revocation is not either.
A restart is `TurnBack`: the clock goes back, and what had only expired or lapsed may be
good again; what is closed or over by a mark stays so, since no mark looks at the clock. That a new credential opens no code needs that a minter is never
one that is still to come (`Minted`).

### Only model-checked

- `EveryTravelEnds` and `EveryMeasurementEnds`: liveness, and `ENABLED`, are out of this
  prover's reach;
- that the lines in the history of `Records` really lose instants: TLC's counterexamples are the
  four configurations named under `HeartbeatProofs`; none was made for the seven days;
- everything under "further disagreements".

## Not modelled, and why

- **In the tracker**: `forget_bridge_run()`, which only the simulator's reset calls;
  `halt_level()` and `nearest_end_stop()`, which only answer questions; staleness as a
  label, which the client computes from the age; the wire form of events.
- **In the engine**: rows for days without sunrise, the outcomes partial and failed
  (what is fired is carried out once either way), the simulator's clock, a GET that
  deletes an expired pause (any run does the same), SQLite losing a power cut's last
  commits, and APScheduler itself, which is a timer that may also refuse.
- **The planner's** instants are a constant of `Automation`: local time, summer time and
  the sun are arithmetic of `zoneinfo` and `astral`, which TLC would only repeat.
  Conflicts warn and change nothing.
- **In the command path**: where a shutter is between its ends, which is `Tracker`; the
  answers to the caller; the order in which one announcement's subscribers are served.
- **In the roster and the groups**: how a name becomes a slug (only that the same name
  gives the same one and a number makes it another), what the preview of a removal
  prints, two removals of one shutter at the same time, and a part of a removal that a
  crash cuts inside SQLite's own transaction.
- **In the measurements**: the dead time, the seconds of a real clock, the two decimals to
  which the file rounds a median, and what else a
  person may write into `calibration.toml`.
- **In the access**: the throttle per address, tokens and their hashes, abilities other
  than managing, names, and when a credential was last used.
- **The bridge's simulator** stands in for a motor. **The feed's** frames and numbers: a
  client replaces what it knows by each snapshot. **The audit ledger** is append-only
  and nothing reads it back. **Deployment, mocks and rendering** keep no state a
  property could be about; of the client, `interpolate()` is in `Tracker`.

## Plan

What is left, the most important first.

| Module | Composes | What it is to show |
|---|---|---|
| `House` | `Tracker`, motors, a lossy bridge | what a certain estimate says of the window itself, and how far an estimated one may be off |
| `Lifecycle` | `Roster`, `Household`, `CommandPath` at one removal | the exceptions of the three (`slipped`, an unseen run) in one behaviour |
| `Throttle` | `auth/throttle.py` against a reference | how often one address may try in a time |
| `Planner` | pure operators | instants of a rule over days with summer time and without sun; conflicts |

Theorems to come: that `CommandPath` implements a lock, and `Roster` an abstract household
that keeps who was confirmed; both beside the invariants that are proved.
