------------------------------ MODULE Tracker -------------------------------
(***************************************************************************)
(* The tracker: where every shutter is and how much that can be trusted    *)
(* (tracker.py), with the row it keeps per shutter (store.py) and the one  *)
(* path a command takes to it (commands.py).                               *)
(*                                                                         *)
(* The program is a single asyncio event loop.  What runs between two      *)
(* awaits is one step here.  A command hands its frame to the bridge,      *)
(* awaits, and only then tells the tracker; a tick settles one travel,     *)
(* awaits the announcement, and only then looks at the next.  Everything   *)
(* else may run in between.                                                *)
(*                                                                         *)
(* Percentages (what a person reads) and levels (what the bridge counts:   *)
(* motor time) are whole points 0..Full, 0 closed and Full open.  Clocks   *)
(* are ages: whole units of time since something happened.                 *)
(***************************************************************************)
EXTENDS Integers, Sequences, FiniteSets, Tables

CONSTANTS
  Shutters,         \* every shutter the household may ever have
  Full,             \* 100 %
  ToLevel,          \* to_level: [direction -> [percentage -> level]]
  ToPercent,        \* to_percent: [direction -> [level -> percentage]]
  Travel,           \* travel_seconds: [direction -> time of a full travel]
  IgnoreDelta,      \* IGNORE_DELTA
  ExternalWindow,   \* EXTERNAL_WINDOW
  ExternalMinDelta, \* EXTERNAL_MIN_DELTA
  RunTolerance,     \* BRIDGE_RUN_TOLERANCE
  RunGrace,         \* the two seconds added to BRIDGE_RUN_SLACK travels
  StaleAfter,       \* stale_after_hours
  MaxInFlight       \* bound: commands handed to the bridge and not yet resumed

\* Python's None for a percentage, a level or an age, all of which are naturals.
None == -1

Direction == {"up", "down"}
Points == 0..Full
EndStops == {0, Full}

\* Ages are told apart up to the first one that is stale.
Ages == 0..(StaleAfter + 1)

\* The curves bend the middle of a travel and leave its ends where they are;
\* a travel takes time; the deltas are those of tracker.py in proportion.
ASSUME ConstantsAssumption ==
  /\ Full \in Nat \ {0}
  /\ ToLevel \in [Direction -> [Points -> Points]]
  /\ ToPercent \in [Direction -> [Points -> Points]]
  /\ \A d \in Direction, p \in EndStops : ToLevel[d][p] = p /\ ToPercent[d][p] = p
  /\ Travel \in [Direction -> Nat \ {0}]
  /\ {IgnoreDelta, ExternalWindow, RunTolerance, StaleAfter} \subseteq Nat
  /\ {ExternalMinDelta, RunGrace} \subseteq Nat \ {0}
  /\ MaxInFlight \in Nat

VARIABLES
  household, \* settings.shutters: who is in the house
  position,  \* _positions
  movement,  \* _movements
  report,    \* _last_report
  heading,   \* _last_direction
  counter,   \* _bridge_level
  run,       \* _bridge_runs, an expired one counting as gone
  external,  \* _external_moving
  stored,    \* shutter_state, what a restart finds
  inflight,  \* commands that await the bridge, in the order handed over
  due,       \* travels the running tick still has to settle, as it saw them
  ticker     \* whether the task that calls tick() still runs

vars == <<household, position, movement, report, heading, counter, run,
          external, stored, inflight, due, ticker>>

-----------------------------------------------------------------------------
(* Values.                                                                 *)

Estimate == [percent : Points \cup {None},
             confidence : {"certain", "estimated", "unknown"},
             age : Ages \cup {None}]

UnknownEstimate == [percent |-> None, confidence |-> "unknown", age |-> None]
AtEndStop(p) == [percent |-> p, confidence |-> "certain", age |-> 0]
Estimated(p, age) == [percent |-> p, confidence |-> "estimated", age |-> age]

Movement == [from : Points, target : Points, dir : Direction,
             bfrom : Points, bto : Points, known : BOOLEAN,
             elapsed : Nat, duration : Nat]

Row == [estimate : Estimate, moving : BOOLEAN]

\* A command: the position it asks for, or None for a stop.
Command == [shutter : Shutters, target : Points \cup {None}, level : Points]

Abs(x) == IF x < 0 THEN -x ELSE x
AtLeast(x, y) == IF x < y THEN y ELSE x
\* Slip: the counter may be anywhere, and nobody keeps the level on the scale.
Unclamped(x) == x

Clamp(x) == IF x < 0 THEN 0 ELSE IF x > Full THEN Full ELSE x

\* How far along a straight line of `whole` steps `part` of them lead, rounded.
Share(distance, part, whole) == (2 * distance * part + whole) \div (2 * whole)

\* The point a travel from a to b has reached.
Along(a, b, m) ==
  IF m.elapsed >= m.duration THEN b
  ELSE IF a <= b THEN a + Share(b - a, m.elapsed, m.duration)
                 ELSE a - Share(a - b, m.elapsed, m.duration)

IsDone(m) == m.elapsed >= m.duration
LevelAt(m) == Along(m.bfrom, m.bto, m)

\* curve_a = 1: percentages and levels coincide.
Neutral(d) == \A p \in Points : ToLevel[d][p] = p /\ ToPercent[d][p] = p

PositionAt(m) ==
  IF Neutral(m.dir) THEN Along(m.from, m.target, m)
                    ELSE ToPercent[m.dir][LevelAt(m)]

DirectionTo(here, target) == IF target > here THEN "up" ELSE "down"

-----------------------------------------------------------------------------
(* Reading the tables.                                                     *)

\* position(): the stored estimate, or while travelling the interpolated one.
PositionNow(s) ==
  IF s \in DOMAIN movement
  THEN Estimated(PositionAt(movement[s]), position[s].age)
  ELSE position[s]

\* bridge_level(): what the bridge's own counter says, if anybody knows.
BridgeLevel(s) ==
  IF s \in DOMAIN movement
  THEN IF movement[s].known THEN LevelAt(movement[s]) ELSE None
  ELSE IF s \in DOMAIN counter THEN counter[s] ELSE None

LastDirection(s) == IF s \in DOMAIN heading THEN heading[s] ELSE "up"

\* level_for(): the bridge moves by the difference to its own counter, so what
\* is sent is that counter plus the distance left in this direction's time.
LevelFor(s, target) ==
  LET here == PositionNow(s).percent
      d == IF here = target THEN LastDirection(s) ELSE DirectionTo(here, target)
  IN  IF target \in EndStops THEN target
      ELSE IF here = None THEN ToLevel["down"][target]
      ELSE IF BridgeLevel(s) = None THEN ToLevel[d][target]
      ELSE Clamp(BridgeLevel(s) + ToLevel[d][target] - ToLevel[d][here])

\* start_movement(): the travel that begins when `level` went out for `target`.
\* An unknown start or counter is taken to be the far end.
Assumed(s, target) ==
  IF PositionNow(s).percent # None THEN PositionNow(s).percent
  ELSE IF target = Full THEN 0 ELSE Full

NewMovement(s, target, level) ==
  LET d == DirectionTo(Assumed(s, target), target)
      far == IF d = "up" THEN 0 ELSE Full
      known == BridgeLevel(s) # None
      from == IF known THEN Assumed(s, target) ELSE far
      bfrom == IF known THEN BridgeLevel(s) ELSE far
      distance == AtLeast(Abs(ToLevel[d][target] - ToLevel[d][from]),
                          Abs(level - bfrom))
  IN [from |-> from, target |-> target, dir |-> d,
      bfrom |-> bfrom, bto |-> level, known |-> known,
      elapsed |-> 0, duration |-> (Travel[d] * distance) \div Full]

\* Slip: a bridge that is exactly as fast as we are.
RunTimeWithoutSlack(d) == Travel[d]

\* When the bridge must be through with that command, whatever its own clock.
RunTime(d) == (3 * Travel[d]) \div 2 + RunGrace

NewRun(m) == [from |-> m.bfrom, to |-> m.bto, left |-> RunTime(m.dir)]

\* _report_direction(), percent_from_level(): the curve a report is read through.
ReportDirection(s, level) ==
  LET here == ToLevel["up"][position[s].percent]
  IN  IF s \in DOMAIN movement THEN movement[s].dir
      ELSE IF position[s].percent # None /\ level > here THEN "up"
      ELSE IF position[s].percent # None /\ level < here THEN "down"
      ELSE LastDirection(s)

PercentFromLevel(s, level) == ToPercent[ReportDirection(s, level)][level]

\* _is_our_bridge_run(): is the bridge still working through our last command?
IsOurBridgeRun(s, level) ==
  /\ s \in DOMAIN run
  /\ level + RunTolerance >= run[s].from \/ level + RunTolerance >= run[s].to
  /\ level - RunTolerance <= run[s].from \/ level - RunTolerance <= run[s].to

\* store.save()
Save(s, estimate, moving) ==
  stored' = Put(stored, s, [estimate |-> estimate, moving |-> moving])

\* Slip: the row is written before the new estimate is there.
SettleSavesFirst(s, percent, table) ==
  LET e == IF percent \in EndStops THEN AtEndStop(percent)
                                   ELSE Estimated(percent, position[s].age)
  IN  /\ counter' = IF percent \in EndStops THEN Put(table, s, percent) ELSE table
      /\ position' = Put(position, s, e)
      /\ Save(s, position[s], FALSE)

\* _settle(), once the travel is out of the tables.  `table` is the counter
\* table the caller leaves behind; an end stop resets the counter as well.
Settle(s, percent, table) ==
  LET e == IF percent \in EndStops THEN AtEndStop(percent)
                                   ELSE Estimated(percent, position[s].age)
  IN  /\ counter' = IF percent \in EndStops THEN Put(table, s, percent) ELSE table
      /\ position' = Put(position, s, e)
      /\ Save(s, e, FALSE)

\* _accept()
Accept(s, estimate) ==
  /\ position' = Put(position, s, estimate)
  /\ Save(s, estimate, FALSE)

-----------------------------------------------------------------------------
(* Commands.                                                               *)

\* Up to the await of bridge.send_level() or send_stop(): nothing is recorded.
\* The measurement lock and the forgotten check stand before this (commands.py);
\* a refused hand-over raises and changes nothing.
Send(s, target) ==
  /\ s \in household
  /\ Len(inflight) < MaxInFlight
  /\ inflight' = Append(inflight,
       [shutter |-> s, target |-> target,
        level |-> IF target = None THEN 0 ELSE LevelFor(s, target)])
  /\ UNCHANGED <<household, position, movement, report, heading, counter, run,
                 external, stored, due, ticker>>

\* The frame is out: start_movement(), or nothing if the shutter has gone from
\* the household (UnknownShutter) or is where it was sent.
StartMovement ==
  /\ inflight # <<>>
  /\ Head(inflight).target # None
  /\ inflight' = Tail(inflight)
  /\ LET s == Head(inflight).shutter
         target == Head(inflight).target
         m == NewMovement(s, target, Head(inflight).level)
     IN  IF s \notin household \/ Assumed(s, target) = target
         THEN UNCHANGED <<movement, heading, run, stored>>
         ELSE /\ movement' = Put(movement, s, m)
              /\ heading' = Put(heading, s, m.dir)
              /\ run' = Put(run, s, NewRun(m))
              /\ Save(s, position[s], TRUE)
  /\ UNCHANGED <<household, position, report, counter, external, due, ticker>>

\* The stop frame is out: stop() halts where it is, not at the target.
Stop ==
  /\ inflight # <<>>
  /\ Head(inflight).target = None
  /\ inflight' = Tail(inflight)
  /\ LET s == Head(inflight).shutter
     IN  IF s \notin household
         THEN UNCHANGED <<position, movement, run, counter, stored>>
         ELSE /\ run' = Drop(run, s)
              /\ movement' = Drop(movement, s)
              /\ IF s \notin DOMAIN movement
                 THEN UNCHANGED <<position, counter, stored>>
                 ELSE Settle(s, PositionAt(movement[s]),
                        IF movement[s].known
                        THEN Put(counter, s, LevelAt(movement[s]))
                        ELSE Drop(counter, s))
  /\ UNCHANGED <<household, report, heading, external, due, ticker>>

\* confirm_arrival(): a person timing the travel says it has arrived.
ConfirmArrival(s, percent) ==
  /\ s \in household
  /\ movement' = Drop(movement, s)
  /\ Settle(s, percent, counter)
  /\ UNCHANGED <<household, report, heading, run, external, inflight, due, ticker>>

-----------------------------------------------------------------------------
(* The loop that settles travels, every TICK_SECONDS.                      *)

Done == {s \in DOMAIN movement : IsDone(movement[s])}

\* Slip: the travel is settled and stays in the table.
SettleKeepsTravel(s, m) ==
  IF s \in DOMAIN movement
  THEN /\ Settle(s, m.target, Put(counter, s, m.bto))
       /\ UNCHANGED <<movement, ticker>>
  ELSE /\ ticker' = "dead"
       /\ UNCHANGED <<movement, position, counter, stored>>

\* Deletes whatever travel the shutter has now, then settles the one the tick
\* saw.  Deleting nothing raises KeyError, which ends the task for good.
SettleDone(s, m) ==
  IF s \in DOMAIN movement
  THEN /\ movement' = Drop(movement, s)
       /\ Settle(s, m.target, Put(counter, s, m.bto))
       /\ UNCHANGED ticker
  ELSE /\ ticker' = "dead"
       /\ UNCHANGED <<movement, position, counter, stored>>

\* tick() takes its list of travels once, and what it finds done in that list
\* it settles one after the other, each behind an await.
TickBegins(s) ==
  /\ ticker = "alive" /\ due = EmptyTable
  /\ s \in Done
  /\ due' = [x \in Done \ {s} |-> movement[x]]
  /\ SettleDone(s, movement[s])
  /\ UNCHANGED <<household, report, heading, run, external, inflight>>

TickGoesOn(s) ==
  /\ ticker = "alive"
  /\ s \in DOMAIN due
  /\ due' = IF s \in DOMAIN movement THEN Drop(due, s) ELSE EmptyTable
  /\ SettleDone(s, due[s])
  /\ UNCHANGED <<household, report, heading, run, external, inflight>>

Tick(s) == TickBegins(s) \/ TickGoesOn(s)

-----------------------------------------------------------------------------
(* Reports from the bridge.                                                *)

\* handle_report() during our own travel: our estimate wins.
ReportWhileTravelling(s, level) ==
  /\ s \in household /\ s \in DOMAIN movement
  /\ report' = Put(report, s, [percent |-> PercentFromLevel(s, level), age |-> 0])
  /\ UNCHANGED <<household, position, movement, heading, counter, run, external,
                 stored, inflight, due, ticker>>

\* handle_report() after our travel, while the bridge is still on its way there.
ReportOfOurRun(s, level) ==
  /\ s \in household /\ s \notin DOMAIN movement
  /\ IsOurBridgeRun(s, level)
  /\ counter' = Put(counter, s, level)
  /\ run' = IF Abs(level - run[s].to) <= RunTolerance THEN Drop(run, s) ELSE run
  /\ UNCHANGED <<household, position, movement, report, heading, external, stored,
                 inflight, due, ticker>>

\* Somebody else drives: two reports close together in time and apart in value.
SomebodyDrives(s, percent) ==
  /\ s \in DOMAIN report
  /\ Abs(percent - report[s].percent) >= ExternalMinDelta

IsNoise(s, percent) ==
  /\ position[s].percent # None
  /\ Abs(percent - position[s].percent) <= IgnoreDelta

\* Slip: whatever the bridge says is taken to be known from now on.
JudgedFresh(s, percent) ==
  IF percent \in EndStops THEN AtEndStop(percent)
  ELSE IF s \notin external /\ IsNoise(s, percent) THEN position[s]
  ELSE Estimated(percent, 0)

\* What handle_report() makes of an idle report that is not our own run: who is
\* driving, an end stop, noise, a second report on the move, another estimate.
Judged(s, percent) ==
  IF percent \in EndStops THEN AtEndStop(percent)
  ELSE IF s \in external THEN Estimated(percent, 0)
  ELSE IF IsNoise(s, percent) THEN position[s]
  ELSE Estimated(percent, IF SomebodyDrives(s, percent) THEN 0 ELSE position[s].age)

ReportWhileIdle(s, level) ==
  /\ s \in household /\ s \notin DOMAIN movement
  /\ ~IsOurBridgeRun(s, level)
  /\ LET percent == PercentFromLevel(s, level)
     IN  /\ report' = Put(report, s, [percent |-> percent, age |-> 0])
         /\ IF s \notin external /\ percent \notin EndStops /\ IsNoise(s, percent)
            THEN UNCHANGED <<position, stored>>
            ELSE Accept(s, Judged(s, percent))
  /\ counter' = Put(counter, s, level)
  /\ UNCHANGED <<household, movement, heading, run, external, inflight, due, ticker>>

\* _handle_retained_position(): the broker's old news fills only what is unknown.
RetainedPosition(s, level) ==
  /\ s \in household /\ s \notin DOMAIN movement
  /\ counter' = Put(counter, s, level)
  /\ IF position[s].percent = None
     THEN Accept(s, Estimated(PercentFromLevel(s, level), None))
     ELSE UNCHANGED <<position, stored>>
  /\ UNCHANGED <<household, movement, report, heading, run, external, inflight,
                 due, ticker>>

\* Slip: somebody drives it, so there must be an estimate of where it is.
MovementBeginsEstimated(s) ==
  /\ s \in household
  /\ s \notin DOMAIN movement /\ s \notin DOMAIN run
  /\ external' = external \cup {s}
  /\ Accept(s, [percent |-> position[s].percent, confidence |-> "estimated", age |-> 0])
  /\ UNCHANGED <<household, movement, report, heading, counter, run, inflight,
                 due, ticker>>

\* _handle_movement() with "opening" or "closing" that no command of ours explains.
MovementBegins(s) ==
  /\ s \in household
  /\ s \notin DOMAIN movement /\ s \notin DOMAIN run
  /\ external' = external \cup {s}
  /\ Accept(s, [percent |-> position[s].percent,
                confidence |-> IF position[s].percent = None THEN "unknown"
                                                            ELSE "estimated",
                age |-> 0])
  /\ UNCHANGED <<household, movement, report, heading, counter, run, inflight,
                 due, ticker>>

\* _handle_movement() with "open", "closed" or "stopped".
MovementEnds(s) ==
  /\ s \in external
  /\ external' = external \ {s}
  /\ UNCHANGED <<household, position, movement, report, heading, counter, run,
                 stored, inflight, due, ticker>>

-----------------------------------------------------------------------------
(* The household, restarts and time.                                       *)

\* add_shutter(), when a person confirms one: where it is, nobody knows yet.
AddShutter(s) ==
  /\ s \in Shutters \ household
  /\ household' = household \cup {s}
  /\ position' = Put(position, s, UnknownEstimate)
  /\ UNCHANGED <<movement, report, heading, counter, run, external, stored,
                 inflight, due, ticker>>

\* Slip: one table is missing from remove_shutter()'s list.
RemoveShutterKeepsHeading(s) ==
  /\ s \in household
  /\ household' = household \ {s}
  /\ position' = Drop(position, s)
  /\ movement' = Drop(movement, s)
  /\ report' = Drop(report, s)
  /\ counter' = Drop(counter, s)
  /\ run' = Drop(run, s)
  /\ external' = external \ {s}
  /\ stored' = Drop(stored, s)
  /\ UNCHANGED <<heading, inflight, due, ticker>>

\* store.delete() and remove_shutter(), with no await in between.  The tasks
\* that are waiting for the bridge keep waiting.
RemoveShutter(s) ==
  /\ s \in household
  /\ household' = household \ {s}
  /\ position' = Drop(position, s)
  /\ movement' = Drop(movement, s)
  /\ report' = Drop(report, s)
  /\ heading' = Drop(heading, s)
  /\ counter' = Drop(counter, s)
  /\ run' = Drop(run, s)
  /\ external' = external \ {s}
  /\ stored' = Drop(stored, s)
  /\ UNCHANGED <<inflight, due, ticker>>

\* store.load_all(): a shutter that was travelling comes back unknown.
Restored(s) ==
  IF s \notin DOMAIN stored THEN UnknownEstimate
  ELSE IF stored[s].moving \/ stored[s].estimate.confidence = "unknown"
  THEN UnknownEstimate
  ELSE stored[s].estimate

\* The process ends, at any await, and starts again: only the rows survive.
Restart ==
  /\ position' = [s \in household |-> Restored(s)]
  /\ counter' = [s \in {x \in household : Restored(x).percent # None} |->
                   ToLevel["up"][Restored(s).percent]]
  /\ movement' = EmptyTable /\ report' = EmptyTable
  /\ heading' = EmptyTable /\ run' = EmptyTable
  /\ external' = {} /\ inflight' = <<>>
  /\ due' = EmptyTable /\ ticker' = "alive"
  /\ UNCHANGED <<household, stored>>

Older(e) == [e EXCEPT !.age = IF @ \in {None, StaleAfter + 1} THEN @ ELSE @ + 1]

\* One unit of time.  A report outside the window and a run past its deadline
\* are told from none at all by no line of the code.
Pass ==
  /\ position' = [s \in DOMAIN position |-> Older(position[s])]
  /\ stored' = [s \in DOMAIN stored |->
                  [stored[s] EXCEPT !.estimate = Older(@)]]
  /\ movement' = [s \in DOMAIN movement |->
                  IF IsDone(movement[s]) THEN movement[s]
                  ELSE [movement[s] EXCEPT !.elapsed = @ + 1]]
  /\ run' = [s \in {x \in DOMAIN run : run[x].left > 0} |->
               [run[s] EXCEPT !.left = @ - 1]]
  /\ report' = [s \in {x \in DOMAIN report : report[x].age < ExternalWindow} |->
               [report[s] EXCEPT !.age = @ + 1]]
  /\ UNCHANGED <<household, heading, counter, external, inflight, due, ticker>>

-----------------------------------------------------------------------------

\* The first start of the program: a household and an empty database.
Init ==
  /\ household \in SUBSET Shutters
  /\ position = [s \in household |-> UnknownEstimate]
  /\ movement = EmptyTable /\ report = EmptyTable
  /\ heading = EmptyTable /\ run = EmptyTable /\ counter = EmptyTable
  /\ external = {} /\ inflight = <<>> /\ stored = EmptyTable
  /\ due = EmptyTable /\ ticker = "alive"

\* What a person or a rule asks of a shutter, and what becomes of it.
Driving ==
  \/ \E s \in Shutters : \/ \E target \in Points \cup {None} : Send(s, target)
                         \/ \E p \in EndStops : ConfirmArrival(s, p)
                         \/ Tick(s)
  \/ StartMovement \/ Stop

\* What the bridge says of it.
Hearing ==
  \E s \in Shutters : \/ \E level \in Points : \/ ReportWhileTravelling(s, level)
                                             \/ ReportOfOurRun(s, level)
                                             \/ ReportWhileIdle(s, level)
                                             \/ RetainedPosition(s, level)
                     \/ MovementBegins(s) \/ MovementEnds(s)

\* Who lives here.
Living == \E s \in Shutters : AddShutter(s) \/ RemoveShutter(s)

Next == Driving \/ Hearing \/ Living \/ Restart \/ Pass

Spec == Init /\ [][Next]_vars

\* The event loop keeps time, goes on with its tick, and resumes whoever waits
\* for the bridge, first come first served.
Fairness ==
  /\ WF_vars(Pass)
  /\ WF_vars(StartMovement \/ Stop)
  /\ WF_vars(\E s \in Shutters : Tick(s))

FairSpec == Spec /\ Fairness

-----------------------------------------------------------------------------
(* Properties.                                                             *)

TypeOK ==
  /\ household \subseteq Shutters
  /\ position \in [household -> Estimate]
  /\ IsTable(movement, Shutters, Movement)
  /\ IsTable(report, Shutters, [percent : Points, age : Nat])
  /\ IsTable(heading, Shutters, Direction)
  /\ IsTable(counter, Shutters, Points)
  /\ IsTable(run, Shutters, [from : Points, to : Points, left : Nat])
  /\ external \subseteq Shutters
  /\ IsTable(stored, Shutters, Row)
  /\ inflight \in Seq(Command)
  /\ IsTable(due, Shutters, Movement)
  /\ ticker \in {"alive", "dead"}

\* Whoever leaves the household leaves nothing behind, whatever command or
\* tick was waiting when it left (remove_shutter, and the checks behind awaits).
NoGhosts ==
  /\ DOMAIN movement \cup DOMAIN report \cup DOMAIN heading \cup DOMAIN counter
       \cup DOMAIN run \cup DOMAIN stored \subseteq household
  /\ external \subseteq household

\* The validator of PositionEstimate never raises inside a handler: unknown and
\* no percentage are the same thing, and certain is an end stop with a moment.
WellFormed ==
  \A s \in household :
    /\ position[s].confidence = "unknown" <=> position[s].percent = None
    /\ position[s].confidence = "certain" =>
         position[s].percent \in EndStops /\ position[s].age # None

\* FR-010: at every moment a restart brings an idle shutter back exactly as it
\* is believed to be, with its age, and a travelling one as unknown.
RestartIsHonest ==
  \A s \in household :
    Restored(s) = IF s \in DOMAIN movement \/ position[s].percent = None
                  THEN UnknownEstimate ELSE position[s]

\* While we believe a travel is under way the bridge's own run for it has not
\* run out, so its reports just after our arrival are still taken for its own.
EchoCovered ==
  \A s \in DOMAIN movement :
    IsDone(movement[s]) \/
      /\ s \in DOMAIN run
      /\ run[s].left > movement[s].duration - movement[s].elapsed

\* An estimate gets younger only where somebody else was seen driving: the
\* bridge heard a remote, or two reports in a row disagree (research 001, 5).
Younger(e, f) == f.age # None /\ (e.age = None \/ f.age < e.age)

FreshnessIsEarned ==
  [][\A s \in household \cap household' :
       Younger(position[s], position'[s]) /\ position'[s].confidence # "certain"
         => \/ s \in external'
            \/ /\ s \in DOMAIN report
               /\ Abs(report[s].percent - position'[s].percent) >= ExternalMinDelta]_vars

\* A travel that no further command, removal or restart touches comes to an end,
\* whatever becomes of the others the same tick has found, unless the loop that
\* settles them is dead (see TravelsAlwaysEnd).
EveryTravelEnds ==
  \A s \in Shutters :
    s \in DOMAIN movement ~>
      s \notin DOMAIN movement \/ inflight # <<>> \/ ticker = "dead"

\* tick(): "Settle any movement that has arrived", without the exception.
TravelsAlwaysEnd ==
  \A s \in Shutters :
    s \in DOMAIN movement ~> s \notin DOMAIN movement \/ inflight # <<>>

\* FR-006: certain means at an end stop it just reached.  A travel that is cut
\* short makes the shutter certain only of the end stop it was heading for.
CertainIsReached ==
  [][\A s \in DOMAIN movement \cap household' :
       Stop /\ s \notin DOMAIN movement' /\ position'[s].confidence = "certain"
         => position'[s].percent = movement[s].target]_vars

\* "An end stop is mechanically true whoever reports it."  Here the bridge was
\* heard away from the end stop just before, so it has come back to it.
EndStopIsBelieved ==
  [][\A s \in household, level \in EndStops :
       ReportOfOurRun(s, level) /\ s \in DOMAIN report
         => report[s].percent \in EndStops \/ position'[s].percent = level]_vars

\* tick(): "Settle any movement that has arrived", and only those.
OnlyArrivalsSettle ==
  [][\A s \in DOMAIN movement :
       Tick(s) /\ s \notin DOMAIN movement' => IsDone(movement[s])]_vars

\* FR-010, from the bridge's side: a shutter that was sent off and has not
\* arrived comes back unknown.
SentOffIsUnknown ==
  \A i \in DOMAIN inflight :
    inflight[i].target # None => Restored(inflight[i].shutter) = UnknownEstimate

\* interpolate() in animate.ts, from what movement_json tells a client.
AnimatedAt(m) ==
  IF Neutral(m.dir) THEN Along(m.from, m.target, m)
  ELSE ToPercent[m.dir][Along(ToLevel[m.dir][m.from], ToLevel[m.dir][m.target], m)]

\* "so a stop mid-travel settles where the animation already is" (animate.ts),
\* up to the point that rounding may cost.
StopSettlesWhereAnimated ==
  \A s \in DOMAIN movement :
    Abs(AnimatedAt(movement[s]) - PositionAt(movement[s])) <= 1
=============================================================================
