---------------------------- MODULE CommandPath -----------------------------
(***************************************************************************)
(* Everything that sends a shutter off, and what must not be sent off by   *)
(* anything else: a shutter that is being measured (commands.py,           *)
(* api/rest.py, api/calibration_routes.py, the registry of calibration.py, *)
(* and of main.py the tick and the question after a travel).               *)
(*                                                                         *)
(* A request checks, hands its frame to the bridge and awaits it; then it  *)
(* tells the tracker and awaits the announcement; then it does the rest.   *)
(* Between those three moments every other request may take its own.       *)
(* Where a shutter is, is kept as roughly as these handlers look at it;    *)
(* the tracker itself is the module Tracker.                               *)
(***************************************************************************)
EXTENDS Integers, Sequences, FiniteSets, Tables

CONSTANTS
  Shutters,   \* every shutter the household may ever have
  Rank,       \* the order of the settings
  Tasks,      \* requests that may be under way at the same time
  DriveTime,  \* how long a drive takes
  Cooldown    \* CONFIRM_COOLDOWN_HOURS

ASSUME CommandAssumption ==
  /\ Rank \in [Shutters -> Nat]
  /\ \A s, x \in Shutters : Rank[s] = Rank[x] => s = x
  /\ DriveTime \in Nat \ {0}
  /\ Cooldown \in Nat \ {0}

VARIABLES
  household, \* settings.shutters
  forgotten, \* Roster._forgotten
  place,     \* where a resting shutter is; "lost" if the bridge's counter is unknown
  drive,     \* the tracker's travels
  run,       \* RunRegistry._active: the shutters being measured
  check,     \* app.state.pending_checks
  question,  \* app.state.pending_confirmations
  asked,     \* confirmation_prompt: how long ago, as long as it matters
  pump,      \* pump_ticks(): asleep between two ticks, walking through one, or dead
  due,       \* the travels of its list that the tick has still to settle, as it saw them
  settled,   \* the end-to-end travel that the tick is announcing, and where it began
  told,      \* the shutters every client shows as being measured
  task,      \* where the requests under way stand
  queue      \* those that await the bridge, in the order of their frames

vars == <<household, forgotten, place, drive, run, check, question,
          asked, pump, due, settled, told, task, queue>>
motion == <<place, drive>>
loop == <<pump, due, settled>>

-----------------------------------------------------------------------------

Ends == {"up", "down"}
Places == Ends \cup {"between", "lost"}
Targets == Ends \cup {"between"}
Opposite(end) == IF end = "up" THEN "down" ELSE "up"

\* What puts a frame on the air.
Kinds == {"command", "list", "resync", "home", "run", "check", "abort"}
Closing == {"command", "list", "run"}

\* What has been sent to a shutter since the frame of something else went there:
\* history, which no action reads.  A command, a list and a run ask the lock and
\* close checks ("command", or "early" if the check was not open yet); the others
\* do one of the two or neither ("sidestep").
Since == {"nothing", "sidestep", "early", "command"}

Drive == [from : Places, to : Targets, age : 0..DriveTime]

Run == [to : Ends, age : 0..(2 * DriveTime + 1), since : Since]
Task == [kind : Kinds \cup {"ended", "remove"}, shutter : Shutters,
         target : Targets \cup {"stop"}, rest : SUBSET Shutters,
         at : {"bridge", "news"}, since : Since \ {"command"}]

Request(kind, s, target, rest, at) ==
  [kind |-> kind, shutter |-> s, target |-> target, rest |-> rest, at |-> at,
   since |-> "nothing"]

\* The requests, of which those to check this very shutter are overtaken.
Overtaken(s, how) ==
  [u \in DOMAIN task |->
     IF /\ task[u].kind = "check" /\ task[u].shutter = s
        /\ task[u].since # "early"
     THEN [task[u] EXCEPT !.since = how] ELSE task[u]]

Noted(table, s, how) ==
  IF s \in DOMAIN table /\ table[s].since # "command"
  THEN [table EXCEPT ![s].since = how] ELSE table

\* position().percent, as far as these handlers tell it apart.
Here(s) ==
  IF s \notin DOMAIN drive THEN place[s]
  ELSE IF drive[s].from = "lost" THEN "lost"
  ELSE IF drive[s].age = 0 THEN drive[s].from
  ELSE IF drive[s].age = DriveTime THEN drive[s].to
  ELSE "between"

\* nearest_end_stop(): which half of the window, one cannot tell here.
Nearest(s) == IF Here(s) \in Ends THEN {Here(s)} ELSE Ends

\* Slip: the lock is asked on one route only.
RefusedIfForgotten(s) == s \in forgotten

\* _send(): measured or forgotten shutters take no command.
Refused(s) == s \in DOMAIN run \/ s \in forgotten

Idle(t) == t \notin DOMAIN task

\* The frame is out and the request awaits the bridge.  `checks` are the open
\* checks that the request has left; a run takes the lock before its frame.
HandOver(t, kind, s, target, rest, checks) ==
  /\ task' = Put(Overtaken(s, IF kind \in Closing THEN "early" ELSE "sidestep"),
                 t, Request(kind, s, target, rest, "bridge"))
  /\ queue' = Append(queue, t)
  /\ run' = IF kind = "run"
            THEN Put(run, s, [to |-> target, age |-> 0, since |-> "nothing"])
            ELSE Noted(run, s, IF kind = "resync" THEN "sidestep" ELSE "command")
  /\ check' = Noted(checks, s, IF kind \in Closing THEN "command" ELSE "sidestep")
  /\ UNCHANGED question

\* The rest of a request: what it still has to announce.
Announces(t, kind, s) ==
  task' = Put(task, t, Request(kind, s, "stop", {}, "news"))

\* tracker.stop(): it rests where it is thought to be.
StopDrive(s) ==
  /\ place' = [place EXCEPT ![s] = Here(s)]
  /\ drive' = Drop(drive, s)

\* tracker.start_movement(): nothing for a shutter that is there already.
StartDrive(s, target) ==
  /\ drive' = IF Here(s) = target /\ target \in Ends THEN drive
              ELSE Put(drive, s, [from |-> Here(s), to |-> target, age |-> 0])
  /\ UNCHANGED place

-----------------------------------------------------------------------------
(* Requests, up to the await of the bridge.                                *)

\* Slip: a stop does not drive anywhere, so it leaves the check open.
CommandStopKeepsCheck(t, s, target, reachable) ==
  /\ Idle(t) /\ s \in household /\ ~Refused(s)
  /\ reachable
  /\ HandOver(t, "command", s, target, {},
              IF target = "stop" THEN check ELSE Drop(check, s))
  /\ UNCHANGED <<household, forgotten, place, drive, asked, loop, told>>

\* command_one() and a rule's or a group's only shutter: apply().
Command(t, s, target, reachable) ==
  /\ Idle(t) /\ s \in household /\ ~Refused(s)
  /\ IF reachable THEN HandOver(t, "command", s, target, {}, Drop(check, s))
     ELSE /\ check' = Drop(check, s)
          /\ UNCHANGED <<run, question, task, queue>>
  /\ UNCHANGED <<household, forgotten, place, drive, asked, loop, told>>

\* apply_many() from some point of its list to the next await: those that take
\* no command are passed over, and so is everybody while the bridge is away.
\* A shutter that has left the household meanwhile raises and ends it.
WalkOn(t, rest, target, reachable) ==
  LET halts == {s \in rest : ~Refused(s) /\ (reachable \/ s \notin household)}
      first == CHOOSE s \in halts : \A x \in halts : Rank[s] <= Rank[x]
      tried == IF halts = {} THEN rest ELSE {s \in rest : Rank[s] <= Rank[first]}
      left == [s \in DOMAIN check \ {x \in tried : ~Refused(x)} |-> check[s]]
  IN  IF halts # {} /\ first \in household
      THEN HandOver(t, "list", first, target, rest \ tried, left)
      ELSE /\ check' = left
           /\ task' = Drop(task, t)
           /\ UNCHANGED <<run, question, queue>>

CommandAll(t, target, reachable) ==
  /\ Idle(t)
  /\ WalkOn(t, household, target, reachable)
  /\ UNCHANGED <<household, forgotten, place, drive, asked, loop, told>>

\* resync(): asks neither the lock nor the roster, and leaves an open check be.
Resync(t, s, target) ==
  /\ Idle(t) /\ s \in household
  /\ target \in Nearest(s)
  /\ HandOver(t, "resync", s, target, {}, check)
  /\ UNCHANGED <<household, forgotten, place, drive, asked, loop, told>>

\* home(): the drive to an end stop that is not a measurement.
Home(t, s, target) ==
  /\ Idle(t) /\ s \in household /\ s \notin DOMAIN run
  /\ target \in Nearest(s)
  /\ HandOver(t, "home", s, target, {}, check)
  /\ UNCHANGED <<household, forgotten, place, drive, asked, loop, told>>

\* start_run(): begins at an end stop, closes an open check before it looks
\* whether the shutter is being measured, and takes the lock before the frame.
StartRun(t, s, reachable) ==
  /\ Idle(t) /\ s \in household /\ Here(s) \in Ends
  /\ IF s \in DOMAIN run \/ ~reachable
     THEN /\ check' = Drop(check, s)
          /\ IF s \in DOMAIN run THEN UNCHANGED task ELSE Announces(t, "ended", s)
          /\ UNCHANGED <<run, question, queue>>
     ELSE HandOver(t, "run", s, Opposite(Here(s)), {}, Drop(check, s))
  /\ UNCHANGED <<household, forgotten, place, drive, asked, loop, told>>

\* start_check(): to the middle, to ask how it looks there.
StartCheck(t, s) ==
  /\ Idle(t) /\ s \in household /\ s \notin DOMAIN run
  /\ HandOver(t, "check", s, "between", {}, check)
  /\ UNCHANGED <<household, forgotten, place, drive, asked, loop, told>>

\* abort_run(): lets go of the shutter first, then stops it.
AbortRun(t, s, reachable) ==
  /\ Idle(t) /\ s \in household /\ s \in DOMAIN run
  /\ run' = Drop(run, s)
  /\ IF reachable
     THEN /\ task' = Put(task, t, Request("abort", s, "stop", {}, "bridge"))
          /\ queue' = Append(queue, t)
          /\ check' = Noted(check, s, "sidestep")
          /\ UNCHANGED <<question, place, drive>>
     ELSE /\ StopDrive(s)
          /\ Announces(t, "ended", s)
          /\ UNCHANGED <<check, question, queue>>
  /\ UNCHANGED <<household, forgotten, asked, loop, told>>

\* mark("arrived"): the person at the window beats the timer.
MarkArrived(t, s) ==
  /\ Idle(t) /\ s \in household /\ s \in DOMAIN run
  /\ run' = Drop(run, s)
  /\ place' = [place EXCEPT ![s] = run[s].to]
  /\ drive' = Drop(drive, s)
  /\ Announces(t, "ended", s)
  /\ UNCHANGED <<household, forgotten, check, question, asked, loop, told, queue>>

-----------------------------------------------------------------------------
(* Requests, behind their awaits.                                          *)

\* The bridge has the frame.  The tracker knows no shutter that has left: the
\* request ends there, and a run stays registered.  Otherwise everybody hears of
\* the movement, after which some kinds of request have nothing left to do.
BridgeTook(t) ==
  /\ queue # <<>> /\ Head(queue) = t
  /\ queue' = Tail(queue)
  /\ LET s == task[t].shutter
     IN  IF s \notin household
         THEN task' = Drop(task, t) /\ UNCHANGED motion
         ELSE /\ IF task[t].kind \in {"command", "resync", "home"}
                 THEN task' = Drop(task, t)
                 ELSE task' = [task EXCEPT ![t].at = "news"]
              /\ IF task[t].target = "stop" THEN StopDrive(s)
                                            ELSE StartDrive(s, task[t].target)
  /\ UNCHANGED <<household, forgotten, run, check, question, asked, loop, told>>

\* The connection broke while it was on its way: BridgeUnreachable behind the
\* await.  A run that did not start is taken out of the registry, whoever's run
\* is there by now; an aborted one is stopped all the same.
BridgeFailed(t) ==
  /\ queue # <<>> /\ Head(queue) = t
  /\ task[t].kind # "list"
  /\ queue' = Tail(queue)
  /\ LET s == task[t].shutter
     IN  CASE task[t].kind = "run" /\ s \in DOMAIN run ->
                run' = Drop(run, s) /\ Announces(t, "ended", s) /\ UNCHANGED motion
         [] task[t].kind = "abort" /\ s \in household ->
                StopDrive(s) /\ Announces(t, "ended", s) /\ UNCHANGED run
         [] OTHER -> task' = Drop(task, t) /\ UNCHANGED <<run, place, drive>>
  /\ UNCHANGED <<household, forgotten, check, question, asked, loop, told>>

\* The same inside a list: that one is reported and the next is tried.
ListMemberFailed(t) ==
  /\ queue # <<>> /\ Head(queue) = t
  /\ task[t].kind = "list"
  /\ task' = [task EXCEPT ![t].at = "news"]
  /\ queue' = Tail(queue)
  /\ UNCHANGED <<household, forgotten, place, drive, run, check, question,
                 asked, loop, told>>

\* Everybody has heard of the movement, and the request does the rest: a list
\* goes on, a check opens, a run's beginning or end is announced.
ListGoesOn(t, reachable) ==
  /\ ~Idle(t) /\ task[t].at = "news" /\ task[t].kind = "list"
  /\ WalkOn(t, task[t].rest, task[t].target, reachable)
  /\ UNCHANGED <<household, forgotten, place, drive, asked, loop, told>>

CheckOpens(t) ==
  /\ ~Idle(t) /\ task[t].at = "news" /\ task[t].kind = "check"
  /\ check' = Put(check, task[t].shutter, [since |-> task[t].since])
  /\ task' = Drop(task, t)
  /\ UNCHANGED <<household, forgotten, place, drive, run, question, asked,
                 loop, told, queue>>

RunAnnounced(t) ==
  /\ ~Idle(t) /\ task[t].at = "news" /\ task[t].kind \notin {"list", "check", "remove"}
  /\ told' = CASE task[t].kind = "run" -> told \cup {task[t].shutter}
             [] OTHER -> told \ {task[t].shutter}
  /\ task' = Drop(task, t)
  /\ UNCHANGED <<household, forgotten, place, drive, run, check, question,
                 asked, loop, queue>>

-----------------------------------------------------------------------------
(* The loop that settles travels and sweeps runs, and the answers.         *)

\* {movement.from_percent, movement.target_percent} == {0, 100}: with the
\* counter unknown start_movement() takes the far end to be the start.
EndToEnd(d) == d.to \in Ends /\ d.from \in {Opposite(d.to), "lost"}

Done == {s \in DOMAIN drive : drive[s].age = DriveTime}

\* Deletes whatever travel the shutter has by now, settles it where the one the
\* tick saw was going, and announces that one.  Deleting nothing is a KeyError,
\* which nothing catches: the task is over.
Settles(s, d) ==
  IF s \in DOMAIN drive
  THEN /\ place' = [place EXCEPT ![s] = d.to]
       /\ drive' = Drop(drive, s)
       /\ settled' = IF EndToEnd(d) THEN Put(settled, s, d.from) ELSE settled
       /\ pump' = "walking"
  ELSE /\ pump' = "dead"
       /\ UNCHANGED <<place, drive, settled>>

\* tick(): takes its list of travels once, and settles the first that is done.
TickBegins(s) ==
  /\ pump = "asleep" /\ s \in Done
  /\ due' = [x \in Done \ {s} |-> drive[x]]
  /\ Settles(s, drive[s])
  /\ UNCHANGED <<household, forgotten, run, check, question, asked, told, task, queue>>

\* Everybody has heard of it; the next of the list, whatever became of it.
TickGoesOn(s) ==
  /\ pump = "walking" /\ settled = EmptyTable /\ s \in DOMAIN due
  /\ due' = IF s \in DOMAIN drive THEN Drop(due, s) ELSE EmptyTable
  /\ Settles(s, due[s])
  /\ UNCHANGED <<household, forgotten, run, check, question, asked, told, task, queue>>

\* note_confirmable() hears of it, and may ask about it.  It has noted the
\* question before the name of a shutter that has left stops it.
NoteConfirmable(s) ==
  /\ s \in DOMAIN settled
  /\ settled' = Drop(settled, s)
  /\ IF s \notin DOMAIN run /\ s \notin DOMAIN asked
     THEN /\ question' = Put(question, s, settled[s])
          /\ asked' = Put(asked, s, 0)
     ELSE UNCHANGED <<question, asked>>
  /\ UNCHANGED <<household, forgotten, place, drive, run, check, pump, due, told,
                 task, queue>>

\* Slip: only a run that is still travelling can be given up.
AbandonedOnTheWay(s) ==
  s \in DOMAIN drive /\ run[s].age > 2 * DriveTime

Abandoned(s) == run[s].age > 2 * DriveTime

\* RunRegistry.sweep(), by the same task behind its tick: nobody said that they
\* arrived.  Their announcements, one after the other, are not told apart.
Sweep ==
  /\ \/ pump = "asleep" /\ Done = {}
     \/ pump = "walking" /\ due = EmptyTable /\ settled = EmptyTable
  /\ LET stale == {s \in DOMAIN run : Abandoned(s)}
     IN  /\ run' = [s \in DOMAIN run \ stale |-> run[s]]
         /\ told' = told \ stale
  /\ pump' = "asleep"
  /\ UNCHANGED <<household, forgotten, place, drive, check, question, asked, due,
                 settled, task, queue>>

\* confirm() records a measurement, dismiss() does not; the question is gone.
Confirm(s) ==
  /\ s \in household /\ s \in DOMAIN question
  /\ question' = Drop(question, s)
  /\ UNCHANGED <<household, forgotten, place, drive, run, check, asked, loop, told,
                 task, queue>>

Dismiss(s) == Confirm(s)

\* answer_check(): one answer per drive to the midpoint.
AnswerCheck(s) ==
  /\ s \in household /\ s \notin DOMAIN run /\ s \in DOMAIN check
  /\ check' = Drop(check, s)
  /\ UNCHANGED <<household, forgotten, place, drive, run, question, asked,
                 loop, told, task, queue>>

\* clear_check()
ClearCheck(s) ==
  /\ s \in household /\ s \in DOMAIN check
  /\ check' = Drop(check, s)
  /\ UNCHANGED <<household, forgotten, place, drive, run, question, asked,
                 loop, told, task, queue>>

-----------------------------------------------------------------------------
(* What happens around it.                                                 *)

\* The bridge no longer announces it, or does again (module Roster).
Forgets(s) ==
  /\ s \in household
  /\ forgotten' = IF s \in forgotten THEN forgotten \ {s} ELSE forgotten \cup {s}
  /\ UNCHANGED <<household, place, drive, run, check, question, asked, loop,
                 told, task, queue>>

\* Slip: the mark outlives the shutter.
LeavesForgotten(s) ==
  /\ household' = household \ {s}
  /\ check' = Drop(check, s)
  /\ question' = Drop(question, s)
  /\ drive' = Drop(drive, s)
  /\ place' = [place EXCEPT ![s] = "lost"]
  /\ UNCHANGED forgotten

\* The last, unbroken part of Roster.remove(); a new one may take its id later.
Leaves(s) ==
  /\ household' = household \ {s}
  /\ forgotten' = forgotten \ {s}
  /\ check' = Drop(check, s)
  /\ question' = Drop(question, s)
  /\ drive' = Drop(drive, s)
  /\ place' = [place EXCEPT ![s] = "lost"]

\* Roster.remove(): a shutter that is being measured stays.
RemoveAtOnce(s) ==
  /\ s \in household /\ s \notin DOMAIN run
  /\ Leaves(s)
  /\ UNCHANGED <<run, asked, loop, told, task, queue>>

\* If a group or a rule names it, that is announced before it leaves.
Remove(t, s) ==
  /\ Idle(t) /\ s \in household /\ s \notin DOMAIN run
  /\ task' = Put(task, t, Request("remove", s, "stop", {}, "news"))
  /\ UNCHANGED <<household, forgotten, place, drive, run, check, question,
                 asked, loop, told, queue>>

RemoveGoesOn(t) ==
  /\ ~Idle(t) /\ task[t].at = "news" /\ task[t].kind = "remove"
  /\ Leaves(task[t].shutter)
  /\ task' = Drop(task, t)
  /\ UNCHANGED <<run, asked, loop, told, queue>>

Add(s) ==
  /\ s \notin household
  /\ household' = household \cup {s}
  /\ UNCHANGED <<forgotten, place, drive, run, check, question, asked, loop,
                 told, task, queue>>

\* The process ends and starts again.  Runs, checks and questions are in memory;
\* a shutter that was travelling comes back unknown; clients get a new snapshot.
Restart ==
  /\ place' = [s \in Shutters |-> IF s \in DOMAIN drive THEN "lost" ELSE place[s]]
  /\ drive' = EmptyTable /\ run' = EmptyTable
  /\ check' = EmptyTable /\ question' = EmptyTable
  /\ pump' = "asleep" /\ due' = EmptyTable /\ settled' = EmptyTable
  /\ task' = EmptyTable /\ queue' = <<>>
  /\ told' = {} /\ forgotten' = {}
  /\ UNCHANGED <<household, asked>>

UpTo(n, most) == IF n < most THEN n + 1 ELSE most

\* One unit of time.  A question asked long enough ago may as well be forgotten.
Pass ==
  /\ drive' = [s \in DOMAIN drive |-> [drive[s] EXCEPT !.age = UpTo(@, DriveTime)]]
  /\ run' = [s \in DOMAIN run |-> [run[s] EXCEPT !.age = UpTo(@, 2 * DriveTime + 1)]]
  /\ asked' = [s \in {x \in DOMAIN asked : asked[x] + 1 < Cooldown} |-> asked[s] + 1]
  /\ UNCHANGED <<household, forgotten, place, check, question, loop, told,
                 task, queue>>

-----------------------------------------------------------------------------

Init ==
  /\ household \in SUBSET Shutters
  /\ place = [s \in Shutters |-> "lost"]
  /\ drive = EmptyTable /\ run = EmptyTable
  /\ check = EmptyTable /\ question = EmptyTable /\ asked = EmptyTable
  /\ pump = "asleep" /\ due = EmptyTable /\ settled = EmptyTable
  /\ task = EmptyTable /\ queue = <<>>
  /\ told = {} /\ forgotten = {}

\* Whether the bridge is reachable when a frame is to go out is an input.
Asking(t) ==
  \E reachable \in BOOLEAN :
    \/ \E target \in Targets \cup {"stop"} :
         \/ CommandAll(t, target, reachable)
         \/ \E s \in Shutters : Command(t, s, target, reachable)
    \/ \E s \in Shutters : StartRun(t, s, reachable) \/ AbortRun(t, s, reachable)

Driving(t) ==
  \E s \in Shutters : \/ \E end \in Ends : Resync(t, s, end) \/ Home(t, s, end)
                     \/ StartCheck(t, s) \/ MarkArrived(t, s) \/ Remove(t, s)

Resuming(t) ==
  \/ BridgeTook(t) \/ BridgeFailed(t) \/ ListMemberFailed(t)
  \/ \E reachable \in BOOLEAN : ListGoesOn(t, reachable)
  \/ CheckOpens(t) \/ RunAnnounced(t) \/ RemoveGoesOn(t)

Watching(s) ==
  \/ TickBegins(s) \/ TickGoesOn(s) \/ NoteConfirmable(s)
  \/ Confirm(s) \/ Dismiss(s) \/ AnswerCheck(s) \/ ClearCheck(s)

Around == \E s \in Shutters : Forgets(s) \/ RemoveAtOnce(s) \/ Add(s)

Next ==
  \/ \E t \in Tasks : Asking(t) \/ Driving(t) \/ Resuming(t)
  \/ \E s \in Shutters : Watching(s)
  \/ Sweep \/ Around \/ Restart \/ Pass

Spec == Init /\ [][Next]_vars

\* Time passes and the loop takes its next step, whichever that is, as long as its
\* task lives; nothing is assumed of people or the bridge.
Pump ==
  Sweep \/ \E s \in Shutters : TickBegins(s) \/ TickGoesOn(s) \/ NoteConfirmable(s)

Fairness == WF_vars(Pass) /\ WF_vars(Pump)

-----------------------------------------------------------------------------
(* Properties.                                                             *)

TypeOK ==
  /\ household \subseteq Shutters /\ forgotten \subseteq household
  /\ told \subseteq Shutters
  /\ place \in [Shutters -> Places]
  /\ IsTable(drive, household, Drive)
  /\ IsTable(run, Shutters, Run)
  /\ IsTable(check, Shutters, [since : Since])
  /\ IsTable(question, Shutters, Places)
  /\ IsTable(asked, Shutters, 0..(Cooldown - 1))
  /\ pump \in {"asleep", "walking", "dead"}
  /\ IsTable(due, Shutters, Drive)
  /\ IsTable(settled, Shutters, Places)
  /\ IsTable(task, Tasks, Task)
  /\ queue \in Seq(DOMAIN task)

\* FR-028: while a shutter is being measured nothing but the run's own frame
\* goes to it, whichever requests, lists and aborted runs of before are still
\* under way, except for a resync.
OnlyResyncReachesMeasured ==
  \A s \in DOMAIN run : run[s].since # "command"

\* commands.py: "Driven somewhere else, the shutter no longer shows the check's
\* midpoint".  A command, a member of a list and a run close a check that is open
\* when their frame goes out.  Exempt: those that overtake the request to check
\* itself, between its frame and its end ("early", see ChecksShowTheirMidpoint),
\* and what is no command: resync and home, a second check, an aborted run's stop.
CommandsCloseTheCheck ==
  \A s \in DOMAIN check : check[s].since # "command"

\* FR-009: "a measurement must never leave a window stuck": however a run was
\* begun, whoever left and whatever the bridge does, the lock opens again, unless
\* the loop that opens it is dead (see NoWindowStuck).
EveryMeasurementEnds ==
  \A s \in Shutters : s \in DOMAIN run ~> s \notin DOMAIN run \/ pump = "dead"

\* FR-009 without the exception.
NoWindowStuck == \A s \in Shutters : s \in DOMAIN run ~> s \notin DOMAIN run

\* What commands.py says of every command since the frame of the check.
ChecksShowTheirMidpoint ==
  \A s \in DOMAIN check : check[s].since \notin {"early", "command"}

\* FR-028 without the exception.
LockIsExclusive == \A s \in DOMAIN run : run[s].since = "nothing"

\* An open check can only be answered for the drive that was asked about.
AnswerDescribesItsDrive ==
  \A s \in DOMAIN check : s \in DOMAIN run \/ check[s].since = "nothing"

\* A confirmed time is the time of one drive (calibration_routes.py: "the
\* elapsed time from the command to this request is a real observation"): no
\* question is open about a shutter that has been sent elsewhere meanwhile.
ConfirmTimesOneDrive == \A s \in DOMAIN question : s \notin DOMAIN drive

\* FR-019 without the exception: the start was known, and was an end stop.
QuestionIsEndToEnd == \A s \in DOMAIN question : question[s] \in Ends

\* Whoever can be asked about is in the household.
QuestionsHaveAWindow == DOMAIN question \subseteq household

\* With no request under way every client shows as measured what is measured
\* ("Nothing else would ever tell it otherwise", calibration_routes.py:200).
ClientsKnowWhatIsMeasured == task = EmptyTable => told = DOMAIN run
=============================================================================
