----------------------------- MODULE Automation ------------------------------
(***************************************************************************)
(* The automation engine (automation/engine.py, store.py, clock.py): which *)
(* planned instants of which rules are carried out, held back or recorded  *)
(* as missed, by two tasks of one event loop - the timer's wake-up and the *)
(* loop that runs every 30 seconds - while people edit rules, the process  *)
(* dies, and the clock of a computer without a battery is wrong.           *)
(*                                                                         *)
(* Time is counted in whole units, a few minutes each.  `truth' is the     *)
(* time, the wall clock is `lag' behind it.  When a rule fires (days, sun, *)
(* summer time: planner.py) is a given set of instants, its plan; what the *)
(* command path makes of a firing is not told apart from its success.      *)
(***************************************************************************)
EXTENDS Integers, FiniteSets, FiniteSetsExt, Tables

CONSTANTS
  Rules,        \* ids of every rule there may ever be
  Founding,     \* what automation_rule may hold when time starts
  Heartbeats,   \* what "automation.heartbeat" may hold when time starts
  Drafts,       \* bound: the rule bodies people send
  MaxTime,      \* bound: the last instant
  MaxLag,       \* bound: how far behind the clock may be after a boot
  Grace,        \* GRACE
  CatchUpLimit, \* CATCH_UP_LIMIT
  Retention,    \* RETENTION
  Slack,        \* BACKWARDS_SLACK
  KernelHonest, \* whether a clock the kernel calls synchronised is right
  MaxJob,       \* bound: units one run of the engine may take
  MaxRequests   \* bound: what people ask for

\* Python's None for an instant.
None == -1

Times == 0..MaxTime

\* A pause "until resumed" outlasts every instant.
Forever == MaxTime + 1

Jobs == {"wake", "pump"}
Verdict == {"reliable", "not_synchronised", "went_backwards"}
Status == {"fired", "paused", "skipped", "missed", "held"}

Draft == [enabled : BOOLEAN, plan : SUBSET Times, reach : BOOLEAN]

Rule == [enabled : BOOLEAN, plan : SUBSET Times, reach : BOOLEAN,
         skip : Times \cup {None}, created : Times, touched : Times]

ASSUME AutomationAssumption ==
  /\ Rules \subseteq Nat
  /\ {MaxTime, MaxLag, Grace, CatchUpLimit, Retention, Slack, MaxJob, MaxRequests} \subseteq Nat
  /\ KernelHonest \in BOOLEAN
  /\ Drafts \subseteq Draft
  /\ Heartbeats \subseteq {None, 0}
  /\ \A rs \in Founding : IsTable(rs, Rules, Rule)
  \* Ninety days against ten minutes and a few seconds of commands.
  /\ Grace + MaxJob < Retention

VARIABLES
  truth,     \* the time it is
  lag,       \* how far the wall clock is behind
  synced,    \* what adjtimex says
  phase,     \* the process: down, starting (lifespan before yield) or serving
  verdict,   \* engine.verdict
  started,   \* engine.started_at
  timer,     \* run_date of the one APScheduler job
  rules,     \* automation_rule
  issued,    \* rule ids ever given out
  pause,     \* app_setting "automation.pause"
  ledger,    \* automation_firing: [<<rule, planned_at>> -> status]
  heartbeat, \* app_setting "automation.heartbeat"
  task,      \* where the two tasks that run the engine are
  requests,  \* how many requests people have made
  carried,   \* history: the planned instants whose commands were begun
  outage     \* history: when the process was last down

clock == <<truth, lag, synced>>
process == <<phase, verdict, started>>
book == <<rules, issued>>
history == <<requests, carried, outage>>
vars == <<clock, process, timer, book, pause, ledger, heartbeat, task, history>>

-----------------------------------------------------------------------------
(* Reading.                                                                *)

Wall == truth - lag
Reliable == verdict = "reliable"

\* What _due() lists: a copy of the rule as it is at that moment.
Item == [at : Times, rule : Rules, created : Times, skip : Times \cup {None}]
Key(x) == <<x.rule, x.at>>

\* A run of the engine: the time it was given, what it still has to go through,
\* what it is commanding, and how long it has been at it.  `catching' is a run
\* inside catch_up().
Job == [stage : {"idle", "checking", "late", "run", "checked"}, now : Times,
        due : SUBSET Item, hand : SUBSET Item, catching : BOOLEAN, age : Nat]

IdleJob == [stage |-> "idle", now |-> 0, due |-> {}, hand |-> {},
            catching |-> FALSE, age |-> 0]
NewJob(stage, now, due, catching) ==
  [stage |-> stage, now |-> now, due |-> due, hand |-> {},
   catching |-> catching, age |-> 0]

\* has_firing()
Recorded(key) == key \in DOMAIN ledger

\* _due(): every planned instant in (from, to] of a rule that is on and reaches
\* a shutter, unless it has been dealt with.
Due(from, to) ==
  UNION {{[at |-> p, rule |-> r, created |-> rules[r].created, skip |-> rules[r].skip] :
            p \in {q \in rules[r].plan : from < q /\ q <= to /\ ~Recorded(<<r, q>>)}} :
          r \in {s \in DOMAIN rules : rules[s].enabled /\ rules[s].reach}}

\* FR-011: by planned time, then in the order the rules were created.
Before(x, y) ==
  \/ x.at < y.at
  \/ x.at = y.at /\ x.created < y.created
  \/ x.at = y.at /\ x.created = y.created /\ x.rule < y.rule
First(items) == CHOOSE x \in items : \A y \in items : ~Before(y, x)

\* run_due(now), when it begins: nothing at all under a clock in doubt.
RunItems(now) == IF Reliable THEN Due(now - Grace, now) ELSE {}

\* Slip: the time is compared with the heartbeat and the kernel is not asked.
CheckHeartbeatOnly(ok, now) ==
  IF heartbeat # None /\ now < heartbeat - Slack THEN "went_backwards" ELSE "reliable"

\* ClockGuard.check()
Check(ok, now) ==
  IF ~ok THEN "not_synchronised"
  ELSE IF heartbeat # None /\ now < heartbeat - Slack THEN "went_backwards"
  ELSE "reliable"

\* next_firing(): the instants strictly after `now' that are still to come.
Upcoming(rule, now) ==
  IF rule.enabled /\ rule.reach THEN {p \in rule.plan : p > now} ELSE {}

\* Slip: the firing that is due this minute counts as the next one.
NextFiringFromNow(rule, now) ==
  IF rule.enabled /\ rule.reach /\ {p \in rule.plan : p >= now} # {}
  THEN Min({p \in rule.plan : p >= now}) ELSE None

NextFiring(rule, now) ==
  IF Upcoming(rule, now) = {} THEN None ELSE Min(Upcoming(rule, now))

\* reschedule(): the timer points at the earliest next firing of all rules.
Rescheduled(rs, now) ==
  LET soon == UNION {Upcoming(rs[r], now) : r \in DOMAIN rs}
  IN  IF Reliable /\ soon # {} THEN Min(soon) ELSE None

\* pause(): an expired pause is deleted by whoever reads it.
PausedAt(now) == pause # None /\ pause > now
Unexpired(now) == IF PausedAt(now) THEN pause ELSE None

\* store._set() and the UPDATEs around it
Touch(r, rule) == rules' = Put(rules, r, [rule EXCEPT !.touched = Wall])

-----------------------------------------------------------------------------
(* One run of the engine.  What has been recorded meanwhile is passed over *)
(* without an await; every other item ends at one.                         *)

Left(job) == {x \in job.due : ~Recorded(Key(x))}
Turn(job) == First(Left(job))
Rest(job) == [job EXCEPT !.due = Left(job) \ {Turn(job)}]

\* A job that raises: the timer's wake-up reschedules in its finally clause, the
\* loop logs it and sleeps.
Aborted(j, job, t) ==
  /\ task' = [task EXCEPT ![j] = IdleJob]
  /\ timer' = IF j = "wake" THEN Rescheduled(rules, job.now) ELSE t
  /\ UNCHANGED <<clock, process, book, pause, ledger, heartbeat, history>>

\* record_firing() on a rule that has been deleted: the foreign key refuses the
\* row, and the exception takes everything behind it in the list with it.
RuleGone(j, job, t) ==
  /\ Turn(job).rule \notin DOMAIN rules
  /\ Aborted(j, job, t)

\* Slip: the row is written when the commands are through.
FireUnrecorded(j, job, t) ==
  LET x == Turn(job)
  IN  /\ x.rule \in DOMAIN rules
      /\ pause' = Unexpired(job.now)
      /\ task' = [task EXCEPT ![j] = IF PausedAt(job.now) \/ x.skip = x.at THEN Rest(job)
                                     ELSE [Rest(job) EXCEPT !.hand = {x}]]
      /\ carried' = IF PausedAt(job.now) \/ x.skip = x.at THEN carried
                    ELSE carried \cup {Key(x)}
      /\ UNCHANGED <<rules, ledger>>
      /\ timer' = t
      /\ UNCHANGED <<clock, process, issued, heartbeat, requests, outage>>

\* _fire(): recorded first, then paused, skipped or carried out.  The pause is
\* read now, the skip from the copy of the rule that the list was made of.
Fire(j, job, t) ==
  LET x == Turn(job)
      status == IF PausedAt(job.now) THEN "paused"
                ELSE IF x.skip = x.at THEN "skipped" ELSE "fired"
  IN  /\ x.rule \in DOMAIN rules
      /\ ledger' = Put(ledger, Key(x), status)
      /\ pause' = Unexpired(job.now)
      /\ IF status = "skipped"
         THEN Touch(x.rule, [rules[x.rule] EXCEPT !.skip = None])
         ELSE UNCHANGED rules
      /\ IF status = "fired"
         THEN /\ task' = [task EXCEPT ![j] = [Rest(job) EXCEPT !.hand = {x}]]
              /\ carried' = carried \cup {Key(x)}
         ELSE /\ task' = [task EXCEPT ![j] = Rest(job)]
              /\ UNCHANGED carried
      /\ timer' = t
      /\ UNCHANGED <<clock, process, issued, heartbeat, requests, outage>>

\* Slip: today's rows go with them.
PurgedToday == [k \in {x \in DOMAIN ledger : x[2] >= Wall} |-> ledger[k]]

\* purge(): rows of long ago go, on the first round of a day.
Purged == [k \in {x \in DOMAIN ledger : x[2] >= Wall - Retention} |-> ledger[k]]

\* Slip: the loop notes that it is alive whatever it thinks of the clock.
BeatAlways(now) == now

\* beat()
Beat(now) == IF Reliable THEN now ELSE heartbeat

\* The list is through.  A catch-up beats and reschedules - at boot the program
\* then begins to serve; the loop's own run beats once a minute, by a newer
\* clock than it ran by, and on a new day it reschedules and purges.
RunDone(j, job, t) ==
  /\ IF j = "wake"
     THEN /\ task' = [task EXCEPT ![j] = IdleJob]
          /\ timer' = Rescheduled(rules, job.now)
          /\ UNCHANGED <<phase, heartbeat, ledger>>
     ELSE IF job.catching
     THEN /\ heartbeat' = Beat(job.now)
          /\ phase' = "serving"
          /\ IF phase = "starting"
             THEN /\ task' = [task EXCEPT ![j] = [IdleJob EXCEPT !.age = 1]]
                  /\ timer' = Rescheduled(rules, Wall)
             ELSE /\ task' = [task EXCEPT ![j] = NewJob("checked", 0, {}, FALSE)]
                  /\ timer' = Rescheduled(rules, job.now)
          /\ UNCHANGED ledger
     ELSE \E minute, newDay \in BOOLEAN :
          /\ task' = [task EXCEPT ![j] = IdleJob]
          /\ heartbeat' = IF minute THEN Beat(Wall) ELSE heartbeat
          /\ timer' = IF newDay THEN Rescheduled(rules, Wall) ELSE t
          /\ ledger' = IF newDay THEN Purged ELSE ledger
          /\ UNCHANGED phase
  /\ UNCHANGED <<clock, verdict, started, book, pause, history>>

\* run_due() from where `job' stands up to the next await.
Proceed(j, job, t) ==
  IF Left(job) = {} THEN RunDone(j, job, t)
  ELSE RuleGone(j, job, t) \/ Fire(j, job, t)

\* catch_up(): what fell between the last heartbeat and the grace.
LateItems(now) ==
  IF heartbeat = None THEN {}
  ELSE Due(IF heartbeat > now - CatchUpLimit THEN heartbeat ELSE now - CatchUpLimit,
           now - Grace)

\* Recorded and announced one by one; then run_due() with the same `now'.
WriteOff(job, t) ==
  LET x == Turn(job)
  IN  /\ x.rule \in DOMAIN rules
      /\ ledger' = Put(ledger, Key(x), IF x.at < started THEN "missed" ELSE "held")
      /\ task' = [task EXCEPT !["pump"] = Rest(job)]
      /\ timer' = t
      /\ UNCHANGED <<clock, process, book, pause, heartbeat, history>>

CatchUp(job, t) ==
  IF Left(job) = {}
  THEN Proceed("pump", [job EXCEPT !.stage = "run", !.due = RunItems(job.now)], t)
  ELSE RuleGone("pump", job, t) \/ WriteOff(job, t)

-----------------------------------------------------------------------------
(* The two tasks.                                                          *)

\* check_clock() returns without an await in between: nothing else runs then.
AtAwait == task["pump"].stage # "checked"

\* _wake(), when the timer is due.  The job is gone from the scheduler by then.
Wake ==
  /\ AtAwait /\ phase = "serving" /\ task["wake"].stage = "idle"
  /\ timer # None /\ timer <= Wall /\ Wall - timer <= Grace
  /\ Proceed("wake", NewJob("run", Wall, RunItems(Wall), FALSE), None)

\* The scheduler may refuse it: too late, or the last one has not wound down.
WakeRefused ==
  /\ AtAwait /\ phase = "serving" /\ timer # None /\ timer <= Wall
  /\ timer' = None
  /\ UNCHANGED <<clock, process, book, pause, ledger, heartbeat, task, history>>

\* pump_automations(): check_clock() goes straight on to run_due() if nothing
\* changed, and announces it if something did.
PumpChecks ==
  /\ phase = "serving" /\ task["pump"].stage = "idle"
  /\ IF Check(synced, Wall) = verdict
     THEN Proceed("pump", NewJob("run", Wall, RunItems(Wall), FALSE), timer)
     ELSE /\ verdict' = Check(synced, Wall)
          /\ pause' = Unexpired(Wall)
          /\ task' = [task EXCEPT !["pump"] = NewJob("checking", Wall, {}, FALSE)]
          /\ UNCHANGED <<clock, phase, started, timer, book, ledger, heartbeat, history>>

\* Announced.  Turning reliable triggers a catch-up; turning unreliable takes
\* the timer down.
PumpAnnounced ==
  /\ task["pump"].stage = "checking"
  /\ LET now == task["pump"].now
     IN  IF Reliable
         THEN CatchUp([NewJob("late", now, LateItems(now), TRUE)
                         EXCEPT !.age = task["pump"].age], timer)
         ELSE Proceed("pump", NewJob("run", Wall, {}, FALSE), None)

\* Behind check_clock() comes run_due(), with a clock read anew and no await
\* before it.
PumpRuns ==
  /\ task["pump"].stage = "checked"
  /\ Proceed("pump", NewJob("run", Wall, RunItems(Wall), FALSE), timer)

\* Back from an await: a firing was announced, or the commands are through.
Resume(j) ==
  /\ AtAwait /\ task[j].hand = {}
  /\ \/ task[j].stage = "run" /\ Proceed(j, task[j], timer)
     \/ task[j].stage = "late" /\ CatchUp(task[j], timer)

\* _command() and finish_firing(): the outcome is told apart nowhere else.
Commanded(j) ==
  /\ AtAwait /\ task[j].hand # {}
  /\ task' = [task EXCEPT ![j].hand = {}]
  /\ UNCHANGED <<clock, process, timer, book, pause, ledger, heartbeat, history>>

\* apply_many() lets UnknownShutter through when a target has left the house.
CommandRaises(j) ==
  /\ AtAwait /\ phase = "serving" /\ task[j].hand # {}
  /\ Aborted(j, task[j], timer)

\* The lifespan: the first verdict, and a catch-up before anything is served.
StartUp ==
  /\ phase = "starting" /\ task["pump"].stage = "idle"
  /\ IF Reliable
     THEN CatchUp(NewJob("late", Wall, LateItems(Wall), TRUE), timer)
     ELSE /\ phase' = "serving"
          /\ UNCHANGED <<clock, verdict, started, timer, book, pause, ledger,
                         heartbeat, task, history>>

Working ==
  \/ Wake \/ WakeRefused
  \/ PumpChecks \/ PumpAnnounced \/ PumpRuns \/ StartUp
  \/ \E j \in Jobs : Resume(j) \/ Commanded(j)

Engine == Working \/ \E j \in Jobs : CommandRaises(j)

-----------------------------------------------------------------------------
(* What people ask for, over REST.  Everything ends in changed(), which    *)
(* reschedules.                                                            *)

Asked ==
  /\ AtAwait /\ phase = "serving" /\ requests < MaxRequests
  /\ requests' = requests + 1
  /\ timer' = Rescheduled(rules', Wall)
  /\ UNCHANGED <<clock, process, heartbeat, task, carried, outage>>

\* create_rule()
CreateRule(r, d) ==
  /\ r \in Rules \ issued
  /\ issued' = issued \cup {r}
  /\ rules' = Put(rules, r, [enabled |-> d.enabled, plan |-> d.plan, reach |-> d.reach,
                             skip |-> None, created |-> Wall, touched |-> Wall])
  /\ UNCHANGED <<pause, ledger>>
  /\ Asked

\* replace_rule(): a skip only makes sense for an instant the rule still fires at.
ReplaceRule(r, d) ==
  /\ r \in DOMAIN rules
  /\ LET rule == [rules[r] EXCEPT !.enabled = d.enabled, !.plan = d.plan, !.reach = d.reach]
     IN  Touch(r, IF NextFiring(rule, Wall) = rule.skip THEN rule
                  ELSE [rule EXCEPT !.skip = None])
  /\ UNCHANGED <<issued, pause, ledger>>
  /\ Asked

\* patch_rule(), enabled
SetEnabled(r, enabled) ==
  /\ r \in DOMAIN rules
  /\ Touch(r, [rules[r] EXCEPT !.enabled = enabled])
  /\ UNCHANGED <<issued, pause, ledger>>
  /\ Asked

\* patch_rule(), skip_next
SkipNext(r) ==
  /\ r \in DOMAIN rules
  /\ NextFiring(rules[r], Wall) # None
  /\ Touch(r, [rules[r] EXCEPT !.skip = NextFiring(rules[r], Wall)])
  /\ UNCHANGED <<issued, pause, ledger>>
  /\ Asked

UnskipNext(r) ==
  /\ r \in DOMAIN rules
  /\ Touch(r, [rules[r] EXCEPT !.skip = None])
  /\ UNCHANGED <<issued, pause, ledger>>
  /\ Asked

\* drop_group() and remove_shutter(), where they leave a rule with no target.
DropTargets(r) ==
  /\ r \in DOMAIN rules
  /\ Touch(r, [rules[r] EXCEPT !.reach = FALSE])
  /\ UNCHANGED <<issued, pause, ledger>>
  /\ Asked

\* Slip: the firings stay behind.
DeleteRuleAlone(r) ==
  /\ r \in DOMAIN rules
  /\ rules' = Drop(rules, r)
  /\ UNCHANGED <<issued, pause, ledger>>
  /\ Asked

\* delete_rule(): the firings go with it.
DeleteRule(r) ==
  /\ r \in DOMAIN rules
  /\ rules' = Drop(rules, r)
  /\ ledger' = [k \in {x \in DOMAIN ledger : x[1] # r} |-> ledger[k]]
  /\ UNCHANGED <<issued, pause>>
  /\ Asked

\* pause(), resume()
PauseUntil(until) ==
  /\ until > Wall
  /\ pause' = until
  /\ UNCHANGED <<rules, issued, ledger>>
  /\ Asked

ResumeRules ==
  /\ pause' = None
  /\ UNCHANGED <<rules, issued, ledger>>
  /\ Asked

Editing ==
  \E r \in Rules :
    \/ \E d \in Drafts : CreateRule(r, d) \/ ReplaceRule(r, d)
    \/ \E enabled \in BOOLEAN : SetEnabled(r, enabled)
    \/ SkipNext(r) \/ UnskipNext(r) \/ DropTargets(r) \/ DeleteRule(r)

Pausing == ResumeRules \/ \E until \in Times \cup {Forever} : PauseUntil(until)

People == Editing \/ Pausing

-----------------------------------------------------------------------------
(* The machine underneath.                                                 *)

\* The process ends wherever it is.
Crash ==
  /\ AtAwait /\ phase # "down"
  /\ phase' = "down" /\ timer' = None
  /\ verdict' = "reliable" /\ started' = 0
  /\ task' = [j \in Jobs |-> IdleJob]
  /\ outage' = [from |-> truth, to |-> MaxTime]
  /\ UNCHANGED <<clock, book, pause, ledger, heartbeat, requests, carried>>

\* It starts again, perhaps with a clock restored from some time ago.
Boot(late, ok) ==
  /\ phase = "down"
  /\ late <= truth
  /\ KernelHonest /\ ok => late = 0
  /\ phase' = "starting" /\ lag' = late /\ synced' = ok
  /\ started' = truth - late
  /\ verdict' = Check(ok, truth - late)
  /\ task' = [task EXCEPT !["pump"].age = 1]
  /\ outage' = [outage EXCEPT !.to = truth]
  /\ UNCHANGED <<truth, timer, book, pause, ledger, heartbeat, requests, carried>>

\* NTP answers, or has not for too long.
Sync ==
  /\ AtAwait /\ phase # "down"
  /\ synced' = TRUE /\ lag' = 0
  /\ UNCHANGED <<truth, process, timer, book, pause, ledger, heartbeat, task, history>>

Unsync ==
  /\ AtAwait /\ phase # "down" /\ synced
  /\ synced' = FALSE
  /\ UNCHANGED <<truth, lag, process, timer, book, pause, ledger, heartbeat, task, history>>

\* A unit of time: no run lasts longer than MaxJob, and the loop comes round.
Pass ==
  /\ AtAwait /\ truth < MaxTime
  /\ \A j \in Jobs : task[j].stage # "idle" => task[j].age < MaxJob
  /\ phase # "down" /\ task["pump"].stage = "idle" => task["pump"].age = 0
  /\ truth' = truth + 1
  /\ task' = [j \in Jobs |-> IF phase # "down" /\ (j = "pump" \/ task[j].stage # "idle")
                             THEN [task[j] EXCEPT !.age = @ + 1] ELSE task[j]]
  /\ UNCHANGED <<lag, synced, process, timer, book, pause, ledger, heartbeat, history>>

Machine ==
  \/ Crash \/ Sync \/ Unsync \/ Pass
  \/ \E late \in 0..MaxLag, ok \in BOOLEAN : Boot(late, ok)

\* A database as an earlier run left it, or a new one, and the process down.
Init ==
  /\ truth = 0 /\ lag = 0 /\ synced = FALSE
  /\ phase = "down" /\ verdict = "reliable" /\ started = 0 /\ timer = None
  /\ rules \in Founding /\ issued = DOMAIN rules
  /\ pause = None /\ ledger = EmptyTable
  /\ heartbeat \in Heartbeats
  /\ task = [j \in Jobs |-> IdleJob]
  /\ requests = 0 /\ carried = {}
  /\ outage = [from |-> 0, to |-> MaxTime]

Next == Engine \/ People \/ Machine

Spec == Init /\ [][Next]_vars

-----------------------------------------------------------------------------
(* Properties.                                                             *)

TypeOK ==
  /\ truth \in Times /\ lag \in 0..truth /\ synced \in BOOLEAN
  /\ phase \in {"down", "starting", "serving"} /\ verdict \in Verdict
  /\ started \in Times /\ timer \in Times \cup {None}
  /\ IsTable(rules, issued, Rule) /\ issued \subseteq Rules
  /\ pause \in Times \cup {None, Forever}
  /\ IsTable(ledger, (DOMAIN rules) \X Times, Status)
  /\ heartbeat \in Times \cup {None}
  /\ task \in [Jobs -> Job]
  /\ requests \in Nat /\ carried \subseteq Rules \X Times
  /\ outage \in [from : Times, to : Times]

\* The planned instants whose commands begin in this step.
Begun == UNION {task'[j].hand \ task[j].hand : j \in Jobs}

\* "whatever happens next, this instant is never fired twice" (engine.py:187):
\* not by the timer and the loop together, not after a crash, a purge, a clock
\* that jumps or an edit.
NeverTwice ==
  [][\A x \in Begun : Key(x) \notin carried]_vars

\* No window opens at the wrong hour, by the true time and whatever the wall
\* clock says: never early, and never later than the grace and the run itself.
InTime ==
  [][\A x \in Begun : x.at <= truth /\ truth < x.at + Grace + MaxJob]_vars

\* The fate of a planned instant: past its hour, or of a rule that has gone, it is
\* closed as surely as by a row.
Closed(k) ==
  \/ Recorded(k)
  \/ k[2] + Grace + MaxJob <= truth
  \/ k[1] \in issued \ DOMAIN rules

FateOf(k) == IF k \in carried THEN "carried" ELSE IF Closed(k) THEN "closed" ELSE "open"

Promise == INSTANCE Firings
  WITH Instants <- Rules \X Times, fate <- [k \in Rules \X Times |-> FateOf(k)]

\* The engine implements Firings: an instant that was skipped, paused over, missed,
\* held or deleted is not carried out later, whatever restarts, purges and edits do.
FatesAreFinal == Promise!Spec

\* FR-025: the firing a person asked to skip is not carried out, although the
\* engine only looks at the copy it took of the rule.
SkipHonoured ==
  [][\A x \in Begun : rules[x.rule].skip # x.at]_vars

\* What a rule had planned, no one has changed since, and a heartbeat has left behind
\* for longer than the grace.
Overdue(r, p) ==
  /\ rules[r].enabled /\ rules[r].reach
  /\ rules[r].touched < p /\ p + Grace <= heartbeat
  /\ truth <= p + Retention

\* FR-012, FR-013: it is on record by then, and never dropped without a word.
NothingVanishes ==
  \A r \in DOMAIN rules : \A p \in rules[r].plan : Overdue(r, p) => Recorded(<<r, p>>)

\* FR-013: "Rules MUST NOT fire while the system's time is known to be unreliable."
HeldWhenUnreliable == [][Begun # {} => Reliable]_vars

\* FR-011: rules due together are "carried out in a deterministic order": none
\* begins while one that comes before it is still being carried out.
InOrder ==
  [][\A x \in Begun, j \in Jobs : \A y \in task[j].hand : ~Before(y, x)]_vars

\* "It is carried out late only if the system comes back within 10 minutes"
\* (spec 003, edge cases): a rule does not fire for a time before it was made.
NotBeforeItsTime == [][\A x \in Begun : x.created <= x.at]_vars

\* A rule that is switched off "does not fire until switched on again".
OffIsOff == [][\A x \in Begun : rules[x.rule].enabled]_vars

\* FR-025: a skip that a person has set is still there when its time comes.
SkipKept ==
  [][\A r \in (DOMAIN rules) \cap DOMAIN rules' :
       rules[r].skip > Wall /\ requests' = requests => rules'[r].skip = rules[r].skip]_vars

\* "missed if the system was not running, held if it was and the clock was the
\* reason" (engine.py:272).
HeldMeansRunning ==
  [][\A k \in (DOMAIN ledger') \ DOMAIN ledger :
       ledger'[k] = "held" => k[2] <= outage.from \/ k[2] >= outage.to]_vars
=============================================================================
