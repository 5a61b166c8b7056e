-------------------------- MODULE AutomationProofs ---------------------------
(***************************************************************************)
(* What holds of the automation engine for every set of rules, every plan, *)
(* every clock and every number of people: no planned instant is carried   *)
(* out twice, and none at the wrong hour.                                  *)
(*                                                                         *)
(* Both rest on the same argument.  A run of the engine keeps a list it    *)
(* made earlier, by a time it read earlier; the invariant says how old the *)
(* one and how wrong the other can be by now.                              *)
(***************************************************************************)
EXTENDS Automation, TLAPS, WellFoundedInduction

\* How far a clock that the engine trusts can be behind.
Behind == IF KernelHonest THEN 0 ELSE MaxLag

\* The wall clock, and the time a run of the engine goes by.
ClockKept ==
  /\ lag <= MaxLag
  /\ phase # "down" /\ (synced \/ Reliable) => lag <= Behind

Fresh(job) == job.now + job.age <= truth /\ truth <= job.now + job.age + Behind
InWindow(job, x) == job.now - Grace < x.at /\ x.at <= job.now

\* What a task has in hand is of its own run, in its window and still fresh.
JobKept(j, job) ==
  /\ job.stage # "idle" => phase # "down" /\ job.age <= MaxJob
  /\ job.stage # "run" => job.hand = {}
  /\ j = "wake" => job.stage \in {"idle", "run"}
  /\ (job.stage = "late" \/ (job.stage = "checking" /\ Reliable)) => Fresh(job)
  /\ job.stage = "run" => \A x \in job.due \cup job.hand : InWindow(job, x) /\ Fresh(job)

JobsKept == \A j \in Jobs : JobKept(j, task[j])

\* What was carried out is on record, or so long ago that the row was purged, or
\* of a rule that has gone and whose id does not come back.
LedgerKept ==
  \A k \in carried :
    \/ Recorded(k)
    \/ k[2] + Retention < truth
    \/ k[1] \in issued \ DOMAIN rules

IInv == TypeOK /\ ClockKept /\ JobsKept /\ LedgerKept

-----------------------------------------------------------------------------
(* The operators of the engine.                                            *)

LEMMA Naturals ==
  /\ Rules \subseteq Nat /\ MaxTime \in Nat /\ MaxLag \in Nat /\ Grace \in Nat
  /\ CatchUpLimit \in Nat /\ Retention \in Nat /\ Slack \in Nat /\ MaxJob \in Nat
  /\ Behind \in Nat /\ Behind <= MaxLag /\ Grace + MaxJob < Retention
  /\ Times \subseteq Nat /\ 0 \in Times
BY AutomationAssumption DEF AutomationAssumption, Behind, Times

LEMMA LeastNatural ==
  ASSUME NEW S \in SUBSET Nat, S # {}
  PROVE  \E x \in S : \A y \in S : x <= y
<1>1. \E x \in S : \A y \in S : ~ (<<y, x>> \in OpToRel(<, Nat))
  BY NatLessThanWellFounded, WFMin
<1>2. PICK x \in S : \A y \in S : ~ (<<y, x>> \in OpToRel(<, Nat))
  BY <1>1
<1>3. \A y \in S : ~(y < x)
  BY <1>2 DEF OpToRel
<1>4. QED
  BY <1>3

LEMMA LeastBy ==
  ASSUME NEW S, NEW f \in [S -> Nat], S # {}
  PROVE  \E x \in S : \A y \in S : f[x] <= f[y]
<1>1. {f[x] : x \in S} \in SUBSET Nat /\ {f[x] : x \in S} # {}
  OBVIOUS
<1>2. PICK a \in {f[x] : x \in S} : \A b \in {f[x] : x \in S} : a <= b
  BY <1>1, LeastNatural
<1>3. QED
  BY <1>2

LEMMA MinInSet ==
  ASSUME NEW S \in SUBSET Times, S # {}
  PROVE  Min(S) \in S
BY LeastNatural, Naturals DEF Min

\* Whatever the list, one entry of it comes first.
LEMMA FirstInList ==
  ASSUME NEW S \in SUBSET Item, S # {}
  PROVE  First(S) \in S
<1>1. \A x \in S : x.at \in Nat /\ x.created \in Nat /\ x.rule \in Nat
  BY Naturals DEF Item
<1>2. PICK f1 \in S : \A x \in S : f1.at <= x.at
  <2> DEFINE g == [x \in S |-> x.at]
  <2>1. g \in [S -> Nat] /\ S # {}
    BY <1>1
  <2>2. \E x \in S : \A y \in S : g[x] <= g[y]
    BY <2>1, LeastBy
  <2>3. QED
    BY <2>2
<1> DEFINE A == {x \in S : x.at = f1.at}
<1>3. PICK f2 \in A : \A x \in A : f2.created <= x.created
  <2> DEFINE g == [x \in A |-> x.created]
  <2>1. g \in [A -> Nat] /\ A # {}
    BY <1>1, <1>2
  <2>2. \E x \in A : \A y \in A : g[x] <= g[y]
    BY <2>1, LeastBy
  <2>3. QED
    BY <2>2
<1> DEFINE C == {x \in A : x.created = f2.created}
<1>4. PICK f \in C : \A x \in C : f.rule <= x.rule
  <2> DEFINE g == [x \in C |-> x.rule]
  <2>1. g \in [C -> Nat] /\ C # {}
    BY <1>1, <1>3
  <2>2. \E x \in C : \A y \in C : g[x] <= g[y]
    BY <2>1, LeastBy
  <2>3. QED
    BY <2>2
<1>5. ASSUME NEW y \in S PROVE ~Before(y, f)
  <2>1. f1.at <= y.at /\ f.at = f1.at
    BY <1>2
  <2>2. y.at = f.at => f2.created <= y.created /\ f.created = f2.created
    BY <1>3, <2>1
  <2>3. y.at = f.at /\ y.created = f.created => f.rule <= y.rule
    BY <1>4, <2>1, <2>2
  <2>4. QED
    BY <1>1, <2>1, <2>2, <2>3 DEF Before
<1>6. QED
  BY <1>5 DEF First

LEMMA WallType == TypeOK => Wall \in Times /\ Wall <= truth /\ truth = Wall + lag
BY Naturals DEF TypeOK, Wall, Times

LEMMA DueType ==
  ASSUME TypeOK, NEW from \in Int, NEW to \in Int
  PROVE  /\ Due(from, to) \subseteq Item
         /\ \A x \in Due(from, to) : from < x.at /\ x.at <= to
<1> SUFFICES ASSUME NEW x \in Due(from, to)
             PROVE  x \in Item /\ from < x.at /\ x.at <= to
  OBVIOUS
<1>1. PICK r \in DOMAIN rules : \E p \in rules[r].plan :
        /\ from < p /\ p <= to
        /\ x = [at |-> p, rule |-> r, created |-> rules[r].created, skip |-> rules[r].skip]
  BY DEF Due
<1>2. r \in Rules /\ rules[r] \in Rule
  BY DEF TypeOK, IsTable
<1>3. QED
  BY <1>1, <1>2 DEF Rule, Item

LEMMA RunItemsType ==
  ASSUME TypeOK, NEW now \in Times
  PROVE  /\ RunItems(now) \subseteq Item
         /\ \A x \in RunItems(now) : Reliable /\ now - Grace < x.at /\ x.at <= now
BY DueType, Naturals DEF RunItems

LEMMA LateItemsType ==
  ASSUME TypeOK, NEW now \in Times
  PROVE  LateItems(now) \subseteq Item
<1>1. heartbeat \in Int
  BY Naturals DEF TypeOK, None
<1>2. now - CatchUpLimit \in Int /\ now - Grace \in Int
  BY Naturals
<1>3. QED
  BY <1>1, <1>2, DueType DEF LateItems

LEMMA UpcomingType ==
  ASSUME NEW rule \in Rule, NEW now
  PROVE  Upcoming(rule, now) \subseteq Times
BY DEF Upcoming, Rule

LEMMA NextFiringType ==
  ASSUME NEW rule \in Rule, NEW now
  PROVE  NextFiring(rule, now) \in Times \cup {None}
BY UpcomingType, MinInSet DEF NextFiring

LEMMA RescheduledType ==
  ASSUME NEW rs, NEW K, IsTable(rs, K, Rule), NEW now
  PROVE  Rescheduled(rs, now) \in Times \cup {None}
<1> DEFINE soon == UNION {Upcoming(rs[r], now) : r \in DOMAIN rs}
<1>1. soon \subseteq Times
  BY UpcomingType DEF IsTable
<1>2. soon # {} => Min(soon) \in Times
  BY <1>1, MinInSet
<1>3. QED
  BY <1>2 DEF Rescheduled

LEMMA CheckType ==
  ASSUME NEW ok \in BOOLEAN, NEW now
  PROVE  Check(ok, now) \in Verdict /\ (Check(ok, now) = "reliable" => ok)
BY DEF Check, Verdict

LEMMA UnexpiredType ==
  ASSUME TypeOK, NEW now
  PROVE  Unexpired(now) \in Times \cup {None, Forever}
BY DEF Unexpired, TypeOK

LEMMA BeatType ==
  ASSUME TypeOK, NEW now \in Times
  PROVE  Beat(now) \in Times \cup {None}
BY DEF Beat, TypeOK

LEMMA TouchType ==
  ASSUME TypeOK, NEW r \in DOMAIN rules, NEW rule \in Rule, Touch(r, rule)
  PROVE  DOMAIN rules' = DOMAIN rules /\ IsTable(rules', issued, Rule)
<1> DEFINE new == [rule EXCEPT !.touched = Wall]
<1>1. new \in Rule
  BY WallType DEF Rule
<1> HIDE DEF new
<1>2. QED
  BY <1>1 DEF TypeOK, IsTable, Touch, Put, new

-----------------------------------------------------------------------------
(* Steps of a run.                                                         *)

\* Whatever begins is not on record yet, its rule exists, and it is the hour.
Begins ==
  \A x \in Begun :
    /\ x \in Item /\ x.rule \in DOMAIN rules /\ ~Recorded(Key(x))
    /\ x.at <= truth /\ truth < x.at + Grace + MaxJob + Behind

\* A run that stands between two entries of its list.
Sound(j, job) ==
  job \in Job /\ JobKept(j, job) /\ job.hand = {} /\ phase # "down"

LEMMA IdleJobType == IdleJob \in Job /\ [IdleJob EXCEPT !.age = 1] \in Job
BY Naturals DEF IdleJob, Job

LEMMA NothingBegins ==
  ASSUME \A j \in Jobs : task'[j].hand \subseteq task[j].hand
  PROVE  Begins
BY DEF Begins, Begun

LEMMA TaskWritten ==
  ASSUME IInv, NEW j \in Jobs, NEW new \in Job, JobKept(j, new),
         task' = [task EXCEPT ![j] = new],
         truth' = truth, verdict' = verdict, phase # "down", phase' # "down"
  PROVE  task' \in [Jobs -> Job] /\ JobsKept'
<1>1. task' \in [Jobs -> Job]
  BY DEF IInv, TypeOK
<1>2. ASSUME NEW i \in Jobs PROVE JobKept(i, task[i])'
  <2>1. task'[i] = IF i = j THEN new ELSE task[i]
    BY DEF IInv, TypeOK
  <2>2. JobKept(i, task'[i])
    BY <2>1 DEF IInv, JobsKept
  <2>3. QED
    BY <2>2 DEF JobKept, Fresh, InWindow, Reliable
<1>3. QED
  BY <1>1, <1>2 DEF JobsKept

LEMMA TurnInDue ==
  ASSUME NEW job \in Job, Left(job) # {}
  PROVE  Turn(job) \in job.due /\ Turn(job) \in Item /\ ~Recorded(Key(Turn(job)))
<1>1. Left(job) \in SUBSET Item
  BY DEF Left, Job
<1>2. Turn(job) \in Left(job)
  BY <1>1, FirstInList DEF Turn
<1>3. QED
  BY <1>1, <1>2 DEF Left

LEMMA RestKept ==
  ASSUME NEW j \in Jobs, NEW job, Sound(j, job)
  PROVE  /\ Rest(job) \in Job /\ JobKept(j, Rest(job))
         /\ Rest(job).hand = {} /\ Rest(job).stage = job.stage
         /\ Rest(job).now = job.now /\ Rest(job).age = job.age
<1>1. /\ Rest(job) \in Job
      /\ Rest(job).due \subseteq job.due /\ Rest(job).hand = {}
      /\ Rest(job).stage = job.stage /\ Rest(job).now = job.now /\ Rest(job).age = job.age
  BY DEF Rest, Left, Job, Sound
<1>2. QED
  BY <1>1 DEF Sound, JobKept, Fresh, InWindow

LEMMA AbortedKeeps ==
  ASSUME IInv, NEW j \in Jobs, NEW job, NEW t \in Times \cup {None},
         phase # "down", Aborted(j, job, t)
  PROVE  IInv' /\ Begins
<1>1. JobKept(j, IdleJob)
  BY DEF JobKept, IdleJob
<1>2. task' \in [Jobs -> Job] /\ JobsKept'
  BY <1>1, IdleJobType, TaskWritten DEF Aborted, clock, process
<1>3. timer' \in Times \cup {None}
  BY RescheduledType DEF Aborted, IInv, TypeOK
<1>4. TypeOK'
  BY <1>2, <1>3 DEF Aborted, IInv, TypeOK, clock, process, book, history
<1>5. ClockKept' /\ LedgerKept'
  BY DEF Aborted, IInv, ClockKept, LedgerKept, Recorded, Reliable, clock, process, book, history
<1>6. Begins
  BY NothingBegins DEF Aborted, IInv, TypeOK, IdleJob
<1>7. QED
  BY <1>2, <1>4, <1>5, <1>6 DEF IInv

\* The list was made in this run, and this run is not old.
LEMMA InHour ==
  ASSUME IInv, NEW j \in Jobs, NEW job \in Job, JobKept(j, job), job.stage = "run",
         NEW x \in job.due
  PROVE  x.at <= truth /\ truth < x.at + Grace + MaxJob + Behind
<1>1. /\ job.now - Grace < x.at /\ x.at <= job.now
      /\ job.now + job.age <= truth /\ truth <= job.now + job.age + Behind
      /\ job.age <= MaxJob
  BY DEF JobKept, InWindow, Fresh
<1>2. job.now \in Nat /\ job.age \in Nat /\ x.at \in Nat /\ truth \in Nat
  BY Naturals DEF Job, Item, IInv, TypeOK
<1>3. QED
  BY <1>1, <1>2, Naturals

LEMMA FireKeeps ==
  ASSUME IInv, NEW j \in Jobs, NEW job, NEW t \in Times \cup {None},
         Sound(j, job), job.stage = "run", Left(job) # {}, Fire(j, job, t)
  PROVE  IInv' /\ Begins
<1>a. PICK x : x = Turn(job)
  OBVIOUS
<1>b. PICK status \in Status :
        status = IF PausedAt(job.now) THEN "paused"
                 ELSE IF x.skip = x.at THEN "skipped" ELSE "fired"
  BY DEF Status
<1>1. x \in job.due /\ x \in Item /\ ~Recorded(Key(x)) /\ x.rule \in DOMAIN rules
  BY <1>a, TurnInDue DEF Fire, Sound
<1>2. x.at <= truth /\ truth < x.at + Grace + MaxJob + Behind
  BY <1>1, InHour DEF Sound
<1>3. /\ ledger' = Put(ledger, Key(x), status)
      /\ pause' = Unexpired(job.now) /\ timer' = t
      /\ UNCHANGED <<clock, process, issued, heartbeat, requests, outage>>
  BY <1>a, <1>b DEF Fire
<1>4. DOMAIN rules' = DOMAIN rules /\ IsTable(rules', issued, Rule)
  <2>1. CASE status = "skipped"
    <3>1. [rules[x.rule] EXCEPT !.skip = None] \in Rule
      BY <1>1 DEF Rule, IInv, TypeOK, IsTable
    <3>2. QED
      BY <1>a, <1>b, <1>1, <2>1, <3>1, TouchType DEF Fire, IInv
  <2>2. CASE status # "skipped"
    BY <1>a, <1>b, <2>2 DEF Fire, IInv, TypeOK
  <2>3. QED
    BY <2>1, <2>2
<1>5. PICK new \in Job :
        /\ task' = [task EXCEPT ![j] = new] /\ JobKept(j, new)
        /\ \/ new.hand = {} /\ carried' = carried
           \/ new.hand = {x} /\ carried' = carried \cup {Key(x)}
  <2>1. CASE status = "fired"
    <3> DEFINE n == [Rest(job) EXCEPT !.hand = {x}]
    <3>1. /\ n \in Job /\ n.stage = "run" /\ n.hand = {x} /\ n.due = Rest(job).due
          /\ n.now = job.now /\ n.age = job.age
      <4>1. PICK r \in Job : r = Rest(job)
        BY RestKept
      <4>2. r.stage = "run" /\ r.now = job.now /\ r.age = job.age
        BY <4>1, RestKept
      <4>3. n = [r EXCEPT !.hand = {x}]
        BY <4>1
      <4> HIDE DEF n
      <4>4. QED
        BY <1>1, <4>1, <4>2, <4>3 DEF Job
    <3>2. InWindow(job, x) /\ Fresh(job)
      BY <1>1 DEF Sound, JobKept
    <3>3. JobKept(j, n)
      <4> HIDE DEF n
      <4>1. QED
        BY <3>1, <3>2, RestKept DEF JobKept, InWindow, Fresh
    <3>4. task' = [task EXCEPT ![j] = n] /\ carried' = carried \cup {Key(x)}
      BY <1>a, <1>b, <2>1 DEF Fire
    <3>5. QED
      BY <3>1, <3>3, <3>4
  <2>2. CASE status # "fired"
    <3>1. task' = [task EXCEPT ![j] = Rest(job)] /\ carried' = carried
      BY <1>a, <1>b, <2>2 DEF Fire
    <3>2. QED
      BY <3>1, RestKept
  <2>3. QED
    BY <2>1, <2>2
<1>6. task' \in [Jobs -> Job] /\ JobsKept'
  BY <1>3, <1>5, TaskWritten DEF clock, process, Sound
<1>7. Key(x) \in (DOMAIN rules) \X Times /\ Key(x) \in Rules \X Times
  <2>1. x.rule \in Rules /\ x.at \in Times
    BY <1>1 DEF Item
  <2>2. QED
    BY <1>1, <2>1 DEF Key
<1>8. DOMAIN ledger' = DOMAIN ledger \cup {Key(x)}
      /\ IsTable(ledger', (DOMAIN rules') \X Times, Status)
  <2>1. PICK k : k = Key(x)
    OBVIOUS
  <2>3. ledger' = Put(ledger, k, status) /\ IsTable(ledger, (DOMAIN rules) \X Times, Status)
    BY <1>3, <2>1 DEF IInv, TypeOK
  <2>4. k \in (DOMAIN rules') \X Times /\ (DOMAIN rules') \X Times = (DOMAIN rules) \X Times
    BY <1>4, <1>7, <2>1
  <2>5. QED
    BY <2>1, <2>3, <2>4 DEF IsTable, Put
<1>9. carried' \subseteq Rules \X Times
  BY <1>5, <1>7 DEF IInv, TypeOK
<1>10. TypeOK'
  BY <1>3, <1>4, <1>6, <1>8, <1>9, UnexpiredType DEF IInv, TypeOK, clock, process
<1>11. ClockKept' /\ LedgerKept'
  BY <1>3, <1>4, <1>5, <1>8 DEF IInv, ClockKept, LedgerKept, Recorded, Reliable, clock, process
<1>12. Begins
  <2>1. ASSUME NEW y \in Begun PROVE y = x
    BY <1>5 DEF Begun, IInv, TypeOK
  <2>2. QED
    BY <1>1, <1>2, <2>1 DEF Begins
<1>13. QED
  BY <1>6, <1>10, <1>11, <1>12 DEF IInv

LEMMA PurgedKeeps ==
  ASSUME IInv
  PROVE  /\ IsTable(Purged, (DOMAIN rules) \X Times, Status)
         /\ \A k \in carried :
              Recorded(k) => k \in DOMAIN Purged \/ k[2] + Retention < truth
<1>1. IsTable(Purged, (DOMAIN rules) \X Times, Status)
  BY DEF IInv, TypeOK, IsTable, Purged
<1>2. ASSUME NEW k \in carried, Recorded(k), k \notin DOMAIN Purged
      PROVE  k[2] + Retention < truth
  <2>1. k[2] \in Nat /\ Wall \in Nat /\ Wall <= truth /\ truth \in Nat
    BY WallType, Naturals DEF IInv, TypeOK
  <2>2. k[2] < Wall - Retention
    BY <1>2, <2>1, Naturals DEF Purged, Recorded
  <2>3. QED
    BY <2>1, <2>2, Naturals
<1>3. QED
  BY <1>1, <1>2

LEMMA RunDoneKeeps ==
  ASSUME IInv, NEW j \in Jobs, NEW job, NEW t \in Times \cup {None},
         Sound(j, job), RunDone(j, job, t)
  PROVE  IInv' /\ Begins
<1>1. job.now \in Times /\ Wall \in Times
  BY WallType DEF Sound, Job, IInv
<1>2. PICK new \in Job : task' = [task EXCEPT ![j] = new] /\ JobKept(j, new) /\ new.hand = {}
  <2>1. \A age \in {0, 1} : JobKept(j, [IdleJob EXCEPT !.age = age])
    BY DEF JobKept, IdleJob
  <2>2. JobKept(j, IdleJob) /\ IdleJob.hand = {}
    BY DEF JobKept, IdleJob
  <2>3. CASE task' = [task EXCEPT ![j] = IdleJob]
    BY <2>2, <2>3, IdleJobType
  <2>4. CASE task' = [task EXCEPT ![j] = [IdleJob EXCEPT !.age = 1]]
    <3>1. [IdleJob EXCEPT !.age = 1].hand = {}
      BY DEF IdleJob
    <3>2. QED
      BY <2>1, <2>4, <3>1, IdleJobType
  <2>5. CASE j = "pump" /\ task' = [task EXCEPT ![j] = NewJob("checked", 0, {}, FALSE)]
    <3>1. NewJob("checked", 0, {}, FALSE) \in Job
      BY Naturals DEF NewJob, Job
    <3>2. JobKept(j, NewJob("checked", 0, {}, FALSE)) /\ NewJob("checked", 0, {}, FALSE).hand = {}
      BY <2>5, Naturals DEF JobKept, NewJob, Sound
    <3>3. QED
      BY <2>5, <3>1, <3>2
  <2>6. QED
    BY <2>3, <2>4, <2>5 DEF RunDone, Jobs
<1>3. /\ phase' \in {phase, "serving"}
      /\ heartbeat' \in {heartbeat, Beat(job.now), Beat(Wall)}
      /\ timer' \in {t, Rescheduled(rules, job.now), Rescheduled(rules, Wall)}
      /\ ledger' \in {ledger, Purged}
      /\ UNCHANGED <<clock, verdict, started, book, pause, history>>
  BY DEF RunDone
<1>4. heartbeat' \in Times \cup {None} /\ timer' \in Times \cup {None}
  BY <1>1, <1>3, BeatType, RescheduledType DEF IInv, TypeOK
<1>5. task' \in [Jobs -> Job] /\ JobsKept'
  BY <1>2, <1>3, TaskWritten DEF clock, Sound
<1>6. TypeOK'
  BY <1>3, <1>4, <1>5, PurgedKeeps DEF IInv, TypeOK, clock, book, history
<1>7. ClockKept'
  BY <1>3 DEF IInv, ClockKept, Reliable, clock, Sound
<1>8. LedgerKept'
  BY <1>3, PurgedKeeps DEF IInv, LedgerKept, Recorded, clock, book, history
<1>9. Begins
  BY <1>2, NothingBegins DEF IInv, TypeOK
<1>10. QED
  BY <1>5, <1>6, <1>7, <1>8, <1>9 DEF IInv

LEMMA ProceedKeeps ==
  ASSUME IInv, NEW j \in Jobs, NEW job, NEW t \in Times \cup {None},
         Sound(j, job), job.stage = "run", Proceed(j, job, t)
  PROVE  IInv' /\ Begins
BY RunDoneKeeps, AbortedKeeps, FireKeeps DEF Proceed, RuleGone, Sound

LEMMA WriteOffKeeps ==
  ASSUME IInv, NEW job, NEW t \in Times \cup {None},
         Sound("pump", job), job.stage = "late", Left(job) # {}, WriteOff(job, t)
  PROVE  IInv' /\ Begins
<1>a. PICK x : x = Turn(job)
  OBVIOUS
<1>b. PICK status \in Status : status = IF x.at < started THEN "missed" ELSE "held"
  BY DEF Status
<1>1. x \in Item /\ x.rule \in DOMAIN rules
  BY <1>a, TurnInDue DEF WriteOff, Sound
<1>2. /\ ledger' = Put(ledger, Key(x), status)
      /\ task' = [task EXCEPT !["pump"] = Rest(job)] /\ timer' = t
      /\ UNCHANGED <<clock, process, book, pause, heartbeat, history>>
  BY <1>a, <1>b DEF WriteOff
<1>3. task' \in [Jobs -> Job] /\ JobsKept'
  BY <1>2, RestKept, TaskWritten DEF clock, process, Sound, Jobs
<1>4. Key(x) \in (DOMAIN rules) \X Times
  BY <1>1 DEF Key, Item
<1>5. DOMAIN ledger' = DOMAIN ledger \cup {Key(x)}
      /\ IsTable(ledger', (DOMAIN rules) \X Times, Status)
  BY <1>2, <1>4 DEF IInv, TypeOK, IsTable, Put
<1>6. TypeOK'
  BY <1>2, <1>3, <1>5 DEF IInv, TypeOK, clock, process, book, history
<1>7. ClockKept' /\ LedgerKept'
  BY <1>2, <1>5 DEF IInv, ClockKept, LedgerKept, Recorded, Reliable, clock, process, book, history
<1>8. Begins
  BY <1>2, RestKept, NothingBegins DEF IInv, TypeOK, Jobs
<1>9. QED
  BY <1>3, <1>6, <1>7, <1>8 DEF IInv

\* The run behind a catch-up goes by the time the catch-up was given.
LEMMA CatchUpKeeps ==
  ASSUME IInv, NEW job, NEW t \in Times \cup {None},
         Sound("pump", job), job.stage = "late", CatchUp(job, t)
  PROVE  IInv' /\ Begins
<1>1. CASE Left(job) = {}
  <2>1. PICK run : run = [job EXCEPT !.stage = "run", !.due = RunItems(job.now)]
    OBVIOUS
  <2>2. RunItems(job.now) \subseteq Item
        /\ \A x \in RunItems(job.now) : job.now - Grace < x.at /\ x.at <= job.now
    BY RunItemsType DEF Sound, Job, IInv
  <2>3. /\ run \in Job /\ run.stage = "run" /\ run.due = RunItems(job.now)
        /\ run.hand = {} /\ run.now = job.now /\ run.age = job.age
    BY <2>1, <2>2 DEF Sound, Job
  <2>4. Fresh(job) /\ job.age <= MaxJob
    BY DEF Sound, JobKept
  <2>5. JobKept("pump", run)
    BY <2>2, <2>3, <2>4 DEF Sound, JobKept, InWindow, Fresh
  <2>6. Proceed("pump", run, t)
    BY <1>1, <2>1 DEF CatchUp
  <2>7. QED
    BY <2>3, <2>5, <2>6, ProceedKeeps DEF Sound, Jobs
<1>2. CASE Left(job) # {}
  BY <1>2, AbortedKeeps, WriteOffKeeps DEF CatchUp, RuleGone, Sound, Jobs
<1>3. QED
  BY <1>1, <1>2

\* A run by a clock read just now.
LEMMA NewRunSound ==
  ASSUME IInv, phase # "down", NEW j \in Jobs, NEW due,
         due \in {{}, RunItems(Wall)}
  PROVE  /\ Sound(j, NewJob("run", Wall, due, FALSE))
         /\ NewJob("run", Wall, due, FALSE).stage = "run"
<1>1. PICK job : job = NewJob("run", Wall, due, FALSE)
  OBVIOUS
<1>2. Wall \in Times /\ truth = Wall + lag /\ lag \in Nat /\ Wall \in Nat
  BY WallType, Naturals DEF IInv, TypeOK, Times
<1>3. due \subseteq Item /\ \A x \in due : Reliable /\ Wall - Grace < x.at /\ x.at <= Wall
  BY <1>2, RunItemsType DEF IInv
<1>4. job \in Job
  BY <1>1, <1>2, <1>3 DEF NewJob, Job
<1>5. /\ job.stage = "run" /\ job.now = Wall /\ job.due = due /\ job.hand = {} /\ job.age = 0
  BY <1>1 DEF NewJob
<1>6. Reliable => Fresh(job)
  BY <1>2, <1>5, Naturals DEF Fresh, IInv, ClockKept
<1>7. JobKept(j, job)
  BY <1>3, <1>5, <1>6, Naturals DEF JobKept, InWindow
<1>8. QED
  BY <1>1, <1>4, <1>5, <1>7 DEF Sound

-----------------------------------------------------------------------------
(* The engine's own steps.                                                 *)

LEMMA WakeKeeps == IInv /\ Wake => IInv' /\ Begins
<1> SUFFICES ASSUME IInv, Wake PROVE IInv' /\ Begins
  OBVIOUS
<1>1. phase # "down" /\ Proceed("wake", NewJob("run", Wall, RunItems(Wall), FALSE), None)
  BY DEF Wake
<1>2. QED
  BY <1>1, NewRunSound, ProceedKeeps DEF Jobs

LEMMA WakeRefusedKeeps == IInv /\ WakeRefused => IInv' /\ Begins
<1> SUFFICES ASSUME IInv, WakeRefused PROVE IInv' /\ Begins
  OBVIOUS
<1> USE DEF WakeRefused, clock, process, book, history
<1>1. TypeOK'
  BY DEF IInv, TypeOK
<1>2. ClockKept' /\ JobsKept' /\ LedgerKept'
  BY DEF IInv, ClockKept, JobsKept, JobKept, Fresh, InWindow, LedgerKept, Recorded, Reliable
<1>3. Begins
  BY NothingBegins
<1>4. QED
  BY <1>1, <1>2, <1>3 DEF IInv

LEMMA PumpChecksKeeps == IInv /\ PumpChecks => IInv' /\ Begins
<1> SUFFICES ASSUME IInv, PumpChecks PROVE IInv' /\ Begins
  OBVIOUS
<1>1. CASE Check(synced, Wall) = verdict
  <2>1. phase # "down" /\ Proceed("pump", NewJob("run", Wall, RunItems(Wall), FALSE), timer)
    BY <1>1 DEF PumpChecks
  <2>2. timer \in Times \cup {None}
    BY DEF IInv, TypeOK
  <2>3. QED
    BY <2>1, <2>2, NewRunSound, ProceedKeeps DEF Jobs
<1>2. CASE Check(synced, Wall) # verdict
  <2>1. PICK job : job = NewJob("checking", Wall, {}, FALSE)
    OBVIOUS
  <2>2. /\ verdict' = Check(synced, Wall) /\ pause' = Unexpired(Wall)
        /\ task' = [task EXCEPT !["pump"] = job] /\ phase = "serving"
        /\ UNCHANGED <<clock, phase, started, timer, book, ledger, heartbeat, history>>
    BY <1>2, <2>1 DEF PumpChecks
  <2>3. Wall \in Times /\ truth = Wall + lag /\ lag \in Nat /\ Wall \in Nat
    BY WallType, Naturals DEF IInv, TypeOK, Times
  <2>4. job \in Job /\ job.stage = "checking" /\ job.hand = {} /\ job.now = Wall /\ job.age = 0
    BY <2>1, <2>3 DEF NewJob, Job
  <2>5. verdict' \in Verdict /\ (Reliable' => synced)
    BY <2>2, CheckType DEF Reliable, IInv, TypeOK
  <2>6. ClockKept'
    BY <2>2, <2>5 DEF IInv, ClockKept, clock
  <2>7. Reliable' => Fresh(job)
    BY <2>2, <2>3, <2>4, <2>5, Naturals DEF IInv, ClockKept, Fresh
  <2>8. JobsKept'
    <3> SUFFICES ASSUME NEW i \in Jobs PROVE JobKept(i, task[i])'
      BY DEF JobsKept
    <3>1. CASE i = "pump"
      <4>1. task'[i] = job
        BY <2>2, <3>1 DEF IInv, TypeOK
      <4>2. Fresh(job)' <=> Fresh(job)
        BY <2>2 DEF Fresh, clock
      <4>3. QED
        BY <2>2, <2>4, <2>7, <3>1, <4>1, <4>2, Naturals DEF JobKept, Fresh, InWindow, clock
    <3>2. CASE i = "wake"
      <4>1. task'[i] = task[i]
        BY <2>2, <3>2 DEF IInv, TypeOK
      <4>2. JobKept(i, task[i]) /\ truth' = truth /\ phase' = phase
        BY <2>2 DEF IInv, JobsKept, clock
      <4>3. QED
        BY <3>2, <4>1, <4>2 DEF JobKept, Fresh, InWindow
    <3>3. QED
      BY <3>1, <3>2 DEF Jobs
  <2>9. TypeOK'
    BY <2>2, <2>4, <2>5, UnexpiredType DEF IInv, TypeOK, clock, book, history
  <2>10. LedgerKept'
    BY <2>2 DEF IInv, LedgerKept, Recorded, clock, book, history
  <2>11. Begins
    BY <2>2, <2>4, NothingBegins DEF IInv, TypeOK
  <2>12. QED
    BY <2>6, <2>8, <2>9, <2>10, <2>11 DEF IInv
<1>3. QED
  BY <1>1, <1>2

\* A catch-up by the time `now' that was read `age' units ago.
LEMMA LateSound ==
  ASSUME IInv, NEW now \in Times, NEW age \in Nat, phase # "down", age <= MaxJob,
         now + age <= truth, truth <= now + age + Behind,
         NEW job, job = [stage |-> "late", now |-> now, due |-> LateItems(now), hand |-> {},
                         catching |-> TRUE, age |-> age]
  PROVE  Sound("pump", job) /\ job.stage = "late"
<1>1. LateItems(now) \subseteq Item
  BY LateItemsType DEF IInv
<1>2. /\ job \in Job /\ job.stage = "late" /\ job.hand = {} /\ job.now = now /\ job.age = age
  BY <1>1 DEF Job
<1>3. QED
  BY <1>2 DEF Sound, JobKept, Fresh

LEMMA PumpAnnouncedKeeps == IInv /\ PumpAnnounced => IInv' /\ Begins
<1> SUFFICES ASSUME IInv, PumpAnnounced PROVE IInv' /\ Begins
  OBVIOUS
<1>1. PICK job \in Job : job = task["pump"]
  BY DEF IInv, TypeOK, Jobs
<1>2. JobKept("pump", job) /\ job.stage = "checking"
  BY <1>1 DEF PumpAnnounced, IInv, JobsKept, Jobs
<1>3. phase # "down" /\ job.age <= MaxJob /\ job.now \in Times /\ job.age \in Nat
  BY <1>2 DEF JobKept, Job
<1>4. timer \in Times \cup {None}
  BY DEF IInv, TypeOK
<1>5. CASE Reliable
  <2>1. PICK late : late = [NewJob("late", job.now, LateItems(job.now), TRUE)
                              EXCEPT !.age = job.age]
    OBVIOUS
  <2>2. CatchUp(late, timer)
    BY <1>1, <1>5, <2>1 DEF PumpAnnounced
  <2>3. late = [stage |-> "late", now |-> job.now, due |-> LateItems(job.now), hand |-> {},
                catching |-> TRUE, age |-> job.age]
    BY <2>1 DEF NewJob
  <2>4. Fresh(job)
    BY <1>2, <1>5 DEF JobKept
  <2>5. Sound("pump", late) /\ late.stage = "late"
    BY <1>3, <2>3, <2>4, LateSound DEF Fresh
  <2>6. QED
    BY <1>4, <2>2, <2>5, CatchUpKeeps
<1>6. CASE ~Reliable
  <2>1. Proceed("pump", NewJob("run", Wall, {}, FALSE), None)
    BY <1>6 DEF PumpAnnounced
  <2>2. QED
    BY <1>3, <2>1, NewRunSound, ProceedKeeps DEF Jobs
<1>7. QED
  BY <1>5, <1>6

LEMMA PumpRunsKeeps == IInv /\ PumpRuns => IInv' /\ Begins
<1> SUFFICES ASSUME IInv, PumpRuns PROVE IInv' /\ Begins
  OBVIOUS
<1>1. Proceed("pump", NewJob("run", Wall, RunItems(Wall), FALSE), timer)
  BY DEF PumpRuns
<1>2. phase # "down" /\ timer \in Times \cup {None}
  BY DEF PumpRuns, IInv, TypeOK, JobsKept, JobKept, Jobs
<1>3. QED
  BY <1>1, <1>2, NewRunSound, ProceedKeeps DEF Jobs

LEMMA ResumeKeeps ==
  ASSUME IInv, NEW j \in Jobs, Resume(j)
  PROVE  IInv' /\ Begins
<1>1. PICK job \in Job : job = task[j]
  BY DEF IInv, TypeOK
<1>2. JobKept(j, job) /\ job.hand = {} /\ timer \in Times \cup {None}
  BY <1>1 DEF Resume, IInv, JobsKept, TypeOK
<1>3. CASE job.stage = "run" /\ Proceed(j, job, timer)
  BY <1>2, <1>3, ProceedKeeps DEF Sound, JobKept
<1>4. CASE job.stage = "late" /\ CatchUp(job, timer)
  <2>1. j = "pump"
    BY <1>2, <1>4 DEF JobKept, Jobs
  <2>2. QED
    BY <1>2, <1>4, <2>1, CatchUpKeeps DEF Sound, JobKept
<1>5. QED
  BY <1>1, <1>3, <1>4 DEF Resume

LEMMA CommandedKeeps ==
  ASSUME IInv, NEW j \in Jobs, Commanded(j)
  PROVE  IInv' /\ Begins
<1>1. PICK job \in Job : job = task[j]
  BY DEF IInv, TypeOK
<1>2. PICK new : new = [job EXCEPT !.hand = {}]
  OBVIOUS
<1>3. new \in Job /\ new.hand = {} /\ new.stage = job.stage /\ new.due = job.due
      /\ new.now = job.now /\ new.age = job.age
  BY <1>2 DEF Job
<1>4. JobKept(j, job) /\ job.hand # {}
  BY <1>1 DEF Commanded, IInv, JobsKept
<1>5. JobKept(j, new) /\ phase # "down"
  BY <1>3, <1>4 DEF JobKept, Fresh, InWindow
<1>6. /\ task' = [task EXCEPT ![j] = new]
      /\ UNCHANGED <<clock, process, timer, book, pause, ledger, heartbeat, history>>
  BY <1>1, <1>2 DEF Commanded, IInv, TypeOK
<1>7. task' \in [Jobs -> Job] /\ JobsKept'
  BY <1>3, <1>5, <1>6, TaskWritten DEF clock, process
<1>8. TypeOK' /\ ClockKept' /\ LedgerKept'
  BY <1>6, <1>7 DEF IInv, TypeOK, ClockKept, LedgerKept, Recorded, Reliable,
                    clock, process, book, history
<1>9. Begins
  BY <1>3, <1>6, NothingBegins DEF IInv, TypeOK
<1>10. QED
  BY <1>7, <1>8, <1>9 DEF IInv

LEMMA CommandRaisesKeeps ==
  ASSUME IInv, NEW j \in Jobs, CommandRaises(j)
  PROVE  IInv' /\ Begins
<1>1. timer \in Times \cup {None} /\ phase # "down" /\ Aborted(j, task[j], timer)
  BY DEF CommandRaises, IInv, TypeOK
<1>2. QED
  BY <1>1, AbortedKeeps

LEMMA StartUpKeeps == IInv /\ StartUp => IInv' /\ Begins
<1> SUFFICES ASSUME IInv, StartUp PROVE IInv' /\ Begins
  OBVIOUS
<1>1. phase = "starting" /\ timer \in Times \cup {None}
  BY DEF StartUp, IInv, TypeOK
<1>2. CASE Reliable
  <2>1. Wall \in Times /\ truth = Wall + lag /\ lag \in Nat /\ Wall \in Nat /\ lag <= Behind
    BY <1>1, <1>2, WallType, Naturals DEF IInv, TypeOK, Times, ClockKept
  <2>2. PICK late : late = NewJob("late", Wall, LateItems(Wall), TRUE)
    OBVIOUS
  <2>3. late = [stage |-> "late", now |-> Wall, due |-> LateItems(Wall), hand |-> {},
                catching |-> TRUE, age |-> 0]
    BY <2>2 DEF NewJob
  <2>4. CatchUp(late, timer)
    BY <1>2, <2>2 DEF StartUp
  <2>5. Wall + 0 <= truth /\ truth <= Wall + 0 + Behind /\ 0 \in Nat /\ 0 <= MaxJob
    BY <2>1, Naturals
  <2>6. Sound("pump", late) /\ late.stage = "late"
    BY <1>1, <2>1, <2>3, <2>5, LateSound
  <2>7. QED
    BY <1>1, <2>4, <2>6, CatchUpKeeps
<1>3. CASE ~Reliable
  <2>1. /\ phase' = "serving"
        /\ UNCHANGED <<clock, verdict, started, timer, book, pause, ledger,
                       heartbeat, task, history>>
    BY <1>3 DEF StartUp
  <2>2. TypeOK' /\ ClockKept' /\ LedgerKept'
    BY <1>1, <2>1 DEF IInv, TypeOK, ClockKept, LedgerKept, Recorded, Reliable,
                      clock, book, history
  <2>3. JobsKept'
    BY <1>1, <2>1 DEF IInv, JobsKept, JobKept, Fresh, InWindow, Reliable, clock
  <2>4. Begins
    BY <2>1, NothingBegins
  <2>5. QED
    BY <2>2, <2>3, <2>4 DEF IInv
<1>4. QED
  BY <1>2, <1>3

-----------------------------------------------------------------------------
(* What people ask for.                                                    *)

\* A request may let go of records only together with the rule they are of.
LEMMA AskedKeeps ==
  ASSUME IInv, Asked,
         IsTable(rules', issued', Rule), issued' \subseteq Rules,
         pause' \in Times \cup {None, Forever},
         IsTable(ledger', (DOMAIN rules') \X Times, Status),
         \A r \in issued \ DOMAIN rules : r \in issued' \ DOMAIN rules',
         \A k \in DOMAIN ledger : k \in DOMAIN ledger' \/ k[1] \in issued' \ DOMAIN rules'
  PROVE  IInv' /\ Begins
<1>1. /\ requests' = requests + 1
      /\ UNCHANGED <<clock, process, heartbeat, task, carried, outage>>
      /\ timer' = Rescheduled(rules', Wall)
  BY DEF Asked
<1>2. timer' \in Times \cup {None}
  <2>1. PICK rs : rs = rules'
    OBVIOUS
  <2>2. IsTable(rs, issued', Rule)
    BY <2>1
  <2>3. Rescheduled(rs, Wall) \in Times \cup {None}
    BY <2>2, RescheduledType
  <2>4. QED
    BY <1>1, <2>1, <2>3
<1>3. requests' \in Nat
  BY <1>1 DEF IInv, TypeOK
<1>4. TypeOK'
  BY <1>1, <1>2, <1>3 DEF IInv, TypeOK, clock, process
<1>5. ClockKept' /\ JobsKept'
  BY <1>1 DEF IInv, ClockKept, JobsKept, JobKept, Fresh, InWindow, Reliable, clock, process
<1>6. LedgerKept'
  BY <1>1 DEF IInv, LedgerKept, Recorded, clock
<1>7. Begins
  BY <1>1, NothingBegins
<1>8. QED
  BY <1>4, <1>5, <1>6, <1>7 DEF IInv

\* An edit of a rule leaves the records alone.
LEMMA EditKeeps ==
  ASSUME IInv, Asked, NEW r \in DOMAIN rules, NEW rule \in Rule, Touch(r, rule),
         UNCHANGED <<issued, pause, ledger>>
  PROVE  IInv' /\ Begins
<1>1. DOMAIN rules' = DOMAIN rules /\ IsTable(rules', issued, Rule)
  BY TouchType DEF IInv
<1>2. QED
  BY <1>1, AskedKeeps DEF IInv, TypeOK

LEMMA RuleType ==
  ASSUME IInv, NEW r \in DOMAIN rules
  PROVE  rules[r] \in Rule
BY DEF IInv, TypeOK, IsTable

LEMMA CreateRuleKeeps ==
  ASSUME IInv, NEW r \in Rules, NEW d \in Drafts, CreateRule(r, d)
  PROVE  IInv' /\ Begins
<1>1. d \in Draft
  BY AutomationAssumption DEF AutomationAssumption
<1>2. PICK rule \in Rule : rules' = Put(rules, r, rule)
  <2>1. [enabled |-> d.enabled, plan |-> d.plan, reach |-> d.reach,
         skip |-> None, created |-> Wall, touched |-> Wall] \in Rule
    BY <1>1, WallType DEF Draft, Rule, IInv
  <2>2. QED
    BY <2>1 DEF CreateRule
<1>3. r \notin issued /\ issued' = issued \cup {r} /\ UNCHANGED <<pause, ledger>> /\ Asked
  BY DEF CreateRule
<1>4. DOMAIN rules' = DOMAIN rules \cup {r} /\ IsTable(rules', issued', Rule)
  BY <1>2, <1>3 DEF IInv, TypeOK, IsTable, Put
<1>5. IsTable(ledger', (DOMAIN rules') \X Times, Status)
  BY <1>3, <1>4 DEF IInv, TypeOK, IsTable
<1>6. QED
  BY <1>3, <1>4, <1>5, AskedKeeps DEF IInv, TypeOK

LEMMA ReplaceRuleKeeps ==
  ASSUME IInv, NEW r \in Rules, NEW d \in Drafts, ReplaceRule(r, d)
  PROVE  IInv' /\ Begins
<1>1. d \in Draft /\ r \in DOMAIN rules
  BY AutomationAssumption DEF AutomationAssumption, ReplaceRule
<1>2. PICK rule : rule = [rules[r] EXCEPT !.enabled = d.enabled, !.plan = d.plan,
                                          !.reach = d.reach]
  OBVIOUS
<1>3. rule \in Rule /\ [rule EXCEPT !.skip = None] \in Rule
  BY <1>1, <1>2, RuleType DEF Draft, Rule
<1>4. Touch(r, IF NextFiring(rule, Wall) = rule.skip THEN rule ELSE [rule EXCEPT !.skip = None])
      /\ UNCHANGED <<issued, pause, ledger>> /\ Asked
  BY <1>2 DEF ReplaceRule
<1>5. QED
  BY <1>1, <1>3, <1>4, EditKeeps

LEMMA RuleEditsKeep ==
  ASSUME IInv, NEW r \in Rules,
         \/ \E enabled \in BOOLEAN : SetEnabled(r, enabled)
         \/ SkipNext(r) \/ UnskipNext(r) \/ DropTargets(r)
  PROVE  IInv' /\ Begins
<1>1. CASE \E enabled \in BOOLEAN : SetEnabled(r, enabled)
  <2>1. PICK enabled \in BOOLEAN : SetEnabled(r, enabled)
    BY <1>1
  <2>2. r \in DOMAIN rules /\ Asked /\ UNCHANGED <<issued, pause, ledger>>
    BY <2>1 DEF SetEnabled
  <2>3. [rules[r] EXCEPT !.enabled = enabled] \in Rule
    BY <2>2, RuleType DEF Rule
  <2>4. QED
    BY <2>1, <2>2, <2>3, EditKeeps DEF SetEnabled
<1>2. CASE SkipNext(r)
  <2>1. r \in DOMAIN rules /\ Asked /\ UNCHANGED <<issued, pause, ledger>>
    BY <1>2 DEF SkipNext
  <2>2. PICK next \in Times \cup {None} : next = NextFiring(rules[r], Wall)
    BY <2>1, RuleType, NextFiringType
  <2>3. [rules[r] EXCEPT !.skip = next] \in Rule
    BY <2>1, RuleType DEF Rule
  <2>4. QED
    BY <1>2, <2>1, <2>2, <2>3, EditKeeps DEF SkipNext
<1>3. CASE UnskipNext(r)
  <2>1. r \in DOMAIN rules /\ Asked /\ UNCHANGED <<issued, pause, ledger>>
    BY <1>3 DEF UnskipNext
  <2>2. [rules[r] EXCEPT !.skip = None] \in Rule
    BY <2>1, RuleType DEF Rule
  <2>3. QED
    BY <1>3, <2>1, <2>2, EditKeeps DEF UnskipNext
<1>4. CASE DropTargets(r)
  <2>1. r \in DOMAIN rules /\ Asked /\ UNCHANGED <<issued, pause, ledger>>
    BY <1>4 DEF DropTargets
  <2>2. [rules[r] EXCEPT !.reach = FALSE] \in Rule
    BY <2>1, RuleType DEF Rule
  <2>3. QED
    BY <1>4, <2>1, <2>2, EditKeeps DEF DropTargets
<1>5. QED
  BY <1>1, <1>2, <1>3, <1>4

LEMMA DeleteRuleKeeps ==
  ASSUME IInv, NEW r \in Rules, DeleteRule(r)
  PROVE  IInv' /\ Begins
<1>1. /\ r \in DOMAIN rules /\ rules' = Drop(rules, r)
      /\ ledger' = [k \in {x \in DOMAIN ledger : x[1] # r} |-> ledger[k]]
      /\ UNCHANGED <<issued, pause>> /\ Asked
  BY DEF DeleteRule
<1>2. DOMAIN rules' = DOMAIN rules \ {r} /\ IsTable(rules', issued, Rule)
  BY <1>1 DEF IInv, TypeOK, IsTable, Drop
<1>3. /\ DOMAIN ledger' = {x \in DOMAIN ledger : x[1] # r}
      /\ ledger' \in [DOMAIN ledger' -> Status]
  BY <1>1 DEF IInv, TypeOK, IsTable
<1>4. DOMAIN ledger' \subseteq (DOMAIN rules') \X Times
  BY <1>2, <1>3 DEF IInv, TypeOK, IsTable
<1>5. r \in issued
  BY <1>1 DEF IInv, TypeOK, IsTable
<1>6. QED
  BY <1>1, <1>2, <1>3, <1>4, <1>5, AskedKeeps DEF IInv, TypeOK, IsTable

LEMMA PausingKeeps == IInv /\ Pausing => IInv' /\ Begins
<1> SUFFICES ASSUME IInv, Pausing PROVE IInv' /\ Begins
  OBVIOUS
<1>1. pause' \in Times \cup {None, Forever} /\ UNCHANGED <<rules, issued, ledger>> /\ Asked
  BY DEF Pausing, ResumeRules, PauseUntil
<1>2. QED
  BY <1>1, AskedKeeps DEF IInv, TypeOK

-----------------------------------------------------------------------------
(* The machine.                                                            *)

LEMMA CrashKeeps == IInv /\ Crash => IInv' /\ Begins
<1> SUFFICES ASSUME IInv, Crash PROVE IInv' /\ Begins
  OBVIOUS
<1> USE DEF Crash, clock, book
<1>1. task' \in [Jobs -> Job] /\ \A j \in Jobs : task'[j] = IdleJob
  BY IdleJobType
<1>2. outage' \in [from : Times, to : Times]
  BY Naturals DEF IInv, TypeOK, Times
<1>3. TypeOK'
  BY <1>1, <1>2, Naturals DEF IInv, TypeOK, Verdict
<1>4. ClockKept' /\ LedgerKept'
  BY DEF IInv, ClockKept, LedgerKept, Recorded
<1>5. JobsKept'
  BY <1>1 DEF JobsKept, JobKept, IdleJob
<1>6. Begins
  BY <1>1, NothingBegins DEF IdleJob
<1>7. QED
  BY <1>3, <1>4, <1>5, <1>6 DEF IInv

LEMMA BootKeeps ==
  ASSUME IInv, NEW late \in 0..MaxLag, NEW ok \in BOOLEAN, Boot(late, ok)
  PROVE  IInv' /\ Begins
<1>1. late \in Nat /\ late <= truth /\ truth \in Times /\ truth - late \in Times
  BY Naturals DEF Boot, IInv, TypeOK, Times
<1>2. /\ phase = "down" /\ phase' = "starting" /\ lag' = late /\ synced' = ok
      /\ started' = truth - late /\ verdict' = Check(ok, truth - late)
      /\ task' = [task EXCEPT !["pump"].age = 1]
      /\ outage' = [outage EXCEPT !.to = truth]
      /\ UNCHANGED <<truth, timer, book, pause, ledger, heartbeat, requests, carried>>
  BY DEF Boot
<1>3. \A j \in Jobs : task[j] \in Job /\ task[j].stage = "idle" /\ task[j].hand = {}
  BY <1>2 DEF IInv, TypeOK, JobsKept, JobKept
<1>4. /\ task' \in [Jobs -> Job]
      /\ \A j \in Jobs : task'[j].stage = "idle" /\ task'[j].hand = {}
  <2>1. PICK new : new = [task["pump"] EXCEPT !.age = 1]
    OBVIOUS
  <2>2. new \in Job /\ new.stage = "idle" /\ new.hand = {}
    BY <1>3, <2>1 DEF Job, Jobs
  <2>3. task' = [task EXCEPT !["pump"] = new]
    BY <1>2, <2>1
  <2>4. QED
    BY <1>3, <2>2, <2>3 DEF IInv, TypeOK
<1>5. outage' \in [from : Times, to : Times]
  BY <1>1, <1>2 DEF IInv, TypeOK
<1>6. verdict' \in Verdict /\ (Reliable' => ok)
  BY <1>2, CheckType DEF Reliable
<1>7. TypeOK'
  BY <1>1, <1>2, <1>4, <1>5, <1>6 DEF IInv, TypeOK, book
<1>8. ClockKept'
  <2>1. KernelHonest /\ ok => late = 0
    BY DEF Boot
  <2>2. late <= MaxLag /\ (ok => late <= Behind)
    BY <1>1, <2>1, Naturals DEF Behind
  <2>3. QED
    BY <1>2, <1>6, <2>2 DEF ClockKept
<1>9. JobsKept'
  BY <1>4 DEF JobsKept, JobKept
<1>10. LedgerKept'
  BY <1>2 DEF IInv, LedgerKept, Recorded, book
<1>11. Begins
  BY <1>4, NothingBegins
<1>12. QED
  BY <1>7, <1>8, <1>9, <1>10, <1>11 DEF IInv

LEMMA SyncKeeps == IInv /\ (Sync \/ Unsync) => IInv' /\ Begins
<1> SUFFICES ASSUME IInv, Sync \/ Unsync PROVE IInv' /\ Begins
  OBVIOUS
<1>1. /\ synced' \in BOOLEAN /\ lag' \in {0, lag} /\ (synced' => lag' = 0 \/ synced)
      /\ phase # "down"
      /\ UNCHANGED <<truth, process, timer, book, pause, ledger, heartbeat, task, history>>
  BY DEF Sync, Unsync
<1> USE DEF process, book, history
<1>2. TypeOK'
  BY <1>1, Naturals DEF IInv, TypeOK, Times
<1>3. ClockKept'
  BY <1>1, Naturals DEF IInv, ClockKept, Reliable
<1>4. JobsKept' /\ LedgerKept'
  BY <1>1 DEF IInv, JobsKept, JobKept, Fresh, InWindow, LedgerKept, Recorded, Reliable
<1>5. Begins
  BY <1>1, NothingBegins
<1>6. QED
  BY <1>2, <1>3, <1>4, <1>5 DEF IInv

LEMMA PassKeeps == IInv /\ Pass => IInv' /\ Begins
<1> SUFFICES ASSUME IInv, Pass PROVE IInv' /\ Begins
  OBVIOUS
<1>1. /\ truth < MaxTime /\ truth' = truth + 1 /\ truth \in Nat
      /\ UNCHANGED <<lag, synced, process, timer, book, pause, ledger, heartbeat, history>>
  BY Naturals DEF Pass, IInv, TypeOK
<1>2. ASSUME NEW j \in Jobs
      PROVE  /\ task'[j] \in Job /\ task'[j].hand = task[j].hand
             /\ JobKept(j, task[j])'
  <2>1. PICK job \in Job : job = task[j]
    BY DEF IInv, TypeOK
  <2>2. PICK new : new = [job EXCEPT !.age = @ + 1]
    OBVIOUS
  <2>3. /\ new \in Job /\ new.stage = job.stage /\ new.due = job.due /\ new.hand = job.hand
        /\ new.now = job.now /\ new.age = job.age + 1 /\ job.age \in Nat /\ job.now \in Nat
    BY <2>2, Naturals DEF Job
  <2>4. JobKept(j, job) /\ (job.stage # "idle" => job.age < MaxJob)
    BY <2>1 DEF IInv, JobsKept, Pass
  <2>5. task'[j] = IF phase # "down" /\ (j = "pump" \/ job.stage # "idle") THEN new ELSE job
    BY <2>1, <2>2 DEF Pass
  <2>6. CASE job.stage = "idle"
    BY <1>1, <2>1, <2>3, <2>4, <2>5, <2>6 DEF JobKept
  <2>7. CASE job.stage # "idle"
    <3>1. task'[j] = new
      BY <2>4, <2>5, <2>7 DEF JobKept
    <3>2. new.age <= MaxJob
      BY <2>3, <2>4, <2>7, Naturals
    <3>3. Fresh(job) => new.now + new.age <= truth' /\ truth' <= new.now + new.age + Behind
      BY <1>1, <2>3, Naturals DEF Fresh
    <3>4. QED
      BY <1>1, <2>1, <2>3, <2>4, <2>7, <3>1, <3>2, <3>3
         DEF JobKept, Fresh, InWindow, Reliable, process
  <2>8. QED
    BY <2>6, <2>7
<1>3. task' \in [Jobs -> Job]
  BY <1>2 DEF Pass
<1>4. TypeOK'
  BY <1>1, <1>3, Naturals DEF IInv, TypeOK, Times, process, book, history
<1>5. ClockKept' /\ JobsKept'
  BY <1>1, <1>2 DEF IInv, ClockKept, JobsKept, Reliable, process
<1>6. LedgerKept'
  <2>1. \A k \in carried : k[2] \in Nat
    BY Naturals DEF IInv, TypeOK
  <2>2. QED
    BY <1>1, <2>1, Naturals DEF IInv, LedgerKept, Recorded, book, history
<1>7. Begins
  BY <1>2, NothingBegins
<1>8. QED
  BY <1>4, <1>5, <1>6, <1>7 DEF IInv

-----------------------------------------------------------------------------

LEMMA InitKeeps == Init => IInv
<1> SUFFICES ASSUME Init PROVE IInv
  OBVIOUS
<1> USE DEF Init
<1>1. IsTable(rules, issued, Rule) /\ issued \subseteq Rules
  BY AutomationAssumption DEF AutomationAssumption, IsTable
<1>2. task \in [Jobs -> Job] /\ \A j \in Jobs : task[j] = IdleJob
  BY IdleJobType
<1>3. heartbeat \in Times \cup {None}
  BY AutomationAssumption, Naturals DEF AutomationAssumption
<1>4. IsTable(ledger, (DOMAIN rules) \X Times, Status)
  BY DEF IsTable, EmptyTable
<1>5. outage \in [from : Times, to : Times]
  BY Naturals DEF Times
<1>6. TypeOK
  <2>1. truth \in Times /\ lag \in 0..truth /\ started \in Times
    BY Naturals
  <2>2. pause \in Times \cup {None, Forever} /\ timer \in Times \cup {None}
        /\ verdict \in Verdict /\ requests \in Nat
    BY DEF Verdict
  <2> HIDE DEF Init
  <2>3. synced \in BOOLEAN /\ phase \in {"down", "starting", "serving"}
        /\ carried \subseteq Rules \X Times
    BY DEF Init
  <2>4. QED
    BY <1>1, <1>2, <1>3, <1>4, <1>5, <2>1, <2>2, <2>3 DEF TypeOK
<1>7. ClockKept /\ LedgerKept
  BY Naturals DEF ClockKept, LedgerKept
<1>8. JobsKept
  BY <1>2 DEF JobsKept, JobKept, IdleJob
<1>9. QED
  BY <1>6, <1>7, <1>8 DEF IInv

LEMMA NextKeeps == IInv /\ [Next]_vars => IInv' /\ Begins
<1> SUFFICES ASSUME IInv, [Next]_vars PROVE IInv' /\ Begins
  OBVIOUS
<1>1. CASE Engine
  BY <1>1, WakeKeeps, WakeRefusedKeeps, PumpChecksKeeps, PumpAnnouncedKeeps, PumpRunsKeeps,
     StartUpKeeps, ResumeKeeps, CommandedKeeps, CommandRaisesKeeps DEF Engine, Working
<1>2. CASE People
  BY <1>2, CreateRuleKeeps, ReplaceRuleKeeps, RuleEditsKeep, DeleteRuleKeeps, PausingKeeps
     DEF People, Editing
<1>3. CASE Machine
  BY <1>3, CrashKeeps, BootKeeps, SyncKeeps, PassKeeps DEF Machine
<1>4. CASE UNCHANGED vars
  <2> USE <1>4 DEF vars, clock, process, book, history
  <2>1. TypeOK' /\ ClockKept' /\ JobsKept' /\ LedgerKept'
    BY DEF IInv, TypeOK, ClockKept, JobsKept, JobKept, Fresh, InWindow, LedgerKept,
           Recorded, Reliable
  <2>2. Begins
    BY NothingBegins
  <2>3. QED
    BY <2>1, <2>2 DEF IInv
<1>5. QED
  BY <1>1, <1>2, <1>3, <1>4 DEF Next

LEMMA Invariance == Spec => []IInv
<1>1. IInv /\ [Next]_vars => IInv'
  BY NextKeeps
<1>2. QED
  BY InitKeeps, <1>1, PTL DEF Spec

\* The tables of the database, the lists of both tasks and the timer keep their
\* types, whatever the rules, the plans and the clock.
THEOREM TypeCorrect == Spec => []TypeOK
<1>1. IInv => TypeOK
  BY DEF IInv
<1>2. QED
  BY Invariance, <1>1, PTL

\* "whatever happens next, this instant is never fired twice" (engine.py:187),
\* if a clock the kernel calls right is right or, whatever the kernel says, no
\* clock is behind by more than what the purge leaves over.
THEOREM CarriedOutOnce ==
  ASSUME KernelHonest \/ Grace + MaxJob + MaxLag <= Retention + 1
  PROVE  Spec => NeverTwice
<1>1. Grace + MaxJob + Behind <= Retention + 1
  BY Naturals DEF Behind
<1>2. ASSUME IInv, Begins PROVE \A x \in Begun : Key(x) \notin carried
  <2> SUFFICES ASSUME NEW x \in Begun, Key(x) \in carried PROVE FALSE
    OBVIOUS
  <2>1. /\ x.rule \in DOMAIN rules /\ ~Recorded(Key(x)) /\ x \in Item
        /\ truth < x.at + Grace + MaxJob + Behind
    BY <1>2 DEF Begins
  <2>2. Key(x)[1] = x.rule /\ Key(x)[2] = x.at
    BY DEF Key
  <2>3. x.at + Retention < truth
    BY <1>2, <2>1, <2>2 DEF IInv, LedgerKept
  <2>4. x.at \in Nat /\ truth \in Nat
    BY <1>2, <2>1, Naturals DEF IInv, TypeOK, Item
  <2>5. QED
    BY <1>1, <2>1, <2>3, <2>4, Naturals
<1>3. IInv /\ [Next]_vars => [\A x \in Begun : Key(x) \notin carried]_vars
  BY <1>2, NextKeeps
<1>4. QED
  BY Invariance, <1>3, PTL DEF Spec, NeverTwice

\* Nothing is carried out early, and nothing later than the grace and one run,
\* by the true time: under a kernel that knows when its clock is right.
THEOREM CarriedOutInTime ==
  ASSUME KernelHonest
  PROVE  Spec => InTime
<1>1. ASSUME IInv, Begins
      PROVE  \A x \in Begun : x.at <= truth /\ truth < x.at + Grace + MaxJob
  <2> SUFFICES ASSUME NEW x \in Begun
               PROVE  x.at <= truth /\ truth < x.at + Grace + MaxJob
    OBVIOUS
  <2>1. x \in Item /\ x.at <= truth /\ truth < x.at + Grace + MaxJob + Behind
    BY <1>1 DEF Begins
  <2>2. Behind = 0 /\ x.at \in Nat
    BY <2>1, Naturals DEF Behind, Item
  <2>3. QED
    BY <2>1, <2>2, Naturals
<1>2. IInv /\ [Next]_vars
        => [\A x \in Begun : x.at <= truth /\ truth < x.at + Grace + MaxJob]_vars
  BY <1>1, NextKeeps
<1>3. QED
  BY Invariance, <1>2, PTL DEF Spec, InTime

-----------------------------------------------------------------------------
(* Skips.  A list holds copies of rules; a skip set since it was made is   *)
(* of an instant that is not on it.                                        *)

ListKept(job) ==
  /\ job.now <= Wall
  /\ \A x \in job.due :
       /\ x.at <= job.now
       /\ x.rule \in DOMAIN rules /\ rules[x.rule].skip = x.at => x.skip = x.at

ListsKept == \A j \in Jobs : task[j].stage = "idle" \/ ListKept(task[j])

\* The lists the next state has are good by the rules of this one.
ListsStay == \A j \in Jobs : task'[j].stage = "idle" \/ ListKept(task'[j])

\* Only an instant to come can become the one that is skipped.
SkipAhead(r) ==
  \/ rules'[r].skip = None
  \/ r \in DOMAIN rules /\ rules'[r].skip = rules[r].skip
  \/ rules'[r].skip > Wall

SkipsAhead == Wall <= Wall' /\ \A r \in DOMAIN rules' : SkipAhead(r)

NothingSkipped == \A x \in Begun : rules[x.rule].skip # x.at

LEMMA ListsCarryOver ==
  ASSUME IInv, IInv', ListsStay, SkipsAhead
  PROVE  ListsKept'
<1> SUFFICES ASSUME NEW j \in Jobs, task'[j].stage # "idle" PROVE ListKept(task[j])'
  BY DEF ListsKept
<1>1. PICK job \in Job : job = task'[j]
  BY DEF IInv, TypeOK
<1>2. ListKept(job)
  BY <1>1 DEF ListsStay
<1>3. Wall \in Nat /\ Wall' \in Nat /\ job.now \in Nat /\ Wall <= Wall'
  <2>1. Wall \in Nat
    BY WallType, Naturals DEF IInv
  <2>2. Wall' \in Nat
    <3>1. truth' \in Times /\ lag' \in 0..truth'
      BY DEF IInv, TypeOK
    <3>2. truth' \in Nat
      BY <3>1, Naturals
    <3>3. truth' - lag' \in Nat
      <4>1. \A a \in Nat : \A b \in 0..a : a - b \in Nat
        OBVIOUS
      <4>2. QED
        BY <3>1, <3>2, <4>1
    <3>4. Wall' = truth' - lag'
      BY DEF Wall
    <3>5. QED
      BY <3>3, <3>4
  <2>3. job.now \in Nat
    BY Naturals DEF Job
  <2>4. QED
    BY <2>1, <2>2, <2>3 DEF SkipsAhead, SkipAhead
<1>4. ASSUME NEW x \in job.due, x.rule \in DOMAIN rules', rules'[x.rule].skip = x.at
      PROVE  x.skip = x.at
  <2>1. x.at \in Nat /\ x.at <= Wall
    <3>1. x \in Item
      BY DEF Job
    <3>2. x.at \in Nat
      BY <3>1, Naturals DEF Item
    <3>3. x.at <= job.now /\ job.now <= Wall
      BY <1>2 DEF ListKept
    <3>4. QED
      BY <1>3, <3>2, <3>3
  <2>2. x.rule \in DOMAIN rules /\ rules[x.rule].skip = x.at
    BY <1>3, <1>4, <2>1 DEF SkipsAhead, SkipAhead, None
  <2>3. QED
    BY <1>2, <2>2 DEF ListKept
<1>5. job.now <= Wall'
  BY <1>2, <1>3 DEF ListKept
<1>6. QED
  BY <1>1, <1>2, <1>4, <1>5 DEF ListKept

\* Where no rule changes and no clock does, no skip does.
LEMMA RulesStay ==
  ASSUME IInv, UNCHANGED <<truth, lag, rules>>
  PROVE  SkipsAhead
<1>1. Wall \in Nat /\ Wall' = Wall
  BY WallType, Naturals DEF IInv, Wall
<1>2. QED
  BY <1>1 DEF SkipsAhead, SkipAhead

LEMMA ListWritten ==
  ASSUME IInv, ListsKept, NEW j \in Jobs, NEW new,
         new.stage = "idle" \/ ListKept(new), task' = [task EXCEPT ![j] = new]
  PROVE  ListsStay
<1>1. \A i \in Jobs : task'[i] = IF i = j THEN new ELSE task[i]
  BY DEF IInv, TypeOK
<1>2. QED
  BY <1>1 DEF ListsStay, ListsKept

LEMMA NoneSkipped ==
  ASSUME \A j \in Jobs : task'[j].hand \subseteq task[j].hand
  PROVE  NothingSkipped
BY DEF NothingSkipped, Begun

\* What is listed now is listed with the skips of now.
LEMMA DueListed ==
  ASSUME TypeOK, NEW from \in Int, NEW to \in Int, NEW x \in Due(from, to)
  PROVE  x.at <= to /\ x.skip = rules[x.rule].skip
<1>1. PICK r \in DOMAIN rules : \E p \in rules[r].plan :
        /\ from < p /\ p <= to
        /\ x = [at |-> p, rule |-> r, created |-> rules[r].created, skip |-> rules[r].skip]
  BY DEF Due
<1>2. QED
  BY <1>1

LEMMA NewListKept ==
  ASSUME IInv, NEW job \in Job, job.now <= Wall,
         job.due \in {{}, RunItems(job.now), LateItems(job.now)}
  PROVE  ListKept(job)
<1>1. heartbeat \in Int /\ job.now \in Nat
  <2>1. heartbeat \in Times \cup {None}
    BY DEF IInv, TypeOK
  <2>2. job.now \in Times
    BY DEF Job
  <2>3. job.now \in Nat
    BY <2>2, Naturals
  <2>4. heartbeat \in Nat \/ heartbeat = -1
    BY <2>1, Naturals DEF None
  <2>5. QED
    BY <2>3, <2>4
<1>2. job.now - Grace \in Int /\ job.now - CatchUpLimit \in Int /\ job.now - Grace <= job.now
      /\ job.now \in Int
  BY <1>1, Naturals
<1>3. ASSUME NEW x \in RunItems(job.now)
      PROVE  x.at <= job.now /\ x.skip = rules[x.rule].skip
  <2>1. x \in Due(job.now - Grace, job.now)
    BY <1>3 DEF RunItems
  <2>2. QED
    BY <1>2, <2>1, DueListed DEF IInv
<1>4. ASSUME NEW x \in LateItems(job.now)
      PROVE  x.at <= job.now /\ x.skip = rules[x.rule].skip
  <2>1. PICK from \in Int : x \in Due(from, job.now - Grace)
    BY <1>1, <1>2, <1>4 DEF LateItems
  <2>2. x.at <= job.now - Grace /\ x.skip = rules[x.rule].skip
    BY <1>2, <2>1, DueListed DEF IInv
  <2>3. x \in Item
    BY <1>1, <1>4, LateItemsType DEF IInv, Job
  <2>4. x.at \in Nat
    BY <2>3, Naturals DEF Item
  <2>5. QED
    BY <1>1, <2>2, <2>4, Naturals
<1>5. QED
  BY <1>3, <1>4 DEF ListKept

LEMMA RestListed ==
  ASSUME NEW j \in Jobs, NEW job, Sound(j, job), ListKept(job)
  PROVE  ListKept(Rest(job))
<1>1. Rest(job).due \subseteq job.due /\ Rest(job).now = job.now
  BY DEF Rest, Left, Sound, Job
<1>2. QED
  BY <1>1 DEF ListKept

LEMMA AbortedSkips ==
  ASSUME IInv, ListsKept, NEW j \in Jobs, NEW job, NEW t, Aborted(j, job, t)
  PROVE  ListsStay /\ SkipsAhead /\ NothingSkipped
<1>1. ListsStay
  BY ListWritten DEF Aborted, IdleJob
<1>2. SkipsAhead
  BY RulesStay DEF Aborted, clock, book
<1>3. NothingSkipped
  BY NoneSkipped DEF Aborted, IdleJob, IInv, TypeOK
<1>4. QED
  BY <1>1, <1>2, <1>3

LEMMA FireSkips ==
  ASSUME IInv, ListsKept, NEW j \in Jobs, NEW job, NEW t, Sound(j, job), ListKept(job),
         Left(job) # {}, Fire(j, job, t)
  PROVE  ListsStay /\ SkipsAhead /\ NothingSkipped
<1>a. PICK x : x = Turn(job)
  OBVIOUS
<1>b. PICK rest \in Job : rest = Rest(job)
  BY RestKept
<1>1. x \in job.due /\ x \in Item /\ x.rule \in DOMAIN rules
  BY <1>a, TurnInDue DEF Fire, Sound
<1>2. ListKept(rest) /\ rest.hand = {}
  BY <1>b, RestListed, RestKept
<1>3. CASE PausedAt(job.now) \/ x.skip = x.at
  <2>1. task' = [task EXCEPT ![j] = rest]
    BY <1>a, <1>b, <1>3 DEF Fire
  <2>2. ListsStay /\ NothingSkipped
    BY <1>2, <2>1, ListWritten, NoneSkipped DEF IInv, TypeOK
  <2>3. SkipsAhead
    <3>1. CASE rules' = rules
      BY <3>1, RulesStay DEF Fire, clock
    <3>2. CASE Touch(x.rule, [rules[x.rule] EXCEPT !.skip = None])
      <4>1. PICK rule \in Rule : rule = [rules[x.rule] EXCEPT !.skip = None]
        BY <1>1, RuleType DEF Rule
      <4>2. rules' = Put(rules, x.rule, [rule EXCEPT !.touched = Wall]) /\ rule.skip = None
        BY <1>1, <3>2, <4>1, RuleType DEF Touch, Rule
      <4>3. \A r \in DOMAIN rules' : rules'[r].skip = None
              \/ (r \in DOMAIN rules /\ rules'[r].skip = rules[r].skip)
        <5>1. PICK new : new = [rule EXCEPT !.touched = Wall]
          OBVIOUS
        <5>2. new.skip = None /\ rules' = Put(rules, x.rule, new)
          BY <4>1, <4>2, <5>1 DEF Rule
        <5>3. QED
          BY <1>1, <5>2 DEF Put
      <4>4. Wall' = Wall /\ Wall \in Nat
        BY WallType, Naturals DEF Fire, clock, Wall, IInv
      <4>5. QED
        BY <4>3, <4>4 DEF SkipsAhead, SkipAhead
    <3>3. QED
      BY <1>a, <3>1, <3>2 DEF Fire
  <2>4. QED
    BY <2>2, <2>3
<1>4. CASE ~PausedAt(job.now) /\ x.skip # x.at
  <2>1. PICK new : new = [rest EXCEPT !.hand = {x}]
    OBVIOUS
  <2>2. task' = [task EXCEPT ![j] = new] /\ rules' = rules
    BY <1>a, <1>b, <1>4, <2>1 DEF Fire
  <2>3. new.due = rest.due /\ new.now = rest.now /\ new.hand = {x}
    BY <2>1 DEF Job
  <2>4. ListsStay
    BY <1>2, <2>2, <2>3, ListWritten DEF ListKept
  <2>5. SkipsAhead
    BY <2>2, RulesStay DEF Fire, clock
  <2>6. rules[x.rule].skip # x.at
    BY <1>1, <1>4 DEF ListKept
  <2>7. NothingSkipped
    BY <2>2, <2>3, <2>6 DEF NothingSkipped, Begun, IInv, TypeOK
  <2>8. QED
    BY <2>4, <2>5, <2>7
<1>5. QED
  BY <1>3, <1>4

LEMMA RunDoneSkips ==
  ASSUME IInv, ListsKept, NEW j \in Jobs, NEW job, NEW t, RunDone(j, job, t)
  PROVE  ListsStay /\ SkipsAhead /\ NothingSkipped
<1>1. PICK new : /\ task' = [task EXCEPT ![j] = new] /\ new.hand = {}
                 /\ new.stage = "idle" \/ new = NewJob("checked", 0, {}, FALSE)
  <2>1. IdleJob.stage = "idle" /\ IdleJob.hand = {}
        /\ [IdleJob EXCEPT !.age = 1].stage = "idle" /\ [IdleJob EXCEPT !.age = 1].hand = {}
        /\ NewJob("checked", 0, {}, FALSE).hand = {}
    BY DEF IdleJob, NewJob
  <2>2. CASE task' = [task EXCEPT ![j] = IdleJob]
    BY <2>1, <2>2
  <2>3. CASE task' = [task EXCEPT ![j] = [IdleJob EXCEPT !.age = 1]]
    BY <2>1, <2>3
  <2>4. CASE task' = [task EXCEPT ![j] = NewJob("checked", 0, {}, FALSE)]
    BY <2>1, <2>4
  <2>5. QED
    BY <2>2, <2>3, <2>4 DEF RunDone
<1>2. ListKept(NewJob("checked", 0, {}, FALSE))
  <2>1. PICK checked : checked = NewJob("checked", 0, {}, FALSE)
    OBVIOUS
  <2>2. checked.now = 0 /\ checked.due = {} /\ Wall \in Nat
    BY <2>1, WallType, Naturals DEF NewJob, IInv
  <2>3. ListKept(checked)
    BY <2>2 DEF ListKept
  <2>4. QED
    BY <2>1, <2>3
<1>3. ListsStay
  BY <1>1, <1>2, ListWritten
<1>4. SkipsAhead
  BY RulesStay DEF RunDone, clock, book
<1>5. NothingSkipped
  BY <1>1, NoneSkipped DEF IInv, TypeOK
<1>6. QED
  BY <1>3, <1>4, <1>5

LEMMA ProceedSkips ==
  ASSUME IInv, ListsKept, NEW j \in Jobs, NEW job, NEW t, Sound(j, job), ListKept(job),
         Proceed(j, job, t)
  PROVE  ListsStay /\ SkipsAhead /\ NothingSkipped
BY AbortedSkips, FireSkips, RunDoneSkips DEF Proceed, RuleGone

LEMMA CatchUpSkips ==
  ASSUME IInv, ListsKept, NEW job, NEW t, Sound("pump", job), job.stage = "late",
         ListKept(job), CatchUp(job, t)
  PROVE  ListsStay /\ SkipsAhead /\ NothingSkipped
<1>1. CASE Left(job) = {}
  <2>1. PICK run : run = [job EXCEPT !.stage = "run", !.due = RunItems(job.now)]
    OBVIOUS
  <2>2. RunItems(job.now) \subseteq Item
        /\ \A x \in RunItems(job.now) : job.now - Grace < x.at /\ x.at <= job.now
    BY RunItemsType DEF Sound, Job, IInv
  <2>3. /\ run \in Job /\ run.stage = "run" /\ run.due = RunItems(job.now)
        /\ run.hand = {} /\ run.now = job.now /\ run.age = job.age
    BY <2>1, <2>2 DEF Sound, Job
  <2>4. Fresh(job) /\ job.age <= MaxJob /\ phase # "down"
    BY DEF Sound, JobKept
  <2>5. Sound("pump", run)
    BY <2>2, <2>3, <2>4 DEF Sound, JobKept, InWindow, Fresh
  <2>6. ListKept(run)
    BY <2>3, NewListKept DEF ListKept
  <2>7. Proceed("pump", run, t)
    BY <1>1, <2>1 DEF CatchUp
  <2>8. QED
    BY <2>5, <2>6, <2>7, ProceedSkips DEF Jobs
<1>2. CASE Left(job) # {} /\ RuleGone("pump", job, t)
  BY <1>2, AbortedSkips DEF RuleGone, Jobs
<1>3. CASE Left(job) # {} /\ WriteOff(job, t)
  <2>1. task' = [task EXCEPT !["pump"] = Rest(job)]
    BY <1>3 DEF WriteOff
  <2>2. ListsStay
    BY <2>1, RestListed, ListWritten DEF Jobs
  <2>3. NothingSkipped
    BY <2>1, RestKept, NoneSkipped DEF IInv, TypeOK, Jobs
  <2>4. SkipsAhead
    BY <1>3, RulesStay DEF WriteOff, clock, book
  <2>5. QED
    BY <2>2, <2>3, <2>4
<1>4. QED
  BY <1>1, <1>2, <1>3 DEF CatchUp

\* A run that begins lists by the clock of now.
LEMMA NewRunListed ==
  ASSUME IInv, NEW due, due \in {{}, RunItems(Wall)}, NEW j \in Jobs, phase # "down"
  PROVE  ListKept(NewJob("run", Wall, due, FALSE))
<1>1. PICK job : job = NewJob("run", Wall, due, FALSE)
  OBVIOUS
<1>2. job \in Job
  BY <1>1, NewRunSound DEF Sound
<1>3. job.now = Wall /\ job.due = due
  BY <1>1 DEF NewJob
<1>4. Wall \in Nat
  BY WallType, Naturals DEF IInv
<1>5. ListKept(job)
  BY <1>2, <1>3, <1>4, NewListKept
<1>6. QED
  BY <1>1, <1>5

LEMMA LateListed ==
  ASSUME IInv, NEW job \in Job, job.now <= Wall, job.due = LateItems(job.now)
  PROVE  ListKept(job)
BY NewListKept

LEMMA EngineSkips ==
  ASSUME IInv, ListsKept, Engine
  PROVE  ListsStay /\ SkipsAhead /\ NothingSkipped
<1>0. /\ timer \in Times \cup {None} /\ Wall \in Nat /\ Wall \in Times
      /\ truth = Wall + lag /\ lag \in Nat /\ "pump" \in Jobs /\ "wake" \in Jobs
  BY WallType, Naturals DEF IInv, TypeOK, Times, Jobs
<1>1. CASE Wake
  <2>1. phase # "down" /\ Proceed("wake", NewJob("run", Wall, RunItems(Wall), FALSE), None)
    BY <1>1 DEF Wake
  <2>2. QED
    BY <1>0, <2>1, NewRunSound, NewRunListed, ProceedSkips
<1>2. CASE WakeRefused
  <2>1. UNCHANGED <<truth, lag, rules, task>>
    BY <1>2 DEF WakeRefused, clock, book
  <2>2. QED
    BY <2>1, RulesStay, NoneSkipped DEF ListsStay, ListsKept
<1>3. CASE PumpChecks
  <2>1. CASE Check(synced, Wall) = verdict
    <3>1. phase # "down" /\ Proceed("pump", NewJob("run", Wall, RunItems(Wall), FALSE), timer)
      BY <1>3, <2>1 DEF PumpChecks
    <3>2. QED
      BY <1>0, <3>1, NewRunSound, NewRunListed, ProceedSkips
  <2>2. CASE Check(synced, Wall) # verdict
    <3>1. PICK job : job = NewJob("checking", Wall, {}, FALSE)
      OBVIOUS
    <3>2. job.now = Wall /\ job.due = {} /\ job.hand = {}
      BY <3>1 DEF NewJob
    <3>3. task' = [task EXCEPT !["pump"] = job] /\ UNCHANGED <<truth, lag, rules>>
      BY <1>3, <2>2, <3>1 DEF PumpChecks, clock, book
    <3>4. ListKept(job)
      BY <1>0, <3>2 DEF ListKept
    <3>5. ListsStay
      BY <1>0, <3>3, <3>4, ListWritten
    <3>6. NothingSkipped
      BY <3>2, <3>3, NoneSkipped DEF IInv, TypeOK
    <3>7. QED
      BY <3>3, <3>5, <3>6, RulesStay
  <2>3. QED
    BY <2>1, <2>2
<1>4. CASE PumpAnnounced
  <2>1. PICK job \in Job : job = task["pump"]
    BY <1>0 DEF IInv, TypeOK
  <2>2. JobKept("pump", job) /\ job.stage = "checking" /\ ListKept(job)
    BY <1>0, <1>4, <2>1 DEF PumpAnnounced, IInv, JobsKept, ListsKept
  <2>3. /\ phase # "down" /\ job.age <= MaxJob /\ job.now \in Times /\ job.age \in Nat
        /\ job.now <= Wall
    BY <2>2 DEF JobKept, Job, ListKept
  <2>4. CASE Reliable
    <3>1. PICK late : late = [NewJob("late", job.now, LateItems(job.now), TRUE)
                                EXCEPT !.age = job.age]
      OBVIOUS
    <3>2. CatchUp(late, timer)
      BY <1>4, <2>1, <2>4, <3>1 DEF PumpAnnounced
    <3>3. late = [stage |-> "late", now |-> job.now, due |-> LateItems(job.now), hand |-> {},
                  catching |-> TRUE, age |-> job.age]
      BY <3>1 DEF NewJob
    <3>4. Fresh(job)
      BY <2>2, <2>4 DEF JobKept
    <3>5. Sound("pump", late) /\ late.stage = "late"
      BY <2>3, <3>3, <3>4, LateSound DEF Fresh
    <3>6. late.now = job.now /\ late.due = LateItems(late.now)
      BY <3>3
    <3>7. ListKept(late)
      BY <2>3, <3>5, <3>6, LateListed DEF Sound
    <3>8. QED
      BY <3>2, <3>5, <3>7, CatchUpSkips
  <2>5. CASE ~Reliable
    <3>1. Proceed("pump", NewJob("run", Wall, {}, FALSE), None)
      BY <1>4, <2>5 DEF PumpAnnounced
    <3>2. QED
      BY <1>0, <2>3, <3>1, NewRunSound, NewRunListed, ProceedSkips
  <2>6. QED
    BY <2>4, <2>5
<1>5. CASE PumpRuns
  <2>1. Proceed("pump", NewJob("run", Wall, RunItems(Wall), FALSE), timer)
    BY <1>5 DEF PumpRuns
  <2>2. phase # "down"
    BY <1>5 DEF PumpRuns, IInv, JobsKept, JobKept, Jobs
  <2>3. QED
    BY <1>0, <2>1, <2>2, NewRunSound, NewRunListed, ProceedSkips
<1>6. CASE StartUp
  <2>1. CASE Reliable
    <3>1. PICK late : late = NewJob("late", Wall, LateItems(Wall), TRUE)
      OBVIOUS
    <3>2. late = [stage |-> "late", now |-> Wall, due |-> LateItems(Wall), hand |-> {},
                  catching |-> TRUE, age |-> 0]
      BY <3>1 DEF NewJob
    <3>3. CatchUp(late, timer) /\ phase = "starting"
      BY <1>6, <2>1, <3>1 DEF StartUp
    <3>4. lag <= Behind
      BY <2>1, <3>3 DEF IInv, ClockKept
    <3>5. Wall + 0 <= truth /\ truth <= Wall + 0 + Behind /\ 0 \in Nat /\ 0 <= MaxJob
      BY <1>0, <3>4, Naturals
    <3>6. Sound("pump", late) /\ late.stage = "late"
      BY <1>0, <3>2, <3>3, <3>5, LateSound
    <3>7. late.now = Wall /\ late.due = LateItems(late.now)
      BY <3>2
    <3>8. ListKept(late)
      BY <1>0, <3>6, <3>7, LateListed DEF Sound
    <3>9. QED
      BY <3>3, <3>6, <3>8, CatchUpSkips
  <2>2. CASE ~Reliable
    <3>1. UNCHANGED <<truth, lag, rules, task>>
      BY <1>6, <2>2 DEF StartUp, clock, book
    <3>2. QED
      BY <3>1, RulesStay, NoneSkipped DEF ListsStay, ListsKept
  <2>3. QED
    BY <2>1, <2>2
<1>7. ASSUME NEW j \in Jobs, Resume(j)
      PROVE  ListsStay /\ SkipsAhead /\ NothingSkipped
  <2>1. PICK job \in Job : job = task[j]
    BY DEF IInv, TypeOK
  <2>2. JobKept(j, job) /\ job.hand = {}
    BY <1>7, <2>1 DEF Resume, IInv, JobsKept
  <2>3. CASE job.stage = "run" /\ Proceed(j, job, timer)
    <3>1. Sound(j, job) /\ ListKept(job)
      BY <2>1, <2>2, <2>3 DEF Sound, JobKept, ListsKept
    <3>2. QED
      BY <2>3, <3>1, ProceedSkips
  <2>4. CASE job.stage = "late" /\ CatchUp(job, timer)
    <3>1. j = "pump"
      BY <2>2, <2>4 DEF JobKept, Jobs
    <3>2. Sound(j, job) /\ ListKept(job)
      BY <2>1, <2>2, <2>4 DEF Sound, JobKept, ListsKept
    <3>3. QED
      BY <2>4, <3>1, <3>2, CatchUpSkips
  <2>5. QED
    BY <1>7, <2>1, <2>3, <2>4 DEF Resume
<1>8. ASSUME NEW j \in Jobs, Commanded(j)
      PROVE  ListsStay /\ SkipsAhead /\ NothingSkipped
  <2>1. PICK job \in Job : job = task[j]
    BY DEF IInv, TypeOK
  <2>2. PICK new : new = [job EXCEPT !.hand = {}]
    OBVIOUS
  <2>3. new.due = job.due /\ new.now = job.now /\ new.stage = job.stage /\ new.hand = {}
    BY <2>2 DEF Job
  <2>4. task' = [task EXCEPT ![j] = new] /\ UNCHANGED <<truth, lag, rules>>
    BY <1>8, <2>1, <2>2 DEF Commanded, IInv, TypeOK, clock, book
  <2>5. new.stage = "idle" \/ ListKept(new)
    BY <2>1, <2>3 DEF ListsKept, ListKept
  <2>6. QED
    BY <2>3, <2>4, <2>5, ListWritten, RulesStay, NoneSkipped DEF IInv, TypeOK
<1>9. ASSUME NEW j \in Jobs, CommandRaises(j)
      PROVE  ListsStay /\ SkipsAhead /\ NothingSkipped
  BY <1>9, AbortedSkips DEF CommandRaises
<1>10. QED
  BY <1>1, <1>2, <1>3, <1>4, <1>5, <1>6, <1>7, <1>8, <1>9 DEF Engine, Working

\* A person can only ask to skip what is still to come.
LEMMA PeopleSkips ==
  ASSUME IInv, ListsKept, People
  PROVE  ListsStay /\ SkipsAhead /\ NothingSkipped
<1>1. Asked
  BY DEF People, Editing, Pausing, CreateRule, ReplaceRule, SetEnabled, SkipNext, UnskipNext,
         DropTargets, DeleteRule, PauseUntil, ResumeRules
<1>2. UNCHANGED <<truth, lag, task>> /\ Wall' = Wall /\ Wall \in Nat
  BY <1>1, WallType, Naturals DEF Asked, clock, Wall, IInv
<1>3. ASSUME NEW r \in DOMAIN rules'
      PROVE  SkipAhead(r)
  <2>1. CASE UNCHANGED rules
    BY <2>1 DEF SkipAhead
  <2>2. ASSUME NEW s \in DOMAIN rules, NEW rule \in Rule, Touch(s, rule),
               rule.skip \in {None, rules[s].skip} \/ rule.skip > Wall
        PROVE  SkipAhead(r)
    <3>1. PICK new : new = [rule EXCEPT !.touched = Wall]
      OBVIOUS
    <3>2. new.skip = rule.skip /\ rules' = Put(rules, s, new)
      BY <2>2, <3>1 DEF Touch, Rule
    <3>3. r \in DOMAIN rules /\ rules'[r] = IF r = s THEN new ELSE rules[r]
      BY <3>2 DEF Put
    <3>4. QED
      BY <2>2, <3>2, <3>3 DEF SkipAhead
  <2>3. ASSUME NEW s \in Rules, NEW d \in Drafts, CreateRule(s, d)
        PROVE  SkipAhead(r)
    <3>1. PICK new : new.skip = None /\ rules' = Put(rules, s, new)
      BY <2>3 DEF CreateRule
    <3>2. QED
      BY <3>1 DEF Put, SkipAhead
  <2>4. ASSUME NEW s \in Rules, NEW d \in Drafts, ReplaceRule(s, d)
        PROVE  SkipAhead(r)
    <3>1. s \in DOMAIN rules /\ d \in Draft
      BY <2>4, AutomationAssumption DEF AutomationAssumption, ReplaceRule
    <3>2. PICK rule : rule = [rules[s] EXCEPT !.enabled = d.enabled, !.plan = d.plan,
                                              !.reach = d.reach]
      OBVIOUS
    <3>3. rule \in Rule /\ rule.skip = rules[s].skip
      BY <3>1, <3>2, RuleType DEF Rule, Draft
    <3>4. PICK new \in Rule : new.skip \in {None, rules[s].skip} /\ Touch(s, new)
      <4>1. CASE NextFiring(rule, Wall) = rule.skip
        BY <2>4, <3>2, <3>3, <4>1 DEF ReplaceRule
      <4>2. CASE NextFiring(rule, Wall) # rule.skip
        <5>1. PICK new : new = [rule EXCEPT !.skip = None]
          OBVIOUS
        <5>2. new \in Rule /\ new.skip = None
          BY <3>3, <5>1 DEF Rule
        <5>3. Touch(s, new)
          BY <2>4, <3>2, <4>2, <5>1 DEF ReplaceRule
        <5>4. QED
          BY <5>2, <5>3
      <4>3. QED
        BY <4>1, <4>2
    <3>5. QED
      BY <2>2, <3>1, <3>4
  <2>5. ASSUME NEW s \in Rules, NEW enabled \in BOOLEAN, SetEnabled(s, enabled)
        PROVE  SkipAhead(r)
    <3>1. PICK rule : rule = [rules[s] EXCEPT !.enabled = enabled]
      OBVIOUS
    <3>2. s \in DOMAIN rules /\ Touch(s, rule)
      BY <2>5, <3>1 DEF SetEnabled
    <3>3. rule \in Rule /\ rule.skip = rules[s].skip
      BY <3>1, <3>2, RuleType DEF Rule
    <3>4. QED
      BY <2>2, <3>2, <3>3
  <2>6. ASSUME NEW s \in Rules, SkipNext(s)
        PROVE  SkipAhead(r)
    <3>1. s \in DOMAIN rules /\ NextFiring(rules[s], Wall) # None
      BY <2>6 DEF SkipNext
    <3>2. PICK next \in Upcoming(rules[s], Wall) : next = NextFiring(rules[s], Wall)
      BY <3>1, RuleType, UpcomingType, MinInSet DEF NextFiring
    <3>3. next > Wall /\ next \in Times
      BY <3>1, <3>2, RuleType DEF Upcoming, Rule
    <3>4. PICK rule : rule = [rules[s] EXCEPT !.skip = next]
      OBVIOUS
    <3>5. rule \in Rule /\ rule.skip = next
      BY <3>1, <3>3, <3>4, RuleType DEF Rule
    <3>6. Touch(s, rule)
      BY <2>6, <3>2, <3>4 DEF SkipNext
    <3>7. QED
      BY <2>2, <3>1, <3>3, <3>5, <3>6
  <2>7. ASSUME NEW s \in Rules, UnskipNext(s)
        PROVE  SkipAhead(r)
    <3>1. PICK rule : rule = [rules[s] EXCEPT !.skip = None]
      OBVIOUS
    <3>2. s \in DOMAIN rules /\ Touch(s, rule)
      BY <2>7, <3>1 DEF UnskipNext
    <3>3. rule \in Rule /\ rule.skip = None
      BY <3>1, <3>2, RuleType DEF Rule
    <3>4. QED
      BY <2>2, <3>2, <3>3
  <2>8. ASSUME NEW s \in Rules, DropTargets(s)
        PROVE  SkipAhead(r)
    <3>1. PICK rule : rule = [rules[s] EXCEPT !.reach = FALSE]
      OBVIOUS
    <3>2. s \in DOMAIN rules /\ Touch(s, rule)
      BY <2>8, <3>1 DEF DropTargets
    <3>3. rule \in Rule /\ rule.skip = rules[s].skip
      BY <3>1, <3>2, RuleType DEF Rule
    <3>4. QED
      BY <2>2, <3>2, <3>3
  <2>9. ASSUME NEW s \in Rules, DeleteRule(s)
        PROVE  SkipAhead(r)
    BY <2>9 DEF DeleteRule, Drop, SkipAhead
  <2>10. CASE Pausing
    BY <2>1, <2>10 DEF Pausing, PauseUntil, ResumeRules
  <2>11. QED
    BY <2>3, <2>4, <2>5, <2>6, <2>7, <2>8, <2>9, <2>10 DEF People, Editing
<1>4. SkipsAhead
  BY <1>2, <1>3 DEF SkipsAhead
<1>5. ListsStay /\ NothingSkipped
  BY <1>2, NoneSkipped DEF ListsStay, ListsKept
<1>6. QED
  BY <1>4, <1>5

LEMMA MachineSkips ==
  ASSUME IInv, IInv', ListsKept, Machine
  PROVE  ListsKept' /\ NothingSkipped
<1>1. CASE Crash
  <2>1. \A j \in Jobs : task'[j] = IdleJob
    BY <1>1 DEF Crash
  <2>2. QED
    BY <2>1, NoneSkipped DEF ListsKept, IdleJob
<1>2. CASE \E late \in 0..MaxLag, ok \in BOOLEAN : Boot(late, ok)
  <2>1. /\ \A j \in Jobs : task[j] \in Job /\ task[j].stage = "idle"
        /\ task' = [task EXCEPT !["pump"].age = 1]
    BY <1>2 DEF Boot, IInv, TypeOK, JobsKept, JobKept
  <2>2. PICK new : new = [task["pump"] EXCEPT !.age = 1]
    OBVIOUS
  <2>3. new.stage = "idle" /\ new.hand = task["pump"].hand
    BY <2>1, <2>2 DEF Job, Jobs
  <2>4. \A j \in Jobs : task'[j] = IF j = "pump" THEN new ELSE task[j]
    BY <2>1, <2>2 DEF IInv, TypeOK
  <2>5. \A j \in Jobs : task'[j].stage = "idle" /\ task'[j].hand = task[j].hand
    BY <2>1, <2>3, <2>4
  <2>6. QED
    BY <2>5, NoneSkipped DEF ListsKept
<1>3. CASE Sync \/ Unsync
  <2>1. UNCHANGED <<truth, rules, task>> /\ lag' \in {0, lag}
    BY <1>3 DEF Sync, Unsync, book
  <2>2. Wall <= Wall'
    <3>1. truth \in Nat /\ lag \in Nat
      BY Naturals DEF IInv, TypeOK, Times
    <3>2. Wall' = truth - lag'
      BY <2>1 DEF Wall
    <3>3. truth - lag <= truth - lag'
      <4>1. \A a, b \in Nat : a - b <= a - 0 /\ a - b <= a - b
        OBVIOUS
      <4>2. lag' = 0 \/ lag' = lag
        BY <2>1
      <4>3. QED
        BY <3>1, <4>1, <4>2
    <3>4. QED
      BY <3>2, <3>3 DEF Wall
  <2>3. SkipsAhead /\ ListsStay
    BY <2>1, <2>2 DEF SkipsAhead, SkipAhead, ListsStay, ListsKept
  <2>4. QED
    BY <2>1, <2>3, ListsCarryOver, NoneSkipped
<1>4. CASE Pass
  <2>1. /\ truth' = truth + 1 /\ UNCHANGED <<lag, rules>>
        /\ truth \in Nat /\ lag \in Nat
    BY <1>4, Naturals DEF Pass, book, IInv, TypeOK, Times
  <2>2. Wall <= Wall'
    BY <2>1 DEF Wall
  <2>3. ASSUME NEW j \in Jobs
        PROVE  /\ task'[j].stage = task[j].stage /\ task'[j].hand = task[j].hand
               /\ task'[j].due = task[j].due /\ task'[j].now = task[j].now
    BY <1>4 DEF Pass, IInv, TypeOK, Job
  <2>4. SkipsAhead /\ ListsStay
    BY <2>1, <2>2, <2>3 DEF SkipsAhead, SkipAhead, ListsStay, ListsKept, ListKept
  <2>5. QED
    BY <2>3, <2>4, ListsCarryOver, NoneSkipped
<1>5. QED
  BY <1>1, <1>2, <1>3, <1>4 DEF Machine

LEMMA NextSkips ==
  IInv /\ ListsKept /\ [Next]_vars => ListsKept' /\ (NothingSkipped \/ UNCHANGED vars)
<1> SUFFICES ASSUME IInv, ListsKept, [Next]_vars
             PROVE  ListsKept' /\ (NothingSkipped \/ UNCHANGED vars)
  OBVIOUS
<1>1. IInv'
  BY NextKeeps
<1>2. CASE Engine \/ People
  BY <1>1, <1>2, EngineSkips, PeopleSkips, ListsCarryOver
<1>3. CASE Machine
  BY <1>1, <1>3, MachineSkips
<1>4. CASE UNCHANGED vars
  BY <1>4 DEF vars, clock, book, ListsKept, ListKept, Wall
<1>5. QED
  BY <1>2, <1>3, <1>4 DEF Next

\* FR-025: a firing that is skipped by the time it would begin does not begin,
\* although a run decides by the copy of the rule it made before its awaits.
THEOREM SkipsHonoured == Spec => SkipHonoured
<1>1. Init => ListsKept
  BY DEF Init, ListsKept, IdleJob
<1>2. IInv /\ ListsKept /\ [Next]_vars => ListsKept'
  BY NextSkips
<1>3. IInv /\ ListsKept /\ [Next]_vars => [\A x \in Begun : rules[x.rule].skip # x.at]_vars
  BY NextSkips DEF NothingSkipped
<1>4. QED
  BY Invariance, <1>1, <1>2, <1>3, PTL DEF Spec, SkipHonoured

-----------------------------------------------------------------------------
(* Fates.  A step of the engine carries out one instant that was open, or  *)
(* it leaves alone what was carried out and opens nothing that was closed. *)

Keys == Rules \X Times

ClosedStays == carried' = carried /\ \A k \in Keys : Closed(k) => Closed(k)'

OneBegins ==
  \E k \in Keys :
    /\ ~Closed(k) /\ carried' = carried \cup {k}
    /\ DOMAIN ledger' = DOMAIN ledger \cup {k} /\ DOMAIN rules' = DOMAIN rules
    /\ UNCHANGED <<truth, issued>>

LEMMA RowsStay ==
  ASSUME DOMAIN ledger \subseteq DOMAIN ledger', DOMAIN rules' = DOMAIN rules,
         UNCHANGED <<truth, issued, carried>>
  PROVE  ClosedStays
BY DEF ClosedStays, Closed, Recorded

\* Where a run stands, every step of it is one of four.
RunStep(j, job, t) ==
  \/ RunDone(j, job, t)
  \/ job.stage = "run" /\ Left(job) # {} /\ Fire(j, job, t)
  \/ job.stage = "late" /\ Left(job) # {} /\ j = "pump" /\ WriteOff(job, t)
  \/ Aborted(j, job, t)

LEMMA RunStepFate ==
  ASSUME IInv, KernelHonest, NEW j \in Jobs, NEW job, NEW t, Sound(j, job), RunStep(j, job, t)
  PROVE  ClosedStays \/ OneBegins
<1>1. CASE Aborted(j, job, t)
  BY <1>1, RowsStay DEF Aborted, clock, book, history
<1>2. CASE RunDone(j, job, t)
  <2>1. ledger' \in {ledger, Purged} /\ UNCHANGED <<truth, rules, issued, carried>>
    BY <1>2 DEF RunDone, clock, book, history
  <2>2. CASE ledger' = ledger
    BY <2>1, <2>2, RowsStay
  <2>3. CASE ledger' = Purged
    <3>1. ASSUME NEW k \in Keys, Recorded(k), k \notin DOMAIN Purged
          PROVE  k[2] + Grace + MaxJob <= truth
      <4>1. Wall \in Nat /\ Wall <= truth /\ truth \in Nat
        BY WallType, Naturals DEF IInv, TypeOK
      <4>2. k[2] \in Nat
        BY Naturals DEF Keys
      <4>3. k[2] < Wall - Retention
        BY <3>1, <4>1, <4>2, Naturals DEF Purged, Recorded
      <4>4. QED
        BY <4>1, <4>2, <4>3, Naturals
    <3>2. QED
      BY <2>1, <2>3, <3>1 DEF ClosedStays, Closed, Recorded
  <2>4. QED
    BY <2>1, <2>2, <2>3
<1>3. CASE job.stage = "run" /\ Left(job) # {} /\ Fire(j, job, t)
  <2>1. PICK x : x = Turn(job)
    OBVIOUS
  <2>2. x \in job.due /\ x \in Item /\ ~Recorded(Key(x)) /\ x.rule \in DOMAIN rules
    BY <1>3, <2>1, TurnInDue DEF Fire, Sound
  <2>3. PICK k \in Keys : k = Key(x) /\ k[1] = x.rule /\ k[2] = x.at
    BY <2>2 DEF Key, Keys, Item
  <2>4. truth < k[2] + Grace + MaxJob
    <3>1. truth < x.at + Grace + MaxJob + Behind
      BY <1>3, <2>2, InHour DEF Sound
    <3>2. Behind = 0 /\ x.at \in Nat
      BY <2>2, Naturals DEF Behind, Item
    <3>3. QED
      BY <2>3, <3>1, <3>2, Naturals
  <2>5. k[2] \in Nat /\ truth \in Nat
    BY Naturals DEF Keys, IInv, TypeOK
  <2>6. ~Closed(k)
    BY <2>2, <2>3, <2>4, <2>5, Naturals DEF Closed
  <2>7. /\ DOMAIN ledger' = DOMAIN ledger \cup {k}
        /\ UNCHANGED <<truth, issued>>
        /\ carried' \in {carried, carried \cup {k}}
    <3>1. PICK status : ledger' = Put(ledger, k, status)
      BY <1>3, <2>1, <2>3 DEF Fire
    <3>2. DOMAIN ledger' = DOMAIN ledger \cup {k}
      BY <3>1 DEF Put
    <3>3. QED
      BY <1>3, <2>1, <2>3, <3>2 DEF Fire, clock
  <2>8. DOMAIN rules' = DOMAIN rules
    <3>1. rules' = rules \/ Touch(x.rule, [rules[x.rule] EXCEPT !.skip = None])
      BY <1>3, <2>1 DEF Fire
    <3>2. QED
      BY <2>2, <3>1 DEF Touch, Put
  <2>9. CASE carried' = carried
    BY <2>7, <2>8, <2>9, RowsStay
  <2>10. CASE carried' = carried \cup {k}
    BY <2>6, <2>7, <2>8, <2>10 DEF OneBegins
  <2>11. QED
    BY <2>7, <2>9, <2>10
<1>4. CASE WriteOff(job, t)
  <2>1. PICK k, status : ledger' = Put(ledger, k, status)
    BY <1>4 DEF WriteOff
  <2>2. DOMAIN ledger \subseteq DOMAIN ledger' /\ UNCHANGED <<truth, rules, issued, carried>>
    BY <1>4, <2>1 DEF WriteOff, Put, clock, book, history
  <2>3. QED
    BY <2>2, RowsStay
<1>5. QED
  BY <1>1, <1>2, <1>3, <1>4 DEF RunStep

LEMMA ProceedFate ==
  ASSUME IInv, KernelHonest, NEW j \in Jobs, NEW job, NEW t, Sound(j, job),
         job.stage = "run", Proceed(j, job, t)
  PROVE  ClosedStays \/ OneBegins
BY RunStepFate DEF Proceed, RunStep, RuleGone

LEMMA CatchUpFate ==
  ASSUME IInv, KernelHonest, NEW job, NEW t, Sound("pump", job),
         job.stage = "late", CatchUp(job, t)
  PROVE  ClosedStays \/ OneBegins
<1>1. CASE Left(job) = {}
  <2>1. PICK run : run = [job EXCEPT !.stage = "run", !.due = RunItems(job.now)]
    OBVIOUS
  <2>2. RunItems(job.now) \subseteq Item
        /\ \A x \in RunItems(job.now) : job.now - Grace < x.at /\ x.at <= job.now
    BY RunItemsType DEF Sound, Job, IInv
  <2>3. /\ run \in Job /\ run.stage = "run" /\ run.due = RunItems(job.now)
        /\ run.hand = {} /\ run.now = job.now /\ run.age = job.age
    BY <2>1, <2>2 DEF Sound, Job
  <2>4. Fresh(job) /\ job.age <= MaxJob /\ phase # "down"
    BY DEF Sound, JobKept
  <2>5. Sound("pump", run)
    BY <2>2, <2>3, <2>4 DEF Sound, JobKept, InWindow, Fresh
  <2>6. Proceed("pump", run, t)
    BY <1>1, <2>1 DEF CatchUp
  <2>7. QED
    BY <2>3, <2>5, <2>6, ProceedFate DEF Jobs
<1>2. CASE Left(job) # {}
  BY <1>2, RunStepFate DEF CatchUp, RuleGone, RunStep, Jobs
<1>3. QED
  BY <1>1, <1>2

LEMMA EngineFate ==
  ASSUME IInv, KernelHonest, Engine
  PROVE  ClosedStays \/ OneBegins
<1>0. /\ Wall \in Nat /\ Wall \in Times /\ truth = Wall + lag /\ lag \in Nat
      /\ "pump" \in Jobs /\ "wake" \in Jobs
  BY WallType, Naturals DEF IInv, TypeOK, Times, Jobs
<1>1. CASE Wake
  <2>1. phase # "down" /\ Proceed("wake", NewJob("run", Wall, RunItems(Wall), FALSE), None)
    BY <1>1 DEF Wake
  <2>2. QED
    BY <1>0, <2>1, NewRunSound, ProceedFate
<1>2. CASE WakeRefused
  BY <1>2, RowsStay DEF WakeRefused, clock, book, history
<1>3. CASE PumpChecks
  <2>1. CASE Check(synced, Wall) = verdict
    <3>1. phase # "down" /\ Proceed("pump", NewJob("run", Wall, RunItems(Wall), FALSE), timer)
      BY <1>3, <2>1 DEF PumpChecks
    <3>2. QED
      BY <1>0, <3>1, NewRunSound, ProceedFate
  <2>2. CASE Check(synced, Wall) # verdict
    BY <1>3, <2>2, RowsStay DEF PumpChecks, clock, book, history
  <2>3. QED
    BY <2>1, <2>2
<1>4. CASE PumpAnnounced
  <2>1. PICK job \in Job : job = task["pump"]
    BY <1>0 DEF IInv, TypeOK
  <2>2. JobKept("pump", job) /\ job.stage = "checking"
    BY <1>0, <1>4, <2>1 DEF PumpAnnounced, IInv, JobsKept
  <2>3. phase # "down" /\ job.age <= MaxJob /\ job.now \in Times /\ job.age \in Nat
    BY <2>2 DEF JobKept, Job
  <2>4. CASE Reliable
    <3>1. PICK late : late = [NewJob("late", job.now, LateItems(job.now), TRUE)
                                EXCEPT !.age = job.age]
      OBVIOUS
    <3>2. CatchUp(late, timer)
      BY <1>4, <2>1, <2>4, <3>1 DEF PumpAnnounced
    <3>3. late = [stage |-> "late", now |-> job.now, due |-> LateItems(job.now), hand |-> {},
                  catching |-> TRUE, age |-> job.age]
      BY <3>1 DEF NewJob
    <3>4. Fresh(job)
      BY <2>2, <2>4 DEF JobKept
    <3>5. Sound("pump", late) /\ late.stage = "late"
      BY <2>3, <3>3, <3>4, LateSound DEF Fresh
    <3>6. QED
      BY <3>2, <3>5, CatchUpFate
  <2>5. CASE ~Reliable
    <3>1. Proceed("pump", NewJob("run", Wall, {}, FALSE), None)
      BY <1>4, <2>5 DEF PumpAnnounced
    <3>2. QED
      BY <1>0, <2>3, <3>1, NewRunSound, ProceedFate
  <2>6. QED
    BY <2>4, <2>5
<1>5. CASE PumpRuns
  <2>1. Proceed("pump", NewJob("run", Wall, RunItems(Wall), FALSE), timer)
    BY <1>5 DEF PumpRuns
  <2>2. phase # "down"
    BY <1>5 DEF PumpRuns, IInv, JobsKept, JobKept, Jobs
  <2>3. QED
    BY <1>0, <2>1, <2>2, NewRunSound, ProceedFate
<1>6. CASE StartUp
  <2>1. CASE Reliable
    <3>1. PICK late : late = NewJob("late", Wall, LateItems(Wall), TRUE)
      OBVIOUS
    <3>2. late = [stage |-> "late", now |-> Wall, due |-> LateItems(Wall), hand |-> {},
                  catching |-> TRUE, age |-> 0]
      BY <3>1 DEF NewJob
    <3>3. CatchUp(late, timer) /\ phase = "starting"
      BY <1>6, <2>1, <3>1 DEF StartUp
    <3>4. lag <= Behind
      BY <2>1, <3>3 DEF IInv, ClockKept
    <3>5. Wall + 0 <= truth /\ truth <= Wall + 0 + Behind /\ 0 \in Nat /\ 0 <= MaxJob
      BY <1>0, <3>4, Naturals
    <3>6. Sound("pump", late) /\ late.stage = "late"
      BY <1>0, <3>2, <3>3, <3>5, LateSound
    <3>7. QED
      BY <3>3, <3>6, CatchUpFate
  <2>2. CASE ~Reliable
    BY <1>6, <2>2, RowsStay DEF StartUp, clock, book, history
  <2>3. QED
    BY <2>1, <2>2
<1>7. ASSUME NEW j \in Jobs, Resume(j)
      PROVE  ClosedStays \/ OneBegins
  <2>1. PICK job \in Job : job = task[j]
    BY DEF IInv, TypeOK
  <2>2. JobKept(j, job) /\ job.hand = {}
    BY <1>7, <2>1 DEF Resume, IInv, JobsKept
  <2>3. CASE job.stage = "run" /\ Proceed(j, job, timer)
    <3>1. Sound(j, job)
      BY <2>2, <2>3 DEF Sound, JobKept
    <3>2. QED
      BY <2>3, <3>1, ProceedFate
  <2>4. CASE job.stage = "late" /\ CatchUp(job, timer)
    <3>1. j = "pump"
      BY <2>2, <2>4 DEF JobKept, Jobs
    <3>2. Sound(j, job)
      BY <2>2, <2>4 DEF Sound, JobKept
    <3>3. QED
      BY <2>4, <3>1, <3>2, CatchUpFate
  <2>5. QED
    BY <1>7, <2>1, <2>3, <2>4 DEF Resume
<1>8. ASSUME NEW j \in Jobs, Commanded(j) \/ CommandRaises(j)
      PROVE  ClosedStays \/ OneBegins
  BY <1>8, RowsStay DEF Commanded, CommandRaises, Aborted, clock, book, history
<1>9. QED
  BY <1>1, <1>2, <1>3, <1>4, <1>5, <1>6, <1>7, <1>8 DEF Engine, Working

\* A person opens nothing again: an id once given out does not come back.
LEMMA PeopleFate ==
  ASSUME IInv, People
  PROVE  ClosedStays
<1>1. Asked
  BY DEF People, Editing, Pausing, CreateRule, ReplaceRule, SetEnabled, SkipNext, UnskipNext,
         DropTargets, DeleteRule, PauseUntil, ResumeRules
<1>2. UNCHANGED <<truth, carried>>
  BY <1>1 DEF Asked, clock
<1>3. ASSUME NEW r \in Rules, NEW d \in Drafts, CreateRule(r, d)
      PROVE  ClosedStays
  <2>1. /\ r \notin issued /\ issued' = issued \cup {r} /\ DOMAIN rules' = DOMAIN rules \cup {r}
        /\ ledger' = ledger
    BY <1>3 DEF CreateRule, Put
  <2>2. QED
    BY <1>2, <2>1 DEF ClosedStays, Closed, Recorded
<1>4. ASSUME NEW r \in DOMAIN rules, NEW rule, Touch(r, rule), UNCHANGED <<issued, ledger>>
      PROVE  ClosedStays
  <2>1. DOMAIN rules' = DOMAIN rules
    BY <1>4 DEF Touch, Put
  <2>2. QED
    BY <1>2, <1>4, <2>1, RowsStay
<1>5. ASSUME NEW r \in Rules, DeleteRule(r)
      PROVE  ClosedStays
  <2>1. /\ r \in DOMAIN rules /\ DOMAIN rules' = DOMAIN rules \ {r} /\ issued' = issued
        /\ DOMAIN ledger' = {x \in DOMAIN ledger : x[1] # r}
        /\ DOMAIN rules \subseteq issued
    BY <1>5 DEF DeleteRule, Drop, IInv, TypeOK, IsTable
  <2>2. QED
    BY <1>2, <2>1 DEF ClosedStays, Closed, Recorded
<1>6. CASE Pausing
  BY <1>2, <1>6, RowsStay DEF Pausing, PauseUntil, ResumeRules
<1>7. CASE Editing
  <2>1. PICK r \in Rules :
          \/ \E d \in Drafts : CreateRule(r, d) \/ ReplaceRule(r, d)
          \/ \E enabled \in BOOLEAN : SetEnabled(r, enabled)
          \/ SkipNext(r) \/ UnskipNext(r) \/ DropTargets(r) \/ DeleteRule(r)
    BY <1>7 DEF Editing
  <2>2. CASE \E d \in Drafts : ReplaceRule(r, d)
    BY <1>4, <2>2 DEF ReplaceRule
  <2>3. CASE \/ \E enabled \in BOOLEAN : SetEnabled(r, enabled)
             \/ SkipNext(r) \/ UnskipNext(r) \/ DropTargets(r)
    BY <1>4, <2>3 DEF SetEnabled, SkipNext, UnskipNext, DropTargets
  <2>4. QED
    BY <1>3, <1>5, <2>1, <2>2, <2>3
<1>8. QED
  BY <1>6, <1>7 DEF People

LEMMA MachineFate ==
  ASSUME IInv, Machine
  PROVE  ClosedStays
<1>1. UNCHANGED <<rules, issued, ledger, carried>> /\ truth' \in {truth, truth + 1}
  BY DEF Machine, Crash, Boot, Sync, Unsync, Pass, clock, book, history
<1>2. ASSUME NEW k \in Keys, k[2] + Grace + MaxJob <= truth
      PROVE  k[2] + Grace + MaxJob <= truth'
  <2>1. k[2] \in Nat /\ truth \in Nat
    BY Naturals DEF Keys, IInv, TypeOK
  <2>2. QED
    BY <1>1, <1>2, <2>1, Naturals
<1>3. QED
  BY <1>1, <1>2 DEF ClosedStays, Closed, Recorded

LEMMA NextFate ==
  IInv /\ KernelHonest /\ [Next]_vars => ClosedStays \/ OneBegins
<1>1. IInv /\ UNCHANGED vars => ClosedStays
  BY RowsStay DEF vars, clock, book, history
<1>2. QED
  BY <1>1, EngineFate, PeopleFate, MachineFate DEF Next

\* The refinement mapping, as Firings sees it.
Fate == [k \in Keys |-> FateOf(k)]

LEMMA ClosedStaysIsClose ==
  ASSUME ClosedStays
  PROVE  /\ Fate' \in [Keys -> {"open", "carried", "closed"}]
         /\ \A k \in Keys : Fate'[k] # Fate[k] => Fate[k] = "open" /\ Fate'[k] = "closed"
<1>1. ASSUME NEW k \in Keys
      PROVE  /\ Fate[k] = FateOf(k) /\ Fate'[k] = FateOf(k)'
             /\ FateOf(k)' \in {"open", "carried", "closed"}
  BY DEF Fate, FateOf
<1>2. ASSUME NEW k \in Keys, FateOf(k)' # FateOf(k)
      PROVE  FateOf(k) = "open" /\ FateOf(k)' = "closed"
  BY <1>2 DEF ClosedStays, FateOf
<1>3. QED
  BY <1>1, <1>2 DEF Fate

LEMMA OneBeginsIsCarryOut ==
  ASSUME IInv, OneBegins
  PROVE  \E k \in Keys : Fate[k] = "open" /\ Fate' = [Fate EXCEPT ![k] = "carried"]
<1>1. PICK k \in Keys :
        /\ ~Closed(k) /\ carried' = carried \cup {k}
        /\ DOMAIN ledger' = DOMAIN ledger \cup {k} /\ DOMAIN rules' = DOMAIN rules
        /\ UNCHANGED <<truth, issued>>
  BY DEF OneBegins
<1>2. k \notin carried
  <2>1. k[2] \in Nat /\ truth \in Nat
    BY Naturals DEF Keys, IInv, TypeOK
  <2>2. k[2] + Retention < truth => k[2] + Grace + MaxJob <= truth
    BY <2>1, Naturals
  <2>3. QED
    BY <1>1, <2>2 DEF Closed, IInv, LedgerKept
<1>3. ASSUME NEW i \in Keys
      PROVE  FateOf(i)' = IF i = k THEN "carried" ELSE FateOf(i)
  <2>1. i # k => (Closed(i)' <=> Closed(i))
    BY <1>1 DEF Closed, Recorded
  <2>2. QED
    BY <1>1, <2>1 DEF FateOf
<1>4. FateOf(k) = "open"
  BY <1>1, <1>2 DEF FateOf
<1>5. QED
  BY <1>3, <1>4 DEF Fate

\* Every step of the engine, of a person or of the machine is a step of Firings,
\* or none: what a restart, a purge, an edit or a clock does to the instants never
\* brings one back.
THEOREM FatesFinal ==
  ASSUME KernelHonest, 0 < Grace
  PROVE  Spec => FatesAreFinal
<1>1. Init => Promise!Init
  <2> SUFFICES ASSUME Init PROVE Promise!Init
    OBVIOUS
  <2>1. ASSUME NEW k \in Keys PROVE FateOf(k) = "open"
    <3>1. k[2] \in Nat /\ truth = 0
      BY Naturals DEF Keys, Init
    <3>2. ~(k[2] + Grace + MaxJob <= truth)
      BY <3>1, Naturals
    <3>3. QED
      BY <3>2 DEF FateOf, Closed, Recorded, Init, EmptyTable
  <2>2. QED
    BY <2>1 DEF Promise!Init, Keys
<1>2. IInv /\ [Next]_vars => [Promise!Next]_Fate
  <2> SUFFICES ASSUME IInv, [Next]_vars PROVE Promise!Next
    OBVIOUS
  <2>1. CASE ClosedStays
    BY <2>1, ClosedStaysIsClose DEF Promise!Next, Promise!Close, Promise!Fates, Fate, Keys
  <2>2. CASE OneBegins
    BY <2>2, OneBeginsIsCarryOut DEF Promise!Next, Promise!CarryOut, Fate, Keys
  <2>3. QED
    BY <2>1, <2>2, NextFate
<1>3. QED
  BY Invariance, <1>1, <1>2, PTL DEF Spec, FatesAreFinal, Promise!Spec, Fate, Keys
=============================================================================
