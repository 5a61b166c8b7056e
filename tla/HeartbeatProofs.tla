--------------------------- MODULE HeartbeatProofs ---------------------------
(***************************************************************************)
(* What the heartbeat of the automation engine has left behind is on       *)
(* record: fired, paused, skipped, missed or held, and never dropped       *)
(* without a word (FR-012, FR-013) - but for what the lines that Records   *)
(* names let go of.                                                        *)
(*                                                                         *)
(* Two tasks record, but only one of them has to: the loop lists, every    *)
(* time it comes round, what the last grace has brought, and after a       *)
(* while without a trusted clock everything since the heartbeat.  The      *)
(* invariant says up to which instant nothing is owed any more at every    *)
(* point of that loop, and what its list still has to make good.           *)
(***************************************************************************)
EXTENDS Records, AutomationProofs, TLAPS

\* An instant that a rule has planned since it was last edited.
Planned(k) ==
  /\ k[1] \in DOMAIN rules
  /\ rules[k[1]].enabled /\ rules[k[1]].reach
  /\ k[2] \in rules[k[1]].plan /\ rules[k[1]].touched < k[2]

\* What should be on record by the time `upto', is not, and was not let go of.
Owed == [upto \in Int |->
  {k \in Keys \ lapsed :
     Planned(k) /\ k[2] <= upto /\ truth <= k[2] + Retention /\ ~Recorded(k)}]

Listed(items) == {Key(x) : x \in items}

\* What a catch-up does not reach, and its heartbeat is going to pass over.
Beyond(now) == {k \in Keys : k[2] <= now - Reach}

\* What is owed at most while the loop stands at `job', under a trusted clock.
OwedAt(job) ==
  /\ job.stage = "idle" /\ phase = "serving" =>
       job.age <= 1 /\ Owed[truth - job.age - MaxJob] = {}
  /\ job.stage = "checked" => Owed[truth - MaxJob] = {}
  /\ job.stage = "late" =>
       /\ job.catching
       /\ Owed[job.now - Grace] \subseteq Listed(job.due) \cup Beyond(job.now)
  /\ job.stage = "run" =>
       /\ Fresh(job)
       /\ job.catching => Owed[job.now] \subseteq Listed(job.due) \cup Beyond(job.now)
       /\ ~job.catching => Owed[job.now] \subseteq Listed(job.due)

\* No heartbeat is ahead of the time, and none has left anything behind.
Beaten == heartbeat \in Times \cup {None} /\ heartbeat <= truth /\ Owed[heartbeat] = {}

RecordsKept == Beaten /\ (Reliable /\ phase # "down" => OwedAt(Pump))

\* A clock the kernel calls synchronised is right, and a run of the engine is over
\* before the grace is.
Household == KernelHonest /\ MaxJob < Grace

\* Where a step is looked at.
Setting == Household /\ IInv /\ IInv' /\ RecordsKept /\ Lapse

-----------------------------------------------------------------------------
(* What is owed.                                                           *)

LEMMA NeverBehind == Household => Behind = 0
<1> SUFFICES ASSUME Household PROVE Behind = 0
  OBVIOUS
<1>1. KernelHonest
  BY DEF Household
<1>2. QED
  BY <1>1 DEF Behind

LEMMA KeyType == ASSUME NEW k \in Keys PROVE k[1] \in Rules /\ k[2] \in Times /\ k[2] \in Nat
BY Naturals DEF Keys

LEMMA TrustedClock ==
  ASSUME Household, IInv, Reliable, phase # "down"
  PROVE  lag = 0 /\ Wall = truth
<1>1. lag <= Behind
  BY DEF IInv, ClockKept
<1>2. lag \in Nat /\ truth \in Nat
  BY Naturals DEF IInv, TypeOK, Times
<1>3. QED
  BY <1>1, <1>2, NeverBehind DEF Wall

LEMMA FreshIsExact ==
  ASSUME Household, NEW job \in Job, Fresh(job), truth \in Times
  PROVE  truth = job.now + job.age
<1>1. job.now \in Nat /\ job.age \in Nat /\ truth \in Nat
  BY Naturals DEF Job
<1>2. QED
  BY <1>1, NeverBehind DEF Fresh

\* Less is owed by an earlier time.
LEMMA OwedBefore ==
  ASSUME NEW a \in Int, NEW b \in Int, a <= b
  PROVE  Owed[a] \subseteq Owed[b]
<1> SUFFICES ASSUME NEW k \in Owed[a] PROVE k \in Owed[b]
  OBVIOUS
<1>1. k \in Keys /\ k[2] <= a
  BY DEF Owed
<1>2. k[2] <= b
  BY <1>1, KeyType
<1>3. QED
  BY <1>2 DEF Owed

\* What a step leaves owed: it edits no rule by an earlier time, and it lets go of a
\* row only with its rule or when it is old.
LEMMA OwedDwindles ==
  ASSUME IInv, IInv', NEW upto \in Int, truth <= truth', lapsed \subseteq lapsed',
         \A k \in Keys \ lapsed' :
           /\ k[1] \in DOMAIN rules' /\ k[2] \in rules'[k[1]].plan
           /\ rules'[k[1]].touched < k[2] /\ k[2] <= upto
           => k[1] \in DOMAIN rules /\ rules'[k[1]] = rules[k[1]],
         \A k \in DOMAIN ledger :
           k \in DOMAIN ledger' \/ k[1] \notin DOMAIN rules' \/ k[2] + Retention < truth'
  PROVE  Owed'[upto] \subseteq Owed[upto]
<1> SUFFICES ASSUME NEW k \in Owed'[upto] PROVE k \in Owed[upto]
  OBVIOUS
<1>1. /\ k \in Keys /\ k[1] \in DOMAIN rules'
      /\ rules'[k[1]].enabled /\ rules'[k[1]].reach
      /\ k[2] \in rules'[k[1]].plan /\ rules'[k[1]].touched < k[2]
      /\ k[2] <= upto /\ truth' <= k[2] + Retention /\ k \notin DOMAIN ledger'
      /\ k \notin lapsed'
  BY DEF Owed, Planned, Recorded, Keys
<1>2. k[2] \in Nat /\ truth \in Nat /\ truth' \in Nat /\ rules'[k[1]].touched \in Nat
  <2>1. k[2] \in Times /\ truth \in Times /\ truth' \in Times
    BY <1>1 DEF Keys, IInv, TypeOK
  <2>2. rules'[k[1]] \in Rule
    BY <1>1 DEF IInv, TypeOK, IsTable
  <2>3. QED
    BY <2>1, <2>2, Naturals DEF Rule
<1>3. k[1] \in DOMAIN rules /\ rules'[k[1]] = rules[k[1]]
  BY <1>1, <1>2
<1>4. k \notin DOMAIN ledger
  BY <1>1, <1>2, Naturals
<1>5. truth <= k[2] + Retention
  BY <1>1, <1>2, Naturals
<1>6. QED
  BY <1>1, <1>3, <1>4, <1>5 DEF Owed, Planned, Recorded

\* A list makes good what has come since the time before it.
LEMMA DueMakesGood ==
  ASSUME IInv, NEW from \in Int, NEW to \in Int
  PROVE  Owed[to] \subseteq Listed(Due(from, to)) \cup Owed[from]
<1> SUFFICES ASSUME NEW k \in Owed[to], k \notin Owed[from]
             PROVE  k \in Listed(Due(from, to))
  OBVIOUS
<1>1. /\ k \in Keys \ lapsed /\ Planned(k) /\ k[2] <= to /\ ~Recorded(k)
      /\ truth <= k[2] + Retention
  BY DEF Owed
<1>2. PICK r \in Rules, p \in Times : k = <<r, p>>
  BY <1>1 DEF Keys
<1>3. from < p
  <2>1. p \in Int
    BY Naturals
  <2>2. ~(p <= from)
    BY <1>1, <1>2 DEF Owed
  <2>3. QED
    BY <2>1, <2>2
<1>4. PICK x : x = [at |-> p, rule |-> r, created |-> rules[r].created, skip |-> rules[r].skip]
  OBVIOUS
<1>5. r \in {s \in DOMAIN rules : rules[s].enabled /\ rules[s].reach}
      /\ p \in {q \in rules[r].plan : from < q /\ q <= to /\ ~Recorded(<<r, q>>)}
  BY <1>1, <1>2, <1>3 DEF Planned
<1>6. x \in Due(from, to)
  BY <1>4, <1>5 DEF Due
<1>7. Key(x) = k
  BY <1>2, <1>4 DEF Key
<1>8. QED
  BY <1>6, <1>7 DEF Listed

\* A list made just now holds no rule that has gone.
LEMMA DueExists ==
  ASSUME NEW from, NEW to, NEW x \in Due(from, to)
  PROVE  x.rule \in DOMAIN rules
<1>1. PICK r \in DOMAIN rules : \E p \in rules[r].plan :
        x = [at |-> p, rule |-> r, created |-> rules[r].created, skip |-> rules[r].skip]
  BY DEF Due
<1>2. QED
  BY <1>1

LEMMA LateExists ==
  ASSUME NEW now
  PROVE  \A x \in LateItems(now) : x.rule \in DOMAIN rules
BY DueExists DEF LateItems

LEMMA RunExists ==
  ASSUME NEW now
  PROVE  \A x \in RunItems(now) : x.rule \in DOMAIN rules
BY DueExists DEF RunItems

-----------------------------------------------------------------------------
(* What any step leaves owed.                                              *)

\* Whoever writes to a rule dates it.
EditedNow ==
  \A r \in DOMAIN rules' :
    rules'[r].touched = Wall \/ (r \in DOMAIN rules /\ rules'[r] = rules[r])

\* A row goes with its rule, or when it is old.
RowsKept ==
  \A k \in DOMAIN ledger :
    k \in DOMAIN ledger' \/ k[1] \notin DOMAIN rules' \/ k[2] + Retention < truth'

Careful == EditedNow /\ RowsKept /\ truth \in Nat /\ truth' \in {truth, truth + 1}

\* The clock is trusted, and so an edit is dated by the time it is.
LEMMA TrustedDwindles ==
  ASSUME Setting, Careful, Reliable, phase # "down", NEW upto \in Int, upto <= truth
  PROVE  Owed'[upto] \subseteq Owed[upto]
<1>1. Wall = truth
  BY TrustedClock DEF Setting
<1>2. truth <= truth'
  BY DEF Careful
<1>3. ASSUME NEW k \in Keys, k[1] \in DOMAIN rules', rules'[k[1]].touched < k[2], k[2] <= upto
      PROVE  k[1] \in DOMAIN rules /\ rules'[k[1]] = rules[k[1]]
  <2>1. k[2] \in Nat /\ truth \in Nat
    BY KeyType DEF Careful
  <2>2. rules'[k[1]].touched # truth
    BY <1>3, <2>1
  <2>3. QED
    BY <1>1, <1>3, <2>2 DEF Careful, EditedNow
<1>4. lapsed \subseteq lapsed'
  BY DEF Setting, Lapse
<1>5. QED
  BY <1>2, <1>3, <1>4, OwedDwindles DEF Setting, Careful, RowsKept

\* The clock may be in doubt, and what is edited by one behind the heartbeat is let go.
LEMMA BeatenStays ==
  ASSUME Setting, Careful, heartbeat' = heartbeat
  PROVE  Beaten'
<1>1. heartbeat \in Times \cup {None} /\ heartbeat <= truth /\ Owed[heartbeat] = {}
  BY DEF Setting, RecordsKept, Beaten
<1>2. PICK h \in Times \cup {None} : h = heartbeat
  BY <1>1
<1>3. h \in Int /\ truth <= truth' /\ h <= truth'
  BY <1>1, <1>2, Naturals DEF Careful, None
<1>4. ASSUME NEW k \in Keys \ lapsed',
             k[1] \in DOMAIN rules', k[2] \in rules'[k[1]].plan,
             rules'[k[1]].touched < k[2], k[2] <= h
      PROVE  k[1] \in DOMAIN rules /\ rules'[k[1]] = rules[k[1]]
  <2>1. k \notin EditedBehind
    BY DEF Setting, Lapse
  <2>2. CASE rules'[k[1]].touched = Wall
    BY <1>2, <1>4, <2>1, <2>2 DEF EditedBehind, Keys
  <2>3. QED
    BY <1>4, <2>2 DEF Careful, EditedNow
<1>5. lapsed \subseteq lapsed'
  BY DEF Setting, Lapse
<1>6. Owed'[h] \subseteq Owed[h]
  BY <1>3, <1>4, <1>5, OwedDwindles DEF Setting, Careful, RowsKept
<1>7. QED
  BY <1>1, <1>2, <1>3, <1>6 DEF Beaten

\* Where the loop stands still, what it has to make good does not grow.
LEMMA OwedAtStays ==
  ASSUME Setting, Careful, Reliable, phase # "down", UNCHANGED <<truth, phase, heartbeat>>,
         NEW job \in Job, JobKept("pump", job), OwedAt(job)
  PROVE  OwedAt(job)'
<1>1. truth \in Nat /\ MaxJob \in Nat /\ Grace \in Nat /\ job.now \in Nat /\ job.age \in Nat
  BY Naturals DEF Careful, Job
<1>2. ASSUME NEW upto \in Int, upto <= truth PROVE Owed'[upto] \subseteq Owed[upto]
  BY <1>2, TrustedDwindles
<1>3. CASE job.stage = "idle"
  <2>1. Owed'[truth - job.age - MaxJob] \subseteq Owed[truth - job.age - MaxJob]
    BY <1>1, <1>2
  <2>2. QED
    BY <1>3, <2>1 DEF OwedAt
<1>4. CASE job.stage = "checked"
  <2>1. Owed'[truth - MaxJob] \subseteq Owed[truth - MaxJob]
    BY <1>1, <1>2
  <2>2. QED
    BY <1>4, <2>1 DEF OwedAt
<1>5. CASE job.stage = "late"
  <2>1. job.now <= truth
    BY <1>1, <1>5 DEF JobKept, Fresh
  <2>2. Owed'[job.now - Grace] \subseteq Owed[job.now - Grace]
    BY <1>1, <1>2, <2>1
  <2>3. QED
    BY <1>5, <2>2 DEF OwedAt, Beyond, Reach
<1>6. CASE job.stage = "run"
  <2>1. Fresh(job) /\ job.now <= truth
    BY <1>1, <1>6 DEF OwedAt, Fresh
  <2>2. Owed'[job.now] \subseteq Owed[job.now]
    BY <1>1, <1>2, <2>1
  <2>3. QED
    BY <1>6, <2>1, <2>2 DEF OwedAt, Fresh, Beyond, Reach
<1>7. CASE job.stage = "checking"
  BY <1>7 DEF OwedAt
<1>8. QED
  BY <1>3, <1>4, <1>5, <1>6, <1>7 DEF Job

\* What the timer's run, a person and the kernel do.
LEMMA BystanderKeeps ==
  ASSUME Setting, Careful, UNCHANGED <<truth, verdict, phase, heartbeat>>, Pump' = Pump
  PROVE  RecordsKept'
<1>1. PICK job \in Job : job = Pump /\ JobKept("pump", job)
  BY DEF Pump, Setting, IInv, TypeOK, JobsKept, Jobs
<1>2. ASSUME Reliable', phase' # "down" PROVE OwedAt(Pump)'
  <2>1. Reliable /\ phase # "down"
    BY <1>2 DEF Reliable
  <2>2. OwedAt(job)
    BY <1>1, <2>1 DEF Setting, RecordsKept
  <2>3. OwedAt(job)'
    BY <1>1, <2>1, <2>2, OwedAtStays
  <2>4. QED
    BY <1>1, <2>3 DEF OwedAt, Fresh, Beyond, Reach
<1>3. QED
  BY <1>2, BeatenStays DEF RecordsKept

-----------------------------------------------------------------------------
(* The loop's own run.                                                     *)

\* A list without the entry that has just been recorded.
LEMMA ListShrinks ==
  ASSUME Setting, Careful, Reliable, phase # "down", UNCHANGED <<truth, phase, heartbeat>>,
         NEW job, Sound("pump", job), OwedAt(job), Left(job) # {},
         job.stage \in {"late", "run"},
         DOMAIN ledger \cup {Key(Turn(job))} \subseteq DOMAIN ledger',
         NEW new \in Job, new.due = Rest(job).due, new.stage = job.stage, new.now = job.now,
         new.age = job.age, new.catching = job.catching
  PROVE  OwedAt(new)'
<1>1. job \in Job /\ JobKept("pump", job)
  BY DEF Sound
<1>2. OwedAt(job)'
  BY <1>1, OwedAtStays
<1>3. new.due = Left(job) \ {Turn(job)}
  BY <1>1 DEF Rest, Job
<1>4. ASSUME NEW upto \in Int, NEW other, Owed'[upto] \subseteq Listed(job.due) \cup other
      PROVE  Owed'[upto] \subseteq Listed(new.due) \cup other
  <2> SUFFICES ASSUME NEW k \in Owed'[upto], k \notin other PROVE k \in Listed(new.due)
    OBVIOUS
  <2>1. k \notin DOMAIN ledger'
    BY DEF Owed, Recorded
  <2>2. PICK y \in job.due : k = Key(y)
    BY <1>4 DEF Listed
  <2>3. y \in Left(job) /\ y # Turn(job)
    BY <2>1, <2>2 DEF Left, Recorded
  <2>4. QED
    BY <1>3, <2>2, <2>3 DEF Listed
<1>5. job.now \in Int /\ job.now - Grace \in Int
  <2>1. job.now \in Nat /\ Grace \in Nat
    BY <1>1, Naturals DEF Job
  <2>2. QED
    BY <2>1
<1>6. CASE job.stage = "late"
  <2>1. Owed'[new.now - Grace] \subseteq Listed(new.due) \cup Beyond(new.now)'
    BY <1>2, <1>4, <1>5, <1>6 DEF OwedAt
  <2>2. QED
    BY <1>2, <1>6, <2>1 DEF OwedAt
<1>7. CASE job.stage = "run"
  <2>1. ASSUME job.catching
        PROVE  Owed'[new.now] \subseteq Listed(new.due) \cup Beyond(new.now)'
    BY <1>2, <1>4, <1>5, <1>7, <2>1 DEF OwedAt
  <2>2. ASSUME ~job.catching
        PROVE  Owed'[new.now] \subseteq Listed(new.due)
    <3>1. Owed'[job.now] \subseteq Listed(job.due) \cup {}
      BY <1>2, <1>7, <2>2 DEF OwedAt
    <3>2. QED
      BY <1>4, <1>5, <3>1
  <2>3. QED
    BY <1>2, <1>7, <2>1, <2>2 DEF OwedAt, Fresh
<1>8. QED
  BY <1>6, <1>7

\* Whatever a step makes of the loop, it says what is owed there.
LEMMA PumpMoves ==
  ASSUME Setting, NEW new \in Job, Pump' = new, Beaten',
         Reliable' /\ phase' # "down" => OwedAt(new)'
  PROVE  RecordsKept'
<1>1. OwedAt(new)' => OwedAt(Pump)'
  BY DEF OwedAt, Fresh, Beyond, Reach
<1>2. QED
  BY <1>1 DEF RecordsKept

LEMMA PumpWritten ==
  ASSUME IInv, NEW new, task' = [task EXCEPT !["pump"] = new]
  PROVE  Pump' = new
BY DEF IInv, TypeOK, Jobs, Pump

LEMMA FireCareful ==
  ASSUME IInv, NEW j \in Jobs, NEW job, NEW t, Sound(j, job), Left(job) # {}, Fire(j, job, t)
  PROVE  /\ Careful /\ UNCHANGED <<truth, verdict, phase, heartbeat>>
         /\ DOMAIN ledger \cup {Key(Turn(job))} \subseteq DOMAIN ledger'
<1>1. PICK x : x = Turn(job)
  OBVIOUS
<1>2. PICK status : ledger' = Put(ledger, Key(x), status)
  BY <1>1 DEF Fire
<1>3. DOMAIN ledger' = DOMAIN ledger \cup {Key(x)}
  BY <1>2 DEF Put
<1>4. /\ rules' = rules \/ Touch(x.rule, [rules[x.rule] EXCEPT !.skip = None])
      /\ UNCHANGED <<clock, process, heartbeat>>
      /\ x.rule \in DOMAIN rules
  BY <1>1 DEF Fire
<1>5. EditedNow
  <2>1. CASE rules' = rules
    BY <2>1 DEF EditedNow
  <2>2. CASE Touch(x.rule, [rules[x.rule] EXCEPT !.skip = None])
    <3>1. PICK rule : rule = [rules[x.rule] EXCEPT !.skip = None]
      OBVIOUS
    <3>2. rule \in Rule
      BY <1>4, <3>1, RuleType DEF Rule
    <3>3. [rule EXCEPT !.touched = Wall].touched = Wall
      BY <3>2 DEF Rule
    <3>4. QED
      BY <2>2, <3>1, <3>3 DEF Touch, Put, EditedNow
  <2>3. QED
    BY <1>4, <2>1, <2>2
<1>6. truth \in Nat
  BY Naturals DEF IInv, TypeOK
<1>7. QED
  BY <1>1, <1>3, <1>4, <1>5, <1>6 DEF Careful, RowsKept, clock, process

\* The entry that is fired is recorded before anything is awaited.
LEMMA FireRecords ==
  ASSUME Setting, NEW job, NEW t, Sound("pump", job), job.stage = "run",
         Reliable => OwedAt(job), Left(job) # {}, Fire("pump", job, t)
  PROVE  RecordsKept'
<1>1. IInv /\ "pump" \in Jobs /\ phase # "down"
  BY DEF Setting, Jobs, Sound
<1>2. /\ Careful /\ UNCHANGED <<truth, verdict, phase, heartbeat>>
      /\ DOMAIN ledger \cup {Key(Turn(job))} \subseteq DOMAIN ledger'
  BY <1>1, FireCareful
<1>3. PICK new \in Job :
        /\ task' = [task EXCEPT !["pump"] = new]
        /\ new.due = Rest(job).due /\ new.stage = job.stage /\ new.now = job.now
        /\ new.age = job.age /\ new.catching = job.catching
  <2>1. PICK r \in Job : r = Rest(job)
    BY <1>1, RestKept
  <2>2. r.stage = job.stage /\ r.now = job.now /\ r.age = job.age /\ r.catching = job.catching
    BY <2>1 DEF Rest, Sound, Job
  <2>3. CASE task' = [task EXCEPT !["pump"] = Rest(job)]
    BY <2>1, <2>2, <2>3
  <2>4. CASE task' = [task EXCEPT !["pump"] = [Rest(job) EXCEPT !.hand = {Turn(job)}]]
    <3>1. Turn(job) \in Item
      BY TurnInDue DEF Sound
    <3>2. PICK n : n = [r EXCEPT !.hand = {Turn(job)}]
      OBVIOUS
    <3>3. /\ n \in Job /\ n.due = r.due /\ n.stage = r.stage /\ n.now = r.now
          /\ n.age = r.age /\ n.catching = r.catching
      BY <3>1, <3>2 DEF Job
    <3>4. QED
      BY <2>1, <2>2, <2>4, <3>2, <3>3
  <2>5. QED
    BY <2>3, <2>4 DEF Fire
<1>4. Pump' = new
  BY <1>1, <1>3, PumpWritten
<1>5. ASSUME Reliable', phase' # "down" PROVE OwedAt(new)'
  <2>1. Reliable
    BY <1>2, <1>5 DEF Reliable
  <2>2. QED
    BY <1>1, <1>2, <1>3, <2>1, ListShrinks
<1>6. QED
  BY <1>2, <1>4, <1>5, BeatenStays, PumpMoves

LEMMA WriteOffRecords ==
  ASSUME Setting, NEW job, NEW t, Sound("pump", job), job.stage = "late",
         Reliable => OwedAt(job), Left(job) # {}, WriteOff(job, t)
  PROVE  RecordsKept'
<1>1. IInv /\ "pump" \in Jobs /\ phase # "down"
  BY DEF Setting, Jobs, Sound
<1>2. PICK status : ledger' = Put(ledger, Key(Turn(job)), status)
  BY DEF WriteOff
<1>3. DOMAIN ledger \cup {Key(Turn(job))} \subseteq DOMAIN ledger'
  BY <1>2 DEF Put
<1>4. /\ UNCHANGED <<truth, verdict, phase, heartbeat, rules>>
      /\ task' = [task EXCEPT !["pump"] = Rest(job)]
  BY DEF WriteOff, clock, process, book
<1>5. Careful
  <2>1. truth \in Nat
    BY <1>1, Naturals DEF IInv, TypeOK
  <2>2. QED
    BY <1>3, <1>4, <2>1 DEF Careful, EditedNow, RowsKept
<1>6. PICK new \in Job : new = Rest(job)
  BY <1>1, RestKept
<1>7. new.stage = job.stage /\ new.now = job.now /\ new.age = job.age /\ new.catching = job.catching
  BY <1>6 DEF Rest, Sound, Job
<1>8. Pump' = new
  BY <1>1, <1>4, <1>6, PumpWritten
<1>9. ASSUME Reliable', phase' # "down" PROVE OwedAt(new)'
  <2>1. Reliable
    BY <1>4, <1>9 DEF Reliable
  <2>2. QED
    BY <1>1, <1>3, <1>4, <1>5, <1>6, <1>7, <2>1, ListShrinks
<1>10. QED
  BY <1>4, <1>5, <1>8, <1>9, BeatenStays, PumpMoves

\* A list that is through has made everything good.
LEMMA NothingLeft ==
  ASSUME NEW job, Left(job) = {}, NEW upto \in Int, NEW other,
         Owed[upto] \subseteq Listed(job.due) \cup other
  PROVE  Owed[upto] \subseteq other
<1> SUFFICES ASSUME NEW k \in Owed[upto], k \notin other PROVE FALSE
  OBVIOUS
<1>1. ~Recorded(k)
  BY DEF Owed
<1>2. PICK x \in job.due : k = Key(x)
  BY DEF Listed
<1>3. x \in Left(job)
  BY <1>1, <1>2 DEF Left
<1>4. QED
  BY <1>3

LEMMA RunDoneCareful ==
  ASSUME IInv, NEW j \in Jobs, NEW job, NEW t, RunDone(j, job, t)
  PROVE  Careful /\ UNCHANGED <<truth, verdict, rules>>
<1>1. ledger' \in {ledger, Purged} /\ UNCHANGED <<truth, verdict, rules>>
  BY DEF RunDone, clock, book
<1>2. truth \in Nat /\ Wall \in Nat /\ Wall <= truth
  BY Naturals, WallType DEF IInv, TypeOK
<1>3. ASSUME NEW k \in DOMAIN ledger, k \notin DOMAIN Purged
      PROVE  k[2] + Retention < truth
  <2>1. k[2] \in Nat
    BY Naturals DEF IInv, TypeOK, IsTable
  <2>2. k[2] < Wall - Retention
    BY <1>2, <1>3, <2>1, Naturals DEF Purged
  <2>3. QED
    BY <1>2, <2>1, <2>2, Naturals
<1>4. QED
  BY <1>1, <1>2, <1>3 DEF Careful, EditedNow, RowsKept

\* The heartbeat comes behind the list.  It is of the time the list was made by, or of
\* a later one, and what has come in between is let go.
LEMMA RunDoneRecords ==
  ASSUME Setting, NEW job, NEW t, Sound("pump", job), job.stage = "run",
         Reliable => OwedAt(job), Left(job) = {}, RunDone("pump", job, t),
         Reliable => job.catching \/ job.now = Wall \/ job = Pump
  PROVE  RecordsKept'
<1>1. IInv /\ "pump" \in Jobs /\ phase # "down" /\ job \in Job
  BY DEF Setting, Jobs, Sound
<1>2. Careful /\ UNCHANGED <<truth, verdict, rules>>
  BY <1>1, RunDoneCareful
<1>3. PICK new \in Job :
        /\ task' = [task EXCEPT !["pump"] = new]
        /\ new.stage \in {"idle", "checked"} /\ new.age \in {0, 1}
  <2>1. PICK a \in Job : a = IdleJob
    BY IdleJobType
  <2>2. PICK b \in Job : b = [IdleJob EXCEPT !.age = 1]
    BY IdleJobType
  <2>3. PICK c \in Job : c = NewJob("checked", 0, {}, FALSE)
    BY Naturals DEF NewJob, Job
  <2>4. /\ a.stage = "idle" /\ a.age = 0 /\ b.stage = "idle" /\ b.age = 1
        /\ c.stage = "checked" /\ c.age = 0
    BY <2>1, <2>2, <2>3 DEF IdleJob, NewJob
  <2>5. task' \in {[task EXCEPT !["pump"] = a], [task EXCEPT !["pump"] = b],
                   [task EXCEPT !["pump"] = c]}
    BY <2>1, <2>2, <2>3 DEF RunDone
  <2>6. QED
    BY <2>4, <2>5
<1>4. Pump' = new
  BY <1>1, <1>3, PumpWritten
<1>5. CASE ~Reliable
  <2>1. heartbeat' = heartbeat
    BY <1>5 DEF RunDone, Beat
  <2>2. ~Reliable'
    BY <1>2, <1>5 DEF Reliable
  <2>3. QED
    BY <1>2, <1>4, <2>1, <2>2, BeatenStays, PumpMoves
<1>6. CASE Reliable
  <2>1. job.now \in Nat /\ job.now \in Times /\ job.age \in Nat /\ truth \in Nat /\ truth \in Times
        /\ MaxJob \in Nat
    BY <1>1, Naturals DEF Job, IInv, TypeOK
  <2>2. truth = job.now + job.age /\ job.age <= MaxJob
    <3>1. Fresh(job) /\ job.age <= MaxJob
      BY <1>6 DEF OwedAt, Sound, JobKept
    <3>2. QED
      BY <1>1, <2>1, <3>1, FreshIsExact DEF Setting
  <2>3. Wall = truth
    BY <1>1, <1>6, TrustedClock DEF Setting
  <2>4. ASSUME NEW upto \in Int, upto <= truth
        PROVE  Owed'[upto] \subseteq Owed[upto]
    BY <1>1, <1>2, <1>6, <2>4, TrustedDwindles
  <2>5. ASSUME NEW k \in Keys, NEW upto \in Int, upto <= truth, k \in Owed'[upto]
        PROVE  k \in Unrecorded /\ k \notin Overtaken /\ k[2] \in Nat /\ k[2] <= upto
    <3>1. k \in Owed[upto] /\ k \notin lapsed'
      BY <2>4, <2>5 DEF Owed
    <3>2. k \in Unrecorded
      BY <3>1 DEF Owed, Planned, Unrecorded, Keys
    <3>3. k \notin Overtaken
      BY <3>1 DEF Setting, Lapse
    <3>4. QED
      BY <3>1, <3>2, <3>3, KeyType DEF Owed
  <2>10. ASSUME NEW upto \in Int, upto <= job.now
        PROVE  Owed'[upto] = {}
    <3> SUFFICES ASSUME NEW k \in Owed'[upto] PROVE FALSE
      OBVIOUS
    <3>1. upto <= truth /\ job.now \in Int
      BY <2>1, <2>2, <2>10
    <3>2. k \in Keys
      BY DEF Owed
    <3>3. k \in Unrecorded /\ k \notin Overtaken /\ k[2] \in Nat /\ k[2] <= upto
      BY <2>5, <3>1, <3>2
    <3>4. k \in Owed[job.now]
      BY <2>4, <2>10, <3>1, OwedBefore
    <3>5. CASE ~job.catching
      <4>1. Owed[job.now] \subseteq Listed(job.due) \cup {}
        BY <1>6, <3>5 DEF OwedAt
      <4>2. Owed[job.now] \subseteq {}
        BY <3>1, <4>1, NothingLeft
      <4>3. QED
        BY <3>4, <4>2
    <3>6. CASE job.catching
      <4>1. Owed[job.now] \subseteq Listed(job.due) \cup Beyond(job.now)
        BY <1>6, <3>6 DEF OwedAt
      <4>2. k \in Beyond(job.now)
        BY <3>1, <3>4, <4>1, NothingLeft
      <4>3. heartbeat' = job.now
        BY <1>6, <3>6 DEF RunDone, Beat
      <4>4. CASE heartbeat' # heartbeat
        <5>1. k[2] <= heartbeat' /\ k[2] <= heartbeat' - Reach
          BY <2>1, <2>10, <3>3, <4>2, <4>3 DEF Beyond
        <5>2. QED
          BY <3>3, <4>4, <5>1 DEF Overtaken
      <4>5. CASE heartbeat' = heartbeat
        <5>1. Owed[job.now] = {}
          BY <4>3, <4>5 DEF Setting, RecordsKept, Beaten
        <5>2. QED
          BY <3>4, <5>1
      <4>6. QED
        BY <4>4, <4>5
    <3>7. QED
      BY <3>5, <3>6
  <2>6. Beaten'
    <3>1. CASE heartbeat' = heartbeat
      BY <1>2, <3>1, BeatenStays
    <3>2. CASE heartbeat' = job.now
      <4>1. job.now <= truth' /\ job.now \in Int
        BY <1>2, <2>1, <2>2
      <4>2. Owed'[job.now] = {}
        BY <2>10, <4>1
      <4>3. QED
        BY <2>1, <3>2, <4>1, <4>2 DEF Beaten
    <3>3. CASE heartbeat' = Wall /\ heartbeat' # heartbeat /\ job.now # Wall /\ ~job.catching
      <4>1. job = Pump
        BY <1>6, <3>3
      <4>2. Owed'[truth] = {}
        <5> SUFFICES ASSUME NEW k \in Owed'[truth] PROVE FALSE
          OBVIOUS
        <5>1. truth \in Int /\ truth <= truth /\ k \in Keys
          BY <2>1 DEF Owed
        <5>2. k \in Unrecorded /\ k \notin Overtaken /\ k[2] \in Nat /\ k[2] <= truth
          BY <2>5, <5>1
        <5>3. CASE k[2] <= job.now
          <6>1. Owed'[job.now] = {} /\ job.now \in Int
            BY <2>1, <2>10
          <6>2. k \in Owed'[job.now]
            BY <2>1, <5>3, <6>1 DEF Owed
          <6>3. QED
            BY <6>1, <6>2
        <5>4. CASE job.now < k[2]
          BY <2>3, <3>3, <4>1, <5>2, <5>4 DEF Overtaken
        <5>5. QED
          BY <2>1, <5>2, <5>3, <5>4
      <4>3. truth <= truth'
        BY <1>2, <2>1
      <4>4. QED
        BY <2>1, <2>3, <3>3, <4>2, <4>3 DEF Beaten
    <3>4. heartbeat' \in {heartbeat, Wall} \/ heartbeat' = job.now
      BY DEF RunDone, Beat
    <3>5. job.catching => heartbeat' = job.now
      BY <1>6 DEF RunDone, Beat
    <3>6. QED
      BY <3>1, <3>2, <3>3, <3>4, <3>5
  <2>7. OwedAt(new)'
    <3>1. truth - MaxJob \in Int /\ truth - MaxJob <= job.now
          /\ truth - new.age - MaxJob \in Int /\ truth - new.age - MaxJob <= job.now
      BY <1>3, <2>1, <2>2
    <3>2. Owed'[truth - MaxJob] = {} /\ Owed'[truth - new.age - MaxJob] = {}
      BY <2>10, <3>1
    <3>3. new.age <= 1
      BY <1>3
    <3>4. QED
      BY <1>2, <1>3, <3>2, <3>3 DEF OwedAt
  <2>8. QED
    BY <1>4, <2>6, <2>7, PumpMoves
<1>7. QED
  BY <1>5, <1>6

\* A list made just now holds no rule that has gone.
LEMMA AllExist ==
  ASSUME NEW job \in Job, NEW t, Left(job) # {}, \A x \in job.due : x.rule \in DOMAIN rules
  PROVE  ~RuleGone("pump", job, t)
BY TurnInDue DEF RuleGone

\* A run of the loop up to the next await.
LEMMA ProceedRecords ==
  ASSUME Setting, NEW job, NEW t, Sound("pump", job), job.stage = "run",
         Reliable => OwedAt(job), Proceed("pump", job, t),
         Left(job) # {} => ~RuleGone("pump", job, t),
         Reliable => job.catching \/ job.now = Wall \/ job = Pump
  PROVE  RecordsKept'
BY FireRecords, RunDoneRecords DEF Proceed

LEMMA CatchUpRecords ==
  ASSUME Setting, NEW job, NEW t, Sound("pump", job), job.stage = "late",
         Reliable => OwedAt(job), CatchUp(job, t),
         Left(job) # {} => ~RuleGone("pump", job, t)
  PROVE  RecordsKept'
<1>1. IInv /\ "pump" \in Jobs /\ phase # "down" /\ job \in Job /\ JobKept("pump", job)
  BY DEF Setting, Jobs, Sound
<1>2. CASE Left(job) = {}
  <2>1. PICK run : run = [job EXCEPT !.stage = "run", !.due = RunItems(job.now)]
    OBVIOUS
  <2>2. RunItems(job.now) \subseteq Item
        /\ \A x \in RunItems(job.now) : job.now - Grace < x.at /\ x.at <= job.now
    BY <1>1, RunItemsType DEF Job, IInv
  <2>3. /\ run \in Job /\ run.stage = "run" /\ run.due = RunItems(job.now)
        /\ run.hand = {} /\ run.now = job.now /\ run.age = job.age /\ run.catching = job.catching
    BY <2>1, <2>2 DEF Sound, Job
  <2>4. Fresh(job) /\ job.age <= MaxJob
    BY DEF Sound, JobKept
  <2>5. Sound("pump", run)
    BY <1>1, <2>2, <2>3, <2>4 DEF Sound, JobKept, InWindow, Fresh
  <2>6. Proceed("pump", run, t)
    BY <1>2, <2>1 DEF CatchUp
  <2>7. ASSUME Reliable PROVE OwedAt(run)
    <3>0. OwedAt(job)
      BY <2>7
    <3>1. job.now \in Nat /\ Grace \in Nat
      BY <1>1, Naturals DEF Job
    <3>2. job.now \in Int /\ job.now - Grace \in Int
      BY <3>1
    <3>3. Owed[job.now - Grace] \subseteq Beyond(job.now) /\ job.catching
      BY <1>2, <3>0, <3>2, NothingLeft DEF OwedAt
    <3>4. Owed[job.now] \subseteq Listed(run.due) \cup Owed[job.now - Grace]
      BY <1>1, <2>3, <2>7, <3>2, DueMakesGood DEF RunItems
    <3>5. Owed[run.now] \subseteq Listed(run.due) \cup Beyond(run.now)
      BY <2>3, <3>3, <3>4
    <3>6. Fresh(run)
      BY <2>3, <2>4 DEF Fresh
    <3>7. QED
      BY <2>3, <3>3, <3>5, <3>6 DEF OwedAt
  <2>8. Reliable => run.catching
    BY <2>3 DEF OwedAt
  <2>9. Left(run) # {} => ~RuleGone("pump", run, t)
    BY <2>3, RunExists, AllExist
  <2>10. QED
    BY <2>3, <2>5, <2>6, <2>7, <2>8, <2>9, ProceedRecords
<1>3. CASE Left(job) # {}
  BY <1>3, WriteOffRecords DEF CatchUp
<1>4. QED
  BY <1>2, <1>3

\* A run by a clock read just now, after the loop has been away for less than the grace.
LEMMA NewRunRecords ==
  ASSUME Setting, phase # "down", NEW t, NEW due, due \in {{}, RunItems(Wall)},
         Reliable => due = RunItems(Wall) /\ Owed[truth - Grace] = {},
         Proceed("pump", NewJob("run", Wall, due, FALSE), t)
  PROVE  RecordsKept'
<1>1. IInv /\ "pump" \in Jobs /\ Household
  BY DEF Setting, Jobs
<1>2. PICK job : job = NewJob("run", Wall, due, FALSE)
  OBVIOUS
<1>3. Sound("pump", job) /\ job.stage = "run"
  BY <1>1, <1>2, NewRunSound
<1>4. /\ job \in Job /\ job.now = Wall /\ job.due = due /\ job.age = 0 /\ job.catching = FALSE
  BY <1>2, <1>3 DEF NewJob, Sound
<1>5. ASSUME Reliable PROVE OwedAt(job)
  <2>1. Wall = truth /\ truth \in Nat /\ Grace \in Nat
    BY <1>1, <1>5, TrustedClock, Naturals DEF IInv, TypeOK
  <2>2. truth \in Int /\ truth - Grace \in Int
    BY <2>1
  <2>3. Owed[truth] \subseteq Listed(Due(truth - Grace, truth)) \cup Owed[truth - Grace]
    BY <1>1, <2>2, DueMakesGood
  <2>4. job.due = Due(truth - Grace, truth)
    BY <1>4, <1>5, <2>1 DEF RunItems
  <2>5. Fresh(job)
    BY <1>1, <1>4, <2>1, NeverBehind DEF Fresh
  <2>6. Owed[job.now] \subseteq Listed(job.due)
    BY <1>4, <1>5, <2>1, <2>3, <2>4
  <2>7. QED
    BY <1>3, <1>4, <2>5, <2>6 DEF OwedAt
<1>6. \A x \in due : x.rule \in DOMAIN rules
  BY RunExists
<1>7. Left(job) # {} => ~RuleGone("pump", job, t)
  BY <1>4, <1>6, AllExist
<1>8. job.now = Wall
  BY <1>4
<1>9. QED
  BY <1>2, <1>3, <1>5, <1>7, <1>8, ProceedRecords

\* A catch-up by a clock that is trusted again.
LEMMA LateRecords ==
  ASSUME Setting, phase # "down", Reliable, NEW t, NEW now \in Times, NEW age \in Nat,
         age <= MaxJob, now + age <= truth, truth <= now + age + Behind,
         NEW job, job = [stage |-> "late", now |-> now, due |-> LateItems(now), hand |-> {},
                         catching |-> TRUE, age |-> age],
         CatchUp(job, t)
  PROVE  RecordsKept'
<1>1. IInv /\ Household
  BY DEF Setting
<1>2. Sound("pump", job) /\ job.stage = "late"
  BY <1>1, LateSound
<1>3. OwedAt(job)
  <2>1. /\ heartbeat \in Int /\ heartbeat \in Times \cup {None} /\ Owed[heartbeat] = {}
        /\ now \in Int /\ now - Grace \in Int /\ now - CatchUpLimit \in Int
    <3>1. heartbeat \in Times \cup {None} /\ Owed[heartbeat] = {}
      BY DEF Setting, RecordsKept, Beaten
    <3>2. now \in Nat /\ Grace \in Nat /\ CatchUpLimit \in Nat /\ \A x \in Times : x \in Int
      BY Naturals
    <3>3. QED
      BY <3>1, <3>2 DEF None
  <2>2. CASE heartbeat = None
    <3>1. Owed[now - Grace] \subseteq Beyond(now)
      BY <2>1, <2>2 DEF Owed, Beyond, Reach
    <3>2. QED
      BY <3>1 DEF OwedAt
  <2>3. CASE heartbeat # None
    <3>1. PICK from \in {heartbeat, now - CatchUpLimit} :
            LateItems(now) = Due(from, now - Grace)
      BY <2>3 DEF LateItems
    <3>2. from \in Int
      BY <2>1, <3>1
    <3>3. Owed[now - Grace] \subseteq Listed(LateItems(now)) \cup Owed[from]
      BY <1>1, <2>1, <3>1, <3>2, DueMakesGood
    <3>4. Owed[now - CatchUpLimit] \subseteq Beyond(now)
      BY <2>1, <2>3 DEF Owed, Beyond, Reach
    <3>5. Owed[from] \subseteq Beyond(now)
      BY <2>1, <3>1, <3>4
    <3>6. QED
      BY <3>3, <3>5 DEF OwedAt
  <2>4. QED
    BY <2>2, <2>3
<1>4. \A x \in job.due : x.rule \in DOMAIN rules
  BY LateExists
<1>5. job \in Job
  BY <1>2 DEF Sound
<1>6. Left(job) # {} => ~RuleGone("pump", job, t)
  BY <1>4, <1>5, AllExist
<1>7. QED
  BY <1>2, <1>3, <1>6, CatchUpRecords

\* A run that raises lets go of what it had to make good.
LEMMA RaisedRecords ==
  ASSUME Setting, task' = [task EXCEPT !["pump"] = IdleJob], phase # "down",
         Pump.stage \in {"late", "run"}, Pump.hand # {} \/ Left(Pump) # {},
         UNCHANGED <<truth, verdict, phase, heartbeat, rules, ledger>>
  PROVE  RecordsKept'
<1>1. IInv /\ Household /\ truth \in Nat /\ MaxJob \in Nat
  BY Naturals DEF Setting, IInv, TypeOK
<1>2. PICK job \in Job : job = Pump /\ JobKept("pump", job)
  BY DEF Pump, Setting, IInv, TypeOK, JobsKept, Jobs
<1>3. PICK new \in Job : new = IdleJob
  BY IdleJobType
<1>4. Pump' = new /\ new.stage = "idle" /\ new.age = 0
  BY <1>1, <1>3, PumpWritten DEF IdleJob
<1>5. Careful
  BY <1>1 DEF Careful, EditedNow, RowsKept
<1>6. ASSUME Reliable', phase' # "down" PROVE OwedAt(new)'
  <2>1. Reliable /\ OwedAt(job)
    BY <1>2, <1>6 DEF Reliable, Setting, RecordsKept
  <2>2. job.now \in Nat /\ job.age \in Nat /\ job.age <= MaxJob /\ Fresh(job)
    BY <1>2, <2>1, Naturals DEF Job, JobKept, OwedAt
  <2>3. truth = job.now + job.age
    BY <1>1, <1>2, <2>2, FreshIsExact DEF IInv, TypeOK
  <2>4. truth - MaxJob \in Int /\ truth - MaxJob <= job.now /\ truth - MaxJob <= truth
    BY <1>1, <2>2, <2>3
  <2>5. Raises
    BY <1>4 DEF Raises, Pump
  <2>6. ASSUME NEW k \in Owed'[truth - MaxJob] PROVE FALSE
    <3>1. k \in Owed[truth - MaxJob] /\ k \notin lapsed'
      BY <1>5, <2>1, <2>4, <2>6, TrustedDwindles DEF Owed
    <3>2. k \in Unrecorded
      BY <2>4, <3>1 DEF Owed, Planned, Unrecorded, Keys
    <3>3. k[2] <= job.now
      <4>1. k[2] <= truth - MaxJob /\ k[2] \in Nat
        BY <2>4, <3>1, KeyType DEF Owed
      <4>2. QED
        BY <2>2, <2>4, <4>1
    <3>4. k \in Forsaken
      BY <1>2, <2>5, <3>2, <3>3 DEF Forsaken
    <3>5. QED
      BY <3>1, <3>4 DEF Setting, Lapse
  <2>7. truth - new.age - MaxJob = truth - MaxJob
    BY <1>1, <1>4
  <2>8. Owed'[truth - new.age - MaxJob] = {}
    BY <2>6, <2>7
  <2>9. QED
    BY <1>4, <2>8 DEF OwedAt
<1>7. QED
  BY <1>4, <1>5, <1>6, BeatenStays, PumpMoves

-----------------------------------------------------------------------------
(* The steps of the loop.                                                  *)

LEMMA PumpChecksRecords ==
  ASSUME Setting, PumpChecks
  PROVE  RecordsKept'
<1>1. PICK job \in Job : job = Pump /\ JobKept("pump", job)
  BY DEF Pump, Setting, IInv, TypeOK, JobsKept, Jobs
<1>2. phase = "serving" /\ job.stage = "idle" /\ IInv
  BY <1>1 DEF PumpChecks, Pump, Setting
<1>3. CASE Check(synced, Wall) = verdict
  <2>1. Proceed("pump", NewJob("run", Wall, RunItems(Wall), FALSE), timer)
    BY <1>3 DEF PumpChecks
  <2>2. ASSUME Reliable PROVE Owed[truth - Grace] = {}
    <3>1. job.age <= 1 /\ Owed[truth - job.age - MaxJob] = {}
      BY <1>1, <1>2, <2>2 DEF Setting, RecordsKept, OwedAt
    <3>2. truth \in Nat /\ Grace \in Nat /\ MaxJob \in Nat /\ job.age \in Nat /\ MaxJob < Grace
      BY <1>2, Naturals DEF Setting, Household, IInv, TypeOK, Job
    <3>3. /\ truth - Grace \in Int /\ truth - job.age - MaxJob \in Int
          /\ truth - Grace <= truth - job.age - MaxJob
      BY <3>1, <3>2
    <3>4. Owed[truth - Grace] \subseteq Owed[truth - job.age - MaxJob]
      BY <3>3, OwedBefore
    <3>5. QED
      BY <3>1, <3>4
  <2>3. QED
    BY <1>2, <2>1, <2>2, NewRunRecords
<1>4. CASE Check(synced, Wall) # verdict
  <2>1. PICK new : new = NewJob("checking", Wall, {}, FALSE)
    OBVIOUS
  <2>2. /\ task' = [task EXCEPT !["pump"] = new]
        /\ UNCHANGED <<clock, phase, started, timer, book, ledger, heartbeat, history>>
    BY <1>4, <2>1 DEF PumpChecks
  <2>3. new \in Job /\ new.stage = "checking"
    BY <1>2, <2>1, WallType DEF NewJob, Job, IInv
  <2>4. Careful /\ heartbeat' = heartbeat
    <3>1. truth \in Nat
      BY <1>2, Naturals DEF IInv, TypeOK
    <3>2. QED
      BY <2>2, <3>1 DEF Careful, EditedNow, RowsKept, clock, book
  <2>5. Pump' = new
    BY <1>2, <2>2, PumpWritten
  <2>6. OwedAt(new)'
    BY <2>3 DEF OwedAt
  <2>7. QED
    BY <2>3, <2>4, <2>5, <2>6, BeatenStays, PumpMoves
<1>5. QED
  BY <1>3, <1>4

LEMMA PumpAnnouncedRecords ==
  ASSUME Setting, PumpAnnounced
  PROVE  RecordsKept'
<1>1. PICK job \in Job : job = task["pump"] /\ JobKept("pump", job)
  BY DEF Setting, IInv, TypeOK, JobsKept, Jobs
<1>2. job.stage = "checking"
  BY <1>1 DEF PumpAnnounced
<1>3. phase # "down" /\ job.age <= MaxJob /\ job.now \in Times /\ job.age \in Nat
  BY <1>1, <1>2 DEF JobKept, Job
<1>4. CASE Reliable
  <2>1. PICK late : late = [NewJob("late", job.now, LateItems(job.now), TRUE)
                              EXCEPT !.age = job.age]
    OBVIOUS
  <2>2. CatchUp(late, timer)
    BY <1>1, <1>4, <2>1 DEF PumpAnnounced
  <2>3. late = [stage |-> "late", now |-> job.now, due |-> LateItems(job.now), hand |-> {},
                catching |-> TRUE, age |-> job.age]
    BY <2>1 DEF NewJob
  <2>4. job.now + job.age <= truth /\ truth <= job.now + job.age + Behind
    BY <1>1, <1>2, <1>4 DEF JobKept, Fresh
  <2>5. QED
    BY <1>3, <1>4, <2>2, <2>3, <2>4, LateRecords
<1>5. CASE ~Reliable
  <2>1. Proceed("pump", NewJob("run", Wall, {}, FALSE), None)
    BY <1>5 DEF PumpAnnounced
  <2>2. QED
    BY <1>3, <1>5, <2>1, NewRunRecords
<1>6. QED
  BY <1>4, <1>5

LEMMA PumpRunsRecords ==
  ASSUME Setting, PumpRuns
  PROVE  RecordsKept'
<1>1. PICK job \in Job : job = Pump /\ JobKept("pump", job)
  BY DEF Pump, Setting, IInv, TypeOK, JobsKept, Jobs
<1>2. job.stage = "checked" /\ IInv /\ phase # "down"
  BY <1>1 DEF PumpRuns, Pump, Setting, JobKept
<1>3. Proceed("pump", NewJob("run", Wall, RunItems(Wall), FALSE), timer)
  BY DEF PumpRuns
<1>4. ASSUME Reliable PROVE Owed[truth - Grace] = {}
  <2>1. Owed[truth - MaxJob] = {}
    BY <1>1, <1>2, <1>4 DEF Setting, RecordsKept, OwedAt
  <2>2. truth \in Nat /\ Grace \in Nat /\ MaxJob \in Nat /\ MaxJob < Grace
    BY <1>2, Naturals DEF Setting, Household, IInv, TypeOK
  <2>3. /\ truth - Grace \in Int /\ truth - MaxJob \in Int /\ truth - Grace <= truth - MaxJob
    BY <2>2
  <2>4. QED
    BY <2>1, <2>3, OwedBefore
<1>5. QED
  BY <1>2, <1>3, <1>4, NewRunRecords

LEMMA StartUpRecords ==
  ASSUME Setting, StartUp
  PROVE  RecordsKept'
<1>1. phase = "starting" /\ IInv /\ Household
  BY DEF StartUp, Setting
<1>2. CASE Reliable
  <2>1. Wall = truth /\ Wall \in Times /\ Wall \in Nat
    BY <1>1, <1>2, TrustedClock, WallType, Naturals DEF IInv
  <2>2. PICK late : late = NewJob("late", Wall, LateItems(Wall), TRUE)
    OBVIOUS
  <2>3. late = [stage |-> "late", now |-> Wall, due |-> LateItems(Wall), hand |-> {},
                catching |-> TRUE, age |-> 0]
    BY <2>2 DEF NewJob
  <2>4. CatchUp(late, timer)
    BY <1>2, <2>2 DEF StartUp
  <2>5. Wall + 0 <= truth /\ truth <= Wall + 0 + Behind /\ 0 \in Nat /\ 0 <= MaxJob
    BY <2>1, Naturals
  <2>6. QED
    BY <1>1, <1>2, <2>1, <2>3, <2>4, <2>5, LateRecords
<1>3. CASE ~Reliable
  <2>1. UNCHANGED <<clock, verdict, book, ledger, heartbeat, task>>
    BY <1>3 DEF StartUp
  <2>2. Careful
    <3>1. truth \in Nat
      BY <1>1, Naturals DEF IInv, TypeOK
    <3>2. QED
      BY <2>1, <3>1 DEF Careful, EditedNow, RowsKept, clock, book
  <2>3. ~Reliable'
    BY <1>3, <2>1 DEF Reliable
  <2>4. QED
    BY <2>1, <2>2, <2>3, BeatenStays DEF RecordsKept
<1>4. QED
  BY <1>2, <1>3

\* The timer's run records as well, and the loop relies on nothing of it.
LEMMA WakeRunStandsBy ==
  ASSUME Setting, NEW job, NEW t, Sound("wake", job), job.stage = "run", Proceed("wake", job, t)
  PROVE  RecordsKept'
<1>1. IInv /\ "wake" \in Jobs /\ truth \in Nat
  BY Naturals DEF Setting, Jobs, IInv, TypeOK
<1>2. CASE Left(job) = {}
  <2>1. RunDone("wake", job, t)
    BY <1>2 DEF Proceed
  <2>2. Careful /\ UNCHANGED <<truth, verdict>>
    BY <1>1, <2>1, RunDoneCareful
  <2>3. UNCHANGED <<phase, heartbeat>> /\ task' = [task EXCEPT !["wake"] = IdleJob]
    BY <2>1 DEF RunDone
  <2>4. Pump' = Pump
    BY <1>1, <2>3 DEF IInv, TypeOK, Jobs, Pump
  <2>5. QED
    BY <2>2, <2>3, <2>4, BystanderKeeps
<1>3. CASE Left(job) # {} /\ RuleGone("wake", job, t)
  <2>1. /\ UNCHANGED <<clock, process, book, ledger, heartbeat>>
        /\ task' = [task EXCEPT !["wake"] = IdleJob]
    BY <1>3 DEF RuleGone, Aborted
  <2>2. Pump' = Pump
    BY <1>1, <2>1 DEF IInv, TypeOK, Jobs, Pump
  <2>3. Careful
    BY <1>1, <2>1 DEF Careful, EditedNow, RowsKept, clock, book
  <2>4. QED
    BY <2>1, <2>2, <2>3, BystanderKeeps DEF clock, process
<1>4. CASE Left(job) # {} /\ Fire("wake", job, t)
  <2>1. Careful /\ UNCHANGED <<truth, verdict, phase, heartbeat>>
    BY <1>1, <1>4, FireCareful
  <2>2. PICK new : task' = [task EXCEPT !["wake"] = new]
    BY <1>4 DEF Fire
  <2>3. Pump' = Pump
    BY <1>1, <2>2 DEF IInv, TypeOK, Jobs, Pump
  <2>4. QED
    BY <2>1, <2>3, BystanderKeeps
<1>5. QED
  BY <1>2, <1>3, <1>4 DEF Proceed

LEMMA WakeRecords ==
  ASSUME Setting, Wake
  PROVE  RecordsKept'
<1>1. phase # "down" /\ Proceed("wake", NewJob("run", Wall, RunItems(Wall), FALSE), None)
  BY DEF Wake
<1>2. IInv /\ "wake" \in Jobs
  BY DEF Setting, Jobs
<1>3. QED
  BY <1>1, <1>2, NewRunSound, WakeRunStandsBy

\* A step that leaves the database and the clock alone, and the loop where it is.
LEMMA QuietKeeps ==
  ASSUME Setting, UNCHANGED <<truth, verdict, phase, heartbeat, rules, ledger>>, Pump' = Pump
  PROVE  RecordsKept'
<1>1. truth \in Nat
  BY Naturals DEF Setting, IInv, TypeOK
<1>2. Careful
  BY <1>1 DEF Careful, EditedNow, RowsKept
<1>3. QED
  BY <1>2, BystanderKeeps

LEMMA ResumeRecords ==
  ASSUME Setting, NEW j \in Jobs, Resume(j)
  PROVE  RecordsKept'
<1>1. PICK job \in Job : job = task[j] /\ JobKept(j, job)
  BY DEF Setting, IInv, TypeOK, JobsKept
<1>2. job.hand = {} /\ IInv
  BY <1>1 DEF Resume, Setting
<1>3. CASE j = "wake"
  <2>1. job.stage = "run" /\ Proceed("wake", job, timer)
    BY <1>1, <1>3 DEF Resume, JobKept
  <2>2. Sound("wake", job)
    BY <1>1, <1>2, <1>3, <2>1 DEF Sound, JobKept
  <2>3. QED
    BY <2>1, <2>2, WakeRunStandsBy
<1>4. CASE j = "pump"
  <2>1. job = Pump /\ job.stage \in {"run", "late"} /\ phase # "down"
    BY <1>1, <1>4 DEF Resume, Pump, JobKept
  <2>2. Sound("pump", job)
    BY <1>1, <1>2, <1>4, <2>1 DEF Sound
  <2>3. Reliable => OwedAt(job)
    BY <2>1 DEF Setting, RecordsKept
  <2>4. CASE Left(job) # {} /\ RuleGone("pump", job, timer)
    <3>1. /\ task' = [task EXCEPT !["pump"] = IdleJob]
          /\ UNCHANGED <<truth, verdict, phase, heartbeat, rules, ledger>>
      BY <2>4 DEF RuleGone, Aborted, clock, process, book
    <3>2. QED
      BY <2>1, <2>4, <3>1, RaisedRecords
  <2>5. CASE job.stage = "run" /\ (Left(job) # {} => ~RuleGone("pump", job, timer))
    <3>1. Proceed("pump", job, timer)
      BY <1>1, <1>4, <2>5 DEF Resume
    <3>2. QED
      BY <2>1, <2>2, <2>3, <2>5, <3>1, ProceedRecords
  <2>6. CASE job.stage = "late" /\ (Left(job) # {} => ~RuleGone("pump", job, timer))
    <3>1. CatchUp(job, timer)
      BY <1>1, <1>4, <2>6 DEF Resume
    <3>2. QED
      BY <2>2, <2>3, <2>6, <3>1, CatchUpRecords
  <2>7. QED
    BY <2>1, <2>4, <2>5, <2>6
<1>5. QED
  BY <1>3, <1>4 DEF Jobs

LEMMA CommandedRecords ==
  ASSUME Setting, NEW j \in Jobs, Commanded(j)
  PROVE  RecordsKept'
<1>1. /\ task' = [task EXCEPT ![j].hand = {}]
      /\ UNCHANGED <<truth, verdict, phase, heartbeat, rules, ledger>>
  BY DEF Commanded, clock, process, book
<1>2. CASE j = "wake"
  <2>1. Pump' = Pump
    BY <1>1, <1>2 DEF Setting, IInv, TypeOK, Jobs, Pump
  <2>2. QED
    BY <1>1, <2>1, QuietKeeps
<1>3. CASE j = "pump"
  <2>1. PICK job \in Job : job = Pump /\ JobKept("pump", job)
    BY DEF Pump, Setting, IInv, TypeOK, JobsKept, Jobs
  <2>2. PICK new : new = [job EXCEPT !.hand = {}]
    OBVIOUS
  <2>3. /\ new \in Job /\ new.stage = job.stage /\ new.due = job.due /\ new.now = job.now
        /\ new.age = job.age /\ new.catching = job.catching
    BY <2>2 DEF Job
  <2>4. Pump' = new
    BY <1>1, <1>3, <2>1, <2>2 DEF Setting, IInv, TypeOK, Jobs, Pump
  <2>5. Careful
    <3>1. truth \in Nat
      BY Naturals DEF Setting, IInv, TypeOK
    <3>2. QED
      BY <1>1, <3>1 DEF Careful, EditedNow, RowsKept
  <2>6. ASSUME Reliable', phase' # "down" PROVE OwedAt(new)'
    <3>1. Reliable /\ phase # "down"
      BY <1>1, <2>6 DEF Reliable
    <3>2. OwedAt(job)
      BY <2>1, <3>1 DEF Setting, RecordsKept
    <3>3. OwedAt(job)'
      BY <1>1, <2>1, <2>5, <3>1, <3>2, OwedAtStays
    <3>4. QED
      BY <2>3, <3>3 DEF OwedAt, Fresh
  <2>7. QED
    BY <1>1, <2>3, <2>4, <2>5, <2>6, BeatenStays, PumpMoves
<1>4. QED
  BY <1>2, <1>3 DEF Jobs

\* A command that raises ends the timer's run, or the loop's with all that is in it.
LEMMA CommandRaisesRecords ==
  ASSUME Setting, NEW j \in Jobs, CommandRaises(j)
  PROVE  RecordsKept'
<1>1. /\ task' = [task EXCEPT ![j] = IdleJob] /\ phase = "serving" /\ task[j].hand # {}
      /\ UNCHANGED <<truth, verdict, phase, heartbeat, rules, ledger>>
  BY DEF CommandRaises, Aborted, clock, process, book
<1>2. CASE j = "wake"
  <2>1. Pump' = Pump
    BY <1>1, <1>2 DEF Setting, IInv, TypeOK, Jobs, Pump
  <2>2. QED
    BY <1>1, <2>1, QuietKeeps
<1>3. CASE j = "pump"
  <2>1. PICK job \in Job : job = Pump /\ JobKept("pump", job)
    BY DEF Pump, Setting, IInv, TypeOK, JobsKept, Jobs
  <2>2. Pump.stage \in {"late", "run"} /\ Pump.hand # {}
    BY <1>1, <1>3, <2>1 DEF JobKept, Pump
  <2>3. QED
    BY <1>1, <1>3, <2>2, RaisedRecords
<1>4. QED
  BY <1>2, <1>3 DEF Jobs

LEMMA EngineRecords ==
  ASSUME Setting, Engine
  PROVE  RecordsKept'
<1>1. CASE WakeRefused
  <2>1. UNCHANGED <<truth, verdict, phase, heartbeat, rules, ledger, task>>
    BY <1>1 DEF WakeRefused, clock, process, book
  <2>2. Pump' = Pump
    BY <2>1 DEF Pump
  <2>3. QED
    BY <2>1, <2>2, QuietKeeps
<1>2. QED
  BY <1>1, WakeRecords, PumpChecksRecords, PumpAnnouncedRecords, PumpRunsRecords,
     StartUpRecords, ResumeRecords, CommandedRecords, CommandRaisesRecords
     DEF Engine, Working

-----------------------------------------------------------------------------
(* People and the machine.                                                 *)

LEMMA TouchIsDated ==
  ASSUME IInv, NEW r \in DOMAIN rules, NEW rule \in Rule, Touch(r, rule), ledger' = ledger,
         truth' = truth
  PROVE  Careful
<1>1. PICK new : new = [rule EXCEPT !.touched = Wall]
  OBVIOUS
<1>2. new.touched = Wall /\ rules' = Put(rules, r, new)
  BY <1>1 DEF Touch, Rule
<1>3. truth \in Nat
  BY Naturals DEF IInv, TypeOK
<1>4. QED
  BY <1>2, <1>3 DEF Careful, EditedNow, RowsKept, Put

LEMMA EditingCareful ==
  ASSUME IInv, Editing, truth' = truth
  PROVE  Careful
<1>1. truth \in Nat
  BY Naturals DEF IInv, TypeOK
<1>2. PICK r \in Rules :
        \/ \E d \in Drafts : CreateRule(r, d) \/ ReplaceRule(r, d)
        \/ \E enabled \in BOOLEAN : SetEnabled(r, enabled)
        \/ SkipNext(r) \/ UnskipNext(r) \/ DropTargets(r) \/ DeleteRule(r)
  BY DEF Editing
<1>3. ASSUME NEW d \in Drafts, CreateRule(r, d)
      PROVE  Careful
  <2>1. PICK rule : rules' = Put(rules, r, rule) /\ rule.touched = Wall
    BY <1>3 DEF CreateRule
  <2>2. ledger' = ledger
    BY <1>3 DEF CreateRule
  <2>3. QED
    BY <1>1, <2>1, <2>2 DEF Careful, EditedNow, RowsKept, Put
<1>4. ASSUME NEW d \in Drafts, ReplaceRule(r, d)
      PROVE  Careful
  <2>1. d \in Draft /\ r \in DOMAIN rules /\ ledger' = ledger
    BY <1>4, AutomationAssumption DEF AutomationAssumption, ReplaceRule
  <2>2. PICK rule : rule = [rules[r] EXCEPT !.enabled = d.enabled, !.plan = d.plan,
                                            !.reach = d.reach]
    OBVIOUS
  <2>3. rule \in Rule /\ [rule EXCEPT !.skip = None] \in Rule
    BY <2>1, <2>2, RuleType DEF Draft, Rule
  <2>4. Touch(r, IF NextFiring(rule, Wall) = rule.skip THEN rule ELSE [rule EXCEPT !.skip = None])
    BY <1>4, <2>2 DEF ReplaceRule
  <2>5. QED
    BY <2>1, <2>3, <2>4, TouchIsDated
<1>5. ASSUME NEW enabled \in BOOLEAN, SetEnabled(r, enabled)
      PROVE  Careful
  <2>1. r \in DOMAIN rules /\ ledger' = ledger
    BY <1>5 DEF SetEnabled
  <2>2. [rules[r] EXCEPT !.enabled = enabled] \in Rule
    BY <2>1, RuleType DEF Rule
  <2>3. QED
    BY <1>5, <2>1, <2>2, TouchIsDated DEF SetEnabled
<1>6. CASE SkipNext(r)
  <2>1. r \in DOMAIN rules /\ ledger' = ledger
    BY <1>6 DEF SkipNext
  <2>2. PICK next \in Times \cup {None} : next = NextFiring(rules[r], Wall)
    BY <2>1, RuleType, NextFiringType
  <2>3. [rules[r] EXCEPT !.skip = next] \in Rule
    BY <2>1, RuleType DEF Rule
  <2>4. QED
    BY <1>6, <2>1, <2>2, <2>3, TouchIsDated DEF SkipNext
<1>7. CASE UnskipNext(r)
  <2>1. r \in DOMAIN rules /\ ledger' = ledger
    BY <1>7 DEF UnskipNext
  <2>2. [rules[r] EXCEPT !.skip = None] \in Rule
    BY <2>1, RuleType DEF Rule
  <2>3. QED
    BY <1>7, <2>1, <2>2, TouchIsDated DEF UnskipNext
<1>8. CASE DropTargets(r)
  <2>1. r \in DOMAIN rules /\ ledger' = ledger
    BY <1>8 DEF DropTargets
  <2>2. [rules[r] EXCEPT !.reach = FALSE] \in Rule
    BY <2>1, RuleType DEF Rule
  <2>3. QED
    BY <1>8, <2>1, <2>2, TouchIsDated DEF DropTargets
<1>9. CASE DeleteRule(r)
  <2>1. /\ rules' = Drop(rules, r)
        /\ DOMAIN ledger' = {x \in DOMAIN ledger : x[1] # r}
    BY <1>9 DEF DeleteRule
  <2>2. DOMAIN rules' = DOMAIN rules \ {r} /\ \A s \in DOMAIN rules' : rules'[s] = rules[s]
    BY <2>1 DEF Drop
  <2>3. QED
    BY <1>1, <2>1, <2>2 DEF Careful, EditedNow, RowsKept
<1>10. QED
  BY <1>2, <1>3, <1>4, <1>5, <1>6, <1>7, <1>8, <1>9

LEMMA PeopleRecords ==
  ASSUME Setting, People
  PROVE  RecordsKept'
<1>1. Asked
  BY DEF People, Editing, Pausing, CreateRule, ReplaceRule, SetEnabled, SkipNext, UnskipNext,
         DropTargets, DeleteRule, PauseUntil, ResumeRules
<1>2. UNCHANGED <<truth, verdict, phase, heartbeat, task>> /\ IInv
  BY <1>1 DEF Asked, clock, process, Setting
<1>3. Pump' = Pump
  BY <1>2 DEF Pump
<1>4. CASE Editing
  BY <1>2, <1>3, <1>4, EditingCareful, BystanderKeeps
<1>5. CASE Pausing
  BY <1>2, <1>3, <1>5, QuietKeeps DEF Pausing, PauseUntil, ResumeRules
<1>6. QED
  BY <1>4, <1>5 DEF People

LEMMA CrashRecords ==
  ASSUME Setting, Crash
  PROVE  RecordsKept'
<1>1. UNCHANGED <<truth, heartbeat, rules, ledger>> /\ phase' = "down"
  BY DEF Crash, clock, book
<1>2. truth \in Nat
  BY Naturals DEF Setting, IInv, TypeOK
<1>3. Careful
  BY <1>1, <1>2 DEF Careful, EditedNow, RowsKept
<1>4. QED
  BY <1>1, <1>3, BeatenStays DEF RecordsKept

LEMMA BootRecords ==
  ASSUME Setting, NEW late, NEW ok, Boot(late, ok)
  PROVE  RecordsKept'
<1>1. /\ UNCHANGED <<truth, heartbeat, rules, ledger>> /\ phase = "down" /\ phase' = "starting"
      /\ task' = [task EXCEPT !["pump"].age = 1]
  BY DEF Boot, book
<1>2. truth \in Nat
  BY Naturals DEF Setting, IInv, TypeOK
<1>3. Careful
  BY <1>1, <1>2 DEF Careful, EditedNow, RowsKept
<1>4. PICK job \in Job : job = Pump /\ JobKept("pump", job)
  BY DEF Pump, Setting, IInv, TypeOK, JobsKept, Jobs
<1>5. PICK new : new = [job EXCEPT !.age = 1]
  OBVIOUS
<1>6. new \in Job /\ new.stage = "idle"
  BY <1>1, <1>4, <1>5 DEF Job, JobKept
<1>7. Pump' = new
  BY <1>1, <1>4, <1>5 DEF Setting, IInv, TypeOK, Jobs, Pump
<1>8. OwedAt(new)'
  BY <1>1, <1>6 DEF OwedAt
<1>9. QED
  BY <1>1, <1>3, <1>6, <1>7, <1>8, BeatenStays, PumpMoves

LEMMA SyncRecords ==
  ASSUME Setting, Sync \/ Unsync
  PROVE  RecordsKept'
<1>1. UNCHANGED <<truth, verdict, phase, heartbeat, rules, ledger, task>>
  BY DEF Sync, Unsync, process, book
<1>2. Pump' = Pump
  BY <1>1 DEF Pump
<1>3. QED
  BY <1>1, <1>2, QuietKeeps

\* The loop comes round before the grace has gone by, and a run of it is over by then.
LEMMA PassRecords ==
  ASSUME Setting, Pass
  PROVE  RecordsKept'
<1>1. /\ truth' = truth + 1 /\ UNCHANGED <<verdict, phase, heartbeat, rules, ledger>>
      /\ truth \in Nat /\ MaxJob \in Nat /\ Grace \in Nat /\ IInv
  BY Naturals DEF Pass, process, book, Setting, IInv, TypeOK
<1>2. Careful
  BY <1>1 DEF Careful, EditedNow, RowsKept
<1>3. PICK job \in Job : job = Pump /\ JobKept("pump", job)
  BY DEF Pump, Setting, IInv, TypeOK, JobsKept, Jobs
<1>4. ASSUME Reliable', phase' # "down" PROVE OwedAt(Pump)'
  <2>1. Reliable /\ phase # "down" /\ OwedAt(job)
    BY <1>1, <1>3, <1>4 DEF Reliable, Setting, RecordsKept
  <2>2. PICK new : new = [job EXCEPT !.age = @ + 1]
    OBVIOUS
  <2>3. Pump' = new
    BY <1>3, <2>1, <2>2 DEF Pass, Pump, Jobs, Setting, IInv, TypeOK
  <2>4. /\ new.stage = job.stage /\ new.due = job.due /\ new.now = job.now
        /\ new.age = job.age + 1 /\ new.catching = job.catching
        /\ job.age \in Nat /\ job.now \in Nat
    BY <2>2, Naturals DEF Job
  <2>5. ASSUME NEW upto \in Int, upto <= truth PROVE Owed'[upto] \subseteq Owed[upto]
    BY <1>2, <2>1, <2>5, TrustedDwindles
  <2>6. job.stage # "checked"
    BY <1>3 DEF Pass, AtAwait, Pump
  <2>7. CASE job.stage = "idle"
    <3>1. job.age = 0
      BY <1>3, <2>1, <2>7 DEF Pass, Pump
    <3>2. new.age = 1 /\ truth' - new.age - MaxJob = truth - job.age - MaxJob
          /\ truth - job.age - MaxJob \in Int /\ truth - job.age - MaxJob <= truth
      BY <1>1, <2>4, <3>1
    <3>3. Owed'[truth' - new.age - MaxJob] \subseteq Owed[truth - job.age - MaxJob]
      BY <2>5, <3>2
    <3>4. OwedAt(new)'
      BY <1>1, <2>1, <2>4, <2>7, <3>2, <3>3 DEF OwedAt
    <3>5. QED
      BY <2>3, <3>4 DEF OwedAt, Fresh
  <2>8. CASE job.stage = "late"
    <3>1. job.now <= truth /\ job.now - Grace \in Int
      BY <1>1, <1>3, <2>4, <2>8 DEF JobKept, Fresh
    <3>2. job.now - Grace <= truth
      BY <1>1, <2>4, <3>1
    <3>3. Owed'[job.now - Grace] \subseteq Owed[job.now - Grace]
      BY <2>5, <3>1, <3>2
    <3>4. OwedAt(new)'
      BY <1>1, <2>1, <2>4, <2>8, <3>3 DEF OwedAt, Beyond, Reach
    <3>5. QED
      BY <2>3, <3>4 DEF OwedAt, Fresh
  <2>9. CASE job.stage = "run"
    <3>1. Fresh(job) /\ job.now <= truth /\ Behind \in Nat
      BY <1>1, <2>1, <2>4, <2>9, Naturals DEF OwedAt, Fresh
    <3>2. new.now + new.age <= truth' /\ truth' <= new.now + new.age + Behind
      BY <1>1, <2>4, <3>1 DEF Fresh
    <3>3. Owed'[job.now] \subseteq Owed[job.now]
      BY <2>4, <2>5, <3>1
    <3>4. OwedAt(new)'
      BY <1>1, <2>1, <2>4, <2>9, <3>2, <3>3 DEF OwedAt, Fresh, Beyond, Reach
    <3>5. QED
      BY <2>3, <3>4 DEF OwedAt, Fresh
  <2>10. CASE job.stage = "checking"
    BY <2>3, <2>4, <2>10 DEF OwedAt
  <2>11. QED
    BY <2>6, <2>7, <2>8, <2>9, <2>10 DEF Job
<1>5. QED
  BY <1>1, <1>2, <1>4, BeatenStays DEF RecordsKept

LEMMA MachineRecords ==
  ASSUME Setting, Machine
  PROVE  RecordsKept'
BY CrashRecords, BootRecords, SyncRecords, PassRecords DEF Machine

-----------------------------------------------------------------------------

LEMMA InitRecords ==
  ASSUME Household, Init, lapsed = {}
  PROVE  RecordsKept
<1>1. heartbeat \in {None, 0} /\ phase = "down" /\ truth = 0 /\ rules \in Founding
  BY AutomationAssumption DEF AutomationAssumption, Household, Init
<1>2. ASSUME NEW upto \in {None, 0} PROVE Owed[upto] = {}
  <2>0. upto \in Int /\ upto <= 0
    BY DEF None
  <2> SUFFICES ASSUME NEW k \in Owed[upto] PROVE FALSE
    OBVIOUS
  <2>1. k \in Keys /\ k[1] \in DOMAIN rules /\ rules[k[1]].touched < k[2] /\ k[2] <= upto
    BY <2>0 DEF Owed, Planned
  <2>2. rules[k[1]] \in Rule
    BY <1>1, <2>1, AutomationAssumption DEF AutomationAssumption, IsTable
  <2>3. rules[k[1]].touched \in Nat /\ k[2] \in Nat
    BY <2>1, <2>2, KeyType, Naturals DEF Rule
  <2>4. QED
    BY <2>0, <2>1, <2>3
<1>3. heartbeat \in Times \cup {None} /\ heartbeat <= 0
  BY <1>1, Naturals DEF None
<1>4. QED
  BY <1>1, <1>2, <1>3 DEF RecordsKept, Beaten

LEMMA NextRecords ==
  ASSUME Household, IInv, RecordsKept, [Next /\ Lapse]_<<vars, lapsed>>
  PROVE  IInv' /\ RecordsKept'
<1>1. IInv'
  BY NextKeeps
<1>2. CASE Next /\ Lapse
  BY <1>1, <1>2, EngineRecords, PeopleRecords, MachineRecords DEF Setting, Next
<1>3. CASE UNCHANGED <<vars, lapsed>>
  <2>1. UNCHANGED <<truth, verdict, phase, heartbeat, rules, ledger, task, lapsed>>
    BY <1>3 DEF vars, clock, process, book
  <2>2. Owed' = Owed
    BY <2>1 DEF Owed, Planned, Recorded
  <2>3. QED
    BY <1>1, <2>1, <2>2 DEF RecordsKept, Beaten, OwedAt, Fresh, Pump, Reliable, Beyond, Reach
<1>4. QED
  BY <1>2, <1>3

\* What the heartbeat has passed by the grace is on record.
LEMMA NothingOwed ==
  ASSUME IInv, Beaten
  PROVE  NothingElseVanishes
<1> SUFFICES ASSUME NEW r \in DOMAIN rules, NEW p \in rules[r].plan, Overdue(r, p),
                    <<r, p>> \notin lapsed, ~Recorded(<<r, p>>)
             PROVE  FALSE
  BY DEF NothingElseVanishes
<1>1. r \in Rules /\ p \in Times
  BY DEF IInv, TypeOK, IsTable, Rule
<1>2. PICK k \in Keys : k = <<r, p>> /\ k[1] = r /\ k[2] = p
  BY <1>1 DEF Keys
<1>3. p <= heartbeat /\ heartbeat \in Int
  <2>1. p + Grace <= heartbeat /\ p \in Nat /\ Grace \in Nat
    BY <1>1, Naturals DEF Overdue
  <2>2. heartbeat \in Int
    BY Naturals DEF Beaten, None
  <2>3. QED
    BY <2>1, <2>2
<1>4. k \in Owed[heartbeat]
  BY <1>2, <1>3 DEF Owed, Planned, Overdue
<1>5. QED
  BY <1>4 DEF Beaten

\* FR-012, FR-013: nothing planned is dropped without a word but by the lines that
\* Records names - a list that raises, a heartbeat that passes over an instant, an edit
\* by a clock behind the heartbeat -, whatever crashes, boots, clocks in doubt and edits
\* do.  The kernel is taken at its word, and a run of the engine to last less than the
\* grace.
THEOREM NothingElseIsLost ==
  ASSUME Household
  PROVE  RecordsSpec => []NothingElseVanishes
<1>1. Init /\ lapsed = {} => IInv /\ RecordsKept
  BY InitKeeps, InitRecords
<1>2. IInv /\ RecordsKept /\ [Next /\ Lapse]_<<vars, lapsed>> => IInv' /\ RecordsKept'
  BY NextRecords
<1>3. IInv /\ RecordsKept => NothingElseVanishes
  BY NothingOwed DEF RecordsKept
<1>4. QED
  BY <1>1, <1>2, <1>3, PTL DEF RecordsSpec
=============================================================================
