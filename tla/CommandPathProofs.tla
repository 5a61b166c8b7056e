-------------------------- MODULE CommandPathProofs -------------------------
(***************************************************************************)
(* Of any number of shutters and of requests under way at the same time:   *)
(* nothing but a resync reaches a shutter that is being measured, and      *)
(* whatever is commanded closes an open check.                             *)
(***************************************************************************)
EXTENDS CommandPath, SequenceTheorems, FiniteSetTheorems, NaturalsInduction, TLAPS

\* Those that await the bridge are in its queue once.
Queued ==
  /\ \A i, j \in DOMAIN queue : queue[i] = queue[j] => i = j
  /\ \A i \in DOMAIN queue : task[queue[i]].at = "bridge"

IInv == TypeOK /\ Queued /\ OnlyResyncReachesMeasured /\ CommandsCloseTheCheck

NotQueued(t) == \A i \in DOMAIN queue : queue[i] # t

LEMMA Times == DriveTime \in Nat \ {0} /\ Cooldown \in Nat \ {0}
BY CommandAssumption DEF CommandAssumption

-----------------------------------------------------------------------------
(* Requests and the queue at the bridge.                                   *)

LEMMA TaskFields ==
  ASSUME IInv, NEW t \in DOMAIN task
  PROVE  /\ t \in Tasks /\ task[t] \in Task
         /\ task[t].shutter \in Shutters /\ task[t].target \in Targets \cup {"stop"}
         /\ task[t].rest \in SUBSET Shutters
BY DEF IInv, TypeOK, IsTable, Task

\* Whoever is idle, or past the bridge, is not in the queue.
LEMMA OutOfQueue ==
  ASSUME IInv, NEW t, Idle(t) \/ task[t].at = "news"
  PROVE  NotQueued(t)
<1>1. \A i \in DOMAIN queue : queue[i] \in DOMAIN task
  BY DEF IInv, TypeOK
<1>2. QED
  BY <1>1 DEF IInv, Queued, NotQueued, Idle

LEMMA SeqOfOthers ==
  ASSUME NEW S, NEW T, NEW q \in Seq(S), \A i \in 1..Len(q) : q[i] \in T
  PROVE  q \in Seq(T)
OBVIOUS

LEMMA TaskEnters ==
  ASSUME IInv, NEW t \in Tasks, NotQueued(t), NEW x \in Task, x.at = "bridge",
         NEW others, IsTable(others, Tasks, Task), DOMAIN others = DOMAIN task,
         \A u \in DOMAIN task : others[u].at = task[u].at,
         task' = Put(others, t, x), queue' = Append(queue, t)
  PROVE  IsTable(task', Tasks, Task) /\ queue' \in Seq(DOMAIN task') /\ Queued'
<1>1. IsTable(task', Tasks, Task)
  BY DEF IsTable, Put
<1>2. /\ DOMAIN task' = DOMAIN task \cup {t} /\ task'[t] = x
      /\ \A u \in DOMAIN task \ {t} : task'[u].at = task[u].at
  BY DEF Put
<1>3. queue \in Seq(DOMAIN task) /\ queue \in Seq(DOMAIN task')
  BY <1>2, SeqMonotonic DEF IInv, TypeOK
<1>4. /\ queue' \in Seq(DOMAIN task') /\ DOMAIN queue' = 1..(Len(queue) + 1)
      /\ DOMAIN queue = 1..Len(queue) /\ Len(queue) \in Nat
      /\ \A i \in 1..Len(queue) : queue'[i] = queue[i]
      /\ queue'[Len(queue) + 1] = t
  BY <1>2, <1>3
<1>5. \A i \in DOMAIN queue : queue[i] \in DOMAIN task \ {t}
  BY <1>3, <1>4 DEF NotQueued
<1>6. \A i \in DOMAIN queue' : i \in DOMAIN queue \/ i = Len(queue) + 1
  BY <1>4
<1>7. Queued'
  BY <1>2, <1>4, <1>5, <1>6 DEF IInv, Queued
<1>8. QED
  BY <1>1, <1>4, <1>7

LEMMA OvertakenAreRequests ==
  ASSUME IInv, NEW s, NEW how \in {"sidestep", "early"}
  PROVE  /\ IsTable(Overtaken(s, how), Tasks, Task)
         /\ DOMAIN Overtaken(s, how) = DOMAIN task
         /\ \A u \in DOMAIN task : Overtaken(s, how)[u].at = task[u].at
<1> DEFINE o == Overtaken(s, how)
<1>1. DOMAIN o = DOMAIN task /\ o = [u \in DOMAIN task |-> o[u]]
  BY DEF Overtaken
<1>2. ASSUME NEW u \in DOMAIN task PROVE o[u] \in Task /\ o[u].at = task[u].at
  <2>1. task[u] \in Task
    BY DEF IInv, TypeOK, IsTable
  <2>2. o[u] = task[u] \/ o[u] = [task[u] EXCEPT !.since = how]
    BY DEF Overtaken
  <2>3. PICK x : x = [task[u] EXCEPT !.since = how]
    OBVIOUS
  <2>4. x \in Task /\ x.at = task[u].at
    BY <2>1, <2>3 DEF Task, Since
  <2>5. QED
    BY <2>1, <2>2, <2>3, <2>4
<1>3. DOMAIN task \subseteq Tasks
  BY DEF IInv, TypeOK, IsTable
<1> HIDE DEF o
<1>4. IsTable(o, Tasks, Task)
  BY <1>1, <1>2, <1>3 DEF IsTable
<1>5. QED
  BY <1>1, <1>2, <1>4 DEF o

LEMMA TaskStays ==
  ASSUME IInv, NEW t \in Tasks, NotQueued(t), queue' = queue,
         task' = Drop(task, t) \/ \E x \in Task : task' = Put(task, t, x)
  PROVE  IsTable(task', Tasks, Task) /\ queue' \in Seq(DOMAIN task') /\ Queued'
<1>1. IsTable(task', Tasks, Task)
  BY DEF IInv, TypeOK, IsTable, Put, Drop
<1>2. /\ \A u \in DOMAIN task \ {t} : u \in DOMAIN task' /\ task'[u] = task[u]
  BY DEF Put, Drop
<1>3. queue \in Seq(DOMAIN task) /\ DOMAIN queue = 1..Len(queue) /\ Len(queue) \in Nat
  BY DEF IInv, TypeOK
<1>4. \A i \in DOMAIN queue : queue[i] \in DOMAIN task \ {t}
  BY <1>3 DEF NotQueued
<1>5. queue \in Seq(DOMAIN task')
  BY <1>2, <1>3, <1>4, SeqOfOthers
<1>6. Queued'
  BY <1>2, <1>4 DEF IInv, Queued
<1>7. QED
  BY <1>1, <1>5, <1>6

\* The bridge has done with the first of the queue.
LEMMA TaskLeaves ==
  ASSUME IInv, NEW t, queue # <<>>, Head(queue) = t, queue' = Tail(queue),
         task' = Drop(task, t) \/ \E x \in Task : task' = Put(task, t, x)
  PROVE  IsTable(task', Tasks, Task) /\ queue' \in Seq(DOMAIN task') /\ Queued'
<1>1. /\ queue \in Seq(DOMAIN task) /\ DOMAIN queue = 1..Len(queue) /\ Len(queue) \in Nat
      /\ Len(queue) # 0 /\ queue[1] = t /\ t \in DOMAIN task
  BY DEF IInv, TypeOK
<1>2. IsTable(task', Tasks, Task)
  BY <1>1 DEF IInv, TypeOK, IsTable, Put, Drop
<1>3. \A u \in DOMAIN task \ {t} : u \in DOMAIN task' /\ task'[u] = task[u]
  BY DEF Put, Drop
<1>4. /\ DOMAIN queue' = 1..(Len(queue) - 1)
      /\ \A i \in DOMAIN queue' : i + 1 \in DOMAIN queue /\ queue'[i] = queue[i + 1]
      /\ queue' \in Seq(DOMAIN task) /\ Len(queue') = Len(queue) - 1
  BY <1>1
<1>5. \A i \in DOMAIN queue' : queue'[i] \in DOMAIN task \ {t}
  <2>1. ASSUME NEW i \in DOMAIN queue' PROVE queue[i + 1] # t
    <3>1. i + 1 \in DOMAIN queue /\ 1 \in DOMAIN queue /\ i + 1 # 1
      BY <1>1, <1>4
    <3>2. QED
      BY <1>1, <3>1 DEF IInv, Queued
  <2>2. QED
    BY <1>1, <1>4, <2>1
<1>6. queue' \in Seq(DOMAIN task')
  <2>1. \A i \in 1..Len(queue') : queue'[i] \in DOMAIN task'
    BY <1>1, <1>3, <1>4, <1>5
  <2>2. QED
    BY <1>4, <2>1, SeqOfOthers
<1>7. Queued'
  <2>1. ASSUME NEW i \in DOMAIN queue', NEW j \in DOMAIN queue', queue'[i] = queue'[j]
        PROVE  i = j
    <3>1. i + 1 = j + 1
      BY <1>4, <2>1 DEF IInv, Queued
    <3>2. QED
      BY <1>1, <1>4, <3>1
  <2>2. ASSUME NEW i \in DOMAIN queue' PROVE task'[queue'[i]].at = "bridge"
    BY <1>3, <1>4, <1>5 DEF IInv, Queued
  <2>3. QED
    BY <2>1, <2>2 DEF Queued
<1>8. QED
  BY <1>2, <1>6, <1>7

-----------------------------------------------------------------------------
(* What has been sent since.                                               *)

LEMMA NotedRuns ==
  ASSUME NEW s, NEW how \in Since, IsTable(run, Shutters, Run),
         OnlyResyncReachesMeasured, how # "command" \/ s \notin DOMAIN run
  PROVE  /\ IsTable(Noted(run, s, how), Shutters, Run)
         /\ \A x \in DOMAIN Noted(run, s, how) : Noted(run, s, how)[x].since # "command"
<1>1. CASE s \in DOMAIN run /\ run[s].since # "command"
  <2>1. PICK r : r = [run[s] EXCEPT !.since = how]
    OBVIOUS
  <2>2. r \in Run /\ r.since = how
    <3>1. run[s] \in Run
      BY <1>1 DEF IsTable
    <3>2. QED
      BY <2>1, <3>1 DEF Run
  <2>3. Noted(run, s, how) = [run EXCEPT ![s] = r]
    BY <1>1, <2>1 DEF Noted
  <2>4. QED
    BY <1>1, <2>2, <2>3 DEF IsTable, OnlyResyncReachesMeasured
<1>2. CASE ~(s \in DOMAIN run /\ run[s].since # "command")
  BY <1>2 DEF Noted, OnlyResyncReachesMeasured
<1>3. QED
  BY <1>1, <1>2

\* A table of checks that nothing was commanded since.
Fresh(checks) ==
  /\ IsTable(checks, Shutters, [since : Since])
  /\ \A s \in DOMAIN checks : checks[s].since # "command"

LEMMA NotedChecks ==
  ASSUME NEW checks, Fresh(checks), NEW s, NEW how \in Since,
         how # "command" \/ s \notin DOMAIN checks
  PROVE  Fresh(Noted(checks, s, how))
<1>1. CASE s \in DOMAIN checks /\ checks[s].since # "command"
  <2>1. PICK r : r = [checks[s] EXCEPT !.since = how]
    OBVIOUS
  <2>2. r \in [since : Since] /\ r.since = how
    <3>1. checks[s] \in [since : Since]
      BY <1>1 DEF Fresh, IsTable
    <3>2. QED
      BY <2>1, <3>1
  <2>3. Noted(checks, s, how) = [checks EXCEPT ![s] = r]
    BY <1>1, <2>1 DEF Noted
  <2>4. QED
    BY <1>1, <2>2, <2>3 DEF Fresh, IsTable
<1>2. CASE ~(s \in DOMAIN checks /\ checks[s].since # "command")
  BY <1>2 DEF Noted
<1>3. QED
  BY <1>1, <1>2

LEMMA ChecksAreFresh ==
  ASSUME IInv
  PROVE  Fresh(check) /\ \A some : Fresh([s \in DOMAIN check \ some |-> check[s]])
BY DEF IInv, TypeOK, CommandsCloseTheCheck, Fresh, IsTable

\* A frame goes out: no command to whom is measured, and none under an open check.
LEMMA HandOverKeeps ==
  ASSUME IInv, NEW t \in Tasks, NotQueued(t), NEW kind \in Kinds, NEW s \in Shutters,
         NEW target \in Targets \cup {"stop"}, NEW rest \in SUBSET Shutters,
         NEW checks, Fresh(checks),
         kind = "run" => target \in Ends,
         kind \notin {"run", "resync"} => s \notin DOMAIN run,
         kind \in Closing => s \notin DOMAIN checks,
         HandOver(t, kind, s, target, rest, checks),
         UNCHANGED <<household, forgotten, place, drive, asked, loop, told>>
  PROVE  IInv'
<1> DEFINE x == Request(kind, s, target, rest, "bridge")
           others == Overtaken(s, IF kind \in Closing THEN "early" ELSE "sidestep")
           r == [to |-> target, age |-> 0, since |-> "nothing"]
<1>1. /\ task' = Put(others, t, x) /\ queue' = Append(queue, t)
      /\ run' = IF kind = "run" THEN Put(run, s, r)
                ELSE Noted(run, s, IF kind = "resync" THEN "sidestep" ELSE "command")
      /\ check' = Noted(checks, s, IF kind \in Closing THEN "command" ELSE "sidestep")
      /\ question' = question
  BY DEF HandOver
<1>2. x \in Task /\ x.at = "bridge"
  BY DEF Request, Task, Since
<1>3. kind = "run" => r \in Run /\ r.since = "nothing"
  BY Times DEF Run, Since
<1>4. /\ IsTable(others, Tasks, Task) /\ DOMAIN others = DOMAIN task
      /\ \A u \in DOMAIN task : others[u].at = task[u].at
  BY OvertakenAreRequests
<1> HIDE DEF x, r, others
<1>5. IsTable(task', Tasks, Task) /\ queue' \in Seq(DOMAIN task') /\ Queued'
  BY <1>1, <1>2, <1>4, TaskEnters
<1>6. IsTable(run', Shutters, Run) /\ OnlyResyncReachesMeasured'
  <2>1. CASE kind = "run"
    <3>1. run' = Put(run, s, r)
      BY <1>1, <2>1
    <3>2. QED
      BY <1>3, <2>1, <3>1 DEF IInv, TypeOK, IsTable, Put, OnlyResyncReachesMeasured
  <2>2. CASE kind = "resync"
    <3>1. run' = Noted(run, s, "sidestep") /\ "sidestep" \in Since
      BY <1>1, <2>2 DEF Since
    <3>2. QED
      BY <3>1, NotedRuns DEF IInv, TypeOK, OnlyResyncReachesMeasured
  <2>3. CASE kind \notin {"run", "resync"}
    <3>1. run' = run
      BY <1>1, <2>3 DEF Noted
    <3>2. QED
      BY <3>1 DEF IInv, TypeOK, OnlyResyncReachesMeasured
  <2>4. QED
    BY <2>1, <2>2, <2>3
<1>7. Fresh(check')
  <2>1. "command" \in Since /\ "sidestep" \in Since
    BY DEF Since
  <2>2. QED
    BY <1>1, <2>1, NotedChecks
<1>8. QED
  BY <1>1, <1>5, <1>6, <1>7
  DEF IInv, TypeOK, loop, CommandsCloseTheCheck, Fresh

-----------------------------------------------------------------------------
(* Where a shutter is.                                                     *)

LEMMA DriveFields ==
  ASSUME IInv, NEW s \in DOMAIN drive
  PROVE  /\ s \in household /\ s \in Shutters /\ drive[s] \in Drive
         /\ drive[s].from \in Places /\ drive[s].to \in Targets
         /\ drive[s].age \in 0..DriveTime
BY DEF IInv, TypeOK, IsTable, Drive

LEMMA RunFields ==
  ASSUME IInv, NEW s \in DOMAIN run
  PROVE  /\ s \in Shutters /\ run[s] \in Run /\ run[s].to \in Ends
         /\ run[s].age \in 0..(2 * DriveTime + 1) /\ run[s].since \in Since
         /\ run[s].since # "command"
BY DEF IInv, TypeOK, IsTable, Run, OnlyResyncReachesMeasured

LEMMA HereType ==
  ASSUME IInv, NEW s \in Shutters
  PROVE  Here(s) \in Places
<1>1. CASE s \in DOMAIN drive
  BY <1>1, DriveFields DEF Here, Places, Targets
<1>2. CASE s \notin DOMAIN drive
  BY <1>2 DEF Here, IInv, TypeOK
<1>3. QED
  BY <1>1, <1>2

LEMMA StopDriveType ==
  ASSUME IInv, NEW s \in Shutters, StopDrive(s)
  PROVE  place' \in [Shutters -> Places] /\ IsTable(drive', household, Drive)
<1>1. place' = [place EXCEPT ![s] = Here(s)] /\ drive' = Drop(drive, s)
  BY DEF StopDrive
<1>2. QED
  BY <1>1, HereType DEF IInv, TypeOK, IsTable, Drop

LEMMA StartDriveType ==
  ASSUME IInv, NEW s \in household, NEW target \in Targets, StartDrive(s, target)
  PROVE  place' \in [Shutters -> Places] /\ IsTable(drive', household, Drive)
<1> DEFINE d == [from |-> Here(s), to |-> target, age |-> 0]
<1>1. /\ place' = place
      /\ drive' = IF Here(s) = target /\ target \in Ends THEN drive ELSE Put(drive, s, d)
  BY DEF StartDrive
<1>2. d \in Drive
  BY HereType, Times DEF Drive, IInv, TypeOK
<1> HIDE DEF d
<1>3. QED
  BY <1>1, <1>2 DEF IInv, TypeOK, IsTable, Put

-----------------------------------------------------------------------------
(* Requests, up to the await of the bridge.                                *)

LEMMA CommandKeeps ==
  ASSUME IInv, NEW t \in Tasks, NEW s \in Shutters, NEW target \in Targets \cup {"stop"},
         NEW reachable \in BOOLEAN, Command(t, s, target, reachable)
  PROVE  IInv'
<1>1. /\ Idle(t) /\ s \notin DOMAIN run
      /\ UNCHANGED <<household, forgotten, place, drive, asked, loop, told>>
      /\ IF reachable THEN HandOver(t, "command", s, target, {}, Drop(check, s))
         ELSE check' = Drop(check, s) /\ UNCHANGED <<run, question, task, queue>>
  BY DEF Command, Refused
<1>2. Fresh(Drop(check, s)) /\ s \notin DOMAIN Drop(check, s)
  BY ChecksAreFresh DEF Drop
<1>3. CASE reachable
  BY <1>1, <1>2, <1>3, OutOfQueue, HandOverKeeps DEF Kinds
<1>4. CASE ~reachable
  BY <1>1, <1>2, <1>4 DEF IInv, TypeOK, loop, Queued, OnlyResyncReachesMeasured,
     CommandsCloseTheCheck, Fresh
<1>5. QED
  BY <1>3, <1>4

\* Of those that would be tried, one comes first.
LEMMA FirstInOrder ==
  ASSUME NEW halts \in SUBSET Shutters, halts # {}
  PROVE  \E s \in halts : \A x \in halts : Rank[s] <= Rank[x]
<1> DEFINE ranks == {Rank[s] : s \in halts}
<1>1. ranks \in SUBSET Nat /\ ranks # {}
  BY CommandAssumption DEF CommandAssumption
<1>2. \E n \in ranks : \A m \in ranks : ~ (<<m, n>> \in OpToRel(<, Nat))
  BY <1>1, NatLessThanWellFounded, WFMin
<1>3. PICK n \in ranks : \A m \in ranks : ~(m < n)
  BY <1>1, <1>2 DEF OpToRel
<1>4. PICK s \in halts : n = Rank[s]
  BY <1>3
<1>5. \A x \in halts : Rank[x] \in Nat /\ ~(Rank[x] < Rank[s])
  BY <1>1, <1>3, <1>4
<1>6. QED
  BY <1>5

LEMMA WalkOnKeeps ==
  ASSUME IInv, NEW t \in Tasks, NotQueued(t), NEW rest \in SUBSET Shutters,
         NEW target \in Targets \cup {"stop"}, NEW reachable \in BOOLEAN,
         WalkOn(t, rest, target, reachable),
         UNCHANGED <<household, forgotten, place, drive, asked, loop, told>>
  PROVE  IInv'
<1> DEFINE halts == {s \in rest : ~Refused(s) /\ (reachable \/ s \notin household)}
           first == CHOOSE s \in halts : \A x \in halts : Rank[s] <= Rank[x]
           tried == IF halts = {} THEN rest ELSE {s \in rest : Rank[s] <= Rank[first]}
           left == [s \in DOMAIN check \ {x \in tried : ~Refused(x)} |-> check[s]]
<1>1. IF halts # {} /\ first \in household
      THEN HandOver(t, "list", first, target, rest \ tried, left)
      ELSE check' = left /\ task' = Drop(task, t) /\ UNCHANGED <<run, question, queue>>
  BY DEF WalkOn
<1>2. Fresh(left)
  BY ChecksAreFresh
<1>3. ASSUME halts # {}
      PROVE  first \in rest /\ first \notin DOMAIN run /\ first \notin DOMAIN left
  <2>1. first \in halts
    BY <1>3, FirstInOrder
  <2>2. first \in Shutters /\ Rank[first] \in Nat /\ first \in tried /\ ~Refused(first)
    BY <1>3, <2>1, CommandAssumption DEF CommandAssumption
  <2>3. QED
    BY <2>1, <2>2 DEF Refused
<1> HIDE DEF halts, first, tried, left
<1>4. CASE halts # {} /\ first \in household
  <2>1. HandOver(t, "list", first, target, rest \ tried, left)
    BY <1>1, <1>4
  <2>2. "list" \in Kinds /\ first \in Shutters /\ rest \ tried \in SUBSET Shutters
    BY <1>3, <1>4 DEF Kinds
  <2>3. QED
    BY <1>2, <1>3, <1>4, <2>1, <2>2, HandOverKeeps
<1>5. CASE ~(halts # {} /\ first \in household)
  <2>1. check' = left /\ task' = Drop(task, t) /\ UNCHANGED <<run, question, queue>>
    BY <1>1, <1>5
  <2>2. IsTable(task', Tasks, Task) /\ queue' \in Seq(DOMAIN task') /\ Queued'
    BY <2>1, TaskStays
  <2>3. QED
    BY <1>2, <2>1, <2>2 DEF IInv, TypeOK, loop, OnlyResyncReachesMeasured,
       CommandsCloseTheCheck, Fresh
<1>6. QED
  BY <1>4, <1>5

LEMMA CommandAllKeeps ==
  ASSUME IInv, NEW t \in Tasks, NEW target \in Targets \cup {"stop"},
         NEW reachable \in BOOLEAN, CommandAll(t, target, reachable)
  PROVE  IInv'
BY OutOfQueue, WalkOnKeeps DEF CommandAll, IInv, TypeOK

LEMMA DrivingAway ==
  ASSUME IInv, NEW t \in Tasks, NEW s \in Shutters, NEW end \in Ends,
         Resync(t, s, end) \/ Home(t, s, end) \/ StartCheck(t, s)
  PROVE  IInv'
<1>1. Fresh(check)
  BY ChecksAreFresh
<1>2. CASE Resync(t, s, end)
  BY <1>1, <1>2, OutOfQueue, HandOverKeeps DEF Resync, Kinds, Closing, Targets
<1>3. CASE Home(t, s, end)
  BY <1>1, <1>3, OutOfQueue, HandOverKeeps DEF Home, Kinds, Closing, Targets
<1>4. CASE StartCheck(t, s)
  BY <1>1, <1>4, OutOfQueue, HandOverKeeps DEF StartCheck, Kinds, Closing, Targets
<1>5. QED
  BY <1>2, <1>3, <1>4

\* What is left to announce is a request like the others.
LEMMA AnnouncesTask ==
  ASSUME NEW t \in Tasks, NEW s \in Shutters, Announces(t, "ended", s)
  PROVE  \E x \in Task : task' = Put(task, t, x)
<1> DEFINE x == Request("ended", s, "stop", {}, "news")
<1>1. x \in Task /\ task' = Put(task, t, x)
  BY DEF Request, Task, Since, Announces
<1>2. QED
  BY <1>1

LEMMA StartRunKeeps ==
  ASSUME IInv, NEW t \in Tasks, NEW s \in Shutters, NEW reachable \in BOOLEAN,
         StartRun(t, s, reachable)
  PROVE  IInv'
<1>1. /\ Idle(t) /\ Here(s) \in Ends
      /\ IF s \in DOMAIN run \/ ~reachable
         THEN /\ check' = Drop(check, s)
              /\ IF s \in DOMAIN run THEN task' = task ELSE Announces(t, "ended", s)
              /\ UNCHANGED <<run, question, queue>>
         ELSE HandOver(t, "run", s, Opposite(Here(s)), {}, Drop(check, s))
      /\ UNCHANGED <<household, forgotten, place, drive, asked, loop, told>>
  BY DEF StartRun
<1>2. Fresh(Drop(check, s)) /\ s \notin DOMAIN Drop(check, s)
  BY ChecksAreFresh DEF Drop
<1>3. CASE s \in DOMAIN run \/ ~reachable
  <2>1. IsTable(task', Tasks, Task) /\ queue' \in Seq(DOMAIN task') /\ Queued'
    <3>1. CASE s \in DOMAIN run
      BY <1>1, <3>1 DEF IInv, TypeOK, Queued
    <3>2. CASE s \notin DOMAIN run
      <4>1. Announces(t, "ended", s) /\ queue' = queue
        BY <1>1, <1>3, <3>2
      <4>2. QED
        BY <1>1, <4>1, AnnouncesTask, OutOfQueue, TaskStays
    <3>3. QED
      BY <3>1, <3>2
  <2>2. QED
    BY <1>1, <1>2, <1>3, <2>1 DEF IInv, TypeOK, loop, OnlyResyncReachesMeasured,
       CommandsCloseTheCheck, Fresh
<1>4. CASE ~(s \in DOMAIN run \/ ~reachable)
  <2>1. HandOver(t, "run", s, Opposite(Here(s)), {}, Drop(check, s))
    BY <1>1, <1>4
  <2>2. Opposite(Here(s)) \in Ends /\ Opposite(Here(s)) \in Targets \cup {"stop"}
        /\ "run" \in Kinds
    BY <1>1 DEF Opposite, Ends, Targets, Kinds
  <2>3. QED
    BY <1>1, <1>2, <2>1, <2>2, OutOfQueue, HandOverKeeps
<1>5. QED
  BY <1>3, <1>4

LEMMA AbortRunKeeps ==
  ASSUME IInv, NEW t \in Tasks, NEW s \in Shutters, NEW reachable \in BOOLEAN,
         AbortRun(t, s, reachable)
  PROVE  IInv'
<1> DEFINE x == Request("abort", s, "stop", {}, "bridge")
<1>1. /\ Idle(t) /\ s \in household /\ run' = Drop(run, s)
      /\ IF reachable
         THEN /\ task' = Put(task, t, x) /\ queue' = Append(queue, t)
              /\ check' = Noted(check, s, "sidestep")
              /\ UNCHANGED <<question, place, drive>>
         ELSE StopDrive(s) /\ Announces(t, "ended", s) /\ UNCHANGED <<check, question, queue>>
      /\ UNCHANGED <<household, forgotten, asked, loop, told>>
  BY DEF AbortRun
<1>2. x \in Task /\ x.at = "bridge" /\ IsTable(task, Tasks, Task)
  BY DEF Request, Task, Since, Kinds, IInv, TypeOK
<1> HIDE DEF x
<1>3. IsTable(run', Shutters, Run) /\ OnlyResyncReachesMeasured'
  BY <1>1 DEF IInv, TypeOK, IsTable, Drop, OnlyResyncReachesMeasured
<1>4. /\ IsTable(task', Tasks, Task) /\ queue' \in Seq(DOMAIN task') /\ Queued'
      /\ Fresh(check') /\ question' = question
      /\ place' \in [Shutters -> Places] /\ IsTable(drive', household, Drive)
  <2>1. CASE reachable
    <3>1. IsTable(task', Tasks, Task) /\ queue' \in Seq(DOMAIN task') /\ Queued'
      BY <1>1, <1>2, <2>1, OutOfQueue, TaskEnters
    <3>2. Fresh(check')
      BY <1>1, <2>1, ChecksAreFresh, NotedChecks DEF Since
    <3>3. QED
      BY <1>1, <2>1, <3>1, <3>2 DEF IInv, TypeOK
  <2>2. CASE ~reachable
    <3>1. IsTable(task', Tasks, Task) /\ queue' \in Seq(DOMAIN task') /\ Queued'
      BY <1>1, <2>2, AnnouncesTask, OutOfQueue, TaskStays
    <3>2. QED
      BY <1>1, <2>2, <3>1, ChecksAreFresh, StopDriveType
  <2>3. QED
    BY <2>1, <2>2
<1>5. QED
  BY <1>1, <1>3, <1>4
  DEF IInv, TypeOK, loop, CommandsCloseTheCheck, Fresh

LEMMA MarkArrivedKeeps ==
  ASSUME IInv, NEW t \in Tasks, NEW s \in Shutters, MarkArrived(t, s)
  PROVE  IInv'
<1>1. /\ Idle(t) /\ s \in DOMAIN run /\ run' = Drop(run, s) /\ drive' = Drop(drive, s)
      /\ place' = [place EXCEPT ![s] = run[s].to] /\ Announces(t, "ended", s)
      /\ UNCHANGED <<household, forgotten, check, question, asked, loop, told, queue>>
  BY DEF MarkArrived
<1>2. IsTable(task', Tasks, Task) /\ queue' \in Seq(DOMAIN task') /\ Queued'
  BY <1>1, AnnouncesTask, OutOfQueue, TaskStays
<1>3. IsTable(run', Shutters, Run) /\ OnlyResyncReachesMeasured'
  BY <1>1 DEF IInv, TypeOK, IsTable, Drop, OnlyResyncReachesMeasured
<1>4. place' \in [Shutters -> Places] /\ IsTable(drive', household, Drive)
  <2>1. run[s].to \in Places
    BY <1>1, RunFields DEF Places
  <2>2. QED
    BY <1>1, <2>1 DEF IInv, TypeOK, IsTable, Drop
<1>5. QED
  BY <1>1, <1>2, <1>3, <1>4
  DEF IInv, TypeOK, loop, CommandsCloseTheCheck

-----------------------------------------------------------------------------
(* Requests, behind their awaits.                                          *)

\* A request that has been announced is a request.
LEMMA NewsIsTask ==
  ASSUME IInv, NEW t \in DOMAIN task
  PROVE  \E x \in Task : [task EXCEPT ![t].at = "news"] = Put(task, t, x)
<1>1. PICK x : x = [task[t] EXCEPT !.at = "news"]
  OBVIOUS
<1>2. x \in Task
  <2>1. task[t] \in Task
    BY TaskFields
  <2>2. QED
    BY <1>1, <2>1 DEF Task
<1>3. task \in [DOMAIN task -> Task]
  BY DEF IInv, TypeOK, IsTable
<1>4. [task EXCEPT ![t].at = "news"] = Put(task, t, x)
  <2>1. [task EXCEPT ![t].at = "news"] = [task EXCEPT ![t] = x]
    BY <1>1
  <2>2. [task EXCEPT ![t] = x] = [u \in DOMAIN task |-> IF u = t THEN x ELSE task[u]]
    BY <1>3
  <2>3. DOMAIN task \cup {t} = DOMAIN task
    OBVIOUS
  <2>4. QED
    BY <2>1, <2>2, <2>3 DEF Put
<1>5. QED
  BY <1>2, <1>4

LEMMA BridgeTookKeeps ==
  ASSUME IInv, NEW t \in Tasks, BridgeTook(t)
  PROVE  IInv'
<1> DEFINE s == task[t].shutter
<1>1. /\ queue # <<>> /\ Head(queue) = t /\ queue' = Tail(queue)
      /\ IF s \notin household
         THEN task' = Drop(task, t) /\ UNCHANGED <<place, drive>>
         ELSE /\ IF task[t].kind \in {"command", "resync", "home"}
                 THEN task' = Drop(task, t)
                 ELSE task' = [task EXCEPT ![t].at = "news"]
              /\ IF task[t].target = "stop" THEN StopDrive(s)
                                            ELSE StartDrive(s, task[t].target)
      /\ UNCHANGED <<household, forgotten, run, check, question, asked, loop, told>>
  BY DEF BridgeTook, motion
<1>2. t \in DOMAIN task
  <2>1. queue \in Seq(DOMAIN task)
    BY DEF IInv, TypeOK
  <2>2. QED
    BY <1>1, <2>1
<1>3. s \in Shutters /\ task[t].target \in Targets \cup {"stop"}
  BY <1>2, TaskFields
<1> HIDE DEF s
<1>4. IsTable(task', Tasks, Task) /\ queue' \in Seq(DOMAIN task') /\ Queued'
  <2>1. task' = Drop(task, t) \/ \E x \in Task : task' = Put(task, t, x)
    BY <1>1, <1>2, NewsIsTask
  <2>2. QED
    BY <1>1, <2>1, TaskLeaves
<1>5. place' \in [Shutters -> Places] /\ IsTable(drive', household, Drive)
  <2>1. CASE s \notin household
    BY <1>1, <2>1 DEF IInv, TypeOK
  <2>2. CASE s \in household
    BY <1>1, <1>3, <2>2, StopDriveType, StartDriveType
  <2>3. QED
    BY <2>1, <2>2
<1>6. QED
  BY <1>1, <1>4, <1>5 DEF IInv, TypeOK, loop, OnlyResyncReachesMeasured,
     CommandsCloseTheCheck

LEMMA BridgeFailedKeeps ==
  ASSUME IInv, NEW t \in Tasks, BridgeFailed(t)
  PROVE  IInv'
<1> DEFINE s == task[t].shutter
<1>1. /\ queue # <<>> /\ Head(queue) = t /\ queue' = Tail(queue)
      /\ \/ run' = Drop(run, s) /\ Announces(t, "ended", s) /\ UNCHANGED <<place, drive>>
         \/ StopDrive(s) /\ Announces(t, "ended", s) /\ run' = run
         \/ task' = Drop(task, t) /\ UNCHANGED <<run, place, drive>>
      /\ UNCHANGED <<household, forgotten, check, question, asked, loop, told>>
  BY DEF BridgeFailed, motion
<1>2. t \in DOMAIN task
  <2>1. queue \in Seq(DOMAIN task)
    BY DEF IInv, TypeOK
  <2>2. QED
    BY <1>1, <2>1
<1>3. s \in Shutters
  BY <1>2, TaskFields
<1> HIDE DEF s
<1>4. IsTable(task', Tasks, Task) /\ queue' \in Seq(DOMAIN task') /\ Queued'
  <2>1. task' = Drop(task, t) \/ \E x \in Task : task' = Put(task, t, x)
    BY <1>1, <1>3, AnnouncesTask
  <2>2. QED
    BY <1>1, <2>1, TaskLeaves
<1>5. place' \in [Shutters -> Places] /\ IsTable(drive', household, Drive)
  BY <1>1, <1>3, StopDriveType DEF IInv, TypeOK
<1>6. IsTable(run', Shutters, Run) /\ OnlyResyncReachesMeasured'
  BY <1>1 DEF IInv, TypeOK, IsTable, Drop, OnlyResyncReachesMeasured
<1>7. QED
  BY <1>1, <1>4, <1>5, <1>6
  DEF IInv, TypeOK, loop, CommandsCloseTheCheck

LEMMA ListMemberFailedKeeps ==
  ASSUME IInv, NEW t \in Tasks, ListMemberFailed(t)
  PROVE  IInv'
<1>1. /\ queue # <<>> /\ Head(queue) = t /\ queue' = Tail(queue)
      /\ task' = [task EXCEPT ![t].at = "news"]
      /\ UNCHANGED <<household, forgotten, place, drive, run, check, question,
                     asked, loop, told>>
  BY DEF ListMemberFailed
<1>2. t \in DOMAIN task
  <2>1. queue \in Seq(DOMAIN task)
    BY DEF IInv, TypeOK
  <2>2. QED
    BY <1>1, <2>1
<1>3. IsTable(task', Tasks, Task) /\ queue' \in Seq(DOMAIN task') /\ Queued'
  BY <1>1, <1>2, NewsIsTask, TaskLeaves
<1>4. QED
  BY <1>1, <1>3 DEF IInv, TypeOK, loop, OnlyResyncReachesMeasured,
     CommandsCloseTheCheck

LEMMA ListGoesOnKeeps ==
  ASSUME IInv, NEW t \in Tasks, NEW reachable \in BOOLEAN, ListGoesOn(t, reachable)
  PROVE  IInv'
<1>1. t \in DOMAIN task
  BY DEF ListGoesOn, Idle
<1>2. QED
  BY <1>1, TaskFields, OutOfQueue, WalkOnKeeps DEF ListGoesOn

LEMMA CheckOpensKeeps ==
  ASSUME IInv, NEW t \in Tasks, CheckOpens(t)
  PROVE  IInv'
<1> DEFINE x == [since |-> task[t].since]
<1>1. /\ t \in DOMAIN task /\ task[t].at = "news"
      /\ check' = Put(check, task[t].shutter, x) /\ task' = Drop(task, t)
      /\ UNCHANGED <<household, forgotten, place, drive, run, question, asked,
                     loop, told, queue>>
  BY DEF CheckOpens, Idle
<1>2. x \in [since : Since] /\ x.since # "command"
  <2>1. task[t] \in Task
    BY <1>1, TaskFields
  <2>2. QED
    BY <2>1 DEF Task
<1> HIDE DEF x
<1>3. IsTable(task', Tasks, Task) /\ queue' \in Seq(DOMAIN task') /\ Queued'
  BY <1>1, OutOfQueue, TaskStays
<1>4. Fresh(check')
  <2>1. task[t].shutter \in Shutters
    BY <1>1, TaskFields
  <2>2. QED
    BY <1>1, <1>2, <2>1, ChecksAreFresh DEF Fresh, IsTable, Put
<1>5. QED
  BY <1>1, <1>3, <1>4 DEF IInv, TypeOK, loop, OnlyResyncReachesMeasured,
     CommandsCloseTheCheck, Fresh

LEMMA RunAnnouncedKeeps ==
  ASSUME IInv, NEW t \in Tasks, RunAnnounced(t)
  PROVE  IInv'
<1>1. /\ t \in DOMAIN task /\ task[t].at = "news" /\ task' = Drop(task, t)
      /\ told' = told \cup {task[t].shutter} \/ told' = told \ {task[t].shutter}
      /\ UNCHANGED <<household, forgotten, place, drive, run, check, question,
                     asked, loop, queue>>
  BY DEF RunAnnounced, Idle
<1>2. IsTable(task', Tasks, Task) /\ queue' \in Seq(DOMAIN task') /\ Queued'
  BY <1>1, OutOfQueue, TaskStays
<1>3. told' \subseteq Shutters
  BY <1>1, TaskFields DEF IInv, TypeOK
<1>4. QED
  BY <1>1, <1>2, <1>3 DEF IInv, TypeOK, loop, OnlyResyncReachesMeasured,
     CommandsCloseTheCheck

-----------------------------------------------------------------------------
(* The loop, the answers and what happens around.                          *)

\* The tick settles a travel, of which it may be the wrong one or none.
LEMMA SettlesKeeps ==
  ASSUME IInv, NEW s \in Shutters, NEW d \in Drive, Settles(s, d),
         IsTable(due', Shutters, Drive),
         UNCHANGED <<household, forgotten, run, check, question, asked, told, task, queue>>
  PROVE  IInv'
<1>1. d.from \in Places /\ d.to \in Places
  BY DEF Drive, Places, Targets
<1>2. /\ place' \in [Shutters -> Places] /\ IsTable(drive', household, Drive)
      /\ IsTable(settled', Shutters, Places) /\ pump' \in {"asleep", "walking", "dead"}
  <2>1. CASE s \in DOMAIN drive
    <3>1. /\ place' = [place EXCEPT ![s] = d.to] /\ drive' = Drop(drive, s)
          /\ settled' = Put(settled, s, d.from) \/ settled' = settled
          /\ pump' = "walking"
      BY <2>1 DEF Settles
    <3>2. QED
      BY <1>1, <3>1 DEF IInv, TypeOK, IsTable, Drop, Put
  <2>2. CASE s \notin DOMAIN drive
    BY <2>2 DEF Settles, IInv, TypeOK
  <2>3. QED
    BY <2>1, <2>2
<1>3. QED
  BY <1>2 DEF IInv, TypeOK, Queued, OnlyResyncReachesMeasured, CommandsCloseTheCheck

LEMMA TickKeeps ==
  ASSUME IInv, NEW s \in Shutters, TickBegins(s) \/ TickGoesOn(s)
  PROVE  IInv'
<1>1. CASE TickBegins(s)
  <2>1. /\ s \in DOMAIN drive /\ due' = [x \in Done \ {s} |-> drive[x]]
        /\ Settles(s, drive[s])
        /\ UNCHANGED <<household, forgotten, run, check, question, asked, told, task, queue>>
    BY <1>1 DEF TickBegins, Done
  <2>2. IsTable(due', Shutters, Drive)
    BY <2>1, DriveFields DEF Done, IsTable
  <2>3. QED
    BY <2>1, <2>2, DriveFields, SettlesKeeps
<1>2. CASE TickGoesOn(s)
  <2>1. /\ s \in DOMAIN due /\ Settles(s, due[s])
        /\ due' = IF s \in DOMAIN drive THEN Drop(due, s) ELSE EmptyTable
        /\ UNCHANGED <<household, forgotten, run, check, question, asked, told, task, queue>>
    BY <1>2 DEF TickGoesOn
  <2>2. IsTable(due', Shutters, Drive) /\ due[s] \in Drive
    BY <2>1 DEF IInv, TypeOK, IsTable, Drop, EmptyTable
  <2>3. QED
    BY <2>1, <2>2, SettlesKeeps
<1>3. QED
  BY <1>1, <1>2

LEMMA NoteConfirmableKeeps ==
  ASSUME IInv, NEW s \in Shutters, NoteConfirmable(s)
  PROVE  IInv'
<1>1. /\ s \in DOMAIN settled /\ settled' = Drop(settled, s)
      /\ \/ question' = Put(question, s, settled[s]) /\ asked' = Put(asked, s, 0)
         \/ UNCHANGED <<question, asked>>
      /\ UNCHANGED <<household, forgotten, place, drive, run, check, pump, due, told,
                     task, queue>>
  BY DEF NoteConfirmable
<1>2. settled[s] \in Places /\ 0 \in 0..(Cooldown - 1)
  BY <1>1, Times DEF IInv, TypeOK, IsTable
<1>3. IsTable(settled', Shutters, Places)
  BY <1>1 DEF IInv, TypeOK, IsTable, Drop
<1>4. IsTable(question', Shutters, Places) /\ IsTable(asked', Shutters, 0..(Cooldown - 1))
  BY <1>1, <1>2 DEF IInv, TypeOK, IsTable, Put
<1>5. QED
  BY <1>1, <1>3, <1>4
  DEF IInv, TypeOK, Queued, OnlyResyncReachesMeasured, CommandsCloseTheCheck

LEMMA SweepKeeps ==
  ASSUME IInv, Sweep
  PROVE  IInv'
<1>1. PICK stale : /\ run' = [s \in DOMAIN run \ stale |-> run[s]]
                   /\ told' = told \ stale
  BY DEF Sweep
<1>2. /\ pump' = "asleep"
      /\ UNCHANGED <<household, forgotten, place, drive, check, question, asked, due,
                     settled, task, queue>>
  BY DEF Sweep
<1>3. IsTable(run', Shutters, Run) /\ OnlyResyncReachesMeasured'
  BY <1>1 DEF IInv, TypeOK, IsTable, OnlyResyncReachesMeasured
<1>4. QED
  BY <1>1, <1>2, <1>3 DEF IInv, TypeOK, Queued, CommandsCloseTheCheck

\* A question, a check: answered or cleared away.
LEMMA AnsweringKeeps ==
  ASSUME IInv, NEW s \in Shutters,
         Confirm(s) \/ Dismiss(s) \/ AnswerCheck(s) \/ ClearCheck(s)
  PROVE  IInv'
<1>1. /\ question' = Drop(question, s) \/ question' = question
      /\ check' = Drop(check, s) \/ check' = check
      /\ UNCHANGED <<household, forgotten, place, drive, run, asked, loop, told,
                     task, queue>>
  BY DEF Confirm, Dismiss, AnswerCheck, ClearCheck
<1>2. Fresh(check')
  BY <1>1, ChecksAreFresh DEF Drop
<1>3. IsTable(question', Shutters, Places)
  BY <1>1 DEF IInv, TypeOK, IsTable, Drop
<1>4. QED
  BY <1>1, <1>2, <1>3 DEF IInv, TypeOK, loop, Queued, OnlyResyncReachesMeasured,
     CommandsCloseTheCheck, Fresh

\* A shutter leaves, with all that is remembered of it except a run and a cooldown.
LEMMA LeavesKeeps ==
  ASSUME IInv, NEW s \in Shutters, Leaves(s), UNCHANGED <<run, asked, loop, told>>,
         IsTable(task', Tasks, Task), queue' \in Seq(DOMAIN task'), Queued'
  PROVE  IInv'
<1>1. /\ household' = household \ {s} /\ forgotten' = forgotten \ {s}
      /\ check' = Drop(check, s) /\ question' = Drop(question, s)
      /\ drive' = Drop(drive, s) /\ place' = [place EXCEPT ![s] = "lost"]
  BY DEF Leaves
<1>2. Fresh(check')
  BY <1>1, ChecksAreFresh DEF Drop
<1>3. IsTable(question', Shutters, Places)
  BY <1>1 DEF IInv, TypeOK, IsTable, Drop
<1>4. place' \in [Shutters -> Places] /\ IsTable(drive', household', Drive)
  BY <1>1 DEF IInv, TypeOK, IsTable, Drop, Places
<1>5. QED
  BY <1>1, <1>2, <1>3, <1>4 DEF IInv, TypeOK, loop, OnlyResyncReachesMeasured,
     CommandsCloseTheCheck, Fresh

LEMMA RemovingKeeps ==
  ASSUME IInv, NEW t \in Tasks, NEW s \in Shutters,
         RemoveAtOnce(s) \/ Remove(t, s) \/ RemoveGoesOn(t)
  PROVE  IInv'
<1>1. CASE RemoveAtOnce(s)
  BY <1>1, LeavesKeeps DEF RemoveAtOnce, IInv, TypeOK, Queued
<1>2. CASE Remove(t, s)
  <2> DEFINE x == Request("remove", s, "stop", {}, "news")
  <2>1. /\ Idle(t) /\ task' = Put(task, t, x)
        /\ UNCHANGED <<household, forgotten, place, drive, run, check, question,
                       asked, loop, told, queue>>
    BY <1>2 DEF Remove
  <2>2. x \in Task
    BY DEF Request, Task, Since
  <2> HIDE DEF x
  <2>3. IsTable(task', Tasks, Task) /\ queue' \in Seq(DOMAIN task') /\ Queued'
    BY <2>1, <2>2, OutOfQueue, TaskStays
  <2>4. QED
    BY <2>1, <2>3 DEF IInv, TypeOK, loop, OnlyResyncReachesMeasured,
       CommandsCloseTheCheck
<1>3. CASE RemoveGoesOn(t)
  <2>1. /\ t \in DOMAIN task /\ task[t].at = "news" /\ Leaves(task[t].shutter)
        /\ task' = Drop(task, t) /\ UNCHANGED <<run, asked, loop, told, queue>>
    BY <1>3 DEF RemoveGoesOn, Idle
  <2>2. IsTable(task', Tasks, Task) /\ queue' \in Seq(DOMAIN task') /\ Queued'
    BY <2>1, OutOfQueue, TaskStays
  <2>3. QED
    BY <2>1, <2>2, TaskFields, LeavesKeeps
<1>4. QED
  BY <1>1, <1>2, <1>3

LEMMA AroundKeeps ==
  ASSUME IInv, NEW s \in Shutters, Forgets(s) \/ Add(s)
  PROVE  IInv'
BY DEF Forgets, Add, IInv, TypeOK, loop, IsTable, Queued, OnlyResyncReachesMeasured,
   CommandsCloseTheCheck

LEMMA RestartKeeps ==
  ASSUME IInv, Restart
  PROVE  IInv'
<1>1. /\ place' = [s \in Shutters |-> IF s \in DOMAIN drive THEN "lost" ELSE place[s]]
      /\ drive' = EmptyTable /\ run' = EmptyTable
      /\ check' = EmptyTable /\ question' = EmptyTable
      /\ pump' = "asleep" /\ due' = EmptyTable /\ settled' = EmptyTable
      /\ task' = EmptyTable /\ queue' = <<>>
      /\ told' = {} /\ forgotten' = {} /\ UNCHANGED <<household, asked>>
  BY DEF Restart
<1>2. DOMAIN EmptyTable = {} /\ \A K, V : IsTable(EmptyTable, K, V)
  BY DEF EmptyTable, IsTable
<1>3. place' \in [Shutters -> Places]
  BY <1>1 DEF IInv, TypeOK, Places
<1>4. queue' \in Seq(DOMAIN task') /\ DOMAIN queue' = {}
  BY <1>1
<1>5. QED
  BY <1>1, <1>2, <1>3, <1>4 DEF IInv, TypeOK, Queued, OnlyResyncReachesMeasured,
     CommandsCloseTheCheck

LEMMA PassKeeps ==
  ASSUME IInv, Pass
  PROVE  IInv'
<1>1. /\ drive' = [s \in DOMAIN drive |->
                     [drive[s] EXCEPT !.age = UpTo(drive[s].age, DriveTime)]]
      /\ run' = [s \in DOMAIN run |->
                   [run[s] EXCEPT !.age = UpTo(run[s].age, 2 * DriveTime + 1)]]
      /\ asked' = [s \in {x \in DOMAIN asked : asked[x] + 1 < Cooldown} |-> asked[s] + 1]
      /\ UNCHANGED <<household, forgotten, place, check, question, loop, told,
                     task, queue>>
  BY DEF Pass
<1>2. \A most \in Nat : \A n \in 0..most : UpTo(n, most) \in 0..most
  BY DEF UpTo
<1>3. IsTable(drive', household, Drive)
  <2>1. ASSUME NEW s \in DOMAIN drive PROVE drive'[s] \in Drive
    <3>1. drive[s] \in Drive /\ UpTo(drive[s].age, DriveTime) \in 0..DriveTime
      BY <1>2, DriveFields, Times
    <3>2. drive'[s] = [drive[s] EXCEPT !.age = UpTo(drive[s].age, DriveTime)]
      BY <1>1
    <3>3. QED
      BY <3>1, <3>2 DEF Drive
  <2>2. DOMAIN drive' = DOMAIN drive /\ drive' = [s \in DOMAIN drive |-> drive'[s]]
    BY <1>1
  <2>3. QED
    BY <2>1, <2>2 DEF IInv, TypeOK, IsTable
<1>4. IsTable(run', Shutters, Run) /\ OnlyResyncReachesMeasured'
  <2>1. ASSUME NEW s \in DOMAIN run PROVE run'[s] \in Run /\ run'[s].since = run[s].since
    <3>1. 2 * DriveTime + 1 \in Nat
      BY Times
    <3>2. /\ run[s] \in Run
          /\ UpTo(run[s].age, 2 * DriveTime + 1) \in 0..(2 * DriveTime + 1)
      BY <1>2, <3>1, RunFields
    <3>3. run'[s] = [run[s] EXCEPT !.age = UpTo(run[s].age, 2 * DriveTime + 1)]
      BY <1>1
    <3>4. QED
      BY <3>2, <3>3 DEF Run
  <2>2. DOMAIN run' = DOMAIN run /\ run' = [s \in DOMAIN run |-> run'[s]]
    BY <1>1
  <2>3. QED
    BY <2>1, <2>2 DEF IInv, TypeOK, IsTable, OnlyResyncReachesMeasured
<1>5. IsTable(asked', Shutters, 0..(Cooldown - 1))
  <2>1. ASSUME NEW s \in DOMAIN asked, asked[s] + 1 < Cooldown
        PROVE  asked[s] + 1 \in 0..(Cooldown - 1)
    BY <2>1, Times DEF IInv, TypeOK, IsTable
  <2>2. QED
    BY <1>1, <2>1 DEF IInv, TypeOK, IsTable
<1>6. QED
  BY <1>1, <1>3, <1>4, <1>5
  DEF IInv, TypeOK, loop, Queued, CommandsCloseTheCheck

-----------------------------------------------------------------------------

LEMMA InitKeeps == Init => IInv
<1> SUFFICES ASSUME Init PROVE IInv
  OBVIOUS
<1>1. DOMAIN EmptyTable = {} /\ \A K, V : IsTable(EmptyTable, K, V)
  BY DEF EmptyTable, IsTable
<1>2. place \in [Shutters -> Places] /\ queue \in Seq(DOMAIN task) /\ DOMAIN queue = {}
  BY DEF Init, Places
<1>3. QED
  BY <1>1, <1>2 DEF Init, IInv, TypeOK, Queued, OnlyResyncReachesMeasured,
     CommandsCloseTheCheck

LEMMA NextKeeps ==
  ASSUME IInv, [Next]_vars
  PROVE  IInv'
<1>1. ASSUME NEW t \in Tasks, Asking(t)
      PROVE  IInv'
  BY <1>1, CommandAllKeeps, CommandKeeps, StartRunKeeps, AbortRunKeeps DEF Asking
<1>2. ASSUME NEW t \in Tasks, Driving(t)
      PROVE  IInv'
  BY <1>2, DrivingAway, MarkArrivedKeeps, RemovingKeeps DEF Driving, Ends
<1>3. ASSUME NEW t \in Tasks, Resuming(t)
      PROVE  IInv'
  <2>1. ASSUME RemoveGoesOn(t)
        PROVE  IInv'
    <3>1. task[t].shutter \in Shutters
      BY <2>1, TaskFields DEF RemoveGoesOn, Idle
    <3>2. QED
      BY <2>1, <3>1, RemovingKeeps
  <2>2. QED
    BY <1>3, <2>1, BridgeTookKeeps, BridgeFailedKeeps, ListMemberFailedKeeps,
       ListGoesOnKeeps, CheckOpensKeeps, RunAnnouncedKeeps DEF Resuming
<1>4. ASSUME NEW s \in Shutters, Watching(s)
      PROVE  IInv'
  BY <1>4, TickKeeps, NoteConfirmableKeeps, AnsweringKeeps DEF Watching
<1>5. CASE Around
  <2>1. ASSUME NEW s \in Shutters, RemoveAtOnce(s)
        PROVE  IInv'
    BY <2>1, LeavesKeeps DEF RemoveAtOnce, IInv, TypeOK, Queued
  <2>2. QED
    BY <1>5, <2>1, AroundKeeps DEF Around
<1>6. CASE UNCHANGED vars
  BY <1>6 DEF vars, IInv, TypeOK, Queued, OnlyResyncReachesMeasured,
     CommandsCloseTheCheck
<1>7. QED
  BY <1>1, <1>2, <1>3, <1>4, <1>5, <1>6, SweepKeeps, RestartKeeps, PassKeeps DEF Next

LEMMA Invariance == Spec => []IInv
<1>1. Init => IInv
  BY InitKeeps
<1>2. IInv /\ [Next]_vars => IInv'
  BY NextKeeps
<1>3. QED
  BY <1>1, <1>2, PTL DEF Spec

\* Requests, runs, checks and questions keep their types, and whoever awaits the
\* bridge is a request under way, however many there are.
THEOREM TypeCorrect == Spec => []TypeOK
<1>1. IInv => TypeOK
  BY DEF IInv
<1>2. QED
  BY <1>1, Invariance, PTL

\* FR-028, for any number of shutters and of requests in any order of their awaits:
\* whoever is being measured has been sent nothing but the run and a resync.
THEOREM MeasuredIsLeftAlone == Spec => []OnlyResyncReachesMeasured
<1>1. IInv => OnlyResyncReachesMeasured
  BY DEF IInv
<1>2. QED
  BY <1>1, Invariance, PTL

\* commands.py:107: no check is open over a command, a member of a list or a run
\* whose frame went out after it had opened, for any number of shutters and of
\* requests.  One that overtakes the request to check is exempt (it is "early").
THEOREM CommandsClose == Spec => []CommandsCloseTheCheck
<1>1. IInv => CommandsCloseTheCheck
  BY DEF IInv
<1>2. QED
  BY <1>1, Invariance, PTL
=============================================================================
