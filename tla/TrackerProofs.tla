--------------------------- MODULE TrackerProofs ----------------------------
(***************************************************************************)
(* What holds of the tracker for every household, every curve, every       *)
(* travel time and every tolerance: its tables keep their types, nothing   *)
(* is left of a shutter that has gone, estimates are well formed, and a    *)
(* restart is honest.                                                      *)
(***************************************************************************)
EXTENDS Tracker, TLAPS

-----------------------------------------------------------------------------
(* Arithmetic.                                                             *)

LEMMA DivBound ==
  ASSUME NEW a \in Nat, NEW b \in Nat, NEW c \in Nat, b > 0, a < (c + 1) * b
  PROVE  a \div b \in 0..c
<1> DEFINE q == a \div b
<1>1. q \in Nat
  OBVIOUS
<1>2. q * b < (c + 1) * b
  OBVIOUS
<1> HIDE DEF q
<1>3. q < c + 1
  BY <1>1, <1>2
<1>4. QED
  BY <1>1, <1>3 DEF q

LEMMA ShareBound ==
  ASSUME NEW n \in Nat, NEW e \in Nat, NEW d \in Nat, e < d
  PROVE  Share(n, e, d) \in 0..n
<1>1. n * e \in Nat /\ n * d \in Nat /\ n * e <= n * d
  OBVIOUS
<1>2. 2 * n * e + d < (n + 1) * (2 * d)
  BY <1>1
<1>3. 2 * n * e + d \in Nat
  OBVIOUS
<1>4. QED
  BY <1>2, <1>3, DivBound DEF Share

LEMMA Positive == Full \in Nat /\ Full > 0 /\ 0 \in Points /\ Full \in Points
BY ConstantsAssumption DEF ConstantsAssumption, Points

LEMMA AlongBound ==
  ASSUME NEW m \in Movement, NEW a \in Points, NEW b \in Points
  PROVE  Along(a, b, m) \in Points
<1>1. m.elapsed \in Nat /\ m.duration \in Nat
  BY DEF Movement
<1>2. CASE m.elapsed >= m.duration
  BY <1>2 DEF Along
<1>3. CASE m.elapsed < m.duration /\ a <= b
  <2>1. b - a \in Nat /\ b \in Nat /\ a \in Nat
    BY <1>3, Positive DEF Points
  <2>2. Share(b - a, m.elapsed, m.duration) \in 0..(b - a)
    BY <1>1, <1>3, <2>1, ShareBound
  <2>3. QED
    BY <1>1, <1>3, <2>1, <2>2, Positive DEF Along, Points
<1>4. CASE m.elapsed < m.duration /\ ~(a <= b)
  <2>1. a - b \in Nat /\ a \in Nat /\ b \in Nat
    BY <1>4, Positive DEF Points
  <2>2. Share(a - b, m.elapsed, m.duration) \in 0..(a - b)
    BY <1>1, <1>4, <2>1, ShareBound
  <2>3. QED
    BY <1>1, <1>4, <2>1, <2>2, Positive DEF Along, Points
<1>5. QED
  BY <1>1, <1>2, <1>3, <1>4

\* Whatever the travel, what is shown of it and what the bridge counts stay
\* between closed and open.
LEMMA TravelBound ==
  ASSUME NEW m \in Movement
  PROVE  LevelAt(m) \in Points /\ PositionAt(m) \in Points
<1>1. m.from \in Points /\ m.target \in Points /\ m.bfrom \in Points
      /\ m.bto \in Points /\ m.dir \in Direction
  BY DEF Movement
<1>2. LevelAt(m) \in Points
  BY <1>1, AlongBound DEF LevelAt
<1>3. QED
  BY <1>1, <1>2, AlongBound, ConstantsAssumption DEF PositionAt, ConstantsAssumption

-----------------------------------------------------------------------------
(* The operators of the tracker.                                           *)

\* The inductive invariant.  A row is what a restart reads, so what a restart
\* would say of a shutter has to be carried along with what is said of it now;
\* and no table may hold a shutter that position does not.
IInv == TypeOK /\ NoGhosts /\ WellFormed /\ RestartIsHonest

LEMMA MovementInHousehold ==
  ASSUME IInv, NEW s \in DOMAIN movement
  PROVE  s \in household /\ s \in Shutters /\ movement[s] \in Movement
BY DEF IInv, TypeOK, NoGhosts, IsTable

LEMMA PositionNowType ==
  ASSUME IInv, NEW s \in household
  PROVE  PositionNow(s).percent \in Points \cup {None}
<1>1. CASE s \in DOMAIN movement
  BY <1>1, MovementInHousehold, TravelBound DEF PositionNow, Estimated
<1>2. CASE s \notin DOMAIN movement
  BY <1>2 DEF PositionNow, IInv, TypeOK, Estimate
<1>3. QED
  BY <1>1, <1>2

LEMMA BridgeLevelType ==
  ASSUME IInv, NEW s \in household
  PROVE  BridgeLevel(s) \in Points \cup {None}
<1>1. CASE s \in DOMAIN movement
  BY <1>1, MovementInHousehold, TravelBound DEF BridgeLevel
<1>2. CASE s \notin DOMAIN movement
  BY <1>2 DEF BridgeLevel, IInv, TypeOK, IsTable
<1>3. QED
  BY <1>1, <1>2

LEMMA CurveTypes ==
  ASSUME NEW d \in Direction, NEW p \in Points
  PROVE  ToLevel[d][p] \in Points /\ ToPercent[d][p] \in Points
BY ConstantsAssumption DEF ConstantsAssumption

LEMMA LastDirectionType ==
  ASSUME IInv, NEW s
  PROVE  LastDirection(s) \in Direction
BY DEF LastDirection, IInv, TypeOK, IsTable, Direction

\* level_for() never asks the bridge for a level outside its scale.
LEMMA LevelForType ==
  ASSUME IInv, NEW s \in household, NEW target \in Points
  PROVE  LevelFor(s, target) \in Points
<1> DEFINE here == PositionNow(s).percent
           d == IF here = target THEN LastDirection(s) ELSE DirectionTo(here, target)
<1>1. here \in Points \cup {None} /\ BridgeLevel(s) \in Points \cup {None}
  BY PositionNowType, BridgeLevelType
<1>2. d \in Direction /\ "down" \in Direction
  BY LastDirectionType DEF DirectionTo, Direction
<1>3. ToLevel["down"][target] \in Points /\ ToLevel[d][target] \in Points
  BY <1>2, CurveTypes
<1>4. ASSUME NEW x \in Int PROVE Clamp(x) \in Points
  BY Positive DEF Clamp, Points
<1>5. CASE here # None /\ BridgeLevel(s) # None
  <2>1. ToLevel[d][here] \in Points /\ BridgeLevel(s) \in Points
    BY <1>1, <1>2, <1>5, CurveTypes
  <2>2. BridgeLevel(s) + ToLevel[d][target] - ToLevel[d][here] \in Int
    BY <1>3, <2>1, Positive DEF Points
  <2> HIDE DEF here, d
  <2>3. Clamp(BridgeLevel(s) + ToLevel[d][target] - ToLevel[d][here]) \in Points
    BY <1>4, <2>2
  <2>4. QED
    BY <1>3, <2>3 DEF LevelFor, here, d
<1>6. CASE ~(here # None /\ BridgeLevel(s) # None)
  BY <1>3, <1>6 DEF LevelFor
<1>7. QED
  BY <1>5, <1>6

LEMMA AssumedType ==
  ASSUME IInv, NEW s \in household, NEW target \in Points
  PROVE  Assumed(s, target) \in Points
BY PositionNowType, Positive DEF Assumed

\* The distance a travel covers is at most the whole window, so it takes at
\* most the time of a full travel.
LEMMA DurationBound ==
  ASSUME NEW d \in Direction, NEW n \in Points
  PROVE  (Travel[d] * n) \div Full \in 0..Travel[d]
<1>1. Travel[d] \in Nat /\ n \in Nat /\ n <= Full
  BY ConstantsAssumption, Positive DEF ConstantsAssumption, Points
<1>2. Travel[d] * n \in Nat /\ Travel[d] * n < (Travel[d] + 1) * Full
  BY <1>1, Positive
<1>3. QED
  BY <1>1, <1>2, DivBound, Positive

LEMMA NewMovementType ==
  ASSUME IInv, NEW s \in household, NEW target \in Points, NEW level \in Points
  PROVE  LET m == NewMovement(s, target, level)
         IN  /\ m \in Movement
             /\ m.elapsed = 0
             /\ m.duration \in 0..Travel[m.dir]
<1> DEFINE d == DirectionTo(Assumed(s, target), target)
           far == IF d = "up" THEN 0 ELSE Full
           known == BridgeLevel(s) # None
           from == IF known THEN Assumed(s, target) ELSE far
           bfrom == IF known THEN BridgeLevel(s) ELSE far
           distance == AtLeast(Abs(ToLevel[d][target] - ToLevel[d][from]),
                               Abs(level - bfrom))
<1>1. d \in Direction /\ far \in Points
  BY Positive DEF DirectionTo, Direction
<1>2. from \in Points /\ bfrom \in Points /\ known \in BOOLEAN
  BY <1>1, AssumedType, BridgeLevelType
<1>3. ToLevel[d][target] \in Points /\ ToLevel[d][from] \in Points
  BY <1>1, <1>2, CurveTypes
<1> HIDE DEF d, from, bfrom, far, known
<1>4. distance \in Points
  BY <1>2, <1>3, Positive DEF AtLeast, Abs, Points
<1> HIDE DEF distance
<1>5. (Travel[d] * distance) \div Full \in 0..Travel[d]
  BY <1>1, <1>4, DurationBound
<1>6. NewMovement(s, target, level) =
        [from |-> from, target |-> target, dir |-> d,
         bfrom |-> bfrom, bto |-> level, known |-> known,
         elapsed |-> 0, duration |-> (Travel[d] * distance) \div Full]
  BY DEF NewMovement, d, far, known, from, bfrom, distance
<1>7. (Travel[d] * distance) \div Full \in Nat
  BY <1>1, <1>5, ConstantsAssumption DEF ConstantsAssumption
<1>8. QED
  BY <1>1, <1>2, <1>5, <1>6, <1>7 DEF Movement

LEMMA RunTimeBound ==
  ASSUME NEW d \in Direction
  PROVE  RunTime(d) \in Nat /\ RunTime(d) > Travel[d]
<1>1. Travel[d] \in Nat \ {0} /\ RunGrace \in Nat \ {0}
  BY ConstantsAssumption DEF ConstantsAssumption
<1>2. QED
  BY <1>1 DEF RunTime

LEMMA PercentFromLevelType ==
  ASSUME IInv, NEW s \in household, NEW level \in Points
  PROVE  PercentFromLevel(s, level) \in Points
<1>1. s \in DOMAIN movement => movement[s].dir \in Direction
  BY MovementInHousehold DEF Movement
<1>2. ReportDirection(s, level) \in Direction
  BY <1>1, LastDirectionType DEF ReportDirection, Direction
<1>3. QED
  BY <1>2, CurveTypes DEF PercentFromLevel

-----------------------------------------------------------------------------
(* The two ways an estimate is replaced.  Each keeps everything the          *)
(* invariant says of position, counter, stored and movement.                 *)

WellFormedEstimate(e) ==
  /\ e \in Estimate
  /\ e.confidence = "unknown" <=> e.percent = None
  /\ e.confidence = "certain" => e.percent \in EndStops /\ e.age # None

\* What the invariant says of the tables that replacing an estimate touches.
Kept ==
  /\ position \in [household -> Estimate]
  /\ IsTable(counter, Shutters, Points) /\ DOMAIN counter \subseteq household
  /\ IsTable(stored, Shutters, Row) /\ DOMAIN stored \subseteq household
  /\ WellFormed /\ RestartIsHonest

LEMMA EndStopPoints == EndStops \subseteq Points
BY Positive DEF EndStops

LEMMA EstimateValues ==
  /\ \A p \in EndStops : WellFormedEstimate(AtEndStop(p))
  /\ \A p \in Points, a \in Ages \cup {None} : WellFormedEstimate(Estimated(p, a))
  /\ WellFormedEstimate(UnknownEstimate)
<1>1. 0 \in Ages
  BY ConstantsAssumption DEF ConstantsAssumption, Ages
<1>2. None \notin Points
  BY Positive DEF None, Points
<1>3. \A p \in EndStops : WellFormedEstimate(AtEndStop(p))
  BY <1>1, <1>2, EndStopPoints DEF WellFormedEstimate, AtEndStop, Estimate, None
<1>4. \A p \in Points, a \in Ages \cup {None} : WellFormedEstimate(Estimated(p, a))
  BY <1>2 DEF WellFormedEstimate, Estimated, Estimate
<1>5. WellFormedEstimate(UnknownEstimate)
  BY DEF WellFormedEstimate, UnknownEstimate, Estimate
<1>6. QED
  BY <1>3, <1>4, <1>5

\* Whoever writes the estimate e of a shutter that does not travel afterwards,
\* and its row, keeps what the invariant says of estimates and rows.
LEMMA WritingKeeps ==
  ASSUME IInv, NEW s \in household, NEW e, WellFormedEstimate(e),
         position' = Put(position, s, e), Save(s, e, FALSE),
         household' = household,
         s \notin DOMAIN movement',
         DOMAIN movement' \ {s} = DOMAIN movement \ {s}
  PROVE  /\ position' \in [household' -> Estimate]
         /\ IsTable(stored', Shutters, Row) /\ DOMAIN stored' \subseteq household'
         /\ WellFormed' /\ RestartIsHonest'
<1>1. s \in Shutters /\ e \in Estimate
  BY DEF IInv, TypeOK, WellFormedEstimate
<1>2. position' \in [household' -> Estimate]
  BY <1>1 DEF Put, IInv, TypeOK
<1>3. position'[s] = e /\ \A x \in household \ {s} : position'[x] = position[x]
  BY DEF Put, IInv, TypeOK
<1> DEFINE row == [estimate |-> e, moving |-> FALSE]
<1>4. row \in Row
  BY <1>1 DEF Row
<1>5. /\ IsTable(stored', Shutters, Row)
      /\ DOMAIN stored' = DOMAIN stored \cup {s}
      /\ stored'[s] = row
      /\ \A x \in DOMAIN stored \ {s} : stored'[x] = stored[x]
  <2>1. stored' = Put(stored, s, row) /\ IsTable(stored, Shutters, Row)
    BY DEF Save, IInv, TypeOK
  <2> HIDE DEF row
  <2>2. QED
    BY <1>1, <1>4, <2>1 DEF IsTable, Put
<1>6. WellFormed'
  BY <1>3 DEF WellFormed, WellFormedEstimate, IInv
<1>7. RestartIsHonest'
  <2> SUFFICES ASSUME NEW x \in household
               PROVE  Restored(x)' = IF x \in DOMAIN movement' \/ position'[x].percent = None
                                     THEN UnknownEstimate ELSE position'[x]
    BY DEF RestartIsHonest
  <2>1. CASE x = s
    <3>1. Restored(s)' = IF e.confidence = "unknown" THEN UnknownEstimate ELSE e
      BY <1>5 DEF Restored
    <3>2. QED
      BY <1>3, <2>1, <3>1 DEF WellFormedEstimate
  <2>2. CASE x # s
    <3>1. Restored(x)' = Restored(x)
      BY <1>5, <2>2 DEF Restored
    <3>2. x \in DOMAIN movement' <=> x \in DOMAIN movement
      BY <2>2
    <3>3. QED
      BY <1>3, <2>2, <3>1, <3>2 DEF RestartIsHonest, IInv
  <2>3. QED
    BY <2>1, <2>2
<1>8. QED
  BY <1>2, <1>5, <1>6, <1>7 DEF IInv, NoGhosts

LEMMA AgeType ==
  ASSUME IInv, NEW s \in household
  PROVE  position[s].age \in Ages \cup {None}
BY DEF IInv, TypeOK, Estimate

LEMMA SettleKeeps ==
  ASSUME IInv, NEW s \in household, NEW p \in Points, NEW table,
         IsTable(table, Shutters, Points), DOMAIN table \subseteq household,
         Settle(s, p, table),
         household' = household, movement' = Drop(movement, s)
  PROVE  Kept'
<1> DEFINE e == IF p \in EndStops THEN AtEndStop(p) ELSE Estimated(p, position[s].age)
<1>1. WellFormedEstimate(e)
  BY EstimateValues, AgeType
<1>2. position' = Put(position, s, e) /\ Save(s, e, FALSE)
  BY DEF Settle
<1>3. s \notin DOMAIN movement' /\ DOMAIN movement' \ {s} = DOMAIN movement \ {s}
  BY DEF Drop
<1>4. IsTable(counter', Shutters, Points) /\ DOMAIN counter' \subseteq household'
  <2>1. s \in Shutters
    BY DEF IInv, TypeOK
  <2>2. IsTable(Put(table, s, p), Shutters, Points)
        /\ DOMAIN Put(table, s, p) = DOMAIN table \cup {s}
    BY <2>1 DEF IsTable, Put
  <2>3. QED
    BY <2>2 DEF Settle
<1> HIDE DEF e
<1>5. QED
  BY <1>1, <1>2, <1>3, <1>4, WritingKeeps DEF Kept

LEMMA AcceptKeeps ==
  ASSUME IInv, NEW s \in household, s \notin DOMAIN movement,
         NEW e, WellFormedEstimate(e), Accept(s, e),
         UNCHANGED <<household, movement>>
  PROVE  /\ position' \in [household' -> Estimate]
         /\ IsTable(stored', Shutters, Row) /\ DOMAIN stored' \subseteq household'
         /\ WellFormed' /\ RestartIsHonest'
BY WritingKeeps DEF Accept

-----------------------------------------------------------------------------
(* Every step keeps the invariant.                                         *)

LEMMA InvInit == Init => IInv
<1> SUFFICES ASSUME Init PROVE IInv
  OBVIOUS
<1>1. \A s \in household : WellFormedEstimate(position[s]) /\ position[s].percent = None
  BY EstimateValues DEF Init, UnknownEstimate
<1>2. position \in [household -> Estimate]
  BY EstimateValues DEF Init, WellFormedEstimate
<1>3. TypeOK /\ NoGhosts
  BY <1>2 DEF Init, TypeOK, NoGhosts, IsTable, EmptyTable
<1>4. WellFormed
  BY <1>1 DEF WellFormed, WellFormedEstimate
<1>5. RestartIsHonest
  BY <1>1 DEF Init, RestartIsHonest, Restored, EmptyTable
<1>6. QED
  BY <1>3, <1>4, <1>5 DEF IInv

LEMMA InvSend ==
  ASSUME IInv, NEW s \in Shutters, NEW target \in Points \cup {None}, Send(s, target)
  PROVE  IInv'
<1>1. (IF target = None THEN 0 ELSE LevelFor(s, target)) \in Points
  BY LevelForType, Positive DEF Send
<1> DEFINE level == IF target = None THEN 0 ELSE LevelFor(s, target)
<1> HIDE DEF level
<1>2. [shutter |-> s, target |-> target, level |-> level] \in Command
  BY <1>1 DEF Command, level
<1>3. inflight' \in Seq(Command)
  BY <1>2 DEF Send, IInv, TypeOK, level
<1>4. UNCHANGED <<household, position, movement, report, heading, counter, run,
                  external, stored, due, ticker>>
  BY DEF Send
<1>5. QED
  BY <1>3, <1>4 DEF IInv, TypeOK, NoGhosts, WellFormed, RestartIsHonest, Restored

LEMMA HeadCommand ==
  ASSUME IInv, inflight # <<>>
  PROVE  /\ Head(inflight).shutter \in Shutters
         /\ Head(inflight).target \in Points \cup {None}
         /\ Head(inflight).level \in Points
         /\ Tail(inflight) \in Seq(Command)
<1>1. Head(inflight) \in Command /\ Tail(inflight) \in Seq(Command)
  BY DEF IInv, TypeOK
<1>2. QED
  BY <1>1 DEF Command

LEMMA InvStartMovement ==
  ASSUME IInv, StartMovement
  PROVE  IInv'
<1> DEFINE s == Head(inflight).shutter
           target == Head(inflight).target
           level == Head(inflight).level
           m == NewMovement(s, target, level)
<1>1. /\ s \in Shutters /\ target \in Points /\ level \in Points
      /\ inflight' \in Seq(Command)
  BY HeadCommand DEF StartMovement
<1>2. UNCHANGED <<household, position, report, counter, external, due, ticker>>
  BY DEF StartMovement
<1>3. CASE s \notin household \/ Assumed(s, target) = target
  <2>1. UNCHANGED <<movement, heading, run, stored>>
    BY <1>3 DEF StartMovement
  <2>2. QED
    BY <1>1, <1>2, <2>1 DEF IInv, TypeOK, NoGhosts, WellFormed, RestartIsHonest, Restored
<1>4. CASE s \in household /\ Assumed(s, target) # target
  <2>1. /\ movement' = Put(movement, s, m) /\ heading' = Put(heading, s, m.dir)
        /\ run' = Put(run, s, NewRun(m)) /\ Save(s, position[s], TRUE)
    BY <1>4 DEF StartMovement
  <2>2. m \in Movement
    BY <1>1, <1>4, NewMovementType
  <2> HIDE DEF m
  <2>3. m.dir \in Direction /\ NewRun(m) \in [from : Points, to : Points, left : Nat]
    BY <2>2, RunTimeBound DEF NewRun, Movement
  <2> DEFINE row == [estimate |-> position[s], moving |-> TRUE]
  <2>4. row \in Row
    BY <1>4 DEF Row, IInv, TypeOK
  <2>5. stored' = Put(stored, s, row)
    BY <2>1 DEF Save
  <2>6. row.moving
    OBVIOUS
  <2> HIDE DEF row, s
  <2>7. TypeOK'
    <3>1. IsTable(movement', Shutters, Movement) /\ IsTable(heading', Shutters, Direction)
      BY <1>1, <2>1, <2>2, <2>3 DEF IInv, TypeOK, IsTable, Put
    <3>2. IsTable(run', Shutters, [from : Points, to : Points, left : Nat])
      BY <1>1, <2>1, <2>3 DEF IInv, TypeOK, IsTable, Put
    <3>3. IsTable(stored', Shutters, Row)
      BY <1>1, <2>4, <2>5 DEF IInv, TypeOK, IsTable, Put
    <3>4. QED
      BY <1>1, <1>2, <3>1, <3>2, <3>3 DEF IInv, TypeOK
  <2>8. NoGhosts'
    BY <1>2, <1>4, <2>1, <2>5 DEF IInv, NoGhosts, Put
  <2>9. WellFormed'
    BY <1>2 DEF IInv, WellFormed
  <2>10. RestartIsHonest'
    <3> SUFFICES ASSUME NEW x \in household
                 PROVE  Restored(x)' = IF x \in DOMAIN movement' \/ position[x].percent = None
                                       THEN UnknownEstimate ELSE position[x]
      BY <1>2 DEF RestartIsHonest
    <3>1. CASE x = s
      BY <2>1, <2>5, <2>6, <3>1 DEF Restored, Put
    <3>2. CASE x # s
      <4>1. Restored(x)' = Restored(x)
        BY <2>5, <3>2 DEF Restored, Put
      <4>2. x \in DOMAIN movement' <=> x \in DOMAIN movement
        BY <2>1, <3>2 DEF Put
      <4>3. QED
        BY <4>1, <4>2 DEF IInv, RestartIsHonest
    <3>3. QED
      BY <3>1, <3>2
  <2>11. QED
    BY <2>7, <2>8, <2>9, <2>10 DEF IInv
<1>5. QED
  BY <1>3, <1>4

\* A step that settles a travel of s at p, whatever else of the tables it drops.
LEMMA SettleStep ==
  ASSUME IInv, NEW s \in household, NEW p \in Points, NEW table,
         IsTable(table, Shutters, Points), DOMAIN table \subseteq household,
         Settle(s, p, table), movement' = Drop(movement, s),
         run' = run \/ run' = Drop(run, s),
         inflight' \in Seq(Command), IsTable(due', Shutters, Movement),
         UNCHANGED <<household, report, heading, external, ticker>>
  PROVE  IInv'
<1>1. Kept'
  BY SettleKeeps
<1>2. /\ IsTable(movement', Shutters, Movement) /\ DOMAIN movement' \subseteq household'
      /\ IsTable(run', Shutters, [from : Points, to : Points, left : Nat])
      /\ DOMAIN run' \subseteq household'
  BY DEF IInv, TypeOK, NoGhosts, IsTable, Drop
<1>3. QED
  BY <1>1, <1>2 DEF Kept, IInv, TypeOK, NoGhosts

LEMMA InvStop ==
  ASSUME IInv, Stop
  PROVE  IInv'
<1> DEFINE s == Head(inflight).shutter
<1>1. s \in Shutters /\ inflight' \in Seq(Command)
  BY HeadCommand DEF Stop
<1>2. UNCHANGED <<household, report, heading, external, due, ticker>>
  BY DEF Stop
<1>3. CASE s \notin household
  <2>1. UNCHANGED <<position, movement, run, counter, stored>>
    BY <1>3 DEF Stop
  <2>2. QED
    BY <1>1, <1>2, <2>1 DEF IInv, TypeOK, NoGhosts, WellFormed, RestartIsHonest, Restored
<1>4. CASE s \in household /\ s \notin DOMAIN movement
  <2>1. /\ UNCHANGED <<position, counter, stored>>
        /\ movement' = Drop(movement, s) /\ run' = Drop(run, s)
    BY <1>4 DEF Stop
  <2> HIDE DEF s
  <2>2. DOMAIN movement' = DOMAIN movement /\ IsTable(movement', Shutters, Movement)
    BY <1>4, <2>1 DEF IInv, TypeOK, IsTable, Drop
  <2>3. DOMAIN run' \subseteq DOMAIN run
        /\ IsTable(run', Shutters, [from : Points, to : Points, left : Nat])
    BY <2>1 DEF IInv, TypeOK, IsTable, Drop
  <2>4. QED
    BY <1>1, <1>2, <2>1, <2>2, <2>3
       DEF IInv, TypeOK, NoGhosts, WellFormed, RestartIsHonest, Restored
<1>5. CASE s \in household /\ s \in DOMAIN movement
  <2> DEFINE table == IF movement[s].known THEN Put(counter, s, LevelAt(movement[s]))
                                           ELSE Drop(counter, s)
  <2>1. /\ movement' = Drop(movement, s) /\ run' = Drop(run, s)
        /\ Settle(s, PositionAt(movement[s]), table)
    BY <1>5 DEF Stop
  <2>2. PositionAt(movement[s]) \in Points /\ LevelAt(movement[s]) \in Points
    BY <1>5, MovementInHousehold, TravelBound
  <2>3. IsTable(table, Shutters, Points) /\ DOMAIN table \subseteq household
    BY <1>1, <1>5, <2>2 DEF IInv, TypeOK, NoGhosts, IsTable, Put, Drop
  <2> HIDE DEF s, table
  <2>4. IsTable(due', Shutters, Movement)
    BY <1>2 DEF IInv, TypeOK
  <2>5. QED
    BY <1>1, <1>2, <1>5, <2>1, <2>2, <2>3, <2>4, SettleStep
<1>6. QED
  BY <1>3, <1>4, <1>5

LEMMA InvConfirmArrival ==
  ASSUME IInv, NEW s \in Shutters, NEW p \in EndStops, ConfirmArrival(s, p)
  PROVE  IInv'
<1>1. s \in household /\ p \in Points
  BY EndStopPoints DEF ConfirmArrival
<1>2. IsTable(counter, Shutters, Points) /\ DOMAIN counter \subseteq household
  BY DEF IInv, TypeOK, NoGhosts
<1>3. inflight' \in Seq(Command) /\ IsTable(due', Shutters, Movement)
  BY DEF ConfirmArrival, IInv, TypeOK
<1>4. QED
  BY <1>1, <1>2, <1>3, SettleStep DEF ConfirmArrival

LEMMA InvSettleDone ==
  ASSUME IInv, NEW s \in Shutters, NEW m \in Movement, SettleDone(s, m),
         IsTable(due', Shutters, Movement),
         UNCHANGED <<household, report, heading, run, external, inflight>>
  PROVE  IInv'
<1>1. CASE s \in DOMAIN movement
  <2>1. /\ movement' = Drop(movement, s) /\ ticker' = ticker
        /\ Settle(s, m.target, Put(counter, s, m.bto))
    BY <1>1 DEF SettleDone
  <2>2. m.target \in Points /\ m.bto \in Points
    BY DEF Movement
  <2>3. s \in household
    BY <1>1, MovementInHousehold
  <2> DEFINE table == Put(counter, s, m.bto)
  <2>4. IsTable(table, Shutters, Points) /\ DOMAIN table \subseteq household
    BY <2>2, <2>3 DEF IInv, TypeOK, NoGhosts, IsTable, Put
  <2>5. inflight' \in Seq(Command)
    BY DEF IInv, TypeOK
  <2> HIDE DEF table
  <2>6. Settle(s, m.target, table)
    BY <2>1 DEF table
  <2>7. QED
    BY <2>1, <2>2, <2>3, <2>4, <2>5, <2>6, SettleStep
<1>2. CASE s \notin DOMAIN movement
  <2>1. ticker' = "dead" /\ UNCHANGED <<movement, position, counter, stored>>
    BY <1>2 DEF SettleDone
  <2>2. QED
    BY <2>1 DEF IInv, TypeOK, NoGhosts, WellFormed, RestartIsHonest, Restored
<1>3. QED
  BY <1>1, <1>2

LEMMA InvTick ==
  ASSUME IInv, NEW s \in Shutters, Tick(s)
  PROVE  IInv'
<1>1. CASE TickBegins(s)
  <2>1. s \in DOMAIN movement /\ SettleDone(s, movement[s])
    BY <1>1 DEF TickBegins, Done
  <2>2. IsTable(due', Shutters, Movement)
    BY <1>1 DEF TickBegins, Done, IInv, TypeOK, IsTable
  <2>3. QED
    BY <1>1, <2>1, <2>2, MovementInHousehold, InvSettleDone DEF TickBegins
<1>2. CASE TickGoesOn(s)
  <2>1. s \in DOMAIN due /\ SettleDone(s, due[s]) /\ due[s] \in Movement
    BY <1>2 DEF TickGoesOn, IInv, TypeOK, IsTable
  <2>2. IsTable(due', Shutters, Movement)
    BY <1>2 DEF TickGoesOn, IInv, TypeOK, IsTable, Drop, EmptyTable
  <2>3. QED
    BY <1>2, <2>1, <2>2, InvSettleDone DEF TickGoesOn
<1>3. QED
  BY <1>1, <1>2 DEF Tick

LEMMA InvReportWhileTravelling ==
  ASSUME IInv, NEW s \in Shutters, NEW level \in Points, ReportWhileTravelling(s, level)
  PROVE  IInv'
<1> DEFINE heard == [percent |-> PercentFromLevel(s, level), age |-> 0]
<1>1. s \in household /\ report' = Put(report, s, heard)
  BY DEF ReportWhileTravelling
<1>2. heard \in [percent : Points, age : Nat]
  BY <1>1, PercentFromLevelType
<1> HIDE DEF heard
<1>3. /\ IsTable(report', Shutters, [percent : Points, age : Nat])
      /\ DOMAIN report' \subseteq household
  BY <1>1, <1>2 DEF IInv, TypeOK, NoGhosts, IsTable, Put
<1>4. UNCHANGED <<household, position, movement, heading, counter, run, external,
                  stored, inflight, due, ticker>>
  BY DEF ReportWhileTravelling
<1>5. QED
  BY <1>3, <1>4 DEF IInv, TypeOK, NoGhosts, WellFormed, RestartIsHonest, Restored

LEMMA InvReportOfOurRun ==
  ASSUME IInv, NEW s \in Shutters, NEW level \in Points, ReportOfOurRun(s, level)
  PROVE  IInv'
<1>1. IsTable(counter', Shutters, Points) /\ DOMAIN counter' \subseteq household
  BY DEF ReportOfOurRun, IInv, TypeOK, NoGhosts, IsTable, Put
<1>2. run' = run \/ run' = Drop(run, s)
  BY DEF ReportOfOurRun
<1>3. /\ IsTable(run', Shutters, [from : Points, to : Points, left : Nat])
      /\ DOMAIN run' \subseteq household
  BY <1>2 DEF IInv, TypeOK, NoGhosts, IsTable, Drop
<1>4. UNCHANGED <<household, position, movement, report, heading, external,
                  stored, inflight, due, ticker>>
  BY DEF ReportOfOurRun
<1>5. QED
  BY <1>1, <1>3, <1>4 DEF IInv, TypeOK, NoGhosts, WellFormed, RestartIsHonest, Restored

LEMMA JudgedWellFormed ==
  ASSUME IInv, NEW s \in household, NEW percent \in Points
  PROVE  WellFormedEstimate(Judged(s, percent))
<1>1. 0 \in Ages
  BY ConstantsAssumption DEF ConstantsAssumption, Ages
<1>2. WellFormedEstimate(position[s])
  BY DEF WellFormedEstimate, IInv, TypeOK, WellFormed
<1>3. QED
  BY <1>1, <1>2, AgeType, EstimateValues DEF Judged

LEMMA InvReportWhileIdle ==
  ASSUME IInv, NEW s \in Shutters, NEW level \in Points, ReportWhileIdle(s, level)
  PROVE  IInv'
<1> DEFINE percent == PercentFromLevel(s, level)
           heard == [percent |-> percent, age |-> 0]
<1>1. /\ s \in household /\ s \notin DOMAIN movement
      /\ counter' = Put(counter, s, level)
      /\ report' = Put(report, s, heard)
      /\ UNCHANGED <<household, movement, heading, run, external, inflight, due, ticker>>
  BY DEF ReportWhileIdle
<1>2. UNCHANGED <<position, stored>> \/ Accept(s, Judged(s, percent))
  BY DEF ReportWhileIdle
<1>3. percent \in Points
  BY <1>1, PercentFromLevelType
<1>4. heard \in [percent : Points, age : Nat]
  BY <1>3
<1> HIDE DEF percent, heard
<1>5. /\ IsTable(report', Shutters, [percent : Points, age : Nat])
      /\ DOMAIN report' \subseteq household
  BY <1>1, <1>4 DEF IInv, TypeOK, NoGhosts, IsTable, Put
<1>6. IsTable(counter', Shutters, Points) /\ DOMAIN counter' \subseteq household
  BY <1>1 DEF IInv, TypeOK, NoGhosts, IsTable, Put
<1>7. /\ position' \in [household' -> Estimate]
      /\ IsTable(stored', Shutters, Row) /\ DOMAIN stored' \subseteq household'
      /\ WellFormed' /\ RestartIsHonest'
  <2>1. CASE UNCHANGED <<position, stored>>
    BY <1>1, <2>1 DEF IInv, TypeOK, NoGhosts, WellFormed, RestartIsHonest, Restored
  <2>2. CASE Accept(s, Judged(s, percent))
    BY <1>1, <1>3, <2>2, JudgedWellFormed, AcceptKeeps
  <2>3. QED
    BY <1>2, <2>1, <2>2
<1>8. QED
  BY <1>1, <1>5, <1>6, <1>7 DEF IInv, TypeOK, NoGhosts

LEMMA InvRetainedPosition ==
  ASSUME IInv, NEW s \in Shutters, NEW level \in Points, RetainedPosition(s, level)
  PROVE  IInv'
<1> DEFINE e == Estimated(PercentFromLevel(s, level), None)
<1>1. /\ s \in household /\ s \notin DOMAIN movement
      /\ counter' = Put(counter, s, level)
      /\ UNCHANGED <<household, movement, report, heading, run, external, inflight,
                     due, ticker>>
      /\ UNCHANGED <<position, stored>> \/ Accept(s, e)
  BY DEF RetainedPosition
<1>2. WellFormedEstimate(e)
  BY <1>1, PercentFromLevelType, EstimateValues
<1>3. IsTable(counter', Shutters, Points) /\ DOMAIN counter' \subseteq household
  BY <1>1 DEF IInv, TypeOK, NoGhosts, IsTable, Put
<1> HIDE DEF e
<1>4. /\ position' \in [household' -> Estimate]
      /\ IsTable(stored', Shutters, Row) /\ DOMAIN stored' \subseteq household'
      /\ WellFormed' /\ RestartIsHonest'
  <2>1. CASE UNCHANGED <<position, stored>>
    BY <1>1, <2>1 DEF IInv, TypeOK, NoGhosts, WellFormed, RestartIsHonest, Restored
  <2>2. CASE Accept(s, e)
    BY <1>1, <1>2, <2>2, AcceptKeeps
  <2>3. QED
    BY <1>1, <2>1, <2>2
<1>5. QED
  BY <1>1, <1>3, <1>4 DEF IInv, TypeOK, NoGhosts

LEMMA InvMovementBegins ==
  ASSUME IInv, NEW s \in Shutters, MovementBegins(s)
  PROVE  IInv'
<1> DEFINE e == [percent |-> position[s].percent,
                 confidence |-> IF position[s].percent = None THEN "unknown"
                                                              ELSE "estimated",
                 age |-> 0]
<1>1. /\ s \in household /\ s \notin DOMAIN movement
      /\ external' = external \cup {s} /\ Accept(s, e)
      /\ UNCHANGED <<household, movement, report, heading, counter, run, inflight,
                     due, ticker>>
  BY DEF MovementBegins
<1>2. WellFormedEstimate(e)
  <2>1. 0 \in Ages
    BY ConstantsAssumption DEF ConstantsAssumption, Ages
  <2>2. position[s].percent \in Points \cup {None}
    BY <1>1 DEF IInv, TypeOK, Estimate
  <2>3. QED
    BY <2>1, <2>2 DEF WellFormedEstimate, Estimate
<1> HIDE DEF e
<1>3. /\ position' \in [household' -> Estimate]
      /\ IsTable(stored', Shutters, Row) /\ DOMAIN stored' \subseteq household'
      /\ WellFormed' /\ RestartIsHonest'
  BY <1>1, <1>2, AcceptKeeps
<1>4. QED
  BY <1>1, <1>3 DEF IInv, TypeOK, NoGhosts

LEMMA InvMovementEnds ==
  ASSUME IInv, NEW s \in Shutters, MovementEnds(s)
  PROVE  IInv'
BY DEF MovementEnds, IInv, TypeOK, NoGhosts, WellFormed, RestartIsHonest, Restored

LEMMA InvAddShutter ==
  ASSUME IInv, NEW s \in Shutters, AddShutter(s)
  PROVE  IInv'
<1>1. /\ s \notin household /\ household' = household \cup {s}
      /\ position' = Put(position, s, UnknownEstimate)
      /\ UNCHANGED <<movement, report, heading, counter, run, external, stored,
                     inflight, due, ticker>>
  BY DEF AddShutter
<1>2. position' \in [household' -> Estimate]
  BY <1>1, EstimateValues DEF IInv, TypeOK, Put, WellFormedEstimate
<1>3. /\ position'[s] = UnknownEstimate
      /\ \A x \in household : position'[x] = position[x]
  BY <1>1 DEF IInv, TypeOK, Put
<1>4. TypeOK' /\ NoGhosts'
  BY <1>1, <1>2 DEF IInv, TypeOK, NoGhosts
<1>5. WellFormed'
  BY <1>1, <1>3 DEF IInv, WellFormed, UnknownEstimate
<1>6. RestartIsHonest'
  <2>1. s \notin DOMAIN stored
    BY <1>1 DEF IInv, NoGhosts
  <2>2. Restored(s)' = UnknownEstimate
    BY <1>1, <2>1 DEF Restored
  <2>3. \A x \in household : Restored(x)' = Restored(x)
    BY <1>1 DEF Restored
  <2>4. QED
    BY <1>1, <1>3, <2>2, <2>3 DEF IInv, RestartIsHonest, UnknownEstimate
<1>7. QED
  BY <1>4, <1>5, <1>6 DEF IInv

LEMMA InvRemoveShutter ==
  ASSUME IInv, NEW s \in Shutters, RemoveShutter(s)
  PROVE  IInv'
<1>1. /\ household' = household \ {s} /\ external' = external \ {s}
      /\ position' = Drop(position, s) /\ movement' = Drop(movement, s)
      /\ report' = Drop(report, s) /\ heading' = Drop(heading, s)
      /\ counter' = Drop(counter, s) /\ run' = Drop(run, s)
      /\ stored' = Drop(stored, s) /\ UNCHANGED <<inflight, due, ticker>>
  BY DEF RemoveShutter
<1>2. position' \in [household' -> Estimate]
  BY <1>1 DEF IInv, TypeOK, Drop
<1>3. \A x \in household' : /\ position'[x] = position[x]
                            /\ x \in DOMAIN movement' <=> x \in DOMAIN movement
                            /\ x \in DOMAIN stored' <=> x \in DOMAIN stored
                            /\ x \in DOMAIN stored => stored'[x] = stored[x]
  BY <1>1 DEF IInv, TypeOK, Drop
<1>4. /\ IsTable(movement', Shutters, Movement)
      /\ IsTable(report', Shutters, [percent : Points, age : Nat])
      /\ IsTable(heading', Shutters, Direction)
      /\ IsTable(counter', Shutters, Points)
      /\ IsTable(run', Shutters, [from : Points, to : Points, left : Nat])
      /\ IsTable(stored', Shutters, Row)
  <2>1. ASSUME NEW f, NEW V, IsTable(f, Shutters, V)
        PROVE  IsTable(Drop(f, s), Shutters, V)
    BY <2>1 DEF IsTable, Drop
  <2>2. QED
    BY <1>1, <2>1 DEF IInv, TypeOK
<1>5. TypeOK'
  BY <1>1, <1>2, <1>4 DEF IInv, TypeOK
<1>6. NoGhosts'
  BY <1>1 DEF IInv, NoGhosts, Drop
<1>7. WellFormed'
  BY <1>1, <1>3 DEF IInv, WellFormed
<1>8. RestartIsHonest'
  BY <1>1, <1>3 DEF IInv, RestartIsHonest, Restored
<1>9. QED
  BY <1>5, <1>6, <1>7, <1>8 DEF IInv

LEMMA RestoredWellFormed ==
  ASSUME IInv, NEW s \in household
  PROVE  WellFormedEstimate(Restored(s))
<1>1. Restored(s) \in {UnknownEstimate, position[s]}
  BY DEF IInv, RestartIsHonest
<1>2. WellFormedEstimate(position[s])
  BY DEF WellFormedEstimate, IInv, TypeOK, WellFormed
<1>3. QED
  BY <1>1, <1>2, EstimateValues

LEMMA InvRestart ==
  ASSUME IInv, Restart
  PROVE  IInv'
<1>1. /\ position' = [s \in household |-> Restored(s)]
      /\ counter' = [s \in {x \in household : Restored(x).percent # None} |->
                       ToLevel["up"][Restored(s).percent]]
      /\ movement' = EmptyTable /\ report' = EmptyTable
      /\ heading' = EmptyTable /\ run' = EmptyTable
      /\ external' = {} /\ inflight' = <<>> /\ due' = EmptyTable
      /\ ticker' = "alive" /\ UNCHANGED <<household, stored>>
  BY DEF Restart
<1>2. \A s \in household : /\ WellFormedEstimate(Restored(s))
                           /\ Restored(s)' = Restored(s)
  BY <1>1, RestoredWellFormed DEF Restored
<1>3. IsTable(counter', Shutters, Points)
  <2>1. "up" \in Direction
    BY DEF Direction
  <2>2. \A s \in household : Restored(s).percent \in Points \cup {None}
    BY <1>2 DEF WellFormedEstimate, Estimate
  <2>3. \A s \in household : Restored(s).percent # None =>
                               ToLevel["up"][Restored(s).percent] \in Points
    BY <2>1, <2>2, CurveTypes
  <2>4. household \subseteq Shutters
    BY DEF IInv, TypeOK
  <2>5. QED
    BY <1>1, <2>3, <2>4 DEF IsTable
<1>4. position' \in [household' -> Estimate]
  BY <1>1, <1>2 DEF WellFormedEstimate
<1>5. TypeOK' /\ NoGhosts'
  BY <1>1, <1>3, <1>4 DEF IInv, TypeOK, NoGhosts, IsTable, EmptyTable
<1>6. WellFormed'
  BY <1>1, <1>2 DEF WellFormed, WellFormedEstimate
<1>7. RestartIsHonest'
  <2> SUFFICES ASSUME NEW s \in household
               PROVE  Restored(s)' = IF position'[s].percent = None
                                     THEN UnknownEstimate ELSE position'[s]
    BY <1>1 DEF RestartIsHonest, EmptyTable
  <2>1. position'[s] = Restored(s)
    BY <1>1
  <2>2. Restored(s).percent = None => Restored(s) = UnknownEstimate
    BY DEF IInv, RestartIsHonest
  <2>3. QED
    BY <1>2, <2>1, <2>2
<1>8. QED
  BY <1>5, <1>6, <1>7 DEF IInv

LEMMA OlderKeeps ==
  ASSUME NEW e \in Estimate
  PROVE  /\ Older(e) \in Estimate
         /\ Older(e).percent = e.percent /\ Older(e).confidence = e.confidence
         /\ e.age # None => Older(e).age # None
<1>1. StaleAfter \in Nat
  BY ConstantsAssumption DEF ConstantsAssumption
<1>2. QED
  BY <1>1 DEF Older, Estimate, Ages, None

LEMMA InvPass ==
  ASSUME IInv, Pass
  PROVE  IInv'
<1>1. /\ position' = [s \in DOMAIN position |-> Older(position[s])]
      /\ stored' = [s \in DOMAIN stored |->
                      [stored[s] EXCEPT !.estimate = Older(@)]]
      /\ movement' = [s \in DOMAIN movement |->
                      IF IsDone(movement[s]) THEN movement[s]
                      ELSE [movement[s] EXCEPT !.elapsed = @ + 1]]
      /\ run' = [s \in {x \in DOMAIN run : run[x].left > 0} |->
                   [run[s] EXCEPT !.left = @ - 1]]
      /\ report' = [s \in {x \in DOMAIN report : report[x].age < ExternalWindow} |->
                   [report[s] EXCEPT !.age = @ + 1]]
      /\ UNCHANGED <<household, heading, counter, external, inflight, due, ticker>>
  BY DEF Pass
<1>2. position' \in [household' -> Estimate]
  BY <1>1, OlderKeeps DEF IInv, TypeOK
<1>3. IsTable(stored', Shutters, Row) /\ DOMAIN stored' = DOMAIN stored
  BY <1>1, OlderKeeps DEF IInv, TypeOK, IsTable, Row
<1>4. IsTable(movement', Shutters, Movement) /\ DOMAIN movement' = DOMAIN movement
  <2>1. \A m \in Movement : [m EXCEPT !.elapsed = @ + 1] \in Movement
    BY DEF Movement
  <2>2. QED
    BY <1>1, <2>1 DEF IInv, TypeOK, IsTable
<1>5. IsTable(run', Shutters, [from : Points, to : Points, left : Nat])
      /\ DOMAIN run' \subseteq DOMAIN run
  <2>1. \A r \in [from : Points, to : Points, left : Nat] :
          r.left > 0 => [r EXCEPT !.left = @ - 1] \in [from : Points, to : Points, left : Nat]
    OBVIOUS
  <2>2. QED
    BY <1>1, <2>1 DEF IInv, TypeOK, IsTable
<1>6. IsTable(report', Shutters, [percent : Points, age : Nat])
      /\ DOMAIN report' \subseteq DOMAIN report
  <2>1. \A r \in [percent : Points, age : Nat] :
          [r EXCEPT !.age = @ + 1] \in [percent : Points, age : Nat]
    OBVIOUS
  <2>2. QED
    BY <1>1, <2>1 DEF IInv, TypeOK, IsTable
<1>7. TypeOK' /\ NoGhosts'
  BY <1>1, <1>2, <1>3, <1>4, <1>5, <1>6 DEF IInv, TypeOK, NoGhosts
<1>8. \A s \in household : position[s] \in Estimate /\ position'[s] = Older(position[s])
  BY <1>1 DEF IInv, TypeOK
<1>9. WellFormed'
  <2> SUFFICES ASSUME NEW s \in household
               PROVE  /\ position'[s].confidence = "unknown" <=> position'[s].percent = None
                      /\ position'[s].confidence = "certain" =>
                           position'[s].percent \in EndStops /\ position'[s].age # None
    BY <1>1 DEF WellFormed
  <2>1. /\ position'[s].percent = position[s].percent
        /\ position'[s].confidence = position[s].confidence
        /\ position[s].age # None => position'[s].age # None
    BY <1>8, OlderKeeps
  <2>2. QED
    BY <2>1 DEF IInv, WellFormed
<1>10. RestartIsHonest'
  <2> SUFFICES ASSUME NEW s \in household
               PROVE  Restored(s)' = IF s \in DOMAIN movement \/ position'[s].percent = None
                                     THEN UnknownEstimate ELSE position'[s]
    BY <1>1 DEF RestartIsHonest
  <2>1. position'[s].percent = position[s].percent
    BY <1>8, OlderKeeps
  <2>2. s \in DOMAIN stored => /\ stored[s] \in Row
                               /\ stored'[s] = [stored[s] EXCEPT !.estimate = Older(@)]
    BY <1>1 DEF IInv, TypeOK, IsTable
  <2>3. s \in DOMAIN stored => /\ stored'[s].moving = stored[s].moving
                               /\ stored'[s].estimate = Older(stored[s].estimate)
                               /\ stored[s].estimate \in Estimate
    BY <2>2 DEF Row
  <2>4. s \in DOMAIN stored =>
          stored'[s].estimate.confidence = stored[s].estimate.confidence
    BY <2>3, OlderKeeps
  <2>5. Restored(s)' = IF Restored(s) = UnknownEstimate THEN UnknownEstimate
                                                        ELSE Older(Restored(s))
    <3>1. CASE s \notin DOMAIN stored \/ stored[s].moving
                 \/ stored[s].estimate.confidence = "unknown"
      BY <1>3, <2>3, <2>4, <3>1 DEF Restored
    <3>2. CASE s \in DOMAIN stored /\ ~stored[s].moving
                 /\ stored[s].estimate.confidence # "unknown"
      <4>1. Restored(s) = stored[s].estimate /\ Restored(s)' = Older(stored[s].estimate)
        BY <1>3, <2>3, <2>4, <3>2 DEF Restored
      <4>2. Restored(s) # UnknownEstimate
        BY <3>2, <4>1 DEF UnknownEstimate
      <4>3. QED
        BY <4>1, <4>2
    <3>3. QED
      BY <3>1, <3>2
  <2>6. position[s].percent # None => position[s] # UnknownEstimate
    BY DEF UnknownEstimate
  <2>7. QED
    BY <1>8, <2>1, <2>5, <2>6 DEF IInv, RestartIsHonest
<1>11. QED
  BY <1>7, <1>9, <1>10 DEF IInv

LEMMA InvNext == IInv /\ [Next]_vars => IInv'
<1> SUFFICES ASSUME IInv, [Next]_vars PROVE IInv'
  OBVIOUS
<1>1. CASE Driving
  BY <1>1, InvSend, InvConfirmArrival, InvTick, InvStartMovement, InvStop DEF Driving
<1>2. CASE Hearing
  BY <1>2, InvReportWhileTravelling, InvReportOfOurRun, InvReportWhileIdle,
     InvRetainedPosition, InvMovementBegins, InvMovementEnds DEF Hearing
<1>3. CASE Living
  BY <1>3, InvAddShutter, InvRemoveShutter DEF Living
<1>4. CASE Restart
  BY <1>4, InvRestart
<1>5. CASE Pass
  BY <1>5, InvPass
<1>6. CASE UNCHANGED vars
  BY <1>6 DEF vars, IInv, TypeOK, NoGhosts, WellFormed, RestartIsHonest, Restored
<1>7. QED
  BY <1>1, <1>2, <1>3, <1>4, <1>5, <1>6 DEF Next

\* The invariant holds throughout.
LEMMA Invariance == Spec => []IInv
<1>1. QED
  BY InvInit, InvNext, PTL DEF Spec

-----------------------------------------------------------------------------
(* The theorems.                                                           *)

\* Every table keeps its type: no percentage or level outside the scale is
\* ever stored, shown or sent, whatever the curves and travel times.
THEOREM TypeCorrect == Spec => []TypeOK
<1>1. IInv => TypeOK
  BY DEF IInv
<1>2. QED
  BY <1>1, Invariance, PTL

\* remove_shutter() and the checks behind every await leave nothing behind.
THEOREM NothingStaysBehind == Spec => []NoGhosts
<1>1. IInv => NoGhosts
  BY DEF IInv
<1>2. QED
  BY <1>1, Invariance, PTL

\* No handler ever builds an estimate that PositionEstimate refuses.
THEOREM EstimatesWellFormed == Spec => []WellFormed
<1>1. IInv => WellFormed
  BY DEF IInv
<1>2. QED
  BY <1>1, Invariance, PTL

\* FR-010: whenever the process dies, what load_all() reads back is what was
\* believed, and nothing at all of a shutter that was travelling.
THEOREM RestartHonest == Spec => []RestartIsHonest
<1>1. IInv => RestartIsHonest
  BY DEF IInv
<1>2. QED
  BY <1>1, Invariance, PTL

-----------------------------------------------------------------------------
(* The bridge's run outlasts ours.                                         *)

\* A step that leaves the travel of s and the run for it alone, or ends the
\* travel, keeps s covered.
Covered(s) ==
  IsDone(movement[s]) \/
    /\ s \in DOMAIN run
    /\ run[s].left > movement[s].duration - movement[s].elapsed

LEMMA UntouchedCovered ==
  ASSUME EchoCovered, NEW s,
         \A x \in DOMAIN movement' : x # s =>
           /\ x \in DOMAIN movement /\ movement'[x] = movement[x]
           /\ x \in DOMAIN run => x \in DOMAIN run' /\ run'[x] = run[x],
         s \in DOMAIN movement' => Covered(s)'
  PROVE  EchoCovered'
BY DEF EchoCovered, Covered, IsDone

LEMMA StartCovered ==
  ASSUME IInv, EchoCovered, StartMovement
  PROVE  EchoCovered'
<1> DEFINE s == Head(inflight).shutter
           target == Head(inflight).target
           level == Head(inflight).level
           m == NewMovement(s, target, level)
<1>1. CASE s \notin household \/ Assumed(s, target) = target
  BY <1>1 DEF StartMovement, EchoCovered
<1>2. CASE s \in household /\ Assumed(s, target) # target
  <2>1. movement' = Put(movement, s, m) /\ run' = Put(run, s, NewRun(m))
    BY <1>2 DEF StartMovement
  <2>2. target \in Points /\ level \in Points
    BY HeadCommand DEF StartMovement
  <2>3. m \in Movement /\ m.elapsed = 0 /\ m.duration \in 0..Travel[m.dir]
    BY <1>2, <2>2, NewMovementType
  <2> HIDE DEF m
  <2>4. RunTime(m.dir) \in Nat /\ RunTime(m.dir) > Travel[m.dir] /\ Travel[m.dir] \in Nat
    BY <2>3, RunTimeBound, ConstantsAssumption DEF Movement, ConstantsAssumption
  <2>5. RunTime(m.dir) > m.duration - m.elapsed
    BY <2>3, <2>4
  <2> PICK x : x = s
    OBVIOUS
  <2> HIDE DEF s
  <2>6. Covered(x)'
    BY <2>1, <2>5 DEF Covered, Put, NewRun
  <2>7. \A y \in DOMAIN movement' : y # x =>
          /\ y \in DOMAIN movement /\ movement'[y] = movement[y]
          /\ y \in DOMAIN run => y \in DOMAIN run' /\ run'[y] = run[y]
    BY <2>1 DEF Put
  <2>8. QED
    BY <2>6, <2>7, UntouchedCovered
<1>3. QED
  BY <1>1, <1>2

LEMMA PassCovered ==
  ASSUME IInv, EchoCovered, Pass
  PROVE  EchoCovered'
<1> SUFFICES ASSUME NEW s \in DOMAIN movement
             PROVE  Covered(s)'
  BY DEF Pass, EchoCovered, Covered
<1>1. movement[s] \in Movement
  BY MovementInHousehold
<1>2. movement'[s] = IF IsDone(movement[s]) THEN movement[s]
                     ELSE [movement[s] EXCEPT !.elapsed = @ + 1]
  BY DEF Pass
<1>3. CASE IsDone(movement[s])
  BY <1>2, <1>3 DEF Covered, IsDone
<1>4. CASE ~IsDone(movement[s])
  <2>1. /\ s \in DOMAIN run
        /\ run[s].left > movement[s].duration - movement[s].elapsed
        /\ movement[s].elapsed \in Nat /\ movement[s].duration \in Nat
        /\ movement[s].elapsed < movement[s].duration
    BY <1>1, <1>4 DEF EchoCovered, IsDone, Movement
  <2>2. run[s] \in [from : Points, to : Points, left : Nat]
    BY <2>1 DEF IInv, TypeOK, IsTable
  <2>3. run[s].left > 0 /\ run[s].left \in Nat
    BY <2>1, <2>2
  <2>4. s \in DOMAIN run' /\ run'[s] = [run[s] EXCEPT !.left = @ - 1]
    BY <2>1, <2>3 DEF Pass
  <2>5. /\ run'[s].left = run[s].left - 1
        /\ movement'[s].elapsed = movement[s].elapsed + 1
        /\ movement'[s].duration = movement[s].duration
    BY <1>1, <1>2, <1>4, <2>2, <2>4 DEF Movement
  <2>6. QED
    BY <2>1, <2>3, <2>4, <2>5 DEF Covered
<1>5. QED
  BY <1>3, <1>4

LEMMA CoveredNext == IInv /\ EchoCovered /\ [Next]_vars => EchoCovered'
<1> SUFFICES ASSUME IInv, EchoCovered, [Next]_vars PROVE EchoCovered'
  OBVIOUS
<1>1. ASSUME NEW s \in Shutters, NEW target \in Points \cup {None}, Send(s, target)
      PROVE  EchoCovered'
  BY <1>1 DEF Send, EchoCovered
<1>2. ASSUME NEW s \in Shutters, NEW p \in EndStops, ConfirmArrival(s, p)
      PROVE  EchoCovered'
  BY <1>2, UntouchedCovered DEF ConfirmArrival, Drop
<1>3. ASSUME NEW s \in Shutters, Tick(s)
      PROVE  EchoCovered'
  <2>1. run' = run /\ (movement' = movement \/ movement' = Drop(movement, s))
    BY <1>3 DEF Tick, TickBegins, TickGoesOn, SettleDone
  <2>2. QED
    BY <2>1, UntouchedCovered DEF Drop, EchoCovered
<1>4. CASE Stop
  <2> DEFINE s == Head(inflight).shutter
  <2>1. \/ UNCHANGED <<movement, run>>
        \/ movement' = Drop(movement, s) /\ run' = Drop(run, s)
    BY <1>4 DEF Stop
  <2> HIDE DEF s
  <2>2. QED
    BY <2>1, UntouchedCovered DEF Drop, EchoCovered
<1>5. CASE Driving
  BY <1>1, <1>2, <1>3, <1>4, <1>5, StartCovered DEF Driving
<1>6. CASE Hearing
  <2>1. ASSUME NEW s \in Shutters, NEW level \in Points, ReportOfOurRun(s, level)
        PROVE  EchoCovered'
    BY <2>1, UntouchedCovered DEF ReportOfOurRun, Drop
  <2>2. CASE UNCHANGED <<movement, run>>
    BY <2>2 DEF EchoCovered
  <2>3. QED
    BY <1>6, <2>1, <2>2 DEF Hearing, ReportWhileTravelling, ReportWhileIdle,
       RetainedPosition, MovementBegins, MovementEnds
<1>7. CASE Living
  <2>1. ASSUME NEW s \in Shutters, RemoveShutter(s)
        PROVE  EchoCovered'
    BY <2>1, UntouchedCovered DEF RemoveShutter, Drop
  <2>2. ASSUME NEW s \in Shutters, AddShutter(s)
        PROVE  EchoCovered'
    BY <2>2 DEF AddShutter, EchoCovered
  <2>3. QED
    BY <1>7, <2>1, <2>2 DEF Living
<1>8. CASE Restart
  BY <1>8 DEF Restart, EchoCovered, EmptyTable
<1>9. CASE UNCHANGED vars
  BY <1>9 DEF vars, EchoCovered
<1>10. QED
  BY <1>5, <1>6, <1>7, <1>8, <1>9, PassCovered DEF Next

\* BRIDGE_RUN_SLACK: whatever the travel times and curves, the bridge's own run
\* is waited for longer than our travel lasts.
THEOREM RunOutlastsTravel == Spec => []EchoCovered
<1>1. Init => EchoCovered
  BY DEF Init, EchoCovered, EmptyTable
<1>2. QED
  BY <1>1, CoveredNext, Invariance, PTL DEF Spec

-----------------------------------------------------------------------------
(* Nobody gets certainty for free.                                         *)

Earned(s) ==
  Younger(position[s], position'[s]) /\ position'[s].confidence # "certain"
    => \/ s \in external'
       \/ /\ s \in DOMAIN report
          /\ Abs(report[s].percent - position'[s].percent) >= ExternalMinDelta

\* An estimate is not younger than itself, nor than one it took its age from.
LEMMA SameAge ==
  ASSUME NEW e, NEW f, e.age \in Ages \cup {None}, f.age = e.age
  PROVE  ~Younger(e, f)
<1>1. StaleAfter \in Nat
  BY ConstantsAssumption DEF ConstantsAssumption
<1>2. QED
  BY <1>1 DEF Younger, Ages, None

LEMMA SettleEarned ==
  ASSUME IInv, NEW s \in household, NEW p, NEW table, Settle(s, p, table),
         NEW x \in household
  PROVE  Earned(x)
<1>1. CASE x # s
  <2>1. position'[x] = position[x]
    BY <1>1 DEF Settle, Put, IInv, TypeOK
  <2>2. QED
    BY <2>1, AgeType, SameAge DEF Earned
<1>2. CASE x = s
  <2>1. position'[s] = IF p \in EndStops THEN AtEndStop(p)
                                         ELSE Estimated(p, position[s].age)
    BY DEF Settle, Put, IInv, TypeOK
  <2>2. CASE p \in EndStops
    BY <1>2, <2>1, <2>2 DEF Earned, AtEndStop
  <2>3. CASE p \notin EndStops
    <3>1. position'[s].age = position[s].age
      BY <2>1, <2>3 DEF Estimated
    <3>2. QED
      BY <1>2, <3>1, AgeType, SameAge DEF Earned
  <2>4. QED
    BY <2>2, <2>3
<1>3. QED
  BY <1>1, <1>2

LEMMA ReportEarned ==
  ASSUME IInv, NEW s \in Shutters, NEW level \in Points, ReportWhileIdle(s, level),
         NEW x \in household
  PROVE  Earned(x)
<1> DEFINE percent == PercentFromLevel(s, level)
<1>1. /\ s \in household /\ external' = external
      /\ UNCHANGED position \/ position' = Put(position, s, Judged(s, percent))
  BY DEF ReportWhileIdle, Accept
<1>2. percent \in Points
  BY <1>1, PercentFromLevelType
<1> HIDE DEF percent
<1>3. CASE UNCHANGED position \/ x # s
  <2>1. position'[x] = position[x]
    BY <1>1, <1>3 DEF Put, IInv, TypeOK
  <2>2. QED
    BY <2>1, AgeType, SameAge DEF Earned
<1>4. CASE position' = Put(position, s, Judged(s, percent)) /\ x = s
  <2>1. position'[s] = Judged(s, percent)
    BY <1>1, <1>4 DEF Put, IInv, TypeOK
  <2>2. CASE percent \in EndStops
    BY <1>4, <2>1, <2>2 DEF Judged, AtEndStop, Earned
  <2>3. CASE percent \notin EndStops /\ s \in external
    BY <1>1, <1>4, <2>3 DEF Earned
  <2>4. CASE percent \notin EndStops /\ s \notin external /\ SomebodyDrives(s, percent)
    <3>1. CASE IsNoise(s, percent)
      <4>1. position'[s] = position[s]
        BY <2>1, <2>4, <3>1 DEF Judged
      <4>2. QED
        BY <1>1, <1>4, <4>1, AgeType, SameAge DEF Earned
    <3>2. CASE ~IsNoise(s, percent)
      <4>1. position'[s].percent = percent
        BY <2>1, <2>4, <3>2 DEF Judged, Estimated
      <4>2. s \in DOMAIN report /\ Abs(percent - report[s].percent) >= ExternalMinDelta
        BY <2>4 DEF SomebodyDrives
      <4>3. report[s].percent \in Int /\ percent \in Int
        BY <1>2, <4>2, Positive DEF IInv, TypeOK, IsTable, Points
      <4>4. Abs(report[s].percent - percent) = Abs(percent - report[s].percent)
        BY <4>3 DEF Abs
      <4>5. QED
        BY <1>4, <4>1, <4>2, <4>4 DEF Earned
    <3>3. QED
      BY <3>1, <3>2
  <2>5. CASE percent \notin EndStops /\ s \notin external /\ ~SomebodyDrives(s, percent)
    <3>1. position'[s].age = position[s].age
      BY <2>1, <2>5 DEF Judged, Estimated
    <3>2. QED
      BY <1>1, <1>4, <3>1, AgeType, SameAge DEF Earned
  <2>6. QED
    BY <2>2, <2>3, <2>4, <2>5
<1>5. QED
  BY <1>1, <1>3, <1>4

LEMMA OlderIsNotYounger ==
  ASSUME NEW e \in Estimate
  PROVE  ~Younger(e, Older(e))
<1>1. StaleAfter \in Nat
  BY ConstantsAssumption DEF ConstantsAssumption
<1>2. QED
  BY <1>1 DEF Younger, Older, Estimate, Ages, None

LEMMA StepEarned ==
  ASSUME IInv, [Next]_vars, NEW x \in household \cap household'
  PROVE  Earned(x)
<1>1. x \in household
  OBVIOUS
<1>2. CASE position'[x] = position[x]
  BY <1>1, <1>2, AgeType, SameAge DEF Earned
<1>3. ASSUME NEW s \in Shutters, NEW p \in EndStops, ConfirmArrival(s, p)
      PROVE  Earned(x)
  BY <1>1, <1>3, SettleEarned DEF ConfirmArrival
<1>4. ASSUME NEW s \in Shutters, NEW m, SettleDone(s, m)
      PROVE  Earned(x)
  <2>1. CASE s \in DOMAIN movement
    <3>1. Settle(s, m.target, Put(counter, s, m.bto)) /\ s \in household
      BY <1>4, <2>1, MovementInHousehold DEF SettleDone
    <3>2. QED
      BY <1>1, <3>1, SettleEarned
  <2>2. CASE s \notin DOMAIN movement
    BY <1>2, <1>4, <2>2 DEF SettleDone
  <2>3. QED
    BY <2>1, <2>2
<1>5. ASSUME NEW s \in Shutters, Tick(s)
      PROVE  Earned(x)
  BY <1>4, <1>5 DEF Tick, TickBegins, TickGoesOn
<1>6. CASE Stop
  <2> DEFINE s == Head(inflight).shutter
             table == IF movement[s].known THEN Put(counter, s, LevelAt(movement[s]))
                                           ELSE Drop(counter, s)
  <2>1. CASE s \notin household \/ s \notin DOMAIN movement
    BY <1>2, <1>6, <2>1 DEF Stop
  <2>2. CASE s \in household /\ s \in DOMAIN movement
    <3>1. Settle(s, PositionAt(movement[s]), table)
      BY <1>6, <2>2 DEF Stop
    <3> HIDE DEF table
    <3>2. QED
      BY <1>1, <2>2, <3>1, SettleEarned
  <2>3. QED
    BY <2>1, <2>2
<1>7. CASE StartMovement
  BY <1>2, <1>7 DEF StartMovement
<1>8. ASSUME NEW s \in Shutters, NEW target, Send(s, target)
      PROVE  Earned(x)
  BY <1>2, <1>8 DEF Send
<1>9. CASE Driving
  BY <1>3, <1>5, <1>6, <1>7, <1>8, <1>9 DEF Driving
<1>10. ASSUME NEW s \in Shutters, NEW level \in Points, RetainedPosition(s, level)
       PROVE  Earned(x)
  <2>1. \/ position' = position
        \/ position' = Put(position, s, Estimated(PercentFromLevel(s, level), None))
    BY <1>10 DEF RetainedPosition, Accept
  <2>2. position'[x] = position[x] \/ position'[x].age = None
    BY <1>1, <2>1 DEF Put, Estimated, IInv, TypeOK
  <2>3. QED
    BY <1>2, <2>2 DEF Earned, Younger
<1>11. ASSUME NEW s \in Shutters, MovementBegins(s)
       PROVE  Earned(x)
  <2>1. external' = external \cup {s}
    BY <1>11 DEF MovementBegins
  <2>2. x = s \/ position'[x] = position[x]
    BY <1>1, <1>11 DEF MovementBegins, Accept, Put, IInv, TypeOK
  <2>3. QED
    BY <1>2, <2>1, <2>2 DEF Earned
<1>12. CASE Hearing
  <2>1. ASSUME NEW s \in Shutters, NEW level \in Points,
               ReportWhileTravelling(s, level) \/ ReportOfOurRun(s, level) \/ MovementEnds(s)
        PROVE  Earned(x)
    BY <1>2, <2>1 DEF ReportWhileTravelling, ReportOfOurRun, MovementEnds
  <2>2. ASSUME NEW s \in Shutters, MovementEnds(s)
        PROVE  Earned(x)
    BY <1>2, <2>2 DEF MovementEnds
  <2>3. QED
    BY <1>1, <1>10, <1>11, <1>12, <2>1, <2>2, ReportEarned DEF Hearing
<1>13. CASE Living
  <2>1. ASSUME NEW s \in Shutters, AddShutter(s) \/ RemoveShutter(s)
        PROVE  position'[x] = position[x]
    BY <1>1, <2>1 DEF AddShutter, RemoveShutter, Put, Drop, IInv, TypeOK
  <2>2. QED
    BY <1>2, <1>13, <2>1 DEF Living
<1>14. CASE Restart
  <2>1. position'[x] \in {UnknownEstimate, position[x]}
    BY <1>1, <1>14 DEF Restart, IInv, RestartIsHonest
  <2>2. QED
    BY <1>2, <2>1 DEF Earned, Younger, UnknownEstimate
<1>15. CASE Pass
  <2>1. position'[x] = Older(position[x]) /\ position[x] \in Estimate
    BY <1>1, <1>15 DEF Pass, IInv, TypeOK
  <2>2. QED
    BY <2>1, OlderIsNotYounger DEF Earned
<1>16. QED
  BY <1>2, <1>9, <1>12, <1>13, <1>14, <1>15 DEF Next, vars

\* Research 001, 5: only somebody seen driving makes an estimate younger.
THEOREM FreshnessEarned == Spec => FreshnessIsEarned
<1>1. IInv /\ [Next]_vars =>
        [\A s \in household \cap household' :
           Younger(position[s], position'[s]) /\ position'[s].confidence # "certain"
             => \/ s \in external'
                \/ /\ s \in DOMAIN report
                   /\ Abs(report[s].percent - position'[s].percent)
                        >= ExternalMinDelta]_vars
  BY StepEarned DEF Earned
<1>2. QED
  BY <1>1, Invariance, PTL DEF Spec, FreshnessIsEarned
=============================================================================
