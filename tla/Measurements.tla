---------------------------- MODULE Measurements ----------------------------
(***************************************************************************)
(* What becomes of a measured travel time and of the answers to checks     *)
(* (calibration.py, calibration_store.py, the ends of a run in             *)
(* api/calibration_routes.py and main.py).                                 *)
(*                                                                         *)
(* Runs and answers are rows in SQLite.  What follows from them is kept in *)
(* memory and written to calibration.toml, whole, behind every row; only   *)
(* that file is read at the next start.  A crash can come between the row  *)
(* and the file, and the file can be lost.                                 *)
(***************************************************************************)
EXTENDS Integers, Sequences, FiniteSets, Tables

CONSTANTS
  Windows,    \* shutters
  Directions, \* directions that are measured; "up" is one of them
  Manual,     \* keys with a travel time that somebody typed into shutters.toml
  Totals,     \* how long runs take
  MinTotal,   \* MIN_TOTAL_SECONDS
  Retain,     \* RETAIN_RUNS
  CurveMin,   \* CURVE_MIN, in steps of CURVE_STEP from CURVE_NEUTRAL
  CurveMax,   \* CURVE_MAX
  MaxRuns,    \* bound: how many runs are stored for each direction
  Balances    \* bound: what answers may add up to

Keys == Windows \X Directions

ASSUME MeasurementAssumption ==
  /\ "up" \in Directions
  /\ Manual \subseteq Keys
  /\ Totals \subseteq Nat \ {0}
  /\ MinTotal \in Nat /\ Retain \in Nat \ {0}
  /\ CurveMin \in Int /\ CurveMax \in Int /\ CurveMin < 0 /\ 0 < CurveMax

VARIABLES
  up,      \* the process runs
  runs,    \* measurement_run: what each took, or Rejected
  answers, \* check_answer: those of "too low" less those of "too high"
  file,    \* calibration.toml
  cache,   \* CalibrationService._cache: twice the travel time
  curves,  \* CalibrationService._curves, in steps
  active,  \* RunRegistry._active
  check,   \* app.state.pending_checks
  behind,  \* history: keys whose runs the file has not followed, since a crash or its loss
  told     \* history: what the answers added up to when the curve followed them last

rows == <<runs, answers>>
memory == <<cache, curves>>
vars == <<up, rows, file, memory, active, check, behind, told>>

-----------------------------------------------------------------------------
(* The arithmetic.                                                         *)

Rejected == 0

\* rejection_for(): `late` if the movement was marked no earlier than the arrival;
\* half to twice what is established, if anything is.
Counts(late, total, established) ==
  /\ ~late
  /\ total >= MinTotal
  /\ \A value \in established : value <= 4 * total /\ total <= value

\* derive(): those that count, in their order.
Valid(list) ==
  LET valid[i \in 0..Len(list)] ==
        IF i = 0 THEN <<>>
        ELSE IF list[i] = Rejected THEN valid[i - 1] ELSE Append(valid[i - 1], list[i])
  IN  valid[Len(list)]

LastOf(list) == SubSeq(list, IF Len(list) > Retain THEN Len(list) - Retain + 1 ELSE 1,
                       Len(list))

\* Slip: the last runs are taken first, and those that count among them.
ValidAmongLast(list) == Valid(LastOf(list))

\* ... the recent ones of them ...
Recent(list) == LastOf(Valid(list))

\* Slip: the mean of them.
TwiceMean(list) ==
  LET sum[i \in 0..Len(list)] == IF i = 0 THEN 0 ELSE sum[i - 1] + 2 * list[i]
  IN  sum[Len(list)] \div Len(list)

\* ... and twice their median: the two in the middle, which may be the same.
TwiceMedian(list) ==
  LET shorter(i) == {j \in DOMAIN list : list[j] < list[i]}
      longer(i) == {j \in DOMAIN list : list[j] > list[i]}
      middle == {list[i] : i \in {j \in DOMAIN list :
                   /\ 2 * Cardinality(shorter(j)) <= Len(list)
                   /\ 2 * Cardinality(longer(j)) <= Len(list)}}
      least == CHOOSE x \in middle : \A y \in middle : x <= y
      most == CHOOSE x \in middle : \A y \in middle : x >= y
  IN  least + most

\* Slip: checked before the last step instead of after it.
ClampTop(n) == IF n > CurveMax THEN CurveMax + 1 ELSE n

\* curve_from_answers(): only the sum is clamped.
Clamp(n) == IF n < CurveMin THEN CurveMin ELSE IF n > CurveMax THEN CurveMax ELSE n

CurveOf(k) == IF k \in DOMAIN curves THEN curves[k] ELSE 0
Established(k) == IF k \in DOMAIN cache THEN {cache[k]} ELSE {}

\* effective(): manual before measured before default.
Source(k) == IF k \in Manual THEN "manual"
             ELSE IF k \in DOMAIN cache THEN "measured" ELSE "default"

-----------------------------------------------------------------------------
(* Memory and file.                                                        *)

Entry == [travel : SUBSET (Nat \ {0}), curve : CurveMin..CurveMax]

\* Slip: only what is measured is written.
FlushedMeasured(values, shapes) ==
  [k \in DOMAIN values |->
     [travel |-> {values[k]}, curve |-> IF k \in DOMAIN shapes THEN shapes[k] ELSE 0]]

\* _flush(): a curve is written without a measurement too, unless it is neutral.
Flushed(values, shapes) ==
  [k \in DOMAIN values \cup {x \in DOMAIN shapes : shapes[x] # 0} |->
     [travel |-> IF k \in DOMAIN values THEN {values[k]} ELSE {},
      curve |-> IF k \in DOMAIN shapes THEN shapes[k] ELSE 0]]

Writes(values, shapes) ==
  /\ cache' = values /\ curves' = shapes
  /\ file' = Flushed(values, shapes)
  /\ UNCHANGED up

\* The process ends with a row committed that the file knows nothing of.
Dies(what) ==
  /\ up' = FALSE
  /\ cache' = EmptyTable /\ curves' = EmptyTable
  /\ active' = EmptyTable /\ check' = EmptyTable
  /\ behind' = behind \cup what
  /\ UNCHANGED <<file, told>>

\* Slip: a new value begins with a neutral curve.
RecordNeutral(k, run, crash) ==
  /\ Len(runs[k]) < MaxRuns[k[2]]
  /\ runs' = [runs EXCEPT ![k] = Append(@, run)]
  /\ IF crash THEN Dies(IF run = Rejected THEN {} ELSE {k})
     ELSE /\ IF run = Rejected THEN UNCHANGED <<up, memory, file>>
             ELSE Writes(Put(cache, k, TwiceMedian(Recent(runs'[k]))), Drop(curves, k))
          /\ behind' = IF run = Rejected THEN behind ELSE behind \ {k}
          /\ UNCHANGED told

\* record(): the row first; a run that counts is followed by _rederive().
Record(k, run, crash) ==
  /\ Len(runs[k]) < MaxRuns[k[2]]
  /\ runs' = [runs EXCEPT ![k] = Append(@, run)]
  /\ IF crash THEN Dies(IF run = Rejected THEN {} ELSE {k})
     ELSE /\ IF run = Rejected THEN UNCHANGED <<up, memory, file>>
             ELSE Writes(Put(cache, k, TwiceMedian(Recent(runs'[k]))), curves)
          /\ behind' = IF run = Rejected THEN behind ELSE behind \ {k}
          /\ UNCHANGED told

-----------------------------------------------------------------------------
(* Runs.                                                                   *)

\* start_run(); which way is a matter of where it stands (module CommandPath).
StartRun(k) ==
  /\ up /\ k[1] \notin DOMAIN active
  /\ Len(runs[k]) < MaxRuns[k[2]]
  /\ active' = Put(active, k[1], [direction |-> k[2], disturbed |-> FALSE])
  /\ check' = Drop(check, k[1])
  /\ UNCHANGED <<up, rows, file, memory, behind, told>>

\* note_report(): a live report moves against the run by more than noise does.
HearsContrary(w) ==
  /\ up /\ w \in DOMAIN active
  /\ active' = [active EXCEPT ![w].disturbed = TRUE]
  /\ UNCHANGED <<up, rows, file, memory, check, behind, told>>

\* mark("arrived"): the run is taken out and judged.
MarkArrived(w, late, total, crash) ==
  /\ up /\ w \in DOMAIN active
  /\ LET k == <<w, active[w].direction>>
     IN  Record(k, IF ~active[w].disturbed /\ Counts(late, total, Established(k))
                   THEN total ELSE Rejected, crash)
  /\ ~crash => active' = Drop(active, w) /\ UNCHANGED check
  /\ UNCHANGED answers

\* sweep(): nobody said that it arrived.
Abandon(w, crash) ==
  /\ up /\ w \in DOMAIN active
  /\ Record(<<w, active[w].direction>>, Rejected, crash)
  /\ ~crash => active' = Drop(active, w) /\ UNCHANGED check
  /\ UNCHANGED answers

\* abort_run(), or the bridge could not be reached
Abort(w) ==
  /\ up /\ w \in DOMAIN active
  /\ active' = Drop(active, w)
  /\ UNCHANGED <<up, rows, file, memory, check, behind, told>>

\* confirm(): one tap at the end of an ordinary travel.
Confirm(k, late, total, crash) ==
  /\ up
  /\ Record(k, IF Counts(late, total, Established(k)) THEN total ELSE Rejected, crash)
  /\ ~crash => UNCHANGED <<active, check>>
  /\ UNCHANGED answers

-----------------------------------------------------------------------------
(* Checks.                                                                 *)

\* start_check(): only with something to check, judged by the way up.
StartCheck(k) ==
  /\ up /\ k[1] \notin DOMAIN active
  /\ Source(<<k[1], "up">>) # "default"
  /\ check' = Put(check, k[1], k[2])
  /\ UNCHANGED <<up, rows, file, memory, active, behind, told>>

\* answer_check(): all answers there ever were are added up again.
Answer(w, by, crash) ==
  /\ up /\ w \in DOMAIN check /\ w \notin DOMAIN active
  /\ LET k == <<w, check[w]>>
     IN  /\ answers[k] + by \in Balances[k[2]]
         /\ answers' = [answers EXCEPT ![k] = @ + by]
         /\ IF crash THEN Dies({})
            ELSE /\ Writes(cache, Put(curves, k, Clamp(answers'[k])))
                 /\ check' = Drop(check, w)
                 /\ told' = [told EXCEPT ![k] = answers'[k]]
                 /\ UNCHANGED <<active, behind>>
  /\ UNCHANGED runs

Both(w) == {w} \X Directions
Cleared(sums, w) == [k \in Keys |-> IF k[1] = w THEN 0 ELSE sums[k]]
NoRuns(w) == [k \in Keys |-> IF k[1] = w THEN <<>> ELSE runs[k]]
Only(table, w) == [k \in DOMAIN table \ Both(w) |-> table[k]]

\* Of these it says how long they take.
InFile(keys) == {k \in keys \cap DOMAIN file : file[k].travel # {}}

\* clear_checks(): the answers and what they did to the curve.
ClearChecks(w, crash) ==
  /\ up
  /\ answers' = Cleared(answers, w)
  /\ IF crash THEN Dies({})
     ELSE /\ Writes(cache, Only(curves, w))
          /\ check' = Drop(check, w)
          /\ told' = Cleared(told, w)
          /\ UNCHANGED <<active, behind>>
  /\ UNCHANGED runs

\* clear(): everything measured; a check that is open stays open.
Clear(w) ==
  /\ up
  /\ runs' = NoRuns(w) /\ answers' = Cleared(answers, w)
  /\ Writes(Only(cache, w), Only(curves, w))
  /\ behind' = behind \ Both(w) /\ told' = Cleared(told, w)
  /\ UNCHANGED <<active, check>>

\* The same, cut short behind the runs or behind the answers.
ClearCut(w, answersToo) ==
  /\ up
  /\ runs' = NoRuns(w)
  /\ answers' = IF answersToo THEN Cleared(answers, w) ELSE answers
  /\ Dies(InFile(Both(w)))

-----------------------------------------------------------------------------

Crash == up /\ Dies({}) /\ UNCHANGED rows

\* read_toml(): a file that cannot be read is taken for an empty one.
LoseFile ==
  /\ ~up
  /\ file' = EmptyTable
  /\ behind' = behind \cup InFile(Keys) /\ told' = [k \in Keys |-> 0]
  /\ UNCHANGED <<up, rows, memory, active, check>>

\* _load_measured()
Boot ==
  /\ ~up /\ up' = TRUE
  /\ curves' = [k \in DOMAIN file |-> file[k].curve]
  /\ cache' = [k \in {x \in DOMAIN file : file[x].travel # {}} |->
                 CHOOSE value \in file[k].travel : TRUE]
  /\ UNCHANGED <<rows, file, active, check, behind, told>>

Init ==
  /\ up = TRUE
  /\ runs = [k \in Keys |-> <<>>] /\ answers = [k \in Keys |-> 0]
  /\ file = EmptyTable /\ cache = EmptyTable /\ curves = EmptyTable
  /\ active = EmptyTable /\ check = EmptyTable /\ behind = {} /\ told = answers

Measuring(crash) ==
  \E total \in Totals, late \in BOOLEAN :
    \/ \E w \in Windows : MarkArrived(w, late, total, crash)
    \/ \E k \in Keys : Confirm(k, late, total, crash)

Next ==
  \/ \E crash \in BOOLEAN :
       \/ Measuring(crash)
       \/ \E w \in Windows : \/ Abandon(w, crash) \/ ClearChecks(w, crash)
                            \/ \E by \in {-1, 0, 1} : Answer(w, by, crash)
  \/ \E k \in Keys : StartRun(k) \/ StartCheck(k)
  \/ \E w \in Windows : HearsContrary(w) \/ Abort(w) \/ Clear(w)
  \/ \E w \in Windows, answersToo \in BOOLEAN : ClearCut(w, answersToo)
  \/ Crash \/ LoseFile \/ Boot

Spec == Init /\ [][Next]_vars

-----------------------------------------------------------------------------
(* Properties.                                                             *)

TypeOK ==
  /\ up \in BOOLEAN
  /\ runs \in [Keys -> Seq(Totals \cup {Rejected})]
  /\ answers \in [Keys -> Int]
  /\ IsTable(file, Keys, Entry)
  /\ IsTable(cache, Keys, Nat \ {0})
  /\ IsTable(curves, Keys, CurveMin..CurveMax)
  /\ IsTable(active, Windows, [direction : Directions, disturbed : BOOLEAN])
  /\ IsTable(check, Windows, Directions)
  /\ behind \subseteq Keys /\ told \in [Keys -> Int]

\* A restart changes no travel time and no curve that the house goes by, whatever
\* mixture of runs, answers and discarding came before (calibration_store.py: a
\* curve without a measurement has "to be read back too").
RestartChangesNothing ==
  up => \A k \in Keys :
          LET kept == IF k \in DOMAIN file THEN file[k] ELSE [travel |-> {}, curve |-> 0]
          IN  kept.travel = Established(k) /\ kept.curve = CurveOf(k)

\* How many of the recent runs are shorter, and longer, than half of `twice`.
Median(twice, list) ==
  /\ 2 * Cardinality({i \in DOMAIN list : 2 * list[i] < twice}) <= Len(list)
  /\ 2 * Cardinality({i \in DOMAIN list : 2 * list[i] > twice}) <= Len(list)

\* FR-013, FR-021: what is measured is a median of the last valid runs, neither of
\* fewer because some between them were rejected nor of more; except where a crash
\* or a lost file came between, until the next run that counts.
MeasuredIsRecentMedian ==
  up => \A k \in Keys \ behind :
          LET valid == Valid(runs[k])
              first == IF Len(valid) > Retain THEN Len(valid) - Retain ELSE 0
              last == [i \in 1..(Len(valid) - first) |-> valid[first + i]]
          IN  /\ k \in DOMAIN cache <=> valid # <<>>
              /\ k \in DOMAIN cache => Median(cache[k], last)

\* FR-013: "the median needs two bad runs out of three before it moves": after two
\* runs that agree, one more does not move the value (Retain > 2).
OneRunDoesNotDrag ==
  [][\A k \in Keys :
       Established(k)' # Established(k) /\ up /\ up' /\ k \notin behind =>
         \/ Len(runs'[k]) <= Len(runs[k])
         \/ LET valid == Valid(runs[k])
            IN  Len(valid) # 2 \/ valid[1] # valid[2]]_vars

\* FR-024: the curve of a direction goes the way that its answers say, and no further
\* than they have said since it followed them last: one step for the one that was just
\* given, and one for each that a crash or a lost file had kept from it before; nothing
\* but an answer or the discarding of them moves it.
AnswersMoveTheirWay ==
  [][\A k \in Keys :
       LET move == CurveOf(k)' - CurveOf(k)
           said == answers'[k] - told[k]
       IN  up /\ up' /\ move # 0 =>
             /\ told'[k] = answers'[k]
             /\ IF move > 0 THEN move <= said ELSE said <= move]_vars

\* FR-024: "a bounded amount" for each answer: after a crash the answers that the curve
\* has not followed yet come on top of it.
OneStepAtATime ==
  [][\A k \in Keys :
       up /\ up' /\ answers'[k] # 0 => CurveOf(k)' - CurveOf(k) \in -1..1]_vars

\* calibration_store.py: of a corrupt file, "the measurements are still in SQLite
\* and can be rewritten".
RunsAreNotForgotten ==
  up => \A k \in Keys : Valid(runs[k]) # <<>> => k \in DOMAIN cache

\* FR-021: "so a genuine change in the shutter is eventually followed":
\* whatever is established, a time that is not too short can be measured.
ChangeIsFollowed ==
  up => \A k \in Keys, total \in Totals :
          total >= MinTotal => Counts(FALSE, total, Established(k))

\* An answer is felt unless the curve is at the limit it points to.
AnswersAreFelt ==
  [][\A k \in Keys :
       up /\ up' /\ told[k] = answers[k] /\ answers'[k] # answers[k] /\ answers'[k] # 0
         => \/ CurveOf(k)' # CurveOf(k)
            \/ CurveOf(k) = CurveMin /\ answers'[k] < answers[k]
            \/ CurveOf(k) = CurveMax /\ answers'[k] > answers[k]]_vars

\* calibration_routes.py: "Erst messen, dann pruefen": an open check is about a
\* shutter of which something is known.
ChecksHaveAMeasurement ==
  up => \A w \in DOMAIN check : Source(<<w, "up">>) # "default"
=============================================================================
