------------------------------- MODULE Records -------------------------------
(***************************************************************************)
(* What the automation engine drops without a word (FR-012, FR-013), and   *)
(* by which lines of it.                                                   *)
(*                                                                         *)
(* The engine is that of Automation, every step of it and under no         *)
(* hypothesis.  Beside it a history, `lapsed', takes down each planned     *)
(* instant at the moment the code lets go of it; nothing reads the         *)
(* history.  An instant that is in it may still be recorded later.         *)
(***************************************************************************)
EXTENDS Automation

VARIABLE lapsed  \* history: the planned instants the code has let go of

Pump == task["pump"]

Unrecorded ==
  {k \in Rules \X Times :
     k[1] \in DOMAIN rules /\ k[2] \in rules[k[1]].plan /\ ~Recorded(k)}

\* One of the loop's lists raises - main.py:334 logs it and the loop goes on - and
\* takes with it what was to come behind: its own rest, and the list after it.
Raises ==
  /\ Pump.hand # {} \/ Left(Pump) # {}
  /\ phase' # "down" /\ task'["pump"].stage = "idle"

Forsaken == IF Raises THEN {k \in Unrecorded : k[2] <= Pump.now} ELSE {}

\* The heartbeat passes over an instant: one that came while the loop's list was
\* being carried out, and one that no catch-up reaches - it goes back seven days
\* and, where there is no heartbeat to go back to (engine.py:278), not beyond the grace.
Reach == IF heartbeat = None THEN Grace ELSE CatchUpLimit

Overtaken ==
  IF heartbeat' # heartbeat
  THEN {k \in Unrecorded :
          /\ k[2] <= heartbeat'
          /\ \/ k[2] <= heartbeat' - Reach
             \/ Pump.stage = "run" /\ Pump.now < k[2]}
  ELSE {}

\* A rule is edited by a clock that is behind the heartbeat: what it then plans up to
\* the heartbeat lies before every catch-up.
EditedBehind ==
  {k \in Rules \X Times :
     /\ Wall < k[2] /\ k[2] <= heartbeat
     /\ k[1] \in DOMAIN rules' /\ k[2] \in rules'[k[1]].plan
     /\ k[1] \in DOMAIN rules => rules'[k[1]] # rules[k[1]]}

Lapse == lapsed' = lapsed \cup Forsaken \cup Overtaken \cup EditedBehind

RecordsSpec == Init /\ lapsed = {} /\ [][Next /\ Lapse]_<<vars, lapsed>>

-----------------------------------------------------------------------------
(* Properties.                                                             *)

\* FR-012, FR-013: what a rule had planned and no one has changed since is on
\* record by the time a heartbeat has left it behind for longer than the grace -
\* whatever crashes, boots, clocks in doubt, edits and deletions do.  Exempt is an
\* instant that one of the four lines above let go of and nobody recorded later.  Runs
\* of NothingVanishes, which exempts nothing, show a list that raises, a heartbeat that
\* passes over an instant, rules older than the first heartbeat and an edit behind it;
\* that a catch-up reaches back seven days only is meant (tasks.md, T012).
NothingElseVanishes ==
  \A r \in DOMAIN rules : \A p \in rules[r].plan :
    Overdue(r, p) /\ <<r, p>> \notin lapsed => Recorded(<<r, p>>)
=============================================================================
