--------------------------- MODULE MCCommandPath ----------------------------
EXTENDS CommandPath, TLC
CONSTANTS s1, s2
FirstToLast == [s \in Shutters |-> IF s = s1 THEN 1 ELSE 2]
AnyTask == Permutations(Tasks)

\* Nothing reads what the clients show, nor where the travel of a question began.
ButTold == <<household, forgotten, place, drive, run, check, DOMAIN question,
             asked, pump, due, DOMAIN settled, task, queue>>

\* "Alle auf/zu" reaches the second shutter, which may be measured, behind the
\* await of the first, and either may leave.
ListsAndRuns ==
  \/ \E t \in Tasks :
       \/ \E reachable \in BOOLEAN :
            CommandAll(t, "up", reachable) \/ StartRun(t, s2, reachable)
       \/ MarkArrived(t, s2)
       \/ Resuming(t)
  \/ \E s \in Shutters :
       TickBegins(s) \/ TickGoesOn(s) \/ NoteConfirmable(s) \/ RemoveAtOnce(s)
  \/ Sweep \/ Pass

Everybody == Init /\ household = Shutters

ListSpec == Everybody /\ [][ListsAndRuns]_vars /\ Fairness
=============================================================================
