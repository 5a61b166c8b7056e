----------------------------- MODULE MCTracker ------------------------------
EXTENDS Tracker

\* a = 1 in both directions.
Linear == [d \in Direction |-> [p \in Points |-> p]]

\* One direction measured, with a bent curve over four points, up slow at the
\* bottom (a > 1), down the other way round.
BentToPercent == [up |-> [l \in Points |-> <<0, 0, 1, 3, 4>>[l + 1]],
                  down |-> [l \in Points |-> <<0, 2, 3, 3, 4>>[l + 1]]]
BentToLevel == [up |-> [p \in Points |-> <<0, 2, 3, 3, 4>>[p + 1]],
                down |-> [p \in Points |-> <<0, 1, 1, 2, 4>>[p + 1]]]

SameBothWays(t) == [d \in Direction |-> t]
TravelOne == SameBothWays(1)
TravelTwo == SameBothWays(2)
TravelThree == SameBothWays(3)
TravelFour == SameBothWays(4)

\* The same tracker while the bridge says nothing.
SilentSpec == Init /\ [][Driving \/ Living \/ Restart \/ Pass]_vars

\* Nothing but commands, their travels and the time that passes.
Commanding ==
  \/ \E s \in Shutters : Tick(s) \/ \E target \in Points \cup {None} : Send(s, target)
  \/ StartMovement \/ Stop \/ Pass

CommandSpec == Init /\ [][Commanding]_vars
CommandFairSpec == CommandSpec /\ Fairness

\* The same with a bridge that talks.
HeardSpec == Init /\ [][Commanding \/ Hearing]_vars
=============================================================================
