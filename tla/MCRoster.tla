------------------------------ MODULE MCRoster ------------------------------
EXTENDS Roster, TLC
CONSTANTS a1, a2

\* Nothing is configured by hand, or the first name and address are.
TwoFiles == {EmptyTable, <<"k", 1>> :> [address |-> a1, name |-> "k"]}
=============================================================================
