---------------------------- MODULE MCAutomation -----------------------------
EXTENDS Automation

ARule(plan) == [enabled |-> TRUE, plan |-> plan, reach |-> TRUE,
                skip |-> None, created |-> 0, touched |-> 0]

\* Households: none yet, one rule, two that fire together.
NoRules == {EmptyTable}
NoneOrOne == {EmptyTable, Put(EmptyTable, 1, ARule({1, 3}))}
OneRule == {Put(EmptyTable, 1, ARule({1, 3}))}
TwoRulesTwice == {Put(Put(EmptyTable, 1, ARule({1, 2})), 2, ARule({1, 2}))}
OneRuleTwice == {Put(EmptyTable, 1, ARule({1, 2}))}

TwoRules == {Put(Put(EmptyTable, 1, ARule({1, 3})), 2, ARule({1, 3}))}

OneDraft == {[enabled |-> TRUE, plan |-> {1, 3}, reach |-> TRUE]}

NoHeartbeat == {None}
AHeartbeat == {0}
AnyHeartbeat == {None, 0}

\* The engine on its computer, with nobody there.
EngineSpec == Init /\ [][Engine \/ Machine]_vars

\* The same while no command raises.
SteadySpec == Init /\ [][Working \/ Machine]_vars

\* With people who edit rules and pause nothing.
EditSpec == Init /\ [][Engine \/ Editing \/ Machine]_vars
SteadyEditSpec == Init /\ [][Working \/ Editing \/ Machine]_vars
=============================================================================
