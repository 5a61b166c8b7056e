----------------------------- MODULE Household ------------------------------
(***************************************************************************)
(* What names a shutter by its id, and what happens to it when the shutter *)
(* leaves: the groups (groups.py, api/group_routes.py), the targets of the *)
(* rules, the measurements, and the removal that walks through them        *)
(* (Roster.remove).  Each of them is committed on its own, the removal     *)
(* awaits twice in between, and the process may end anywhere.              *)
(***************************************************************************)
EXTENDS Integers, FiniteSets, Tables

CONSTANTS
  Shutters,   \* every shutter that may be confirmed
  Groups,     \* ids of groups
  Rules,      \* ids of rules
  GroupNames, \* name_key() of what people call groups
  MaxPosition \* bound: how often groups may be appended

ASSUME HouseholdAssumption ==
  /\ MaxPosition \in Nat
  /\ Groups \cap Rules = {}

VARIABLES
  up,        \* the process runs
  household, \* settings.shutters
  rows,      \* household_shutter: the active ones
  groups,    \* shutter_group and shutter_group_member
  rules,     \* automation_rule.targets
  measured,  \* who has runs, answers or a derived value
  removing,  \* removals under way: how many of their parts are done
  dropping,  \* deleted groups that rules may still name
  slipped    \* history: saved with a shutter that was being removed

tables == <<groups, rules, measured>>
vars == <<up, household, rows, tables, removing, dropping, slipped>>

-----------------------------------------------------------------------------

Group == [name : GroupNames, members : SUBSET Shutters, position : 0..MaxPosition]
Targets == [shutters : SUBSET Shutters, groups : SUBSET Groups]

\* prune()
Pruned(configured) ==
  [g \in DOMAIN groups |->
     [groups[g] EXCEPT !.members = @ \cap configured]]

\* AutomationStore.remove_shutter(), as far as it came.
Without(s, some) ==
  [r \in DOMAIN rules |->
     IF r \in some THEN [rules[r] EXCEPT !.shutters = @ \ {s}] ELSE rules[r]]

\* parse_draft(): members of the household, and somebody.
Draft(members) == members \subseteq household /\ members # {}

\* _holder_of()
HolderOf(name) == {g \in DOMAIN groups : groups[g].name = name}

\* Slip: appended behind as many as there are.
PositionByCount == Cardinality(DOMAIN groups)

\* COALESCE(MAX(position), -1) + 1
LastPosition ==
  CHOOSE n \in 0..(MaxPosition + 1) :
    /\ \A g \in DOMAIN groups : groups[g].position < n
    /\ n = 0 \/ \E g \in DOMAIN groups : groups[g].position = n - 1

\* update(): its place in the order is kept.
Updated(g, name, members) ==
  [groups EXCEPT ![g].name = name, ![g].members = members]

\* What is saved with a shutter whose removal is under way.
Slips(id, shutters) ==
  {p \in slipped : p[1] # id} \cup {<<id, s>> : s \in shutters \cap DOMAIN removing}

-----------------------------------------------------------------------------
(* Groups and rules.  The body of a request is awaited before anything is  *)
(* looked up, so each of these is one step.                                *)

CreateGroup(g, name, members) ==
  /\ g \notin DOMAIN groups \cup dropping  \* a token that nobody has seen
  /\ \A r \in DOMAIN rules : g \notin rules[r].groups
  /\ Draft(members)
  /\ HolderOf(name) = {}
  /\ LastPosition <= MaxPosition
  /\ groups' = Put(groups, g, [name |-> name, members |-> members,
                               position |-> LastPosition])
  /\ slipped' = Slips(g, members)
  /\ UNCHANGED <<household, rows, rules, measured, removing, dropping>>

ReplaceGroup(g, name, members) ==
  /\ g \in DOMAIN groups
  /\ Draft(members)
  /\ HolderOf(name) \subseteq {g}
  /\ groups' = Updated(g, name, members)
  /\ slipped' = Slips(g, members)
  /\ UNCHANGED <<household, rows, rules, measured, removing, dropping>>

\* reorder(): refused unless it names every group once.
Reorder(order) ==
  /\ groups' = [g \in DOMAIN groups |-> [groups[g] EXCEPT !.position = order[g]]]
  /\ UNCHANGED <<household, rows, rules, measured, removing, dropping, slipped>>

\* delete_group() up to the await of the announcement.
DeleteGroup(g) ==
  /\ g \in DOMAIN groups
  /\ groups' = Drop(groups, g)
  /\ dropping' = dropping \cup {g}
  /\ slipped' = Slips(g, {})
  /\ UNCHANGED <<household, rows, rules, measured, removing>>

\* The rest of it, drop_group().
DropGroup(g) ==
  /\ g \in dropping
  /\ rules' = [r \in DOMAIN rules |-> [rules[r] EXCEPT !.groups = @ \ {g}]]
  /\ dropping' = dropping \ {g}
  /\ UNCHANGED <<household, rows, groups, measured, removing, slipped>>

\* create_rule() and replace_rule(): parse_draft() knows whom there is.
SaveRule(r, shutters, named) ==
  /\ shutters \subseteq household /\ named \subseteq DOMAIN groups
  /\ rules' = Put(rules, r, [shutters |-> shutters, groups |-> named])
  /\ slipped' = Slips(r, shutters)
  /\ UNCHANGED <<household, rows, groups, measured, removing, dropping>>

DeleteRule(r) ==
  /\ rules' = Drop(rules, r)
  /\ slipped' = Slips(r, {})
  /\ UNCHANGED <<household, rows, groups, measured, removing, dropping>>

-----------------------------------------------------------------------------
(* Shutters.  A removal has four parts: the groups, the rules, the         *)
(* measurements and the row.  It awaits after the first and the second, if *)
(* they had anything to do.                                                *)

Add(s) ==
  /\ s \notin household /\ s \notin rows
  /\ household' = household \cup {s} /\ rows' = rows \cup {s}
  /\ UNCHANGED <<tables, removing, dropping, slipped>>

\* mark(), confirm(), answer_check()
Measure(s) ==
  /\ s \in household
  /\ measured' = measured \cup {s}
  /\ UNCHANGED <<household, rows, groups, rules, removing, dropping, slipped>>

Parts == 0..4
DoneOf(s) == IF s \in DOMAIN removing THEN removing[s] ELSE 0
Naming(s) == {r \in DOMAIN rules : s \in rules[r].shutters}

\* Slip: the measurements are cleared first, before the removal awaits.
PartsMeasuredFirst(s, done, upto, some) ==
  /\ measured' = IF done < 1 /\ upto >= 1 THEN measured \ {s} ELSE measured
  /\ groups' = IF done < 1 /\ upto >= 1 THEN Pruned(household \ {s}) ELSE groups
  /\ rules' = IF done < 2 /\ upto >= 2 THEN Without(s, some) ELSE rules
  /\ rows' = IF upto = 4 THEN rows \ {s} ELSE rows

\* Slip: the row goes before the rules do.
PartsRowEarly(s, done, upto, some) ==
  /\ groups' = IF done < 1 /\ upto >= 1 THEN Pruned(household \ {s}) ELSE groups
  /\ rows' = IF done < 2 /\ upto >= 2 THEN rows \ {s} ELSE rows
  /\ rules' = IF done < 3 /\ upto >= 3 THEN Without(s, some) ELSE rules
  /\ measured' = IF upto = 4 THEN measured \ {s} ELSE measured

\* What is committed between the first `done` parts and the first `upto`.
CommitParts(s, done, upto, some) ==
  /\ groups' = IF done < 1 /\ upto >= 1 THEN Pruned(household \ {s}) ELSE groups
  /\ rules' = IF done < 2 /\ upto >= 2 THEN Without(s, some) ELSE rules
  /\ measured' = IF done < 3 /\ upto >= 3 THEN measured \ {s} ELSE measured
  /\ rows' = IF upto = 4 THEN rows \ {s} ELSE rows

\* Where it awaits next.
NextAwait(s, done) ==
  IF done < 1 /\ Pruned(household \ {s}) # groups THEN 1
  ELSE IF done < 2 /\ Naming(s) # {} THEN 2
  ELSE 4

\* remove(), from one await to the next.
RemoveOn(s) ==
  /\ s \in household \/ s \in DOMAIN removing
  /\ LET upto == NextAwait(s, DoneOf(s))
     IN  /\ CommitParts(s, DoneOf(s), upto, Naming(s))
         /\ household' = IF upto = 4 THEN household \ {s} ELSE household
         /\ removing' = IF upto = 4 THEN Drop(removing, s) ELSE Put(removing, s, upto)
  /\ UNCHANGED <<dropping, slipped>>

\* The process ends, at an await or between two commits of a removal, and the
\* update of the rules is one commit for each of them.
Crash(s, upto, some) ==
  /\ up
  /\ s \in household \/ s \in DOMAIN removing
  /\ upto >= DoneOf(s) /\ (upto >= 3 => some = Naming(s))
  /\ CommitParts(s, DoneOf(s), upto, some)
  /\ up' = FALSE
  /\ household' = {} /\ removing' = EmptyTable /\ dropping' = {}
  /\ UNCHANGED slipped

\* The next start: the household is what the rows say, and prune() follows.
Boot ==
  /\ ~up
  /\ up' = TRUE
  /\ household' = rows
  /\ groups' = Pruned(rows)
  /\ slipped' = {p \in slipped : p[1] \in Rules}
  /\ UNCHANGED <<rows, rules, measured, removing, dropping>>

-----------------------------------------------------------------------------

Init ==
  /\ up = TRUE
  /\ household = {} /\ rows = {}
  /\ groups = EmptyTable /\ rules = EmptyTable /\ measured = {}
  /\ removing = EmptyTable /\ dropping = {} /\ slipped = {}

Orders == {order \in [DOMAIN groups -> 0..(Cardinality(DOMAIN groups) - 1)] :
             \A g, h \in DOMAIN groups : order[g] = order[h] => g = h}

Saving ==
  \/ \E g \in Groups, name \in GroupNames, members \in SUBSET Shutters :
       CreateGroup(g, name, members) \/ ReplaceGroup(g, name, members)
  \/ \E order \in Orders : Reorder(order)
  \/ \E g \in Groups : DeleteGroup(g) \/ DropGroup(g)
  \/ \E r \in Rules, shutters \in SUBSET Shutters, named \in SUBSET Groups :
       SaveRule(r, shutters, named)
  \/ \E r \in Rules : DeleteRule(r)
  \/ \E s \in Shutters : Add(s) \/ Measure(s) \/ RemoveOn(s)

Next ==
  \/ up /\ Saving /\ UNCHANGED up
  \/ \E s \in Shutters, upto \in Parts, some \in SUBSET Rules : Crash(s, upto, some)
  \/ Boot

Spec == Init /\ [][Next]_vars

-----------------------------------------------------------------------------
(* Properties.                                                             *)

TypeOK ==
  /\ up \in BOOLEAN
  /\ household \subseteq rows /\ rows \subseteq Shutters
  /\ IsTable(groups, Groups, Group)
  /\ IsTable(rules, Rules, Targets)
  /\ measured \subseteq Shutters
  /\ IsTable(removing, household, {1, 2})
  /\ dropping \subseteq Groups \ DOMAIN groups
  /\ slipped \subseteq (Groups \cup Rules) \X Shutters

\* roster.py: "in an order where an interruption leaves nothing pointing at a
\* shutter that is gone".  Wherever a removal is cut short, whoever a group, a
\* rule or a measurement names is in the household, except for what was saved
\* while the removal was under way; of that, the next start heals the groups.
NobodyGoneIsNamed ==
  up => /\ measured \subseteq household
        /\ \A g \in DOMAIN groups : \A s \in groups[g].members :
             s \in household \/ <<g, s>> \in slipped
        /\ \A r \in DOMAIN rules : \A s \in rules[r].shutters :
             s \in household \/ <<r, s>> \in slipped

\* Groups have an order and names of their own, after any mixture of appending,
\* deleting and reordering.
GroupsAreAList ==
  \A g, h \in DOMAIN groups :
    groups[g].position = groups[h].position \/ groups[g].name = groups[h].name => g = h

\* FR-013 without the exception.
NothingNamesTheGone ==
  up => /\ \A g \in DOMAIN groups : groups[g].members \subseteq household
        /\ \A r \in DOMAIN rules : rules[r].shutters \subseteq household
=============================================================================
