--------------------------- MODULE HouseholdProofs --------------------------
(***************************************************************************)
(* Of any number of shutters, groups and rules: wherever a removal is cut  *)
(* short, nothing but what was saved during it names a shutter that has    *)
(* gone, and the groups stay a list.                                       *)
(***************************************************************************)
EXTENDS Household, FunctionTheorems, FiniteSetTheorems, NaturalsInduction, TLAPS

\* While the process runs the household is its rows; what is measured has one.
Rowed ==
  /\ up => household = rows
  /\ ~up => household = {}
  /\ measured \subseteq rows

\* Whoever is named has a row, or was saved while it was being removed.
Named ==
  /\ up => \A g \in DOMAIN groups : \A s \in groups[g].members :
             s \in rows \/ <<g, s>> \in slipped
  /\ \A r \in DOMAIN rules : \A s \in rules[r].shutters :
       s \in rows \/ <<r, s>> \in slipped

\* A removal that awaits has its first parts behind it.
Cut ==
  \A s \in DOMAIN removing :
    /\ \A g \in DOMAIN groups : s \in groups[g].members => <<g, s>> \in slipped
    /\ removing[s] = 2 =>
         \A r \in DOMAIN rules : s \in rules[r].shutters => <<r, s>> \in slipped

IInv == TypeOK /\ Rowed /\ Named /\ Cut /\ GroupsAreAList

LEMMA LeastNatural ==
  ASSUME NEW S \in SUBSET Nat, S # {}
  PROVE  \E x \in S : \A y \in S : x <= y
<1>1. \E x \in S : \A y \in S : ~ (<<y, x>> \in OpToRel(<, Nat))
  BY NatLessThanWellFounded, WFMin
<1>2. PICK x \in S : \A y \in S : ~ (<<y, x>> \in OpToRel(<, Nat))
  BY <1>1
<1>3. \A y \in S : ~(y < x)
  BY <1>2 DEF OpToRel
<1>4. QED
  BY <1>3

-----------------------------------------------------------------------------
(* The order of the groups.                                                *)

LEMMA GroupFields ==
  ASSUME TypeOK, NEW g \in DOMAIN groups
  PROVE  /\ g \in Groups /\ groups[g] \in Group
         /\ groups[g].name \in GroupNames /\ groups[g].members \subseteq Shutters
         /\ groups[g].position \in 0..MaxPosition
BY DEF TypeOK, IsTable, Group

LEMMA RuleFields ==
  ASSUME TypeOK, NEW r \in DOMAIN rules
  PROVE  /\ r \in Rules /\ rules[r] \in Targets
         /\ rules[r].shutters \subseteq Shutters /\ rules[r].groups \subseteq Groups
BY DEF TypeOK, IsTable, Targets

\* Whoever is appended comes behind everybody.
LEMMA LastIsLast ==
  ASSUME TypeOK
  PROVE  /\ LastPosition \in 0..(MaxPosition + 1)
         /\ \A g \in DOMAIN groups : groups[g].position < LastPosition
<1> DEFINE above == {n \in 0..(MaxPosition + 1) : \A g \in DOMAIN groups : groups[g].position < n}
<1>1. MaxPosition \in Nat
  BY HouseholdAssumption DEF HouseholdAssumption
<1>2. MaxPosition + 1 \in above /\ above \in SUBSET Nat
  BY <1>1, GroupFields
<1>3. PICK n \in above : \A m \in above : n <= m
  BY <1>2, LeastNatural
<1>4. n = 0 \/ \E g \in DOMAIN groups : groups[g].position = n - 1
  <2> SUFFICES ASSUME n # 0, \A g \in DOMAIN groups : groups[g].position # n - 1
               PROVE  FALSE
    OBVIOUS
  <2>1. n - 1 \in 0..(MaxPosition + 1)
    BY <1>1, <1>2
  <2>2. ASSUME NEW g \in DOMAIN groups PROVE groups[g].position < n - 1
    <3>1. groups[g].position \in 0..MaxPosition /\ groups[g].position < n
          /\ groups[g].position # n - 1
      BY GroupFields
    <3>2. QED
      BY <1>1, <2>1, <3>1
  <2>3. n - 1 \in above
    BY <2>1, <2>2
  <2>4. QED
    BY <1>1, <1>3, <2>3
<1>5. \E m \in 0..(MaxPosition + 1) :
        /\ \A g \in DOMAIN groups : groups[g].position < m
        /\ m = 0 \/ \E g \in DOMAIN groups : groups[g].position = m - 1
  BY <1>4
<1>6. QED
  BY <1>5 DEF LastPosition

\* There are no more groups than places, so an order of them fits.
LEMMA PlacesSuffice ==
  ASSUME TypeOK, GroupsAreAList
  PROVE  /\ Cardinality(DOMAIN groups) \in Nat
         /\ Cardinality(DOMAIN groups) <= MaxPosition + 1
<1> DEFINE f == [g \in DOMAIN groups |-> groups[g].position]
<1>1. MaxPosition \in Nat
  BY HouseholdAssumption DEF HouseholdAssumption
<1>2. f \in [DOMAIN groups -> 0..MaxPosition]
  BY GroupFields
<1>3. \A a, b \in DOMAIN groups : f[a] = f[b] => a = b
  BY DEF GroupsAreAList
<1> HIDE DEF f
<1>4. f \in Injection(DOMAIN groups, 0..MaxPosition)
  BY <1>2, <1>3, Fun_IsInj
<1>5. IsFiniteSet(0..MaxPosition) /\ Cardinality(0..MaxPosition) = MaxPosition + 1
  BY <1>1, FS_Interval
<1>6. IsFiniteSet(DOMAIN groups)
      /\ Cardinality(DOMAIN groups) <= Cardinality(0..MaxPosition)
  BY <1>4, <1>5, FS_Injection
<1>7. QED
  BY <1>5, <1>6, FS_CardinalityType

-----------------------------------------------------------------------------
(* What is saved.                                                          *)

LEMMA SlipsType ==
  ASSUME TypeOK, NEW id \in Groups \cup Rules, NEW shutters \in SUBSET Shutters
  PROVE  /\ Slips(id, shutters) \subseteq (Groups \cup Rules) \X Shutters
         /\ \A s \in shutters \cap DOMAIN removing : <<id, s>> \in Slips(id, shutters)
         /\ \A other, s : other # id /\ <<other, s>> \in slipped
                            => <<other, s>> \in Slips(id, shutters)
BY DEF Slips, TypeOK

\* A group was saved, with members of the household.
LEMMA GroupSaved ==
  ASSUME IInv, up, UNCHANGED <<up, household, rows, rules, measured, removing>>,
         NEW g \in Groups, NEW members \in SUBSET household,
         g \in DOMAIN groups', groups'[g].members = members,
         DOMAIN groups' = DOMAIN groups \cup {g},
         \A h \in DOMAIN groups \ {g} : groups'[h] = groups[h],
         slipped' = Slips(g, members)
  PROVE  Named' /\ Cut' /\ slipped' \subseteq (Groups \cup Rules) \X Shutters
<1>1. household \subseteq rows /\ rows \subseteq Shutters /\ household = rows
      /\ DOMAIN rules \subseteq Rules /\ Groups \cap Rules = {}
  BY HouseholdAssumption DEF IInv, TypeOK, IsTable, Rowed, HouseholdAssumption
<1>2. /\ slipped' \subseteq (Groups \cup Rules) \X Shutters
      /\ \A s \in members \cap DOMAIN removing : <<g, s>> \in slipped'
      /\ \A other, s : other # g /\ <<other, s>> \in slipped => <<other, s>> \in slipped'
  BY <1>1, SlipsType DEF IInv
<1>3. Named'
  BY <1>1, <1>2 DEF IInv, Named
<1>4. Cut'
  BY <1>1, <1>2 DEF IInv, Cut
<1>5. QED
  BY <1>2, <1>3, <1>4

LEMMA CreateGroupKeeps ==
  ASSUME IInv, up, NEW g \in Groups, NEW name \in GroupNames, NEW members,
         CreateGroup(g, name, members), UNCHANGED up
  PROVE  IInv'
<1> DEFINE x == [name |-> name, members |-> members, position |-> LastPosition]
<1>1. /\ g \notin DOMAIN groups \cup dropping /\ members \subseteq household
      /\ HolderOf(name) = {} /\ LastPosition <= MaxPosition
      /\ groups' = Put(groups, g, x) /\ slipped' = Slips(g, members)
      /\ UNCHANGED <<household, rows, rules, measured, removing, dropping>>
  BY DEF CreateGroup, Draft
<1>2. LastPosition \in 0..MaxPosition /\ \A h \in DOMAIN groups : groups[h].position < LastPosition
  BY <1>1, LastIsLast, HouseholdAssumption DEF IInv, HouseholdAssumption
<1>3. x \in Group /\ x.name = name /\ x.members = members /\ x.position = LastPosition
  BY <1>1, <1>2 DEF Group, IInv, TypeOK
<1> HIDE DEF x
<1>4. /\ DOMAIN groups' = DOMAIN groups \cup {g} /\ groups'[g] = x
      /\ \A h \in DOMAIN groups : groups'[h] = groups[h]
  BY <1>1 DEF Put
<1>5. IsTable(groups', Groups, Group)
  BY <1>1, <1>3 DEF IInv, TypeOK, IsTable, Put
<1>6. Named' /\ Cut' /\ slipped' \subseteq (Groups \cup Rules) \X Shutters
  BY <1>1, <1>3, <1>4, GroupSaved
<1>7. TypeOK'
  BY <1>1, <1>4, <1>5, <1>6 DEF IInv, TypeOK
<1>8. GroupsAreAList'
  <2>1. \A h \in DOMAIN groups : groups[h].name # name
    BY <1>1 DEF HolderOf
  <2>2. \A h \in DOMAIN groups : groups[h].position # LastPosition
    <3>1. \A h \in DOMAIN groups : groups[h].position \in 0..MaxPosition
      BY GroupFields DEF IInv
    <3>2. QED
      BY <1>2, <3>1
  <2>3. QED
    BY <1>3, <1>4, <2>1, <2>2 DEF IInv, GroupsAreAList
<1>9. QED
  BY <1>1, <1>6, <1>7, <1>8 DEF IInv, Rowed

LEMMA ReplaceGroupKeeps ==
  ASSUME IInv, up, NEW g \in Groups, NEW name \in GroupNames, NEW members,
         ReplaceGroup(g, name, members), UNCHANGED up
  PROVE  IInv'
<1>1. /\ g \in DOMAIN groups /\ members \subseteq household
      /\ HolderOf(name) \subseteq {g}
      /\ groups' = Updated(g, name, members) /\ slipped' = Slips(g, members)
      /\ UNCHANGED <<household, rows, rules, measured, removing, dropping>>
  BY DEF ReplaceGroup, Draft
<1>2. PICK x : x = [groups[g] EXCEPT !.name = name, !.members = members]
  OBVIOUS
<1>3. x \in Group /\ x.name = name /\ x.members = members /\ x.position = groups[g].position
  <2>1. groups[g] \in Group /\ members \subseteq Shutters
    BY <1>1, GroupFields DEF IInv, TypeOK
  <2>2. QED
    BY <1>2, <2>1 DEF Group
<1>4. groups' = [groups EXCEPT ![g] = x]
  BY <1>1, <1>2 DEF Updated
<1>5. /\ DOMAIN groups' = DOMAIN groups /\ groups'[g] = x
      /\ \A h \in DOMAIN groups \ {g} : groups'[h] = groups[h]
      /\ IsTable(groups', Groups, Group)
  BY <1>1, <1>3, <1>4 DEF IInv, TypeOK, IsTable
<1>6. Named' /\ Cut' /\ slipped' \subseteq (Groups \cup Rules) \X Shutters
  <2>1. DOMAIN groups' = DOMAIN groups \cup {g} /\ groups'[g].members = members
    BY <1>1, <1>3, <1>5
  <2>2. QED
    BY <1>1, <1>5, <2>1, GroupSaved
<1>7. TypeOK'
  BY <1>1, <1>5, <1>6 DEF IInv, TypeOK
<1>8. GroupsAreAList'
  <2>1. \A h \in DOMAIN groups \ {g} : groups[h].name # name
    BY <1>1 DEF HolderOf
  <2>2. \A h \in DOMAIN groups \ {g} : groups[h].position # groups[g].position
    BY <1>1 DEF IInv, GroupsAreAList
  <2>3. QED
    BY <1>3, <1>5, <2>1, <2>2 DEF IInv, GroupsAreAList
<1>9. QED
  BY <1>1, <1>6, <1>7, <1>8 DEF IInv, Rowed

LEMMA ReorderKeeps ==
  ASSUME IInv, up, NEW order \in Orders, Reorder(order), UNCHANGED up
  PROVE  IInv'
<1>1. /\ order \in [DOMAIN groups -> 0..(Cardinality(DOMAIN groups) - 1)]
      /\ \A g, h \in DOMAIN groups : order[g] = order[h] => g = h
      /\ groups' = [g \in DOMAIN groups |-> [groups[g] EXCEPT !.position = order[g]]]
      /\ UNCHANGED <<household, rows, rules, measured, removing, dropping, slipped>>
  BY DEF Orders, Reorder
<1>2. DOMAIN groups' = DOMAIN groups
  BY <1>1
<1>3. ASSUME NEW g \in DOMAIN groups
      PROVE  /\ groups'[g] \in Group /\ groups'[g].position = order[g]
             /\ groups'[g].name = groups[g].name
             /\ groups'[g].members = groups[g].members
  <2>1. order[g] \in 0..MaxPosition
    <3>1. order[g] \in 0..(Cardinality(DOMAIN groups) - 1)
      BY <1>1
    <3>2. QED
      BY <3>1, PlacesSuffice, HouseholdAssumption DEF IInv, HouseholdAssumption
  <2>2. groups[g] \in Group
    BY GroupFields DEF IInv
  <2>3. groups'[g] = [groups[g] EXCEPT !.position = order[g]]
    BY <1>1
  <2>4. QED
    BY <2>1, <2>2, <2>3 DEF Group
<1>4. IsTable(groups', Groups, Group)
  <2>1. groups' = [g \in DOMAIN groups |-> groups'[g]]
    BY <1>1
  <2>2. QED
    BY <1>2, <1>3, <2>1 DEF IInv, TypeOK, IsTable
<1>5. TypeOK'
  BY <1>1, <1>2, <1>4 DEF IInv, TypeOK
<1>6. Named' /\ Cut'
  BY <1>1, <1>2, <1>3 DEF IInv, Named, Cut
<1>7. GroupsAreAList'
  BY <1>1, <1>2, <1>3 DEF IInv, GroupsAreAList
<1>8. QED
  BY <1>1, <1>5, <1>6, <1>7 DEF IInv, Rowed

LEMMA DeleteGroupKeeps ==
  ASSUME IInv, up, NEW g \in Groups, DeleteGroup(g), UNCHANGED up
  PROVE  IInv'
<1>1. /\ g \in DOMAIN groups
      /\ groups' = Drop(groups, g) /\ dropping' = dropping \cup {g}
      /\ slipped' = Slips(g, {})
      /\ UNCHANGED <<household, rows, rules, measured, removing>>
  BY DEF DeleteGroup
<1>2. /\ DOMAIN groups' = DOMAIN groups \ {g}
      /\ \A h \in DOMAIN groups' : groups'[h] = groups[h]
      /\ IsTable(groups', Groups, Group)
  BY <1>1 DEF Drop, IInv, TypeOK, IsTable
<1>3. /\ slipped' \subseteq (Groups \cup Rules) \X Shutters
      /\ \A other, s : other # g /\ <<other, s>> \in slipped => <<other, s>> \in slipped'
  BY <1>1, SlipsType DEF IInv
<1>4. DOMAIN rules \subseteq Rules /\ Groups \cap Rules = {}
  BY HouseholdAssumption DEF IInv, TypeOK, IsTable, HouseholdAssumption
<1>5. TypeOK'
  BY <1>1, <1>2, <1>3 DEF IInv, TypeOK
<1>6. Named' /\ Cut'
  BY <1>1, <1>2, <1>3, <1>4 DEF IInv, Named, Cut
<1>7. GroupsAreAList'
  BY <1>2 DEF IInv, GroupsAreAList
<1>8. QED
  BY <1>1, <1>5, <1>6, <1>7 DEF IInv, Rowed

LEMMA DropGroupKeeps ==
  ASSUME IInv, up, NEW g \in Groups, DropGroup(g), UNCHANGED up
  PROVE  IInv'
<1>1. /\ rules' = [r \in DOMAIN rules |-> [rules[r] EXCEPT !.groups = rules[r].groups \ {g}]]
      /\ dropping' = dropping \ {g}
      /\ UNCHANGED <<household, rows, groups, measured, removing, slipped>>
  BY DEF DropGroup
<1>2. DOMAIN rules' = DOMAIN rules /\ rules' = [r \in DOMAIN rules |-> rules'[r]]
  BY <1>1
<1>3. ASSUME NEW r \in DOMAIN rules
      PROVE  rules'[r] \in Targets /\ rules'[r].shutters = rules[r].shutters
  <2>1. rules[r] \in Targets /\ rules'[r] = [rules[r] EXCEPT !.groups = rules[r].groups \ {g}]
    BY <1>1, RuleFields DEF IInv
  <2>2. QED
    BY <2>1 DEF Targets
<1>4. IsTable(rules', Rules, Targets)
  BY <1>2, <1>3 DEF IInv, TypeOK, IsTable
<1>5. TypeOK'
  BY <1>1, <1>4 DEF IInv, TypeOK
<1>6. Named' /\ Cut'
  BY <1>1, <1>2, <1>3 DEF IInv, Named, Cut
<1>7. QED
  BY <1>1, <1>5, <1>6 DEF IInv, Rowed, GroupsAreAList

LEMMA SaveRuleKeeps ==
  ASSUME IInv, up, NEW r \in Rules, NEW shutters, NEW named, SaveRule(r, shutters, named),
         UNCHANGED up
  PROVE  IInv'
<1> DEFINE x == [shutters |-> shutters, groups |-> named]
<1>1. /\ shutters \subseteq household /\ named \subseteq DOMAIN groups
      /\ rules' = Put(rules, r, x) /\ slipped' = Slips(r, shutters)
      /\ UNCHANGED <<household, rows, groups, measured, removing, dropping>>
  BY DEF SaveRule
<1>2. household = rows /\ rows \subseteq Shutters /\ DOMAIN groups \subseteq Groups
      /\ Groups \cap Rules = {}
  BY HouseholdAssumption DEF IInv, TypeOK, IsTable, Rowed, HouseholdAssumption
<1>3. x \in Targets /\ x.shutters = shutters
  BY <1>1, <1>2 DEF Targets
<1> HIDE DEF x
<1>4. /\ DOMAIN rules' = DOMAIN rules \cup {r} /\ rules'[r] = x
      /\ \A h \in DOMAIN rules \ {r} : rules'[h] = rules[h]
  BY <1>1 DEF Put
<1>5. IsTable(rules', Rules, Targets)
  BY <1>1, <1>3 DEF IInv, TypeOK, IsTable, Put
<1>6. /\ slipped' \subseteq (Groups \cup Rules) \X Shutters
      /\ \A s \in shutters \cap DOMAIN removing : <<r, s>> \in slipped'
      /\ \A other, s : other # r /\ <<other, s>> \in slipped => <<other, s>> \in slipped'
  BY <1>1, <1>2, SlipsType DEF IInv
<1>7. TypeOK'
  BY <1>1, <1>5, <1>6 DEF IInv, TypeOK
<1>8. Named'
  BY <1>1, <1>2, <1>3, <1>4, <1>6 DEF IInv, Named
<1>9. Cut'
  BY <1>1, <1>2, <1>3, <1>4, <1>6 DEF IInv, Cut
<1>10. QED
  BY <1>1, <1>7, <1>8, <1>9 DEF IInv, Rowed, GroupsAreAList

LEMMA DeleteRuleKeeps ==
  ASSUME IInv, up, NEW r \in Rules, DeleteRule(r), UNCHANGED up
  PROVE  IInv'
<1>1. /\ rules' = Drop(rules, r) /\ slipped' = Slips(r, {})
      /\ UNCHANGED <<household, rows, groups, measured, removing, dropping>>
  BY DEF DeleteRule
<1>2. DOMAIN groups \subseteq Groups /\ Groups \cap Rules = {}
  BY HouseholdAssumption DEF IInv, TypeOK, IsTable, HouseholdAssumption
<1>3. /\ DOMAIN rules' = DOMAIN rules \ {r}
      /\ \A h \in DOMAIN rules' : rules'[h] = rules[h]
      /\ IsTable(rules', Rules, Targets)
  BY <1>1 DEF Drop, IInv, TypeOK, IsTable
<1>4. /\ slipped' \subseteq (Groups \cup Rules) \X Shutters
      /\ \A other, s : other # r /\ <<other, s>> \in slipped => <<other, s>> \in slipped'
  BY <1>1, SlipsType DEF IInv
<1>5. TypeOK'
  BY <1>1, <1>3, <1>4 DEF IInv, TypeOK
<1>6. Named' /\ Cut'
  BY <1>1, <1>2, <1>3, <1>4 DEF IInv, Named, Cut
<1>7. QED
  BY <1>1, <1>5, <1>6 DEF IInv, Rowed, GroupsAreAList

-----------------------------------------------------------------------------
(* Shutters.                                                               *)

LEMMA AddKeeps ==
  ASSUME IInv, up, NEW s \in Shutters, Add(s), UNCHANGED up
  PROVE  IInv'
<1>1. /\ household' = household \cup {s} /\ rows' = rows \cup {s}
      /\ UNCHANGED <<groups, rules, measured, removing, dropping, slipped>>
  BY DEF Add, tables
<1>2. TypeOK'
  BY <1>1 DEF IInv, TypeOK, IsTable
<1>3. Rowed' /\ Named' /\ Cut' /\ GroupsAreAList'
  BY <1>1 DEF IInv, Rowed, Named, Cut, GroupsAreAList
<1>4. QED
  BY <1>2, <1>3 DEF IInv

LEMMA MeasureKeeps ==
  ASSUME IInv, up, NEW s \in Shutters, Measure(s), UNCHANGED up
  PROVE  IInv'
<1>1. /\ s \in household /\ measured' = measured \cup {s}
      /\ UNCHANGED <<household, rows, groups, rules, removing, dropping, slipped>>
  BY DEF Measure
<1>2. TypeOK' /\ Rowed'
  BY <1>1 DEF IInv, TypeOK, IsTable, Rowed
<1>3. Named' /\ Cut' /\ GroupsAreAList'
  BY <1>1 DEF IInv, Named, Cut, GroupsAreAList
<1>4. QED
  BY <1>2, <1>3 DEF IInv

\* prune() takes members and nothing else.
LEMMA PrunedKeeps ==
  ASSUME IInv, NEW configured, groups' = Pruned(configured)
  PROVE  /\ IsTable(groups', Groups, Group) /\ DOMAIN groups' = DOMAIN groups
         /\ \A g \in DOMAIN groups :
              /\ groups'[g].members = groups[g].members \cap configured
              /\ groups'[g].name = groups[g].name
              /\ groups'[g].position = groups[g].position
<1>1. /\ groups' = [g \in DOMAIN groups |->
                      [groups[g] EXCEPT !.members = groups[g].members \cap configured]]
      /\ DOMAIN groups' = DOMAIN groups
      /\ groups' = [g \in DOMAIN groups |-> groups'[g]]
  BY DEF Pruned
<1>2. ASSUME NEW g \in DOMAIN groups
      PROVE  /\ groups'[g] \in Group
             /\ groups'[g].members = groups[g].members \cap configured
             /\ groups'[g].name = groups[g].name
             /\ groups'[g].position = groups[g].position
  <2>1. /\ groups[g] \in Group
        /\ groups'[g] = [groups[g] EXCEPT !.members = groups[g].members \cap configured]
    BY <1>1, GroupFields DEF IInv
  <2>2. QED
    BY <2>1 DEF Group
<1>3. QED
  BY <1>1, <1>2 DEF IInv, TypeOK, IsTable

\* remove_shutter() takes the shutter from the rules it came to.
LEMMA WithoutKeeps ==
  ASSUME IInv, NEW s, NEW some, rules' = Without(s, some)
  PROVE  /\ IsTable(rules', Rules, Targets) /\ DOMAIN rules' = DOMAIN rules
         /\ \A r \in DOMAIN rules :
              /\ rules'[r].shutters \subseteq rules[r].shutters
              /\ r \in some => s \notin rules'[r].shutters
<1>1. /\ rules' = [r \in DOMAIN rules |->
                     IF r \in some THEN [rules[r] EXCEPT !.shutters = rules[r].shutters \ {s}]
                     ELSE rules[r]]
      /\ DOMAIN rules' = DOMAIN rules
      /\ rules' = [r \in DOMAIN rules |-> rules'[r]]
  BY DEF Without
<1>2. ASSUME NEW r \in DOMAIN rules
      PROVE  /\ rules'[r] \in Targets
             /\ rules'[r].shutters \subseteq rules[r].shutters
             /\ r \in some => s \notin rules'[r].shutters
  <2>1. rules[r] \in Targets
    BY RuleFields DEF IInv
  <2>2. CASE r \in some
    <3>1. rules'[r] = [rules[r] EXCEPT !.shutters = rules[r].shutters \ {s}]
      BY <1>1, <2>2
    <3>2. QED
      BY <2>1, <3>1 DEF Targets
  <2>3. CASE r \notin some
    BY <1>1, <2>1, <2>3
  <2>4. QED
    BY <2>2, <2>3
<1>3. QED
  BY <1>1, <1>2 DEF IInv, TypeOK, IsTable

\* A removal is nowhere but before, between and behind its awaits.
LEMMA DoneType ==
  ASSUME IInv, NEW s
  PROVE  DoneOf(s) \in {0, 1, 2} /\ (DoneOf(s) # 0 => s \in DOMAIN removing /\ removing[s] = DoneOf(s))
BY DEF DoneOf, IInv, TypeOK, IsTable

\* What the parts of a removal leave behind, as far as they were committed.
LEMMA PartsCommitted ==
  ASSUME IInv, up, NEW s \in household, NEW upto \in Parts, NEW some,
         upto >= DoneOf(s), upto >= 3 => some = Naming(s),
         CommitParts(s, DoneOf(s), upto, some)
  PROVE  /\ IsTable(groups', Groups, Group) /\ DOMAIN groups' = DOMAIN groups
         /\ \A g \in DOMAIN groups :
              /\ groups'[g].members \subseteq groups[g].members
              /\ groups'[g].name = groups[g].name
              /\ groups'[g].position = groups[g].position
              /\ upto >= 1 /\ s \in groups'[g].members => <<g, s>> \in slipped
         /\ IsTable(rules', Rules, Targets) /\ DOMAIN rules' = DOMAIN rules
         /\ \A r \in DOMAIN rules :
              /\ rules'[r].shutters \subseteq rules[r].shutters
              /\ upto >= 2 /\ some = Naming(s) /\ s \in rules'[r].shutters
                   => <<r, s>> \in slipped
         /\ measured' \subseteq measured /\ (upto >= 3 => s \notin measured')
         /\ rows' = IF upto = 4 THEN rows \ {s} ELSE rows
<1>1. /\ groups' = IF DoneOf(s) < 1 /\ upto >= 1 THEN Pruned(household \ {s}) ELSE groups
      /\ rules' = IF DoneOf(s) < 2 /\ upto >= 2 THEN Without(s, some) ELSE rules
      /\ measured' = IF DoneOf(s) < 3 /\ upto >= 3 THEN measured \ {s} ELSE measured
      /\ rows' = IF upto = 4 THEN rows \ {s} ELSE rows
  BY DEF CommitParts
<1>2. /\ DoneOf(s) \in {0, 1, 2}
      /\ DoneOf(s) # 0 => s \in DOMAIN removing /\ removing[s] = DoneOf(s)
  BY DoneType
<1>3. upto \in 0..4
  BY DEF Parts
<1>4. /\ IsTable(groups', Groups, Group) /\ DOMAIN groups' = DOMAIN groups
      /\ \A g \in DOMAIN groups :
           /\ groups'[g].members \subseteq groups[g].members
           /\ groups'[g].name = groups[g].name
           /\ groups'[g].position = groups[g].position
           /\ upto >= 1 /\ s \in groups'[g].members => <<g, s>> \in slipped
  <2>1. CASE DoneOf(s) < 1 /\ upto >= 1
    <3>1. groups' = Pruned(household \ {s})
      BY <1>1, <2>1
    <3>2. /\ IsTable(groups', Groups, Group) /\ DOMAIN groups' = DOMAIN groups
          /\ \A g \in DOMAIN groups :
               /\ groups'[g].members = groups[g].members \cap (household \ {s})
               /\ groups'[g].name = groups[g].name
               /\ groups'[g].position = groups[g].position
      BY <3>1, PrunedKeeps
    <3>3. QED
      BY <3>2
  <2>2. CASE ~(DoneOf(s) < 1 /\ upto >= 1)
    <3>1. groups' = groups
      BY <1>1, <2>2
    <3>2. upto >= 1 => s \in DOMAIN removing
      BY <1>2, <1>3, <2>2
    <3>3. QED
      BY <3>1, <3>2 DEF IInv, TypeOK, Cut
  <2>3. QED
    BY <2>1, <2>2
<1>5. /\ IsTable(rules', Rules, Targets) /\ DOMAIN rules' = DOMAIN rules
      /\ \A r \in DOMAIN rules :
           /\ rules'[r].shutters \subseteq rules[r].shutters
           /\ upto >= 2 /\ some = Naming(s) /\ s \in rules'[r].shutters
                => <<r, s>> \in slipped
  <2>1. CASE DoneOf(s) < 2 /\ upto >= 2
    <3>1. /\ IsTable(rules', Rules, Targets) /\ DOMAIN rules' = DOMAIN rules
          /\ \A r \in DOMAIN rules :
               /\ rules'[r].shutters \subseteq rules[r].shutters
               /\ r \in some => s \notin rules'[r].shutters
      BY <1>1, <2>1, WithoutKeeps
    <3>2. some = Naming(s) => \A r \in DOMAIN rules : s \in rules[r].shutters => r \in some
      BY DEF Naming
    <3>3. QED
      BY <3>1, <3>2
  <2>2. CASE ~(DoneOf(s) < 2 /\ upto >= 2)
    <3>1. rules' = rules
      BY <1>1, <2>2
    <3>2. upto >= 2 => s \in DOMAIN removing /\ removing[s] = 2
      BY <1>2, <1>3, <2>2
    <3>3. QED
      BY <3>1, <3>2 DEF IInv, TypeOK, Cut
  <2>3. QED
    BY <2>1, <2>2
<1>6. measured' \subseteq measured /\ (upto >= 3 => s \notin measured')
  BY <1>1, <1>2
<1>7. QED
  BY <1>1, <1>4, <1>5, <1>6

LEMMA RemoveOnKeeps ==
  ASSUME IInv, up, NEW s \in Shutters, RemoveOn(s), UNCHANGED up
  PROVE  IInv'
<1> DEFINE upto == NextAwait(s, DoneOf(s))
<1>1. /\ s \in household
      /\ CommitParts(s, DoneOf(s), upto, Naming(s))
      /\ household' = IF upto = 4 THEN household \ {s} ELSE household
      /\ removing' = IF upto = 4 THEN Drop(removing, s) ELSE Put(removing, s, upto)
      /\ UNCHANGED <<dropping, slipped>>
  BY DEF RemoveOn, IInv, TypeOK, IsTable
<1>2. upto \in {1, 2, 4} /\ upto >= DoneOf(s) /\ upto \in Parts
  BY DoneType DEF NextAwait, Parts
<1> HIDE DEF upto
<1>3. /\ IsTable(groups', Groups, Group) /\ DOMAIN groups' = DOMAIN groups
      /\ \A g \in DOMAIN groups :
           /\ groups'[g].members \subseteq groups[g].members
           /\ groups'[g].name = groups[g].name
           /\ groups'[g].position = groups[g].position
           /\ s \in groups'[g].members => <<g, s>> \in slipped
      /\ IsTable(rules', Rules, Targets) /\ DOMAIN rules' = DOMAIN rules
      /\ \A r \in DOMAIN rules :
           /\ rules'[r].shutters \subseteq rules[r].shutters
           /\ upto >= 2 /\ s \in rules'[r].shutters => <<r, s>> \in slipped
      /\ measured' \subseteq measured /\ (upto >= 3 => s \notin measured')
      /\ rows' = IF upto = 4 THEN rows \ {s} ELSE rows
  BY <1>1, <1>2, PartsCommitted
<1>4. /\ IsTable(removing', household', {1, 2})
      /\ DOMAIN removing' \subseteq DOMAIN removing \cup {s}
      /\ \A t \in DOMAIN removing' \ {s} : removing'[t] = removing[t]
      /\ s \in DOMAIN removing' => removing'[s] = upto
  <2>1. CASE upto = 4
    <3>1. removing' = Drop(removing, s) /\ household' = household \ {s}
      BY <1>1, <2>1
    <3>2. QED
      BY <3>1 DEF Drop, IInv, TypeOK, IsTable
  <2>2. CASE upto # 4
    <3>1. removing' = Put(removing, s, upto) /\ household' = household /\ upto \in {1, 2}
      BY <1>1, <1>2, <2>2
    <3>2. QED
      BY <1>1, <3>1 DEF Put, IInv, TypeOK, IsTable
  <2>3. QED
    BY <2>1, <2>2
<1>5. TypeOK' /\ Rowed'
  <2>1. household' \subseteq rows' /\ rows' \subseteq Shutters
    BY <1>1, <1>3 DEF IInv, TypeOK
  <2>2. Rowed'
    BY <1>1, <1>3 DEF IInv, Rowed
  <2>3. QED
    BY <1>1, <1>3, <1>4, <2>1, <2>2 DEF IInv, TypeOK
<1>6. Named'
  <2>1. ASSUME NEW g \in DOMAIN groups', NEW t \in groups'[g].members
        PROVE  t \in rows' \/ <<g, t>> \in slipped'
    BY <1>1, <1>3, <2>1 DEF IInv, Named
  <2>2. ASSUME NEW r \in DOMAIN rules', NEW t \in rules'[r].shutters
        PROVE  t \in rows' \/ <<r, t>> \in slipped'
    <3>1. r \in DOMAIN rules /\ t \in rules[r].shutters
      BY <1>3, <2>2
    <3>2. t \in rows \/ <<r, t>> \in slipped
      BY <3>1 DEF IInv, Named
    <3>3. CASE t = s /\ upto = 4
      BY <1>1, <1>3, <2>2, <3>1, <3>3
    <3>4. CASE ~(t = s /\ upto = 4)
      BY <1>1, <1>3, <3>2, <3>4
    <3>5. QED
      BY <3>3, <3>4
  <2>3. QED
    BY <2>1, <2>2 DEF Named
<1>7. Cut'
  <2>1. ASSUME NEW t \in DOMAIN removing', NEW g \in DOMAIN groups', t \in groups'[g].members
        PROVE  <<g, t>> \in slipped'
    BY <1>1, <1>3, <1>4, <2>1 DEF IInv, Cut
  <2>2. ASSUME NEW t \in DOMAIN removing', removing'[t] = 2,
               NEW r \in DOMAIN rules', t \in rules'[r].shutters
        PROVE  <<r, t>> \in slipped'
    <3>1. r \in DOMAIN rules /\ t \in rules[r].shutters
      BY <1>3, <2>2
    <3>2. CASE t = s
      BY <1>1, <1>3, <1>4, <2>2, <3>1, <3>2
    <3>3. CASE t # s
      <4>1. t \in DOMAIN removing /\ removing[t] = 2
        BY <1>4, <2>2, <3>3
      <4>2. QED
        BY <1>1, <3>1, <4>1 DEF IInv, Cut
    <3>4. QED
      BY <3>2, <3>3
  <2>3. QED
    BY <2>1, <2>2 DEF Cut
<1>8. GroupsAreAList'
  BY <1>3 DEF IInv, GroupsAreAList
<1>9. QED
  BY <1>5, <1>6, <1>7, <1>8 DEF IInv

LEMMA CrashKeeps ==
  ASSUME IInv, NEW s \in Shutters, NEW upto \in Parts, NEW some, Crash(s, upto, some)
  PROVE  IInv'
<1>1. /\ up /\ s \in household /\ ~up'
      /\ upto >= DoneOf(s) /\ (upto >= 3 => some = Naming(s))
      /\ CommitParts(s, DoneOf(s), upto, some)
      /\ household' = {} /\ removing' = EmptyTable /\ dropping' = {} /\ slipped' = slipped
      /\ up' = FALSE
  BY DEF Crash, IInv, TypeOK, IsTable
<1>2. /\ IsTable(groups', Groups, Group) /\ DOMAIN groups' = DOMAIN groups
      /\ \A g \in DOMAIN groups :
           /\ groups'[g].name = groups[g].name
           /\ groups'[g].position = groups[g].position
      /\ IsTable(rules', Rules, Targets) /\ DOMAIN rules' = DOMAIN rules
      /\ \A r \in DOMAIN rules :
           /\ rules'[r].shutters \subseteq rules[r].shutters
           /\ upto >= 3 /\ s \in rules'[r].shutters => <<r, s>> \in slipped
      /\ measured' \subseteq measured /\ (upto >= 3 => s \notin measured')
      /\ rows' = IF upto = 4 THEN rows \ {s} ELSE rows
  <2>1. /\ IsTable(groups', Groups, Group) /\ DOMAIN groups' = DOMAIN groups
        /\ \A g \in DOMAIN groups :
             /\ groups'[g].members \subseteq groups[g].members
             /\ groups'[g].name = groups[g].name
             /\ groups'[g].position = groups[g].position
             /\ upto >= 1 /\ s \in groups'[g].members => <<g, s>> \in slipped
        /\ IsTable(rules', Rules, Targets) /\ DOMAIN rules' = DOMAIN rules
        /\ \A r \in DOMAIN rules :
             /\ rules'[r].shutters \subseteq rules[r].shutters
             /\ upto >= 2 /\ some = Naming(s) /\ s \in rules'[r].shutters
                  => <<r, s>> \in slipped
        /\ measured' \subseteq measured /\ (upto >= 3 => s \notin measured')
        /\ rows' = IF upto = 4 THEN rows \ {s} ELSE rows
    BY <1>1, PartsCommitted
  <2>2. upto \in 0..4
    BY DEF Parts
  <2>3. upto >= 3 => upto >= 2 /\ some = Naming(s)
    BY <1>1, <2>2
  <2>4. QED
    BY <2>1, <2>3
<1>3. IsTable(removing', household', {1, 2}) /\ DOMAIN removing' = {}
  BY <1>1 DEF EmptyTable, IsTable
<1>4. TypeOK' /\ Rowed'
  <2>1. rows' \subseteq rows /\ measured' \subseteq rows'
    <3>1. CASE upto = 4
      BY <1>2, <3>1 DEF IInv, Rowed
    <3>2. CASE upto # 4
      BY <1>2, <3>2 DEF IInv, Rowed
    <3>3. QED
      BY <3>1, <3>2
  <2>2. TypeOK'
    BY <1>1, <1>2, <1>3, <2>1 DEF IInv, TypeOK
  <2>3. QED
    BY <1>1, <2>1, <2>2 DEF Rowed
<1>5. Named'
  <2>1. ASSUME NEW r \in DOMAIN rules', NEW t \in rules'[r].shutters
        PROVE  t \in rows' \/ <<r, t>> \in slipped'
    <3>1. r \in DOMAIN rules /\ t \in rules[r].shutters
      BY <1>2, <2>1
    <3>2. t \in rows \/ <<r, t>> \in slipped
      BY <3>1 DEF IInv, Named
    <3>3. CASE t = s /\ upto = 4
      BY <1>1, <1>2, <2>1, <3>1, <3>3
    <3>4. CASE ~(t = s /\ upto = 4)
      BY <1>1, <1>2, <3>2, <3>4
    <3>5. QED
      BY <3>3, <3>4
  <2>2. QED
    BY <1>1, <2>1 DEF Named
<1>6. Cut' /\ GroupsAreAList'
  BY <1>2, <1>3 DEF IInv, Cut, GroupsAreAList
<1>7. QED
  BY <1>4, <1>5, <1>6 DEF IInv

\* The next start knows only its rows, and heals the groups.
LEMMA BootKeeps ==
  ASSUME IInv, Boot
  PROVE  IInv'
<1>1. /\ ~up /\ up' = TRUE /\ household' = rows /\ groups' = Pruned(rows)
      /\ slipped' = {p \in slipped : p[1] \in Rules}
      /\ UNCHANGED <<rows, rules, measured, removing, dropping>>
  BY DEF Boot
<1>2. /\ IsTable(groups', Groups, Group) /\ DOMAIN groups' = DOMAIN groups
      /\ \A g \in DOMAIN groups :
           /\ groups'[g].members = groups[g].members \cap rows
           /\ groups'[g].name = groups[g].name
           /\ groups'[g].position = groups[g].position
  BY <1>1, PrunedKeeps
<1>3. DOMAIN removing = {} /\ IsTable(removing', household', {1, 2})
  BY <1>1 DEF IInv, TypeOK, Rowed, IsTable
<1>4. TypeOK' /\ Rowed'
  BY <1>1, <1>2, <1>3 DEF IInv, TypeOK, Rowed
<1>5. Named'
  <2>1. ASSUME NEW r \in DOMAIN rules', NEW t \in rules'[r].shutters
        PROVE  t \in rows' \/ <<r, t>> \in slipped'
    BY <1>1, <2>1 DEF IInv, TypeOK, IsTable, Named
  <2>2. QED
    BY <1>1, <1>2, <2>1 DEF Named
<1>6. Cut' /\ GroupsAreAList'
  BY <1>1, <1>2, <1>3 DEF IInv, Cut, GroupsAreAList
<1>7. QED
  BY <1>4, <1>5, <1>6 DEF IInv

-----------------------------------------------------------------------------

LEMMA InitKeeps == Init => IInv
BY DEF Init, IInv, TypeOK, IsTable, EmptyTable, Rowed, Named, Cut, GroupsAreAList

LEMMA NextKeeps ==
  ASSUME IInv, [Next]_vars
  PROVE  IInv'
<1>1. CASE up /\ Saving /\ UNCHANGED up
  BY <1>1, CreateGroupKeeps, ReplaceGroupKeeps, ReorderKeeps, DeleteGroupKeeps,
     DropGroupKeeps, SaveRuleKeeps, DeleteRuleKeeps, AddKeeps, MeasureKeeps, RemoveOnKeeps
  DEF Saving
<1>2. CASE \E s \in Shutters, upto \in Parts, some \in SUBSET Rules : Crash(s, upto, some)
  BY <1>2, CrashKeeps
<1>3. CASE Boot
  BY <1>3, BootKeeps
<1>4. CASE UNCHANGED vars
  BY <1>4 DEF vars, tables, IInv, TypeOK, Rowed, Named, Cut, GroupsAreAList
<1>5. QED
  BY <1>1, <1>2, <1>3, <1>4 DEF Next

LEMMA Invariance == Spec => []IInv
<1>1. Init => IInv
  BY InitKeeps
<1>2. IInv /\ [Next]_vars => IInv'
  BY NextKeeps
<1>3. QED
  BY <1>1, <1>2, PTL DEF Spec

\* Groups, rules, measurements and removals are what they should be, however
\* often shutters come and go.
THEOREM TypeCorrect == Spec => []TypeOK
<1>1. IInv => TypeOK
  BY DEF IInv
<1>2. QED
  BY <1>1, Invariance, PTL

\* Wherever remove() awaits, is interleaved with a request or is cut short by the
\* end of the process, whoever is named is in the household or was saved meanwhile.
THEOREM NobodyGone == Spec => []NobodyGoneIsNamed
<1>1. IInv => NobodyGoneIsNamed
  BY DEF IInv, Rowed, Named, NobodyGoneIsNamed
<1>2. QED
  BY <1>1, Invariance, PTL

\* No mixture of creating, replacing, deleting and reordering gives two groups one
\* place or one name.
THEOREM GroupsStayAList == Spec => []GroupsAreAList
<1>1. IInv => GroupsAreAList
  BY DEF IInv
<1>2. QED
  BY <1>1, Invariance, PTL
=============================================================================
