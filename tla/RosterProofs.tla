---------------------------- MODULE RosterProofs ----------------------------
(***************************************************************************)
(* Of any number of remotes and names, whatever the broker delivers and    *)
(* whenever the file is edited: two shutters never share a remote, memory  *)
(* is what the next start would read, a mark is taken back by the next     *)
(* announcement, and who is offline decides nothing.                       *)
(***************************************************************************)
EXTENDS Roster, FiniteSetTheorems, FunctionTheorems, NaturalsInduction, TLAPS

\* The file, and behind it a row of its own for everybody else.
Rowed ==
  /\ \A i \in DOMAIN file : i \in DOMAIN household /\ household[i] = file[i]
  /\ \A i \in DOMAIN household \ DOMAIN file :
       /\ household[i].address \in DOMAIN rows
       /\ household[i].address \notin AddressesOf(file)
       /\ rows[household[i].address].state = "active"
       /\ rows[household[i].address].id = i
       /\ rows[household[i].address].name = household[i].name
  /\ \A a \in DOMAIN rows :
       rows[a].state = "active" /\ rows[a].id \notin DOMAIN file /\ a \notin AddressesOf(file)
         => rows[a].id \in DOMAIN household /\ household[rows[a].id].address = a
  /\ \A a, b \in DOMAIN rows : rows[a].id = rows[b].id => a = b

\* An announcement that is still to be handled.
Waiting(a) == \E n \in DOMAIN inbox : inbox[n] = [address |-> a, kind |-> "live"]

\* A window is open only while the bridge is there, and misses nobody.
Windowed ==
  open => Connected /\ \A a \in said : a \in live \/ Waiting(a)

\* Who left while announced has a row aside.
Aside ==
  \A a \in DOMAIN left :
    left[a] = "announced" => a \in DOMAIN rows /\ rows[a].state = "set_aside"

IInv ==
  TypeOK /\ OneEntryPerAddress /\ Rowed /\ Windowed /\ MarksAreTakenBack /\ Aside

LEMMA RowFields ==
  ASSUME TypeOK, NEW a \in DOMAIN rows
  PROVE  /\ a \in Addresses /\ rows[a] \in Row
         /\ rows[a].id \in Ids /\ rows[a].name \in Names
         /\ rows[a].state \in {"active", "set_aside"}
BY DEF TypeOK, IsTable, Row

LEMMA EntryFields ==
  ASSUME TypeOK, NEW i \in DOMAIN household
  PROVE  /\ i \in Ids /\ household[i] \in Entry
         /\ household[i].address \in Addresses /\ household[i].name \in Names
BY DEF TypeOK, IsTable, Entry

LEMMA FileFields ==
  ASSUME NEW f \in Files
  PROVE  /\ IsTable(f, Ids, Entry)
         /\ \A i, j \in DOMAIN f : f[i].address = f[j].address => i = j
         /\ \A i \in DOMAIN f : f[i].address \in Addresses
BY RosterAssumption DEF RosterAssumption, IsTable, Entry

-----------------------------------------------------------------------------
(* Names and ids.                                                          *)

LEMMA LeastNatural ==
  ASSUME NEW S \in SUBSET Nat, S # {}
  PROVE  \E x \in S : \A y \in S : x <= y
<1>1. \E x \in S : \A y \in S : ~ (<<y, x>> \in OpToRel(<, Nat))
  BY NatLessThanWellFounded, WFMin
<1>2. PICK x \in S : \A y \in S : ~(y < x)
  BY <1>1 DEF OpToRel
<1>3. QED
  BY <1>2

\* There are fewer ids in use than there are numbers to try.
LEMMA FewIds ==
  ASSUME TypeOK, OneEntryPerAddress
  PROVE  LET taken == DOMAIN household \cup {rows[a].id : a \in DOMAIN rows}
         IN  /\ IsFiniteSet(taken) /\ Cardinality(taken) \in Nat
             /\ Cardinality(Addresses) \in Nat
             /\ Cardinality(taken) <= 2 * Cardinality(Addresses)
<1> DEFINE f == [i \in DOMAIN household |-> household[i].address]
           g == [a \in DOMAIN rows |-> rows[a].id]
           ids == {rows[a].id : a \in DOMAIN rows}
<1>1. IsFiniteSet(Addresses) /\ Cardinality(Addresses) \in Nat
  BY RosterAssumption, FS_CardinalityType DEF RosterAssumption
<1>2. /\ IsFiniteSet(DOMAIN household)
      /\ Cardinality(DOMAIN household) <= Cardinality(Addresses)
  <2>1. f \in [DOMAIN household -> Addresses]
    BY EntryFields
  <2>2. \A i, j \in DOMAIN household : f[i] = f[j] => i = j
    BY DEF OneEntryPerAddress
  <2> HIDE DEF f
  <2>3. f \in Injection(DOMAIN household, Addresses)
    BY <2>1, <2>2, Fun_IsInj
  <2>4. QED
    BY <1>1, <2>3, FS_Injection
<1>3. IsFiniteSet(DOMAIN rows) /\ Cardinality(DOMAIN rows) <= Cardinality(Addresses)
  BY <1>1, FS_Subset DEF TypeOK, IsTable
<1>4. IsFiniteSet(ids) /\ Cardinality(ids) <= Cardinality(DOMAIN rows)
  <2>1. g \in Surjection(DOMAIN rows, ids)
    <3>1. g \in [DOMAIN rows -> ids] /\ \A y \in ids : \E a \in DOMAIN rows : g[a] = y
      OBVIOUS
    <3> HIDE DEF g, ids
    <3>2. QED
      BY <3>1, Fun_IsSurj
  <2> HIDE DEF g, ids
  <2>2. QED
    BY <1>3, <2>1, FS_Surjection
<1> HIDE DEF f, g, ids
<1>5. IsFiniteSet(DOMAIN household \cup ids)
      /\ Cardinality(DOMAIN household \cup ids)
           = Cardinality(DOMAIN household) + Cardinality(ids)
             - Cardinality(DOMAIN household \cap ids)
  BY <1>2, <1>4, FS_Union
<1>6. IsFiniteSet(DOMAIN household \cap ids)
  BY <1>2, FS_Subset
<1>7. /\ Cardinality(DOMAIN household) \in Nat /\ Cardinality(ids) \in Nat
      /\ Cardinality(DOMAIN rows) \in Nat
      /\ Cardinality(DOMAIN household \cap ids) \in Nat
      /\ Cardinality(DOMAIN household \cup ids) \in Nat
  BY <1>2, <1>3, <1>4, <1>5, <1>6, FS_CardinalityType
<1>8. Cardinality(DOMAIN household \cup ids) <= 2 * Cardinality(Addresses)
  BY <1>1, <1>2, <1>3, <1>4, <1>5, <1>7
<1>9. QED
  BY <1>1, <1>5, <1>7, <1>8 DEF ids

\* slug() finds an id that nobody has.
LEMMA SlugIsFree ==
  ASSUME TypeOK, OneEntryPerAddress, NEW name \in Names
  PROVE  /\ Slug(name) \in Ids /\ Slug(name) \notin DOMAIN household
         /\ \A a \in DOMAIN rows : rows[a].id # Slug(name)
<1> DEFINE taken == DOMAIN household \cup {rows[a].id : a \in DOMAIN rows}
           most == 2 * Cardinality(Addresses) + 1
           free == {n \in 1..most : <<name, n>> \notin taken}
           f == [n \in 1..most |-> <<name, n>>]
<1>1. /\ IsFiniteSet(taken) /\ Cardinality(taken) \in Nat
      /\ Cardinality(Addresses) \in Nat
      /\ Cardinality(taken) <= 2 * Cardinality(Addresses)
  BY FewIds
<1>2. most \in Nat /\ Cardinality(taken) < most
  BY <1>1
<1>3. free # {}
  <2> SUFFICES ASSUME free = {} PROVE FALSE
    OBVIOUS
  <2>1. f \in [1..most -> taken]
    OBVIOUS
  <2>2. \A m, n \in 1..most : f[m] = f[n] => m = n
    OBVIOUS
  <2> HIDE DEF f, most, taken
  <2>3. f \in Injection(1..most, taken)
    BY <2>1, <2>2, Fun_IsInj
  <2>4. Cardinality(1..most) <= Cardinality(taken)
    BY <1>1, <2>3, FS_Injection
  <2>5. Cardinality(1..most) = most
    <3>1. 1 \in Int /\ most \in Int
      BY <1>2
    <3>2. Cardinality(1..most) = IF 1 > most THEN 0 ELSE most - 1 + 1
      BY <3>1, FS_Interval
    <3>3. QED
      BY <1>1, <1>2, <3>2
  <2>6. QED
    BY <1>1, <1>2, <2>4, <2>5
<1>4. \E n \in free : \A m \in free : n <= m
  <2>1. free \in SUBSET Nat
    OBVIOUS
  <2> HIDE DEF free
  <2>2. QED
    BY <1>3, <2>1, LeastNatural
<1>5. PICK n \in free : Slug(name) = <<name, n>>
  <2>1. (CHOOSE n \in free : \A m \in free : n <= m) \in free
    BY <1>4
  <2>2. Slug(name) = <<name, CHOOSE n \in free : \A m \in free : n <= m>>
    BY DEF Slug
  <2>3. QED
    BY <2>1, <2>2
<1>6. QED
  BY <1>5 DEF Ids

-----------------------------------------------------------------------------
(* The household.                                                          *)

\* _build() of any file: every entry of it, and every confirmed row besides.
LEMMA BuiltIs ==
  ASSUME TypeOK, Rowed, NEW f \in Files
  PROVE  LET mine == {a \in DOMAIN rows : /\ rows[a].state = "active"
                                          /\ rows[a].id \notin DOMAIN f
                                          /\ a \notin AddressesOf(f)}
         IN  /\ DOMAIN Built(f) = DOMAIN f \cup {rows[a].id : a \in mine}
             /\ \A i \in DOMAIN f : Built(f)[i] = f[i]
             /\ \A a \in mine :
                  Built(f)[rows[a].id] = [address |-> a, name |-> rows[a].name]
             /\ IsTable(Built(f), Ids, Entry)
<1> DEFINE mine == {a \in DOMAIN rows : /\ rows[a].state = "active"
                                        /\ rows[a].id \notin DOMAIN f
                                        /\ a \notin AddressesOf(f)}
           entry(i) == IF i \in DOMAIN f THEN f[i]
                       ELSE LET a == CHOOSE a \in mine : rows[a].id = i
                            IN  [address |-> a, name |-> rows[a].name]
           all == DOMAIN f \cup {rows[a].id : a \in mine}
<1>1. Built(f) = [i \in all |-> entry(i)]
  BY DEF Built
<1>2. ASSUME NEW a \in mine
      PROVE  entry(rows[a].id) = [address |-> a, name |-> rows[a].name]
  <2>1. (CHOOSE b \in mine : rows[b].id = rows[a].id) = a
    BY DEF Rowed
  <2>2. QED
    BY <2>1
<1>3. \A i \in all : entry(i) \in Entry /\ i \in Ids
  <2>1. ASSUME NEW i \in DOMAIN f PROVE entry(i) \in Entry /\ i \in Ids
    BY FileFields DEF IsTable
  <2>2. ASSUME NEW a \in mine PROVE entry(rows[a].id) \in Entry /\ rows[a].id \in Ids
    BY <1>2, RowFields DEF Entry
  <2>3. QED
    BY <2>1, <2>2
<1>4. \A i \in DOMAIN f : entry(i) = f[i]
  OBVIOUS
<1> HIDE DEF entry
<1>5. DOMAIN Built(f) = all
  BY <1>1
<1>6. \A i \in DOMAIN f : Built(f)[i] = f[i]
  BY <1>1, <1>4
<1>7. \A a \in mine : Built(f)[rows[a].id] = [address |-> a, name |-> rows[a].name]
  BY <1>1, <1>2
<1>8. IsTable(Built(f), Ids, Entry)
  BY <1>1, <1>3 DEF IsTable
<1>9. QED
  BY <1>5, <1>6, <1>7, <1>8

\* What Rowed and OneEntryPerAddress say is what _build() makes.
LEMMA HouseholdIsBuilt ==
  ASSUME IInv
  PROVE  RestartKeepsTheHousehold
<1> DEFINE mine == {a \in DOMAIN rows : /\ rows[a].state = "active"
                                        /\ rows[a].id \notin DOMAIN file
                                        /\ a \notin AddressesOf(file)}
<1>1. /\ DOMAIN Built(file) = DOMAIN file \cup {rows[a].id : a \in mine}
      /\ \A i \in DOMAIN file : Built(file)[i] = file[i]
      /\ \A a \in mine : Built(file)[rows[a].id] = [address |-> a, name |-> rows[a].name]
      /\ IsTable(Built(file), Ids, Entry)
  BY BuiltIs DEF IInv, TypeOK
<1>2. ASSUME NEW i \in DOMAIN household \ DOMAIN file
      PROVE  i \in DOMAIN Built(file) /\ household[i] = Built(file)[i]
  <2>1. /\ household[i].address \in mine /\ rows[household[i].address].id = i
        /\ rows[household[i].address].name = household[i].name
    BY DEF IInv, Rowed
  <2>2. Built(file)[i] = [address |-> household[i].address, name |-> household[i].name]
    BY <1>1, <2>1
  <2>3. household[i] \in Entry
    BY EntryFields DEF IInv
  <2>4. QED
    BY <1>1, <2>1, <2>2, <2>3 DEF Entry
<1>3. ASSUME NEW a \in mine PROVE rows[a].id \in DOMAIN household
  BY DEF IInv, Rowed
<1>4. \A i \in DOMAIN file : i \in DOMAIN household /\ household[i] = Built(file)[i]
  BY <1>1 DEF IInv, Rowed
<1> HIDE DEF mine
<1>5. DOMAIN household = DOMAIN Built(file)
  BY <1>1, <1>2, <1>3, <1>4
<1>6. \A i \in DOMAIN household : household[i] = Built(file)[i]
  BY <1>2, <1>4
<1>7. household = [i \in DOMAIN household |-> household[i]]
      /\ Built(file) = [i \in DOMAIN Built(file) |-> Built(file)[i]]
  BY <1>1 DEF IInv, TypeOK, IsTable
<1>8. household = Built(file)
  BY <1>5, <1>6, <1>7
<1>9. QED
  BY <1>8 DEF RestartKeepsTheHousehold

LEMMA ConfirmKeeps ==
  ASSUME IInv, NEW address \in Addresses, NEW name \in Names, Confirm(address, name)
  PROVE  IInv'
<1> DEFINE id == Slug(name)
           x == [id |-> id, name |-> name, state |-> "active"]
           e == [address |-> address, name |-> name]
<1>1. /\ address \in announced /\ address \notin AddressesOf(household)
      /\ address \notin DOMAIN rows
      /\ rows' = Put(rows, address, x) /\ household' = Put(household, id, e)
      /\ left' = Drop(left, address)
      /\ UNCHANGED <<file, forgotten, broker, availability, inbox, announced,
                     open, live, timer, closing, said>>
  BY DEF Confirm, New, connection, deciding
<1>2. id \in Ids /\ id \notin DOMAIN household /\ \A a \in DOMAIN rows : rows[a].id # id
  BY SlugIsFree DEF IInv
<1>3. /\ x \in Row /\ x.id = id /\ x.name = name /\ x.state = "active"
      /\ e \in Entry /\ e.address = address /\ e.name = name
  BY <1>2 DEF Row, Entry
<1> HIDE DEF id, x, e
<1>4. /\ DOMAIN rows' = DOMAIN rows \cup {address} /\ rows'[address] = x
      /\ \A a \in DOMAIN rows : rows'[a] = rows[a]
      /\ DOMAIN household' = DOMAIN household \cup {id} /\ household'[id] = e
      /\ \A i \in DOMAIN household : household'[i] = household[i]
      /\ DOMAIN left' = DOMAIN left \ {address}
      /\ \A a \in DOMAIN left' : left'[a] = left[a]
  BY <1>1, <1>2 DEF Put, Drop
<1>5. TypeOK'
  <2>1. /\ IsTable(rows', Addresses, Row) /\ IsTable(household', Ids, Entry)
        /\ IsTable(left', Addresses, {"announced", "silent"})
    BY <1>1, <1>2, <1>3 DEF IInv, TypeOK, IsTable, Put, Drop
  <2>2. forgotten' \subseteq DOMAIN household' \ DOMAIN file'
    BY <1>1, <1>4 DEF IInv, TypeOK
  <2>3. QED
    BY <1>1, <2>1, <2>2 DEF IInv, TypeOK
<1>6. \A i \in DOMAIN household : household[i].address # address
  BY <1>1 DEF AddressesOf
<1>7. OneEntryPerAddress'
  BY <1>3, <1>4, <1>6 DEF IInv, OneEntryPerAddress
<1>8. address \notin AddressesOf(file) /\ id \notin DOMAIN file
  BY <1>2, <1>6 DEF IInv, Rowed, AddressesOf
<1>9. Rowed'
  <2>1. \A i \in DOMAIN file' : i \in DOMAIN household' /\ household'[i] = file'[i]
    BY <1>1, <1>4 DEF IInv, Rowed
  <2>2. ASSUME NEW i \in DOMAIN household' \ DOMAIN file'
        PROVE  /\ household'[i].address \in DOMAIN rows'
               /\ household'[i].address \notin AddressesOf(file)'
               /\ rows'[household'[i].address].state = "active"
               /\ rows'[household'[i].address].id = i
               /\ rows'[household'[i].address].name = household'[i].name
    <3>1. CASE i = id
      BY <1>1, <1>3, <1>4, <1>8, <3>1 DEF AddressesOf
    <3>2. CASE i # id
      BY <1>1, <1>4, <2>2, <3>2 DEF IInv, Rowed, AddressesOf
    <3>3. QED
      BY <3>1, <3>2
  <2>3. ASSUME NEW a \in DOMAIN rows', rows'[a].state = "active",
               rows'[a].id \notin DOMAIN file', a \notin AddressesOf(file)'
        PROVE  rows'[a].id \in DOMAIN household' /\ household'[rows'[a].id].address = a
    <3>1. CASE a = address
      BY <1>3, <1>4, <3>1
    <3>2. CASE a # address
      BY <1>1, <1>4, <2>3, <3>2 DEF IInv, Rowed, AddressesOf
    <3>3. QED
      BY <3>1, <3>2
  <2>4. \A a, b \in DOMAIN rows' : rows'[a].id = rows'[b].id => a = b
    BY <1>2, <1>3, <1>4 DEF IInv, Rowed
  <2>5. QED
    BY <2>1, <2>2, <2>3, <2>4 DEF Rowed
<1>10. Windowed'
  BY <1>1 DEF IInv, Windowed, Connected, Waiting
<1>11. MarksAreTakenBack'
  BY <1>1, <1>2, <1>4 DEF IInv, TypeOK, MarksAreTakenBack
<1>12. Aside'
  BY <1>1, <1>4 DEF IInv, Aside
<1>13. QED
  BY <1>5, <1>7, <1>9, <1>10, <1>11, <1>12 DEF IInv

LEMMA RenameKeeps ==
  ASSUME IInv, NEW id \in DOMAIN household, NEW name \in Names, Rename(id, name)
  PROVE  IInv'
<1> DEFINE address == household[id].address
<1>1. /\ id \notin DOMAIN file
      /\ rows' = [a \in DOMAIN rows |->
                    IF rows[a].id = id THEN [rows[a] EXCEPT !.name = name] ELSE rows[a]]
      /\ household' = [household EXCEPT ![id].name = name]
      /\ UNCHANGED <<file, left, forgotten, broker, availability, inbox, announced,
                     open, live, timer, closing, said>>
  BY DEF Rename, connection, deciding
<1>2. /\ DOMAIN rows' = DOMAIN rows /\ rows' = [a \in DOMAIN rows |-> rows'[a]]
      /\ \A a \in DOMAIN rows :
           /\ rows'[a] \in Row /\ rows'[a].id = rows[a].id /\ rows'[a].state = rows[a].state
           /\ rows[a].id = id => rows'[a].name = name
           /\ rows[a].id # id => rows'[a].name = rows[a].name
  <2>1. ASSUME NEW a \in DOMAIN rows
        PROVE  /\ rows'[a] \in Row /\ rows'[a].id = rows[a].id
               /\ rows'[a].state = rows[a].state
               /\ rows[a].id = id => rows'[a].name = name
               /\ rows[a].id # id => rows'[a].name = rows[a].name
    <3>1. rows[a] \in Row
      BY RowFields DEF IInv
    <3>2. rows'[a] = IF rows[a].id = id THEN [rows[a] EXCEPT !.name = name] ELSE rows[a]
      BY <1>1
    <3>3. QED
      BY <3>1, <3>2 DEF Row
  <2>2. QED
    BY <1>1, <2>1
<1>3. PICK e : e = [household[id] EXCEPT !.name = name]
  OBVIOUS
<1>4. e \in Entry /\ e.address = address /\ e.name = name
  <2>1. household[id] \in Entry
    BY EntryFields DEF IInv
  <2>2. QED
    BY <1>3, <2>1 DEF Entry
<1>5. household' = [household EXCEPT ![id] = e]
  BY <1>1, <1>3
<1>6. /\ DOMAIN household' = DOMAIN household /\ household'[id] = e
      /\ \A i \in DOMAIN household \ {id} : household'[i] = household[i]
      /\ \A i \in DOMAIN household : household'[i].address = household[i].address
      /\ IsTable(household', Ids, Entry)
  BY <1>4, <1>5 DEF IInv, TypeOK, IsTable
<1>7. IsTable(rows', Addresses, Row)
  BY <1>2 DEF IInv, TypeOK, IsTable
<1>8. TypeOK'
  BY <1>1, <1>6, <1>7 DEF IInv, TypeOK
<1>9. OneEntryPerAddress' /\ MarksAreTakenBack' /\ Windowed' /\ Aside'
  BY <1>1, <1>2, <1>6 DEF IInv, TypeOK, OneEntryPerAddress, MarksAreTakenBack, Windowed,
     Connected, Waiting, Aside
<1>10. Rowed'
  <2>1. \A i \in DOMAIN file' : i \in DOMAIN household' /\ household'[i] = file'[i]
    BY <1>1, <1>6 DEF IInv, Rowed
  <2>2. ASSUME NEW i \in DOMAIN household' \ DOMAIN file'
        PROVE  /\ household'[i].address \in DOMAIN rows'
               /\ household'[i].address \notin AddressesOf(file)'
               /\ rows'[household'[i].address].state = "active"
               /\ rows'[household'[i].address].id = i
               /\ rows'[household'[i].address].name = household'[i].name
    <3>1. /\ household[i].address \in DOMAIN rows
          /\ household[i].address \notin AddressesOf(file)
          /\ rows[household[i].address].state = "active"
          /\ rows[household[i].address].id = i
          /\ rows[household[i].address].name = household[i].name
      BY <1>1, <1>6, <2>2 DEF IInv, Rowed
    <3>2. AddressesOf(file)' = AddressesOf(file)
      BY <1>1 DEF AddressesOf
    <3>3. CASE i = id
      BY <1>2, <1>4, <1>6, <3>1, <3>2, <3>3
    <3>4. CASE i # id
      BY <1>2, <1>6, <3>1, <3>2, <3>4
    <3>5. QED
      BY <3>3, <3>4
  <2>3. \A a \in DOMAIN rows' :
          rows'[a].state = "active" /\ rows'[a].id \notin DOMAIN file'
            /\ a \notin AddressesOf(file)'
            => rows'[a].id \in DOMAIN household' /\ household'[rows'[a].id].address = a
    BY <1>1, <1>2, <1>6 DEF IInv, Rowed, AddressesOf
  <2>4. \A a, b \in DOMAIN rows' : rows'[a].id = rows'[b].id => a = b
    BY <1>2 DEF IInv, Rowed
  <2>5. QED
    BY <2>1, <2>2, <2>3, <2>4 DEF Rowed
<1>11. QED
  BY <1>8, <1>9, <1>10 DEF IInv

LEMMA RemoveKeeps ==
  ASSUME IInv, NEW id \in DOMAIN household, Remove(id)
  PROVE  IInv'
<1> DEFINE address == household[id].address
<1>1. /\ id \notin DOMAIN file /\ LeavesTheRows(address)
      /\ household' = Drop(household, id) /\ forgotten' = forgotten \ {id}
      /\ UNCHANGED <<file, broker, availability, inbox, announced,
                     open, live, timer, closing, said>>
  BY DEF Remove, connection, deciding
<1>2. /\ address \in DOMAIN rows /\ address \in Addresses
      /\ rows[address].state = "active" /\ rows[address].id = id
  BY <1>1, EntryFields DEF IInv, Rowed
<1> HIDE DEF address
<1>3. /\ \A i \in DOMAIN household' : i \in DOMAIN household \ {id} /\ household'[i] = household[i]
      /\ DOMAIN household' = DOMAIN household \ {id}
      /\ IsTable(household', Ids, Entry)
  BY <1>1 DEF IInv, TypeOK, IsTable, Drop
<1>4. \A i \in DOMAIN household' : household'[i].address # address
  BY <1>3 DEF IInv, OneEntryPerAddress, address
<1>5. /\ IsTable(rows', Addresses, Row) /\ DOMAIN rows' \subseteq DOMAIN rows
      /\ \A a \in DOMAIN rows \ {address} : a \in DOMAIN rows' /\ rows'[a] = rows[a]
      /\ address \in DOMAIN rows' =>
           rows'[address].state = "set_aside" /\ rows'[address].id = id
      /\ address \in announced => address \in DOMAIN rows'
  <2>1. CASE address \in announced
    <3>1. PICK r : r = [rows[address] EXCEPT !.state = "set_aside"]
      OBVIOUS
    <3>2. r \in Row /\ r.state = "set_aside" /\ r.id = id
      <4>1. rows[address] \in Row
        BY <1>2, RowFields DEF IInv
      <4>2. QED
        BY <1>2, <3>1, <4>1 DEF Row
    <3>3. rows' = [rows EXCEPT ![address] = r]
      BY <1>1, <2>1, <3>1 DEF LeavesTheRows
    <3>4. QED
      BY <1>2, <3>2, <3>3 DEF IInv, TypeOK, IsTable
  <2>2. CASE address \notin announced
    <3>1. rows' = Drop(rows, address)
      BY <1>1, <2>2 DEF LeavesTheRows
    <3>2. QED
      BY <2>2, <3>1 DEF IInv, TypeOK, IsTable, Drop
  <2>3. QED
    BY <2>1, <2>2
<1>6. /\ IsTable(left', Addresses, {"announced", "silent"})
      /\ DOMAIN left' = DOMAIN left \cup {address}
      /\ \A a \in DOMAIN left \ {address} : left'[a] = left[a]
      /\ left'[address] = "announced" => address \in announced
  <2>1. left' = Put(left, address, IF address \in announced THEN "announced" ELSE "silent")
    BY <1>1 DEF LeavesTheRows
  <2>2. QED
    BY <1>2, <2>1 DEF IInv, TypeOK, IsTable, Put
<1>7. TypeOK'
  BY <1>1, <1>3, <1>5, <1>6 DEF IInv, TypeOK
<1>8. OneEntryPerAddress' /\ MarksAreTakenBack' /\ Windowed'
  BY <1>1, <1>3 DEF IInv, TypeOK, OneEntryPerAddress, MarksAreTakenBack, Windowed,
     Connected, Waiting
<1>9. Aside'
  <2>1. ASSUME NEW a \in DOMAIN left', left'[a] = "announced"
        PROVE  a \in DOMAIN rows' /\ rows'[a].state = "set_aside"
    <3>1. CASE a = address
      BY <1>5, <1>6, <2>1, <3>1
    <3>2. CASE a # address
      BY <1>5, <1>6, <2>1, <3>2 DEF IInv, Aside
    <3>3. QED
      BY <3>1, <3>2
  <2>2. QED
    BY <2>1 DEF Aside
<1>10. Rowed'
  <2>1. \A i \in DOMAIN file' : i \in DOMAIN household' /\ household'[i] = file'[i]
    BY <1>1, <1>3 DEF IInv, Rowed
  <2>2. ASSUME NEW i \in DOMAIN household' \ DOMAIN file'
        PROVE  /\ household'[i].address \in DOMAIN rows'
               /\ household'[i].address \notin AddressesOf(file)'
               /\ rows'[household'[i].address].state = "active"
               /\ rows'[household'[i].address].id = i
               /\ rows'[household'[i].address].name = household'[i].name
    <3>1. /\ household[i].address \in DOMAIN rows \ {address}
          /\ household[i].address \notin AddressesOf(file)
          /\ rows[household[i].address].state = "active"
          /\ rows[household[i].address].id = i
          /\ rows[household[i].address].name = household[i].name
          /\ household'[i] = household[i]
      BY <1>1, <1>3, <1>4, <2>2 DEF IInv, Rowed
    <3>2. QED
      BY <1>1, <1>5, <3>1 DEF AddressesOf
  <2>3. ASSUME NEW a \in DOMAIN rows', rows'[a].state = "active",
               rows'[a].id \notin DOMAIN file', a \notin AddressesOf(file)'
        PROVE  rows'[a].id \in DOMAIN household' /\ household'[rows'[a].id].address = a
    <3>1. a \in DOMAIN rows \ {address} /\ rows'[a] = rows[a]
      BY <1>5, <2>3
    <3>2. /\ rows[a].id \in DOMAIN household /\ household[rows[a].id].address = a
      BY <1>1, <2>3, <3>1 DEF IInv, Rowed, AddressesOf
    <3>3. rows[a].id # id
      BY <1>2, <3>1 DEF IInv, Rowed
    <3>4. QED
      BY <1>3, <3>1, <3>2, <3>3
  <2>4. \A a, b \in DOMAIN rows' : rows'[a].id = rows'[b].id => a = b
    BY <1>2, <1>5 DEF IInv, Rowed
  <2>5. QED
    BY <2>1, <2>2, <2>3, <2>4 DEF Rowed
<1>11. QED
  BY <1>7, <1>8, <1>9, <1>10 DEF IInv

LEMMA RestoreKeeps ==
  ASSUME IInv, NEW address \in Addresses, Restore(address)
  PROVE  IInv'
<1>1. /\ address \in DOMAIN rows /\ rows[address].state = "set_aside"
      /\ rows' = Drop(rows, address) /\ left' = Drop(left, address)
      /\ UNCHANGED <<file, household, forgotten, broker, availability, inbox, announced,
                     open, live, timer, closing, said>>
  BY DEF Restore, connection, deciding
<1>2. /\ DOMAIN rows' = DOMAIN rows \ {address} /\ DOMAIN left' = DOMAIN left \ {address}
      /\ \A a \in DOMAIN rows' : rows'[a] = rows[a]
      /\ \A a \in DOMAIN left' : left'[a] = left[a]
  BY <1>1 DEF Drop
<1>3. TypeOK'
  BY <1>1 DEF IInv, TypeOK, IsTable, Drop
<1>4. OneEntryPerAddress' /\ MarksAreTakenBack' /\ Windowed' /\ Aside'
  BY <1>1, <1>2 DEF IInv, OneEntryPerAddress, MarksAreTakenBack, Windowed,
     Connected, Waiting, Aside
<1>5. \A i \in DOMAIN household \ DOMAIN file : household[i].address # address
  BY <1>1 DEF IInv, Rowed
<1>6. Rowed'
  BY <1>1, <1>2, <1>5 DEF IInv, Rowed, AddressesOf
<1>7. QED
  BY <1>3, <1>4, <1>6 DEF IInv

\* Whatever somebody wrote into the file meanwhile.
LEMMA RestartKeeps ==
  ASSUME IInv, NEW f \in Files, Restart(f)
  PROVE  IInv'
<1>1. /\ file' = f /\ household' = Built(f)
      /\ forgotten' = {} /\ announced' = {} /\ inbox' = <<>>
      /\ broker' = FALSE /\ availability' = "unknown"
      /\ open' = FALSE /\ live' = {} /\ timer' = FALSE /\ closing' = FALSE
      /\ said' = {} /\ rows' = rows /\ left' = left
  BY DEF Restart
<1> DEFINE mine == {a \in DOMAIN rows : /\ rows[a].state = "active"
                                        /\ rows[a].id \notin DOMAIN f
                                        /\ a \notin AddressesOf(f)}
<1>2. /\ DOMAIN household' = DOMAIN f \cup {rows[a].id : a \in mine}
      /\ \A i \in DOMAIN f : household'[i] = f[i]
      /\ \A a \in mine : household'[rows[a].id] = [address |-> a, name |-> rows[a].name]
      /\ IsTable(household', Ids, Entry)
  BY <1>1, BuiltIs DEF IInv
<1>3. \A a \in mine : /\ a \in DOMAIN rows /\ rows[a].state = "active"
                      /\ rows[a].id \notin DOMAIN f /\ a \notin AddressesOf(f)
  OBVIOUS
<1>4. \A a \in DOMAIN rows :
        rows[a].state = "active" /\ rows[a].id \notin DOMAIN f /\ a \notin AddressesOf(f)
          => a \in mine
  OBVIOUS
<1> HIDE DEF mine
<1>5. \A i \in DOMAIN household' \ DOMAIN f :
        \E a \in mine : /\ i = rows[a].id /\ household'[i].address = a
                        /\ household'[i].name = rows[a].name
  <2>1. TAKE i \in DOMAIN household' \ DOMAIN f
  <2>2. PICK a \in mine : i = rows[a].id
    BY <1>2
  <2>3. household'[i] = [address |-> a, name |-> rows[a].name]
    BY <1>2, <2>2
  <2>4. QED
    BY <2>2, <2>3
<1>6. TypeOK'
  <2>1. inbox' \in Seq(Message)
    BY <1>1
  <2>2. IsTable(household', Ids, Entry) /\ file' \in Files
    BY <1>1, <1>2
  <2>3. QED
    BY <1>1, <2>1, <2>2 DEF IInv, TypeOK
<1>7. Rowed'
  <2>1. ASSUME NEW i \in DOMAIN household' \ DOMAIN file'
        PROVE  /\ household'[i].address \in DOMAIN rows'
               /\ household'[i].address \notin AddressesOf(file)'
               /\ rows'[household'[i].address].state = "active"
               /\ rows'[household'[i].address].id = i
               /\ rows'[household'[i].address].name = household'[i].name
    BY <1>1, <1>3, <1>5, <2>1 DEF AddressesOf
  <2>2. ASSUME NEW a \in DOMAIN rows', rows'[a].state = "active",
               rows'[a].id \notin DOMAIN file', a \notin AddressesOf(file)'
        PROVE  rows'[a].id \in DOMAIN household' /\ household'[rows'[a].id].address = a
    <3>1. a \in mine
      BY <1>1, <1>4, <2>2 DEF AddressesOf
    <3>2. household'[rows[a].id] = [address |-> a, name |-> rows[a].name]
          /\ rows[a].id \in DOMAIN household'
      BY <1>2, <3>1
    <3>3. QED
      BY <1>1, <3>2
  <2>3. QED
    BY <1>1, <1>2, <2>1, <2>2 DEF IInv, Rowed
<1>8. OneEntryPerAddress'
  <2>1. ASSUME NEW i \in DOMAIN household', NEW j \in DOMAIN household',
               household'[i].address = household'[j].address
        PROVE  i = j
    <3>1. CASE i \in DOMAIN f /\ j \in DOMAIN f
      BY <1>2, <2>1, <3>1, FileFields
    <3>2. CASE i \notin DOMAIN f /\ j \notin DOMAIN f
      BY <1>5, <2>1, <3>2
    <3>3. CASE i \in DOMAIN f /\ j \notin DOMAIN f
      <4>1. household'[i].address \in AddressesOf(f)
        BY <1>2, <3>3 DEF AddressesOf
      <4>2. household'[j].address \notin AddressesOf(f)
        BY <1>3, <1>5, <3>3
      <4>3. QED
        BY <2>1, <4>1, <4>2
    <3>4. CASE i \notin DOMAIN f /\ j \in DOMAIN f
      <4>1. household'[j].address \in AddressesOf(f)
        BY <1>2, <3>4 DEF AddressesOf
      <4>2. household'[i].address \notin AddressesOf(f)
        BY <1>3, <1>5, <3>4
      <4>3. QED
        BY <2>1, <4>1, <4>2
    <3>5. QED
      BY <3>1, <3>2, <3>3, <3>4
  <2>2. QED
    BY <2>1 DEF OneEntryPerAddress
<1>9. MarksAreTakenBack' /\ Windowed' /\ Aside'
  BY <1>1 DEF IInv, MarksAreTakenBack, Windowed, Aside
<1>10. QED
  BY <1>6, <1>7, <1>8, <1>9 DEF IInv

-----------------------------------------------------------------------------
(* The connection, the queue and the window.                               *)

\* Steps that are not about people leave the household as it is.
LEMMA PeopleStay ==
  ASSUME IInv, UNCHANGED people
  PROVE  OneEntryPerAddress' /\ Rowed' /\ Aside'
BY DEF people, IInv, OneEntryPerAddress, Rowed, AddressesOf, Aside

LEMMA BridgeChangedKeeps ==
  ASSUME IInv, broker' \in BOOLEAN, availability' \in {"unknown", "online", "offline"},
         BridgeChanged(Connected, Connected'),
         UNCHANGED <<people, forgotten, inbox, announced, closing>>
  PROVE  IInv' /\ forgotten' = forgotten
<1>1. \/ open' = TRUE /\ live' = {} /\ timer' = TRUE /\ said' = {} /\ Connected'
      \/ open' = FALSE /\ live' = {} /\ timer' = FALSE /\ said' = said
      \/ UNCHANGED <<open, live, timer, said>> /\ (Connected <=> Connected')
  BY DEF BridgeChanged, Connected
<1>2. TypeOK'
  BY <1>1 DEF IInv, TypeOK, people
<1>3. Windowed' /\ MarksAreTakenBack'
  BY <1>1 DEF IInv, Windowed, MarksAreTakenBack, people, Waiting
<1>4. QED
  BY <1>2, <1>3, PeopleStay DEF IInv

LEMMA BrokerKeeps ==
  ASSUME IInv, NEW up \in BOOLEAN, Broker(up)
  PROVE  IInv' /\ forgotten' = forgotten
<1>1. Connected' = FALSE
  BY DEF Broker, Connected
<1>2. QED
  BY <1>1, BridgeChangedKeeps DEF Broker

LEMMA AvailabilityKeeps ==
  ASSUME IInv, NEW word \in {"online", "offline"}, Availability(word)
  PROVE  IInv' /\ forgotten' = forgotten
<1>1. broker /\ broker' = broker /\ availability' = word
  BY DEF Availability
<1>2. Connected' = (word = "online")
  BY <1>1 DEF Connected, IInv, TypeOK
<1>3. QED
  BY <1>1, <1>2, BridgeChangedKeeps DEF Availability, IInv, TypeOK

LEMMA AnnouncementKeeps ==
  ASSUME IInv, NEW address \in Addresses, NEW kind \in {"live", "retained", "withdrawn"},
         Announcement(address, kind)
  PROVE  IInv' /\ forgotten' = forgotten
<1> DEFINE m == [address |-> address, kind |-> kind]
<1>1. /\ inbox' = Append(inbox, m)
      /\ said' = IF kind = "live" /\ Connected THEN said \cup {address} ELSE said
      /\ UNCHANGED <<people, forgotten, broker, availability, announced,
                     open, live, timer, closing>>
  BY DEF Announcement, connection, deciding
<1>2. m \in Message
  BY DEF Message
<1> HIDE DEF m
<1>3. /\ inbox' \in Seq(Message) /\ DOMAIN inbox' = DOMAIN inbox \cup {Len(inbox) + 1}
      /\ \A n \in DOMAIN inbox : inbox'[n] = inbox[n]
      /\ inbox'[Len(inbox) + 1] = m
  BY <1>1, <1>2 DEF IInv, TypeOK
<1>4. \A a : Waiting(a) => Waiting(a)'
  BY <1>3 DEF Waiting
<1>5. kind = "live" => Waiting(address)'
  BY <1>3 DEF Waiting, m
<1>6. TypeOK'
  BY <1>1, <1>3 DEF IInv, TypeOK, people
<1>7. Windowed'
  BY <1>1, <1>4, <1>5 DEF IInv, Windowed, Connected
<1>8. MarksAreTakenBack'
  <2>1. ASSUME NEW i \in forgotten', NEW a, household[i].address = a, a \in said'
        PROVE  Waiting(a)'
    <3>1. CASE a \in said
      <4>1. Waiting(a)
        BY <1>1, <2>1, <3>1 DEF IInv, MarksAreTakenBack, Waiting
      <4>2. QED
        BY <1>4, <4>1
    <3>2. CASE a \notin said
      BY <1>1, <1>5, <2>1, <3>2
    <3>3. QED
      BY <3>1, <3>2
  <2>2. QED
    BY <1>1, <2>1 DEF MarksAreTakenBack, Waiting, people
<1>9. QED
  BY <1>1, <1>6, <1>7, <1>8, PeopleStay DEF IInv

LEMMA HandleKeeps ==
  ASSUME IInv, Handle
  PROVE  IInv' /\ forgotten' \subseteq forgotten
<1> DEFINE news == Head(inbox)
<1>1. /\ inbox # <<>> /\ inbox' = Tail(inbox)
      /\ live' = IF news.kind = "live" /\ open THEN live \cup {news.address} ELSE live
      /\ forgotten' = IF news.kind = "live"
                      THEN {i \in forgotten : household[i].address # news.address}
                      ELSE forgotten
      /\ announced' = IF news.kind = "withdrawn" THEN announced \ {news.address}
                      ELSE announced \cup {news.address}
      /\ left' = IF news.kind = "live" /\ news.address \in DOMAIN left
                    /\ left[news.address] = "silent"
                 THEN Drop(left, news.address) ELSE left
      /\ UNCHANGED <<file, rows, household, broker, availability, open, timer,
                     closing, said>>
  BY DEF Handle, connection
<1>2. /\ news \in Message /\ news = inbox[1] /\ inbox' \in Seq(Message)
      /\ \A n \in DOMAIN inbox : n # 1 => n - 1 \in DOMAIN inbox' /\ inbox'[n - 1] = inbox[n]
  BY <1>1 DEF IInv, TypeOK
<1>3. news.address \in Addresses
  BY <1>2 DEF Message
<1>4. \A a : Waiting(a) => Waiting(a)' \/ (news.kind = "live" /\ news.address = a)
  BY <1>2 DEF Waiting
<1> HIDE DEF news
<1>5. /\ IsTable(left', Addresses, {"announced", "silent"})
      /\ \A a \in DOMAIN left' : a \in DOMAIN left /\ left'[a] = left[a]
  BY <1>1 DEF IInv, TypeOK, IsTable, Drop
<1>6. TypeOK'
  BY <1>1, <1>2, <1>3, <1>5 DEF IInv, TypeOK
<1>7. OneEntryPerAddress' /\ Rowed' /\ Aside'
  BY <1>1, <1>5 DEF IInv, OneEntryPerAddress, Rowed, AddressesOf, Aside
<1>8. Windowed'
  BY <1>1, <1>4 DEF IInv, Windowed, Connected
<1>9. MarksAreTakenBack'
  <2>1. ASSUME NEW i \in forgotten', NEW a, household[i].address = a, a \in said
        PROVE  Waiting(a)'
    <3>1. Waiting(a)
      BY <1>1, <2>1 DEF IInv, MarksAreTakenBack, Waiting
    <3>2. QED
      BY <1>1, <1>4, <2>1, <3>1
  <2>2. QED
    BY <1>1, <2>1 DEF MarksAreTakenBack, Waiting, people
<1>10. QED
  BY <1>1, <1>6, <1>7, <1>8, <1>9 DEF IInv

\* Whom the window marks has not been announced since the bridge came online, or
\* the announcement waits.
LEMMA CloseWindowKeeps ==
  ASSUME IInv, CloseWindow
  PROVE  IInv' /\ (Connected \/ forgotten' \subseteq forgotten)
<1>1. /\ closing' = FALSE /\ open' = FALSE /\ live' = {} /\ timer' = FALSE
      /\ forgotten' = IF ~open \/ live = {} THEN forgotten
                      ELSE forgotten \cup {i \in DOMAIN household \ DOMAIN file :
                                             household[i].address \notin live}
      /\ UNCHANGED <<people, broker, availability, inbox, announced, said>>
  BY DEF CloseWindow, connection
<1>2. TypeOK'
  BY <1>1 DEF IInv, TypeOK, people
<1>3. MarksAreTakenBack'
  <2>1. ASSUME NEW i \in forgotten', NEW a, household[i].address = a, a \in said
        PROVE  Waiting(a)
    BY <1>1, <2>1 DEF IInv, MarksAreTakenBack, Windowed, Waiting
  <2>2. QED
    BY <1>1, <2>1 DEF MarksAreTakenBack, Waiting, people
<1>4. Windowed'
  BY <1>1 DEF Windowed
<1>5. Connected \/ forgotten' \subseteq forgotten
  BY <1>1 DEF IInv, Windowed
<1>6. QED
  BY <1>1, <1>2, <1>3, <1>4, <1>5, PeopleStay DEF IInv

LEMMA WindowElapsedKeeps ==
  ASSUME IInv, WindowElapsed
  PROVE  IInv' /\ forgotten' = forgotten
<1>1. /\ timer' = FALSE /\ closing' = TRUE
      /\ UNCHANGED <<people, forgotten, broker, availability, inbox, announced,
                     open, live, said>>
  BY DEF WindowElapsed, connection
<1>2. QED
  BY <1>1, PeopleStay DEF IInv, TypeOK, Windowed, MarksAreTakenBack, Connected, Waiting, people

-----------------------------------------------------------------------------

LEMMA InitKeeps == Init => IInv
<1> SUFFICES ASSUME Init PROVE IInv
  OBVIOUS
<1>1. /\ file \in Files /\ household = file /\ rows = EmptyTable /\ left = EmptyTable
      /\ forgotten = {} /\ announced = {} /\ inbox = <<>> /\ said = {} /\ live = {}
      /\ broker = FALSE /\ availability = "unknown" /\ open = FALSE
      /\ timer = FALSE /\ closing = FALSE
  BY DEF Init
<1>2. DOMAIN EmptyTable = {} /\ \A K, V : IsTable(EmptyTable, K, V)
  BY DEF EmptyTable, IsTable
<1>3. /\ IsTable(household, Ids, Entry)
      /\ \A i, j \in DOMAIN household : household[i].address = household[j].address => i = j
  BY <1>1, FileFields
<1>4. TypeOK
  <2>1. inbox \in Seq(Message)
    BY <1>1
  <2>2. QED
    BY <1>1, <1>2, <1>3, <2>1 DEF TypeOK
<1>5. OneEntryPerAddress /\ Rowed /\ Windowed /\ MarksAreTakenBack /\ Aside
  BY <1>1, <1>2, <1>3 DEF OneEntryPerAddress, Rowed, Windowed, MarksAreTakenBack, Aside
<1>6. QED
  BY <1>4, <1>5 DEF IInv

\* Who is not connected decides nothing about who is forgotten.
Undecided == Connected \/ forgotten' \subseteq forgotten

LEMMA NextKeeps ==
  ASSUME IInv, [Next]_vars
  PROVE  IInv' /\ Undecided
<1>1. ASSUME NEW a \in Addresses, NEW n \in Names, Confirm(a, n)
      PROVE  IInv' /\ Undecided
  BY <1>1, ConfirmKeeps DEF Confirm, Undecided
<1>2. ASSUME NEW i \in DOMAIN household, Remove(i)
      PROVE  IInv' /\ Undecided
  BY <1>2, RemoveKeeps DEF Remove, Undecided
<1>3. ASSUME NEW i \in DOMAIN household, NEW n \in Names, Rename(i, n)
      PROVE  IInv' /\ Undecided
  BY <1>3, RenameKeeps DEF Rename, Undecided
<1>4. ASSUME NEW a \in Addresses, Restore(a)
      PROVE  IInv' /\ Undecided
  BY <1>4, RestoreKeeps DEF Restore, Undecided
<1>5. ASSUME NEW f \in Files, Restart(f)
      PROVE  IInv' /\ Undecided
  BY <1>5, RestartKeeps DEF Restart, Undecided
<1>6. CASE UNCHANGED vars
  BY <1>6 DEF vars, people, connection, deciding, IInv, TypeOK, OneEntryPerAddress, Rowed,
     AddressesOf, Windowed, MarksAreTakenBack, Aside, Connected, Waiting, Undecided
<1>7. QED
  BY <1>1, <1>2, <1>3, <1>4, <1>5, <1>6, BrokerKeeps, AvailabilityKeeps, AnnouncementKeeps,
     HandleKeeps, CloseWindowKeeps, WindowElapsedKeeps DEF Next, Undecided

LEMMA Invariance == Spec => []IInv
<1>1. Init => IInv
  BY InitKeeps
<1>2. IInv /\ [Next]_vars => IInv'
  BY NextKeeps
<1>3. QED
  BY <1>1, <1>2, PTL DEF Spec

\* The household, its rows, the marks and the window keep their types; slug() never
\* runs out of numbers.
THEOREM TypeCorrect == Spec => []TypeOK
<1>1. IInv => TypeOK
  BY DEF IInv
<1>2. QED
  BY <1>1, Invariance, PTL

\* However often the file is edited under the rows that the app wrote, no two
\* shutters of the household share a remote.
THEOREM AddressesAreUnique == Spec => []OneEntryPerAddress
<1>1. IInv => OneEntryPerAddress
  BY DEF IInv
<1>2. QED
  BY <1>1, Invariance, PTL

\* Confirming, renaming, removing and restoring leave in memory exactly what the
\* next start would read from the file and the rows.
THEOREM MemoryIsBuilt == Spec => []RestartKeepsTheHousehold
<1>1. IInv => RestartKeepsTheHousehold
  BY HouseholdIsBuilt
<1>2. QED
  BY <1>1, Invariance, PTL

\* Whoever is marked although the bridge announced it since it came online loses the
\* mark with an announcement that waits, for any length of the queue.
THEOREM MarksEnd == Spec => []MarksAreTakenBack
<1>1. IInv => MarksAreTakenBack
  BY DEF IInv
<1>2. QED
  BY <1>1, Invariance, PTL

\* FR-016: what was removed while it was announced is never offered as new before
\* somebody restores it.
THEOREM AsideStays == Spec => []SetAsideStaysAside
<1>1. IInv => SetAsideStaysAside
  BY DEF IInv, Aside, SetAsideStaysAside, New
<1>2. QED
  BY <1>1, Invariance, PTL

\* FR-018: no step marks anybody as forgotten while the bridge is away, whenever the
\* window's time was up.
THEOREM AwayDecidesNothing == Spec => OfflineDecidesNothing
<1>1. IInv /\ [Next]_vars => [Connected \/ forgotten' \subseteq forgotten]_vars
  BY NextKeeps DEF Undecided
<1>2. QED
  BY <1>1, Invariance, PTL DEF Spec, OfflineDecidesNothing
=============================================================================
