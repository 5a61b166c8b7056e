---------------------------- MODULE AccessProofs ----------------------------
(***************************************************************************)
(* Whoever uses the program, however many codes and credentials there are  *)
(* and whatever the limit: a code becomes one credential, wrong codes are  *)
(* counted, somebody manages, and a feed ends with its credential.         *)
(***************************************************************************)
EXTENDS Access, FiniteSetTheorems, TLAPS

\* A code that somebody paired with is spent, and it gave what it held.
Paired ==
  /\ \A c \in DOMAIN creds : creds[c].code # Nobody =>
       /\ creds[c].code \in DOMAIN codes
       /\ codes[creds[c].code].spent
       /\ creds[c].manage => codes[creds[c].code].manage
  /\ \A c, d \in DOMAIN creds :
       creds[c].code # Nobody /\ creds[c].code = creds[d].code => c = d

\* A code from the command line is one for managing; any other has a minter.
Minted ==
  \A p \in DOMAIN codes : IF codes[p].minter = Nobody THEN codes[p].manage
                          ELSE codes[p].minter \in DOMAIN creds

\* The count is at least that of any code that can still be guessed.
Counted ==
  /\ DOMAIN tried = DOMAIN codes
  /\ \A p \in Outstanding(codes) : tried[p] <= guesses

\* A feed of a credential that ran out is still on the list of a sweep under way.
Watched ==
  \A k \in DOMAIN feeds \ (doomed \cup late) :
    /\ ~creds[feeds[k]].revoked
    /\ creds[feeds[k]].ends # Never =>
         /\ creds[feeds[k]].ends > since
         /\ \A r \in sweep : creds[feeds[k]].ends <= r.upto => feeds[k] \in r.left

IInv == TypeOK /\ Paired /\ Minted /\ Counted /\ SomebodyManages /\ Watched

LEMMA Naturals ==
  Limit \in Nat /\ Limit > 0 /\ CodeTime \in Nat /\ CodeTime > 0 /\ MaxTime \in Nat
  /\ Nobody \notin Credentials \cup Codes /\ IsFiniteSet(Codes)
  /\ Never = 0 /\ Never \in Ends /\ Zoneless = -1
BY AccessAssumption DEF AccessAssumption, Never, Zoneless, Ends

LEMMA EndsTyped ==
  ASSUME TypeOK
  PROVE  \A c \in DOMAIN creds : creds[c].ends \in Int
BY Naturals DEF TypeOK, IsTable, Credential, Ends

-----------------------------------------------------------------------------
(* What the steps do to the tables.                                        *)

LEMMA PutTable ==
  ASSUME NEW f, NEW K, NEW V, IsTable(f, K, V), NEW k \in K, NEW v \in V
  PROVE  /\ IsTable(Put(f, k, v), K, V)
         /\ DOMAIN Put(f, k, v) = DOMAIN f \cup {k}
         /\ Put(f, k, v)[k] = v
         /\ \A x \in DOMAIN f \ {k} : Put(f, k, v)[x] = f[x]
BY DEF IsTable, Put

LEMMA DropTable ==
  ASSUME NEW f, NEW K, NEW V, IsTable(f, K, V), NEW k
  PROVE  /\ IsTable(Drop(f, k), K \ {k}, V)
         /\ DOMAIN Drop(f, k) = DOMAIN f \ {k}
         /\ \A x \in DOMAIN f \ {k} : Drop(f, k)[x] = f[x]
BY DEF IsTable, Drop

LEMMA EmptyIsTable ==
  ASSUME NEW K, NEW V
  PROVE  IsTable(EmptyTable, K, V) /\ DOMAIN EmptyTable = {}
BY DEF IsTable, EmptyTable

\* All that ever happens to a code: it is spent, or it is cancelled.
Marks(t, u) ==
  /\ u \in [DOMAIN t -> Code]
  /\ \A p \in DOMAIN t :
       /\ u[p].manage = t[p].manage /\ u[p].minter = t[p].minter
       /\ u[p].ends = t[p].ends
       /\ t[p].spent => u[p].spent
       /\ t[p].cancelled => u[p].cancelled

\* x is y with one mark more, or without.
Changed(x, y) ==
  y = x \/ y = [x EXCEPT !.spent = TRUE] \/ y = [x EXCEPT !.cancelled = TRUE]

LEMMA ChangedFields ==
  ASSUME NEW x \in Code, NEW y, Changed(x, y)
  PROVE  /\ y \in Code
         /\ y.manage = x.manage /\ y.minter = x.minter /\ y.ends = x.ends
         /\ x.spent => y.spent
         /\ x.cancelled => y.cancelled
BY DEF Code, Changed

LEMMA ChangesMark ==
  ASSUME NEW t, IsTable(t, Codes, Code), NEW u, u = [q \in DOMAIN t |-> u[q]],
         \A q \in DOMAIN t : Changed(t[q], u[q])
  PROVE  Marks(t, u)
<1>1. \A q \in DOMAIN t : t[q] \in Code
  BY DEF IsTable
<1>2. \A q \in DOMAIN t : u[q] \in Code
  BY <1>1, ChangedFields
<1>3. u \in [DOMAIN t -> Code]
  BY <1>2
<1>4. \A q \in DOMAIN t : /\ u[q].manage = t[q].manage /\ u[q].minter = t[q].minter
                          /\ u[q].ends = t[q].ends
                          /\ t[q].spent => u[q].spent
                          /\ t[q].cancelled => u[q].cancelled
  BY <1>1, ChangedFields
<1>5. QED
  BY <1>3, <1>4 DEF Marks

LEMMA SpentMarks ==
  ASSUME NEW t, IsTable(t, Codes, Code), NEW p \in DOMAIN t
  PROVE  /\ Marks(t, [t EXCEPT ![p].spent = TRUE])
         /\ [t EXCEPT ![p].spent = TRUE][p].spent
<1> DEFINE u == [t EXCEPT ![p].spent = TRUE]
<1>1. \A q \in DOMAIN t : t[q] \in Code
  BY DEF IsTable
<1>2. u[p] = [t[p] EXCEPT !.spent = TRUE] /\ \A q \in DOMAIN t \ {p} : u[q] = t[q]
  BY DEF IsTable
<1>3. u = [q \in DOMAIN t |-> u[q]]
  BY DEF IsTable
<1>4. u[p].spent
  BY <1>1, <1>2 DEF Code
<1> HIDE DEF u
<1>5. \A q \in DOMAIN t : Changed(t[q], u[q])
  BY <1>2 DEF Changed
<1>6. QED
  BY <1>3, <1>4, <1>5, ChangesMark DEF u

LEMMA CancelMarks ==
  ASSUME NEW t, IsTable(t, Codes, Code), NEW some
  PROVE  Marks(t, [p \in DOMAIN t |-> IF p \in some
                                      THEN [t[p] EXCEPT !.cancelled = TRUE] ELSE t[p]])
<1> DEFINE u == [p \in DOMAIN t |-> IF p \in some
                                    THEN [t[p] EXCEPT !.cancelled = TRUE] ELSE t[p]]
<1>1. \A q \in DOMAIN t : Changed(t[q], u[q])
  BY DEF Changed
<1>2. u = [q \in DOMAIN t |-> u[q]]
  OBVIOUS
<1> HIDE DEF u
<1>3. QED
  BY <1>1, <1>2, ChangesMark DEF u

LEMMA CancelledMarks ==
  ASSUME TypeOK, NEW some
  PROVE  Marks(codes, Cancelled(some))
BY CancelMarks DEF Cancelled, TypeOK

LEMMA MarksTwice ==
  ASSUME NEW t, NEW u, NEW w, Marks(t, u), Marks(u, w)
  PROVE  Marks(t, w)
BY DEF Marks

LEMMA MarksTable ==
  ASSUME NEW t, NEW u, IsTable(t, Codes, Code), Marks(t, u)
  PROVE  IsTable(u, Codes, Code) /\ DOMAIN u = DOMAIN t
         /\ Outstanding(u) \subseteq Outstanding(t)
BY DEF Marks, IsTable, Outstanding

LEMMA MarksSelf ==
  ASSUME TypeOK
  PROVE  Marks(codes, codes)
<1>1. codes = [q \in DOMAIN codes |-> codes[q]]
  BY DEF TypeOK, IsTable
<1>2. QED
  BY <1>1, ChangesMark DEF TypeOK, Changed

LEMMA WiderTable ==
  ASSUME NEW f, NEW K, NEW V, NEW W, IsTable(f, K, V), V \subseteq W
  PROVE  IsTable(f, K, W)
BY DEF IsTable

-----------------------------------------------------------------------------
(* What keeps each part of the invariant.                                  *)

LEMMA RecordsStay ==
  ASSUME IInv, UNCHANGED <<creds, confirmed>>, Marks(codes, codes')
  PROVE  Paired' /\ Minted' /\ SomebodyManages'
<1> USE DEF IInv
<1>1. DOMAIN codes' = DOMAIN codes
  BY DEF Marks
<1>2. \A p \in DOMAIN codes : /\ codes'[p].manage = codes[p].manage
                              /\ codes'[p].minter = codes[p].minter
                              /\ codes[p].spent => codes'[p].spent
  BY DEF Marks
<1>3. Paired'
  BY <1>1, <1>2 DEF Paired
<1>4. Minted'
  BY <1>1, <1>2 DEF Minted
<1>5. SomebodyManages'
  BY DEF SomebodyManages, PermanentManagers, Manages, Active
<1>6. QED
  BY <1>3, <1>4, <1>5

LEMMA CountStays ==
  ASSUME IInv, UNCHANGED <<guesses, tried>>, now' \in Nat, now' >= now, Marks(codes, codes')
  PROVE  Counted'
<1>1. DOMAIN codes' = DOMAIN codes
  BY DEF Marks
<1>2. \A p \in DOMAIN codes : codes[p].ends \in Int
  BY DEF IInv, TypeOK, IsTable, Code
<1>3. \A p \in DOMAIN codes : codes'[p].ends > now' => codes[p].ends > now
  BY <1>2 DEF Marks, IInv, TypeOK
<1>4. Outstanding(codes)' \subseteq Outstanding(codes)
  BY <1>1, <1>3 DEF Outstanding, Marks
<1>5. QED
  BY <1>1, <1>4 DEF Counted, IInv

LEMMA HubStays ==
  ASSUME IInv, UNCHANGED <<feeds, doomed, late, since, sweep>>,
         \A c \in DOMAIN creds : creds'[c] = creds[c]
  PROVE  Watched'
<1>1. \A k \in DOMAIN feeds : feeds[k] \in DOMAIN creds
  BY DEF IInv, TypeOK, IsTable
<1>2. QED
  BY <1>1 DEF IInv, Watched

\* A credential more: it holds what it was given, and nobody's feed is its own.
LEMMA CredentialAdded ==
  ASSUME IInv, NEW c \in Credentials \ DOMAIN creds, NEW manage \in BOOLEAN,
         NEW ends \in Ends, NEW code \in Codes \cup {Nobody},
         NewCredential(c, manage, ends, code)
  PROVE  /\ IsTable(creds, Credentials, Credential)'
         /\ DOMAIN creds' = DOMAIN creds \cup {c}
         /\ \A d \in DOMAIN creds : creds'[d] = creds[d]
         /\ creds'[c].manage = manage /\ creds'[c].ends = ends
         /\ ~creds'[c].revoked /\ creds'[c].code = code
<1> DEFINE x == [manage |-> manage, ends |-> ends, revoked |-> FALSE, code |-> code]
<1>1. x \in Credential
  BY DEF Credential
<1>2. x.manage = manage /\ x.ends = ends /\ ~x.revoked /\ x.code = code
  OBVIOUS
<1>3. creds' = Put(creds, c, x)
  BY DEF NewCredential
<1> HIDE DEF x
<1>4. IsTable(creds, Credentials, Credential)
  BY DEF IInv, TypeOK
<1>5. IsTable(Put(creds, c, x), Credentials, Credential)
      /\ DOMAIN Put(creds, c, x) = DOMAIN creds \cup {c} /\ Put(creds, c, x)[c] = x
      /\ \A d \in DOMAIN creds \ {c} : Put(creds, c, x)[d] = creds[d]
  BY <1>1, <1>4 DEF IsTable, Put
<1>6. IsTable(creds', Credentials, Credential)
  BY <1>3, <1>5
<1>7. QED
  BY <1>2, <1>3, <1>5, <1>6 DEF Credential

\* Who managed for good manages for good.
LEMMA ManagersStay ==
  ASSUME IInv, \A c \in DOMAIN creds : c \in DOMAIN creds' /\ creds'[c] = creds[c]
  PROVE  PermanentManagers(Nobody) \subseteq PermanentManagers(Nobody)'
BY DEF PermanentManagers, Manages, Active

LEMMA NoCredential ==
  ASSUME TypeOK
  PROVE  creds = EmptyTable <=> DOMAIN creds = {}
BY DEF TypeOK, IsTable, EmptyTable

\* A credential that was not paired for.
LEMMA HandedOut ==
  ASSUME IInv, NEW c \in Credentials \ DOMAIN creds, NEW manage \in BOOLEAN,
         NEW ends \in Ends, NewCredential(c, manage, ends, Nobody),
         UNCHANGED <<now, codes, guesses, hub, sweeping, confirmed, tried>>,
         admitted' \subseteq DOMAIN creds,
         creds # EmptyTable \/ (manage /\ ends = Never)
  PROVE  IInv'
<1> USE DEF hub, sweeping
<1>1. IsTable(creds, Credentials, Credential)'
      /\ DOMAIN creds' = DOMAIN creds \cup {c}
      /\ (\A d \in DOMAIN creds : creds'[d] = creds[d])
      /\ creds'[c].manage = manage /\ creds'[c].ends = ends
      /\ ~creds'[c].revoked /\ creds'[c].code = Nobody
  BY CredentialAdded
<1>2. TypeOK'
  <2>1. IsTable(joining, Sockets \ DOMAIN feeds, DOMAIN creds)'
    BY <1>1, WiderTable DEF IInv, TypeOK
  <2>2. IsTable(feeds, Sockets, DOMAIN creds)'
    BY <1>1, WiderTable DEF IInv, TypeOK
  <2>3. sweep' \subseteq [upto : 0..now', left : SUBSET DOMAIN creds']
    BY <1>1 DEF IInv, TypeOK
  <2>4. IsTable(creds, Credentials, Credential)' /\ admitted' \subseteq DOMAIN creds'
    BY <1>1
  <2>5. QED
    BY <2>1, <2>2, <2>3, <2>4 DEF IInv, TypeOK
<1>3. Paired'
  BY <1>1 DEF IInv, Paired
<1>4. Minted' /\ Counted'
  BY <1>1 DEF IInv, Minted, Counted, Outstanding
<1>5. SomebodyManages'
  <2>1. CASE creds # EmptyTable
    BY <1>1, <2>1, ManagersStay DEF IInv, SomebodyManages
  <2>2. CASE manage /\ ends = Never
    <3>1. c \in PermanentManagers(Nobody)'
      BY <1>1, <2>2, Naturals DEF PermanentManagers, Manages, Active
    <3>2. QED
      BY <3>1 DEF SomebodyManages
  <2>3. QED
    BY <2>1, <2>2
<1>6. Watched'
  BY <1>1, HubStays
<1>7. QED
  BY <1>2, <1>3, <1>4, <1>5, <1>6 DEF IInv

LEMMA CodeAdded ==
  ASSUME IInv, NEW p \in Codes \ DOMAIN codes, NEW manage \in BOOLEAN,
         NEW minter \in Credentials \cup {Nobody}, NewCode(p, manage, minter)
  PROVE  /\ IsTable(codes, Codes, Code)' /\ IsTable(tried, DOMAIN codes, 0..Limit)'
         /\ DOMAIN codes' = DOMAIN codes \cup {p} /\ DOMAIN tried' = DOMAIN codes'
         /\ \A q \in DOMAIN codes : codes'[q] = codes[q] /\ tried'[q] = tried[q]
         /\ codes'[p].manage = manage /\ codes'[p].minter = minter /\ tried'[p] = 0
         /\ p \in Outstanding(codes')
<1> DEFINE x == [manage |-> manage, minter |-> minter, ends |-> now + CodeTime,
                 spent |-> FALSE, cancelled |-> FALSE]
<1>1. now \in 0..MaxTime
  BY DEF IInv, TypeOK
<1>2. now + CodeTime \in 0..(MaxTime + CodeTime) /\ now + CodeTime > now
  BY <1>1, Naturals
<1>3. x \in Code
  BY <1>2 DEF Code
<1>4. x.manage = manage /\ x.minter = minter /\ x.ends > now /\ ~x.spent /\ ~x.cancelled
  BY <1>2
<1>5. codes' = Put(codes, p, x) /\ tried' = Put(tried, p, 0)
  BY DEF NewCode
<1> HIDE DEF x
<1>6. IsTable(codes, Codes, Code) /\ IsTable(tried, DOMAIN codes, 0..Limit)
      /\ DOMAIN tried = DOMAIN codes
  BY DEF IInv, TypeOK, Counted
<1>7. DOMAIN codes' = DOMAIN codes \cup {p} /\ DOMAIN tried' = DOMAIN tried \cup {p}
      /\ (\A q \in DOMAIN codes : codes'[q] = codes[q] /\ tried'[q] = tried[q])
      /\ codes'[p] = x /\ tried'[p] = 0
  BY <1>5, <1>6 DEF Put
<1>8. IsTable(codes', Codes, Code)
  BY <1>3, <1>5, <1>6 DEF IsTable, Put
<1>9. IsTable(tried', DOMAIN codes', 0..Limit)
  <2>1. 0 \in 0..Limit
    BY Naturals
  <2>2. QED
    BY <1>5, <1>6, <1>7, <2>1 DEF IsTable, Put
<1>10. p \in Outstanding(codes')
  BY <1>4, <1>7 DEF Outstanding
<1>11. QED
  BY <1>4, <1>6, <1>7, <1>8, <1>9, <1>10

LEMMA CodeKeeps ==
  ASSUME IInv, NEW p \in Codes \ DOMAIN codes, NEW manage \in BOOLEAN,
         NEW minter \in DOMAIN creds \cup {Nobody}, minter = Nobody => manage,
         NewCode(p, manage, minter),
         UNCHANGED <<now, creds, hub, sweeping, confirmed>>,
         admitted' \subseteq DOMAIN creds,
         guesses' = guesses \/ (guesses' = 0 /\ Outstanding(codes') \subseteq {p})
  PROVE  IInv'
<1> USE DEF hub, sweeping
<1>1. DOMAIN creds \subseteq Credentials /\ guesses \in 0..(Limit - 1) /\ 0 \in 0..(Limit - 1)
  BY Naturals DEF IInv, TypeOK, IsTable
<1>2. /\ IsTable(codes, Codes, Code)' /\ IsTable(tried, DOMAIN codes, 0..Limit)'
      /\ DOMAIN codes' = DOMAIN codes \cup {p} /\ DOMAIN tried' = DOMAIN codes'
      /\ \A q \in DOMAIN codes : codes'[q] = codes[q] /\ tried'[q] = tried[q]
      /\ codes'[p].manage = manage /\ codes'[p].minter = minter /\ tried'[p] = 0
  BY <1>1, CodeAdded
<1>3. TypeOK'
  BY <1>1, <1>2 DEF IInv, TypeOK
<1>4. Paired' /\ Minted'
  BY <1>2 DEF IInv, Paired, Minted
<1>5. Counted'
  <2>1. Outstanding(codes)' = Outstanding(codes')
    BY DEF Outstanding
  <2>2. ASSUME NEW q \in Outstanding(codes'), q # p
        PROVE  q \in Outstanding(codes) /\ tried'[q] = tried[q]
    BY <1>2, <2>2 DEF Outstanding
  <2>3. ASSUME NEW q \in Outstanding(codes')
        PROVE  tried'[q] <= guesses'
    <3>1. CASE q = p
      BY <1>1, <1>2, <3>1
    <3>2. CASE q # p
      BY <2>2, <3>2 DEF IInv, Counted
    <3>3. QED
      BY <3>1, <3>2
  <2>4. QED
    BY <1>2, <2>1, <2>3 DEF Counted
<1>6. SomebodyManages'
  BY DEF IInv, SomebodyManages, PermanentManagers, Manages, Active
<1>7. Watched'
  BY HubStays
<1>8. QED
  BY <1>3, <1>4, <1>5, <1>6, <1>7 DEF IInv

-----------------------------------------------------------------------------
(* Requests.                                                               *)

\* What neither touches a credential nor a feed, and only marks codes.
LEMMA OnlyMarks ==
  ASSUME IInv, UNCHANGED <<now, creds, guesses, hub, sweeping, confirmed, tried>>,
         Marks(codes, codes'), admitted' \subseteq DOMAIN creds
  PROVE  IInv'
<1> USE DEF hub, sweeping
<1>1. IsTable(codes, Codes, Code)' /\ DOMAIN codes' = DOMAIN codes
  BY MarksTable DEF IInv, TypeOK
<1>2. TypeOK'
  BY <1>1 DEF IInv, TypeOK
<1>3. now' \in Nat /\ now' >= now
  BY DEF IInv, TypeOK
<1>4. QED
  BY <1>2, <1>3, RecordsStay, CountStays, HubStays DEF IInv

LEMMA AdmitKeeps == ASSUME IInv, NEW c, Admit(c) PROVE IInv'
<1>1. admitted' \subseteq DOMAIN creds
  BY DEF IInv, TypeOK, Admit, Manages, Active
<1>2. Marks(codes, codes')
  BY MarksSelf DEF IInv, Admit, records
<1>3. QED
  BY <1>1, <1>2, OnlyMarks DEF Admit, records

LEMMA IssueKeeps ==
  ASSUME IInv, NEW by, NEW c \in Credentials, NEW manage \in BOOLEAN,
         NEW ends \in Ends, Issue(by, c, manage, ends)
  PROVE  IInv'
<1>1. creds # EmptyTable /\ admitted' \subseteq DOMAIN creds
  BY NoCredential DEF IInv, TypeOK, Issue
<1>2. QED
  BY <1>1, HandedOut DEF Issue

LEMMA MintKeeps ==
  ASSUME IInv, NEW by, NEW p \in Codes, NEW manage \in BOOLEAN, Mint(by, p, manage)
  PROVE  IInv'
<1>1. by \in DOMAIN creds /\ by \in Credentials /\ admitted' \subseteq DOMAIN creds
      /\ by # Nobody
  BY Naturals DEF IInv, TypeOK, IsTable, Mint
<1>2. p \in Outstanding(codes') /\ IsTable(codes', Codes, Code)
  BY <1>1, CodeAdded DEF Mint
<1>3. guesses' = guesses \/ (guesses' = 0 /\ Outstanding(codes') \subseteq {p})
  <2> DEFINE open == Outstanding(codes')
  <2>1. IsFiniteSet(open)
    BY <1>2, Naturals, FS_Subset DEF IsTable, Outstanding
  <2>2. guesses' = IF Cardinality(open) <= 1 THEN 0 ELSE guesses
    BY DEF Mint, CountAfterMint
  <2> HIDE DEF open
  <2>3. p \in open
    BY <1>2 DEF open
  <2>4. Cardinality(open) \in Nat /\ IsFiniteSet(open \ {p})
        /\ Cardinality(open \ {p}) = Cardinality(open) - 1
        /\ Cardinality(open \ {p}) \in Nat
    BY <2>1, <2>3, FS_CardinalityType, FS_RemoveElement
  <2>5. CASE Cardinality(open) <= 1
    <3>1. Cardinality(open \ {p}) = 0
      BY <2>4, <2>5
    <3>2. open \ {p} = {}
      BY <2>4, <3>1, FS_EmptySet
    <3>3. QED
      BY <2>2, <2>5, <3>2 DEF open
  <2>6. CASE ~(Cardinality(open) <= 1)
    BY <2>2, <2>6
  <2>7. QED
    BY <2>5, <2>6
<1>4. QED
  BY <1>1, <1>3, CodeKeeps DEF Mint

LEMMA CancelCodeKeeps ==
  ASSUME IInv, NEW by, NEW p, CancelCode(by, p)
  PROVE  IInv'
BY CancelledMarks, OnlyMarks DEF CancelCode, IInv, TypeOK

\* The last permanent manager goes only if somebody has confirmed it, and the
\* feeds of the one that goes are on the list at once.
LEMMA RevokeKeeps ==
  ASSUME IInv, NEW by, NEW c, NEW confirm \in BOOLEAN, Revoke(by, c, confirm)
  PROVE  IInv'
<1> USE DEF hub, sweeping
<1>1. c \in DOMAIN creds /\ admitted' \subseteq DOMAIN creds
  BY DEF Revoke, IInv, TypeOK
<1>2. CASE creds[c].revoked
  <2>1. Marks(codes, codes')
    BY <1>2, MarksSelf DEF IInv, Revoke, records
  <2>2. UNCHANGED <<now, creds, guesses, hub, sweeping, confirmed, tried>>
    BY <1>2 DEF Revoke, records
  <2>3. QED
    BY <1>1, <2>1, <2>2, OnlyMarks
<1>3. CASE ~creds[c].revoked
  <2>1. /\ creds' = [creds EXCEPT ![c].revoked = TRUE]
        /\ codes' = Cancelled({p \in DOMAIN codes : codes[p].minter = c})
        /\ doomed' = doomed \cup {k \in DOMAIN feeds : feeds[k] = c}
        /\ confirmed' = (confirmed \/ confirm)
        /\ confirm \/ PermanentManagers(c) # {}
        /\ UNCHANGED <<now, guesses, joining, feeds, late, sweeping, tried>>
    BY <1>3 DEF Revoke
  <2>2. Marks(codes, codes')
    BY <2>1, CancelledMarks DEF IInv
  <2>3. IsTable(codes, Codes, Code)' /\ DOMAIN codes' = DOMAIN codes
    BY <2>2, MarksTable DEF IInv, TypeOK
  <2>4. creds \in [DOMAIN creds -> Credential] /\ DOMAIN creds \subseteq Credentials
    BY DEF IInv, TypeOK, IsTable
  <2>5. DOMAIN creds' = DOMAIN creds /\ creds' \in [DOMAIN creds -> Credential]
        /\ \A d \in DOMAIN creds \ {c} : creds'[d] = creds[d]
    BY <2>1, <2>4 DEF Credential
  <2>6. creds'[c].code = creds[c].code /\ creds'[c].manage = creds[c].manage
    BY <1>1, <2>1, <2>4 DEF Credential
  <2>7. TypeOK'
    <3>1. IsTable(creds, Credentials, Credential)'
      BY <2>4, <2>5 DEF IsTable
    <3>2. confirmed' \in BOOLEAN
      BY <2>1 DEF IInv, TypeOK
    <3>3. doomed' \subseteq DOMAIN feeds'
      BY <2>1 DEF IInv, TypeOK
    <3>4. QED
      BY <1>1, <2>1, <2>3, <2>5, <3>1, <3>2, <3>3 DEF IInv, TypeOK
  <2>8. Paired' /\ Minted'
    <3>1. \A p \in DOMAIN codes : /\ codes'[p].manage = codes[p].manage
                                  /\ codes'[p].minter = codes[p].minter
                                  /\ codes[p].spent => codes'[p].spent
      BY <2>2 DEF Marks
    <3>2. \A d \in DOMAIN creds : creds'[d].code = creds[d].code
                                  /\ creds'[d].manage = creds[d].manage
      BY <2>5, <2>6
    <3>3. QED
      BY <2>3, <2>5, <3>1, <3>2 DEF IInv, Paired, Minted
  <2>9. Counted'
    <3>1. now' \in Nat /\ now' >= now
      BY <2>1 DEF IInv, TypeOK
    <3>2. QED
      BY <2>1, <2>2, <3>1, CountStays
  <2>10. SomebodyManages'
    <3>1. CASE confirm
      BY <2>1, <3>1 DEF SomebodyManages
    <3>2. CASE PermanentManagers(c) # {}
      <4>1. PICK d \in PermanentManagers(c) : TRUE
        BY <3>2
      <4>2. d \in DOMAIN creds /\ d # c /\ Manages(d) /\ creds[d].ends = Never
        BY <4>1 DEF PermanentManagers
      <4>3. d # Nobody
        BY <2>4, <4>2, Naturals
      <4>4. d \in PermanentManagers(Nobody)'
        BY <2>1, <2>5, <4>2, <4>3 DEF PermanentManagers, Manages, Active
      <4>5. QED
        BY <4>4 DEF SomebodyManages
    <3>3. QED
      BY <2>1, <3>1, <3>2
  <2>11. Watched'
    <3>1. ASSUME NEW k \in DOMAIN feeds \ (doomed' \cup late)
          PROVE  feeds[k] \in DOMAIN creds \ {c} /\ k \notin doomed
      BY <2>1 DEF IInv, TypeOK, IsTable
    <3>2. QED
      BY <2>1, <2>5, <3>1 DEF IInv, Watched
  <2>12. QED
    BY <2>7, <2>8, <2>9, <2>10, <2>11 DEF IInv
<1>4. QED
  BY <1>2, <1>3

-----------------------------------------------------------------------------
(* Pairing.                                                                *)

LEMMA PairKeeps ==
  ASSUME IInv, NEW p, NEW c \in Credentials, Pair(p, c)
  PROVE  IInv'
<1> USE DEF hub, sweeping
<1>1. p \in DOMAIN codes /\ p \in Codes /\ ~codes[p].spent /\ c \notin DOMAIN creds
      /\ codes[p].manage \in BOOLEAN
  BY Naturals DEF Pair, Redeemable, IInv, TypeOK, IsTable, Code
<1>2. /\ codes' = [codes EXCEPT ![p].spent = TRUE]
      /\ NewCredential(c, codes[p].manage, Never, p)
      /\ UNCHANGED <<now, admitted, guesses, hub, sweeping, confirmed, tried>>
  BY DEF Pair
<1>3. Marks(codes, codes') /\ codes'[p].spent
  BY <1>1, <1>2, SpentMarks DEF IInv, TypeOK
<1>4. IsTable(codes, Codes, Code)' /\ DOMAIN codes' = DOMAIN codes
  BY <1>3, MarksTable DEF IInv, TypeOK
<1>5. \A q \in DOMAIN codes : /\ codes'[q].manage = codes[q].manage
                              /\ codes'[q].minter = codes[q].minter
                              /\ codes[q].spent => codes'[q].spent
  BY <1>3 DEF Marks
<1>6. /\ IsTable(creds, Credentials, Credential)'
      /\ DOMAIN creds' = DOMAIN creds \cup {c}
      /\ \A d \in DOMAIN creds : creds'[d] = creds[d]
      /\ creds'[c].manage = codes[p].manage /\ creds'[c].ends = Never
      /\ ~creds'[c].revoked /\ creds'[c].code = p
  BY <1>1, <1>2, Naturals, CredentialAdded
<1>7. TypeOK'
  <2>1. IsTable(joining, Sockets \ DOMAIN feeds, DOMAIN creds)'
    BY <1>2, <1>6, WiderTable DEF IInv, TypeOK
  <2>2. IsTable(feeds, Sockets, DOMAIN creds)'
    BY <1>2, <1>6, WiderTable DEF IInv, TypeOK
  <2>3. sweep' \subseteq [upto : 0..now', left : SUBSET DOMAIN creds']
    BY <1>2, <1>6 DEF IInv, TypeOK
  <2>4. admitted' \subseteq DOMAIN creds'
    BY <1>2, <1>6 DEF IInv, TypeOK
  <2>5. QED
    BY <1>2, <1>4, <1>6, <2>1, <2>2, <2>3, <2>4 DEF IInv, TypeOK
<1>8. Paired'
  <2>1. \A d \in DOMAIN creds : creds[d].code # Nobody => creds[d].code # p
    BY <1>1 DEF IInv, Paired
  <2>2. QED
    BY <1>1, <1>3, <1>4, <1>5, <1>6, <2>1 DEF IInv, Paired
<1>9. Minted'
  BY <1>4, <1>5, <1>6 DEF IInv, Minted
<1>10. Counted'
  <2>1. now' \in Nat /\ now' >= now
    BY <1>2 DEF IInv, TypeOK
  <2>2. QED
    BY <1>2, <1>3, <2>1, CountStays
<1>11. SomebodyManages'
  <2>1. CASE creds # EmptyTable
    <3>1. PermanentManagers(Nobody) \subseteq PermanentManagers(Nobody)'
      BY <1>6, ManagersStay
    <3>2. QED
      BY <1>2, <2>1, <3>1 DEF IInv, SomebodyManages
  <2>2. CASE creds = EmptyTable
    <3>1. DOMAIN creds = {}
      BY <2>2, NoCredential DEF IInv
    <3>2. codes[p].minter = Nobody
      BY <3>1 DEF Pair, Redeemable, RedeemableUnmarked, Active
    <3>3. codes[p].manage
      BY <1>1, <3>2 DEF IInv, Minted
    <3>4. c \in PermanentManagers(Nobody)'
      BY <1>6, <3>3, Naturals DEF PermanentManagers, Manages, Active
    <3>5. QED
      BY <3>4 DEF SomebodyManages
  <2>3. QED
    BY <2>1, <2>2
<1>12. Watched'
  BY <1>2, <1>6, HubStays
<1>13. QED
  BY <1>7, <1>8, <1>9, <1>10, <1>11, <1>12 DEF IInv

\* After a wrong code the count has grown, or nothing is left to be guessed.
LEMMA WrongKeeps ==
  ASSUME IInv, NEW table, Marks(codes, table), Wrong(table),
         UNCHANGED <<now, creds, admitted, hub, sweeping, confirmed>>
  PROVE  IInv'
<1> DEFINE open == Outstanding(table)
<1> USE DEF hub, sweeping
<1>1. IsTable(table, Codes, Code) /\ DOMAIN table = DOMAIN codes
      /\ open \subseteq Outstanding(codes)
  BY MarksTable DEF IInv, TypeOK
<1>2. /\ tried' = [p \in DOMAIN tried |-> IF p \in open /\ tried[p] < Limit
                                          THEN tried[p] + 1 ELSE tried[p]]
      /\ guesses' = IF open = {} \/ guesses + 1 >= Limit THEN 0 ELSE guesses + 1
      /\ codes' = IF guesses + 1 >= Limit
                  THEN [p \in DOMAIN table |-> IF p \in open
                          THEN [table[p] EXCEPT !.cancelled = TRUE] ELSE table[p]]
                  ELSE table
  BY DEF Wrong, Full
<1> HIDE DEF open
<1>3. Marks(codes, codes') /\ Marks(table, codes')
  <2>1. CASE guesses + 1 >= Limit
    BY <1>1, <1>2, <2>1, CancelMarks, MarksTwice
  <2>2. CASE ~(guesses + 1 >= Limit)
    <3>1. table = [q \in DOMAIN table |-> table[q]]
      BY <1>1 DEF IsTable
    <3>2. Marks(table, table)
      BY <1>1, <3>1, ChangesMark DEF Changed
    <3>3. QED
      BY <1>2, <2>2, <3>2
  <2>3. QED
    BY <2>1, <2>2
<1>4. IsTable(codes, Codes, Code)' /\ DOMAIN codes' = DOMAIN codes
  BY <1>3, MarksTable DEF IInv, TypeOK
<1>5. guesses \in 0..(Limit - 1) /\ Limit \in Nat /\ Limit > 0
      /\ tried \in [DOMAIN codes -> 0..Limit] /\ DOMAIN tried = DOMAIN codes
  BY Naturals DEF IInv, TypeOK, Counted, IsTable
<1>6. tried' \in [DOMAIN codes -> 0..Limit]
  <2>1. \A p \in DOMAIN codes : tried[p] \in 0..Limit
    BY <1>5
  <2>2. QED
    BY <1>2, <1>5, <2>1
<1>7. TypeOK'
  <2>1. guesses' \in 0..(Limit - 1)
    BY <1>2, <1>5
  <2>2. IsTable(tried, DOMAIN codes, 0..Limit)'
    BY <1>4, <1>6 DEF IsTable
  <2>3. QED
    BY <1>4, <2>1, <2>2 DEF IInv, TypeOK
<1>8. Counted'
  <2>1. Outstanding(codes)' \subseteq open
    BY <1>1, <1>3, MarksTable DEF Outstanding, open
  <2>2. ASSUME NEW p \in Outstanding(codes)', guesses + 1 < Limit
        PROVE  tried'[p] <= guesses'
    <3>1. p \in open /\ p \in Outstanding(codes) /\ p \in DOMAIN codes
      BY <1>1, <2>1 DEF Outstanding
    <3>2. tried[p] <= guesses /\ tried[p] \in 0..Limit
      BY <1>5, <3>1 DEF IInv, Counted
    <3>3. tried'[p] = tried[p] + 1 /\ guesses' = guesses + 1
      BY <1>2, <1>5, <2>2, <3>1, <3>2
    <3>4. QED
      BY <1>5, <3>2, <3>3
  <2>3. ASSUME guesses + 1 >= Limit
        PROVE  Outstanding(codes)' = {}
    <3>1. \A p \in open : codes'[p].cancelled
      BY <1>1, <1>2, <2>3 DEF IsTable, Code, Outstanding, open
    <3>2. QED
      BY <2>1, <3>1 DEF Outstanding
  <2>4. DOMAIN tried' = DOMAIN codes'
    BY <1>2, <1>4, <1>5
  <2>5. QED
    BY <1>5, <2>2, <2>3, <2>4 DEF Counted
<1>9. QED
  BY <1>3, <1>7, <1>8, RecordsStay, HubStays DEF IInv

LEMMA PairUnknownKeeps == ASSUME IInv, PairUnknown PROVE IInv'
BY MarksSelf, WrongKeeps DEF PairUnknown, IInv

LEMMA PairRefusedKeeps == ASSUME IInv, NEW p, PairRefused(p) PROVE IInv'
BY SpentMarks, WrongKeeps DEF PairRefused, IInv, TypeOK

-----------------------------------------------------------------------------
(* Live feeds.                                                             *)

\* What touches the feeds and the sweep only.
LEMMA OnlyFeeds ==
  ASSUME IInv, TypeOK', Watched', UNCHANGED <<now, records, guesses, confirmed, tried>>
  PROVE  IInv'
<1>1. Marks(codes, codes') /\ now' \in Nat /\ now' >= now
  BY MarksSelf DEF IInv, records, TypeOK
<1>2. QED
  BY <1>1, RecordsStay, CountStays DEF IInv, records

LEMMA JoinKeeps ==
  ASSUME IInv, NEW k \in Sockets, NEW c, Join(k, c)
  PROVE  IInv'
<1> USE DEF records, sweeping
<1>1. TypeOK'
  <2>1. IsTable(joining, Sockets \ DOMAIN feeds, DOMAIN creds)
        /\ k \in Sockets \ DOMAIN feeds /\ c \in DOMAIN creds
    BY DEF IInv, TypeOK, Join, Active
  <2>2. IsTable(joining', Sockets \ DOMAIN feeds, DOMAIN creds)
    BY <2>1, PutTable DEF Join
  <2>3. QED
    BY <2>2 DEF IInv, TypeOK, Join
<1>2. Watched'
  BY DEF IInv, Watched, Join
<1>3. QED
  BY <1>1, <1>2, OnlyFeeds DEF Join

LEMMA JoinedKeeps ==
  ASSUME IInv, NEW k, Joined(k)
  PROVE  IInv'
<1> USE DEF records, sweeping
<1>1. /\ IsTable(joining, Sockets \ DOMAIN feeds, DOMAIN creds)
      /\ IsTable(feeds, Sockets, DOMAIN creds)
      /\ k \in DOMAIN joining /\ k \in Sockets \ DOMAIN feeds
      /\ joining[k] \in DOMAIN creds
      /\ joining' = Drop(joining, k) /\ feeds' = Put(feeds, k, joining[k])
  BY DEF IInv, TypeOK, Joined, IsTable
<1>2. DOMAIN feeds' = DOMAIN feeds \cup {k} /\ feeds'[k] = joining[k]
      /\ (\A x \in DOMAIN feeds : feeds'[x] = feeds[x])
      /\ IsTable(feeds', Sockets, DOMAIN creds)
  BY <1>1 DEF IsTable, Put
<1>3. IsTable(joining', Sockets \ DOMAIN feeds', DOMAIN creds)
  BY <1>1, <1>2 DEF IsTable, Drop
<1>4. TypeOK'
  BY <1>2, <1>3 DEF IInv, TypeOK, Joined
<1>5. Watched'
  <2>1. ASSUME NEW x \in DOMAIN feeds' \ (doomed' \cup late')
        PROVE  /\ ~creds'[feeds'[x]].revoked
               /\ creds'[feeds'[x]].ends # Never =>
                    /\ creds'[feeds'[x]].ends > since'
                    /\ \A r \in sweep' : creds'[feeds'[x]].ends <= r.upto => feeds'[x] \in r.left
    <3>1. CASE x = k
      <4>1. ~DealtWith(joining[k])
        BY <2>1, <3>1 DEF Joined
      <4>2. creds[joining[k]].ends \in Int /\ since \in Int
        BY <1>1, EndsTyped DEF IInv, TypeOK, IsTable
      <4>3. QED
        BY <1>2, <3>1, <4>1, <4>2 DEF DealtWith, Joined
    <3>2. CASE x # k
      <4>1. x \in DOMAIN feeds \ (doomed \cup late) /\ feeds'[x] = feeds[x]
        BY <1>2, <2>1, <3>2 DEF Joined
      <4>2. QED
        BY <4>1 DEF IInv, Watched, Joined
    <3>3. QED
      BY <3>1, <3>2
  <2>2. QED
    BY <2>1 DEF Watched
<1>6. QED
  BY <1>4, <1>5, OnlyFeeds DEF Joined

LEMMA LeaveKeeps ==
  ASSUME IInv, NEW k, Leave(k)
  PROVE  IInv'
<1> USE DEF records, sweeping
<1>1. IsTable(feeds, Sockets, DOMAIN creds) /\ feeds' = Drop(feeds, k)
  BY DEF IInv, TypeOK, Leave
<1>2. /\ DOMAIN feeds' = DOMAIN feeds \ {k} /\ IsTable(feeds', Sockets, DOMAIN creds)
      /\ \A x \in DOMAIN feeds' : feeds'[x] = feeds[x]
  BY <1>1 DEF IsTable, Drop
<1>3. TypeOK'
  <2>1. IsTable(joining', Sockets \ DOMAIN feeds', DOMAIN creds')
    BY <1>2 DEF IInv, TypeOK, IsTable, Leave
  <2>2. QED
    BY <1>2, <2>1 DEF IInv, TypeOK, Leave
<1>4. Watched'
  BY <1>2 DEF IInv, Watched, Leave
<1>5. QED
  BY <1>3, <1>4, OnlyFeeds DEF Leave

\* Whoever ran out since the last sweep is on the list of this one.
LEMMA SweepBeginsKeeps == ASSUME IInv, SweepBegins PROVE IInv'
<1> USE DEF records, hub
<1>1. now \in Nat /\ since \in Nat /\ since < now
      /\ sweep' = {[upto |-> now, left |-> ExpiredBetween(since, now)]}
      /\ UNCHANGED <<now, records, admitted, guesses, hub, since, confirmed, tried>>
  BY DEF IInv, TypeOK, SweepBegins
<1>2. TypeOK'
  <2>1. ExpiredBetween(since, now) \subseteq DOMAIN creds
    BY DEF ExpiredBetween
  <2>2. sweep' \subseteq [upto : 0..now', left : SUBSET DOMAIN creds']
    BY <1>1, <2>1
  <2>3. QED
    BY <1>1, <2>2 DEF IInv, TypeOK
<1>3. Watched'
  <2>1. ASSUME NEW k \in DOMAIN feeds \ (doomed \cup late),
               creds[feeds[k]].ends # Never, creds[feeds[k]].ends <= now
        PROVE  feeds[k] \in ExpiredBetween(since, now)
    <3>1. feeds[k] \in DOMAIN creds /\ creds[feeds[k]].ends \in Int
      BY EndsTyped DEF IInv, TypeOK, IsTable
    <3>2. ~creds[feeds[k]].revoked /\ creds[feeds[k]].ends > since
      BY <2>1 DEF IInv, Watched
    <3>3. creds[feeds[k]].ends \in (since + 1)..now
      BY <1>1, <2>1, <3>1, <3>2
    <3>4. QED
      BY <3>1, <3>2, <3>3 DEF ExpiredBetween
  <2>2. \A r \in sweep' : r.upto = now /\ r.left = ExpiredBetween(since, now)
    BY <1>1
  <2>3. QED
    BY <1>1, <2>1, <2>2 DEF IInv, Watched
<1>4. QED
  BY <1>1, <1>2, <1>3, OnlyFeeds

\* Whoever ran out in the window of a sweep that raised is late.
LEMMA SweepRaisesKeeps == ASSUME IInv, SweepRaises PROVE IInv'
<1> USE DEF records
<1>1. now \in Nat /\ since \in Nat /\ since < now /\ sweep = {} /\ sweep' = {}
      /\ since' = now
      /\ late' = late \cup {k \in DOMAIN feeds : feeds[k] \in ExpiredBetween(since, now)}
      /\ UNCHANGED <<now, records, admitted, guesses, joining, feeds, doomed, confirmed, tried>>
  BY DEF IInv, TypeOK, SweepRaises
<1>2. TypeOK'
  <2>1. late' \subseteq DOMAIN feeds'
    BY <1>1 DEF IInv, TypeOK
  <2>2. QED
    BY <1>1, <2>1 DEF IInv, TypeOK
<1>3. Watched'
  <2>1. ASSUME NEW k \in DOMAIN feeds \ (doomed \cup late'), creds[feeds[k]].ends # Never
        PROVE  creds[feeds[k]].ends > now
    <3>1. feeds[k] \in DOMAIN creds /\ creds[feeds[k]].ends \in Int
      BY EndsTyped DEF IInv, TypeOK, IsTable
    <3>2. ~creds[feeds[k]].revoked /\ creds[feeds[k]].ends > since
      BY <1>1, <2>1 DEF IInv, Watched
    <3>3. feeds[k] \notin ExpiredBetween(since, now)
      BY <1>1, <2>1
    <3>4. creds[feeds[k]].ends \notin (since + 1)..now
      BY <3>1, <3>2, <3>3 DEF ExpiredBetween
    <3>5. QED
      BY <1>1, <3>1, <3>2, <3>4
  <2>2. QED
    BY <1>1, <2>1 DEF IInv, Watched
<1>4. QED
  BY <1>1, <1>2, <1>3, OnlyFeeds

LEMMA SweepClosesKeeps ==
  ASSUME IInv, NEW r, NEW c, SweepCloses(r, c)
  PROVE  IInv'
<1> USE DEF records
<1>1. /\ r \in sweep /\ r \in [upto : 0..now, left : SUBSET DOMAIN creds]
      /\ sweep' = {[r EXCEPT !.left = r.left \ {c}]}
      /\ doomed' = doomed \cup {k \in DOMAIN feeds : feeds[k] = c}
      /\ UNCHANGED <<now, records, admitted, guesses, joining, feeds, late, since,
                     confirmed, tried>>
  BY DEF IInv, TypeOK, SweepCloses
<1>2. PICK q : q = [r EXCEPT !.left = r.left \ {c}]
  OBVIOUS
<1>3. q \in [upto : 0..now, left : SUBSET DOMAIN creds]
      /\ q.upto = r.upto /\ q.left = r.left \ {c}
  BY <1>1, <1>2
<1>4. sweep' = {q}
  BY <1>1, <1>2
<1>5. TypeOK'
  <2>1. doomed' \subseteq DOMAIN feeds'
    BY <1>1 DEF IInv, TypeOK
  <2>2. sweep' \subseteq [upto : 0..now', left : SUBSET DOMAIN creds']
    BY <1>1, <1>3, <1>4
  <2>3. QED
    BY <1>1, <2>1, <2>2 DEF IInv, TypeOK
<1>6. Watched'
  <2>1. ASSUME NEW k \in DOMAIN feeds \ (doomed' \cup late)
        PROVE  k \notin doomed /\ feeds[k] # c
    BY <1>1
  <2>2. QED
    BY <1>1, <1>3, <1>4, <2>1 DEF IInv, Watched
<1>7. QED
  BY <1>1, <1>5, <1>6, OnlyFeeds

\* The next sweep begins where this one looked to, and nobody is left before it.
LEMMA SweepEndsKeeps ==
  ASSUME IInv, NEW r, SweepEnds(r)
  PROVE  IInv'
<1> USE DEF records, hub
<1>1. /\ r \in sweep /\ r.left = {} /\ r.upto \in 0..now
      /\ since' = r.upto /\ sweep' = {}
      /\ UNCHANGED <<now, records, admitted, guesses, hub, confirmed, tried>>
  BY DEF IInv, TypeOK, SweepEnds
<1>2. TypeOK'
  BY <1>1 DEF IInv, TypeOK
<1>3. Watched'
  <2>1. ASSUME NEW k \in DOMAIN feeds \ (doomed \cup late), creds[feeds[k]].ends # Never
        PROVE  creds[feeds[k]].ends > r.upto
    <3>1. creds[feeds[k]].ends \in Int
      BY EndsTyped DEF IInv, TypeOK, IsTable
    <3>2. ~(creds[feeds[k]].ends <= r.upto)
      BY <1>1, <2>1 DEF IInv, Watched
    <3>3. QED
      BY <1>1, <3>1, <3>2
  <2>2. QED
    BY <1>1, <2>1 DEF IInv, Watched
<1>4. QED
  BY <1>1, <1>2, <1>3, OnlyFeeds

-----------------------------------------------------------------------------
(* Around it.                                                              *)

LEMMA RecoverTokenKeeps ==
  ASSUME IInv, NEW c \in Credentials, RecoverToken(c)
  PROVE  IInv'
<1>1. Never \in Ends /\ admitted' \subseteq DOMAIN creds
  BY Naturals DEF IInv, TypeOK, RecoverToken
<1>2. QED
  BY <1>1, HandedOut DEF RecoverToken

LEMMA RecoverCodeKeeps ==
  ASSUME IInv, NEW p \in Codes, RecoverCode(p)
  PROVE  IInv'
<1>1. admitted' \subseteq DOMAIN creds
  BY DEF IInv, TypeOK, RecoverCode
<1>2. QED
  BY <1>1, CodeKeeps DEF RecoverCode

LEMMA RestartKeeps == ASSUME IInv, Restart PROVE IInv'
<1> USE DEF records
<1>1. now \in 0..MaxTime /\ now' \in 0..now /\ UNCHANGED <<records, confirmed>>
      /\ joining' = EmptyTable /\ feeds' = EmptyTable /\ sweep' = {} /\ since' = now'
  BY DEF IInv, TypeOK, Restart
<1>2. DOMAIN feeds' = {} /\ IsTable(feeds, Sockets, DOMAIN creds)'
      /\ IsTable(joining, Sockets \ DOMAIN feeds, DOMAIN creds)'
  BY <1>1, EmptyIsTable
<1>3. IsTable(tried, DOMAIN codes, 0..Limit)' /\ DOMAIN tried' = DOMAIN tried
      /\ \A p \in DOMAIN tried : tried'[p] = 0
  BY <1>1, Naturals DEF IInv, TypeOK, IsTable, Restart
<1>4. TypeOK'
  <2>1. guesses' \in 0..(Limit - 1) /\ now' \in 0..MaxTime /\ since' \in 0..now'
    BY <1>1, Naturals DEF Restart
  <2>2. QED
    BY <1>1, <1>2, <1>3, <2>1 DEF IInv, TypeOK, Restart
<1>5. Marks(codes, codes')
  BY <1>1, MarksSelf DEF IInv
<1>6. Counted'
  BY <1>1, <1>3 DEF IInv, Counted, Outstanding, Restart
<1>7. Watched'
  BY <1>2 DEF Watched
<1>8. QED
  BY <1>1, <1>4, <1>5, <1>6, <1>7, RecordsStay DEF IInv

LEMMA PassKeeps == ASSUME IInv, Pass PROVE IInv'
<1> USE DEF records, hub, sweeping
<1>1. now \in 0..MaxTime /\ now < MaxTime /\ now' = now + 1
      /\ UNCHANGED <<records, admitted, guesses, hub, sweeping, confirmed, tried>>
  BY DEF IInv, TypeOK, Pass
<1>2. now' \in 0..MaxTime /\ since \in 0..now' /\ 0..now \subseteq 0..now'
      /\ now' \in Nat /\ now' >= now
  BY <1>1, Naturals DEF IInv, TypeOK
<1>3. sweep \subseteq [upto : 0..now', left : SUBSET DOMAIN creds]
  BY <1>2 DEF IInv, TypeOK
<1>4. TypeOK'
  BY <1>1, <1>2, <1>3 DEF IInv, TypeOK
<1>5. Marks(codes, codes')
  BY <1>1, MarksSelf DEF IInv
<1>6. QED
  BY <1>1, <1>2, <1>4, <1>5, RecordsStay, CountStays, HubStays DEF IInv

LEMMA InitKeeps == Init => IInv
<1> SUFFICES ASSUME Init PROVE IInv
  OBVIOUS
<1> USE DEF Init
<1>1. \A K, V : IsTable(EmptyTable, K, V)
  BY EmptyIsTable
<1>2. DOMAIN EmptyTable = {}
  BY EmptyIsTable
<1>3. TypeOK
  <2>1. now \in 0..MaxTime /\ since \in 0..now /\ guesses \in 0..(Limit - 1)
    BY Naturals
  <2>2. admitted \subseteq DOMAIN creds /\ doomed \subseteq DOMAIN feeds
        /\ late \subseteq DOMAIN feeds
        /\ sweep \subseteq [upto : 0..now, left : SUBSET DOMAIN creds]
        /\ confirmed \in BOOLEAN
    OBVIOUS
  <2>3. IsTable(creds, Credentials, Credential) /\ IsTable(codes, Codes, Code)
        /\ IsTable(joining, Sockets \ DOMAIN feeds, DOMAIN creds)
        /\ IsTable(feeds, Sockets, DOMAIN creds) /\ IsTable(tried, DOMAIN codes, 0..Limit)
    BY <1>1
  <2>4. QED
    BY <2>1, <2>2, <2>3 DEF TypeOK
<1>4. Paired /\ Minted /\ Counted /\ SomebodyManages /\ Watched
  BY <1>2 DEF Paired, Minted, Counted, Outstanding, SomebodyManages, Watched
<1>5. QED
  BY <1>3, <1>4 DEF IInv

LEMMA NextKeeps == IInv /\ [Next]_vars => IInv'
<1> SUFFICES ASSUME IInv, [Next]_vars PROVE IInv'
  OBVIOUS
<1>1. CASE \E by \in Credentials : Managing(by)
  BY <1>1, AdmitKeeps, IssueKeeps, MintKeeps, RevokeKeeps, CancelCodeKeeps DEF Managing
<1>2. CASE \E p \in Codes : \/ \E c \in Credentials : Pair(p, c)
                           \/ PairRefused(p) \/ RecoverCode(p)
  BY <1>2, PairKeeps, PairRefusedKeeps, RecoverCodeKeeps
<1>3. CASE PairUnknown
  BY <1>3, PairUnknownKeeps
<1>4. CASE \E k \in Sockets : \/ \E c \in Credentials : Join(k, c)
                             \/ Joined(k) \/ Leave(k) \/ CloseFor(k)
  BY <1>4, JoinKeeps, JoinedKeeps, LeaveKeeps DEF CloseFor
<1>5. CASE SweepBegins \/ SweepRaises \/ \E r \in sweep : SweepEnds(r) \/ \E c \in r.left : SweepCloses(r, c)
  BY <1>5, SweepBeginsKeeps, SweepRaisesKeeps, SweepEndsKeeps, SweepClosesKeeps
<1>6. CASE \E c \in Credentials : RecoverToken(c)
  BY <1>6, RecoverTokenKeeps
<1>7. CASE Restart \/ Pass
  BY <1>7, RestartKeeps, PassKeeps
<1>8. CASE UNCHANGED vars
  <2> USE <1>8 DEF vars, records, hub, sweeping
  <2>1. TypeOK'
    BY DEF IInv, TypeOK
  <2>2. admitted' \subseteq DOMAIN creds /\ Marks(codes, codes')
    BY MarksSelf DEF IInv, TypeOK
  <2>3. QED
    BY <2>2, OnlyMarks
<1>9. QED
  BY <1>1, <1>2, <1>3, <1>4, <1>5, <1>6, <1>7, <1>8 DEF Next

LEMMA Invariance == Spec => []IInv
<1>1. IInv /\ [Next]_vars => IInv'
  BY NextKeeps
<1>2. QED
  BY InitKeeps, <1>1, PTL DEF Spec

-----------------------------------------------------------------------------
(* The tables implement Pairings.                                          *)

\* What a caller or a try may do to what is there: end it.
Fades ==
  /\ DOMAIN creds' = DOMAIN creds /\ Marks(codes, codes')
  /\ \A c \in DOMAIN creds :
       /\ creds'[c].code = creds[c].code /\ creds'[c].ends = creds[c].ends
       /\ creds[c].revoked => creds'[c].revoked

\* A later clock makes nobody active again, and no code good.
LEMMA ActiveEnds ==
  ASSUME IInv, IInv', Fades, now' >= now, NEW c \in DOMAIN creds, Active(c)'
  PROVE  Active(c)
<1>1. now \in Nat /\ now' \in Nat /\ creds[c].ends \in Int
  BY EndsTyped DEF IInv, TypeOK
<1>2. QED
  BY <1>1 DEF Fades, Active

LEMMA GoodEnds ==
  ASSUME IInv, IInv', Fades, now' >= now, NEW p \in DOMAIN codes, Good(p)'
  PROVE  Good(p)
<1>1. now \in Nat /\ now' \in Nat /\ codes[p].ends \in Int
  BY DEF IInv, TypeOK, IsTable, Code
<1>2. p \in Outstanding(codes)
  BY <1>1 DEF Fades, Marks, Good, Outstanding
<1>3. codes'[p].minter = codes[p].minter
  BY DEF Fades, Marks
<1>4. CASE codes[p].minter = Nobody
  BY <1>2, <1>4 DEF Good
<1>5. CASE codes[p].minter # Nobody
  <2>1. codes[p].minter \in DOMAIN creds
    BY <1>5 DEF IInv, Minted
  <2>2. Active(codes[p].minter)'
    BY <1>3, <1>5 DEF Good
  <2>3. QED
    BY <1>2, <1>3, <2>1, <2>2, ActiveEnds DEF Good
<1>6. QED
  BY <1>4, <1>5

\* Whatever the clock says: who is removed and what is closed stay so.
LEMMA ClosedStays ==
  ASSUME IInv, Fades, NEW p \in DOMAIN codes, Closed(p)
  PROVE  Closed(p)'
<1>1. codes'[p].minter = codes[p].minter
      /\ (codes[p].spent => codes'[p].spent) /\ (codes[p].cancelled => codes'[p].cancelled)
  BY DEF Fades, Marks
<1>2. codes[p].minter # Nobody => codes[p].minter \in DOMAIN creds
  BY DEF IInv, Minted
<1>3. QED
  BY <1>1, <1>2 DEF Closed, Over, Fades

\* An earlier one ends nothing.
LEMMA ActiveLasts ==
  ASSUME IInv, IInv', UNCHANGED records, now' <= now, NEW c, Active(c)
  PROVE  Active(c)'
<1>1. now \in Nat /\ now' \in Nat /\ c \in DOMAIN creds /\ creds[c].ends \in Int
  BY EndsTyped DEF IInv, TypeOK, Active
<1>2. QED
  BY <1>1 DEF Active, records

LEMMA GoodLasts ==
  ASSUME IInv, IInv', UNCHANGED records, now' <= now, NEW p, Good(p)
  PROVE  Good(p)'
<1>1. now \in Nat /\ now' \in Nat /\ p \in DOMAIN codes /\ codes[p].ends \in Int
  BY DEF IInv, TypeOK, IsTable, Code, Good, Outstanding
<1>2. p \in Outstanding(codes)'
  BY <1>1 DEF Good, Outstanding, records
<1>3. QED
  BY <1>2, ActiveLasts DEF Good, records

\* The mapping, point by point.
LifeOf(c) ==
  IF c \notin DOMAIN creds THEN "unknown"
  ELSE IF Over(c) THEN "over" ELSE IF Active(c) THEN "valid" ELSE "expired"

Exchanged(p) == \E c \in DOMAIN creds : creds[c].code = p

FateOf(p) ==
  IF p \notin DOMAIN codes THEN "unminted"
  ELSE IF Exchanged(p) THEN "exchanged"
  ELSE IF Closed(p) THEN "closed" ELSE IF Good(p) THEN "open" ELSE "lapsed"

LEMMA Mapped ==
  /\ Life = [c \in Credentials |-> LifeOf(c)] /\ Fate = [p \in Codes |-> FateOf(p)]
  /\ Life' = [c \in Credentials |-> LifeOf(c)'] /\ Fate' = [p \in Codes |-> FateOf(p)']
BY DEF Life, Fate, LifeOf, FateOf, Exchanged

LEMMA CodesTyped ==
  ASSUME IInv
  PROVE  DOMAIN codes \subseteq Codes /\ DOMAIN creds \subseteq Credentials
BY DEF IInv, TypeOK, IsTable

\* Who is active is not over.
LEMMA ActiveIsValid ==
  ASSUME IInv, NEW c
  PROVE  LifeOf(c) = "valid" <=> Active(c)
<1>1. now \in Nat
  BY DEF IInv, TypeOK
<1>2. QED
  BY <1>1, Naturals DEF LifeOf, Over, Active

\* Every value of the mapping is one of the abstract specification, and whoever minted
\* an open code answers for it: after a step that has kept the invariant.
LEMMA MappedTyped ==
  ASSUME IInv'
  PROVE  /\ Life' \in [Credentials -> Entrance!Lives]
         /\ Fate' \in [Codes -> Entrance!Fates]
         /\ \A p \in Codes : Fate'[p] = "open" => Entrance!Answers(Minter[p])'
<1>1. \A c \in Credentials : LifeOf(c)' \in Entrance!Lives
  BY DEF LifeOf, Entrance!Lives
<1>2. \A p \in Codes : FateOf(p)' \in Entrance!Fates
  BY DEF FateOf, Entrance!Fates
<1>3. ASSUME NEW p \in Codes, FateOf(p)' = "open"
      PROVE  Minter'[p] = Nobody \/ Life'[Minter'[p]] = "valid"
  <2>1. p \in DOMAIN codes' /\ Good(p)' /\ Minter'[p] = codes'[p].minter
    BY <1>3 DEF FateOf, Minter
  <2>2. CASE codes'[p].minter # Nobody
    <3>1. codes'[p].minter \in DOMAIN creds' /\ codes'[p].minter \in Credentials
      BY <2>1, <2>2 DEF IInv, Minted, TypeOK, IsTable
    <3>2. Active(codes[p].minter)'
      BY <2>1, <2>2 DEF Good
    <3>3. now' \in Nat
      BY DEF IInv, TypeOK
    <3>4. LifeOf(codes[p].minter)' = "valid"
      BY <3>1, <3>2, <3>3, Naturals DEF LifeOf, Over, Active
    <3>5. QED
      BY <2>1, <3>1, <3>4, Mapped DEF LifeOf
  <2>3. QED
    BY <2>1, <2>2
<1>4. QED
  BY <1>1, <1>2, <1>3, Mapped DEF Entrance!Answers

LEMMA FadesIsLapse ==
  ASSUME IInv, IInv', Fades, now' >= now
  PROVE  Entrance!Lapse
<1>1. /\ DOMAIN creds' = DOMAIN creds /\ DOMAIN codes' = DOMAIN codes
      /\ \A c \in DOMAIN creds : creds'[c].code = creds[c].code
      /\ \A p \in DOMAIN codes : codes'[p].minter = codes[p].minter
  BY DEF Fades, Marks
<1>2. Became' = Became /\ Minter' = Minter
  BY <1>1 DEF Became, Minter
<1>3. ASSUME NEW c \in Credentials, LifeOf(c)' # LifeOf(c)
      PROVE  <<LifeOf(c), LifeOf(c)'>> \in Entrance!Ends
  <2>1. c \in DOMAIN creds /\ c \in DOMAIN creds'
    BY <1>1, <1>3 DEF LifeOf
  <2>2. Over(c) => Over(c)'
    BY <2>1 DEF Fades, Over
  <2>3. Active(c)' => Active(c)
    BY <2>1, ActiveEnds
  <2>4. QED
    BY <1>3, <2>1, <2>2, <2>3 DEF LifeOf, Entrance!Ends
<1>4. ASSUME NEW p \in Codes, FateOf(p)' # FateOf(p)
      PROVE  <<FateOf(p), FateOf(p)'>> \in Entrance!Closes
  <2>1. Exchanged(p)' <=> Exchanged(p)
    BY <1>1 DEF Exchanged
  <2>2. p \in DOMAIN codes /\ p \in DOMAIN codes'
    BY <1>1, <1>4 DEF FateOf
  <2>3. (Good(p)' => Good(p)) /\ (Closed(p) => Closed(p)')
    BY <2>2, GoodEnds, ClosedStays
  <2>4. QED
    BY <1>4, <2>1, <2>2, <2>3 DEF FateOf, Entrance!Closes
<1>5. QED
  BY <1>2, <1>3, <1>4, Mapped, MappedTyped DEF Entrance!Lapse

LEMMA FadesIsNext ==
  ASSUME IInv, IInv', Fades, now' = now
  PROVE  Entrance!Next
<1>1. now' >= now
  BY DEF IInv, TypeOK
<1>2. QED
  BY <1>1, FadesIsLapse DEF Entrance!Next

\* A restart with an earlier clock: what time had ended may come back, and no more.
LEMMA BackIsTurnBack ==
  ASSUME IInv, IInv', UNCHANGED records, now' < now
  PROVE  Entrance!TurnBack
<1> USE DEF records
<1>1. now \in Nat /\ now' \in Nat /\ now' <= now
  BY DEF IInv, TypeOK
<1>2. Became' = Became /\ Minter' = Minter
  BY DEF Became, Minter
<1>3. ASSUME NEW c \in Credentials, LifeOf(c)' # LifeOf(c)
      PROVE  LifeOf(c) = "expired" /\ LifeOf(c)' = "valid"
  <2>1. (Over(c)' <=> Over(c)) /\ (Active(c) => Active(c)')
    BY <1>1, ActiveLasts DEF Over
  <2>2. QED
    BY <1>3, <2>1 DEF LifeOf
<1>4. ASSUME NEW p \in Codes, FateOf(p)' # FateOf(p)
      PROVE  FateOf(p) = "lapsed" /\ FateOf(p)' = "open"
  <2>1. (Exchanged(p)' <=> Exchanged(p)) /\ (Closed(p)' <=> Closed(p))
    BY DEF Exchanged, Closed, Over
  <2>2. Good(p) => Good(p)'
    BY <1>1, GoodLasts
  <2>3. QED
    BY <1>4, <2>1, <2>2 DEF FateOf
<1>5. QED
  BY <1>2, <1>3, <1>4, Mapped, MappedTyped DEF Entrance!TurnBack

LEMMA EntersIsEnter ==
  ASSUME IInv, IInv', UNCHANGED <<now, codes>>, NEW c \in Credentials \ DOMAIN creds,
         DOMAIN creds' = DOMAIN creds \cup {c}, creds'[c].code = Nobody,
         \A d \in DOMAIN creds : creds'[d] = creds[d]
  PROVE  Entrance!Enter(c)
<1>1. Became' = Became /\ Minter' = Minter
  BY Naturals DEF Became, Minter
<1>2. \A d \in Credentials \ {c} : LifeOf(d)' = LifeOf(d)
  BY DEF LifeOf, Active, Over
<1>3. LifeOf(c) = "unknown" /\ LifeOf(c)' \in {"valid", "expired", "over"}
  BY DEF LifeOf
<1>4. ASSUME NEW p \in Codes
      PROVE  FateOf(p)' = FateOf(p)
  <2>1. Exchanged(p)' <=> Exchanged(p)
    BY Naturals DEF Exchanged
  <2>2. p \in DOMAIN codes => (Good(p)' <=> Good(p))
    BY DEF Good, Outstanding, Active, IInv, Minted
  <2>3. p \in DOMAIN codes => (Closed(p)' <=> Closed(p))
    BY DEF Closed, Over, IInv, Minted
  <2>4. QED
    BY <2>1, <2>2, <2>3 DEF FateOf
<1>5. Fate' = Fate
  BY <1>4, Mapped
<1>6. Life' = [Life EXCEPT ![c] = LifeOf(c)'] /\ Life[c] = "unknown"
  BY <1>2, <1>3, Mapped
<1>7. QED
  BY <1>1, <1>3, <1>5, <1>6 DEF Entrance!Enter

LEMMA MintsIsMint ==
  ASSUME IInv, IInv', UNCHANGED <<now, creds>>, NEW p \in Codes \ DOMAIN codes,
         NEW by \in DOMAIN creds \cup {Nobody}, NEW manage, NewCode(p, manage, by),
         DOMAIN codes' = DOMAIN codes \cup {p}, codes'[p].minter = by,
         p \in Outstanding(codes'),
         \A q \in DOMAIN codes : codes'[q] = codes[q]
  PROVE  Entrance!Mint(by, p)
<1>1. Became' = Became
  BY DEF Became
<1>2. Minter' = [Minter EXCEPT ![p] = by]
  BY DEF Minter
<1>3. Life' = Life
  BY DEF Life, Active, Over
<1>4. \A q \in Codes \ {p} : FateOf(q)' = FateOf(q)
  BY DEF FateOf, Exchanged, Good, Closed, Over, Outstanding, Active
<1>5. ~Exchanged(p)
  BY Naturals DEF Exchanged, IInv, Paired
<1>6. FateOf(p) = "unminted"
  BY DEF FateOf
<1>7. by # Nobody => Life[by] = LifeOf(by) /\ by \in DOMAIN creds
  BY CodesTyped, Mapped
<1>8. FateOf(p)' = IF by = Nobody \/ Life[by] = "valid" THEN "open"
                    ELSE IF Life[by] = "expired" THEN "lapsed" ELSE "closed"
  <2>1. Good(p)' <=> by = Nobody \/ Active(by)
    BY DEF Good, Outstanding, Active
  <2>2. Closed(p)' <=> by # Nobody /\ Over(by)
    BY DEF Closed, Over, Outstanding
  <2>3. Exchanged(p)' <=> Exchanged(p)
    BY DEF Exchanged
  <2>4. by # Nobody => (Life[by] = "valid" <=> Active(by))
    BY <1>7, ActiveIsValid
  <2>5. by # Nobody => (Life[by] = "over" <=> Over(by))
                       /\ Life[by] \in {"valid", "over", "expired"}
    BY <1>7 DEF LifeOf
  <2>6. QED
    BY <1>5, <2>1, <2>2, <2>3, <2>4, <2>5 DEF FateOf
<1>9. Fate' = [Fate EXCEPT ![p] = FateOf(p)'] /\ Fate[p] = "unminted"
  BY <1>4, <1>6, Mapped
<1>10. by = Nobody \/ Life[by] # "unknown"
  BY <1>7 DEF LifeOf
<1>11. QED
  BY <1>1, <1>2, <1>3, <1>8, <1>9, <1>10 DEF Entrance!Mint, Entrance!Answers

LEMMA PairsIsExchange ==
  ASSUME IInv, IInv', NEW p, NEW c \in Credentials, Pair(p, c)
  PROVE  Entrance!Exchange(p, c)
<1>1. /\ p \in DOMAIN codes /\ p \in Codes /\ Redeemable(p) /\ c \notin DOMAIN creds
      /\ codes' = [codes EXCEPT ![p].spent = TRUE] /\ UNCHANGED now
      /\ codes[p].manage \in BOOLEAN
  BY Naturals DEF Pair, IInv, TypeOK, IsTable, Code
<1>2. /\ DOMAIN creds' = DOMAIN creds \cup {c}
      /\ \A d \in DOMAIN creds : creds'[d] = creds[d]
      /\ creds'[c].ends = Never /\ ~creds'[c].revoked /\ creds'[c].code = p
  BY <1>1, Naturals, CredentialAdded DEF Pair
<1>3. Marks(codes, codes')
  BY <1>1, SpentMarks DEF IInv, TypeOK
<1>4. /\ DOMAIN codes' = DOMAIN codes
      /\ \A q \in DOMAIN codes : codes'[q].minter = codes[q].minter
      /\ \A q \in DOMAIN codes \ {p} : codes'[q] = codes[q]
  BY <1>1, <1>3 DEF Marks
<1>5. \A d \in DOMAIN creds : creds[d].code # p
  BY <1>1, Naturals DEF Redeemable, IInv, Paired
<1>6. Minter' = Minter
  BY <1>4 DEF Minter
<1>7. Became' = [Became EXCEPT ![p] = {c}]
  <2>1. \A q \in Codes \ {p} :
          {d \in DOMAIN creds' : creds'[d].code = q} = {d \in DOMAIN creds : creds[d].code = q}
    BY <1>2
  <2>2. {d \in DOMAIN creds' : creds'[d].code = p} = {c}
    BY <1>2, <1>5
  <2>3. QED
    BY <1>1, <2>1, <2>2 DEF Became
<1>8. Life' = [Life EXCEPT ![c] = "valid"] /\ Life[c] = "unknown"
  <2>1. \A d \in Credentials \ {c} : LifeOf(d)' = LifeOf(d)
    BY <1>1, <1>2 DEF LifeOf, Active, Over
  <2>2. LifeOf(c) = "unknown" /\ LifeOf(c)' = "valid"
    BY <1>1, <1>2, Naturals DEF LifeOf, Active, Over
  <2>3. QED
    BY <2>1, <2>2, Mapped
<1>9. Fate' = [Fate EXCEPT ![p] = "exchanged"] /\ Fate[p] = "open"
  <2>1. ASSUME NEW q \in Codes \ {p}
        PROVE  FateOf(q)' = FateOf(q)
    <3>1. Exchanged(q)' <=> Exchanged(q)
      BY <1>2 DEF Exchanged
    <3>2. q \in DOMAIN codes => (Good(q)' <=> Good(q))
      BY <1>1, <1>2, <1>4 DEF Good, Outstanding, Active, IInv, Minted
    <3>3. q \in DOMAIN codes => (Closed(q)' <=> Closed(q))
      BY <1>1, <1>2, <1>4 DEF Closed, Over, IInv, Minted
    <3>4. QED
      BY <1>4, <3>1, <3>2, <3>3 DEF FateOf
  <2>2. FateOf(p)' = "exchanged"
    BY <1>1, <1>2, <1>4 DEF FateOf, Exchanged
  <2>3. FateOf(p) = "open"
    <3>1. Good(p) /\ ~codes[p].spent /\ ~codes[p].cancelled
      BY <1>1 DEF Good, Outstanding, Redeemable, RedeemableUnmarked
    <3>2. codes[p].minter # Nobody => ~Over(codes[p].minter)
      <4>1. Active(codes[p].minter) => LifeOf(codes[p].minter) = "valid"
        BY ActiveIsValid
      <4>2. QED
        BY <3>1, <4>1 DEF Good, LifeOf, Active
    <3>3. QED
      BY <1>1, <1>5, <3>1, <3>2 DEF FateOf, Exchanged, Closed
  <2>4. QED
    BY <1>1, <2>1, <2>2, <2>3, Mapped
<1>10. Minter[p] = Nobody \/ Life[Minter[p]] = "valid"
  <2>1. Minter[p] = codes[p].minter
    BY <1>1 DEF Minter
  <2>2. codes[p].minter = Nobody \/ Active(codes[p].minter)
    BY <1>1 DEF Redeemable, RedeemableUnmarked
  <2>3. Active(codes[p].minter) => LifeOf(codes[p].minter) = "valid"
                                   /\ codes[p].minter \in Credentials
    BY CodesTyped, ActiveIsValid DEF Active
  <2>4. QED
    BY <2>1, <2>2, <2>3, Mapped
<1>11. QED
  BY <1>1, <1>6, <1>7, <1>8, <1>9, <1>10 DEF Entrance!Exchange, Entrance!Answers

\* What leaves the credentials alone and marks codes, or nothing.
LEMMA MarksFade ==
  ASSUME UNCHANGED creds, Marks(codes, codes')
  PROVE  Fades
BY DEF Fades

LEMMA RecordsFade ==
  ASSUME IInv, UNCHANGED records
  PROVE  Fades
BY MarksSelf, MarksFade DEF IInv, records

LEMMA RevokeFades ==
  ASSUME IInv, NEW by, NEW c, NEW confirm, Revoke(by, c, confirm)
  PROVE  Fades
<1>1. now' = now /\ now \in Nat /\ c \in DOMAIN creds
  BY DEF IInv, TypeOK, Revoke
<1>2. CASE creds[c].revoked
  BY <1>1, <1>2, RecordsFade DEF Revoke
<1>3. CASE ~creds[c].revoked
  <2>1. creds' = [creds EXCEPT ![c].revoked = TRUE]
        /\ codes' = Cancelled({p \in DOMAIN codes : codes[p].minter = c})
    BY <1>3 DEF Revoke
  <2>2. creds \in [DOMAIN creds -> Credential]
    BY DEF IInv, TypeOK, IsTable
  <2>3. DOMAIN creds' = DOMAIN creds /\ \A d \in DOMAIN creds \ {c} : creds'[d] = creds[d]
    BY <2>1, <2>2
  <2>4. creds'[c].code = creds[c].code /\ creds'[c].ends = creds[c].ends
        /\ ~creds[c].revoked
    BY <1>1, <1>3, <2>1, <2>2 DEF Credential
  <2>5. Marks(codes, codes')
    BY <2>1, CancelledMarks DEF IInv
  <2>6. QED
    BY <1>1, <2>3, <2>4, <2>5 DEF Fades
<1>4. QED
  BY <1>2, <1>3

\* A wrong code spends what was tried and may cancel what is outstanding.
LEMMA WrongFades ==
  ASSUME IInv, NEW table, Marks(codes, table), Wrong(table), UNCHANGED <<now, creds>>
  PROVE  Fades
<1>1. IsTable(table, Codes, Code)
  BY MarksTable DEF IInv, TypeOK
<1>2. Marks(table, codes')
  <2>1. CASE Full
    BY <1>1, <2>1, CancelMarks DEF Wrong
  <2>2. CASE ~Full
    <3>1. table = [q \in DOMAIN table |-> table[q]]
      BY <1>1 DEF IsTable
    <3>2. Marks(table, table)
      BY <1>1, <3>1, ChangesMark DEF Changed
    <3>3. QED
      BY <2>2, <3>2 DEF Wrong
  <2>3. QED
    BY <2>1, <2>2
<1>3. QED
  BY <1>2, MarksTwice, MarksFade

LEMMA ManagingImplements ==
  ASSUME IInv, IInv', NEW by \in Credentials, Managing(by)
  PROVE  Entrance!Next
<1>1. now \in Nat /\ DOMAIN creds \subseteq Credentials /\ admitted \subseteq DOMAIN creds
  BY CodesTyped DEF IInv, TypeOK
<1>2. CASE Admit(by) \/ (\E p \in Codes : CancelCode(by, p))
  <2>1. Fades
    <3>1. CASE Admit(by)
      BY <1>1, <3>1, RecordsFade DEF Admit
    <3>2. CASE \E p \in Codes : CancelCode(by, p)
      BY <1>1, <3>2, CancelledMarks, MarksFade DEF CancelCode, IInv
    <3>3. QED
      BY <1>2, <3>1, <3>2
  <2>2. now' = now
    BY <1>2 DEF Admit, CancelCode
  <2>3. QED
    BY <2>1, <2>2, FadesIsNext
<1>3. ASSUME NEW c \in Credentials, NEW manage \in BOOLEAN, NEW ends \in Ends,
             Issue(by, c, manage, ends)
      PROVE  Entrance!Next
  <2>1. c \in Credentials \ DOMAIN creds /\ NewCredential(c, manage, ends, Nobody)
        /\ UNCHANGED <<now, codes>>
    BY <1>3 DEF Issue
  <2>2. Entrance!Enter(c)
    BY <2>1, CredentialAdded, EntersIsEnter
  <2>3. QED
    BY <2>2 DEF Entrance!Next
<1>4. ASSUME NEW p \in Codes, NEW manage \in BOOLEAN, Mint(by, p, manage)
      PROVE  Entrance!Next
  <2>1. p \in Codes \ DOMAIN codes /\ by \in DOMAIN creds /\ NewCode(p, manage, by)
        /\ UNCHANGED <<now, creds>>
    BY <1>1, <1>4 DEF Mint
  <2>2. Entrance!Mint(by, p)
    BY <2>1, CodeAdded, MintsIsMint
  <2>3. QED
    BY <2>2 DEF Entrance!Next
<1>5. ASSUME NEW c \in Credentials, NEW confirm \in BOOLEAN, Revoke(by, c, confirm)
      PROVE  Entrance!Next
  BY <1>5, RevokeFades, FadesIsNext DEF Revoke
<1>6. QED
  BY <1>2, <1>3, <1>4, <1>5 DEF Managing

LEMMA PairingImplements ==
  ASSUME IInv, IInv', NEW p \in Codes,
         (\E c \in Credentials : Pair(p, c)) \/ PairRefused(p) \/ RecoverCode(p)
  PROVE  Entrance!Next
<1>1. CASE \E c \in Credentials : Pair(p, c)
  BY <1>1, PairsIsExchange DEF Entrance!Next
<1>2. CASE PairRefused(p)
  BY <1>2, SpentMarks, WrongFades, FadesIsNext DEF PairRefused, IInv, TypeOK
<1>3. CASE RecoverCode(p)
  <2>1. p \in Codes \ DOMAIN codes /\ NewCode(p, TRUE, Nobody) /\ UNCHANGED <<now, creds>>
    BY <1>3 DEF RecoverCode
  <2>2. Entrance!Mint(Nobody, p)
    BY <2>1, CodeAdded, MintsIsMint
  <2>3. QED
    BY <2>2 DEF Entrance!Next
<1>4. QED
  BY <1>1, <1>2, <1>3

LEMMA NextImplements ==
  ASSUME IInv, IInv', [Next]_vars
  PROVE  Entrance!Next
<1>1. now \in Nat
  BY DEF IInv, TypeOK
<1>2. CASE \E by \in Credentials : Managing(by)
  BY <1>2, ManagingImplements
<1>3. CASE \E p \in Codes : \/ \E c \in Credentials : Pair(p, c)
                           \/ PairRefused(p) \/ RecoverCode(p)
  BY <1>3, PairingImplements
<1>4. CASE PairUnknown
  BY <1>4, MarksSelf, WrongFades, FadesIsNext DEF PairUnknown, IInv
<1>5. CASE \E c \in Credentials : RecoverToken(c)
  <2>1. PICK c \in Credentials : RecoverToken(c)
    BY <1>5
  <2>2. c \in Credentials \ DOMAIN creds /\ NewCredential(c, TRUE, Never, Nobody)
        /\ UNCHANGED <<now, codes>> /\ Never \in Ends
    BY <1>1, <2>1, Naturals DEF RecoverToken
  <2>3. Entrance!Enter(c)
    BY <2>2, CredentialAdded, EntersIsEnter
  <2>4. QED
    BY <2>3 DEF Entrance!Next
<1>6. ASSUME UNCHANGED records, now' = now \/ now' = now + 1
      PROVE  Entrance!Next
  <2>1. Fades /\ now' >= now
    BY <1>1, <1>6, RecordsFade
  <2>2. QED
    BY <2>1, FadesIsLapse DEF Entrance!Next
<1>7. CASE \/ \E k \in Sockets : \/ \E c \in Credentials : Join(k, c)
                              \/ Joined(k) \/ Leave(k) \/ CloseFor(k)
           \/ SweepBegins \/ SweepRaises
           \/ \E r \in sweep : SweepEnds(r) \/ \E c \in r.left : SweepCloses(r, c)
  <2>1. UNCHANGED records /\ now' = now
    BY <1>7 DEF Join, Joined, Leave, CloseFor, SweepBegins, SweepRaises, SweepEnds, SweepCloses
  <2>2. QED
    BY <1>6, <2>1
<1>8. CASE Restart
  <2>1. UNCHANGED records /\ now' \in 0..now
    BY <1>8 DEF Restart
  <2>2. CASE now' < now
    BY <2>1, <2>2, BackIsTurnBack DEF Entrance!Next
  <2>3. CASE now' = now
    BY <1>6, <2>1, <2>3
  <2>4. QED
    BY <1>1, <2>1, <2>2, <2>3
<1>9. CASE Pass \/ UNCHANGED vars
  BY <1>6, <1>9 DEF Pass, vars
<1>10. QED
  BY <1>2, <1>3, <1>4, <1>5, <1>7, <1>8, <1>9 DEF Next

-----------------------------------------------------------------------------
(* What holds.                                                             *)

\* The tables of the database and what the process holds keep their types,
\* whoever pairs, mints, revokes or joins, and whatever expires.
THEOREM TypeCorrect == Spec => []TypeOK
<1>1. IInv => TypeOK
  BY DEF IInv
<1>2. QED
  BY <1>1, Invariance, PTL

\* Once somebody manages for good, somebody does until somebody has confirmed
\* otherwise: what _sole_manager() promises, for any number of managers who were let
\* in at once.
THEOREM SomebodyAlwaysManages == Spec => []SomebodyManages
<1>1. IInv => SomebodyManages
  BY DEF IInv
<1>2. QED
  BY <1>1, Invariance, PTL

\* redeem() makes at most one credential of a code, and none that may do more than
\* the code said.
THEOREM ExchangedOnce == Spec => []CodesAreExchangedOnce
<1>1. IInv => CodesAreExchangedOnce
  BY DEF IInv, Paired, CodesAreExchangedOnce
<1>2. QED
  BY <1>1, Invariance, PTL

\* However codes are minted, cancelled and tried: none outlives Guesses.LIMIT wrong
\* ones.
THEOREM GuessesBounded == Spec => []GuessesAreBounded
<1>1. IInv => GuessesAreBounded
  <2> SUFFICES ASSUME IInv, NEW p \in Outstanding(codes) PROVE tried[p] < Limit
    BY DEF GuessesAreBounded
  <2>1. p \in DOMAIN tried /\ tried[p] <= guesses
    BY DEF IInv, Counted, Outstanding
  <2>2. tried[p] \in 0..Limit /\ guesses \in 0..(Limit - 1) /\ Limit \in Nat
    BY <2>1, Naturals DEF IInv, TypeOK, IsTable
  <2>3. QED
    BY <2>1, <2>2
<1>2. QED
  BY <1>1, Invariance, PTL

\* An open feed belongs to a credential that is good, or it is being closed, or a
\* sweep has still to come by; but for a feed that joined after its closing, and one
\* whose sweep raised, which stay open until the client or the process goes.
THEOREM FeedsEnd == Spec => []FeedsEndWithTheirCredential
<1>1. IInv => FeedsEndWithTheirCredential
  BY DEF IInv, Watched, FeedsEndWithTheirCredential, Open
<1>2. QED
  BY <1>1, Invariance, PTL

\* The tables implement Pairings: whatever is spent on a wrong try, cancelled, guessed
\* at too often or minted by somebody who was removed is never exchanged, and who was
\* removed does not come back, whatever the clock says after a restart; what has expired
\* comes back only when a restart sets the clock back.
THEOREM NothingOpensAgain == Spec => NothingReopens
<1>1. Init => Entrance!Init
  <2> SUFFICES ASSUME Init PROVE Entrance!Init
    OBVIOUS
  <2>1. DOMAIN creds = {} /\ DOMAIN codes = {}
    BY EmptyIsTable DEF Init
  <2>2. QED
    BY <2>1 DEF Init, Entrance!Init, Life, Fate, Minter, Became
<1>2. IInv /\ IInv' /\ [Next]_vars => [Entrance!Next]_<<now, Life, Fate, Minter, Became>>
  BY NextImplements
<1>3. QED
  BY Invariance, <1>1, <1>2, PTL DEF Spec, NothingReopens, Entrance!Spec, Entrance!vars
=============================================================================
