------------------------------- MODULE Access -------------------------------
(***************************************************************************)
(* Who may use the program: credentials, the pairing codes that become     *)
(* credentials, and the live feeds that were opened with them              *)
(* (auth/store.py, auth/gate.py, api/auth_routes.py, cli.py, the hub of    *)
(* api/ws.py and the sweep of main.py).                                    *)
(*                                                                         *)
(* A request is let in, awaits its body and then acts; a feed is let in,   *)
(* awaits its accept and then joins; closing feeds awaits each of them.    *)
(* The command line is another process on the same database.               *)
(***************************************************************************)
EXTENDS Integers, FiniteSets, Tables

CONSTANTS
  Credentials, \* ids of credentials
  Codes,       \* ids of pairing codes
  Sockets,     \* live feeds
  Nobody,      \* who mints from the command line
  Limit,       \* Guesses.LIMIT
  CodeTime,    \* pairing_minutes
  MaxTime      \* bound: how far the clock goes

ASSUME AccessAssumption ==
  /\ Nobody \notin Credentials \cup Codes
  /\ IsFiniteSet(Codes)
  /\ Limit \in Nat \ {0} /\ CodeTime \in Nat \ {0} /\ MaxTime \in Nat

VARIABLES
  now,       \* the wall clock
  creds,     \* credential
  codes,     \* pairing_code
  admitted,  \* callers of whom requests, let in once, may still await their bodies
  guesses,   \* Guesses.count
  joining,   \* feeds that await their accept
  feeds,     \* Hub._owners
  doomed,    \* feeds that close_for() has on its list
  since,     \* where the next sweep begins
  sweep,     \* the sweep under way: how far it looks, and whom it has left
  confirmed, \* history: somebody confirmed that nobody would manage
  tried,     \* history: wrong codes since a code was minted or the process began
  late       \* history: feeds whose closing is over, or whose sweep raised

records == <<creds, codes>>
hub == <<joining, feeds, doomed, late>>
sweeping == <<since, sweep>>
vars == <<now, records, admitted, guesses, hub, sweeping, confirmed, tried>>

-----------------------------------------------------------------------------

Never == 0

\* A time without a zone, which cannot be compared: Credential.state() raises, so the
\* answer to POST /credentials never comes and nobody has the token, but the row stays.
Zoneless == -1

Ends == 0..MaxTime \cup {Zoneless}

Credential == [manage : BOOLEAN, ends : Ends, revoked : BOOLEAN,
               code : Codes \cup {Nobody}]
Code == [manage : BOOLEAN, minter : Credentials \cup {Nobody},
         ends : 0..(MaxTime + CodeTime), spent : BOOLEAN, cancelled : BOOLEAN]

\* Credential.state(), of a caller that has a token
Active(c) ==
  /\ c \in DOMAIN creds /\ ~creds[c].revoked
  /\ creds[c].ends = Never \/ creds[c].ends > now

Manages(c) == Active(c) /\ creds[c].manage

\* Slip: whoever manages today counts.
ManagersToday(excluded) == {c \in DOMAIN creds \ {excluded} : Manages(c)}

\* permanent_managers()
PermanentManagers(excluded) ==
  {c \in DOMAIN creds \ {excluded} : Manages(c) /\ creds[c].ends = Never}

\* PairingCode.outstanding()
Outstanding(table) ==
  {p \in DOMAIN table : ~table[p].spent /\ ~table[p].cancelled /\ table[p].ends > now}

\* cancel_outstanding(), cancel_minted_by()
Cancelled(some) ==
  [p \in DOMAIN codes |-> IF p \in some \cap Outstanding(codes)
                          THEN [codes[p] EXCEPT !.cancelled = TRUE] ELSE codes[p]]

NewCredential(c, manage, ends, code) ==
  creds' = Put(creds, c, [manage |-> manage, ends |-> ends, revoked |-> FALSE,
                          code |-> code])

NewCode(p, manage, minter) ==
  /\ codes' = Put(codes, p, [manage |-> manage, minter |-> minter,
                             ends |-> now + CodeTime, spent |-> FALSE,
                             cancelled |-> FALSE])
  /\ tried' = Put(tried, p, 0)

-----------------------------------------------------------------------------
(* Requests.  The gate looks at the caller before the body is awaited, and *)
(* one caller may have any number of requests on their way.                *)

Admit(c) ==
  /\ Manages(c)
  /\ admitted' = admitted \cup {c}
  /\ UNCHANGED <<now, records, guesses, hub, sweeping, confirmed, tried>>

\* issue_credential(): nobody hands on more than they hold, and whoever is here
\* manages.  The body may name any end, one in the past or without a zone as well.
Issue(by, c, manage, ends) ==
  /\ by \in admitted /\ c \notin DOMAIN creds
  /\ NewCredential(c, manage, ends, Nobody)
  /\ UNCHANGED <<now, codes, admitted, guesses, hub, sweeping, confirmed, tried>>

\* Slip: every new code begins a new count.
CountAfterMintAlways == 0

\* Guesses.minted(): only if nothing was outstanding before this one.
CountAfterMint ==
  IF Cardinality(Outstanding(codes')) <= 1 THEN 0 ELSE guesses

\* mint_code()
Mint(by, p, manage) ==
  /\ by \in admitted /\ p \notin DOMAIN codes
  /\ NewCode(p, manage, by)
  /\ guesses' = CountAfterMint
  /\ UNCHANGED <<now, creds, admitted, hub, sweeping, confirmed>>

\* revoke_credential(): the last permanent manager only with a confirmation.
\* All of it happens between the body and the first feed that is closed.
Revoke(by, c, confirm) ==
  /\ by \in admitted /\ c \in DOMAIN creds
  /\ confirm \/ PermanentManagers(c) # {}
  /\ IF creds[c].revoked
     THEN UNCHANGED <<records, doomed, confirmed>>
     ELSE /\ creds' = [creds EXCEPT ![c].revoked = TRUE]
          /\ codes' = Cancelled({p \in DOMAIN codes : codes[p].minter = c})
          /\ doomed' = doomed \cup {k \in DOMAIN feeds : feeds[k] = c}
          /\ confirmed' = (confirmed \/ confirm)
  /\ UNCHANGED <<now, admitted, guesses, joining, feeds, late, sweeping, tried>>

\* cancel_code() awaits nothing.
CancelCode(by, p) ==
  /\ Manages(by) /\ p \in Outstanding(codes)
  /\ codes' = Cancelled({p})
  /\ UNCHANGED <<now, creds, admitted, guesses, hub, sweeping, confirmed, tried>>

-----------------------------------------------------------------------------
(* Pairing.                                                                *)

\* Slip: the row is looked at as it is after it was marked.
RedeemableUnmarked(p) ==
  /\ ~codes[p].cancelled /\ codes[p].ends > now
  /\ codes[p].minter = Nobody \/ Active(codes[p].minter)

\* Slip: whoever minted it is not looked at, since revoking cancels what they minted.
RedeemableByRow(p) ==
  ~codes[p].spent /\ ~codes[p].cancelled /\ codes[p].ends > now

\* _unredeemable(), of the row as it was read
Redeemable(p) ==
  /\ ~codes[p].spent /\ RedeemableUnmarked(p)

\* redeem() in one transaction: the attempt spends the code.
Pair(p, c) ==
  /\ p \in DOMAIN codes /\ Redeemable(p) /\ c \notin DOMAIN creds
  /\ codes' = [codes EXCEPT ![p].spent = TRUE]
  /\ NewCredential(c, codes[p].manage, Never, p)
  /\ UNCHANGED <<now, admitted, guesses, hub, sweeping, confirmed, tried>>

\* Slip: the limit itself is one too late.
FullPast == guesses + 1 > Limit

Full == guesses + 1 >= Limit

\* Guesses.wrong(), with the attempt's own code already spent.
Wrong(table) ==
  LET open == Outstanding(table)
  IN  /\ tried' = [p \in DOMAIN tried |-> IF p \in open /\ tried[p] < Limit
                                          THEN tried[p] + 1 ELSE tried[p]]
      /\ guesses' = IF open = {} \/ Full THEN 0 ELSE guesses + 1
      /\ codes' = IF Full
                  THEN [p \in DOMAIN table |-> IF p \in open
                          THEN [table[p] EXCEPT !.cancelled = TRUE] ELSE table[p]]
                  ELSE table

\* A code that does not exist, or one that no longer is worth anything.
PairUnknown ==
  /\ Wrong(codes)
  /\ UNCHANGED <<now, creds, admitted, hub, sweeping, confirmed>>

PairRefused(p) ==
  /\ p \in DOMAIN codes /\ ~Redeemable(p)
  /\ Wrong([codes EXCEPT ![p].spent = TRUE])
  /\ UNCHANGED <<now, creds, admitted, hub, sweeping, confirmed>>

-----------------------------------------------------------------------------
(* Live feeds.                                                             *)

\* websocket_endpoint(): who it is, and the snapshot; then the accept.
Join(k, c) ==
  /\ k \notin DOMAIN joining \cup DOMAIN feeds
  /\ Active(c)
  /\ joining' = Put(joining, k, c)
  /\ UNCHANGED <<now, records, admitted, guesses, feeds, doomed, late, sweeping,
                 confirmed, tried>>

\* Nobody is going to look for the feeds of c again.
DealtWith(c) ==
  \/ creds[c].revoked
  \/ /\ creds[c].ends # Never
     /\ \/ creds[c].ends <= since
        \/ \E r \in sweep : creds[c].ends <= r.upto /\ c \notin r.left

Joined(k) ==
  /\ k \in DOMAIN joining
  /\ joining' = Drop(joining, k)
  /\ feeds' = Put(feeds, k, joining[k])
  /\ late' = IF DealtWith(joining[k]) THEN late \cup {k} ELSE late
  /\ UNCHANGED <<now, records, admitted, guesses, doomed, sweeping, confirmed, tried>>

\* The client goes, or it is this one's turn in close_for().
Leave(k) ==
  /\ k \in DOMAIN feeds
  /\ feeds' = Drop(feeds, k)
  /\ doomed' = doomed \ {k} /\ late' = late \ {k}
  /\ UNCHANGED <<now, records, admitted, guesses, joining, sweeping, confirmed, tried>>

CloseFor(k) == k \in doomed /\ Leave(k)

\* Slip: open at both ends.
ExpiredInside(from, upto) ==
  {c \in DOMAIN creds : ~creds[c].revoked /\ creds[c].ends \in (from + 1)..(upto - 1)}

\* expired_between()
ExpiredBetween(from, upto) ==
  {c \in DOMAIN creds : ~creds[c].revoked /\ creds[c].ends \in (from + 1)..upto}

\* expired_between() compares every end that is not revoked, and raises at one of these.
Unreadable == {c \in DOMAIN creds : ~creds[c].revoked /\ creds[c].ends = Zoneless}

\* pump_auth(): a sweep that raises is logged, and its window is over all the same.
SweepRaises ==
  /\ sweep = {} /\ since < now /\ Unreadable # {}
  /\ since' = now
  /\ late' = late \cup {k \in DOMAIN feeds : feeds[k] \in ExpiredBetween(since, now)}
  /\ UNCHANGED <<now, records, admitted, guesses, joining, feeds, doomed, sweep,
                 confirmed, tried>>

\* sweep_auth(): who ran out in (since, now], and one after the other ...
SweepBegins ==
  /\ sweep = {} /\ since < now /\ Unreadable = {}
  /\ sweep' = {[upto |-> now, left |-> ExpiredBetween(since, now)]}
  /\ UNCHANGED <<now, records, admitted, guesses, hub, since, confirmed, tried>>

SweepCloses(r, c) ==
  /\ r \in sweep /\ c \in r.left
  /\ sweep' = {[r EXCEPT !.left = @ \ {c}]}
  /\ doomed' = doomed \cup {k \in DOMAIN feeds : feeds[k] = c}
  /\ UNCHANGED <<now, records, admitted, guesses, joining, feeds, late, since,
                 confirmed, tried>>

\* ... and the next one begins where this one looked to.
SweepEnds(r) ==
  /\ r \in sweep /\ r.left = {}
  /\ since' = r.upto /\ sweep' = {}
  /\ UNCHANGED <<now, records, admitted, guesses, hub, confirmed, tried>>

-----------------------------------------------------------------------------
(* Around it.                                                              *)

\* `somfy-shutters auth recover`: a credential, or a code that nobody minted.
RecoverToken(c) ==
  /\ c \notin DOMAIN creds
  /\ NewCredential(c, TRUE, Never, Nobody)
  /\ UNCHANGED <<now, codes, admitted, guesses, hub, sweeping, confirmed, tried>>

RecoverCode(p) ==
  /\ p \notin DOMAIN codes
  /\ NewCode(p, TRUE, Nobody)
  /\ UNCHANGED <<now, creds, admitted, guesses, hub, sweeping, confirmed>>

\* A Pi without a clock of its own may boot in the past (automation/clock.py:3).
Restart ==
  /\ now' \in 0..now /\ since' = now' /\ sweep' = {}
  /\ admitted' = {} /\ guesses' = 0
  /\ joining' = EmptyTable /\ feeds' = EmptyTable /\ doomed' = {} /\ late' = {}
  /\ tried' = [p \in DOMAIN tried |-> 0]
  /\ UNCHANGED <<records, confirmed>>

Pass ==
  /\ now < MaxTime /\ now' = now + 1
  /\ UNCHANGED <<records, admitted, guesses, hub, sweeping, confirmed, tried>>

Init ==
  /\ now = 0
  /\ creds = EmptyTable /\ codes = EmptyTable
  /\ admitted = {} /\ guesses = 0
  /\ joining = EmptyTable /\ feeds = EmptyTable /\ doomed = {} /\ late = {}
  /\ since = 0 /\ sweep = {}
  /\ confirmed = FALSE /\ tried = EmptyTable

Managing(by) ==
  \/ Admit(by)
  \/ \E manage \in BOOLEAN :
       \/ \E c \in Credentials, ends \in Ends : Issue(by, c, manage, ends)
       \/ \E p \in Codes : Mint(by, p, manage)
  \/ \E c \in Credentials, confirm \in BOOLEAN : Revoke(by, c, confirm)
  \/ \E p \in Codes : CancelCode(by, p)

Next ==
  \/ \E by \in Credentials : Managing(by)
  \/ \E p \in Codes : \/ \E c \in Credentials : Pair(p, c)
                     \/ PairRefused(p) \/ RecoverCode(p)
  \/ PairUnknown
  \/ \E k \in Sockets : \/ \E c \in Credentials : Join(k, c)
                       \/ Joined(k) \/ Leave(k) \/ CloseFor(k)
  \/ SweepBegins \/ SweepRaises
  \/ \E r \in sweep : SweepEnds(r) \/ \E c \in r.left : SweepCloses(r, c)
  \/ \E c \in Credentials : RecoverToken(c)
  \/ Restart \/ Pass

Spec == Init /\ [][Next]_vars

-----------------------------------------------------------------------------
(* Properties.                                                             *)

TypeOK ==
  /\ now \in 0..MaxTime /\ since \in 0..now
  /\ IsTable(creds, Credentials, Credential)
  /\ IsTable(codes, Codes, Code)
  /\ admitted \subseteq DOMAIN creds
  /\ guesses \in 0..(Limit - 1)
  /\ IsTable(joining, Sockets \ DOMAIN feeds, DOMAIN creds)
  /\ IsTable(feeds, Sockets, DOMAIN creds)
  /\ doomed \subseteq DOMAIN feeds /\ late \subseteq DOMAIN feeds
  /\ sweep \subseteq [upto : 0..now, left : SUBSET DOMAIN creds]
  /\ confirmed \in BOOLEAN
  /\ IsTable(tried, DOMAIN codes, 0..Limit)

\* FR-013: from the first credential on somebody manages for good, however many
\* managers revoke each other at once and whatever expires, unless somebody has
\* confirmed that nobody would.
SomebodyManages ==
  creds # EmptyTable => confirmed \/ PermanentManagers(Nobody) # {}

\* FR-031: a code becomes at most one credential, with its rights and never more.
CodesAreExchangedOnce ==
  \A c, d \in DOMAIN creds :
    creds[c].code # Nobody =>
      /\ creds[c].code = creds[d].code => c = d
      /\ creds[c].manage => codes[creds[c].code].manage

\* Research section 7: "ten wrong codes in total while any code is outstanding
\* cancel them all", also when codes are minted in between.  Counted from the start of
\* the process, as the program counts: a restart forgets the wrong ones so far.
GuessesAreBounded ==
  \A p \in Outstanding(codes) : tried[p] < Limit

\* A feed that stays open without a closing or a sweep to come.
Open(k) ==
  LET c == creds[feeds[k]]
  IN  ~c.revoked /\ (c.ends = Never \/ c.ends > since)

\* FR-005: an open feed belongs to an active credential, or it is being closed, or
\* a sweep has still to come by.  Two kinds are left out, which nothing closes any more
\* until the client or the process goes: one that was let in before and joined after its
\* closing, and one whose sweep raised (late).
FeedsEndWithTheirCredential ==
  \A k \in DOMAIN feeds \ (doomed \cup late) : Open(k)

\* The same with nothing left out.
FeedsAlwaysEnd ==
  \A k \in DOMAIN feeds \ doomed : Open(k)

\* main.py:361: "Every 30 s: close the live feeds of credentials that expired", a window
\* never being looked at twice: when it is over, nobody's feed who ran out in it is open.
WindowsAreSwept ==
  [][\A k \in DOMAIN feeds' \ (doomed' \cup late) :
       creds[feeds'[k]].ends \notin (since + 1)..since']_vars

\* The tables as Pairings sees them.
Over(c) == creds[c].revoked \/ creds[c].ends = Zoneless

Life ==
  [c \in Credentials |->
     IF c \notin DOMAIN creds THEN "unknown"
     ELSE IF Over(c) THEN "over" ELSE IF Active(c) THEN "valid" ELSE "expired"]

Became ==
  [p \in Codes |-> {c \in DOMAIN creds : creds[c].code = p}]

Minter ==
  [p \in Codes |-> IF p \in DOMAIN codes THEN codes[p].minter ELSE Nobody]

Good(p) ==
  p \in Outstanding(codes) /\ (codes[p].minter = Nobody \/ Active(codes[p].minter))

Closed(p) ==
  \/ codes[p].spent \/ codes[p].cancelled
  \/ codes[p].minter # Nobody /\ Over(codes[p].minter)

Fate ==
  [p \in Codes |->
     IF p \notin DOMAIN codes THEN "unminted"
     ELSE IF \E c \in DOMAIN creds : creds[c].code = p THEN "exchanged"
     ELSE IF Closed(p) THEN "closed" ELSE IF Good(p) THEN "open" ELSE "lapsed"]

Entrance == INSTANCE Pairings
              WITH clock <- now, life <- Life, fate <- Fate, minter <- Minter,
                   became <- Became

\* FR-031 and "the code must not outlive the authority that created it"
\* (auth/store.py:357): what was spent on a wrong try, cancelled, guessed at too often
\* or minted by somebody who was removed is never exchanged, not by a request that was
\* let in before, not after a restart, and not by another clock; who was removed does
\* not come back.  What has expired stays so until a restart sets the clock back.  The
\* tables implement Pairings.
NothingReopens == Entrance!Spec

\* data-model.md:69: "active -> expired (terminal)", and spec.md:133 for codes.
ExpiredIsTerminal ==
  [][/\ \A c \in Credentials : Life[c] = "expired" => Life'[c] # "valid"
     /\ \A p \in Codes : Fate[p] = "lapsed" => Fate'[p] # "open"]_vars
=============================================================================
