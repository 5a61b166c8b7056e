------------------------------ MODULE Pairings ------------------------------
(***************************************************************************)
(* What a household may count on when somebody is let in.  A credential    *)
(* goes from unknown to valid, and from there, once it is removed, to over *)
(* for good; so does a code, from unminted over open to either exchanged   *)
(* or closed for good.  In between a credential expires and a code lapses, *)
(* which lasts as long as the clock is not set back.  Only an open code is *)
(* exchanged, for one credential that was not there before, and a code is  *)
(* open no longer than whoever minted it is valid.                         *)
(***************************************************************************)
EXTENDS Integers

CONSTANTS Credentials, Codes, Nobody

VARIABLES
  clock,   \* the clock they run out by
  life,    \* of a credential
  fate,    \* of a code
  minter,  \* who minted a code
  became   \* what a code was exchanged for

vars == <<clock, life, fate, minter, became>>

Lives == {"unknown", "valid", "expired", "over"}
Fates == {"unminted", "open", "lapsed", "exchanged", "closed"}

Init ==
  /\ clock = 0
  /\ life = [c \in Credentials |-> "unknown"]
  /\ fate = [p \in Codes |-> "unminted"]
  /\ minter = [p \in Codes |-> Nobody]
  /\ became = [p \in Codes |-> {}]

\* A new credential may have ended before it was issued.
Enter(c) ==
  /\ life[c] = "unknown"
  /\ \E to \in {"valid", "expired", "over"} : life' = [life EXCEPT ![c] = to]
  /\ UNCHANGED <<clock, fate, minter, became>>

Answers(by) == by = Nobody \/ life[by] = "valid"

\* A request that was let in may mint after its caller has expired or is over: such a
\* code is worth nothing from the beginning.
Mint(by, p) ==
  /\ fate[p] = "unminted"
  /\ by = Nobody \/ life[by] # "unknown"
  /\ fate' = [fate EXCEPT ![p] = IF Answers(by) THEN "open"
                                 ELSE IF life[by] = "expired" THEN "lapsed" ELSE "closed"]
  /\ minter' = [minter EXCEPT ![p] = by]
  /\ UNCHANGED <<clock, life, became>>

Exchange(p, c) ==
  /\ fate[p] = "open" /\ Answers(minter[p]) /\ life[c] = "unknown"
  /\ fate' = [fate EXCEPT ![p] = "exchanged"]
  /\ became' = [became EXCEPT ![p] = {c}]
  /\ life' = [life EXCEPT ![c] = "valid"]
  /\ UNCHANGED <<clock, minter>>

\* What may come after what, for a credential and for a code.
Ends == {<<"valid", "expired">>, <<"valid", "over">>, <<"expired", "over">>}
Closes == {<<"open", "lapsed">>, <<"open", "closed">>, <<"lapsed", "closed">>}

\* Time, a removal and wrong codes end many at once.
Lapse ==
  /\ clock' >= clock
  /\ life' \in [Credentials -> Lives] /\ fate' \in [Codes -> Fates]
  /\ \A c \in Credentials : life'[c] # life[c] => <<life[c], life'[c]>> \in Ends
  /\ \A p \in Codes :
       /\ fate'[p] # fate[p] => <<fate[p], fate'[p]>> \in Closes
       /\ fate'[p] = "open" => Answers(minter[p])'
  /\ UNCHANGED <<minter, became>>

\* Only what time has ended comes back, and only when the clock is set back.
TurnBack ==
  /\ clock' < clock
  /\ life' \in [Credentials -> Lives] /\ fate' \in [Codes -> Fates]
  /\ \A c \in Credentials :
       life'[c] # life[c] => life[c] = "expired" /\ life'[c] = "valid"
  /\ \A p \in Codes :
       /\ fate'[p] # fate[p] => fate[p] = "lapsed" /\ fate'[p] = "open"
       /\ fate'[p] = "open" => Answers(minter[p])'
  /\ UNCHANGED <<minter, became>>

Next ==
  \/ Lapse \/ TurnBack
  \/ \E c \in Credentials : Enter(c)
  \/ \E p \in Codes : \/ \E by \in Credentials \cup {Nobody} : Mint(by, p)
                     \/ \E c \in Credentials : Exchange(p, c)

Spec == Init /\ [][Next]_vars
=============================================================================
