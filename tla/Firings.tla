------------------------------- MODULE Firings -------------------------------
(***************************************************************************)
(* What a household may count on: every planned instant of a rule has one  *)
(* fate.  It is carried out once, or it is closed without that - skipped,  *)
(* paused over, missed, held, deleted, or simply past - and what is closed *)
(* is not opened again by a restart, a clock or an edit.                   *)
(***************************************************************************)
CONSTANT Instants

VARIABLE fate

Fates == {"open", "carried", "closed"}

Init == fate = [k \in Instants |-> "open"]

CarryOut(k) ==
  /\ fate[k] = "open"
  /\ fate' = [fate EXCEPT ![k] = "carried"]

\* Time closes many at once.
Close ==
  /\ fate' \in [Instants -> Fates]
  /\ \A k \in Instants :
       fate'[k] # fate[k] => fate[k] = "open" /\ fate'[k] = "closed"

Next == Close \/ \E k \in Instants : CarryOut(k)

Spec == Init /\ [][Next]_fate
=============================================================================
