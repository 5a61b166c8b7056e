------------------------------ MODULE MCAccess ------------------------------
EXTENDS Access, TLC
CONSTANTS c1, c2, c3, p1, p2
Alike == Permutations(Credentials) \cup Permutations(Codes)
\* Codes and feeds meet in a credential only: no codes, or neither feeds nor sweeps nor
\* what makes one raise; and three rows in all, of which two may be codes.
CodesOrFeeds ==
  /\ \/ codes = EmptyTable
     \/ joining = EmptyTable /\ feeds = EmptyTable /\ sweep = {} /\ Unreadable = {}
  /\ Cardinality(DOMAIN codes) + Cardinality(DOMAIN creds) < 4
=============================================================================
