------------------------------- MODULE Roster -------------------------------
(***************************************************************************)
(* Which shutters the household has, which of them the bridge still knows  *)
(* and which ones it offers (roster.py, roster_store.py, and of            *)
(* bridge/mqtt.py the connection and the queue of announcements).          *)
(*                                                                         *)
(* The bridge's availability takes effect when its message comes in; an    *)
(* announcement waits in the adapter's queue until the loop that reads it  *)
(* gets there.  What the broker and the bridge send is external: anything, *)
(* at any time, as long as the broker is connected.                        *)
(***************************************************************************)
EXTENDS Naturals, Sequences, FiniteSets, Tables

CONSTANTS
  Addresses,  \* the remotes a bridge may announce
  Names,      \* what people call shutters, trimmed and case folded
  Files,      \* what shutters.toml may say: tables like household
  QueueBound  \* bound: how many announcements may wait

VARIABLES
  file,         \* shutters.toml as it was read at the start; its ids are config_ids
  rows,         \* household_shutter, by address
  household,    \* settings.shutter, by id
  forgotten,    \* Roster.forgotten
  broker,       \* MqttBridge._broker_up
  availability, \* MqttBridge._bridge_online
  inbox,        \* MqttBridge._queue, as far as announcements are in it
  announced,    \* Roster.announced
  open,         \* whether _live_since_online is a set
  live,         \* that set
  timer,        \* Roster._timer is set
  closing,      \* close_window() has been scheduled as a task
  said,         \* history: announced live since the bridge came online
  left          \* history: how shutters left that have not been confirmed again

connection == <<broker, availability>>
deciding == <<open, live, timer, closing>>
people == <<file, rows, household, left>>
vars == <<people, forgotten, connection, inbox, announced, deciding, said>>

-----------------------------------------------------------------------------

\* An id is a slug of the name, made unique by a number.
Ids == Names \X (1..(2 * Cardinality(Addresses) + 1))
Entry == [address : Addresses, name : Names]
Row == [id : Ids, name : Names, state : {"active", "set_aside"}]
Message == [address : Addresses, kind : {"live", "retained", "withdrawn"}]

ASSUME RosterAssumption ==
  /\ QueueBound \in Nat \ {0}
  /\ IsFiniteSet(Addresses)
  /\ \A f \in Files : IsTable(f, Ids, Entry)
  \* Settings._unique_ids_and_addresses
  /\ \A f \in Files : \A i, j \in DOMAIN f : f[i].address = f[j].address => i = j

AddressesOf(entries) == {entries[i].address : i \in DOMAIN entries}
NamesOf(entries) == {entries[i].name : i \in DOMAIN entries}

\* Slip: a row is ignored only if the file has its id.
BuiltById(f) ==
  LET mine == {a \in DOMAIN rows :
                 rows[a].state = "active" /\ rows[a].id \notin DOMAIN f}
  IN  [i \in DOMAIN f \cup {rows[a].id : a \in mine} |->
         IF i \in DOMAIN f THEN f[i]
         ELSE LET a == CHOOSE a \in mine : rows[a].id = i
              IN  [address |-> a, name |-> rows[a].name]]

\* _build(): the file first, then the confirmed ones that are not in it.
Built(f) ==
  LET mine == {a \in DOMAIN rows : /\ rows[a].state = "active"
                                   /\ rows[a].id \notin DOMAIN f
                                   /\ a \notin AddressesOf(f)}
  IN  [i \in DOMAIN f \cup {rows[a].id : a \in mine} |->
         IF i \in DOMAIN f THEN f[i]
         ELSE LET a == CHOOSE a \in mine : rows[a].id = i
              IN  [address |-> a, name |-> rows[a].name]]

\* slug()
Slug(name) ==
  LET taken == DOMAIN household \cup {rows[a].id : a \in DOMAIN rows}
      free == {n \in 1..(2 * Cardinality(Addresses) + 1) : <<name, n>> \notin taken}
  IN  <<name, CHOOSE n \in free : \A m \in free : n <= m>>

\* Slip: what was set aside is not looked up.
NewButActive ==
  announced \ (AddressesOf(household)
               \cup {a \in DOMAIN rows : rows[a].state = "active"})

\* new(): announced, not in the household, not set aside.
New == announced \ (AddressesOf(household) \cup DOMAIN rows)

\* RosterStore._name_in_use(): also the rows that the file overrules.
NameOfRow(name, but) ==
  \E a \in DOMAIN rows :
    rows[a].name = name /\ rows[a].state = "active" /\ rows[a].id # but

-----------------------------------------------------------------------------
(* The household.                                                          *)

Confirm(address, name) ==
  /\ address \in New
  /\ name \notin NamesOf(household)
  /\ LET id == Slug(name)
     IN  /\ ~NameOfRow(name, id)
         /\ rows' = Put(rows, address, [id |-> id, name |-> name, state |-> "active"])
         /\ household' = Put(household, id, [address |-> address, name |-> name])
  /\ left' = Drop(left, address)
  /\ UNCHANGED <<file, forgotten, connection, inbox, announced, deciding, said>>

Rename(id, name) ==
  /\ id \in DOMAIN household \ DOMAIN file
  /\ \A other \in DOMAIN household \ {id} : household[other].name # name
  /\ ~NameOfRow(name, id)
  /\ rows' = [a \in DOMAIN rows |->
                IF rows[a].id = id THEN [rows[a] EXCEPT !.name = name] ELSE rows[a]]
  /\ household' = [household EXCEPT ![id].name = name]
  /\ UNCHANGED <<file, left, forgotten, connection, inbox, announced, deciding, said>>

\* Slip: the row of one that is still announced stays as it was.
KeepsTheRow(address) ==
  /\ rows' = IF address \in announced THEN rows ELSE Drop(rows, address)
  /\ left' = Put(left, address, IF address \in announced THEN "announced" ELSE "silent")

\* The row of one that is still announced is kept aside.
LeavesTheRows(address) ==
  /\ rows' = IF address \in announced
             THEN [rows EXCEPT ![address].state = "set_aside"]
             ELSE Drop(rows, address)
  /\ left' = Put(left, address, IF address \in announced THEN "announced" ELSE "silent")

\* Slip: the mark outlives the shutter.
RemoveKeepsMark(id) ==
  /\ id \in DOMAIN household \ DOMAIN file
  /\ LeavesTheRows(household[id].address)
  /\ household' = Drop(household, id)
  /\ UNCHANGED <<file, forgotten, connection, inbox, announced, deciding, said>>

\* remove(), as far as this module goes.  What it does to groups, rules and
\* measurements, and its awaits, are in Household.
Remove(id) ==
  /\ id \in DOMAIN household \ DOMAIN file
  /\ LeavesTheRows(household[id].address)
  /\ household' = Drop(household, id)
  /\ forgotten' = forgotten \ {id}
  /\ UNCHANGED <<file, connection, inbox, announced, deciding, said>>

Restore(address) ==
  /\ address \in DOMAIN rows /\ rows[address].state = "set_aside"
  /\ rows' = Drop(rows, address)
  /\ left' = Drop(left, address)
  /\ UNCHANGED <<file, household, forgotten, connection, inbox, announced,
                 deciding, said>>

\* The process starts again, and somebody may have edited the file meanwhile.
Restart(f) ==
  /\ file' = f
  /\ household' = Built(f)
  /\ forgotten' = {} /\ announced' = {} /\ inbox' = <<>>
  /\ broker' = FALSE /\ availability' = "unknown"
  /\ open' = FALSE /\ live' = {} /\ timer' = FALSE /\ closing' = FALSE
  /\ said' = {}
  /\ UNCHANGED <<rows, left>>

-----------------------------------------------------------------------------
(* The connection, which takes effect at once.                             *)

Connected == broker /\ availability = "online"

\* Slip: going offline leaves the window open.
OnlyOpens(before, after) ==
  IF after /\ ~before
  THEN open' = TRUE /\ live' = {} /\ timer' = TRUE /\ said' = {}
  ELSE UNCHANGED <<open, live, timer, said>>

\* _changed() and bridge_availability(): each return opens the window anew,
\* and going away closes it undecided.
BridgeChanged(before, after) ==
  CASE after /\ ~before -> open' = TRUE /\ live' = {} /\ timer' = TRUE /\ said' = {}
    [] before /\ ~after -> open' = FALSE /\ live' = {} /\ timer' = FALSE /\ said' = said
    [] OTHER -> UNCHANGED <<open, live, timer, said>>

\* _set_broker(): a new session knows nothing of the bridge yet.
Broker(up) ==
  /\ broker # up
  /\ broker' = up /\ availability' = "unknown"
  /\ BridgeChanged(Connected, FALSE)
  /\ UNCHANGED <<people, forgotten, inbox, announced, closing>>

\* _handle(), the availability topic.
Availability(word) ==
  /\ broker
  /\ availability' = word
  /\ BridgeChanged(Connected, word = "online")
  /\ UNCHANGED <<people, forgotten, broker, inbox, announced, closing>>

\* _handle(), a discovery topic: what the broker delivers from its store is
\* marked as retained, and an empty message withdraws.
Announcement(address, kind) ==
  /\ broker /\ Len(inbox) < QueueBound
  /\ inbox' = Append(inbox, [address |-> address, kind |-> kind])
  /\ said' = IF kind = "live" /\ Connected THEN said \cup {address} ELSE said
  /\ UNCHANGED <<people, forgotten, connection, announced, deciding>>

-----------------------------------------------------------------------------
(* The loop that reads the queue, and the window.                          *)

\* Slip: an announcement counts for the window and does not take a mark back.
HandleKeepsMark ==
  /\ inbox # <<>>
  /\ inbox' = Tail(inbox)
  /\ LET news == Head(inbox)
     IN  /\ live' = IF news.kind = "live" /\ open THEN live \cup {news.address}
                                                  ELSE live
         /\ announced' = IF news.kind = "withdrawn" THEN announced \ {news.address}
                         ELSE announced \cup {news.address}
         /\ left' = IF news.kind = "live" /\ news.address \in DOMAIN left
                       /\ left[news.address] = "silent"
                    THEN Drop(left, news.address) ELSE left
  /\ UNCHANGED <<file, rows, household, forgotten, connection, open, timer,
                 closing, said>>

\* handle(): a live announcement counts for the window and takes a mark back.
Handle ==
  /\ inbox # <<>>
  /\ inbox' = Tail(inbox)
  /\ LET news == Head(inbox)
     IN  /\ live' = IF news.kind = "live" /\ open THEN live \cup {news.address}
                                                  ELSE live
         /\ forgotten' =
              IF news.kind = "live"
              THEN {i \in forgotten : household[i].address # news.address}
              ELSE forgotten
         /\ announced' = IF news.kind = "withdrawn" THEN announced \ {news.address}
                         ELSE announced \cup {news.address}
         /\ left' = IF news.kind = "live" /\ news.address \in DOMAIN left
                       /\ left[news.address] = "silent"
                    THEN Drop(left, news.address) ELSE left
  /\ UNCHANGED <<file, rows, household, connection, open, timer, closing, said>>

\* _window_elapsed()
WindowElapsed ==
  /\ timer
  /\ timer' = FALSE /\ closing' = TRUE
  /\ UNCHANGED <<people, forgotten, connection, inbox, announced, open, live, said>>

\* close_window(): of whatever window is open by now.
CloseWindow ==
  /\ closing
  /\ closing' = FALSE /\ open' = FALSE /\ live' = {} /\ timer' = FALSE
  /\ forgotten' = IF ~open \/ live = {} THEN forgotten
                  ELSE forgotten \cup {i \in DOMAIN household \ DOMAIN file :
                                         household[i].address \notin live}
  /\ UNCHANGED <<people, connection, inbox, announced, said>>

-----------------------------------------------------------------------------

Init ==
  /\ file \in Files
  /\ rows = EmptyTable /\ household = file
  /\ forgotten = {} /\ announced = {} /\ inbox = <<>>
  /\ broker = FALSE /\ availability = "unknown"
  /\ open = FALSE /\ live = {} /\ timer = FALSE /\ closing = FALSE
  /\ said = {} /\ left = EmptyTable

Next ==
  \/ \E a \in Addresses, n \in Names : Confirm(a, n)
  \/ \E i \in DOMAIN household : Remove(i) \/ \E n \in Names : Rename(i, n)
  \/ \E a \in Addresses : Restore(a)
  \/ \E f \in Files : Restart(f)
  \/ \E up \in BOOLEAN : Broker(up)
  \/ \E word \in {"online", "offline"} : Availability(word)
  \/ \E a \in Addresses, k \in {"live", "retained", "withdrawn"} : Announcement(a, k)
  \/ Handle \/ WindowElapsed \/ CloseWindow

Spec == Init /\ [][Next]_vars

-----------------------------------------------------------------------------
(* Properties.                                                             *)

TypeOK ==
  /\ file \in Files
  /\ IsTable(rows, Addresses, Row)
  /\ IsTable(household, Ids, Entry)
  /\ forgotten \subseteq DOMAIN household \ DOMAIN file
  /\ broker \in BOOLEAN /\ availability \in {"unknown", "online", "offline"}
  /\ inbox \in Seq(Message) /\ announced \subseteq Addresses
  /\ open \in BOOLEAN /\ live \subseteq Addresses
  /\ timer \in BOOLEAN /\ closing \in BOOLEAN
  /\ said \subseteq Addresses
  /\ IsTable(left, Addresses, {"announced", "silent"})

\* Reports go by address: no two shutters of the household share one, however
\* often somebody edits the file under the rows that the app wrote.
OneEntryPerAddress ==
  \A i, j \in DOMAIN household : household[i].address = household[j].address => i = j

\* What memory says is what the next start would read: confirming, renaming and
\* removing write to both.
RestartKeepsTheHousehold == household = Built(file)

\* FR-017: whoever is marked as unknown to the bridge although the bridge has
\* announced it since it came online loses the mark: that announcement waits in
\* the queue.
MarksAreTakenBack ==
  \A i \in forgotten :
    household[i].address \in said =>
      \E n \in DOMAIN inbox : inbox[n] = [address |-> household[i].address, kind |-> "live"]

\* FR-018: "A bridge that is unreachable MUST NOT make shutters count as
\* forgotten", also when the window's time was up before it went away.
OfflineDecidesNothing == [][Connected \/ forgotten' \subseteq forgotten]_vars

\* FR-016: what left while it was announced is not offered as new, whatever is
\* announced, withdrawn, forgotten, restarted or edited, until it is restored.
SetAsideStaysAside ==
  \A a \in New : a \notin DOMAIN left \/ left[a] # "announced"

\* FR-016 for those the app had not heard of when they left: old news of the
\* broker does not offer them again.
OldNewsIsNoOffer == \A a \in New : a \notin DOMAIN left

\* close_window(): "A window without a single live announcement decides nothing."
NoNewsDecidesNothing == [][said # {} \/ forgotten' \subseteq forgotten]_vars

\* FR-019: "so nothing the bridge knows is hidden from the person".
NothingIsHidden ==
  \A a \in announced : \/ a \in AddressesOf(household) \/ a \in New
                       \/ a \in DOMAIN rows /\ rows[a].state = "set_aside"

\* NameTaken: no two shutters of the household have one name.
NamesAreUnique ==
  \A i, j \in DOMAIN household : household[i].name = household[j].name => i = j
=============================================================================
