------------------------------- MODULE Window -------------------------------
(***************************************************************************)
(* What the pages of the library have in common: the user's Library object *)
(* behind the API, and a browser window whose data lives in a Relay store, *)
(* which a page shows with the optimistic answers of its mutations in      *)
(* flight laid over it in the order they were made.                        *)
(***************************************************************************)
EXTENDS Library, Requests, SequencesExt

CONSTANTS
  Gone,         \* what the store has of a record that was deleted
  Libraries,    \* what the user's library may hold at first
  MaxIds,       \* bound: ids given out by the server
  MaxChanges    \* bound: changes asked for

ASSUME LibrariesAssumption ==
  /\ MaxRequests \in Nat \ {0} /\ MaxIds \in Nat /\ MaxChanges \in Nat
  /\ \A d \in Libraries : LibraryOK(d) /\ d.next <= MaxIds + 1

VARIABLES
  db,         \* the Library object
  rec,        \* the store's records: id -> record, or Gone once deleted
  changes,    \* changes asked for
  disturbed   \* history: the server has changed in a way that the store was
              \* not told, or was told out of turn

CanChange == CanRequest /\ changes < MaxChanges

\* The optimistic answers about the record of id s.
Overlays(s) == {i \in InFlight("update") \cup InFlight("delete") : reqs[i].id = s}

\* The ids from the newest to the oldest.
Descending(ids) ==
  [i \in 1 .. Cardinality(ids) |->
     CHOOSE s \in ids : Cardinality({t \in ids : t > s}) = i - 1]
=============================================================================
