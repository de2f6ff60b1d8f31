------------------------------ MODULE Requests ------------------------------
(***************************************************************************)
(* The requests that a browser window has in flight to the GraphQL API, in *)
(* the order they were made (apps/kamp-us/src/relay/environment.ts: each   *)
(* operation is a fetch of its own).  The API serves a request at one time *)
(* and the answer arrives at another, so that answers may overtake each    *)
(* other.  rank orders the requests that were served; 0 is not served yet. *)
(***************************************************************************)
EXTENDS Naturals, Sequences, FiniteSets

CONSTANT MaxRequests   \* bound: requests in flight

VARIABLE reqs

InFlight(op) == {i \in DOMAIN reqs : reqs[i].op = op}

CanRequest == Len(reqs) < MaxRequests

Unserved(i) == reqs[i].rank = 0

NextRank == 1 + Cardinality({i \in DOMAIN reqs : reqs[i].rank > 0})

Served(i, res) == [reqs EXCEPT ![i].res = res, ![i].rank = NextRank]

\* The requests without the i-th; the ranks close up.
Rest(i) ==
  LET closed(r) == IF reqs[i].rank > 0 /\ r.rank > reqs[i].rank
                     THEN [r EXCEPT !.rank = @ - 1] ELSE r
  IN [j \in 1 .. Len(reqs) - 1 |-> closed(reqs[IF j < i THEN j ELSE j + 1])]

Overtakes(i) == reqs[i].rank > 1
=============================================================================
