------------------------------ MODULE Session ------------------------------
(***************************************************************************)
(* A PTY session that several clients share, as operators on a record:     *)
(* packages/wormhole/src/internal/session.ts.                              *)
(*                                                                         *)
(*   buffer        the scrollback                                          *)
(*   pushed        how many strings were pushed to it so far               *)
(*   clients       client -> [queue, size]                                 *)
(*   running       procRef holds a process                                 *)
(*   generation    the generation whose deferred exitedRef holds           *)
(*   alive         the process of that generation is alive                 *)
(*   distributing  its distribution fiber is running                       *)
(*   size          the size the process was last given                     *)
(*                                                                         *)
(* The deferred of an earlier generation is resolved, and that of the      *)
(* latest is resolved when procRef is cleared, by the same fiber.          *)
(***************************************************************************)
EXTENDS RingBuffer, Maps

CONSTANTS
  Sizes,         \* terminal sizes, records of cols and rows
  BannerBytes    \* the length of the restart banner

Exited(s) == ~ s.running

ClientQueues(s) == {s.clients[c].queue : c \in DOMAIN s.clients}

\* make, before the first process
NewSession ==
  [buffer |-> EmptyBuffer, pushed |-> 0, clients |-> EmptyMap,
   running |-> FALSE, generation |-> 0, alive |-> FALSE,
   distributing |-> FALSE, size |-> [cols |-> 0, rows |-> 0]]

\* spawnGeneration with a spawn that succeeds
SpawnGeneration(s, size) ==
  [s EXCEPT !.running = TRUE, !.generation = @ + 1, !.alive = TRUE,
            !.distributing = TRUE, !.size = size]

LeastSize(clients) ==
  [cols |-> Min({clients[c].size.cols : c \in DOMAIN clients}),
   rows |-> Min({clients[c].size.rows : c \in DOMAIN clients})]

\* recomputeSize, to a process that ignores it when it is dead
RecomputeSize(s) ==
  IF s.running /\ s.alive /\ DOMAIN s.clients # {}
  THEN [s EXCEPT !.size = LeastSize(s.clients)] ELSE s

\* attach: the queue first gets the strings of the scrollback.
Attach(s, c, queue, size) ==
  RecomputeSize([s EXCEPT !.clients = Put(@, c, [queue |-> queue, size |-> size])])

\* Variant: the snapshot misses the last push.
ReplayStale(s) ==
  [i \in 1 .. Len(s.buffer.entries) - 1 |-> s.buffer.entries[i].n]

Replay(s) == [i \in DOMAIN s.buffer.entries |-> s.buffer.entries[i].n]

\* Variant: the size stays what the client that left had asked for.
CloseNoResize(s, c) == [s EXCEPT !.clients = Drop(@, {c})]

\* Variant: the entry of the client that left is kept.
CloseKeepsEntry(s, c) == RecomputeSize(s)

\* close of the handle of c: its queue is shut down besides.
Close(s, c) == RecomputeSize([s EXCEPT !.clients = Drop(@, {c})])

ClientResize(s, c, size) ==
  IF c \in DOMAIN s.clients
  THEN RecomputeSize([s EXCEPT !.clients[c].size = size]) ELSE RecomputeSize(s)

\* The sessions after a string of so many bytes is pushed to the buffer.
Pushed(s, bytes) ==
  {[s EXCEPT !.buffer = b, !.pushed = @ + 1] :
     b \in Push(s.buffer, [n |-> s.pushed + 1, bytes |-> bytes])}

\* respawn up to the spawn, which may fail
Bannered(s) == Pushed(s, BannerBytes)

\* One turn of the distribution fiber, over the queues that are open: offer
\* to a queue that was shut down interrupts the fiber, for good, and some of
\* the other offers.
Distributed(s, bytes, open) ==
  LET targets == ClientQueues(s)
  IN  IF targets \subseteq open
      THEN {<<t, targets>> : t \in Pushed(s, bytes)}
      ELSE {<<[t EXCEPT !.distributing = FALSE], reached>> :
              t \in Pushed(s, bytes), reached \in SUBSET (targets \cap open)}

\* Variant: the exit watcher forgets to clear procRef.
ProcessExitedKept(s) == [s EXCEPT !.alive = FALSE, !.distributing = FALSE]

\* The process exits: its output ends, the exit watcher resolves the
\* deferred, clears procRef and shuts down the queues of all clients.
ProcessExited(s) ==
  [s EXCEPT !.alive = FALSE, !.distributing = FALSE, !.running = FALSE]

\* The scope of the session is closed: the exit watcher is interrupted
\* before the process is killed, so nothing else is done.
ScopeClosed(s) == [s EXCEPT !.alive = FALSE, !.distributing = FALSE]

\* checkpoint; pushed only numbers the strings of the buffer.
Checkpoint(s) == [buffer |-> Serialize(s.buffer), pushed |-> s.pushed]

\* restore: no client and no process, an exit deferred already resolved.
Restored(checkpoint) ==
  [NewSession EXCEPT !.buffer = FromSnapshot(checkpoint.buffer), !.pushed = checkpoint.pushed]
=============================================================================
