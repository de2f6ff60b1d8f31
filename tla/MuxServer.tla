----------------------------- MODULE MuxServer -----------------------------
(***************************************************************************)
(* The multiplexed terminal server of packages/wormhole: the session store *)
(* (internal/sessionStore.ts), the sessions in it (internal/session.ts)    *)
(* and the handlers of its connections (internal/muxHandler.ts), each with *)
(* a channel map of its own (internal/channelMap.ts).                      *)
(*                                                                         *)
(* A message, an output event or an exit event is handled to its end       *)
(* before the next one: the queues are unbounded, the fibers it wakes only *)
(* wait for one another, and the runtime takes the next event from the     *)
(* network when they are all idle.  In particular an output fiber has      *)
(* forwarded all that is in its queue.                                     *)
(*                                                                         *)
(* A connection may name any session that was ever created.  The host may  *)
(* keep a checkpoint of a session and restore it when the server restarts  *)
(* (SessionCheckpoint.ts, restore).                                        *)
(***************************************************************************)
EXTENDS Session, ChannelMap, FiniteSets

CONSTANTS
  Conns,            \* connections; a name is used again after a cleanup
  ChunkBytes,       \* the lengths that a string of output may have
  MaxSessions,      \* bound: sessions ever created
  MaxQueues,        \* bound: client queues that exist at once
  MaxGenerations,   \* bound: session -> processes spawned for it
  MaxPushed,        \* bound: session -> strings pushed to its scrollback
  MaxRestarts,      \* bound: restarts of the server
  Checkpointed      \* bound: sessions the host takes checkpoints of

SessionIds == 1 .. MaxSessions
QueueIds   == 1 .. MaxQueues

ASSUME MuxAssumption ==
  /\ MaxSessions \in Nat /\ MaxQueues \in Nat /\ MaxRestarts \in Nat
  /\ Ids = SessionIds
  /\ \A size \in Sizes : size \in [cols : Nat \ {0}, rows : Nat \ {0}]
  /\ ChunkBytes \subseteq Nat \ {0} /\ BannerBytes \in Nat \ {0}

VARIABLES
  sessions,  \* session id -> session; also those that were destroyed
  store,     \* the ids in the session store
  queues,    \* the queues that are open, each with its output fiber:
             \*   queue -> [session, exited, got], where exited is the
             \*   generation of the handle's deferred and got what was sent
  conns,     \* connection -> [phase, channels, entries]; entries maps a
             \*   channel to the queue of its handle
  saved,     \* session id -> the checkpoint of it that the host has kept
  restarts   \* restarts so far

vars == <<sessions, store, queues, conns, saved, restarts>>

Closed == [phase |-> "closed", channels |-> NewChannelMap, entries |-> EmptyMap]

Init ==
  /\ sessions = EmptyMap /\ store = {} /\ queues = EmptyMap
  /\ conns = [c \in Conns |-> Closed]
  /\ saved = EmptyMap /\ restarts = 0

\* Queues that a client entry or a channel entry refers to, open or not.
Referenced ==
  UNION {ClientQueues(sessions[s]) : s \in DOMAIN sessions}
    \cup UNION {{conns[c].entries[ch] : ch \in DOMAIN conns[c].entries} : c \in Conns}

FreeQueues == QueueIds \ (DOMAIN queues \cup Referenced)

CreatedId == Cardinality(DOMAIN sessions) + 1
-----------------------------------------------------------------------------
\* make: a handler for a new connection
Open(c) ==
  /\ conns[c].phase = "closed"
  /\ conns' = [conns EXCEPT ![c] = [Closed EXCEPT !.phase = "open"]]
  /\ UNCHANGED <<sessions, store, queues>>

\* close(code, reason): the handler gives up on the message.
Bail(c) == conns' = [conns EXCEPT ![c].phase = "closing"]

\* assignChannel, attach and registerEntry.  t is the session as it is by
\* then.  The session is left as it is when there is no channel for it.
AttachTo(c, s, t, size) ==
  LET m == Assign(conns[c].channels, s)
  IN  IF ~ HasChannel(m, s)
      THEN Bail(c) /\ sessions' = Put(sessions, s, t) /\ UNCHANGED queues
      ELSE /\ FreeQueues # {}
           /\ LET q == Min(FreeQueues)
              IN  /\ sessions' = Put(sessions, s, Attach(t, c, q, size))
                  /\ queues' = Put(queues, q, [session |-> s, exited |-> t.generation,
                                               got |-> Replay(t)])
                  /\ conns' = [conns EXCEPT ![c].channels = m,
                                 ![c].entries = Put(@, m.ptyToChannel[s], q)]

\* store.create, once the session has its first process
StoreCreate == store' = store \cup {CreatedId}

\* session_create: the store keeps the session even if no channel is free.
SessionCreate(c, size) ==
  /\ conns[c].phase = "open"
  /\ CreatedId \in SessionIds
  /\ \/ /\ StoreCreate
        /\ AttachTo(c, CreatedId, SpawnGeneration(NewSession, size), size)
     \/ Bail(c) /\ UNCHANGED <<sessions, store, queues>>

\* session_attach: a session that has exited gets a new process first; when
\* that cannot be spawned the banner remains in the scrollback.
SessionAttach(c, s, size) ==
  /\ conns[c].phase = "open"
  /\ s \in store
  /\ IF Exited(sessions[s])
     THEN /\ sessions[s].pushed < MaxPushed[s]
          /\ sessions[s].generation < MaxGenerations[s]
          /\ \E t \in Bannered(sessions[s]) :
               \/ AttachTo(c, s, SpawnGeneration(t, size), size)
               \/ Bail(c) /\ sessions' = Put(sessions, s, t) /\ UNCHANGED queues
     ELSE AttachTo(c, s, sessions[s], size)
  /\ UNCHANGED store

\* Variant: the channel is not given back.
TeardownLeak(c, ch) ==
  LET q == conns[c].entries[ch]
      s == conns[c].channels.channelToPty[ch]
  IN  /\ sessions' = [sessions EXCEPT ![s] = Close(@, c)]
      /\ queues' = Drop(queues, {q})
      /\ conns' = [conns EXCEPT ![c].entries = Drop(@, {ch})]

\* teardownEntry, on a channel that has an entry
Teardown(c, ch) ==
  LET q == conns[c].entries[ch]
      s == conns[c].channels.channelToPty[ch]
  IN  /\ sessions' = [sessions EXCEPT ![s] = Close(@, c)]
      /\ queues' = Drop(queues, {q})
      /\ conns' = [conns EXCEPT ![c].entries = Drop(@, {ch}),
                                ![c].channels = Release(@, ch)]

\* session_detach
SessionDetach(c, s) ==
  /\ conns[c].phase = "open"
  /\ HasChannel(conns[c].channels, s)
  /\ Teardown(c, conns[c].channels.ptyToChannel[s])
  /\ UNCHANGED store

\* session_resize
SessionResize(c, s, size) ==
  /\ conns[c].phase = "open"
  /\ HasChannel(conns[c].channels, s)
  /\ sessions' = [sessions EXCEPT ![s] = ClientResize(@, c, size)]
  /\ UNCHANGED <<store, queues, conns>>

\* session_destroy: the connection's own entry is torn down, then the store
\* forgets the session and closes its scope.
SessionDestroy(c, s) ==
  /\ conns[c].phase = "open"
  /\ s \in store
  /\ store' = store \ {s}
  /\ IF HasChannel(conns[c].channels, s)
     THEN LET ch == conns[c].channels.ptyToChannel[s]
          IN  /\ sessions' = [sessions EXCEPT ![s] = ScopeClosed(Close(@, c))]
              /\ queues' = Drop(queues, {conns[c].entries[ch]})
              /\ conns' = [conns EXCEPT ![c].entries = Drop(@, {ch}),
                                        ![c].channels = Release(@, ch)]
     ELSE /\ sessions' = [sessions EXCEPT ![s] = ScopeClosed(@)]
          /\ UNCHANGED <<queues, conns>>

\* cleanup, when the connection is gone
Cleanup(c) ==
  /\ conns[c].phase # "closed"
  /\ LET own == {conns[c].entries[ch] : ch \in DOMAIN conns[c].entries}
     IN  /\ queues' = Drop(queues, own)
         /\ sessions' = [s \in DOMAIN sessions |->
                           IF \E ch \in DOMAIN conns[c].entries :
                                conns[c].channels.channelToPty[ch] = s
                           THEN Close(sessions[s], c) ELSE sessions[s]]
  /\ conns' = [conns EXCEPT ![c] = Closed]
  /\ UNCHANGED store
-----------------------------------------------------------------------------
\* The process of a session outputs a string of so many bytes.
Output(s, bytes) ==
  /\ s \in DOMAIN sessions
  /\ sessions[s].alive /\ sessions[s].distributing
  /\ sessions[s].pushed < MaxPushed[s]
  /\ \E result \in Distributed(sessions[s], bytes, DOMAIN queues) :
       /\ sessions' = [sessions EXCEPT ![s] = result[1]]
       /\ queues' = [q \in DOMAIN queues |->
                       IF q \in result[2]
                       THEN [queues[q] EXCEPT !.got = Append(@, result[1].pushed)]
                       ELSE queues[q]]
  /\ UNCHANGED <<store, conns>>

\* The process of a session exits.  An output fiber ends when its queue is
\* shut down or the deferred of its handle is resolved, and then sends
\* session_exit.
Exit(s) ==
  /\ s \in DOMAIN sessions
  /\ sessions[s].alive
  /\ LET t    == sessions[s]
         told == {q \in DOMAIN queues :
                    queues[q].session = s /\ queues[q].exited = t.generation}
     IN  /\ sessions' = [sessions EXCEPT ![s] = ProcessExited(t)]
         /\ queues' = Drop(queues, ClientQueues(t) \cup told)
  /\ UNCHANGED <<store, conns>>

-----------------------------------------------------------------------------
\* The host takes a checkpoint of a session and keeps it.  A checkpoint that a
\* later one replaces, or that no restart follows, makes no difference.
SaveCheckpoint(s) ==
  /\ s \in (store \cap Checkpointed) \ DOMAIN saved
  /\ restarts < MaxRestarts
  /\ saved' = Put(saved, s, Checkpoint(sessions[s]))
  /\ UNCHANGED <<sessions, store, queues, conns, restarts>>

\* The server's process ends, with its shells and its connections.  The next
\* one restores the checkpoints before it takes connections; of the other
\* sessions nothing is left but that their ids were used.
Restart ==
  /\ DOMAIN saved # {}
  /\ restarts' = restarts + 1
  /\ store' = DOMAIN saved
  /\ sessions' = [s \in DOMAIN sessions |->
                    IF s \in store' THEN Restored(saved[s]) ELSE NewSession]
  /\ queues' = EmptyMap
  /\ conns' = [c \in Conns |-> Closed]
  /\ saved' = EmptyMap

Handled ==
  \/ \E c \in Conns : Open(c) \/ Cleanup(c)
  \/ \E c \in Conns, size \in Sizes :
       \/ SessionCreate(c, size)
       \/ \E s \in SessionIds : SessionAttach(c, s, size) \/ SessionResize(c, s, size)
  \/ \E c \in Conns, s \in SessionIds : SessionDetach(c, s) \/ SessionDestroy(c, s)
  \/ \E s \in SessionIds : Exit(s)
  \/ \E s \in SessionIds, bytes \in ChunkBytes : Output(s, bytes)

Next ==
  \/ Handled /\ UNCHANGED <<saved, restarts>>
  \/ \E s \in SessionIds : SaveCheckpoint(s)
  \/ Restart

Spec == Init /\ [][Next]_vars
-----------------------------------------------------------------------------
SessionTyped(s) ==
  /\ s.pushed \in Nat /\ s.generation \in Nat
  /\ s.running \in BOOLEAN /\ s.alive \in BOOLEAN /\ s.distributing \in BOOLEAN
  /\ DOMAIN s.clients \subseteq Conns
  /\ \A c \in DOMAIN s.clients :
       s.clients[c].queue \in QueueIds /\ s.clients[c].size \in Sizes

TypeOK ==
  /\ DOMAIN sessions \subseteq SessionIds
  /\ \A s \in DOMAIN sessions : SessionTyped(sessions[s])
  /\ store \subseteq DOMAIN sessions
  /\ DOMAIN saved \subseteq DOMAIN sessions /\ restarts \in 0 .. MaxRestarts
  /\ DOMAIN queues \subseteq QueueIds
  /\ \A q \in DOMAIN queues : queues[q].session \in DOMAIN sessions
  /\ \A c \in Conns :
       /\ conns[c].phase \in {"closed", "open", "closing"}
       /\ conns[c].channels \in ChannelMapType

\* The scrollback of a session is the tail of its output, across restarts of
\* its process and of the server, and stays within its capacity.
ScrollbackIsTail ==
  \A s \in DOMAIN sessions :
    /\ WithinCapacity(sessions[s].buffer)
    /\ IsTail(sessions[s].buffer, sessions[s].pushed)

\* A client is sent the scrollback and then the output, with no string left
\* out, doubled or out of order between the two; while the output is
\* distributed, it has been sent all of it.
StreamsUnbroken ==
  \A q \in DOMAIN queues :
    LET got == queues[q].got
        s   == sessions[queues[q].session]
    IN  /\ \A i \in 1 .. Len(got) - 1 : got[i + 1] = got[i] + 1
        /\ s.distributing /\ q \in ClientQueues(s) =>
             IF got = << >> THEN s.pushed = 0 ELSE Last(got) = s.pushed

\* A connection's channels, its entries and the clients of the sessions
\* agree: a channel has an entry exactly while it is assigned, the queue of
\* the entry is the one the session sends to, and a session has no client
\* that is not attached.
EntriesRegistered ==
  \A c \in Conns :
    LET m == conns[c].channels
    IN  /\ MutuallyInverse(m)
        /\ DOMAIN conns[c].entries = DOMAIN m.channelToPty
        /\ \A ch \in DOMAIN m.channelToPty :
             LET clients == sessions[m.channelToPty[ch]].clients
             IN  c \in DOMAIN clients /\ clients[c].queue = conns[c].entries[ch]
        /\ \A s \in DOMAIN sessions :
             c \in DOMAIN sessions[s].clients => HasChannel(m, s)

\* The store, the connections and the sessions fit each other after every
\* message: the fields have their types, and no entry, channel or client is
\* left behind by an attach, a detach, an exit or a cleanup (muxHandler.ts).
StoreSound == TypeOK /\ EntriesRegistered

\* While some client receives its output, a process has the size that just
\* fits in the windows of all the clients registered, of which those that
\* were told of an earlier exit are some.
SizeFitsAll ==
  \A s \in DOMAIN sessions :
    sessions[s].alive /\ ClientQueues(sessions[s]) \cap DOMAIN queues # {} =>
      sessions[s].size = LeastSize(sessions[s].clients)

\* No client of a stored session waits for the output of a dead process: it
\* was told of the exit, and the session can be spawned again.
NobodyWaitsOnTheDead ==
  \A s \in store :
    ~ sessions[s].alive =>
      Exited(sessions[s]) /\ \A q \in DOMAIN queues : queues[q].session # s
-----------------------------------------------------------------------------
\* The blog on immortal sessions: "when a client reattaches, the session
\* respawns a fresh PTY. No data loss, no manual intervention."  The output
\* of a process that is alive is distributed and kept.
RespawnLosesNothing ==
  \A s \in store : sessions[s].alive => sessions[s].distributing
=============================================================================
