---------------------------- MODULE SingleServer ----------------------------
(***************************************************************************)
(* The server of apps/wormhole: connections that show one PTY session at a *)
(* time (packages/wormhole/src/internal/server.ts), over a session store.  *)
(* No message to this server destroys a session or respawns an exited one. *)
(*                                                                         *)
(* As in MuxServer, a message, an output or an exit is handled to its end  *)
(* before the next one, by the fiber that forwards the output too.  That   *)
(* fiber serves the connection's present handle; when the stream of a      *)
(* handle ends and its session has exited, it ends the connection.         *)
(***************************************************************************)
EXTENDS Session, FiniteSets

CONSTANTS
  Conns,         \* connections; a name is used again once it is closed
  SessionIds,    \* the ids that connections ask for or the server makes up
  ChunkBytes,    \* the lengths that a string of output may have
  Null,
  MaxQueues,     \* bound: client queues that exist at once
  MaxPushed      \* bound: strings pushed to a scrollback

QueueIds == 1 .. MaxQueues

ASSUME SingleAssumption ==
  /\ Null \notin SessionIds \cup QueueIds
  /\ \A size \in Sizes : size \in [cols : Nat \ {0}, rows : Nat \ {0}]
  /\ ChunkBytes \subseteq Nat \ {0} /\ BannerBytes \in Nat \ {0}

VARIABLES
  sessions,  \* session id -> session, the session store
  queues,    \* the queues that are open: queue -> what was sent of it
  conns      \* connection -> [phase, session, queue]: once it is
             \*   "attached", sessionRef and the queue of handleRef

vars == <<sessions, queues, conns>>

Connection(phase, s, q) == [phase |-> phase, session |-> s, queue |-> q]

Closed == Connection("closed", Null, Null)

Init ==
  sessions = EmptyMap /\ queues = EmptyMap /\ conns = [c \in Conns |-> Closed]

FreeQueues ==
  QueueIds \ (DOMAIN queues
                \cup UNION {ClientQueues(sessions[s]) : s \in DOMAIN sessions})

Attached(s) == {c \in Conns : conns[c].phase = "attached" /\ conns[c].session = s}
-----------------------------------------------------------------------------
\* handleConnection: a new connection.  A first message that is no attach,
\* or whose session cannot be spawned, has the connection closed: that is a
\* Disconnect, before which further messages are still handled.
Open(c) ==
  /\ conns[c].phase = "closed"
  /\ conns' = [conns EXCEPT ![c] = Connection("open", Null, Null)]
  /\ UNCHANGED <<sessions, queues>>

\* The end of doAttach: t is session s with the previous handle closed, and
\* open are the queues that are left.
AttachTo(c, s, t, size, open) ==
  /\ FreeQueues # {}
  /\ LET q == Min(FreeQueues)
     IN  /\ sessions' = Put(sessions, s, Attach(t, c, q, size))
         /\ queues' = Put(open, q, Replay(t))
         /\ conns' = [conns EXCEPT ![c] = Connection("attached", s, q)]

\* The first message, an attach: to the session asked for when the store has
\* it, exited or not, and else to a new one of that id, or of a new id.
FirstAttach(c) ==
  /\ conns[c].phase = "open"
  /\ \E s \in SessionIds, size \in Sizes :
       AttachTo(c, s,
                IF s \in DOMAIN sessions THEN sessions[s]
                ELSE SpawnGeneration(NewSession, size),
                size, queues)

\* The connection is over: Effect.ensuring closes its handle.
Finish(c) ==
  /\ sessions' = IF conns[c].phase = "attached"
                 THEN [sessions EXCEPT ![conns[c].session] = Close(@, c)] ELSE sessions
  /\ queues' = Drop(queues, {conns[c].queue})
  /\ conns' = [conns EXCEPT ![c] = Closed]

\* Variant: the previous handle is not closed.
SessionNewLeaky(c) ==
  /\ conns[c].phase = "attached"
  /\ \E size \in Sizes :
       AttachTo(c, conns[c].session, sessions[conns[c].session], size, queues)

\* session_new: the present handle is closed and the connection attached to
\* the same session again.  If that has exited, the end of the old stream
\* ends the connection.
SessionNew(c) ==
  /\ conns[c].phase = "attached"
  /\ LET s == conns[c].session
     IN  IF Exited(sessions[s]) THEN Finish(c)
         ELSE \E size \in Sizes :
                AttachTo(c, s, Close(sessions[s], c), size,
                         Drop(queues, {conns[c].queue}))

\* resize
Resize(c) ==
  /\ conns[c].phase = "attached"
  /\ \E size \in Sizes :
       sessions' = [sessions EXCEPT ![conns[c].session] = ClientResize(@, c, size)]
  /\ UNCHANGED <<queues, conns>>

\* The socket is closed, from either side.
Disconnect(c) == conns[c].phase # "closed" /\ Finish(c)
-----------------------------------------------------------------------------
\* The process of a session outputs a string of so many bytes.
Output(s, bytes) ==
  /\ s \in DOMAIN sessions
  /\ sessions[s].alive /\ sessions[s].distributing
  /\ sessions[s].pushed < MaxPushed
  /\ \E result \in Distributed(sessions[s], bytes, DOMAIN queues) :
       /\ sessions' = [sessions EXCEPT ![s] = result[1]]
       /\ queues' = [q \in DOMAIN queues |->
                       IF q \in result[2] THEN Append(queues[q], result[1].pushed)
                       ELSE queues[q]]
  /\ UNCHANGED conns

\* The process of a session exits: the streams of its clients end, and with
\* them their connections, which close their handles.
Exit(s) ==
  /\ s \in DOMAIN sessions
  /\ sessions[s].alive
  /\ LET ended == {c \in DOMAIN sessions[s].clients :
                     conns[c].phase = "attached"
                       /\ conns[c].queue = sessions[s].clients[c].queue}
         gone  == ProcessExited(sessions[s])
     IN  /\ sessions' = [sessions EXCEPT
                           ![s] = [gone EXCEPT !.clients = Drop(gone.clients, ended)]]
         /\ queues' = Drop(queues, ClientQueues(sessions[s]))
         /\ conns' = [c \in Conns |-> IF c \in ended THEN Closed ELSE conns[c]]

Next ==
  \/ \E c \in Conns :
       Open(c) \/ FirstAttach(c) \/ SessionNew(c) \/ Resize(c) \/ Disconnect(c)
  \/ \E s \in SessionIds : Exit(s)
  \/ \E s \in SessionIds, bytes \in ChunkBytes : Output(s, bytes)

Spec == Init /\ [][Next]_vars
-----------------------------------------------------------------------------
\* In this server a session has exited exactly when its process is dead.
TypeOK ==
  /\ DOMAIN sessions \subseteq SessionIds
  /\ \A s \in DOMAIN sessions :
       /\ sessions[s].pushed \in Nat /\ sessions[s].alive \in BOOLEAN
       /\ sessions[s].running = sessions[s].alive
  /\ DOMAIN queues \subseteq QueueIds
  /\ \A c \in Conns :
       \/ conns[c] \in {Closed, Connection("open", Null, Null)}
       \/ /\ conns[c].phase = "attached"
          /\ conns[c].session \in DOMAIN sessions /\ conns[c].queue \in QueueIds

\* "Close previous handle to avoid leaking client queues": the clients of a
\* session are the connections that show it, each with its present queue,
\* and no other queue is open.  This holds through reattaching, exits and
\* disconnects, and for sessions that had exited before the attach.
NoQueueLeaks ==
  /\ \A s \in DOMAIN sessions : DOMAIN sessions[s].clients = Attached(s)
  /\ \A s \in DOMAIN sessions : \A c \in Attached(s) :
       sessions[s].clients[c].queue = conns[c].queue
  /\ DOMAIN queues = {conns[c].queue : c \in {d \in Conns : conns[d].phase = "attached"}}

\* While the process of a session is alive its output reaches the scrollback
\* and every connection that shows it: no queue it is offered to was shut
\* down, and each got the scrollback and then all output, unbroken.
OutputReachesAll ==
  \A s \in DOMAIN sessions : sessions[s].alive =>
    /\ sessions[s].distributing
    /\ \A c \in Attached(s) :
         LET got == queues[conns[c].queue]
         IN  /\ \A i \in 1 .. Len(got) - 1 : got[i + 1] = got[i] + 1
             /\ IF got = << >> THEN sessions[s].pushed = 0
                ELSE Last(got) = sessions[s].pushed

\* The process has the size that just fits in the windows of the connections
\* that show it, as they come, go, reattach and are resized.
SizeFitsShown ==
  \A s \in DOMAIN sessions :
    sessions[s].alive /\ Attached(s) # {} =>
      sessions[s].size =
        LeastSize([c \in Attached(s) |-> sessions[s].clients[c]])
-----------------------------------------------------------------------------
\* README.md:86 of packages/wormhole: session_new is "Create new session".
\* What an attached connection is moved to is a session that was not there.
SessionNewCreates ==
  [][\A c \in Conns :
       conns[c].phase = "attached" /\ conns'[c].phase = "attached"
         /\ conns'[c].queue # conns[c].queue
       => conns'[c].session \notin DOMAIN sessions]_vars
=============================================================================
