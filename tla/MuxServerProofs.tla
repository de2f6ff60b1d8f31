-------------------------- MODULE MuxServerProofs --------------------------
(***************************************************************************)
(* The multiplexed server, for any number of connections, sessions,        *)
(* queues, channels and restarts, any sizes, any capacity and any lengths  *)
(* of output.                                                              *)
(***************************************************************************)
EXTENDS MuxServer, ServerLemmas, FiniteSetTheorems

\* What was sent of a queue is unbroken.
Unbroken(got) == \A i \in 1 .. Len(got) - 1 : got[i + 1] = got[i] + 1

QueueOK(r, domain) ==
  /\ DOMAIN r = {"session", "exited", "got"}
  /\ r.session \in domain /\ r.got \in Seq(Nat) /\ Unbroken(r.got)

Client == [queue : QueueIds, size : Sizes]

\* A session by itself.
Proper(t) ==
  /\ DOMAIN t = {"buffer", "pushed", "clients", "running", "generation",
                 "alive", "distributing", "size"}
  /\ TailOf(t.buffer, t.pushed) /\ t.generation \in Nat
  /\ DOMAIN t.clients \subseteq Conns
  /\ \A c \in DOMAIN t.clients : t.clients[c] \in Client
  /\ t.running \in BOOLEAN /\ t.alive \in BOOLEAN /\ t.distributing \in BOOLEAN
  /\ t.distributing => t.alive
  /\ t.alive => t.running

\* The open queues among those of its clients are its own, are there only
\* while procRef holds a process, and were sent all that was distributed.
Feeds(s, t, open) ==
  \A q \in ClientQueues(t) \cap DOMAIN open :
    /\ open[q].session = s /\ t.running
    /\ t.distributing => Stream(open[q].got, t.pushed)

Fits(t, open) ==
  t.alive /\ ClientQueues(t) \cap DOMAIN open # {} => t.size = LeastSize(t.clients)

SessionInv(s, t, open) == Proper(t) /\ Feeds(s, t, open) /\ Fits(t, open)

\* A session of the store: a queue of its own is there only while the process
\* is alive that the queue is told the exit of.
Stored(s, t, open) ==
  /\ t.running => t.alive
  /\ \A q \in DOMAIN open :
       open[q].session = s => t.alive /\ open[q].exited = t.generation

\* A connection and the clients of the sessions agree.
Registered(c, conn, all) ==
  LET m == conn.channels
  IN  /\ DOMAIN conn.entries = DOMAIN m.channelToPty
      /\ \A ch \in DOMAIN m.channelToPty :
           /\ m.channelToPty[ch] \in DOMAIN all
           /\ c \in DOMAIN all[m.channelToPty[ch]].clients
           /\ all[m.channelToPty[ch]].clients[c].queue = conn.entries[ch]
      /\ \A s \in DOMAIN all : c \in DOMAIN all[s].clients => HasChannel(m, s)

ConnInv(c, conn, all) ==
  /\ DOMAIN conn = {"phase", "channels", "entries"}
  /\ conn.phase \in {"closed", "open", "closing"}
  /\ conn.phase = "closed" => conn = Closed
  /\ Sound(conn.channels) /\ Registered(c, conn, all)

\* Ids are given out one after another.
Counted(ids) == \E n \in 0 .. MaxSessions : ids = 1 .. n

SavedInv(kept, domain) ==
  /\ DOMAIN kept \subseteq domain
  /\ \A s \in DOMAIN kept : TailOf(FromSnapshot(kept[s].buffer), kept[s].pushed)
  /\ restarts \in 0 .. MaxRestarts
  /\ DOMAIN kept # {} => restarts < MaxRestarts

\* The inductive invariant.
IInv ==
  /\ Counted(DOMAIN sessions)
  /\ \A s \in DOMAIN sessions : SessionInv(s, sessions[s], queues)
  /\ store \subseteq DOMAIN sessions
  /\ \A s \in store : Stored(s, sessions[s], queues)
  /\ DOMAIN queues \subseteq QueueIds
  /\ \A q \in DOMAIN queues : QueueOK(queues[q], DOMAIN sessions)
  /\ DOMAIN conns = Conns
  /\ \A c \in Conns : ConnInv(c, conns[c], sessions)
  /\ SavedInv(saved, DOMAIN sessions)
-----------------------------------------------------------------------------
\* recomputeSize gives a process that is alive the size that fits its clients.
LEMMA RecomputeSizeFits ==
  ASSUME NEW t, Proper(t)
  PROVE  LET u == RecomputeSize(t)
         IN  /\ Proper(u) /\ SameOutput(t, u) /\ u.generation = t.generation
             /\ u.clients = t.clients
             /\ u.alive /\ DOMAIN u.clients # {} => u.size = LeastSize(u.clients)
BY DEF RecomputeSize, Proper, SameOutput

\* close drops a client, and leaves the size right.
LEMMA CloseLeaves ==
  ASSUME NEW t, Proper(t), NEW c
  PROVE  LET u == Close(t, c)
         IN  /\ Proper(u) /\ SameOutput(t, u) /\ u.generation = t.generation
             /\ u.clients = Drop(t.clients, {c})
             /\ u.alive /\ DOMAIN u.clients # {} => u.size = LeastSize(u.clients)
<1> DEFINE v == [t EXCEPT !.clients = Drop(@, {c})]
<1>1. /\ DOMAIN v = DOMAIN t /\ SameOutput(t, v) /\ v.generation = t.generation
      /\ v.clients = Drop(t.clients, {c})
  BY DEF Proper, SameOutput
<1> HIDE DEF v
<1>2. DOMAIN v.clients \subseteq Conns /\ \A d \in DOMAIN v.clients : v.clients[d] \in Client
  BY <1>1 DEF Proper, Drop
<1>3. Proper(v)
  BY <1>1, <1>2 DEF Proper, SameOutput
<1>4. Close(t, c) = RecomputeSize(v)
  BY DEF Close, v
<1>5. QED BY <1>1, <1>3, <1>4, RecomputeSizeFits DEF SameOutput

\* attach adds one,
LEMMA AttachPuts ==
  ASSUME NEW t, Proper(t), NEW c \in Conns, NEW q \in QueueIds, NEW size \in Sizes
  PROVE  LET u == Attach(t, c, q, size)
         IN  /\ Proper(u) /\ SameOutput(t, u) /\ u.generation = t.generation
             /\ u.clients = Put(t.clients, c, [queue |-> q, size |-> size])
             /\ u.alive => u.size = LeastSize(u.clients)
<1> DEFINE v == [t EXCEPT !.clients = Put(@, c, [queue |-> q, size |-> size])]
<1>1. /\ DOMAIN v = DOMAIN t /\ SameOutput(t, v) /\ v.generation = t.generation
      /\ v.clients = Put(t.clients, c, [queue |-> q, size |-> size])
  BY DEF Proper, SameOutput
<1> HIDE DEF v
<1>2. [queue |-> q, size |-> size] \in Client
  BY DEF Client
<1>3. /\ DOMAIN v.clients \subseteq Conns /\ DOMAIN v.clients # {}
      /\ \A d \in DOMAIN v.clients : v.clients[d] \in Client
  BY <1>1, <1>2 DEF Proper, Put
<1>4. Proper(v)
  BY <1>1, <1>3 DEF Proper, SameOutput
<1>5. Attach(t, c, q, size) = RecomputeSize(v)
  BY DEF Attach, v
<1>6. QED BY <1>1, <1>3, <1>4, <1>5, RecomputeSizeFits DEF SameOutput

\* and clientResize changes sizes only.
LEMMA ClientResizeLeaves ==
  ASSUME NEW t, Proper(t), NEW c, NEW size \in Sizes
  PROVE  LET u == ClientResize(t, c, size)
         IN  /\ Proper(u) /\ SameOutput(t, u) /\ u.generation = t.generation
             /\ DOMAIN u.clients = DOMAIN t.clients
             /\ \A d \in DOMAIN t.clients : u.clients[d].queue = t.clients[d].queue
             /\ u.alive /\ DOMAIN u.clients # {} => u.size = LeastSize(u.clients)
<1>1. CASE c \in DOMAIN t.clients
  <2> DEFINE v == [t EXCEPT !.clients[c].size = size]
  <2>1. /\ DOMAIN v = DOMAIN t /\ SameOutput(t, v) /\ v.generation = t.generation
        /\ v.clients = [t.clients EXCEPT ![c].size = size]
    BY DEF Proper, SameOutput
  <2> HIDE DEF v
  <2>2. \A d \in DOMAIN t.clients : t.clients[d] \in Client
    BY DEF Proper
  <2>3. /\ DOMAIN v.clients = DOMAIN t.clients
        /\ \A d \in DOMAIN t.clients : v.clients[d].queue = t.clients[d].queue
        /\ \A d \in DOMAIN v.clients : v.clients[d] \in Client
    BY <2>1, <2>2 DEF Client
  <2>4. Proper(v)
    BY <2>1, <2>3 DEF Proper, SameOutput
  <2>5. ClientResize(t, c, size) = RecomputeSize(v)
    BY <1>1 DEF ClientResize, v
  <2>6. LET u == RecomputeSize(v)
        IN  /\ Proper(u) /\ SameOutput(v, u) /\ u.generation = v.generation
            /\ u.clients = v.clients
            /\ u.alive /\ DOMAIN u.clients # {} => u.size = LeastSize(u.clients)
    BY <2>4, RecomputeSizeFits
  <2>7. QED BY <2>1, <2>3, <2>5, <2>6 DEF SameOutput
<1>2. CASE c \notin DOMAIN t.clients
  BY <1>2, RecomputeSizeFits DEF ClientResize
<1>3. QED BY <1>1, <1>2

\* A string that is pushed leaves everything but the scrollback.
LEMMA PushedLeaves ==
  ASSUME NEW t, Proper(t), NEW bytes \in Nat, NEW u \in Pushed(t, bytes)
  PROVE  /\ Proper(u) /\ u.pushed = t.pushed + 1 /\ u.clients = t.clients
         /\ u.alive = t.alive /\ u.running = t.running /\ u.size = t.size
         /\ u.distributing = t.distributing /\ u.generation = t.generation
<1> DEFINE e == [n |-> t.pushed + 1, bytes |-> bytes]
<1>1. PICK b \in Push(t.buffer, e) : u = [t EXCEPT !.buffer = b, !.pushed = @ + 1]
  BY DEF Pushed
<1>2. e \in Entry /\ e.n = t.pushed + 1
  BY DEF Proper, TailOf, EndOf, Entry
<1> HIDE DEF e
<1>3. TailOf(b, t.pushed + 1)
  BY <1>1, <1>2, PushTail DEF Proper
<1>4. /\ DOMAIN u = DOMAIN t /\ u.buffer = b /\ u.pushed = t.pushed + 1
      /\ u.clients = t.clients /\ u.alive = t.alive /\ u.running = t.running
      /\ u.size = t.size /\ u.distributing = t.distributing /\ u.generation = t.generation
  BY <1>1 DEF Proper
<1>5. QED BY <1>3, <1>4 DEF Proper

\* A new process.
LEMMA SpawnLeaves ==
  ASSUME NEW t, Proper(t), NEW size
  PROVE  LET u == SpawnGeneration(t, size)
         IN  /\ Proper(u) /\ u.clients = t.clients /\ u.pushed = t.pushed
             /\ u.alive = TRUE /\ u.running = TRUE /\ u.distributing = TRUE
             /\ u.generation = t.generation + 1
<1> DEFINE u == SpawnGeneration(t, size)
<1>1. /\ DOMAIN u = DOMAIN t /\ u.buffer = t.buffer /\ u.pushed = t.pushed
      /\ u.clients = t.clients /\ u.alive = TRUE /\ u.running = TRUE
      /\ u.distributing = TRUE /\ u.generation = t.generation + 1
  BY DEF Proper, SpawnGeneration
<1>2. u.generation \in Nat
  BY <1>1 DEF Proper
<1> HIDE DEF u
<1>3. Proper(u)
  BY <1>1, <1>2 DEF Proper
<1>4. QED BY <1>1, <1>3 DEF u

\* A session without a process.
LEMMA NewProper ==
  /\ Proper(NewSession) /\ NewSession.clients = EmptyMap
  /\ NewSession.alive = FALSE /\ NewSession.running = FALSE
  /\ NewSession.generation = 0
<1> DEFINE t == NewSession
<1>1. /\ DOMAIN t = {"buffer", "pushed", "clients", "running", "generation",
                     "alive", "distributing", "size"}
      /\ t.buffer = EmptyBuffer /\ t.pushed = 0 /\ t.clients = EmptyMap
      /\ t.running = FALSE /\ t.alive = FALSE /\ t.distributing = FALSE
      /\ t.generation = 0
  BY DEF NewSession
<1> HIDE DEF t
<1>2. TailOf(t.buffer, t.pushed)
  BY <1>1, EmptyTail
<1>3. DOMAIN t.clients = {}
  BY <1>1 DEF EmptyMap
<1>4. t.generation \in Nat /\ DOMAIN t.clients \subseteq Conns
  BY <1>1, <1>3
<1>5. Proper(t)
  BY <1>1, <1>2, <1>3, <1>4, Zenon DEF Proper
<1>6. QED BY <1>1, <1>5 DEF t
-----------------------------------------------------------------------------
\* A session that a step leaves alone keeps its part of the invariant when the
\* open queues of its clients are as they were.
LEMMA OtherSession ==
  ASSUME NEW s, NEW t, NEW open, NEW open2, SessionInv(s, t, open),
         \A q \in DOMAIN open2 \cap ClientQueues(t) :
           q \in DOMAIN open /\ open2[q] = open[q]
  PROVE  SessionInv(s, t, open2)
BY DEF SessionInv, Feeds, Fits

LEMMA OtherStored ==
  ASSUME NEW s, NEW t, NEW open, NEW open2, Stored(s, t, open),
         \A q \in DOMAIN open2 : open2[q].session = s =>
           q \in DOMAIN open /\ open[q].session = s /\ open2[q].exited = open[q].exited
  PROVE  Stored(s, t, open2)
BY DEF Stored

\* A connection keeps its part when its own clients are as they were.
SameClients(d, old, new) ==
  /\ DOMAIN old \subseteq DOMAIN new
  /\ \A s \in DOMAIN new :
       /\ d \in DOMAIN new[s].clients <=> s \in DOMAIN old /\ d \in DOMAIN old[s].clients
       /\ d \in DOMAIN new[s].clients => new[s].clients[d].queue = old[s].clients[d].queue

LEMMA OtherConnection ==
  ASSUME NEW d, NEW conn, NEW old, NEW new, ConnInv(d, conn, old),
         SameClients(d, old, new)
  PROVE  ConnInv(d, conn, new)
BY DEF ConnInv, Registered, SameClients

\* The queues after a step that only concerns session s: those that were there,
\* the ones of other sessions unchanged, and new ones of s.
QueuesFor(s) ==
  \A q \in DOMAIN queues' :
    \/ /\ q \in DOMAIN queues
       /\ queues'[q].session = queues[q].session /\ queues'[q].exited = queues[q].exited
       /\ queues'[q] = queues[q] \/ queues[q].session = s
    \/ q \notin Referenced /\ queues'[q].session = s

\* A step that only concerns one session keeps the invariant if that session,
\* the queues and the connections keep theirs.
LEMMA OneSession ==
  ASSUME IInv, NEW s, NEW t,
         DOMAIN sessions' = DOMAIN sessions \cup {s}, sessions'[s] = t,
         \A x \in DOMAIN sessions \ {s} : sessions'[x] = sessions[x],
         Counted(DOMAIN sessions'),
         SessionInv(s, t, queues'), QueuesFor(s),
         store' \subseteq store \cup {s}, s \in store' => Stored(s, t, queues'),
         DOMAIN queues' \subseteq QueueIds,
         \A q \in DOMAIN queues' : QueueOK(queues'[q], DOMAIN sessions'),
         DOMAIN conns' = Conns,
         \A c \in Conns : ConnInv(c, conns'[c], sessions'),
         saved' = saved, restarts' = restarts
  PROVE  IInv'
<1>1. ASSUME NEW x \in DOMAIN sessions', x # s
      PROVE  SessionInv(x, sessions'[x], queues')
  <2>1. x \in DOMAIN sessions /\ sessions'[x] = sessions[x]
    BY <1>1
  <2>2. SessionInv(x, sessions[x], queues)
    BY <2>1 DEF IInv
  <2>3. \A q \in DOMAIN queues' \cap ClientQueues(sessions[x]) :
          q \in DOMAIN queues /\ queues'[q] = queues[q]
    <3> TAKE q \in DOMAIN queues' \cap ClientQueues(sessions[x])
    <3>1. q \in Referenced
      BY <2>1 DEF Referenced
    <3>2. q \in DOMAIN queues
      BY <3>1 DEF QueuesFor
    <3>3. queues[q].session = x
      BY <2>2, <3>2 DEF SessionInv, Feeds
    <3>4. QED BY <1>1, <3>1, <3>2, <3>3 DEF QueuesFor
  <2>4. SessionInv(x, sessions[x], queues')
    BY <2>2, <2>3, OtherSession
  <2>5. QED BY <2>1, <2>4
<1>2. ASSUME NEW x \in store', x # s
      PROVE  Stored(x, sessions'[x], queues')
  <2>1. x \in store /\ x \in DOMAIN sessions /\ sessions'[x] = sessions[x]
    BY <1>2 DEF IInv
  <2>2. Stored(x, sessions[x], queues)
    BY <2>1 DEF IInv
  <2>3. \A q \in DOMAIN queues' : queues'[q].session = x =>
          /\ q \in DOMAIN queues /\ queues[q].session = x
          /\ queues'[q].exited = queues[q].exited
    BY <1>2 DEF QueuesFor
  <2>4. Stored(x, sessions[x], queues')
    BY <2>2, <2>3, OtherStored
  <2>5. QED BY <2>1, <2>4
<1>3. store' \subseteq DOMAIN sessions'
  BY DEF IInv
<1>4. SavedInv(saved, DOMAIN sessions)'
  BY DEF IInv, SavedInv
<1>5. \A x \in DOMAIN sessions' : SessionInv(x, sessions'[x], queues')
  BY <1>1
<1>6. \A x \in store' : Stored(x, sessions'[x], queues')
  BY <1>2
<1>7. QED BY <1>3, <1>4, <1>5, <1>6 DEF IInv
-----------------------------------------------------------------------------
\* What assign does to a channel map that has a channel for the id.
LEMMA AssignShape ==
  ASSUME NEW m, Sound(m), NEW id \in Ids, HasChannel(Assign(m, id), id)
  PROVE  LET n  == Assign(m, id)
             ch == n.ptyToChannel[id]
         IN  /\ Sound(n)
             /\ DOMAIN n.channelToPty = DOMAIN m.channelToPty \cup {ch}
             /\ n.channelToPty[ch] = id
             /\ \A k \in DOMAIN m.channelToPty :
                  k # ch => n.channelToPty[k] = m.channelToPty[k] /\ m.channelToPty[k] # id
             /\ \A x : HasChannel(n, x) <=> HasChannel(m, x) \/ x = id
<1> DEFINE n == Assign(m, id)
           ch == n.ptyToChannel[id]
<1>1. Sound(n)
  BY AssignSound
<1>2. MutuallyInverse(m) /\ MutuallyInverse(n)
  BY <1>1 DEF Sound
<1>3. CASE HasChannel(m, id)
  <2>1. n = m
    BY <1>3 DEF Assign
  <2> HIDE DEF n
  <2>2. /\ ch \in DOMAIN m.channelToPty /\ m.channelToPty[ch] = id
        /\ \A k \in DOMAIN m.channelToPty : m.channelToPty[k] = id => k = ch
    BY <1>2, <1>3, <2>1 DEF MutuallyInverse, HasChannel
  <2>3. QED BY <1>1, <1>3, <2>1, <2>2 DEF n
<1>4. CASE ~ HasChannel(m, id)
  <2>1. n = Allocate(m, id)
    BY <1>4 DEF Assign
  <2>2. /\ n.channelToPty = Put(m.channelToPty, NextFree(m), id)
        /\ n.ptyToChannel = Put(m.ptyToChannel, id, NextFree(m))
    BY <2>1 DEF Allocate
  <2> HIDE DEF n
  <2>3. ch = NextFree(m)
    BY <2>2 DEF Put
  <2>4. \A k \in DOMAIN m.channelToPty : m.channelToPty[k] # id
    BY <1>2, <1>4 DEF MutuallyInverse, HasChannel
  <2>5. QED BY <1>1, <2>2, <2>3, <2>4 DEF Put, HasChannel, n
<1>5. QED BY <1>3, <1>4

\* And release to one that has it.
LEMMA ReleaseShape ==
  ASSUME NEW m, Sound(m), NEW ch \in DOMAIN m.channelToPty
  PROVE  LET n  == Release(m, ch)
         IN  /\ Sound(n)
             /\ DOMAIN n.channelToPty = DOMAIN m.channelToPty \ {ch}
             /\ \A k \in DOMAIN n.channelToPty :
                  /\ n.channelToPty[k] = m.channelToPty[k]
                  /\ m.channelToPty[k] # m.channelToPty[ch]
             /\ \A x : HasChannel(n, x) <=> HasChannel(m, x) /\ x # m.channelToPty[ch]
<1> DEFINE n == Release(m, ch)
<1>1. ch \in Channels
  BY DEF Sound, ChannelMapType, PartialFcn
<1>2. Sound(n)
  BY <1>1, ReleaseSound
<1>3. /\ n.channelToPty = Drop(m.channelToPty, {ch})
      /\ n.ptyToChannel = Drop(m.ptyToChannel, {m.channelToPty[ch]})
  BY DEF Release
<1> HIDE DEF n
<1>4. \A k \in DOMAIN m.channelToPty : m.channelToPty[k] = m.channelToPty[ch] => k = ch
  BY DEF Sound, MutuallyInverse
<1>5. QED BY <1>2, <1>3, <1>4 DEF Drop, HasChannel, n
-----------------------------------------------------------------------------
\* The first queue that is free is new to every session and connection.
LEMMA FreshQueue ==
  ASSUME FreeQueues # {}
  PROVE  /\ Min(FreeQueues) \in QueueIds /\ Min(FreeQueues) \notin DOMAIN queues
         /\ Min(FreeQueues) \notin Referenced
<1>1. FreeQueues \in SUBSET Nat
  BY DEF FreeQueues, QueueIds
<1>2. Min(FreeQueues) \in FreeQueues
  BY <1>1, LeastElement
<1>3. QED BY <1>2 DEF FreeQueues

\* The next id is not in use, and counts on.
LEMMA NextId ==
  ASSUME IInv
  PROVE  /\ CreatedId \notin DOMAIN sessions
         /\ CreatedId \in SessionIds => Counted(DOMAIN sessions \cup {CreatedId})
<1>1. PICK n \in 0 .. MaxSessions : DOMAIN sessions = 1 .. n
  BY DEF IInv, Counted
<1>2. n \in Nat /\ MaxSessions \in Nat
  BY <1>1, MuxAssumption
<1>3. Cardinality(1 .. n) = n
  <2>1. 1 \in Int /\ n \in Int
    BY <1>2
  <2>2. Cardinality(1 .. n) = IF 1 > n THEN 0 ELSE n - 1 + 1
    BY <2>1, FS_Interval
  <2>3. QED BY <1>2, <2>2
<1>4. CreatedId = n + 1
  BY <1>1, <1>3 DEF CreatedId
<1>5. ASSUME CreatedId \in SessionIds PROVE Counted(DOMAIN sessions \cup {CreatedId})
  <2>1. n + 1 \in 0 .. MaxSessions
    BY <1>2, <1>4, <1>5 DEF SessionIds
  <2>2. 1 .. n + 1 = (1 .. n) \cup {n + 1}
    BY <1>2
  <2>3. QED BY <1>1, <1>4, <2>1, <2>2 DEF Counted
<1>6. QED BY <1>1, <1>2, <1>4, <1>5

\* Where no session ever had a process or a client, the invariant holds.
LEMMA InitIInv == Init => IInv
<1> SUFFICES ASSUME Init PROVE IInv
  OBVIOUS
<1>1. DOMAIN sessions = {} /\ DOMAIN queues = {} /\ DOMAIN saved = {}
  BY DEF Init, EmptyMap
<1>2. Counted(DOMAIN sessions)
  <2>1. 0 \in 0 .. MaxSessions /\ {} = 1 .. 0
    BY MuxAssumption
  <2>2. QED BY <1>1, <2>1 DEF Counted
<1>3. ASSUME NEW c \in Conns PROVE ConnInv(c, conns[c], sessions)
  <2>1. conns[c] = Closed
    BY DEF Init
  <2>2. /\ DOMAIN Closed.channels.channelToPty = {} /\ DOMAIN Closed.entries = {}
        /\ Closed.channels = NewChannelMap
    BY DEF Closed, NewChannelMap, EmptyMap
  <2>3. QED BY <1>1, <2>1, <2>2, NewSound DEF ConnInv, Registered, Closed
<1>4. SavedInv(saved, DOMAIN sessions)
  BY <1>1, MuxAssumption DEF Init, SavedInv
<1>5. QED BY <1>1, <1>2, <1>3, <1>4 DEF Init, IInv

\* A connection without channels.
LEMMA ClosedInv ==
  ASSUME NEW c, NEW all, \A s \in DOMAIN all : c \notin DOMAIN all[s].clients
  PROVE  ConnInv(c, Closed, all)
<1>1. /\ DOMAIN Closed.channels.channelToPty = {} /\ DOMAIN Closed.entries = {}
      /\ Closed.channels = NewChannelMap
  BY DEF Closed, NewChannelMap, EmptyMap
<1>2. QED BY <1>1, NewSound DEF ConnInv, Registered, Closed

\* The phase of a connection.
LEMMA PhaseKeeps ==
  ASSUME NEW c, NEW conn, NEW all, ConnInv(c, conn, all), NEW phase \in {"open", "closing"},
         NEW new, new = [conn EXCEPT !.phase = phase]
  PROVE  ConnInv(c, new, all)
<1>1. /\ DOMAIN new = DOMAIN conn /\ new.phase = phase
      /\ new.channels = conn.channels /\ new.entries = conn.entries
  BY DEF ConnInv
<1>2. QED BY <1>1 DEF ConnInv, Registered

\* A step that only changes the phase of a connection.
LEMMA PhaseStep ==
  ASSUME IInv, NEW c \in Conns, NEW phase \in {"open", "closing"},
         conns' = [conns EXCEPT ![c].phase = phase],
         UNCHANGED <<sessions, store, queues, saved, restarts>>
  PROVE  IInv'
<1>1. ASSUME NEW d \in Conns PROVE ConnInv(d, conns'[d], sessions)
  <2>1. ConnInv(d, conns[d], sessions)
    BY DEF IInv
  <2>2. CASE d # c
    BY <2>1, <2>2 DEF IInv
  <2>3. CASE d = c
    <3>1. conns'[d] = [conns[d] EXCEPT !.phase = phase]
      BY <2>3 DEF IInv
    <3>2. QED BY <2>1, <3>1, PhaseKeeps
  <2>4. QED BY <2>2, <2>3
<1>2. DOMAIN conns' = Conns
  BY DEF IInv
<1>3. QED BY <1>1, <1>2 DEF IInv, SavedInv, Counted

\* A new connection.
LEMMA OpenStep ==
  ASSUME IInv, NEW c \in Conns, Open(c), UNCHANGED <<saved, restarts>>
  PROVE  IInv'
<1>1. conns[c] = Closed
  BY DEF IInv, ConnInv, Open
<1>2. conns' = [conns EXCEPT ![c].phase = "open"]
  BY <1>1 DEF Open
<1>3. QED BY <1>2, PhaseStep DEF Open
-----------------------------------------------------------------------------
\* t is session s, new or with a process, as it is before the attach.
Ready(s, t) ==
  /\ SessionInv(s, t, queues) /\ Stored(s, t, queues) /\ t.alive
  /\ IF s \in DOMAIN sessions THEN t.clients = sessions[s].clients
     ELSE t.clients = EmptyMap

\* A connection that registers an entry for a session of which it is a client.
LEMMA AttachedConnection ==
  ASSUME NEW c, NEW conn, NEW old, NEW all, NEW s \in Ids, NEW q, NEW m, NEW ch, NEW new,
         ConnInv(c, conn, old), conn.phase = "open",
         m = Assign(conn.channels, s), HasChannel(m, s), ch = m.ptyToChannel[s],
         DOMAIN new = DOMAIN conn, new.phase = "open",
         new.channels = m, new.entries = Put(conn.entries, ch, q),
         DOMAIN all = DOMAIN old \cup {s}, \A x \in DOMAIN old \ {s} : all[x] = old[x],
         c \in DOMAIN all[s].clients, all[s].clients[c].queue = q
  PROVE  ConnInv(c, new, all)
<1> DEFINE k == conn.channels
<1>1. /\ Sound(m) /\ DOMAIN m.channelToPty = DOMAIN k.channelToPty \cup {ch}
      /\ m.channelToPty[ch] = s
      /\ \A i \in DOMAIN k.channelToPty :
           i # ch => m.channelToPty[i] = k.channelToPty[i] /\ k.channelToPty[i] # s
      /\ \A x : HasChannel(m, x) <=> HasChannel(k, x) \/ x = s
  BY AssignShape DEF ConnInv
<1>2. /\ DOMAIN new = {"phase", "channels", "entries"} /\ new.phase = "open"
      /\ new.channels = m /\ new.entries = Put(conn.entries, ch, q)
  BY DEF ConnInv
<1>3. DOMAIN conn.entries = DOMAIN k.channelToPty
  BY DEF ConnInv, Registered
<1>4. /\ DOMAIN new.entries = DOMAIN m.channelToPty /\ new.entries[ch] = q
      /\ \A i \in DOMAIN k.channelToPty : i # ch => new.entries[i] = conn.entries[i]
  BY <1>1, <1>2, <1>3 DEF Put
<1>5. ASSUME NEW i \in DOMAIN m.channelToPty
      PROVE  /\ m.channelToPty[i] \in DOMAIN all
             /\ c \in DOMAIN all[m.channelToPty[i]].clients
             /\ all[m.channelToPty[i]].clients[c].queue = new.entries[i]
  <2>1. CASE i = ch
    BY <1>1, <1>4, <2>1
  <2>2. CASE i # ch
    <3>1. /\ i \in DOMAIN k.channelToPty /\ m.channelToPty[i] = k.channelToPty[i]
          /\ k.channelToPty[i] # s /\ new.entries[i] = conn.entries[i]
      BY <1>1, <1>4, <2>2
    <3>2. /\ k.channelToPty[i] \in DOMAIN old
          /\ c \in DOMAIN old[k.channelToPty[i]].clients
          /\ old[k.channelToPty[i]].clients[c].queue = conn.entries[i]
      BY <3>1 DEF ConnInv, Registered
    <3>3. QED BY <3>1, <3>2
  <2>3. QED BY <2>1, <2>2
<1>6. \A x \in DOMAIN all : c \in DOMAIN all[x].clients => HasChannel(m, x)
  BY <1>1 DEF ConnInv, Registered
<1>7. Registered(c, new, all)
  BY <1>2, <1>4, <1>5, <1>6 DEF Registered
<1>8. QED BY <1>1, <1>2, <1>7 DEF ConnInv

\* Attaching to it keeps the invariant, with a channel or without.
LEMMA AttachStep ==
  ASSUME IInv, NEW c \in Conns, NEW s \in SessionIds, NEW t, NEW size \in Sizes,
         conns[c].phase = "open", Ready(s, t), AttachTo(c, s, t, size),
         Counted(DOMAIN sessions \cup {s}),
         store' = store \cup {s}, UNCHANGED <<saved, restarts>>
  PROVE  IInv'
<1> DEFINE m == Assign(conns[c].channels, s)
<1>1. ConnInv(c, conns[c], sessions)
  BY DEF IInv
<1>2. /\ SessionInv(s, t, queues) /\ Stored(s, t, queues) /\ t.alive
      /\ \A d : d \in DOMAIN t.clients <=> s \in DOMAIN sessions /\ d \in DOMAIN sessions[s].clients
      /\ \A d \in DOMAIN t.clients : t.clients[d] = sessions[s].clients[d]
  BY DEF Ready, EmptyMap
<1>3. CASE ~ HasChannel(m, s)
  <2>1. /\ conns' = [conns EXCEPT ![c].phase = "closing"]
        /\ sessions' = Put(sessions, s, t) /\ queues' = queues
    BY <1>3 DEF AttachTo, Bail
  <2>2. /\ DOMAIN sessions' = DOMAIN sessions \cup {s} /\ sessions'[s] = t
        /\ \A x \in DOMAIN sessions \ {s} : sessions'[x] = sessions[x]
    BY <2>1 DEF Put
  <2>3. QueuesFor(s)
    BY <2>1 DEF QueuesFor
  <2>4. \A q \in DOMAIN queues' : QueueOK(queues'[q], DOMAIN sessions')
    BY <2>1, <2>2 DEF IInv, QueueOK
  <2>5. ASSUME NEW d \in Conns PROVE ConnInv(d, conns'[d], sessions')
    <3>1. SameClients(d, sessions, sessions')
      BY <1>2, <2>2 DEF SameClients
    <3>2. ConnInv(d, conns[d], sessions')
      BY <3>1, OtherConnection DEF IInv
    <3>3. CASE d = c
      <4>1. conns'[d] = [conns[d] EXCEPT !.phase = "closing"]
        BY <2>1, <3>3 DEF IInv
      <4>2. QED BY <3>2, <4>1, PhaseKeeps
    <3>4. CASE d # c
      BY <2>1, <3>2, <3>4 DEF IInv
    <3>5. QED BY <3>3, <3>4
  <2>6. DOMAIN conns' = Conns /\ DOMAIN queues' \subseteq QueueIds
    BY <2>1 DEF IInv
  <2>7. QED BY <1>2, <2>1, <2>2, <2>3, <2>4, <2>5, <2>6, OneSession
<1>4. CASE HasChannel(m, s)
  <2> DEFINE q == Min(FreeQueues)
             u == Attach(t, c, q, size)
             r == [session |-> s, exited |-> t.generation, got |-> Replay(t)]
             ch == m.ptyToChannel[s]
  <2>1. q \in QueueIds /\ q \notin DOMAIN queues /\ q \notin Referenced
    BY <1>4, FreshQueue DEF AttachTo
  <2>2. /\ sessions' = Put(sessions, s, u) /\ queues' = Put(queues, q, r)
        /\ conns' = [conns EXCEPT ![c].channels = m, ![c].entries = Put(@, ch, q)]
    BY <1>4 DEF AttachTo
  <2> HIDE DEF q
  <2>3. /\ Proper(u) /\ SameOutput(t, u) /\ u.generation = t.generation
        /\ u.clients = Put(t.clients, c, [queue |-> q, size |-> size])
        /\ u.alive => u.size = LeastSize(u.clients)
    BY <1>2, <2>1, AttachPuts DEF SessionInv
  <2> HIDE DEF u
  <2>4. /\ DOMAIN sessions' = DOMAIN sessions \cup {s} /\ sessions'[s] = u
        /\ \A x \in DOMAIN sessions \ {s} : sessions'[x] = sessions[x]
        /\ DOMAIN queues' = DOMAIN queues \cup {q} /\ queues'[q] = r
        /\ \A p \in DOMAIN queues : queues'[p] = queues[p]
    BY <2>1, <2>2 DEF Put
  <2>5. ClientQueues(u) \subseteq ClientQueues(t) \cup {q}
    BY <2>3 DEF ClientQueues, Put
  <2>6. Stream(r.got, t.pushed)
    <3>1. Stream(Replay(t), t.pushed)
      BY <1>2, ReplayStream DEF SessionInv, Proper
    <3>2. QED BY <3>1
  <2>7. SessionInv(s, u, queues')
    <3>1. t.alive /\ t.running /\ u.running /\ u.alive
      BY <1>2, <2>3 DEF SessionInv, Proper, SameOutput
    <3>2. ASSUME NEW p \in ClientQueues(u) \cap DOMAIN queues'
          PROVE  /\ queues'[p].session = s
                 /\ u.distributing => Stream(queues'[p].got, u.pushed)
      <4>1. CASE p = q
        BY <2>3, <2>4, <2>6, <4>1 DEF SameOutput
      <4>2. CASE p # q
        <5>1. p \in ClientQueues(t) \cap DOMAIN queues /\ queues'[p] = queues[p]
          BY <2>4, <2>5, <3>2, <4>2
        <5>2. QED BY <1>2, <2>3, <5>1 DEF SessionInv, Feeds, SameOutput
      <4>3. QED BY <4>1, <4>2
    <3>3. QED BY <2>3, <3>1, <3>2 DEF SessionInv, Feeds, Fits
  <2>8. QueuesFor(s)
    BY <2>1, <2>4 DEF QueuesFor
  <2>9. Stored(s, u, queues')
    <3>1. u.alive /\ u.running /\ t.alive /\ u.generation = t.generation
      BY <1>2, <2>3 DEF SessionInv, Proper, SameOutput
    <3>2. r.exited = t.generation
      OBVIOUS
    <3> HIDE DEF r
    <3>3. QED BY <1>2, <2>4, <3>1, <3>2 DEF Stored
  <2>10. DOMAIN queues' \subseteq QueueIds
    BY <2>1, <2>4 DEF IInv
  <2>11. \A p \in DOMAIN queues' : QueueOK(queues'[p], DOMAIN sessions')
    <3>1. QueueOK(r, DOMAIN sessions')
      BY <2>4, <2>6 DEF QueueOK, Stream, Unbroken
    <3>2. QED BY <2>4, <3>1 DEF IInv, QueueOK
  <2> HIDE DEF r, m, ch
  <2>12. ASSUME NEW d \in Conns, d # c PROVE ConnInv(d, conns'[d], sessions')
    <3>1. SameClients(d, sessions, sessions')
      BY <1>2, <2>3, <2>4, <2>12 DEF SameClients, Put
    <3>2. conns'[d] = conns[d]
      BY <2>2, <2>12 DEF IInv
    <3>3. QED BY <3>1, <3>2, OtherConnection DEF IInv
  <2>13. ConnInv(c, conns'[c], sessions')
    <3>1. conns'[c] = [conns[c] EXCEPT !.channels = m, !.entries = Put(@, ch, q)]
      BY <2>2 DEF IInv
    <3>2. /\ DOMAIN conns'[c] = DOMAIN conns[c] /\ conns'[c].phase = "open"
          /\ conns'[c].channels = m /\ conns'[c].entries = Put(conns[c].entries, ch, q)
      BY <1>1, <3>1 DEF ConnInv
    <3>3. c \in DOMAIN sessions'[s].clients /\ sessions'[s].clients[c].queue = q
      BY <2>3, <2>4 DEF Put
    <3>4. s \in Ids
      BY MuxAssumption
    <3>5. m = Assign(conns[c].channels, s) /\ ch = m.ptyToChannel[s] /\ HasChannel(m, s)
      BY <1>4 DEF m, ch
    <3>6. QED BY <1>1, <2>4, <3>2, <3>3, <3>4, <3>5, AttachedConnection
  <2>14. DOMAIN conns' = Conns
    BY <2>2 DEF IInv
  <2>15. \A d \in Conns : ConnInv(d, conns'[d], sessions')
    BY <2>12, <2>13
  <2>16. QED BY <2>4, <2>7, <2>8, <2>9, <2>10, <2>11, <2>14, <2>15, OneSession
<1>5. QED BY <1>3, <1>4

LEMMA CreateStep ==
  ASSUME IInv, NEW c \in Conns, NEW size \in Sizes, SessionCreate(c, size),
         UNCHANGED <<saved, restarts>>
  PROVE  IInv'
<1> DEFINE s == CreatedId
           t == SpawnGeneration(NewSession, size)
<1>1. s \in SessionIds /\ s \notin DOMAIN sessions /\ Counted(DOMAIN sessions \cup {s})
  BY NextId DEF SessionCreate
<1>2. CASE StoreCreate /\ AttachTo(c, s, t, size)
  <2>1. /\ Proper(t) /\ t.clients = EmptyMap /\ t.alive = TRUE /\ t.running = TRUE
    BY NewProper, SpawnLeaves
  <2> HIDE DEF s, t
  <2>2. ClientQueues(t) = {}
    BY <2>1 DEF ClientQueues, EmptyMap
  <2>3. SessionInv(s, t, queues)
    BY <2>1, <2>2 DEF SessionInv, Feeds, Fits
  <2>4. Stored(s, t, queues)
    BY <1>1, <2>1 DEF Stored, IInv, QueueOK
  <2>5. Ready(s, t)
    BY <1>1, <2>1, <2>3, <2>4 DEF Ready
  <2>6. store' = store \cup {s}
    BY <1>2 DEF StoreCreate, s
  <2>7. QED BY <1>1, <1>2, <2>5, <2>6, AttachStep DEF SessionCreate
<1>3. CASE Bail(c) /\ UNCHANGED <<sessions, store, queues>>
  <2>1. conns' = [conns EXCEPT ![c].phase = "closing"]
    BY <1>3 DEF Bail
  <2>2. QED BY <1>3, <2>1, PhaseStep
<1>4. QED BY <1>2, <1>3 DEF SessionCreate

\* A stored session without a process has no open queues.
LEMMA ExitedQuiet ==
  ASSUME IInv, NEW s \in store, Exited(sessions[s])
  PROVE  /\ ClientQueues(sessions[s]) \cap DOMAIN queues = {}
         /\ \A q \in DOMAIN queues : queues[q].session # s
         /\ ~ sessions[s].alive
BY DEF IInv, SessionInv, Proper, Feeds, Stored, Exited

\* An attach may start a new process, or fail to after the banner.
LEMMA SessionAttachStep ==
  ASSUME IInv, NEW c \in Conns, NEW s \in SessionIds, NEW size \in Sizes,
         SessionAttach(c, s, size), UNCHANGED <<saved, restarts>>
  PROVE  IInv'
<1>1. /\ conns[c].phase = "open" /\ s \in store /\ s \in DOMAIN sessions /\ store' = store
      /\ SessionInv(s, sessions[s], queues) /\ Stored(s, sessions[s], queues)
  BY DEF SessionAttach, IInv
<1>2. Counted(DOMAIN sessions \cup {s}) /\ store' = store \cup {s}
  <2>1. DOMAIN sessions \cup {s} = DOMAIN sessions /\ store \cup {s} = store
    BY <1>1
  <2>2. QED BY <1>1, <2>1 DEF IInv
<1>3. CASE ~ Exited(sessions[s])
  <2>1. Ready(s, sessions[s])
    BY <1>1, <1>3 DEF Ready, Stored, Exited
  <2>2. AttachTo(c, s, sessions[s], size)
    BY <1>3 DEF SessionAttach
  <2>3. QED BY <1>1, <1>2, <2>1, <2>2, AttachStep
<1>4. CASE Exited(sessions[s])
  <2>1. PICK t \in Bannered(sessions[s]) :
          \/ AttachTo(c, s, SpawnGeneration(t, size), size)
          \/ Bail(c) /\ sessions' = Put(sessions, s, t) /\ UNCHANGED queues
    BY <1>4 DEF SessionAttach
  <2>2. /\ ClientQueues(sessions[s]) \cap DOMAIN queues = {}
        /\ \A q \in DOMAIN queues : queues[q].session # s
        /\ sessions[s].alive = FALSE /\ sessions[s].running = FALSE
    BY <1>1, <1>4, ExitedQuiet DEF Exited, SessionInv, Proper
  <2>3. Proper(t) /\ t.clients = sessions[s].clients /\ t.alive = FALSE /\ t.running = FALSE
    <3>1. BannerBytes \in Nat
      BY MuxAssumption
    <3>2. QED BY <1>1, <2>2, <3>1, PushedLeaves DEF Bannered, SessionInv
  <2>4. CASE AttachTo(c, s, SpawnGeneration(t, size), size)
    <3> DEFINE u == SpawnGeneration(t, size)
    <3>1. Proper(u) /\ u.clients = t.clients /\ u.alive = TRUE /\ u.running = TRUE
      BY <2>3, SpawnLeaves
    <3> HIDE DEF u
    <3>2. ClientQueues(u) = ClientQueues(sessions[s])
      BY <2>3, <3>1 DEF ClientQueues
    <3>3. SessionInv(s, u, queues) /\ Stored(s, u, queues)
      BY <2>2, <3>1, <3>2 DEF SessionInv, Feeds, Fits, Stored
    <3>4. Ready(s, u)
      BY <1>1, <2>3, <3>1, <3>3 DEF Ready
    <3>5. QED BY <1>1, <1>2, <2>4, <3>4, AttachStep DEF u
  <2>5. CASE Bail(c) /\ sessions' = Put(sessions, s, t) /\ UNCHANGED queues
    <3>1. /\ DOMAIN sessions' = DOMAIN sessions \cup {s} /\ sessions'[s] = t
          /\ \A x \in DOMAIN sessions \ {s} : sessions'[x] = sessions[x]
      BY <2>5 DEF Put
    <3>2. ClientQueues(t) = ClientQueues(sessions[s])
      BY <2>3 DEF ClientQueues
    <3>3. SessionInv(s, t, queues') /\ Stored(s, t, queues') /\ QueuesFor(s)
      BY <2>2, <2>3, <2>5, <3>2 DEF SessionInv, Feeds, Fits, Stored, QueuesFor
    <3>4. /\ \A q \in DOMAIN queues' : QueueOK(queues'[q], DOMAIN sessions')
          /\ DOMAIN queues' \subseteq QueueIds
      BY <2>5, <3>1 DEF IInv, QueueOK
    <3>5. conns' = [conns EXCEPT ![c].phase = "closing"]
      BY <2>5 DEF Bail
    <3>6. ASSUME NEW d \in Conns PROVE ConnInv(d, conns'[d], sessions')
      <4>1. SameClients(d, sessions, sessions')
        BY <1>1, <2>3, <3>1 DEF SameClients
      <4>2. ConnInv(d, conns[d], sessions')
        BY <4>1, OtherConnection DEF IInv
      <4>3. CASE d = c
        <5>1. conns'[d] = [conns[d] EXCEPT !.phase = "closing"]
          BY <3>5, <4>3 DEF IInv
        <5>2. QED BY <4>2, <5>1, PhaseKeeps
      <4>4. CASE d # c
        BY <3>5, <4>2, <4>4 DEF IInv
      <4>5. QED BY <4>3, <4>4
    <3>7. DOMAIN conns' = Conns
      BY <3>5 DEF IInv
    <3>8. Counted(DOMAIN sessions')
      BY <1>2, <3>1
    <3>9. QED BY <1>1, <3>1, <3>3, <3>4, <3>6, <3>7, <3>8, OneSession
  <2>6. QED BY <2>1, <2>4, <2>5
<1>5. QED BY <1>3, <1>4
-----------------------------------------------------------------------------
\* u is session t after one of its clients may have left, its size may have
\* changed, and its process may have been killed.
Lessened(t, u) ==
  /\ Proper(u) /\ u.pushed = t.pushed /\ u.running = t.running
  /\ u.distributing => t.distributing
  /\ \A d \in DOMAIN u.clients : d \in DOMAIN t.clients /\ u.clients[d].queue = t.clients[d].queue
  /\ u.alive /\ DOMAIN u.clients # {} => u.size = LeastSize(u.clients)

\* It keeps its part of the invariant when queues are closed.
LEMMA LessenedInv ==
  ASSUME NEW s, NEW t, NEW u, NEW open, NEW open2, SessionInv(s, t, open), Lessened(t, u),
         \A q \in DOMAIN open2 : q \in DOMAIN open /\ open2[q] = open[q]
  PROVE  SessionInv(s, u, open2)
<1>1. \A q \in ClientQueues(u) : q \in ClientQueues(t) /\ DOMAIN u.clients # {}
  BY DEF ClientQueues, Lessened
<1>2. QED BY <1>1 DEF SessionInv, Lessened, Feeds, Fits

\* A channel of a connection leads to the session that has it.
LEMMA ChannelOf ==
  ASSUME IInv, NEW c \in Conns, NEW s, HasChannel(conns[c].channels, s)
  PROVE  LET ch == conns[c].channels.ptyToChannel[s]
         IN  /\ ch \in DOMAIN conns[c].channels.channelToPty
             /\ conns[c].channels.channelToPty[ch] = s
             /\ s \in DOMAIN sessions
BY DEF IInv, ConnInv, Registered, Sound, MutuallyInverse, HasChannel

\* A connection whose entry of a session is torn down, while the session drops
\* it from its clients.
LEMMA DetachedConnection ==
  ASSUME NEW c, NEW conn, NEW old, NEW all, NEW s, NEW ch, NEW m, NEW new,
         ConnInv(c, conn, old), conn.phase = "open", m = Release(conn.channels, ch),
         ch \in DOMAIN conn.channels.channelToPty, conn.channels.channelToPty[ch] = s,
         DOMAIN new = DOMAIN conn, new.phase = "open",
         new.entries = Drop(conn.entries, {ch}), new.channels = m,
         DOMAIN all = DOMAIN old, \A x \in DOMAIN old \ {s} : all[x] = old[x],
         c \notin DOMAIN all[s].clients
  PROVE  ConnInv(c, new, all)
<1> DEFINE k == conn.channels
<1>1. /\ Sound(m) /\ DOMAIN m.channelToPty = DOMAIN k.channelToPty \ {ch}
      /\ \A i \in DOMAIN m.channelToPty : m.channelToPty[i] = k.channelToPty[i]
                                            /\ k.channelToPty[i] # s
      /\ \A x : HasChannel(m, x) <=> HasChannel(k, x) /\ x # s
  BY ReleaseShape DEF ConnInv
<1>2. /\ DOMAIN new = {"phase", "channels", "entries"} /\ new.phase = "open"
      /\ new.channels = m /\ new.entries = Drop(conn.entries, {ch})
  BY DEF ConnInv
<1>3. /\ DOMAIN new.entries = DOMAIN m.channelToPty
      /\ \A i \in DOMAIN m.channelToPty : new.entries[i] = conn.entries[i]
  <2>1. DOMAIN conn.entries = DOMAIN k.channelToPty
    BY DEF ConnInv, Registered
  <2>2. /\ DOMAIN new.entries = DOMAIN conn.entries \ {ch}
        /\ \A i \in DOMAIN new.entries : new.entries[i] = conn.entries[i]
    BY <1>2 DEF Drop
  <2>3. QED BY <1>1, <2>1, <2>2
<1>4. ASSUME NEW i \in DOMAIN m.channelToPty
      PROVE  /\ m.channelToPty[i] \in DOMAIN all
             /\ c \in DOMAIN all[m.channelToPty[i]].clients
             /\ all[m.channelToPty[i]].clients[c].queue = new.entries[i]
  <2>1. /\ i \in DOMAIN k.channelToPty /\ m.channelToPty[i] = k.channelToPty[i]
        /\ k.channelToPty[i] # s /\ new.entries[i] = conn.entries[i]
    BY <1>1, <1>3
  <2>2. /\ k.channelToPty[i] \in DOMAIN old
        /\ c \in DOMAIN old[k.channelToPty[i]].clients
        /\ old[k.channelToPty[i]].clients[c].queue = conn.entries[i]
    BY <2>1 DEF ConnInv, Registered
  <2>3. QED BY <2>1, <2>2
<1>5. \A x \in DOMAIN all : c \in DOMAIN all[x].clients => HasChannel(m, x)
  BY <1>1 DEF ConnInv, Registered
<1>6. Registered(c, new, all)
  BY <1>2, <1>3, <1>4, <1>5 DEF Registered
<1>7. QED BY <1>1, <1>2, <1>6 DEF ConnInv

\* The session becomes u, the entry of the channel goes with its queue, and the
\* channel is given back.
Torn(c, s, ch, u) ==
  /\ sessions' = [sessions EXCEPT ![s] = u]
  /\ queues' = Drop(queues, {conns[c].entries[ch]})
  /\ conns' = [conns EXCEPT ![c].entries = Drop(@, {ch}), ![c].channels = Release(@, ch)]

\* Tearing down the entry of a session keeps the invariant.
LEMMA TeardownStep ==
  ASSUME IInv, NEW c \in Conns, NEW s, NEW u, NEW ch,
         conns[c].phase = "open", HasChannel(conns[c].channels, s),
         ch = conns[c].channels.ptyToChannel[s],
         Lessened(sessions[s], u), u.clients = Drop(sessions[s].clients, {c}),
         Torn(c, s, ch, u), store' \subseteq store,
         s \in store' => u.alive = sessions[s].alive /\ u.generation = sessions[s].generation,
         UNCHANGED <<saved, restarts>>
  PROVE  IInv'
<1> DEFINE k == conns[c].channels
<1>1. ch \in DOMAIN k.channelToPty /\ k.channelToPty[ch] = s /\ s \in DOMAIN sessions
  BY ChannelOf
<1>2. ConnInv(c, conns[c], sessions)
  BY DEF IInv
<1>3. /\ DOMAIN sessions' = DOMAIN sessions \cup {s} /\ sessions'[s] = u
      /\ \A x \in DOMAIN sessions \ {s} : sessions'[x] = sessions[x]
      /\ DOMAIN sessions' = DOMAIN sessions
  BY <1>1 DEF Torn
<1>4. \A q \in DOMAIN queues' : q \in DOMAIN queues /\ queues'[q] = queues[q]
  BY DEF Drop, Torn
<1>5. SessionInv(s, u, queues') /\ QueuesFor(s)
  <2>1. SessionInv(s, sessions[s], queues)
    BY <1>1 DEF IInv
  <2>2. QED BY <1>4, <2>1, LessenedInv DEF QueuesFor
<1>6. s \in store' => Stored(s, u, queues')
  <2>1. s \in store' => Stored(s, sessions[s], queues)
    BY DEF IInv
  <2>2. QED BY <1>4, <2>1 DEF Stored, Lessened
<1>7. /\ \A q \in DOMAIN queues' : QueueOK(queues'[q], DOMAIN sessions')
      /\ DOMAIN queues' \subseteq QueueIds
  BY <1>3, <1>4 DEF IInv
<1>8. ASSUME NEW d \in Conns, d # c PROVE ConnInv(d, conns'[d], sessions')
  <2>1. SameClients(d, sessions, sessions')
    BY <1>1, <1>3, <1>8 DEF SameClients, Drop
  <2>2. conns'[d] = conns[d]
    BY <1>8 DEF IInv, Torn
  <2>3. QED BY <2>1, <2>2, OtherConnection DEF IInv
<1>9. ConnInv(c, conns'[c], sessions')
  <2> DEFINE m == Release(k, ch)
  <2> HIDE DEF m
  <2>1. conns'[c] = [conns[c] EXCEPT !.entries = Drop(@, {ch}), !.channels = m]
    BY DEF IInv, Torn, m
  <2>2. /\ DOMAIN conns'[c] = DOMAIN conns[c] /\ conns'[c].phase = "open"
        /\ conns'[c].entries = Drop(conns[c].entries, {ch}) /\ conns'[c].channels = m
    BY <1>2, <2>1 DEF ConnInv
  <2>3. c \notin DOMAIN sessions'[s].clients
    BY <1>3 DEF Drop
  <2>4. m = Release(conns[c].channels, ch) /\ conns[c].phase = "open"
    BY DEF m
  <2>5. /\ ch \in DOMAIN conns[c].channels.channelToPty
        /\ conns[c].channels.channelToPty[ch] = s
    BY <1>1
  <2>6. /\ DOMAIN sessions' = DOMAIN sessions
        /\ \A x \in DOMAIN sessions \ {s} : sessions'[x] = sessions[x]
    BY <1>3
  <2> HIDE DEF k
  <2>7. QED BY <1>2, <2>2, <2>3, <2>4, <2>5, <2>6, DetachedConnection
<1>10. DOMAIN conns' = Conns /\ Counted(DOMAIN sessions')
  BY <1>3 DEF IInv, Torn
<1>11. \A d \in Conns : ConnInv(d, conns'[d], sessions')
  BY <1>8, <1>9
<1>12. QED BY <1>3, <1>5, <1>6, <1>7, <1>10, <1>11, OneSession

\* What close, clientResize and the closing of the scope leave of a session.
LEMMA CloseLessens ==
  ASSUME NEW t, Proper(t), NEW c
  PROVE  LET u == Close(t, c)
         IN  /\ Lessened(t, u) /\ u.clients = Drop(t.clients, {c})
             /\ u.alive = t.alive /\ u.generation = t.generation
BY CloseLeaves DEF Lessened, SameOutput, Drop

LEMMA ScopeLessens ==
  ASSUME NEW t, NEW u, Proper(t), Lessened(t, u) \/ u = t
  PROVE  Lessened(t, ScopeClosed(u)) /\ ScopeClosed(u).clients = u.clients
<1> DEFINE v == ScopeClosed(u)
<1>1. Proper(u)
  BY DEF Lessened
<1>2. /\ DOMAIN v = DOMAIN u /\ v.buffer = u.buffer /\ v.pushed = u.pushed
      /\ v.clients = u.clients /\ v.alive = FALSE /\ v.running = u.running
      /\ v.distributing = FALSE /\ v.generation = u.generation
  BY <1>1 DEF ScopeClosed, Proper
<1> HIDE DEF v
<1>3. Proper(v)
  BY <1>1, <1>2 DEF Proper
<1>4. QED BY <1>2, <1>3 DEF Lessened, v

\* session_detach
LEMMA DetachStep ==
  ASSUME IInv, NEW c \in Conns, NEW s \in SessionIds, SessionDetach(c, s),
         UNCHANGED <<saved, restarts>>
  PROVE  IInv'
<1> DEFINE ch == conns[c].channels.ptyToChannel[s]
           u == Close(sessions[s], c)
<1>1. HasChannel(conns[c].channels, s) /\ conns[c].phase = "open" /\ Teardown(c, ch)
  BY DEF SessionDetach
<1>2. conns[c].channels.channelToPty[ch] = s /\ s \in DOMAIN sessions
  BY <1>1, ChannelOf
<1>3. Proper(sessions[s])
  BY <1>2 DEF IInv, SessionInv
<1>4. /\ Lessened(sessions[s], u) /\ u.clients = Drop(sessions[s].clients, {c})
      /\ u.alive = sessions[s].alive /\ u.generation = sessions[s].generation
  BY <1>3, CloseLessens
<1>5. Torn(c, s, ch, u)
  BY <1>1, <1>2 DEF Teardown, Torn
<1>6. store' = store
  BY DEF SessionDetach
<1> HIDE DEF u, ch
<1>7. QED BY <1>1, <1>4, <1>5, <1>6, TeardownStep DEF ch

\* A step that concerns one session and leaves it its clients.
LEMMA ClientsStay ==
  ASSUME IInv, NEW s \in DOMAIN sessions, NEW u,
         sessions' = [sessions EXCEPT ![s] = u], SessionInv(s, u, queues'),
         DOMAIN u.clients = DOMAIN sessions[s].clients,
         \A d \in DOMAIN u.clients : u.clients[d].queue = sessions[s].clients[d].queue,
         QueuesFor(s), DOMAIN queues' \subseteq DOMAIN queues,
         \A q \in DOMAIN queues' : QueueOK(queues'[q], DOMAIN sessions),
         store' \subseteq store, s \in store' => Stored(s, u, queues'),
         UNCHANGED <<conns, saved, restarts>>
  PROVE  IInv'
<1>1. /\ DOMAIN sessions' = DOMAIN sessions \cup {s} /\ sessions'[s] = u
      /\ \A x \in DOMAIN sessions \ {s} : sessions'[x] = sessions[x]
      /\ DOMAIN sessions' = DOMAIN sessions
  OBVIOUS
<1>2. ASSUME NEW d \in Conns PROVE ConnInv(d, conns'[d], sessions')
  <2>1. SameClients(d, sessions, sessions')
    BY <1>1 DEF SameClients
  <2>2. QED BY <2>1, OtherConnection DEF IInv
<1>3. DOMAIN conns' = Conns /\ Counted(DOMAIN sessions') /\ DOMAIN queues' \subseteq QueueIds
  BY <1>1 DEF IInv
<1>4. QED BY <1>1, <1>2, <1>3, OneSession

\* session_resize
LEMMA ResizeStep ==
  ASSUME IInv, NEW c \in Conns, NEW s \in SessionIds, NEW size \in Sizes,
         SessionResize(c, s, size), UNCHANGED <<saved, restarts>>
  PROVE  IInv'
<1> DEFINE u == ClientResize(sessions[s], c, size)
<1>1. s \in DOMAIN sessions
  BY ChannelOf DEF SessionResize
<1>2. SessionInv(s, sessions[s], queues) /\ Proper(sessions[s])
  BY <1>1 DEF IInv, SessionInv
<1>3. /\ Proper(u) /\ SameOutput(sessions[s], u) /\ u.generation = sessions[s].generation
      /\ DOMAIN u.clients = DOMAIN sessions[s].clients
      /\ \A d \in DOMAIN sessions[s].clients : u.clients[d].queue = sessions[s].clients[d].queue
      /\ u.alive /\ DOMAIN u.clients # {} => u.size = LeastSize(u.clients)
  BY <1>2, ClientResizeLeaves
<1>4. /\ sessions' = [sessions EXCEPT ![s] = u] /\ queues' = queues /\ conns' = conns
      /\ store' = store
  BY DEF SessionResize
<1> HIDE DEF u
<1>5. Lessened(sessions[s], u)
  BY <1>3 DEF Lessened, SameOutput
<1>6. SessionInv(s, u, queues')
  BY <1>2, <1>4, <1>5, LessenedInv
<1>7. s \in store' => Stored(s, u, queues')
  BY <1>3, <1>4 DEF IInv, Stored, SameOutput
<1>8. QueuesFor(s) /\ \A q \in DOMAIN queues' : QueueOK(queues'[q], DOMAIN sessions)
  BY <1>4 DEF IInv, QueuesFor
<1>9. QED BY <1>1, <1>3, <1>4, <1>6, <1>7, <1>8, ClientsStay

\* session_destroy
LEMMA DestroyStep ==
  ASSUME IInv, NEW c \in Conns, NEW s \in SessionIds, SessionDestroy(c, s),
         UNCHANGED <<saved, restarts>>
  PROVE  IInv'
<1>1. /\ s \in DOMAIN sessions /\ store' \subseteq store /\ s \notin store'
      /\ SessionInv(s, sessions[s], queues) /\ Proper(sessions[s])
  BY DEF SessionDestroy, IInv, SessionInv
<1>2. CASE HasChannel(conns[c].channels, s)
  <2> DEFINE ch == conns[c].channels.ptyToChannel[s]
             v == Close(sessions[s], c)
             u == ScopeClosed(v)
  <2>1. Lessened(sessions[s], v) /\ v.clients = Drop(sessions[s].clients, {c})
    BY <1>1, CloseLessens
  <2> HIDE DEF v
  <2>2. Lessened(sessions[s], u) /\ u.clients = Drop(sessions[s].clients, {c})
    BY <1>1, <2>1, ScopeLessens
  <2>3. Torn(c, s, ch, u)
    BY <1>2 DEF SessionDestroy, Torn, v
  <2> HIDE DEF u, ch
  <2>4. QED BY <1>1, <1>2, <2>2, <2>3, TeardownStep DEF SessionDestroy, ch
<1>3. CASE ~ HasChannel(conns[c].channels, s)
  <2> DEFINE u == ScopeClosed(sessions[s])
  <2>1. Lessened(sessions[s], u) /\ u.clients = sessions[s].clients
    BY <1>1, ScopeLessens
  <2>2. sessions' = [sessions EXCEPT ![s] = u] /\ queues' = queues /\ conns' = conns
    BY <1>3 DEF SessionDestroy
  <2> HIDE DEF u
  <2>3. SessionInv(s, u, queues')
    BY <1>1, <2>1, <2>2, LessenedInv
  <2>4. QueuesFor(s) /\ \A q \in DOMAIN queues' : QueueOK(queues'[q], DOMAIN sessions)
    BY <2>2 DEF IInv, QueuesFor
  <2>5. QED BY <1>1, <2>1, <2>2, <2>3, <2>4, ClientsStay
<1>4. QED BY <1>2, <1>3

\* The process of a session exits.
LEMMA ExitStep ==
  ASSUME IInv, NEW s, Exit(s), UNCHANGED <<saved, restarts>>
  PROVE  IInv'
<1> DEFINE t == sessions[s]
           u == ProcessExited(t)
           told == {q \in DOMAIN queues : queues[q].session = s /\ queues[q].exited = t.generation}
<1>1. s \in DOMAIN sessions /\ Proper(t)
  BY DEF Exit, IInv, SessionInv
<1>2. /\ sessions' = [sessions EXCEPT ![s] = u]
      /\ queues' = Drop(queues, ClientQueues(t) \cup told)
      /\ store' = store /\ conns' = conns
  BY DEF Exit
<1>3. /\ DOMAIN u = DOMAIN t /\ u.buffer = t.buffer /\ u.pushed = t.pushed
      /\ u.clients = t.clients /\ u.alive = FALSE /\ u.running = FALSE
      /\ u.distributing = FALSE /\ u.generation = t.generation
  BY <1>1 DEF ProcessExited, Proper
<1> HIDE DEF u
<1>4. Proper(u)
  BY <1>1, <1>3 DEF Proper
<1>5. \A q \in DOMAIN queues' :
        /\ q \in DOMAIN queues /\ queues'[q] = queues[q]
        /\ q \notin ClientQueues(t) /\ q \notin told
  BY <1>2 DEF Drop
<1>6. SessionInv(s, u, queues')
  <2>1. ClientQueues(u) = ClientQueues(t)
    BY <1>3 DEF ClientQueues
  <2>2. QED BY <1>3, <1>4, <1>5, <2>1 DEF SessionInv, Feeds, Fits
<1>7. s \in store' => Stored(s, u, queues')
  <2>1. s \in store => \A q \in DOMAIN queues : queues[q].session = s => q \in told
    BY DEF IInv, Stored
  <2>2. QED BY <1>2, <1>3, <1>5, <2>1 DEF Stored
<1>8. QueuesFor(s) /\ \A q \in DOMAIN queues' : QueueOK(queues'[q], DOMAIN sessions)
  BY <1>5 DEF IInv, QueuesFor
<1>9. DOMAIN queues' \subseteq DOMAIN queues
  BY <1>5
<1>10. QED BY <1>1, <1>2, <1>3, <1>6, <1>7, <1>8, <1>9, ClientsStay

\* One turn of the distribution fiber pushes a string, and stops when it met a
\* queue that is shut.
LEMMA DistributedLeaves ==
  ASSUME NEW t, Proper(t), NEW bytes \in Nat, NEW open, NEW result \in Distributed(t, bytes, open)
  PROVE  LET u == result[1]
         IN  /\ Proper(u) /\ u.pushed = t.pushed + 1 /\ u.clients = t.clients
             /\ u.alive = t.alive /\ u.running = t.running /\ u.size = t.size
             /\ u.generation = t.generation /\ result[2] \subseteq ClientQueues(t) \cap open
             /\ \/ u.distributing = t.distributing /\ result[2] = ClientQueues(t)
                \/ u.distributing = FALSE
<1>1. CASE ClientQueues(t) \subseteq open
  <2>1. PICK v \in Pushed(t, bytes) : result = <<v, ClientQueues(t)>>
    BY <1>1 DEF Distributed
  <2>2. QED BY <1>1, <2>1, PushedLeaves
<1>2. CASE ~ (ClientQueues(t) \subseteq open)
  <2>1. PICK v \in Pushed(t, bytes), reached \in SUBSET (ClientQueues(t) \cap open) :
          result = <<[v EXCEPT !.distributing = FALSE], reached>>
    BY <1>2 DEF Distributed
  <2> DEFINE u == [v EXCEPT !.distributing = FALSE]
  <2>2. /\ Proper(v) /\ v.pushed = t.pushed + 1 /\ v.clients = t.clients
        /\ v.alive = t.alive /\ v.running = t.running /\ v.size = t.size
        /\ v.generation = t.generation
    BY <2>1, PushedLeaves
  <2>3. /\ DOMAIN u = DOMAIN v /\ u.buffer = v.buffer /\ u.pushed = v.pushed
        /\ u.clients = v.clients /\ u.alive = v.alive /\ u.running = v.running
        /\ u.size = v.size /\ u.generation = v.generation /\ u.distributing = FALSE
    BY <2>2 DEF Proper
  <2>4. result[1] = u /\ result[2] = reached
    BY <2>1
  <2> HIDE DEF u
  <2>5. Proper(u)
    BY <2>2, <2>3 DEF Proper
  <2>6. QED BY <2>1, <2>2, <2>3, <2>4, <2>5
<1>3. QED BY <1>1, <1>2

\* The process of a session outputs a string.
LEMMA OutputStep ==
  ASSUME IInv, NEW s, NEW bytes \in ChunkBytes, Output(s, bytes), UNCHANGED <<saved, restarts>>
  PROVE  IInv'
<1> DEFINE t == sessions[s]
<1>1. s \in DOMAIN sessions /\ SessionInv(s, t, queues) /\ Proper(t) /\ t.distributing
  BY DEF Output, IInv, SessionInv
<1>2. PICK result \in Distributed(t, bytes, DOMAIN queues) :
        /\ sessions' = [sessions EXCEPT ![s] = result[1]]
        /\ queues' = [q \in DOMAIN queues |->
                        IF q \in result[2]
                        THEN [queues[q] EXCEPT !.got = Append(@, result[1].pushed)]
                        ELSE queues[q]]
  BY DEF Output
<1>3. store' = store /\ conns' = conns
  BY DEF Output
<1> DEFINE u == result[1]
<1>4. /\ Proper(u) /\ u.pushed = t.pushed + 1 /\ u.clients = t.clients
      /\ u.alive = t.alive /\ u.running = t.running /\ u.size = t.size
      /\ u.generation = t.generation /\ result[2] \subseteq ClientQueues(t) \cap DOMAIN queues
      /\ \/ u.distributing = t.distributing /\ result[2] = ClientQueues(t)
         \/ u.distributing = FALSE
  <2>1. bytes \in Nat
    BY MuxAssumption
  <2>2. QED BY <1>1, <1>2, <2>1, DistributedLeaves
<1> HIDE DEF u
<1>5. ASSUME NEW q \in result[2]
      PROVE  /\ queues'[q].session = s /\ queues[q].session = s
             /\ queues'[q].exited = queues[q].exited
             /\ Stream(queues'[q].got, u.pushed) /\ QueueOK(queues'[q], DOMAIN sessions)
  <2>1. /\ q \in ClientQueues(t) /\ q \in DOMAIN queues
        /\ QueueOK(queues[q], DOMAIN sessions)
    BY <1>4, <1>5 DEF IInv
  <2>2. queues[q].session = s /\ Stream(queues[q].got, t.pushed)
    BY <1>1, <2>1 DEF SessionInv, Feeds
  <2>3. queues'[q] = [queues[q] EXCEPT !.got = Append(@, u.pushed)]
    BY <1>2, <1>5, <2>1 DEF u
  <2>4. /\ DOMAIN queues'[q] = DOMAIN queues[q] /\ queues'[q].session = queues[q].session
        /\ queues'[q].exited = queues[q].exited
        /\ queues'[q].got = Append(queues[q].got, t.pushed + 1)
    BY <1>4, <2>1, <2>3 DEF QueueOK
  <2>5. t.pushed \in Nat
    BY <1>1 DEF Proper, TailOf, EndOf
  <2>6. Stream(queues'[q].got, u.pushed)
    BY <1>4, <2>2, <2>4, <2>5, StreamGrows
  <2>7. QED BY <2>1, <2>2, <2>4, <2>6 DEF QueueOK, Stream, Unbroken
<1>6. /\ DOMAIN queues' = DOMAIN queues
      /\ \A q \in DOMAIN queues : q \notin result[2] => queues'[q] = queues[q]
  BY <1>2
<1>7. \A q \in DOMAIN queues' : QueueOK(queues'[q], DOMAIN sessions)
  BY <1>5, <1>6 DEF IInv
<1>8. QueuesFor(s)
  BY <1>4, <1>5, <1>6 DEF QueuesFor
<1>9. ClientQueues(u) = ClientQueues(t)
  BY <1>4 DEF ClientQueues
<1>10. SessionInv(s, u, queues')
  <2>1. Feeds(s, u, queues')
    BY <1>1, <1>4, <1>5, <1>6, <1>9 DEF SessionInv, Feeds
  <2>2. Fits(u, queues')
    BY <1>1, <1>4, <1>6, <1>9 DEF SessionInv, Fits
  <2>3. QED BY <1>4, <2>1, <2>2 DEF SessionInv
<1>11. s \in store' => Stored(s, u, queues')
  BY <1>3, <1>4, <1>5, <1>6 DEF IInv, Stored
<1>12. QED BY <1>1, <1>2, <1>3, <1>4, <1>6, <1>7, <1>8, <1>10, <1>11, ClientsStay DEF u

\* A connection that is gone leaves every session it was a client of.
LEMMA CleanupStep ==
  ASSUME IInv, NEW c \in Conns, Cleanup(c), UNCHANGED <<saved, restarts>>
  PROVE  IInv'
<1> DEFINE k == conns[c].channels
<1>1. ConnInv(c, conns[c], sessions)
  BY DEF IInv
<1>2. /\ DOMAIN sessions' = DOMAIN sessions /\ store' = store
      /\ conns' = [conns EXCEPT ![c] = Closed]
      /\ \A q \in DOMAIN queues' : q \in DOMAIN queues /\ queues'[q] = queues[q]
  BY DEF Cleanup, Drop
<1>3. ASSUME NEW s \in DOMAIN sessions
      PROVE  /\ sessions'[s] = sessions[s] \/ Lessened(sessions[s], sessions'[s])
             /\ c \notin DOMAIN sessions'[s].clients
             /\ \A d \in Conns \ {c} :
                  /\ d \in DOMAIN sessions'[s].clients <=> d \in DOMAIN sessions[s].clients
                  /\ d \in DOMAIN sessions[s].clients =>
                       sessions'[s].clients[d].queue = sessions[s].clients[d].queue
             /\ sessions'[s].alive = sessions[s].alive /\ sessions'[s].running = sessions[s].running
             /\ sessions'[s].generation = sessions[s].generation
  <2>1. Proper(sessions[s])
    BY DEF IInv, SessionInv
  <2>2. CASE \E ch \in DOMAIN conns[c].entries : k.channelToPty[ch] = s
    <3>1. sessions'[s] = Close(sessions[s], c)
      BY <2>2 DEF Cleanup
    <3>2. /\ Lessened(sessions[s], sessions'[s])
          /\ sessions'[s].clients = Drop(sessions[s].clients, {c})
          /\ sessions'[s].alive = sessions[s].alive
          /\ sessions'[s].generation = sessions[s].generation
      BY <2>1, <3>1, CloseLessens
    <3>3. sessions'[s].running = sessions[s].running
      BY <3>2 DEF Lessened
    <3>4. QED BY <3>2, <3>3 DEF Drop
  <2>3. CASE ~ \E ch \in DOMAIN conns[c].entries : k.channelToPty[ch] = s
    <3>1. sessions'[s] = sessions[s]
      BY <2>3 DEF Cleanup
    <3>2. ~ HasChannel(k, s)
      BY <1>1, <2>3 DEF ConnInv, Registered, Sound, MutuallyInverse, HasChannel
    <3>3. c \notin DOMAIN sessions[s].clients
      BY <1>1, <3>2 DEF ConnInv, Registered
    <3>4. QED BY <3>1, <3>3
  <2>4. QED BY <2>2, <2>3
<1>4. ASSUME NEW s \in DOMAIN sessions' PROVE SessionInv(s, sessions'[s], queues')
  <2>1. s \in DOMAIN sessions /\ SessionInv(s, sessions[s], queues)
    BY <1>2 DEF IInv
  <2>2. CASE sessions'[s] = sessions[s]
    BY <1>2, <2>1, <2>2, OtherSession
  <2>3. CASE Lessened(sessions[s], sessions'[s])
    BY <1>2, <2>1, <2>3, LessenedInv
  <2>4. QED BY <1>3, <2>1, <2>2, <2>3
<1>5. ASSUME NEW s \in store' PROVE Stored(s, sessions'[s], queues')
  <2>1. s \in DOMAIN sessions /\ Stored(s, sessions[s], queues)
    BY <1>2 DEF IInv
  <2>2. QED BY <1>2, <1>3, <2>1 DEF Stored
<1>6. ASSUME NEW d \in Conns PROVE ConnInv(d, conns'[d], sessions')
  <2>1. CASE d = c
    <3>1. conns'[d] = Closed
      BY <1>2, <2>1 DEF IInv
    <3>2. QED BY <1>2, <1>3, <2>1, <3>1, ClosedInv
  <2>2. CASE d # c
    <3>1. SameClients(d, sessions, sessions')
      BY <1>2, <1>3, <2>2 DEF SameClients
    <3>2. conns'[d] = conns[d]
      BY <1>2, <2>2 DEF IInv
    <3>3. QED BY <3>1, <3>2, OtherConnection DEF IInv
  <2>3. QED BY <2>1, <2>2
<1>7. \A q \in DOMAIN queues' : q \in QueueIds /\ QueueOK(queues'[q], DOMAIN sessions')
  BY <1>2 DEF IInv
<1>8. Counted(DOMAIN sessions') /\ store' \subseteq DOMAIN sessions' /\ DOMAIN conns' = Conns
  BY <1>2 DEF IInv
<1>9. SavedInv(saved, DOMAIN sessions)'
  BY <1>2 DEF IInv, SavedInv
<1>10. QED BY <1>4, <1>5, <1>6, <1>7, <1>8, <1>9 DEF IInv
-----------------------------------------------------------------------------
\* What a checkpoint keeps of a scrollback is read back.
LEMMA CheckpointStep ==
  ASSUME IInv, NEW s, SaveCheckpoint(s)
  PROVE  IInv'
<1>1. s \in DOMAIN sessions /\ Proper(sessions[s])
  BY DEF SaveCheckpoint, IInv, SessionInv
<1> DEFINE kept == Checkpoint(sessions[s])
<1>2. TailOf(FromSnapshot(kept.buffer), kept.pushed)
  <2> DEFINE read == FromSnapshot(kept.buffer)
  <2>1. /\ kept.pushed = sessions[s].pushed
        /\ read.entries = sessions[s].buffer.entries
        /\ read.totalBytes = sessions[s].buffer.totalBytes
    BY DEF Checkpoint, FromSnapshot, Serialize
  <2> HIDE DEF kept, read
  <2>2. TailOf(read, kept.pushed)
    BY <1>1, <2>1 DEF Proper, TailOf, EndOf, IsTail, WithinCapacity
  <2>3. QED BY <2>2 DEF read
<1>3. saved' = Put(saved, s, kept) /\ restarts < MaxRestarts
  BY DEF SaveCheckpoint
<1> HIDE DEF kept
<1>4. /\ DOMAIN saved' = DOMAIN saved \cup {s} /\ saved'[s] = kept
      /\ \A x \in DOMAIN saved \ {s} : saved'[x] = saved[x]
  BY <1>3 DEF Put
<1>5. restarts' = restarts /\ UNCHANGED <<sessions, store, queues, conns>>
  BY DEF SaveCheckpoint
<1>6. DOMAIN saved' \subseteq DOMAIN sessions'
  BY <1>1, <1>4, <1>5 DEF IInv, SavedInv
<1>7. \A x \in DOMAIN saved' : TailOf(FromSnapshot(saved'[x].buffer), saved'[x].pushed)
  BY <1>2, <1>4 DEF IInv, SavedInv
<1>8. SavedInv(saved, DOMAIN sessions)'
  BY <1>3, <1>5, <1>6, <1>7 DEF IInv, SavedInv
<1>9. QED BY <1>5, <1>8 DEF IInv, Counted

\* A restored session has no client and no process.
LEMMA RestoredProper ==
  ASSUME NEW kept, TailOf(FromSnapshot(kept.buffer), kept.pushed)
  PROVE  /\ Proper(Restored(kept)) /\ DOMAIN Restored(kept).clients = {}
         /\ Restored(kept).alive = FALSE /\ Restored(kept).running = FALSE
<1> DEFINE t == Restored(kept)
<1>1. /\ DOMAIN t = {"buffer", "pushed", "clients", "running", "generation",
                     "alive", "distributing", "size"}
      /\ t.buffer = FromSnapshot(kept.buffer) /\ t.pushed = kept.pushed /\ t.clients = EmptyMap
      /\ t.running = FALSE /\ t.alive = FALSE /\ t.distributing = FALSE
      /\ t.generation = 0
  BY DEF Restored, NewSession
<1> HIDE DEF t
<1>2. TailOf(t.buffer, t.pushed)
  BY <1>1
<1>3. DOMAIN t.clients = {}
  BY <1>1 DEF EmptyMap
<1>4. t.generation \in Nat /\ DOMAIN t.clients \subseteq Conns
  BY <1>1, <1>3
<1>5. Proper(t)
  BY <1>1, <1>2, <1>3, <1>4, Zenon DEF Proper
<1>6. QED BY <1>1, <1>3, <1>5 DEF t

\* The server restarts.
LEMMA RestartStep ==
  ASSUME IInv, Restart
  PROVE  IInv'
<1>1. /\ DOMAIN queues' = {} /\ DOMAIN saved' = {} /\ store' = DOMAIN saved
      /\ DOMAIN sessions' = DOMAIN sessions /\ conns' = [c \in Conns |-> Closed]
      /\ restarts' = restarts + 1
  BY DEF Restart, EmptyMap
<1>2. ASSUME NEW s \in DOMAIN sessions'
      PROVE  /\ Proper(sessions'[s]) /\ DOMAIN sessions'[s].clients = {}
             /\ sessions'[s].alive = FALSE /\ sessions'[s].running = FALSE
  <2>1. CASE s \in store'
    <3>1. sessions'[s] = Restored(saved[s]) /\ s \in DOMAIN saved
      BY <1>1, <1>2, <2>1 DEF Restart
    <3>2. TailOf(FromSnapshot(saved[s].buffer), saved[s].pushed)
      BY <3>1 DEF IInv, SavedInv
    <3>3. QED BY <3>1, <3>2, RestoredProper
  <2>2. CASE s \notin store'
    <3>1. sessions'[s] = NewSession
      BY <1>1, <1>2, <2>2 DEF Restart
    <3>2. DOMAIN NewSession.clients = {}
      BY NewProper DEF EmptyMap
    <3>3. QED BY <3>1, <3>2, NewProper
  <2>3. QED BY <2>1, <2>2
<1>3. \A s \in DOMAIN sessions' : SessionInv(s, sessions'[s], queues')
  BY <1>1, <1>2 DEF SessionInv, Feeds, Fits
<1>4. store' \subseteq DOMAIN sessions'
  BY <1>1 DEF IInv, SavedInv
<1>5. \A s \in store' : Stored(s, sessions'[s], queues')
  BY <1>1, <1>2, <1>4 DEF Stored
<1>6. \A c \in Conns : ConnInv(c, conns'[c], sessions')
  BY <1>1, <1>2, ClosedInv
<1>7. DOMAIN conns' = Conns /\ Counted(DOMAIN sessions')
  BY <1>1 DEF IInv
<1>8. SavedInv(saved, DOMAIN sessions)'
  <2>1. restarts \in 0 .. MaxRestarts /\ restarts < MaxRestarts
    BY DEF Restart, IInv, SavedInv
  <2>2. restarts' \in 0 .. MaxRestarts
    BY <1>1, <2>1, MuxAssumption
  <2>3. QED BY <1>1, <2>2 DEF SavedInv
<1>9. QED BY <1>1, <1>3, <1>4, <1>5, <1>6, <1>7, <1>8 DEF IInv
-----------------------------------------------------------------------------
\* Every step keeps the invariant.
LEMMA HandledStep ==
  ASSUME IInv, Handled, UNCHANGED <<saved, restarts>>
  PROVE  IInv'
<1>1. CASE \E c \in Conns : Open(c) \/ Cleanup(c)
  BY <1>1, OpenStep, CleanupStep
<1>2. CASE \E c \in Conns, size \in Sizes : SessionCreate(c, size)
  BY <1>2, CreateStep
<1>3. CASE \E c \in Conns, size \in Sizes, s \in SessionIds :
             SessionAttach(c, s, size) \/ SessionResize(c, s, size)
  BY <1>3, SessionAttachStep, ResizeStep
<1>4. CASE \E c \in Conns, s \in SessionIds : SessionDetach(c, s) \/ SessionDestroy(c, s)
  BY <1>4, DetachStep, DestroyStep
<1>5. CASE \E s \in SessionIds : Exit(s)
  BY <1>5, ExitStep
<1>6. CASE \E s \in SessionIds, bytes \in ChunkBytes : Output(s, bytes)
  BY <1>6, OutputStep
<1>7. QED BY <1>1, <1>2, <1>3, <1>4, <1>5, <1>6 DEF Handled

LEMMA NextIInv == IInv /\ [Next]_vars => IInv'
<1> SUFFICES ASSUME IInv, [Next]_vars PROVE IInv'
  OBVIOUS
<1>1. CASE Handled /\ UNCHANGED <<saved, restarts>>
  BY <1>1, HandledStep
<1>2. CASE \E s \in SessionIds : SaveCheckpoint(s)
  BY <1>2, CheckpointStep
<1>3. CASE Restart
  BY <1>3, RestartStep
<1>4. CASE UNCHANGED vars
  BY <1>4 DEF vars, IInv, SavedInv, Counted
<1>5. QED BY <1>1, <1>2, <1>3, <1>4 DEF Next

\* The invariant of every behaviour.
LEMMA Invariant == Spec => []IInv
BY InitIInv, NextIInv, PTL DEF Spec

\* The store, the connections and the sessions fit each other after every
\* message, exit and restart (muxHandler.ts, sessionStore.ts).
THEOREM SpecStoreSound == Spec => []StoreSound
<1>1. IInv => TypeOK
  <2> SUFFICES ASSUME IInv PROVE TypeOK
    OBVIOUS
  <2>1. DOMAIN sessions \subseteq SessionIds
    BY MuxAssumption DEF IInv, Counted, SessionIds
  <2>2. ASSUME NEW s \in DOMAIN sessions PROVE SessionTyped(sessions[s])
    <3>1. Proper(sessions[s])
      BY DEF IInv, SessionInv
    <3>2. QED BY <3>1 DEF Proper, Client, SessionTyped, TailOf, EndOf
  <2>3. \A c \in Conns : /\ conns[c].phase \in {"closed", "open", "closing"}
                         /\ conns[c].channels \in ChannelMapType
    BY DEF IInv, ConnInv, Sound
  <2>4. DOMAIN saved \subseteq DOMAIN sessions /\ restarts \in 0 .. MaxRestarts
    BY DEF IInv, SavedInv
  <2>5. \A q \in DOMAIN queues : queues[q].session \in DOMAIN sessions
    BY DEF IInv, QueueOK
  <2>6. QED BY <2>1, <2>2, <2>3, <2>4, <2>5 DEF TypeOK, IInv
<1>2. IInv => EntriesRegistered
  BY DEF IInv, ConnInv, Registered, Sound, EntriesRegistered
<1>3. IInv => StoreSound
  BY <1>1, <1>2 DEF StoreSound
<1>4. QED BY <1>3, Invariant, PTL

\* A client is sent the scrollback and then the output, in order and without a
\* gap (session.ts, attach and the distribution fiber).
THEOREM SpecStreamsUnbroken == Spec => []StreamsUnbroken
<1>1. IInv => StreamsUnbroken
  BY DEF IInv, SessionInv, Feeds, QueueOK, Unbroken, Stream, StreamsUnbroken
<1>2. QED BY <1>1, Invariant, PTL

\* The scrollback of a session is the tail of its output and within its
\* capacity, through exits, respawns, checkpoints and restarts of the server
\* (RingBuffer.ts, session.ts).
THEOREM SpecScrollbackIsTail == Spec => []ScrollbackIsTail
<1>1. IInv => ScrollbackIsTail
  BY DEF IInv, SessionInv, Proper, TailOf, EndOf, ScrollbackIsTail
<1>2. QED BY <1>1, Invariant, PTL

\* A process has the size that fits all clients it shows its output to.
THEOREM SpecSizeFitsAll == Spec => []SizeFitsAll
<1>1. IInv => SizeFitsAll
  BY DEF IInv, SessionInv, Fits, SizeFitsAll
<1>2. QED BY <1>1, Invariant, PTL

\* No client of a stored session waits for a dead process (session.ts, the exit
\* watcher).
THEOREM SpecNobodyWaitsOnTheDead == Spec => []NobodyWaitsOnTheDead
<1>1. IInv => NobodyWaitsOnTheDead
  BY DEF IInv, SessionInv, Proper, Stored, Exited, NobodyWaitsOnTheDead
<1>2. QED BY <1>1, Invariant, PTL
=============================================================================
