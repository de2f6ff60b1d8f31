------------------------ MODULE SingleServerProofs ------------------------
(***************************************************************************)
(* The single-session server, for any number of connections, sessions and  *)
(* queues, any capacity and any bound on the output.                       *)
(***************************************************************************)
EXTENDS SingleServer, ServerLemmas

\* The connections that have a handle.
Shown == {c \in Conns : conns[c].phase = "attached"}

\* A connection holds nothing, or a session and a queue.
ConnsOK ==
  \A c \in Conns :
    \/ conns[c] \in {Closed, Connection("open", Null, Null)}
    \/ /\ conns[c].phase = "attached"
       /\ conns[c].session \in DOMAIN sessions /\ conns[c].queue \in QueueIds

SessionsOK ==
  /\ DOMAIN sessions \subseteq SessionIds
  /\ \A s \in DOMAIN sessions :
       /\ SessionOK(sessions[s])
       /\ sessions[s].alive \in BOOLEAN
       /\ sessions[s].alive => sessions[s].distributing

\* No two connections share a queue.
QueuesApart ==
  \A c, d \in Shown : conns[c].queue = conns[d].queue => c = d

\* Every connection that shows a live session got all of its output.
StreamsOK ==
  \A c \in Shown :
    /\ queues[conns[c].queue] \in Seq(Nat)
    /\ sessions[conns[c].session].alive =>
         Stream(queues[conns[c].queue], sessions[conns[c].session].pushed)

\* The inductive invariant.
IInv ==
  /\ DOMAIN conns = Conns /\ DOMAIN queues \subseteq QueueIds
  /\ ConnsOK /\ SessionsOK /\ NoQueueLeaks /\ QueuesApart /\ StreamsOK
-----------------------------------------------------------------------------
\* The invariant holds before any connection...
LEMMA InitIInv == Init => IInv
<1> SUFFICES ASSUME Init PROVE IInv
  OBVIOUS
<1>1. DOMAIN sessions = {} /\ DOMAIN queues = {} /\ DOMAIN conns = Conns
  BY DEF Init, EmptyMap
<1>2. \A c \in Conns : conns[c] = Closed
  BY DEF Init
<1>3. Shown = {}
  BY <1>2 DEF Shown, Closed, Connection
<1>4. NoQueueLeaks
  BY <1>1, <1>3 DEF NoQueueLeaks, Shown
<1>5. QED
  BY <1>1, <1>2, <1>3, <1>4 DEF IInv, ConnsOK, SessionsOK, QueuesApart, StreamsOK

\* A connection that is not attached holds neither a session nor a queue.
LEMMA NotShown ==
  ASSUME ConnsOK, NEW c \in Conns, c \notin Shown
  PROVE  conns[c].session = Null /\ conns[c].queue = Null
BY DEF ConnsOK, Shown, Closed, Connection

\* The invariant gives the properties of the runs.
LEMMA IInvTypeOK == IInv => TypeOK
BY DEF IInv, ConnsOK, SessionsOK, TypeOK, SessionOK, TailOf, EndOf

\* The stream of a connection that shows a live session is one of Shown.
LEMMA IInvOutput == IInv => OutputReachesAll
<1> SUFFICES ASSUME IInv, NEW s \in DOMAIN sessions, sessions[s].alive
             PROVE  /\ sessions[s].distributing
                    /\ \A c \in Attached(s) : Stream(queues[conns[c].queue], sessions[s].pushed)
  BY DEF OutputReachesAll, Stream
<1>1. sessions[s].distributing
  BY DEF IInv, SessionsOK
<1>2. \A c \in Attached(s) : c \in Shown /\ conns[c].session = s
  BY DEF Attached, Shown
<1>3. QED BY <1>1, <1>2 DEF IInv, StreamsOK

\* The clients of a session are those that show it.
LEMMA IInvSize == IInv => SizeFitsShown
<1> SUFFICES ASSUME IInv, NEW s \in DOMAIN sessions,
                    sessions[s].alive, Attached(s) # {}
             PROVE  sessions[s].size =
                      LeastSize([c \in Attached(s) |-> sessions[s].clients[c]])
  BY DEF SizeFitsShown
<1>1. DOMAIN sessions[s].clients = Attached(s)
  BY DEF IInv, NoQueueLeaks
<1>2. sessions[s].size = LeastSize(sessions[s].clients)
  BY <1>1 DEF IInv, SessionsOK, SessionOK
<1>3. QED BY <1>1, <1>2 DEF LeastSize
-----------------------------------------------------------------------------
\* The queue of a connection that shows a session is open, is a queue of no
\* other connection, and is not Null.
LEMMA ShownQueue ==
  ASSUME IInv, NEW d \in Shown, NEW c \in Conns, c # d
  PROVE  /\ conns[d].queue \in DOMAIN queues /\ conns[d].queue # conns[c].queue
         /\ conns[d].session \in DOMAIN sessions /\ d \in Attached(conns[d].session)
<1>1. /\ conns[d].queue \in QueueIds /\ conns[d].session \in DOMAIN sessions
      /\ d \in Attached(conns[d].session)
  BY DEF IInv, ConnsOK, Shown, Attached, Closed, Connection
<1>2. conns[d].queue \in DOMAIN queues
  BY DEF IInv, NoQueueLeaks, Shown
<1>3. CASE c \in Shown
  BY <1>1, <1>2, <1>3 DEF IInv, QueuesApart
<1>4. CASE c \notin Shown
  <2>1. conns[c].queue = Null
    BY <1>4, NotShown DEF IInv
  <2>2. QED BY <1>1, <1>2, <2>1, SingleAssumption
<1>5. QED BY <1>3, <1>4

\* t is session s with the clients other than c, and open are the queues
\* other than that of c, which shows s or nothing.
Attachable(c, s, t, open) ==
  /\ c \in Shown => conns[c].session = s
  /\ SessionOK(t) /\ t.alive \in BOOLEAN
  /\ t.alive => t.distributing
  /\ DOMAIN t.clients = Attached(s) \ {c}
  /\ \A d \in Attached(s) \ {c} : t.clients[d].queue = conns[d].queue
  /\ s \in DOMAIN sessions =>
       t.alive = sessions[s].alive /\ t.pushed = sessions[s].pushed
  /\ DOMAIN open = DOMAIN queues \ {conns[c].queue}
  /\ \A q \in DOMAIN open : open[q] = queues[q]

\* From there, the end of doAttach keeps the invariant.
LEMMA AttachStep ==
  ASSUME IInv, NEW c \in Conns, NEW s \in SessionIds, NEW size, NEW t, NEW open,
         AttachTo(c, s, t, size, open), Attachable(c, s, t, open)
  PROVE  IInv'
<1> SUFFICES ASSUME c \in Shown => conns[c].session = s,
                    SessionOK(t), t.alive \in BOOLEAN, t.alive => t.distributing,
                    DOMAIN t.clients = Attached(s) \ {c},
                    \A d \in Attached(s) \ {c} : t.clients[d].queue = conns[d].queue,
                    s \in DOMAIN sessions =>
                      t.alive = sessions[s].alive /\ t.pushed = sessions[s].pushed,
                    DOMAIN open = DOMAIN queues \ {conns[c].queue},
                    \A q \in DOMAIN open : open[q] = queues[q]
             PROVE  IInv'
  BY DEF Attachable
<1> DEFINE q == Min(FreeQueues)
           u == Attach(t, c, q, size)
<1>1. q \in QueueIds /\ q \notin DOMAIN queues
  <2>1. FreeQueues \in SUBSET Nat /\ FreeQueues # {}
    BY DEF AttachTo, FreeQueues, QueueIds
  <2>2. q \in FreeQueues
    BY <2>1, LeastElement
  <2>3. QED BY <2>2 DEF FreeQueues
<1>2. /\ sessions' = Put(sessions, s, u) /\ queues' = Put(open, q, Replay(t))
      /\ conns' = [conns EXCEPT ![c] = Connection("attached", s, q)]
  BY DEF AttachTo
<1> HIDE DEF q
<1>3. /\ SessionOK(u) /\ SameOutput(t, u)
      /\ u.clients = Put(t.clients, c, [queue |-> q, size |-> size])
  BY AttachAdds
<1> HIDE DEF u
<1>4. /\ DOMAIN conns' = Conns /\ conns'[c] = Connection("attached", s, q)
      /\ \A d \in Conns \ {c} : conns'[d] = conns[d]
  BY <1>2 DEF IInv
<1>5. Shown' = Shown \cup {c}
  BY <1>4 DEF Shown, Connection
<1>6. /\ Attached(s)' = Attached(s) \cup {c}
      /\ \A x : x # s => Attached(x)' = Attached(x)
  BY <1>4 DEF Attached, Shown, Connection
<1>7. /\ DOMAIN queues' = (DOMAIN queues \ {conns[c].queue}) \cup {q}
      /\ queues'[q] = Replay(t)
      /\ \A d \in Shown \ {c} : queues'[conns[d].queue] = queues[conns[d].queue]
  BY <1>1, <1>2, ShownQueue DEF Put, Drop, Shown
<1>8. /\ DOMAIN sessions' = DOMAIN sessions \cup {s} /\ sessions'[s] = u
      /\ \A x \in DOMAIN sessions \ {s} : sessions'[x] = sessions[x]
  BY <1>2 DEF Put
<1>9. ConnsOK'
  BY <1>1, <1>4, <1>8 DEF IInv, ConnsOK, Closed, Connection
<1>10. SessionsOK'
  BY <1>3, <1>8 DEF IInv, SessionsOK, SameOutput
<1>11. NoQueueLeaks'
  <2>1. \A x \in DOMAIN sessions' : DOMAIN sessions'[x].clients = Attached(x)'
    BY <1>3, <1>6, <1>8 DEF IInv, NoQueueLeaks, Put
  <2>2. ASSUME NEW x \in DOMAIN sessions', NEW d \in Attached(x)'
        PROVE  sessions'[x].clients[d].queue = conns'[d].queue
    <3>1. CASE d = c
      BY <1>3, <1>4, <1>8, <2>2, <3>1 DEF Attached, Connection, Put
    <3>2. CASE d # c
      BY <1>3, <1>4, <1>6, <1>8, <2>2, <3>2
         DEF IInv, NoQueueLeaks, Attached, Put
    <3>3. QED BY <3>1, <3>2
  <2>3. DOMAIN queues = {conns[d].queue : d \in Shown}
    BY DEF IInv, NoQueueLeaks, Shown
  <2>4. \A d \in Shown \ {c} : conns[d].queue # conns[c].queue
    BY ShownQueue DEF Shown
  <2>5. DOMAIN queues' = {conns'[d].queue : d \in Shown'}
    <3>1. \A d \in Shown \ {c} : conns'[d].queue = conns[d].queue
      BY <1>4 DEF Shown
    <3>2. conns'[c].queue = q
      BY <1>4 DEF Connection
    <3>3. c \notin Shown => conns[c].queue = Null
      BY NotShown DEF IInv
    <3>4. {conns'[d].queue : d \in Shown'} =
            {conns[d].queue : d \in Shown \ {c}} \cup {q}
      BY <1>5, <3>1, <3>2
    <3>5. {conns[d].queue : d \in Shown \ {c}} = DOMAIN queues \ {conns[c].queue}
      BY <2>3, <2>4
    <3>6. QED BY <1>7, <3>4, <3>5
  <2>6. QED BY <2>1, <2>2, <2>5 DEF NoQueueLeaks, Shown
<1>12. QueuesApart'
  <2>1. conns'[c].queue = q
    BY <1>4 DEF Connection
  <2>2. \A d \in Shown \ {c} : conns'[d].queue = conns[d].queue /\ conns[d].queue # q
    BY <1>1, <1>4, ShownQueue DEF Shown
  <2>3. QED BY <1>5, <2>1, <2>2 DEF IInv, QueuesApart
<1>13. StreamsOK'
  <2>1. ASSUME NEW d \in Shown', d # c
        PROVE  /\ queues'[conns'[d].queue] \in Seq(Nat)
               /\ sessions'[conns'[d].session].alive =>
                    Stream(queues'[conns'[d].queue], sessions'[conns'[d].session].pushed)
    <3>1. /\ d \in Shown /\ d \in Conns /\ conns'[d] = conns[d]
          /\ conns[d].session \in DOMAIN sessions
          /\ queues'[conns[d].queue] = queues[conns[d].queue]
      BY <1>4, <1>5, <1>7, <2>1, ShownQueue DEF Shown
    <3>2. /\ sessions'[conns[d].session].alive = sessions[conns[d].session].alive
          /\ sessions'[conns[d].session].pushed = sessions[conns[d].session].pushed
      BY <1>3, <1>8, <3>1 DEF SameOutput
    <3>3. QED BY <3>1, <3>2 DEF IInv, StreamsOK
  <2>2. /\ queues'[conns'[c].queue] \in Seq(Nat)
        /\ Stream(queues'[conns'[c].queue], sessions'[conns'[c].session].pushed)
    <3>1. Stream(Replay(t), t.pushed)
      BY ReplayStream DEF SessionOK
    <3>2. conns'[c].queue = q /\ conns'[c].session = s /\ sessions'[s].pushed = t.pushed
      BY <1>3, <1>4, <1>8 DEF Connection, SameOutput
    <3>3. QED BY <1>7, <3>1, <3>2 DEF Stream
  <2>3. QED BY <2>1, <2>2 DEF StreamsOK
<1>14. DOMAIN queues' \subseteq QueueIds
  BY <1>1, <1>7 DEF IInv
<1>15. QED BY <1>4, <1>9, <1>10, <1>11, <1>12, <1>13, <1>14 DEF IInv

\* A connection that ends closes its handle, and takes its queue with it.
LEMMA FinishStep ==
  ASSUME IInv, NEW c \in Conns, Finish(c)
  PROVE  IInv'
<1>1. /\ DOMAIN conns' = Conns /\ conns'[c] = Closed
      /\ \A d \in Conns \ {c} : conns'[d] = conns[d]
      /\ queues' = Drop(queues, {conns[c].queue})
  BY DEF IInv, Finish
<1>2. Shown' = Shown \ {c} /\ \A s : Attached(s)' = Attached(s) \ {c}
  BY <1>1 DEF Shown, Attached, Closed, Connection
<1>3. /\ DOMAIN queues' = DOMAIN queues \ {conns[c].queue}
      /\ \A d \in Shown \ {c} : queues'[conns[d].queue] = queues[conns[d].queue]
  BY <1>1, ShownQueue DEF Drop, Shown
<1>4. /\ DOMAIN sessions' = DOMAIN sessions
      /\ \A s \in DOMAIN sessions :
           /\ SessionOK(sessions'[s]) /\ SameOutput(sessions[s], sessions'[s])
           /\ DOMAIN sessions'[s].clients = Attached(s) \ {c}
           /\ \A d \in Attached(s) \ {c} :
                sessions'[s].clients[d] = sessions[s].clients[d]
  <2>1. CASE c \in Shown
    <3>1. sessions' = [sessions EXCEPT ![conns[c].session] = Close(@, c)]
      BY <2>1 DEF Finish, Shown
    <3>2. \A s \in DOMAIN sessions :
            /\ SessionOK(sessions[s]) /\ DOMAIN sessions[s].clients = Attached(s)
      BY DEF IInv, SessionsOK, NoQueueLeaks
    <3>3. ASSUME NEW s \in DOMAIN sessions
          PROVE  /\ SessionOK(sessions'[s]) /\ SameOutput(sessions[s], sessions'[s])
                 /\ DOMAIN sessions'[s].clients = Attached(s) \ {c}
                 /\ \A d \in Attached(s) \ {c} :
                      sessions'[s].clients[d] = sessions[s].clients[d]
      <4>1. CASE s = conns[c].session
        <5>1. sessions'[s] = Close(sessions[s], c)
          BY <3>1, <4>1
        <5>2. /\ SessionOK(sessions'[s]) /\ SameOutput(sessions[s], sessions'[s])
              /\ sessions'[s].clients = Drop(sessions[s].clients, {c})
          BY <3>2, <5>1, CloseDrops
        <5>3. QED BY <3>2, <5>2 DEF Drop
      <4>2. CASE s # conns[c].session
        <5>1. sessions'[s] = sessions[s] /\ c \notin Attached(s)
          BY <3>1, <4>2 DEF Attached
        <5>2. QED BY <3>2, <5>1 DEF SameOutput
      <4>3. QED BY <4>1, <4>2
    <3>4. QED BY <3>1, <3>3
  <2>2. CASE c \notin Shown
    <3>1. sessions' = sessions /\ \A s : c \notin Attached(s)
      BY <2>2 DEF Finish, Shown, Attached
    <3>2. QED BY <3>1 DEF IInv, SessionsOK, NoQueueLeaks, SameOutput
  <2>3. QED BY <2>1, <2>2
<1>5. ConnsOK'
  BY <1>1, <1>4 DEF IInv, ConnsOK, Closed, Connection
<1>6. SessionsOK'
  BY <1>4 DEF IInv, SessionsOK, SameOutput
<1>7. NoQueueLeaks'
  <2>1. ASSUME NEW s \in DOMAIN sessions', NEW d \in Attached(s)'
        PROVE  sessions'[s].clients[d].queue = conns'[d].queue
    <3>1. s \in DOMAIN sessions /\ d \in Attached(s) \ {c} /\ d \in Conns \ {c}
      BY <1>2, <1>4, <2>1 DEF Attached
    <3>2. sessions[s].clients[d].queue = conns[d].queue
      BY <3>1 DEF IInv, NoQueueLeaks
    <3>3. QED BY <1>1, <1>4, <3>1, <3>2
  <2>2. DOMAIN queues = {conns[d].queue : d \in Shown}
    BY DEF IInv, NoQueueLeaks, Shown
  <2>3. \A d \in Shown \ {c} :
          conns'[d].queue = conns[d].queue /\ conns[d].queue # conns[c].queue
    BY <1>1, ShownQueue DEF Shown
  <2>4. DOMAIN queues' = {conns'[d].queue : d \in Shown'}
    <3>1. {conns'[d].queue : d \in Shown'} = {conns[d].queue : d \in Shown \ {c}}
      BY <1>2, <2>3
    <3>2. {conns[d].queue : d \in Shown \ {c}} = DOMAIN queues \ {conns[c].queue}
      BY <2>2, <2>3
    <3>3. QED BY <1>3, <3>1, <3>2
  <2>5. QED BY <1>2, <1>4, <2>1, <2>4 DEF NoQueueLeaks, Shown
<1>8. QueuesApart'
  BY <1>1, <1>2 DEF IInv, QueuesApart, Shown
<1>9. StreamsOK'
  <2> SUFFICES ASSUME NEW d \in Shown'
               PROVE  /\ queues'[conns'[d].queue] \in Seq(Nat)
                      /\ sessions'[conns'[d].session].alive =>
                           Stream(queues'[conns'[d].queue],
                                  sessions'[conns'[d].session].pushed)
    BY DEF StreamsOK
  <2>1. /\ d \in Shown /\ conns'[d] = conns[d]
        /\ conns[d].session \in DOMAIN sessions
        /\ queues'[conns[d].queue] = queues[conns[d].queue]
    BY <1>1, <1>2, <1>3, ShownQueue DEF Shown
  <2>2. QED BY <1>4, <2>1 DEF IInv, StreamsOK, SameOutput
<1>10. QED BY <1>1, <1>3, <1>5, <1>6, <1>7, <1>8, <1>9 DEF IInv

\* A resize leaves the clients, their queues and the output alone.
LEMMA ResizeStep ==
  ASSUME IInv, NEW c \in Conns, Resize(c)
  PROVE  IInv'
<1>1. PICK size \in Sizes :
        sessions' = [sessions EXCEPT ![conns[c].session] = ClientResize(@, c, size)]
  BY DEF Resize
<1>2. /\ queues' = queues /\ conns' = conns
      /\ Shown' = Shown /\ \A s : Attached(s)' = Attached(s)
  BY DEF Resize, Shown, Attached
<1>3. /\ DOMAIN sessions' = DOMAIN sessions
      /\ \A s \in DOMAIN sessions :
           /\ SessionOK(sessions'[s]) /\ SameOutput(sessions[s], sessions'[s])
           /\ DOMAIN sessions'[s].clients = DOMAIN sessions[s].clients
           /\ \A d \in DOMAIN sessions[s].clients :
                sessions'[s].clients[d].queue = sessions[s].clients[d].queue
  <2>1. \A s \in DOMAIN sessions : SessionOK(sessions[s])
    BY DEF IInv, SessionsOK
  <2>2. ASSUME NEW s \in DOMAIN sessions
        PROVE  \/ sessions'[s] = sessions[s]
               \/ sessions'[s] = ClientResize(sessions[s], c, size)
    BY <1>1
  <2>3. QED BY <1>1, <2>1, <2>2, ClientResizeKeeps DEF SameOutput
<1>4. ConnsOK' /\ QueuesApart'
  BY <1>2, <1>3 DEF IInv, ConnsOK, QueuesApart
<1>5. SessionsOK'
  BY <1>3 DEF IInv, SessionsOK, SameOutput
<1>6. NoQueueLeaks'
  BY <1>2, <1>3 DEF IInv, NoQueueLeaks
<1>7. StreamsOK'
  BY <1>2, <1>3 DEF IInv, StreamsOK, SameOutput, ConnsOK, Shown, Closed, Connection
<1>8. QED BY <1>2, <1>4, <1>5, <1>6, <1>7 DEF IInv

\* A connection that opens shows nothing yet.
LEMMA OpenStep ==
  ASSUME IInv, NEW c \in Conns, Open(c)
  PROVE  IInv'
<1>1. /\ DOMAIN conns' = Conns /\ conns'[c] = Connection("open", Null, Null)
      /\ \A d \in Conns \ {c} : conns'[d] = conns[d]
      /\ conns[c].phase = "closed" /\ sessions' = sessions /\ queues' = queues
  BY DEF IInv, Open
<1>2. /\ Shown' = Shown /\ c \notin Shown /\ \A s : Attached(s)' = Attached(s)
  BY <1>1 DEF Shown, Attached, Connection
<1>3. \A d \in Shown : conns'[d] = conns[d]
  BY <1>1, <1>2 DEF Shown
<1>4. ConnsOK' /\ SessionsOK'
  BY <1>1 DEF IInv, ConnsOK, SessionsOK, Closed
<1>5. NoQueueLeaks'
  <2>1. \A s : \A d \in Attached(s) : d \in Shown
    BY DEF Attached, Shown
  <2>2. DOMAIN queues = {conns[d].queue : d \in Shown}
    BY DEF IInv, NoQueueLeaks, Shown
  <2>3. DOMAIN queues' = {conns'[d].queue : d \in Shown'}
    BY <1>1, <1>2, <1>3, <2>2
  <2>4. \A s \in DOMAIN sessions' :
          /\ DOMAIN sessions'[s].clients = Attached(s)'
          /\ \A d \in Attached(s)' : sessions'[s].clients[d].queue = conns'[d].queue
    BY <1>1, <1>2, <1>3, <2>1 DEF IInv, NoQueueLeaks
  <2>5. QED BY <2>3, <2>4 DEF NoQueueLeaks, Shown
<1>6. QueuesApart' /\ StreamsOK'
  BY <1>1, <1>2, <1>3 DEF IInv, QueuesApart, StreamsOK
<1>7. QED BY <1>1, <1>4, <1>5, <1>6 DEF IInv

\* Output reaches every connection that shows the session, and no other.
LEMMA OutputStep ==
  ASSUME IInv, NEW s \in SessionIds, NEW bytes \in ChunkBytes, Output(s, bytes)
  PROVE  IInv'
<1> DEFINE targets == ClientQueues(sessions[s])
<1>1. /\ s \in DOMAIN sessions /\ sessions[s].alive /\ SessionOK(sessions[s])
      /\ conns' = conns
  BY DEF IInv, SessionsOK, Output
<1>2. targets = {conns[c].queue : c \in Attached(s)} /\ targets \subseteq DOMAIN queues
  BY <1>1 DEF IInv, NoQueueLeaks, ClientQueues, Attached
<1>3. PICK result \in Distributed(sessions[s], bytes, DOMAIN queues) :
        /\ sessions' = [sessions EXCEPT ![s] = result[1]]
        /\ queues' = [q \in DOMAIN queues |->
                        IF q \in result[2] THEN Append(queues[q], result[1].pushed)
                        ELSE queues[q]]
  BY DEF Output
<1> DEFINE t == result[1]
<1>4. bytes \in Nat
  BY SingleAssumption
<1>5. /\ SessionOK(t) /\ result[2] = targets /\ t.pushed = sessions[s].pushed + 1
      /\ t.clients = sessions[s].clients /\ t.alive = sessions[s].alive
      /\ t.distributing = sessions[s].distributing
  <2>1. SessionOK(sessions[s]) /\ ClientQueues(sessions[s]) \subseteq DOMAIN queues
    BY <1>1, <1>2
  <2> HIDE DEF t, targets
  <2>2. /\ SessionOK(result[1]) /\ result[2] = ClientQueues(sessions[s])
        /\ result[1].pushed = sessions[s].pushed + 1
        /\ result[1].clients = sessions[s].clients
        /\ result[1].alive = sessions[s].alive
        /\ result[1].distributing = sessions[s].distributing
    BY <1>3, <1>4, <2>1, DistributedToAll
  <2>3. QED BY <2>2 DEF t, targets
<1> HIDE DEF t
<1>6. /\ DOMAIN sessions' = DOMAIN sessions /\ sessions'[s] = t
      /\ \A x \in DOMAIN sessions \ {s} : sessions'[x] = sessions[x]
  BY <1>1, <1>3 DEF t
<1>7. Shown' = Shown /\ \A x : Attached(x)' = Attached(x)
  BY <1>1 DEF Shown, Attached
<1>8. DOMAIN queues' = DOMAIN queues
  BY <1>3
<1>9. ConnsOK' /\ QueuesApart'
  BY <1>1, <1>6, <1>7 DEF IInv, ConnsOK, QueuesApart
<1>10. SessionsOK'
  BY <1>5, <1>6 DEF IInv, SessionsOK
<1>11. NoQueueLeaks'
  BY <1>1, <1>5, <1>6, <1>7, <1>8 DEF IInv, NoQueueLeaks
<1>12. StreamsOK'
  <2> SUFFICES ASSUME NEW c \in Shown
               PROVE  /\ queues'[conns[c].queue] \in Seq(Nat)
                      /\ sessions'[conns[c].session].alive =>
                           Stream(queues'[conns[c].queue],
                                  sessions'[conns[c].session].pushed)
    BY <1>1, <1>7 DEF StreamsOK
  <2>1. /\ conns[c].queue \in DOMAIN queues
        /\ conns[c].session \in DOMAIN sessions
        /\ queues[conns[c].queue] \in Seq(Nat)
        /\ sessions[conns[c].session].alive =>
             Stream(queues[conns[c].queue], sessions[conns[c].session].pushed)
    BY DEF IInv, StreamsOK, NoQueueLeaks, ConnsOK, Shown, Closed, Connection
  <2>2. CASE conns[c].session = s
    <3>1. c \in Attached(s)
      BY <2>2 DEF Attached, Shown
    <3>2. queues'[conns[c].queue] = Append(queues[conns[c].queue], sessions[s].pushed + 1)
      BY <1>2, <1>3, <1>5, <2>1, <3>1 DEF t
    <3>3. sessions[s].pushed \in Nat
      BY <1>1 DEF SessionOK, TailOf, EndOf
    <3>4. Stream(queues'[conns[c].queue], sessions[s].pushed + 1)
      BY <1>1, <2>1, <2>2, <3>2, <3>3, StreamGrows
    <3>5. QED BY <1>5, <1>6, <2>2, <3>4 DEF Stream
  <2>3. CASE conns[c].session # s
    <3>1. conns[c].queue \notin targets
      BY <1>2, <2>3 DEF IInv, QueuesApart, Attached, Shown
    <3>2. queues'[conns[c].queue] = queues[conns[c].queue]
      BY <1>3, <1>5, <2>1, <3>1
    <3>3. QED BY <1>6, <2>1, <2>3, <3>2
  <2>4. QED BY <2>2, <2>3
<1>13. QED BY <1>1, <1>8, <1>9, <1>10, <1>11, <1>12 DEF IInv

\* An exit ends exactly the connections that show the session.
LEMMA ExitStep ==
  ASSUME IInv, NEW s \in SessionIds, Exit(s)
  PROVE  IInv'
<1> DEFINE ended == {c \in DOMAIN sessions[s].clients :
                       conns[c].phase = "attached"
                         /\ conns[c].queue = sessions[s].clients[c].queue}
           gone == ProcessExited(sessions[s])
           t == [gone EXCEPT !.clients = Drop(gone.clients, ended)]
<1>1. /\ s \in DOMAIN sessions /\ SessionOK(sessions[s])
      /\ sessions' = [sessions EXCEPT ![s] = t]
      /\ queues' = Drop(queues, ClientQueues(sessions[s]))
      /\ conns' = [c \in Conns |-> IF c \in ended THEN Closed ELSE conns[c]]
  <2>1. /\ s \in DOMAIN sessions
        /\ sessions' = [sessions EXCEPT ![s] = t]
        /\ queues' = Drop(queues, ClientQueues(sessions[s]))
        /\ conns' = [c \in Conns |-> IF c \in ended THEN Closed ELSE conns[c]]
    BY DEF Exit
  <2>2. QED BY <2>1 DEF IInv, SessionsOK
<1>2. /\ DOMAIN sessions[s].clients = Attached(s) /\ ended = Attached(s)
      /\ ClientQueues(sessions[s]) = {conns[c].queue : c \in Attached(s)}
  BY <1>1 DEF IInv, NoQueueLeaks, ClientQueues, Attached
<1>3. SessionOK(t) /\ DOMAIN t.clients = {} /\ t.alive = FALSE
  <2>1. /\ DOMAIN gone = DOMAIN sessions[s] /\ gone.buffer = sessions[s].buffer
        /\ gone.pushed = sessions[s].pushed /\ gone.clients = sessions[s].clients
        /\ gone.alive = FALSE /\ gone.running = FALSE
    BY <1>1 DEF ProcessExited, SessionOK
  <2> HIDE DEF gone, ended
  <2>2. DOMAIN gone = {"buffer", "pushed", "clients", "running", "generation",
                    "alive", "distributing", "size"}
    BY <1>1, <2>1 DEF SessionOK
  <2>3. /\ DOMAIN t = DOMAIN gone /\ t.buffer = gone.buffer /\ t.pushed = gone.pushed
        /\ t.alive = FALSE /\ t.running = FALSE
        /\ t.clients = Drop(sessions[s].clients, ended)
    BY <2>1, <2>2
  <2> HIDE DEF t
  <2>4. DOMAIN t.clients = {}
    BY <1>2, <2>3 DEF Drop
  <2>5. QED BY <1>1, <2>1, <2>2, <2>3, <2>4 DEF SessionOK
<1> HIDE DEF t, ended
<1>4. /\ DOMAIN sessions' = DOMAIN sessions /\ sessions'[s] = t
      /\ \A x \in DOMAIN sessions \ {s} : sessions'[x] = sessions[x]
  BY <1>1
<1>5. /\ DOMAIN conns' = Conns /\ \A c \in Attached(s) : conns'[c] = Closed
      /\ \A c \in Conns \ Attached(s) : conns'[c] = conns[c]
  BY <1>1, <1>2 DEF Attached
<1>6. /\ Shown' = Shown \ Attached(s) /\ Attached(s)' = {}
      /\ \A x : x # s => Attached(x)' = Attached(x)
      /\ \A c \in Shown' : conns'[c] = conns[c] /\ conns[c].session # s
  BY <1>5 DEF Shown, Attached, Closed, Connection
<1>7. /\ DOMAIN queues' = DOMAIN queues \ {conns[c].queue : c \in Attached(s)}
      /\ \A q \in DOMAIN queues' : queues'[q] = queues[q]
  BY <1>1, <1>2 DEF Drop
<1>8. ConnsOK'
  BY <1>4, <1>5 DEF IInv, ConnsOK
<1>9. SessionsOK'
  BY <1>3, <1>4 DEF IInv, SessionsOK
<1>10. DOMAIN queues' = {conns'[c].queue : c \in Shown'}
  <2>1. DOMAIN queues = {conns[c].queue : c \in Shown}
    BY DEF IInv, NoQueueLeaks, Shown
  <2>2. Attached(s) \subseteq Shown
    BY DEF Attached, Shown
  <2>3. \A c, d \in Shown : conns[c].queue = conns[d].queue => c = d
    BY DEF IInv, QueuesApart
  <2>4. {conns'[c].queue : c \in Shown'} = {conns[c].queue : c \in Shown \ Attached(s)}
    BY <1>6
  <2>5. {conns[c].queue : c \in Shown \ Attached(s)} =
          DOMAIN queues \ {conns[c].queue : c \in Attached(s)}
    BY <2>1, <2>2, <2>3
  <2>6. QED BY <1>7, <2>4, <2>5
<1>11. NoQueueLeaks'
  <2>1. ASSUME NEW x \in DOMAIN sessions'
        PROVE  /\ DOMAIN sessions'[x].clients = Attached(x)'
               /\ \A c \in Attached(x)' : sessions'[x].clients[c].queue = conns'[c].queue
    <3>1. CASE x = s
      BY <1>3, <1>4, <1>6, <3>1
    <3>2. CASE x # s
      <4>1. /\ x \in DOMAIN sessions /\ sessions'[x] = sessions[x]
            /\ Attached(x)' = Attached(x)
        BY <1>4, <1>6, <3>2
      <4>2. \A c \in Attached(x) : conns'[c] = conns[c]
        BY <1>5, <3>2 DEF Attached
      <4>3. QED BY <4>1, <4>2 DEF IInv, NoQueueLeaks
    <3>3. QED BY <3>1, <3>2
  <2>2. QED BY <1>10, <2>1 DEF NoQueueLeaks, Shown
<1>12. QueuesApart'
  BY <1>6 DEF IInv, QueuesApart
<1>13. StreamsOK'
  <2> SUFFICES ASSUME NEW c \in Shown'
               PROVE  /\ queues'[conns'[c].queue] \in Seq(Nat)
                      /\ sessions'[conns'[c].session].alive =>
                           Stream(queues'[conns'[c].queue],
                                  sessions'[conns'[c].session].pushed)
    BY DEF StreamsOK
  <2>1. c \in Shown /\ conns'[c] = conns[c] /\ conns[c].session # s
    BY <1>6
  <2>2. conns[c].session \in DOMAIN sessions
    BY <2>1 DEF IInv, ConnsOK, Shown, Closed, Connection
  <2>3. queues'[conns[c].queue] = queues[conns[c].queue]
    BY <1>7, <1>10, <2>1
  <2>4. QED BY <1>4, <2>1, <2>2, <2>3 DEF IInv, StreamsOK
<1>14. QED BY <1>5, <1>7, <1>8, <1>9, <1>11, <1>12, <1>13 DEF IInv
-----------------------------------------------------------------------------
\* ... and every step keeps it.
LEMMA NextIInv == IInv /\ [Next]_vars => IInv'
<1> SUFFICES ASSUME IInv, [Next]_vars PROVE IInv'
  OBVIOUS
<1>1. ASSUME NEW c \in Conns, FirstAttach(c) PROVE IInv'
  <2>1. PICK s \in SessionIds, size \in Sizes :
          AttachTo(c, s, IF s \in DOMAIN sessions THEN sessions[s]
                         ELSE SpawnGeneration(NewSession, size), size, queues)
    BY <1>1 DEF FirstAttach
  <2> DEFINE t == IF s \in DOMAIN sessions THEN sessions[s]
                  ELSE SpawnGeneration(NewSession, size)
  <2>2. c \notin Shown /\ c \notin Attached(s) /\ conns[c].queue = Null
    BY <1>1, NotShown DEF FirstAttach, Shown, Attached, IInv
  <2>3. DOMAIN queues = DOMAIN queues \ {conns[c].queue}
    BY <2>2, SingleAssumption DEF IInv
  <2>4. /\ SessionOK(t) /\ t.alive \in BOOLEAN
        /\ t.alive => t.distributing
        /\ DOMAIN t.clients = Attached(s) \ {c}
        /\ \A d \in Attached(s) \ {c} : t.clients[d].queue = conns[d].queue
        /\ s \in DOMAIN sessions =>
             t.alive = sessions[s].alive /\ t.pushed = sessions[s].pushed
    <3>1. CASE s \in DOMAIN sessions
      BY <2>2, <3>1 DEF IInv, SessionsOK, NoQueueLeaks
    <3>2. CASE s \notin DOMAIN sessions
      <4>1. Attached(s) = {}
        BY <3>2 DEF IInv, ConnsOK, Attached, Closed, Connection
      <4>2. t = SpawnGeneration(NewSession, size)
        BY <3>2
      <4> HIDE DEF t
      <4>3. /\ SessionOK(t) /\ DOMAIN t.clients = {}
            /\ t.alive /\ t.distributing /\ t.running = TRUE
        BY <4>2, NewSessionOK DEF EmptyMap, SpawnGeneration, NewSession
      <4>4. t.alive \in BOOLEAN
        BY <4>2 DEF SpawnGeneration, NewSession
      <4>5. QED BY <3>2, <4>1, <4>3, <4>4
    <3>3. QED BY <3>1, <3>2
  <2> HIDE DEF t
  <2>5. AttachTo(c, s, t, size, queues)
    BY <2>1 DEF t
  <2>6. Attachable(c, s, t, queues)
    BY <2>2, <2>3, <2>4 DEF Attachable
  <2>7. QED BY <2>5, <2>6, AttachStep
<1>2. ASSUME NEW c \in Conns, SessionNew(c) PROVE IInv'
  <2> DEFINE s == conns[c].session
             open == Drop(queues, {conns[c].queue})
             t == Close(sessions[s], c)
  <2>1. c \in Shown /\ s \in DOMAIN sessions /\ s \in SessionIds
    BY <1>2 DEF SessionNew, Shown, IInv, ConnsOK, SessionsOK, Closed, Connection
  <2>2. CASE Exited(sessions[s])
    BY <1>2, <2>2, FinishStep DEF SessionNew
  <2>3. CASE ~ Exited(sessions[s])
    <3>1. PICK size \in Sizes : AttachTo(c, s, t, size, open)
      BY <1>2, <2>3 DEF SessionNew
    <3>2. /\ DOMAIN open = DOMAIN queues \ {conns[c].queue}
          /\ \A q \in DOMAIN open : open[q] = queues[q]
      BY DEF Drop
    <3>3. /\ SessionOK(sessions[s]) /\ sessions[s].alive \in BOOLEAN
          /\ sessions[s].alive => sessions[s].distributing
          /\ DOMAIN sessions[s].clients = Attached(s)
          /\ \A d \in Attached(s) : sessions[s].clients[d].queue = conns[d].queue
      BY <2>1 DEF IInv, SessionsOK, NoQueueLeaks
    <3> HIDE DEF s, open
    <3>4. /\ SessionOK(t) /\ SameOutput(sessions[s], t)
          /\ t.clients = Drop(sessions[s].clients, {c})
      BY <3>3, CloseDrops
    <3> HIDE DEF t
    <3>5. /\ DOMAIN t.clients = Attached(s) \ {c}
          /\ \A d \in Attached(s) \ {c} : t.clients[d].queue = conns[d].queue
      BY <3>3, <3>4 DEF Drop
    <3>6. /\ t.alive \in BOOLEAN
          /\ t.alive => t.distributing
          /\ t.alive = sessions[s].alive /\ t.pushed = sessions[s].pushed
      BY <3>3, <3>4 DEF SameOutput
    <3>7. conns[c].session = s
      BY DEF s
    <3>8. Attachable(c, s, t, open)
      BY <3>2, <3>4, <3>5, <3>6, <3>7 DEF Attachable
    <3>9. s \in SessionIds
      BY <2>1 DEF s
    <3>10. QED BY <3>1, <3>8, <3>9, AttachStep
  <2>4. QED BY <2>2, <2>3
<1>3. ASSUME NEW c \in Conns, Open(c) \/ Resize(c) \/ Disconnect(c) PROVE IInv'
  BY <1>3, OpenStep, ResizeStep, FinishStep DEF Disconnect
<1>4. ASSUME NEW s \in SessionIds, Exit(s) PROVE IInv'
  BY <1>4, ExitStep
<1>5. ASSUME NEW s \in SessionIds, NEW bytes \in ChunkBytes, Output(s, bytes)
      PROVE  IInv'
  BY <1>5, OutputStep
<1>6. CASE UNCHANGED vars
  BY <1>6 DEF vars, IInv, ConnsOK, SessionsOK, NoQueueLeaks, QueuesApart, StreamsOK,
              Shown, Attached
<1>7. QED BY <1>1, <1>2, <1>3, <1>4, <1>5, <1>6 DEF Next

\* The sessions, queues and connections have their types, and a session has
\* exited exactly when its process is dead.
THEOREM SpecTypeOK == Spec => []TypeOK
BY InitIInv, NextIInv, IInvTypeOK, PTL DEF Spec

\* Closing the previous handle leaks no client queue, in any run.
THEOREM SpecNoQueueLeaks == Spec => []NoQueueLeaks
<1>1. IInv => NoQueueLeaks
  BY DEF IInv
<1>2. QED BY <1>1, InitIInv, NextIInv, PTL DEF Spec

\* The output of a live process reaches the scrollback and, unbroken, every
\* connection that shows its session.
THEOREM SpecOutputReachesAll == Spec => []OutputReachesAll
BY InitIInv, NextIInv, IInvOutput, PTL DEF Spec

\* A live process has the size that just fits those that show it.
THEOREM SpecSizeFitsShown == Spec => []SizeFitsShown
BY InitIInv, NextIInv, IInvSize, PTL DEF Spec
=============================================================================
