--------------------------- MODULE WormholeServer ---------------------------
(***************************************************************************)
(* The WormholeServer durable object of one user                           *)
(* (apps/worker/src/features/sandbox/WormholeServer.ts): sessions, tabs    *)
(* and panes, the bridges between panes and terminals running in sandbox   *)
(* containers, and the browsers attached to it.                            *)
(*                                                                         *)
(* A handler runs without interruption up to an await, and its storage     *)
(* writes are atomic with what precedes them (the runtime delivers no      *)
(* event while one is outstanding).  The only await at which other         *)
(* handlers run is the one of stub.fetch in createTerminalWs, so a handler *)
(* that opens terminals is split there: the request starts an operation,   *)
(* and the answer to its fetch continues it.                               *)
(*                                                                         *)
(* A request may come from a browser that has not yet seen the latest      *)
(* broadcast, so it names any pane, tab, session or channel it may ever    *)
(* have been told of.                                                      *)
(***************************************************************************)
EXTENDS ChannelMap, TabbedLayout, FiniteSets

CONSTANTS
  Clients,       \* browser windows
  Watched,       \* bound: the windows whose picture of the state is recorded
  MaxPtys,       \* bound: panes ever created; PTY and tab ids count up to it
  MaxSessions,   \* bound: sessions ever created
  MaxSockets,    \* bound: terminal sockets open at once
  MaxOps,        \* bound: handlers awaiting a fetch at once
  Outcomes       \* what a fetch may do: "socket", "refused" or "error"

PtyIds     == 1 .. MaxPtys
TabIds     == 1 .. MaxPtys
SessionIds == 1 .. MaxSessions
SocketIds  == 1 .. MaxSockets
OpIds      == 1 .. MaxOps

ASSUME WormholeAssumption ==
  /\ {MaxPtys, MaxSessions, MaxSockets, MaxOps} \subseteq Nat
  /\ Ids = PtyIds
  /\ Watched \subseteq Clients
  /\ Outcomes \subseteq {"socket", "refused", "error"}
  /\ "refused" \in Outcomes \/ "error" \in Outcomes

VARIABLES
  \* fields of the object
  sessions,       \* sequence of session ids
  layout,         \* tabbed layout, or Null
  tabToSession,   \* tab id -> session id; insertion order is tab id order
  channels,       \* the channel map
  terminals,      \* PTY id -> terminal socket
  reconnecting,   \* PTY ids that a lazy reconnect is opening
  clients,        \* browser windows that receive broadcasts
  \* durable storage
  stored,
  \* the terminal sockets that can still deliver events
  sockets,
  \* handlers awaiting a fetch
  ops,
  \* the browsers
  phase,          \* "closed", "greeting" until connect is sent, "ready"
  sent,           \* the last state sent to each watched window, or Null
  \* ids handed out so far
  created

memory  == <<sessions, layout, tabToSession>>
bridges == <<channels, terminals, sockets>>
browser == <<phase, clients>>
vars == <<sessions, layout, tabToSession, channels, terminals, reconnecting,
          clients, stored, sockets, ops, phase, sent, created>>
-----------------------------------------------------------------------------
\* What a state or layout_update message says.
Snapshot ==
  [layout    |-> layout,
   channels  |-> channels.ptyToChannel,
   connected |-> DOMAIN channels.ptyToChannel \cap DOMAIN terminals]

Broadcast ==
  sent' = [c \in Watched |-> IF c \in clients THEN Snapshot' ELSE sent[c]]

Show(c, state) == sent' = [w \in Watched |-> IF w = c THEN state ELSE sent[w]]

Persist ==
  stored' = IF layout' = Null THEN stored
            ELSE [sessions |-> sessions', layout |-> layout',
                  tabToSession |-> tabToSession']

\* The fields after the constructor and hydrate.
Hydrate ==
  /\ sessions' = IF stored = Null THEN << >> ELSE stored.sessions
  /\ layout' = IF stored = Null THEN Null ELSE stored.layout
  /\ tabToSession' = IF stored = Null THEN EmptyMap ELSE stored.tabToSession
  /\ channels' = NewChannelMap
  /\ terminals' = EmptyMap
  /\ reconnecting' = {}
  /\ clients' = {}

Init ==
  /\ sessions = << >> /\ layout = Null /\ tabToSession = EmptyMap
  /\ channels = NewChannelMap /\ terminals = EmptyMap /\ reconnecting = {}
  /\ clients = {} /\ stored = Null /\ sockets = EmptyMap /\ ops = EmptyMap
  /\ phase = [c \in Clients |-> "closed"]
  /\ sent = [c \in Watched |-> Null]
  /\ created = [pty |-> 0, session |-> 0, tab |-> 0]

SomeoneReady == \E c \in Clients : phase[c] = "ready"

\* createTerminalWs up to its await, on behalf of a handler.
Start(op) ==
  LET free == OpIds \ DOMAIN ops
  IN  free # {} /\ ops' = Put(ops, Min(free), op)

CreatesPty(op) == op.kind \in {"session_create", "tab_create", "pane_split"}

\* A fresh PTY id.
FreshPty == created.pty + 1

\* The panes a request may name: those that some layout has shown.
KnownPanes ==
  1 .. created.pty \ {ops[o].pty : o \in {x \in DOMAIN ops : CreatesPty(ops[x])}}

\* Variant: the map entries of the closed terminals are forgotten.
CloseTerminalsKeep(ps) ==
  /\ channels' = ReleaseAll(channels, ps)
  /\ sockets' = [k \in DOMAIN sockets |->
                   IF \E p \in ToSet(ps) \cap DOMAIN terminals : terminals[p] = k
                   THEN [sockets[k] EXCEPT !.state = "closing"]
                   ELSE sockets[k]]
  /\ UNCHANGED terminals

\* Release the channels of these panes and close their terminals.
CloseTerminals(ps) ==
  LET closing == {terminals[p] : p \in ToSet(ps) \cap DOMAIN terminals}
  IN  /\ channels' = ReleaseAll(channels, ps)
      /\ terminals' = Drop(terminals, ToSet(ps))
      /\ sockets' = [k \in DOMAIN sockets |->
                       IF k \in closing
                       THEN [sockets[k] EXCEPT !.state = "closing"]
                       ELSE sockets[k]]
-----------------------------------------------------------------------------
\* fetch: a browser window opens its socket, and is sent the state if any.
Join(c) ==
  /\ phase[c] = "closed"
  /\ phase' = [phase EXCEPT ![c] = "greeting"]
  /\ clients' = clients \cup {c}
  /\ Show(c, IF layout = Null THEN Null ELSE Snapshot)
  /\ UNCHANGED <<memory, bridges, reconnecting, stored, ops, created>>

\* webSocketClose
Leave(c) ==
  /\ phase[c] # "closed"
  /\ phase' = [phase EXCEPT ![c] = "closed"]
  /\ clients' = clients \ {c}
  /\ Show(c, Null)
  /\ UNCHANGED <<memory, bridges, reconnecting, ops, created>>
  /\ IF clients' = {} THEN Persist ELSE UNCHANGED stored

\* Input for a pane without a terminal starts a lazy reconnect; other input
\* changes nothing here.
HandleInput(ch) ==
  /\ SomeoneReady
  /\ ch \in DOMAIN channels.channelToPty
  /\ LET p == channels.channelToPty[ch]
     IN  /\ p \notin DOMAIN terminals
         /\ p \notin reconnecting
         /\ \E t \in DOMAIN tabToSession :
              /\ p \in ToSet(KeysOf(layout, t))
              /\ tabToSession[t] \in ToSet(sessions)
         /\ reconnecting' = reconnecting \cup {p}
         /\ Start([kind |-> "reconnect", pty |-> p])
  /\ UNCHANGED <<memory, bridges, browser, stored, sent, created>>
-----------------------------------------------------------------------------
(***************************************************************************)
(* The loop of reconnectAllTerminals.  It iterates over the live sessions  *)
(* array by index and over the live tabToSession in insertion order, and   *)
(* over the pane keys that a tab had when it was reached.  A cursor is the *)
(* place of the loop: a session at an index, a tab, and the keys left.     *)
(***************************************************************************)
LoopStart == [session |-> 0, index |-> 0, tab |-> 0, rest |-> << >>]

\* The places after the cursor at tabs with a pane not in live.
Ahead(cur, live) ==
  {place \in (DOMAIN sessions \cup {cur.index}) \X DOMAIN tabToSession :
     LET i == place[1]
         t == place[2]
     IN  /\ \/ i = cur.index /\ t > cur.tab /\ tabToSession[t] = cur.session
            \/ i > cur.index /\ tabToSession[t] = sessions[i]
         /\ ~ ToSet(KeysOf(layout, t)) \subseteq live}

\* Variant: a pane whose fetch was refused is tried again.
AtFirstDeadRetry(cur, live) ==
  LET j == SelectInSeq(cur.rest, LAMBDA p : p \notin live)
  IN  [kind |-> "connect", pty |-> cur.rest[j], session |-> cur.session,
       index |-> cur.index, tab |-> cur.tab,
       rest |-> SubSeq(cur.rest, j, Len(cur.rest))]

\* The cursor at the first of its keys that is not in live.
AtFirstDead(cur, live) ==
  LET j == SelectInSeq(cur.rest, LAMBDA p : p \notin live)
  IN  [kind |-> "connect", pty |-> cur.rest[j], session |-> cur.session,
       index |-> cur.index, tab |-> cur.tab,
       rest |-> SubSeq(cur.rest, j + 1, Len(cur.rest))]

\* The cursor at the next pane to reconnect, or Null at the end of the loop.
NextDead(cur, live) ==
  IF ~ ToSet(cur.rest) \subseteq live THEN AtFirstDead(cur, live)
  ELSE IF Ahead(cur, live) = {} THEN Null
  ELSE LET place == CHOOSE x \in Ahead(cur, live) :
                      \A y \in Ahead(cur, live) :
                        x[1] < y[1] \/ (x[1] = y[1] /\ x[2] <= y[2])
       IN  AtFirstDead([session |-> tabToSession[place[2]], index |-> place[1],
                        tab |-> place[2], rest |-> KeysOf(layout, place[2])],
                       live)

\* handleConnect: reconnect all terminals, then broadcast the state.
Connect(c) ==
  /\ phase[c] = "greeting"
  /\ phase' = [phase EXCEPT ![c] = "ready"]
  /\ UNCHANGED <<memory, bridges, clients, reconnecting, stored, created>>
  /\ LET cur == NextDead(LoopStart, DOMAIN terminals)
     IN  IF layout = Null \/ cur = Null
         THEN UNCHANGED ops /\ Broadcast
         ELSE Start(cur) /\ UNCHANGED sent
-----------------------------------------------------------------------------
\* handleSessionCreate, up to its fetch: the session exists already.
SessionCreate ==
  /\ SomeoneReady
  /\ created.session < MaxSessions /\ created.pty < MaxPtys
  /\ created' = [created EXCEPT !.session = @ + 1, !.pty = @ + 1]
  /\ sessions' = Append(sessions, created'.session)
  /\ Start([kind |-> "session_create", pty |-> FreshPty,
            session |-> created'.session])
  /\ UNCHANGED <<layout, tabToSession, bridges, browser, reconnecting,
                 stored, sent>>

\* handleTabCreate, up to its fetch
TabCreate(s) ==
  /\ SomeoneReady
  /\ layout # Null /\ s \in ToSet(sessions)
  /\ created.pty < MaxPtys
  /\ created' = [created EXCEPT !.pty = @ + 1]
  /\ Start([kind |-> "tab_create", pty |-> FreshPty, session |-> s])
  /\ UNCHANGED <<memory, bridges, browser, reconnecting, stored, sent>>

\* handlePaneSplit, up to its fetch
PaneSplit(p) ==
  /\ SomeoneReady
  /\ layout # Null
  /\ ActiveTab(layout).id \in DOMAIN tabToSession
  /\ tabToSession[ActiveTab(layout).id] \in ToSet(sessions)
  /\ created.pty < MaxPtys
  /\ created' = [created EXCEPT !.pty = @ + 1]
  /\ Start([kind |-> "pane_split", pty |-> FreshPty, pane |-> p])
  /\ UNCHANGED <<memory, bridges, browser, reconnecting, stored, sent>>

\* The iteration of handleSessionDestroy for tab t: what it leaves of the layout
\* and of the panes whose terminals it has closed so far.
CloseOwnTab(done, s, t) ==
  IF t \in DOMAIN tabToSession /\ tabToSession[t] = s /\ TabIndex(done.layout, t) # 0
  THEN [layout |-> CloseTab(done.layout, TabIndex(done.layout, t)),
        panes  |-> done.panes \o KeysOf(done.layout, t)]
  ELSE done

\* Its loop over the tabs of session s, in the order of their ids.
CloseTabsOf(s) ==
  LET after[t \in 0 .. MaxPtys] ==
        IF t = 0 THEN [layout |-> layout, panes |-> << >>]
        ELSE CloseOwnTab(after[t - 1], s, t)
  IN  after[MaxPtys]

\* handleSessionDestroy
SessionDestroy(s) ==
  /\ SomeoneReady
  /\ s \in ToSet(sessions)
  /\ IF layout = Null
     THEN UNCHANGED <<layout, tabToSession, bridges>>
     ELSE /\ CloseTerminals(CloseTabsOf(s).panes)
          /\ layout' = CloseTabsOf(s).layout
          /\ tabToSession' =
               Drop(tabToSession, {t \in DOMAIN tabToSession :
                                     tabToSession[t] = s /\ TabIndex(layout, t) # 0})
  /\ sessions' = RemoveFirst(sessions, s)
  /\ UNCHANGED <<browser, reconnecting, ops, created>>
  /\ Persist
  /\ Broadcast

\* handleTabClose
TabClose(t) ==
  /\ SomeoneReady
  /\ TabIndex(layout, t) # 0
  /\ Len(layout.tabs) > 1
  /\ CloseTerminals(KeysOf(layout, t))
  /\ layout' = CloseTab(layout, TabIndex(layout, t))
  /\ tabToSession' = Drop(tabToSession, {t})
  /\ UNCHANGED <<sessions, browser, reconnecting, ops, created>>
  /\ Persist
  /\ Broadcast

\* Variant: the switch is not persisted.
TabSwitchVolatile(t) ==
  /\ SomeoneReady
  /\ TabIndex(layout, t) # 0
  /\ layout' = SwitchTab(layout, TabIndex(layout, t))
  /\ UNCHANGED <<sessions, tabToSession, bridges, browser, reconnecting, ops,
                 stored, created>>
  /\ Broadcast

\* handleTabSwitch
TabSwitch(t) ==
  /\ SomeoneReady
  /\ TabIndex(layout, t) # 0
  /\ layout' = SwitchTab(layout, TabIndex(layout, t))
  /\ UNCHANGED <<sessions, tabToSession, bridges, browser, reconnecting, ops,
                 created>>
  /\ Persist
  /\ Broadcast

\* handlePaneClose: the pane loses its channel and its terminal even when it
\* is not in the active tab, and then nothing is persisted nor broadcast.
PaneClose(p) ==
  /\ SomeoneReady
  /\ layout # Null
  /\ CloseTerminals(<<p>>)
  /\ UNCHANGED <<sessions, tabToSession, browser, reconnecting, ops, created>>
  /\ IF p \in ToSet(ActiveTab(layout).panes)
     THEN layout' = ClosePane(layout, p) /\ Persist /\ Broadcast
     ELSE UNCHANGED <<layout, stored, sent>>

\* handleSessionRename, handleTabRename, handlePaneFocus: what they change
\* is abstracted away, but they persist and broadcast.
RenameOrFocus ==
  /\ SomeoneReady
  /\ UNCHANGED <<memory, bridges, browser, reconnecting, ops, created>>
  /\ Persist
  /\ Broadcast
-----------------------------------------------------------------------------
\* The rest of createTerminalWs, for the answer to the fetch.
Bridge(p, outcome) ==
  LET m == Assign(channels, p)
  IN  IF outcome # "socket" THEN UNCHANGED bridges
      ELSE IF ~ HasChannel(m, p)
      THEN terminals' = Drop(terminals, {p}) /\ UNCHANGED <<channels, sockets>>
      ELSE \E k \in SocketIds \ DOMAIN sockets :
             /\ k = Min(SocketIds \ DOMAIN sockets)
             /\ terminals' = Put(terminals, p, k)
             /\ channels' = m
             /\ sockets' = Put(sockets, k, [pty |-> p, state |-> "open",
                                            channel |-> m.ptyToChannel[p]])

Answers == Outcomes \ {"error"}

Finish(o) == ops' = Drop(ops, {o})

\* The rest of handleSessionCreate and of handleTabCreate
TabOpened(o, outcome) ==
  /\ ops[o].kind \in {"session_create", "tab_create"}
  /\ outcome \in Answers
  /\ Bridge(ops[o].pty, outcome)
  /\ created' = [created EXCEPT !.tab = @ + 1]
  /\ layout' = CreateTab(layout, created'.tab, ops[o].pty)
  /\ tabToSession' = Put(tabToSession, created'.tab, ops[o].session)
  /\ Finish(o)
  /\ UNCHANGED <<sessions, browser, reconnecting>>
  /\ Persist
  /\ Broadcast

\* The rest of handlePaneSplit
PaneOpened(o, outcome) ==
  /\ ops[o].kind = "pane_split"
  /\ outcome \in Answers
  /\ Bridge(ops[o].pty, outcome)
  /\ layout' = SplitPane(layout, ops[o].pane, ops[o].pty)
  /\ Finish(o)
  /\ UNCHANGED <<sessions, tabToSession, browser, reconnecting, created>>
  /\ Persist
  /\ Broadcast

\* Variant: no finally, the mark goes only when a terminal was opened.
ReconnectedStuck(o, outcome) ==
  /\ ops[o].kind = "reconnect"
  /\ Bridge(ops[o].pty, outcome)
  /\ reconnecting' = IF outcome = "socket"
                     THEN reconnecting \ {ops[o].pty} ELSE reconnecting
  /\ Finish(o)
  /\ UNCHANGED <<memory, browser, stored, created>>
  /\ Broadcast

\* The rest of reconnectTerminal, whose catch and finally also see a fetch
\* that throws.
Reconnected(o, outcome) ==
  /\ ops[o].kind = "reconnect"
  /\ Bridge(ops[o].pty, outcome)
  /\ reconnecting' = reconnecting \ {ops[o].pty}
  /\ Finish(o)
  /\ UNCHANGED <<memory, browser, stored, created>>
  /\ Broadcast

\* The rest of an iteration of reconnectAllTerminals, up to the next fetch
\* or through the end of handleConnect
ConnectNext(o, outcome) ==
  /\ ops[o].kind = "connect"
  /\ outcome \in Answers
  /\ Bridge(ops[o].pty, outcome)
  /\ UNCHANGED <<memory, browser, reconnecting, stored, created>>
  /\ LET cur == NextDead(ops[o], DOMAIN terminals')
     IN  IF cur = Null THEN Finish(o) /\ Broadcast
         ELSE ops' = [ops EXCEPT ![o] = cur] /\ UNCHANGED sent

\* A fetch that throws ends every other handler there and then.
Aborted(o, outcome) ==
  /\ ops[o].kind # "reconnect"
  /\ outcome = "error"
  /\ Finish(o)
  /\ UNCHANGED <<memory, bridges, browser, reconnecting, stored, sent, created>>

FetchSettles(o) ==
  /\ o \in DOMAIN ops
  /\ \E outcome \in Outcomes :
       \/ TabOpened(o, outcome)
       \/ PaneOpened(o, outcome)
       \/ Reconnected(o, outcome)
       \/ ConnectNext(o, outcome)
       \/ Aborted(o, outcome)

\* Variant: the listeners do not broadcast.
SocketClosedSilently(k) ==
  /\ k \in DOMAIN sockets
  /\ terminals' = Drop(terminals, {sockets[k].pty})
  /\ sockets' = Drop(sockets, {k})
  /\ UNCHANGED <<memory, channels, browser, reconnecting, stored, sent, ops,
                 created>>

\* The close and error listeners: the entry goes, whichever socket it names.
SocketClosed(k) ==
  /\ k \in DOMAIN sockets
  /\ terminals' = Drop(terminals, {sockets[k].pty})
  /\ sockets' = Drop(sockets, {k})
  /\ UNCHANGED <<memory, channels, browser, reconnecting, stored, ops, created>>
  /\ Broadcast
-----------------------------------------------------------------------------
\* The runtime evicts the idle object from memory and later constructs it
\* again.  The sockets of browsers survive; an open terminal socket, a
\* running handler or a message under way (the connect that a new window
\* sends at once) keeps the object in memory.
Hibernate ==
  /\ ops = EmptyMap /\ sockets = EmptyMap
  /\ \A c \in Clients : phase[c] # "greeting"
  /\ Hydrate
  /\ UNCHANGED <<stored, sockets, ops, phase, sent, created>>

\* The object is restarted (deploy, crash): every socket and handler is lost.
Restart ==
  /\ Hydrate
  /\ sockets' = EmptyMap
  /\ ops' = EmptyMap
  /\ phase' = [c \in Clients |-> "closed"]
  /\ sent' = [c \in Watched |-> Null]
  /\ UNCHANGED <<stored, created>>

Next ==
  \/ \E c \in Clients : Join(c) \/ Leave(c) \/ Connect(c)
  \/ \E ch \in Channels : HandleInput(ch)
  \/ SessionCreate
  \/ \E s \in SessionIds : SessionDestroy(s) \/ TabCreate(s)
  \/ \E t \in TabIds : TabClose(t) \/ TabSwitch(t)
  \/ \E p \in KnownPanes : PaneSplit(p) \/ PaneClose(p)
  \/ RenameOrFocus
  \/ \E o \in OpIds : FetchSettles(o)
  \/ \E k \in SocketIds : SocketClosed(k)
  \/ Hibernate
  \/ Restart

Spec == Init /\ [][Next]_vars

\* Every fetch settles: it is answered, refused or throws.
FairSpec == Spec /\ \A o \in OpIds : WF_vars(FetchSettles(o))
-----------------------------------------------------------------------------
CursorType ==
  [kind : {"connect"}, pty : PtyIds, session : SessionIds,
   index : 1 .. MaxSessions, tab : TabIds, rest : Seq(PtyIds)]

OpType ==
  [kind : {"session_create", "tab_create"}, pty : PtyIds, session : SessionIds]
    \cup [kind : {"pane_split"}, pty : PtyIds, pane : PtyIds]
    \cup [kind : {"reconnect"}, pty : PtyIds]
    \cup CursorType

Layouts == LayoutType(TabIds, PtyIds)

StoredType ==
  [sessions : Seq(SessionIds), layout : Layouts,
   tabToSession : PartialFcn(TabIds, SessionIds)]

SnapshotType ==
  [layout : Layouts \cup {Null}, channels : PartialFcn(PtyIds, Channels),
   connected : SUBSET PtyIds]

\* null is none of the objects it stands in for.
ASSUME NullAssumption == Null \notin Layouts \cup StoredType \cup SnapshotType

\* The state has the shape the handlers rely on: in particular the active
\* tab exists (getActiveTab is dereferenced unchecked), no tab is empty, and
\* what hydrate reads back is a layout again.
TypeOK ==
  /\ sessions \in Seq(SessionIds)
  /\ layout = Null \/ layout \in Layouts
  /\ tabToSession \in PartialFcn(TabIds, SessionIds)
  /\ channels \in ChannelMapType
  /\ terminals \in PartialFcn(PtyIds, SocketIds)
  /\ reconnecting \subseteq PtyIds
  /\ clients \subseteq Clients
  /\ stored = Null \/ stored \in StoredType
  /\ sockets \in PartialFcn(SocketIds,
        [pty : PtyIds, channel : Channels, state : {"open", "closing"}])
  /\ DOMAIN ops \subseteq OpIds /\ \A o \in DOMAIN ops : ops[o] \in OpType
  /\ phase \in [Clients -> {"closed", "greeting", "ready"}]
  /\ created \in [pty : 0 .. MaxPtys, session : 0 .. MaxSessions,
                  tab : 0 .. MaxPtys]

\* A terminal in the map is an open socket of that very PTY, and the channel
\* its output goes out on (captured when it was opened) is the one the
\* clients know the PTY by.
BridgesConsistent ==
  \A p \in DOMAIN terminals :
    LET k == terminals[p]
    IN  /\ k \in DOMAIN sockets
        /\ sockets[k].pty = p /\ sockets[k].state = "open"
        /\ HasChannel(channels, p)
        /\ sockets[k].channel = channels.ptyToChannel[p]

\* A restart at any moment loses no tab, pane or tab switch that a client
\* was shown: the stored layout is the one in memory.  Of the sessions it
\* may only lose those that have no tab yet.
DurableLayout ==
  IF layout = Null THEN stored = Null
  ELSE /\ stored # Null
       /\ stored.layout = layout
       /\ stored.tabToSession = tabToSession
       /\ ToSet(stored.sessions) \subseteq ToSet(sessions)
       /\ \A s \in ToSet(sessions) \ ToSet(stored.sessions) :
            \A t \in DOMAIN tabToSession : tabToSession[t] # s

\* A pane is marked as reconnecting exactly while one lazy reconnect of it
\* is running, so input never opens two terminals for it and is never
\* dropped for good.
LazyReconnectExclusive ==
  LET lazy == {o \in DOMAIN ops : ops[o].kind = "reconnect"}
  IN  /\ reconnecting = {ops[o].pty : o \in lazy}
      /\ \A o1, o2 \in lazy : ops[o1].pty = ops[o2].pty => o1 = o2

\* Closing tabs never moves the user to another tab unless the active tab
\* itself was closed.
ActiveTabSurvives ==
  [][ \A s \in SessionIds, t \in TabIds :
        SessionDestroy(s) \/ TabClose(t) =>
          \/ layout = Null
          \/ TabIndex(layout', ActiveTab(layout).id) = 0
          \/ ActiveTab(layout').id = ActiveTab(layout).id ]_vars

\* A pane keeps its channel for as long as it has one, through socket
\* closes, reconnects and repeated connects: clients are never remapped.
KeepsChannels ==
  \A p \in PtyIds :
    HasChannel(channels, p) /\ HasChannel(channels', p) =>
      channels'.ptyToChannel[p] = channels.ptyToChannel[p]

ChannelStable == [][KeepsChannels]_vars

\* The last state sent to a window is the server's layout, with the channel
\* and the connection state of every pane that has a channel.
ViewCurrent(c) ==
  IF sent[c] = Null THEN layout = Null
  ELSE /\ sent[c].layout = layout
       /\ \A p \in PanesOf(layout) \cap DOMAIN channels.ptyToChannel :
            /\ p \in DOMAIN sent[c].channels
            /\ sent[c].channels[p] = channels.ptyToChannel[p]
            /\ p \in sent[c].connected <=> p \in DOMAIN terminals

ConnectRunning == \E o \in DOMAIN ops : ops[o].kind = "connect"

\* No window that receives broadcasts is left with a stale picture, except
\* while a connect is reopening terminals one by one.  (This needs fetches
\* that do not throw.)
ViewsCurrent == ConnectRunning \/ \A c \in clients \cap Watched : ViewCurrent(c)

\* A window that has sent connect is eventually shown the current layout,
\* whatever the other handlers do meanwhile, if it stays.
ConnectAnswered ==
  \A c \in Watched :
    c \in clients /\ phase[c] = "ready" ~> c \notin clients \/ ViewCurrent(c)

\* A pane does not stay marked as reconnecting, which would swallow all its
\* input from then on.
ReconnectSettles == \A p \in PtyIds : p \in reconnecting ~> p \notin reconnecting
-----------------------------------------------------------------------------
\* Protocol.ts on session_destroy: "Destroy a session and all its
\* tabs/panes."  Every tab belongs to a session that exists.
TabsHaveSessions ==
  layout # Null =>
    \A i \in DOMAIN layout.tabs :
      /\ layout.tabs[i].id \in DOMAIN tabToSession
      /\ tabToSession[layout.tabs[i].id] \in ToSet(sessions)

\* The blog on zombie panes: "Every keystroke to a dead pane becomes a
\* reconnect trigger."  The channel on which a window sends the input of a
\* pane it shows is one the server maps to that pane.
KeystrokeTriggersReconnect ==
  \A c \in Watched :
    phase[c] = "ready" /\ sent[c] # Null =>
      \A p \in PanesOf(sent[c].layout) \cap DOMAIN sent[c].channels :
        p \in PanesOf(layout) =>
          /\ HasChannel(channels, p)
          /\ channels.ptyToChannel[p] = sent[c].channels[p]

\* The blog on zombie panes: "A ptyId is connected if and only if there's a
\* live WebSocket in the map."  A pane with an open terminal socket is in
\* the map from which connected is derived.
ConnectedIffLive ==
  \A k \in DOMAIN sockets :
    sockets[k].state = "open" => sockets[k].pty \in DOMAIN terminals
=============================================================================
