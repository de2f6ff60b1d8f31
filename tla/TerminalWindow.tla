--------------------------- MODULE TerminalWindow ---------------------------
(***************************************************************************)
(* A browser window of the wormhole and the output that reaches it: the    *)
(* hook that owns the socket (apps/kamp-us/src/wormhole/use-wormhole-      *)
(* client.ts), the components that mount a terminal for each pane          *)
(* (MuxClient, PaneLayout, TerminalPane, use-channel-terminal.ts and       *)
(* use-terminal.ts of packages/ghostty-react), and, of the WormholeServer, *)
(* the channels, the output buffers and their replay.                      *)
(*                                                                         *)
(* The socket to the window delivers in order.  React renders later than   *)
(* a message is received: Render commits the last state and runs the       *)
(* effects, and the terminal of a pane that was mounted is ready later     *)
(* still, when its WebAssembly module is loaded.                           *)
(*                                                                         *)
(* Tabs are left out, as the panes of every tab stay mounted: a pane that  *)
(* is closed may be in the active tab, the last one of it, or elsewhere.   *)
(* So is the order of the panes; a split may put the pane that it splits   *)
(* into a new group, and React then mounts it anew.                        *)
(* Terminals that die and are reopened, and the object's restarts, are the *)
(* subject of the WormholeServer module.                                   *)
(***************************************************************************)
EXTENDS ChannelMap, SequencesExt, FiniteSets

CONSTANTS
  MaxPtys,     \* bound: panes ever created; their ids count up to it
  MaxBuffer,   \* chunks that an output buffer holds; 64 KB in the code
  MaxOutput,   \* bound: chunks ever written by the terminals
  MaxWire      \* bound: messages under way to the window

CONSTANT Null

PtyIds == 1 .. MaxPtys

\* What the window's hook keeps of a layout.
States == [channels : PartialFcn(PtyIds, Channels), place : PartialFcn(PtyIds, 0 .. MaxPtys)]

ASSUME TerminalWindowAssumption ==
  /\ Ids = PtyIds
  /\ MaxBuffer \in Nat \ {0} /\ MaxPtys \in Nat /\ MaxOutput \in Nat /\ MaxWire \in Nat
  /\ Null \notin States

VARIABLES
  \* the server
  created,        \* panes created so far
  place,          \* pane -> the group of its tab's tree that holds it
  channels,       \* the channel map
  terminals,      \* panes whose terminal socket is open
  closing,        \* panes whose socket was closed here but may yet deliver:
                  \* pane -> the channel that its listener captured
  outputBuffers,  \* pane -> its last chunks, numbered
  written,        \* pane -> chunks written
  client,         \* the window's socket: "none", "open", "greeted", "lost"
  wire,           \* messages under way to the window
  \* the window
  state,          \* the hook's state, Null while not connected
  view,           \* pane -> its TerminalPane as mounted
  terminalBuffers,\* channel -> chunks that wait for a terminal
  \* history
  owners,         \* channel -> the panes that have held it
  untold,         \* panes closed with no word of it, since the last layout
  seen,           \* channel -> chunks the window received
  drawn           \* channel -> chunks the window's terminals were given

kept == <<created, place, channels, terminals, closing, outputBuffers, written, owners>>
server == <<kept, untold>>
window == <<state, view, terminalBuffers, seen, drawn>>
vars == <<server, client, wire, window>>

\* The chunks that the terminals have written, by pane and number.
Outputs == UNION {{p} \X (1 .. written[p]) : p \in DOMAIN written}

Empty == [c \in Channels |-> <<>>]

Layout == [type |-> "layout", channels |-> channels.ptyToChannel, place |-> place]
Data(c, chunk) == [type |-> "data", channel |-> c, chunk |-> chunk]

Send(msgs) ==
  /\ Len(wire) + Len(msgs) <= MaxWire
  /\ wire' = wire \o msgs

Attached == client \in {"open", "greeted"}

\* broadcastLayoutUpdate and broadcastState, after a change
Broadcast ==
  /\ untold' = {}
  /\ IF Attached THEN Send(<<Layout'>>) ELSE UNCHANGED wire

Init ==
  /\ created = 0 /\ place = EmptyMap /\ channels = NewChannelMap
  /\ terminals = {} /\ closing = EmptyMap /\ outputBuffers = EmptyMap
  /\ written = EmptyMap /\ owners = [c \in Channels |-> {}] /\ untold = {}
  /\ client = "none" /\ wire = <<>>
  /\ state = Null /\ view = EmptyMap /\ terminalBuffers = Empty
  /\ seen = Empty /\ drawn = Empty
-----------------------------------------------------------------------------
(***************************************************************************)
(* The server.                                                             *)
(***************************************************************************)

\* A session, a tab or a split: the new pane's terminal is bridged when there
\* is a channel for it.  A split next to s may wrap s and the pane in a group.
CreatePane(s, wraps) ==
  LET p == created + 1
  IN /\ created < MaxPtys
     /\ s \in DOMAIN place \/ (s = p /\ ~wraps)
     /\ created' = p
     /\ place' = Put(IF wraps THEN [place EXCEPT ![s] = @ + 1] ELSE place, p, 0)
     /\ channels' = Assign(channels, p)
     /\ written' = Put(written, p, 0)
     /\ IF HasChannel(channels', p)
          THEN /\ terminals' = terminals \cup {p}
               /\ owners' = [owners EXCEPT ![channels'.ptyToChannel[p]] = @ \cup {p}]
          ELSE UNCHANGED <<terminals, owners>>
     /\ UNCHANGED <<closing, outputBuffers, client, window>>
     /\ Broadcast

\* Variant: the windows are not told.
ClosePaneUnannounced(p) ==
  /\ p \in DOMAIN place /\ DOMAIN place # {p}
  /\ place' = Drop(place, {p})
  /\ terminals' = terminals \ {p}
  /\ HasChannel(channels, p)
  /\ closing' = Put(closing, p, channels.ptyToChannel[p])
  /\ channels' = Release(channels, channels.ptyToChannel[p])
  /\ UNCHANGED <<created, outputBuffers, written, owners, untold, client, window, wire>>

\* handlePaneClose: the channel and the terminal go first.  Then the pane leaves
\* its tab; or stays, when it is the last of the tab; or stays and nobody is
\* told, when it is in another tab than the active one.
ClosePane(p) ==
  /\ p \in DOMAIN place
  /\ terminals' = terminals \ {p}
  /\ IF HasChannel(channels, p)
       THEN /\ closing' = Put(closing, p, channels.ptyToChannel[p])
            /\ channels' = Release(channels, channels.ptyToChannel[p])
       ELSE UNCHANGED <<closing, channels>>
  /\ UNCHANGED <<created, outputBuffers, written, owners, client, window>>
  /\ \/ DOMAIN place # {p} /\ place' = Drop(place, {p}) /\ Broadcast
     \/ UNCHANGED place /\ Broadcast
     \/ DOMAIN place # {p} /\ untold' = untold \cup ({p} \cap DOMAIN channels.ptyToChannel)
        /\ UNCHANGED <<place, wire>>

\* Variant: the buffer keeps its oldest chunks.
AppendToBufferFull(chunks, n) == IF Len(chunks) < MaxBuffer THEN Append(chunks, n) ELSE chunks

AppendToBuffer(chunks, n) ==
  LET all == Append(chunks, n)
  IN SubSeq(all, IF Len(all) > MaxBuffer THEN 2 ELSE 1, Len(all))

\* A terminal's output: kept, and sent on the channel its listener captured.
Output(p) ==
  LET n == written[p] + 1
      c == IF p \in terminals THEN channels.ptyToChannel[p] ELSE closing[p]
      old == IF p \in DOMAIN outputBuffers THEN outputBuffers[p] ELSE <<>>
  IN /\ p \in terminals \/ p \in DOMAIN closing
     /\ Cardinality(Outputs) < MaxOutput
     /\ written' = [written EXCEPT ![p] = n]
     /\ outputBuffers' = Put(outputBuffers, p, AppendToBuffer(old, n))
     /\ IF Attached THEN Send(<<Data(c, <<p, n>>)>>) ELSE UNCHANGED wire
     /\ UNCHANGED <<created, place, channels, terminals, closing, owners, untold, client,
                    window>>

\* The closing handshake of a terminal's socket is over.
SocketClosed(p) ==
  /\ p \in DOMAIN closing
  /\ closing' = Drop(closing, {p})
  /\ UNCHANGED <<created, place, channels, terminals, outputBuffers, written, owners,
                 untold, client, wire, window>>

\* fetch: the window's socket is accepted and told the layout.
Join ==
  /\ client = "none"
  /\ client' = "open"
  /\ IF created = 0 THEN UNCHANGED wire ELSE Send(<<Layout>>)
  /\ state' = [channels |-> EmptyMap, place |-> EmptyMap]
  /\ untold' = {}
  /\ UNCHANGED <<kept, view, terminalBuffers, seen, drawn>>

\* replayBuffers, for all panes in the order of their ids
ReplayBuffers ==
  FlattenSeq([i \in PtyIds |->
    IF i \in DOMAIN outputBuffers /\ HasChannel(channels, i)
      THEN [k \in DOMAIN outputBuffers[i] |->
              Data(channels.ptyToChannel[i], <<i, outputBuffers[i][k]>>)]
      ELSE <<>>])

\* Variant: nothing is replayed.
HandleConnectSilent ==
  /\ client = "open"
  /\ client' = "greeted"
  /\ Send(<<Layout>>)
  /\ untold' = {}
  /\ UNCHANGED <<kept, window>>

\* The window's connect: the buffers are replayed, then the state is broadcast.
HandleConnect ==
  /\ client = "open"
  /\ client' = "greeted"
  /\ Send(Append(ReplayBuffers, Layout))
  /\ untold' = {}
  /\ UNCHANGED <<kept, window>>
-----------------------------------------------------------------------------
(***************************************************************************)
(* The window.                                                             *)
(***************************************************************************)

\* The panes whose terminal has subscribed to a channel's data.
Listening(c) == {p \in DOMAIN view : view[p].phase = "ready" /\ view[p].channel = c}

\* handleServerMessage
ReceiveLayout ==
  /\ wire # <<>> /\ Head(wire).type = "layout"
  /\ state' = [channels |-> Head(wire).channels, place |-> Head(wire).place]
  /\ wire' = Tail(wire)
  /\ UNCHANGED <<server, client, view, terminalBuffers, seen, drawn>>

\* onmessage with terminal data: to the terminals that listen, or else kept.
ReceiveData ==
  LET c == Head(wire).channel
      x == Head(wire).chunk
  IN /\ wire # <<>> /\ Head(wire).type = "data"
     /\ seen' = [seen EXCEPT ![c] = Append(@, x)]
     /\ IF Listening(c) # {}
          THEN /\ view' = [p \in DOMAIN view |->
                             IF p \in Listening(c)
                               THEN [view[p] EXCEPT !.shown = Append(@, x)] ELSE view[p]]
               /\ drawn' = [drawn EXCEPT ![c] = Append(@, x)]
               /\ UNCHANGED terminalBuffers
          ELSE /\ terminalBuffers' = [terminalBuffers EXCEPT ![c] = Append(@, x)]
               /\ UNCHANGED <<view, drawn>>
     /\ wire' = Tail(wire)
     /\ UNCHANGED <<server, client, state>>

\* PaneLayout: a terminal for each pane with a channel, anew when the pane has
\* moved to another group; the terminals that went stop listening.
Mounted(st) ==
  [p \in DOMAIN st.place \cap DOMAIN st.channels |->
     IF p \in DOMAIN view /\ view[p].place = st.place[p] THEN view[p]
     ELSE [channel |-> st.channels[p], place |-> st.place[p], phase |-> "loading",
           shown |-> <<>>]]

Render ==
  /\ state # Null
  /\ view # Mounted(state)
  /\ view' = Mounted(state)
  /\ UNCHANGED <<server, client, wire, state, terminalBuffers, seen, drawn>>

\* Variant: the chunks that waited are not removed.
TerminalReadyKeep(p) ==
  LET c == view[p].channel
  IN /\ view[p].phase = "loading"
     /\ view' = [view EXCEPT ![p].phase = "ready", ![p].shown = terminalBuffers[c]]
     /\ drawn' = [drawn EXCEPT ![c] = @ \o terminalBuffers[c]]
     /\ UNCHANGED <<server, client, wire, state, terminalBuffers, seen>>

\* init() is done: the terminal is opened, and onTerminalData gives it what
\* has waited for it.
TerminalReady(p) ==
  LET c == view[p].channel
  IN /\ view[p].phase = "loading"
     /\ view' = [view EXCEPT ![p].phase = "ready", ![p].shown = terminalBuffers[c]]
     /\ drawn' = [drawn EXCEPT ![c] = @ \o terminalBuffers[c]]
     /\ terminalBuffers' = [terminalBuffers EXCEPT ![c] = <<>>]
     /\ UNCHANGED <<server, client, wire, state, seen>>

\* init() fails: the pane stays without a terminal.
TerminalFails(p) ==
  /\ view[p].phase = "loading"
  /\ view' = [view EXCEPT ![p].phase = "failed"]
  /\ UNCHANGED <<server, client, wire, state, terminalBuffers, seen, drawn>>

\* The socket closes: "Connecting..." takes the place of the panes, and the
\* hook does not open another.  What it still holds is never looked at again.
SocketLost ==
  /\ Attached
  /\ client' = "lost" /\ wire' = <<>>
  /\ state' = Null /\ view' = EmptyMap /\ terminalBuffers' = Empty
  /\ seen' = Empty /\ drawn' = Empty /\ untold' = {}
  /\ UNCHANGED kept

\* The user reloads the page.
Reload ==
  /\ client = "lost"
  /\ client' = "none"
  /\ UNCHANGED <<server, wire, window>>

Next ==
  \/ \E s \in PtyIds, wraps \in BOOLEAN : CreatePane(s, wraps)
  \/ \E p \in PtyIds : ClosePane(p) \/ Output(p) \/ SocketClosed(p)
  \/ Join \/ HandleConnect
  \/ ReceiveLayout \/ ReceiveData \/ Render
  \/ \E p \in DOMAIN view : TerminalReady(p) \/ TerminalFails(p)
  \/ SocketLost \/ Reload

Spec == Init /\ [][Next]_vars
-----------------------------------------------------------------------------
Chunks == PtyIds \X (1 .. MaxOutput)

\* The state is well formed; a bridged terminal has a channel, and so has a
\* terminal that is mounted.
TypeOK ==
  /\ created \in 0 .. MaxPtys /\ DOMAIN place \subseteq 1 .. created
  /\ terminals \subseteq DOMAIN channels.ptyToChannel
  /\ DOMAIN channels.ptyToChannel \subseteq DOMAIN place
  /\ untold \subseteq DOMAIN place
  /\ DOMAIN written = 1 .. created /\ Cardinality(Outputs) <= MaxOutput
  /\ client \in {"none", "open", "greeted", "lost"} /\ Len(wire) <= MaxWire
  /\ Attached <=> state # Null
  /\ DOMAIN view \subseteq IF state = Null THEN {} ELSE 1 .. created
  /\ \A p \in DOMAIN view : /\ view[p].channel \in Channels
                            /\ view[p].phase \in {"loading", "ready", "failed"}
                            /\ view[p].shown \in Seq(Chunks)

\* A window loses nothing it received: on each channel, what its terminals were
\* given followed by what waits is what it received, in order, whatever was
\* mounted, moved and unmounted meanwhile.
StreamKept == \A c \in Channels : drawn[c] \o terminalBuffers[c] = seen[c]

\* The window's state is well formed and none of the output it received is
\* lost between the socket and its terminals (use-wormhole-client.ts).
ClientSound == TypeOK /\ StreamKept

Unshared(c) == Cardinality(owners[c]) = 1

\* A terminal shows the output of its own pane and leaves out none of it: the
\* next chunk is the next one written or, in a replay, an earlier one.  This
\* is so while no other pane has had the channel.
OwnOutputWithoutGaps ==
  \A p \in DOMAIN view : Unshared(view[p].channel) =>
    LET shown == view[p].shown
    IN /\ \A i \in DOMAIN shown : shown[i][1] = p
       /\ \A i \in 1 .. Len(shown) - 1 : shown[i + 1][2] <= shown[i][2] + 1

\* A window that was greeted, and to which nothing is under way, has been sent
\* all the output that the server keeps for the panes that are open.
HistoryReplayed ==
  client = "greeted" /\ wire = <<>> =>
    \A p \in DOMAIN outputBuffers \cap DOMAIN channels.ptyToChannel :
      \A i \in DOMAIN outputBuffers[p] :
        <<p, outputBuffers[p][i]>> \in ToSet(seen[channels.ptyToChannel[p]])

\* Once a window has rendered what it was sent last, its terminals are those of
\* the panes with a channel, each on the channel of its pane.  Left aside are
\* panes that were closed in another tab than the active one, of which no window
\* is told until the next layout (WormholeServer.ts:351): their terminals stay
\* on a channel that may be another pane's by then.
TerminalsMatch ==
  client = "greeted" /\ wire = <<>> /\ view = Mounted(state) =>
    [p \in DOMAIN view \ untold |-> view[p].channel] = channels.ptyToChannel
=============================================================================
