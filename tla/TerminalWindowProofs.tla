------------------------ MODULE TerminalWindowProofs ------------------------
(***************************************************************************)
(* Proofs about a browser window and the output that reaches it, for any   *)
(* number of panes, channels, chunks and messages.                         *)
(*                                                                         *)
(* The invariant follows a chunk from the terminal to the screen.  What    *)
(* the server keeps of a pane is the end of what its terminal wrote        *)
(* (BufferOK); a pane owns one channel at most, for ever (OwnersOK), and   *)
(* whatever is on that channel is its own (MessageOK); what the window     *)
(* received, followed by what is under way, leaves nothing out (Flow) and  *)
(* has all that the server keeps (Delivered); what a terminal shows is the *)
(* end of what was received (MountOK).  The last layout under way, or else *)
(* the window's state, is the server's (Latest).                           *)
(***************************************************************************)
EXTENDS TerminalWindow, ServerLemmas, FiniteSetTheorems, TLAPS

\* A channel given to a pane in f has the pane among its owners.
Given(f, own) == \A p \in DOMAIN f : f[p] \in Channels /\ p \in own[f[p]]

\* A buffer keeps the last chunks of n.
BufferOK(b, n) ==
  /\ b \in Seq(1 .. MaxOutput) /\ b # << >>
  /\ \A i \in 1 .. Len(b) : b[i] = n - Len(b) + i

PanesOK ==
  /\ created \in 0 .. MaxPtys
  /\ place \in PartialFcn(PtyIds, 0 .. MaxPtys) /\ DOMAIN place \subseteq 1 .. created
  /\ \A p \in DOMAIN place : place[p] < created
  /\ Sound(channels)
  /\ terminals = DOMAIN channels.ptyToChannel /\ terminals \subseteq DOMAIN place
  /\ untold \subseteq DOMAIN place
  /\ closing \in PartialFcn(PtyIds, Channels)
  /\ DOMAIN closing \subseteq 1 .. created
  /\ Given(channels.ptyToChannel, owners) /\ Given(closing, owners)

\* A pane holds one channel at most, ever.
OwnersOK ==
  /\ owners \in [Channels -> SUBSET (1 .. created)]
  /\ \A c, d \in Channels : \A p \in owners[c] \cap owners[d] : c = d

OutputOK ==
  /\ written \in [1 .. created -> 0 .. MaxOutput]
  /\ Cardinality(Outputs) <= MaxOutput
  /\ DOMAIN outputBuffers \subseteq 1 .. created
  /\ \A p \in DOMAIN outputBuffers : BufferOK(outputBuffers[p], written[p])
  /\ \A p \in 1 .. created : p \notin DOMAIN outputBuffers => written[p] = 0

LayoutMessages ==
  [type : {"layout"}, channels : PartialFcn(PtyIds, Channels),
   place : PartialFcn(PtyIds, 0 .. MaxPtys)]

DataMessages == [type : {"data"}, channel : Channels, chunk : Chunks]

Messages == LayoutMessages \cup DataMessages

LayoutOK(l, n, own) ==
  /\ DOMAIN l.channels \cup DOMAIN l.place \subseteq 1 .. n
  /\ Given(l.channels, own)

MessageOK(m, n, own) ==
  /\ m.type = "layout" => LayoutOK(m, n, own)
  /\ m.type = "data" => m.chunk[1] \in own[m.channel]

WireOK ==
  /\ wire \in Seq(Messages) /\ Len(wire) <= MaxWire
  /\ \A i \in DOMAIN wire : MessageOK(wire[i], created, owners)

View == [channel : Channels, place : 0 .. MaxPtys, phase : {"loading", "ready", "failed"},
         shown : Seq(Chunks)]

\* t is the end of s.
Suffix(t, s) ==
  /\ Len(t) <= Len(s)
  /\ \A i \in 1 .. Len(t) : t[i] = s[Len(s) - Len(t) + i]

\* A terminal that is ready shows the end of what its channel received, and
\* nothing waits for it.
MountOK(v, p, own, waits, got) ==
  /\ v \in View
  /\ p \in own[v.channel]
  /\ IF v.phase = "ready"
       THEN waits[v.channel] = << >> /\ Suffix(v.shown, got[v.channel])
       ELSE v.shown = << >>

ClientOK ==
  /\ client \in {"none", "open", "greeted", "lost"}
  /\ IF Attached
       THEN state \in States /\ LayoutOK(state, created, owners)
       ELSE /\ state = Null /\ wire = << >> /\ view = EmptyMap
            /\ terminalBuffers = Empty /\ seen = Empty /\ drawn = Empty

StreamsOK ==
  /\ terminalBuffers \in [Channels -> Seq(Chunks)]
  /\ seen \in [Channels -> Seq(Chunks)]
  /\ drawn \in [Channels -> Seq(Chunks)]
  /\ StreamKept
  /\ \A c \in Channels : \A i \in DOMAIN seen[c] : seen[c][i][1] \in owners[c]

ViewOK ==
  /\ DOMAIN view \subseteq 1 .. created
  /\ \A p \in DOMAIN view : MountOK(view[p], p, owners, terminalBuffers, seen)

\* A layout tells the places, and the map but for the panes un.
Tells(l, m, pl, un) ==
  /\ l.place = pl
  /\ DOMAIN m.ptyToChannel = DOMAIN l.channels \ un
  /\ \A p \in DOMAIN m.ptyToChannel : m.ptyToChannel[p] = l.channels[p]

IsLayout(w, i) == w[i].type = "layout"

\* The last layout on the wire w, or else the one st before it, tells the map m
\* and the places pl.
Latest(st, w, m, pl, un) ==
  /\ (\A j \in 1 .. Len(w) : ~ IsLayout(w, j)) => Tells(st, m, pl, un)
  /\ \A i \in 1 .. Len(w) :
       /\ IsLayout(w, i)
       /\ \A j \in i + 1 .. Len(w) : ~ IsLayout(w, j)
       => Tells(w[i], m, pl, un)

LayoutTold == Attached => Latest(state, wire, channels, place, untold)

\* x was received on c, or is under way.
Reached(s, w, c, x) ==
  \/ \E j \in 1 .. Len(s) : s[j] = x
  \/ \E j \in 1 .. Len(w) : w[j] = Data(c, x)

\* What the server keeps of the open panes has reached a window that was
\* greeted, or is under way to it.
Delivered ==
  client = "greeted" =>
    \A p \in DOMAIN outputBuffers \cap DOMAIN channels.ptyToChannel :
      \A i \in 1 .. Len(outputBuffers[p]) :
        Reached(seen[channels.ptyToChannel[p]], wire, channels.ptyToChannel[p],
                <<p, outputBuffers[p][i]>>)

On(w, c, i) == w[i].type = "data" /\ w[i].channel = c

\* n is the number of the last chunk on c before the j-th message of w, after
\* the chunks s.
Before(s, w, c, j, n) ==
  \/ \E i \in 1 .. j - 1 : /\ On(w, c, i) /\ n = w[i].chunk[2]
                           /\ \A k \in i + 1 .. j - 1 : ~ On(w, c, k)
  \/ /\ s # << >> /\ n = s[Len(s)][2]
     /\ \A k \in 1 .. j - 1 : ~ On(w, c, k)

NoGaps(s) == \A i \in 1 .. Len(s) - 1 : s[i + 1][2] <= s[i][2] + 1

\* No chunk on c is left out, and the last of them is the n-th.
Flow(s, w, c, last) ==
  /\ NoGaps(s)
  /\ \A j \in 1 .. Len(w) : On(w, c, j) =>
       \A n \in 1 .. MaxOutput : Before(s, w, c, j, n) => w[j].chunk[2] <= n + 1
  /\ \A n \in 1 .. MaxOutput : Before(s, w, c, Len(w) + 1, n) => n = last

StreamOK ==
  \A c \in Channels : \A p \in 1 .. created :
    owners[c] = {p} => Flow(seen[c], wire, c, written[p])

IInv ==
  /\ PanesOK /\ OwnersOK /\ OutputOK /\ WireOK /\ ClientOK /\ StreamsOK /\ ViewOK
  /\ LayoutTold /\ Delivered /\ StreamOK
-----------------------------------------------------------------------------
(* The messages under way *)

\* What is under way is a layout or a chunk of a channel.
LEMMA MessageFields ==
  ASSUME NEW m \in Messages
  PROVE  /\ m.type = "layout" => m \in LayoutMessages
         /\ m.type = "data" => m \in DataMessages
         /\ m.type \in {"layout", "data"}
BY DEF Messages, LayoutMessages, DataMessages

\* The wire as a function.
LEMMA WireIs ==
  ASSUME NEW w \in Seq(Messages)
  PROVE  /\ Len(w) \in Nat /\ DOMAIN w = 1 .. Len(w)
         /\ \A i \in 1 .. Len(w) : w[i] \in Messages
BY ElementOfSeq, LenProperties

\* The wire with more messages behind it.
LEMMA WireConcat ==
  ASSUME NEW w \in Seq(Messages), NEW t \in Seq(Messages)
  PROVE  /\ w \o t \in Seq(Messages) /\ Len(w \o t) = Len(w) + Len(t)
         /\ \A i \in 1 .. Len(w) : (w \o t)[i] = w[i]
         /\ \A i \in 1 .. Len(t) : (w \o t)[Len(w) + i] = t[i]
<1>1. Len(w) \in Nat /\ Len(t) \in Nat
  BY LenProperties
<1>2. ASSUME NEW i \in 1 .. Len(t) PROVE (w \o t)[Len(w) + i] = t[i]
  <2>1. Len(w) + i \in 1 .. Len(w) + Len(t) /\ ~ (Len(w) + i <= Len(w)) /\ (Len(w) + i) - Len(w) = i
    BY <1>1
  <2>2. QED BY <2>1, ConcatProperties
<1>3. ASSUME NEW i \in 1 .. Len(w) PROVE (w \o t)[i] = w[i]
  <2>1. i \in 1 .. Len(w) + Len(t) /\ i <= Len(w)
    BY <1>1
  <2>2. QED BY <2>1, ConcatProperties
<1>4. QED BY <1>2, <1>3, ConcatProperties

\* What every old and every new message satisfies holds of all.
LEMMA WireOKConcat ==
  ASSUME NEW w \in Seq(Messages), NEW t \in Seq(Messages), NEW n, NEW own,
         \A i \in 1 .. Len(w) : MessageOK(w[i], n, own),
         \A i \in 1 .. Len(t) : MessageOK(t[i], n, own)
  PROVE  \A i \in DOMAIN (w \o t) : MessageOK((w \o t)[i], n, own)
<1> DEFINE u == w \o t
<1>1. /\ u \in Seq(Messages) /\ Len(u) = Len(w) + Len(t)
      /\ \A i \in 1 .. Len(w) : u[i] = w[i]
      /\ \A i \in 1 .. Len(t) : u[Len(w) + i] = t[i]
  BY WireConcat
<1>2. Len(w) \in Nat /\ Len(t) \in Nat
  BY LenProperties
<1> HIDE DEF u
<1>3. ASSUME NEW i \in DOMAIN u PROVE MessageOK(u[i], n, own)
  <2>1. i \in 1 .. Len(w) + Len(t)
    BY <1>1, WireIs
  <2>2. CASE i <= Len(w)
    <3>1. i \in 1 .. Len(w)
      BY <1>2, <2>1, <2>2
    <3>2. QED BY <1>1, <3>1
  <2>3. CASE ~ (i <= Len(w))
    <3>1. i - Len(w) \in 1 .. Len(t) /\ Len(w) + (i - Len(w)) = i
      BY <1>2, <2>1, <2>3
    <3>2. u[i] = t[i - Len(w)]
      BY <1>1, <3>1
    <3>3. QED BY <3>1, <3>2
  <2>4. QED BY <2>2, <2>3
<1>4. QED BY <1>3 DEF u
-----------------------------------------------------------------------------
(* The last layout *)

\* More messages on the wire: no layout among them, or the last of them the
\* new layout.
LEMMA LatestConcat ==
  ASSUME NEW w \in Seq(Messages), NEW t \in Seq(Messages), NEW st, NEW m, NEW pl, NEW un,
         \/ /\ Latest(st, w, m, pl, un)
            /\ \A i \in 1 .. Len(t) : ~ IsLayout(t, i)
         \/ t # << >> /\ IsLayout(t, Len(t)) /\ Tells(t[Len(t)], m, pl, un)
  PROVE  Latest(st, w \o t, m, pl, un)
<1> DEFINE u == w \o t
<1>1. /\ u \in Seq(Messages) /\ Len(u) = Len(w) + Len(t)
      /\ \A i \in 1 .. Len(w) : u[i] = w[i]
      /\ \A i \in 1 .. Len(t) : u[Len(w) + i] = t[i]
  BY WireConcat
<1>2. Len(w) \in Nat /\ Len(t) \in Nat /\ (t # << >> => Len(t) > 0)
  BY LenProperties, EmptySeq
<1> HIDE DEF u
<1>3. /\ \A i \in 1 .. Len(w) : IsLayout(u, i) = IsLayout(w, i)
      /\ \A i \in 1 .. Len(t) : IsLayout(u, Len(w) + i) = IsLayout(t, i)
  BY <1>1 DEF IsLayout
<1>4. CASE t # << >> /\ IsLayout(t, Len(t)) /\ Tells(t[Len(t)], m, pl, un)
  <2> DEFINE N == Len(w) + Len(t)
  <2>1. /\ N \in 1 .. Len(u) /\ N = Len(u) /\ Len(t) \in 1 .. Len(t)
    BY <1>1, <1>2, <1>4
  <2>2. IsLayout(u, N) /\ u[N] = t[Len(t)]
    BY <1>1, <1>3, <1>4, <2>1
  <2>3. ASSUME NEW i \in 1 .. Len(u), \A j \in i + 1 .. Len(u) : ~ IsLayout(u, j)
        PROVE  i = N
    <3>1. i # N => N \in i + 1 .. Len(u)
      BY <1>2, <2>1
    <3>2. QED BY <2>2, <2>3, <3>1
  <2> HIDE DEF N
  <2>4. Latest(st, u, m, pl, un)
    BY <1>4, <2>1, <2>2, <2>3 DEF Latest
  <2>5. QED BY <2>4 DEF u
<1>5. CASE Latest(st, w, m, pl, un) /\ \A i \in 1 .. Len(t) : ~ IsLayout(t, i)
  <2>1. ASSUME NEW k \in 1 .. Len(u), IsLayout(u, k) PROVE k \in 1 .. Len(w)
    <3>1. CASE k <= Len(w)
      BY <1>1, <1>2, <3>1
    <3>2. CASE ~ (k <= Len(w))
      <4>1. k - Len(w) \in 1 .. Len(t) /\ Len(w) + (k - Len(w)) = k
        BY <1>1, <1>2, <3>2
      <4>2. IsLayout(t, k - Len(w))
        BY <1>3, <2>1, <4>1
      <4>3. QED BY <1>5, <4>1, <4>2
    <3>3. QED BY <3>1, <3>2
  <2>2. \A k \in 1 .. Len(w) : k \in 1 .. Len(u)
    BY <1>1, <1>2
  <2>3. ASSUME \A j \in 1 .. Len(u) : ~ IsLayout(u, j) PROVE Tells(st, m, pl, un)
    BY <1>3, <1>5, <2>2, <2>3 DEF Latest
  <2>4. ASSUME NEW i \in 1 .. Len(u), IsLayout(u, i),
               \A j \in i + 1 .. Len(u) : ~ IsLayout(u, j)
        PROVE  Tells(u[i], m, pl, un)
    <3>1. i \in 1 .. Len(w) /\ u[i] = w[i] /\ IsLayout(w, i)
      BY <1>1, <1>3, <2>1, <2>4
    <3>2. ASSUME NEW j \in i + 1 .. Len(w) PROVE ~ IsLayout(w, j)
      <4>1. j \in 1 .. Len(w) /\ j \in i + 1 .. Len(u)
        BY <1>1, <1>2, <3>1
      <4>2. QED BY <1>3, <2>4, <4>1
    <3>3. QED BY <1>5, <3>1, <3>2 DEF Latest
  <2>5. Latest(st, u, m, pl, un)
    BY <2>3, <2>4 DEF Latest
  <2>6. QED BY <2>5 DEF u
<1>6. QED BY <1>4, <1>5

\* The first message leaves the wire; when it is a layout, it is the state.
LEMMA LatestTail ==
  ASSUME NEW w \in Seq(Messages), w # << >>, NEW st, NEW nxt, NEW m, NEW pl, NEW un,
         Latest(st, w, m, pl, un),
         IF IsLayout(w, 1) THEN nxt.channels = w[1].channels /\ nxt.place = w[1].place
                           ELSE nxt = st
  PROVE  Latest(nxt, Tail(w), m, pl, un)
<1> DEFINE t == Tail(w)
<1>1. /\ t \in Seq(Messages) /\ Len(t) = Len(w) - 1
      /\ \A i \in 1 .. Len(t) : t[i] = w[i + 1]
      /\ Len(w) \in Nat \ {0} /\ Len(t) \in Nat
  BY HeadTailProperties, EmptySeq, LenProperties
<1> HIDE DEF t
<1>2. \A i \in 1 .. Len(t) : i + 1 \in 1 .. Len(w) /\ IsLayout(t, i) = IsLayout(w, i + 1)
  BY <1>1 DEF IsLayout
<1>3. ASSUME \A j \in 1 .. Len(t) : ~ IsLayout(t, j) PROVE Tells(nxt, m, pl, un)
  <2>1. ASSUME NEW j \in 2 .. Len(w) PROVE ~ IsLayout(w, j)
    <3>1. j - 1 \in 1 .. Len(t) /\ (j - 1) + 1 = j
      BY <1>1
    <3>2. QED BY <1>2, <1>3, <3>1
  <2>2. 1 \in 1 .. Len(w) /\ \A j \in 1 + 1 .. Len(w) : j \in 2 .. Len(w)
    BY <1>1
  <2>3. CASE IsLayout(w, 1)
    <3>1. Tells(w[1], m, pl, un)
      BY <2>1, <2>2, <2>3 DEF Latest
    <3>2. QED BY <2>3, <3>1 DEF Tells
  <2>4. CASE ~ IsLayout(w, 1)
    <3>1. \A j \in 1 .. Len(w) : j = 1 \/ j \in 2 .. Len(w)
      BY <1>1
    <3>2. QED BY <2>1, <2>4, <3>1 DEF Latest
  <2>5. QED BY <2>3, <2>4
<1>4. ASSUME NEW i \in 1 .. Len(t), IsLayout(t, i),
             \A j \in i + 1 .. Len(t) : ~ IsLayout(t, j)
      PROVE  Tells(t[i], m, pl, un)
  <2>1. i + 1 \in 1 .. Len(w) /\ IsLayout(w, i + 1) /\ t[i] = w[i + 1]
    BY <1>1, <1>2, <1>4
  <2>2. ASSUME NEW j \in (i + 1) + 1 .. Len(w) PROVE ~ IsLayout(w, j)
    <3>1. j - 1 \in i + 1 .. Len(t) /\ j - 1 \in 1 .. Len(t) /\ (j - 1) + 1 = j
      BY <1>1
    <3>2. QED BY <1>2, <1>4, <3>1
  <2>3. QED BY <2>1, <2>2 DEF Latest
<1>5. Latest(nxt, t, m, pl, un)
  BY <1>3, <1>4 DEF Latest
<1>6. QED BY <1>5 DEF t
-----------------------------------------------------------------------------
(* The stream of a channel *)

\* Messages t that continue the stream of c: the first chunk is at most one
\* later than n, none is left out, and the last is the n2-th.
Continues(t, c, n, n2) ==
  /\ \A i, j \in 1 .. Len(t) :
       /\ i < j /\ On(t, c, i) /\ On(t, c, j)
       /\ \A k \in i + 1 .. j - 1 : ~ On(t, c, k)
       => t[j].chunk[2] <= t[i].chunk[2] + 1
  /\ \A j \in 1 .. Len(t) :
       /\ On(t, c, j)
       /\ \A k \in 1 .. j - 1 : ~ On(t, c, k)
       => t[j].chunk[2] <= n + 1
  /\ \A j \in 1 .. Len(t) :
       /\ On(t, c, j)
       /\ \A k \in j + 1 .. Len(t) : ~ On(t, c, k)
       => t[j].chunk[2] = n2
  /\ (\A j \in 1 .. Len(t) : ~ On(t, c, j)) => n2 = n

\* A stream with messages that continue it.
LEMMA FlowConcat ==
  ASSUME NEW s \in Seq(Chunks), NEW w \in Seq(Messages), NEW t \in Seq(Messages), NEW c,
         NEW n \in Nat, NEW n2 \in Nat, Flow(s, w, c, n), Continues(t, c, n, n2)
  PROVE  Flow(s, w \o t, c, n2)
<1> DEFINE u == w \o t
           L == Len(w)
           M == Len(t)
<1>1. /\ u \in Seq(Messages) /\ Len(u) = L + M
      /\ \A i \in 1 .. L : u[i] = w[i]
      /\ \A i \in 1 .. M : u[L + i] = t[i]
  BY WireConcat
<1>2. L \in Nat /\ M \in Nat
  BY LenProperties
<1> HIDE DEF u, L, M
<1>3. /\ \A i \in 1 .. L : On(u, c, i) = On(w, c, i)
      /\ \A i \in 1 .. M : On(u, c, L + i) = On(t, c, i)
  BY <1>1 DEF On
\* What comes before the j-th new message: an old one, or a new one.
<1>4. ASSUME NEW j \in 1 .. M + 1, NEW m \in 1 .. MaxOutput, Before(s, u, c, L + j, m)
      PROVE  \/ (\A k \in 1 .. j - 1 : ~ On(t, c, k)) /\ m = n
             \/ \E i \in 1 .. j - 1 : /\ On(t, c, i) /\ m = t[i].chunk[2]
                                      /\ \A k \in i + 1 .. j - 1 : ~ On(t, c, k)
  <2>1. ASSUME NEW i \in 1 .. (L + j) - 1, On(u, c, i), m = u[i].chunk[2],
               \A k \in i + 1 .. (L + j) - 1 : ~ On(u, c, k), ~ (i <= L)
        PROVE  \E h \in 1 .. j - 1 : /\ On(t, c, h) /\ m = t[h].chunk[2]
                                     /\ \A k \in h + 1 .. j - 1 : ~ On(t, c, k)
    <3>1. i - L \in 1 .. j - 1 /\ i - L \in 1 .. M /\ L + (i - L) = i
      BY <1>2, <2>1
    <3>2. On(t, c, i - L) /\ m = t[i - L].chunk[2]
      BY <1>1, <1>3, <2>1, <3>1
    <3>3. ASSUME NEW k \in (i - L) + 1 .. j - 1 PROVE ~ On(t, c, k)
      <4>1. L + k \in i + 1 .. (L + j) - 1 /\ k \in 1 .. M
        BY <1>2, <3>1
      <4>2. QED BY <1>3, <2>1, <4>1
    <3>4. QED BY <3>1, <3>2, <3>3
  <2>2. ASSUME NEW a \in 0 .. L, \A k \in a + 1 .. (L + j) - 1 : ~ On(u, c, k)
        PROVE  /\ \A k \in 1 .. j - 1 : ~ On(t, c, k)
               /\ \A k \in a + 1 .. L : ~ On(w, c, k)
    <3>1. ASSUME NEW k \in 1 .. j - 1 PROVE ~ On(t, c, k)
      <4>1. L + k \in a + 1 .. (L + j) - 1 /\ k \in 1 .. M
        BY <1>2
      <4>2. QED BY <1>3, <2>2, <4>1
    <3>2. ASSUME NEW k \in a + 1 .. L PROVE ~ On(w, c, k)
      <4>1. k \in a + 1 .. (L + j) - 1 /\ k \in 1 .. L
        BY <1>2
      <4>2. QED BY <1>3, <2>2, <4>1
    <3>3. QED BY <3>1, <3>2
  <2>3. (L + 1) - 1 = L
    BY <1>2
  <2>4. ASSUME NEW i \in 1 .. (L + j) - 1, On(u, c, i), m = u[i].chunk[2],
               \A k \in i + 1 .. (L + j) - 1 : ~ On(u, c, k), i <= L
        PROVE  (\A k \in 1 .. j - 1 : ~ On(t, c, k)) /\ m = n
    <3>1. i \in 0 .. L /\ i \in 1 .. L
      BY <1>2, <2>4
    <3>2. (\A k \in 1 .. j - 1 : ~ On(t, c, k)) /\ \A k \in i + 1 .. L : ~ On(w, c, k)
      BY <2>2, <2>4, <3>1
    <3>3. On(w, c, i) /\ m = w[i].chunk[2]
      BY <1>1, <1>3, <2>4, <3>1
    <3>4. Before(s, w, c, L + 1, m)
      BY <2>3, <3>1, <3>2, <3>3 DEF Before
    <3>5. QED BY <3>2, <3>4 DEF Flow, L
  <2>5. ASSUME s # << >>, m = s[Len(s)][2], \A k \in 1 .. (L + j) - 1 : ~ On(u, c, k)
        PROVE  (\A k \in 1 .. j - 1 : ~ On(t, c, k)) /\ m = n
    <3>1. 0 \in 0 .. L /\ \A k \in 0 + 1 .. (L + j) - 1 : ~ On(u, c, k)
      BY <1>2, <2>5
    <3>2. (\A k \in 1 .. j - 1 : ~ On(t, c, k)) /\ \A k \in 0 + 1 .. L : ~ On(w, c, k)
      BY <2>2, <3>1
    <3>3. Before(s, w, c, L + 1, m)
      BY <2>3, <2>5, <3>2 DEF Before
    <3>4. QED BY <3>2, <3>3 DEF Flow, L
  <2>6. QED BY <1>4, <2>1, <2>4, <2>5 DEF Before
<1>5. ASSUME NEW j \in 1 .. L + M, On(u, c, j), NEW m \in 1 .. MaxOutput, Before(s, u, c, j, m)
      PROVE  u[j].chunk[2] <= m + 1
  <2>1. CASE j <= L
    <3>1. j \in 1 .. L /\ \A k \in 1 .. j - 1 : k \in 1 .. L
      BY <1>2, <2>1
    <3>2. On(w, c, j) /\ u[j] = w[j]
      BY <1>1, <1>3, <1>5, <3>1
    <3>3. ASSUME NEW i \in 1 .. j - 1, \A k \in i + 1 .. j - 1 : ~ On(u, c, k)
          PROVE  \A k \in i + 1 .. j - 1 : ~ On(w, c, k)
      <4>1. \A k \in i + 1 .. j - 1 : k \in 1 .. L
        BY <1>2, <3>1
      <4>2. QED BY <1>3, <3>3, <4>1
    <3>4. Before(s, w, c, j, m)
      BY <1>1, <1>3, <1>5, <3>1, <3>3 DEF Before
    <3>5. QED BY <3>1, <3>2, <3>4 DEF Flow, L
  <2>2. CASE ~ (j <= L)
    <3> DEFINE h == j - L
    <3>1. h \in 1 .. M /\ h \in 1 .. M + 1 /\ L + h = j
      BY <1>2, <2>2
    <3>2. On(t, c, h) /\ u[j] = t[h]
      BY <1>1, <1>3, <1>5, <3>1
    <3> HIDE DEF h
    <3>3. CASE (\A k \in 1 .. h - 1 : ~ On(t, c, k)) /\ m = n
      BY <3>1, <3>2, <3>3 DEF Continues, M
    <3>4. CASE \E i \in 1 .. h - 1 : /\ On(t, c, i) /\ m = t[i].chunk[2]
                                     /\ \A k \in i + 1 .. h - 1 : ~ On(t, c, k)
      <4>1. PICK i \in 1 .. h - 1 : /\ On(t, c, i) /\ m = t[i].chunk[2]
                                    /\ \A k \in i + 1 .. h - 1 : ~ On(t, c, k)
        BY <3>4
      <4>2. i \in 1 .. M /\ i < h
        BY <1>2, <3>1
      <4>3. QED BY <3>1, <3>2, <4>1, <4>2 DEF Continues, M
    <3>5. QED BY <1>4, <1>5, <3>1, <3>3, <3>4
  <2>3. QED BY <2>1, <2>2
<1>6. ASSUME NEW m \in 1 .. MaxOutput, Before(s, u, c, Len(u) + 1, m)
      PROVE  m = n2
  <2>1. Len(u) + 1 = L + (M + 1) /\ M + 1 \in 1 .. M + 1 /\ (M + 1) - 1 = M
    BY <1>1, <1>2
  <2>2. CASE (\A k \in 1 .. (M + 1) - 1 : ~ On(t, c, k)) /\ m = n
    BY <2>1, <2>2 DEF Continues, M
  <2>3. CASE \E i \in 1 .. (M + 1) - 1 : /\ On(t, c, i) /\ m = t[i].chunk[2]
                                         /\ \A k \in i + 1 .. (M + 1) - 1 : ~ On(t, c, k)
    BY <2>1, <2>3 DEF Continues, M
  <2>4. QED BY <1>4, <1>6, <2>1, <2>2, <2>3
<1>7. Flow(s, u, c, n2)
  BY <1>1, <1>5, <1>6 DEF Flow
<1>8. QED BY <1>7 DEF u

\* The first message reaches the window.
LEMMA FlowTail ==
  ASSUME NEW s \in Seq(Chunks), NEW w \in Seq(Messages), w # << >>, NEW c, NEW n \in Nat,
         Flow(s, w, c, n), NEW s2,
         IF On(w, c, 1) THEN s2 = Append(s, w[1].chunk) ELSE s2 = s
  PROVE  Flow(s2, Tail(w), c, n)
<1> DEFINE t == Tail(w)
<1>1. /\ t \in Seq(Messages) /\ Len(t) = Len(w) - 1
      /\ \A i \in 1 .. Len(t) : t[i] = w[i + 1]
      /\ Len(w) \in Nat \ {0} /\ Len(t) \in Nat
  BY HeadTailProperties, EmptySeq, LenProperties
<1> HIDE DEF t
<1>2. \A i \in 1 .. Len(t) : i + 1 \in 1 .. Len(w) /\ On(t, c, i) = On(w, c, i + 1)
  BY <1>1 DEF On
<1>3. 1 \in 1 .. Len(w)
  BY <1>1
<1>4. On(w, c, 1) => w[1].chunk \in Chunks
  <2>1. w[1] \in Messages
    BY <1>3, WireIs
  <2>2. QED BY <2>1, MessageFields DEF On, DataMessages
\* What came before a message that stays comes before it still.
<1>5. ASSUME NEW j \in 1 .. Len(t) + 1, NEW m, Before(s2, t, c, j, m)
      PROVE  Before(s, w, c, j + 1, m)
  <2>1. ASSUME NEW a \in 0 .. j - 1, \A k \in a + 1 .. j - 1 : ~ On(t, c, k)
        PROVE  \A k \in (a + 1) + 1 .. (j + 1) - 1 : ~ On(w, c, k)
    <3>1. ASSUME NEW k \in (a + 1) + 1 .. (j + 1) - 1 PROVE ~ On(w, c, k)
      <4>1. k - 1 \in a + 1 .. j - 1 /\ k - 1 \in 1 .. Len(t) /\ (k - 1) + 1 = k
        BY <1>1
      <4>2. QED BY <1>2, <2>1, <4>1
    <3>2. QED BY <3>1
  <2>2. ASSUME NEW i \in 1 .. j - 1, On(t, c, i), m = t[i].chunk[2],
               \A k \in i + 1 .. j - 1 : ~ On(t, c, k)
        PROVE  Before(s, w, c, j + 1, m)
    <3>1. i + 1 \in 1 .. (j + 1) - 1 /\ i \in 0 .. j - 1 /\ i \in 1 .. Len(t)
      BY <1>1
    <3>2. On(w, c, i + 1) /\ m = w[i + 1].chunk[2]
      BY <1>1, <1>2, <2>2, <3>1
    <3>3. \A k \in (i + 1) + 1 .. (j + 1) - 1 : ~ On(w, c, k)
      BY <2>1, <2>2, <3>1
    <3>4. QED BY <3>1, <3>2, <3>3 DEF Before
  <2>3. ASSUME s2 # << >>, m = s2[Len(s2)][2], \A k \in 1 .. j - 1 : ~ On(t, c, k)
        PROVE  Before(s, w, c, j + 1, m)
    <3>1. 0 \in 0 .. j - 1 /\ \A k \in 0 + 1 .. j - 1 : ~ On(t, c, k)
      BY <1>1, <2>3
    <3>2. \A k \in (0 + 1) + 1 .. (j + 1) - 1 : ~ On(w, c, k)
      BY <2>1, <3>1
    <3>3. CASE On(w, c, 1)
      <4>1. Len(s) \in Nat /\ Len(s2) = Len(s) + 1 /\ s2[Len(s) + 1] = w[1].chunk
        BY <1>4, <3>3, AppendProperties, LenProperties
      <4>2. m = w[1].chunk[2] /\ 1 \in 1 .. (j + 1) - 1
        BY <2>3, <4>1
      <4>3. \A k \in 1 + 1 .. (j + 1) - 1 : ~ On(w, c, k)
        BY <3>2
      <4>4. QED BY <3>3, <4>2, <4>3 DEF Before
    <3>4. CASE ~ On(w, c, 1)
      <4>1. s # << >> /\ m = s[Len(s)][2]
        BY <2>3, <3>4
      <4>2. ASSUME NEW k \in 1 .. (j + 1) - 1 PROVE ~ On(w, c, k)
        <5>1. k = 1 \/ k \in (0 + 1) + 1 .. (j + 1) - 1
          OBVIOUS
        <5>2. QED BY <3>2, <3>4, <5>1
      <4>3. QED BY <4>1, <4>2 DEF Before
    <3>5. QED BY <3>3, <3>4
  <2>4. QED BY <1>5, <2>2, <2>3 DEF Before
<1>6. NoGaps(s2)
  <2>1. CASE On(w, c, 1)
    <3>1. /\ Len(s) \in Nat /\ Len(s2) = Len(s) + 1 /\ s2[Len(s) + 1] = w[1].chunk
          /\ \A i \in 1 .. Len(s) : s2[i] = s[i]
      BY <1>4, <2>1, AppendProperties, LenProperties
    <3>2. ASSUME NEW i \in 1 .. Len(s2) - 1 PROVE s2[i + 1][2] <= s2[i][2] + 1
      <4>1. CASE i = Len(s)
        <5> DEFINE m == s[Len(s)][2]
        <5>1. s[Len(s)] \in Chunks /\ s # << >>
          BY <3>1, <4>1, ElementOfSeq, EmptySeq
        <5>2. m \in 1 .. MaxOutput
          BY <5>1 DEF Chunks
        <5>3. Before(s, w, c, 1, m)
          BY <5>1 DEF Before
        <5> HIDE DEF m
        <5>4. w[1].chunk[2] <= m + 1
          BY <1>3, <2>1, <5>2, <5>3 DEF Flow
        <5>5. s2[i + 1] = w[1].chunk /\ s2[i] = s[Len(s)]
          BY <3>1, <4>1
        <5>6. QED BY <5>4, <5>5 DEF m
      <4>2. CASE i # Len(s)
        <5>1. i \in 1 .. Len(s) - 1 /\ i \in 1 .. Len(s) /\ i + 1 \in 1 .. Len(s)
          BY <3>1, <4>2
        <5>2. s2[i] = s[i] /\ s2[i + 1] = s[i + 1]
          BY <3>1, <5>1
        <5>3. QED BY <5>1, <5>2 DEF Flow, NoGaps
      <4>3. QED BY <4>1, <4>2
    <3>3. QED BY <3>2 DEF NoGaps
  <2>2. CASE ~ On(w, c, 1)
    BY <2>2 DEF Flow
  <2>3. QED BY <2>1, <2>2
<1>7. ASSUME NEW j \in 1 .. Len(t), On(t, c, j), NEW m \in 1 .. MaxOutput, Before(s2, t, c, j, m)
      PROVE  t[j].chunk[2] <= m + 1
  <2>1. j \in 1 .. Len(t) + 1 /\ j + 1 \in 1 .. Len(w) /\ On(w, c, j + 1) /\ t[j] = w[j + 1]
    BY <1>1, <1>2, <1>7
  <2>2. Before(s, w, c, j + 1, m)
    BY <1>5, <1>7, <2>1
  <2>3. QED BY <2>1, <2>2 DEF Flow
<1>8. ASSUME NEW m \in 1 .. MaxOutput, Before(s2, t, c, Len(t) + 1, m)
      PROVE  m = n
  <2>1. Len(t) + 1 \in 1 .. Len(t) + 1 /\ (Len(t) + 1) + 1 = Len(w) + 1
    BY <1>1
  <2>2. Before(s, w, c, Len(w) + 1, m)
    BY <1>5, <1>8, <2>1
  <2>3. QED BY <2>2 DEF Flow
<1>9. Flow(s2, t, c, n)
  BY <1>6, <1>7, <1>8 DEF Flow
<1>10. QED BY <1>9 DEF t

\* Nothing was sent on the channel yet.
LEMMA FlowEmpty ==
  ASSUME NEW w \in Seq(Messages), NEW c, NEW n, \A j \in 1 .. Len(w) : ~ On(w, c, j)
  PROVE  Flow(<< >>, w, c, n)
<1>1. Len(w) \in Nat /\ Len(<< >>) = 0
  BY LenProperties, EmptySeq
<1>2. ASSUME NEW j \in 1 .. Len(w) + 1, NEW m PROVE ~ Before(<< >>, w, c, j, m)
  <2>1. \A i \in 1 .. j - 1 : ~ On(w, c, i)
    BY <1>1
  <2>2. QED BY <2>1 DEF Before
<1>3. NoGaps(<< >>)
  BY <1>1 DEF NoGaps
<1>4. Len(w) + 1 \in 1 .. Len(w) + 1 /\ \A j \in 1 .. Len(w) : j \in 1 .. Len(w) + 1
  BY <1>1
<1>5. QED BY <1>2, <1>3, <1>4 DEF Flow
-----------------------------------------------------------------------------
(* The replay *)

\* g runs over the sequences of seqs and appends each in turn.
Appends(g, seqs, N, T) ==
  /\ g \in [0 .. N -> Seq(T)] /\ g[0] = << >>
  /\ \A n \in 1 .. N : g[n] = g[n - 1] \o seqs[n]

\* FlattenSeq appends one sequence after the other.
LEMMA Flattening ==
  ASSUME NEW N \in Nat, NEW T, NEW seqs \in [1 .. N -> Seq(T)]
  PROVE  \E g : Appends(g, seqs, N, T) /\ FlattenSeq(seqs) = g[N]
<1> DEFINE step == [n \in 1 .. N |-> [x \in Seq(T) |-> x \o seqs[n]]]
<1>1. /\ << >> \in Seq(T)
      /\ \A n \in 1 .. N, x \in Seq(T) : x \o seqs[n] \in Seq(T)
  BY EmptySeq, ConcatProperties
<1>2. StepsIn(step, N, Seq(T)) /\ \A n \in 1 .. N, x \in Seq(T) : step[n][x] = x \o seqs[n]
  BY <1>1 DEF StepsIn
<1> HIDE DEF step
<1>3. PICK g : Recursive(g, step, N, Seq(T), << >>)
  BY <1>1, <1>2, Recursion
<1>4. Appends(g, seqs, N, T)
  <2>1. g \in [0 .. N -> Seq(T)] /\ g[0] = << >> /\ \A n \in 1 .. N : g[n] = step[n][g[n - 1]]
    BY <1>3 DEF Recursive
  <2>2. ASSUME NEW n \in 1 .. N PROVE g[n] = g[n - 1] \o seqs[n]
    <3>1. n - 1 \in 0 .. N
      OBVIOUS
    <3>2. QED BY <1>2, <2>1, <3>1
  <2>3. QED BY <2>1, <2>2 DEF Appends
<1>9. ASSUME 1 \in 1 .. N PROVE g[1] = seqs[1]
  <2>1. \A n \in 1 .. N : n = 1 => n - 1 = 0
    OBVIOUS
  <2>2. g[1] = << >> \o seqs[1] /\ seqs[1] \in Seq(T)
    BY <1>4, <1>9, <2>1 DEF Appends
  <2>3. QED BY <2>2, ConcatEmptySeq
<1>5. seqs \in Seq(Seq(T)) /\ Len(seqs) = N
  OBVIOUS
<1>6. CASE N = 0
  <2>1. FlattenSeq(seqs) = seqs /\ seqs = << >>
    BY <1>5, <1>6, EmptySeq DEF FlattenSeq
  <2>2. QED BY <1>4, <1>6, <2>1 DEF Appends
<1>7. CASE N # 0
  <2> DEFINE body(f) == [i \in 1 .. N |-> IF i = 1 THEN seqs[i] ELSE f[i - 1] \o seqs[i]]
             flatten == CHOOSE f : f = body(f)
             h == [n \in 1 .. N |-> g[n]]
  <2>1. h = body(h)
    <3>1. ASSUME NEW i \in 1 .. N
          PROVE  g[i] = IF i = 1 THEN seqs[i] ELSE h[i - 1] \o seqs[i]
      <4>1. CASE i = 1
        BY <1>9, <4>1
      <4>2. CASE i # 1
        <5>1. i - 1 \in 1 .. N /\ h[i - 1] = g[i - 1]
          BY <4>2
        <5>2. QED BY <1>4, <4>2, <5>1 DEF Appends
      <4>3. QED BY <4>1, <4>2
    <3>2. QED BY <3>1
  <2>2. flatten = body(flatten)
    BY <2>1
  <2>3. FlattenSeq(seqs) = flatten[N]
    BY <1>5, <1>7 DEF FlattenSeq
  <2> HIDE DEF flatten, h
  <2> DEFINE S == {n \in 0 .. N : n = 0 \/ flatten[n] = g[n]}
  <2>4. 0 \in S
    OBVIOUS
  <2>5. ASSUME NEW n \in 1 .. N, n - 1 \in S PROVE n \in S
    <3>1. flatten[n] = IF n = 1 THEN seqs[n] ELSE flatten[n - 1] \o seqs[n]
      BY <2>2
    <3>2. CASE n = 1
      BY <1>9, <3>1, <3>2
    <3>3. CASE n # 1
      <4>1. flatten[n - 1] = g[n - 1]
        BY <2>5, <3>3
      <4>2. g[n] = g[n - 1] \o seqs[n]
        BY <1>4 DEF Appends
      <4>3. flatten[n] = g[n]
        BY <3>1, <3>3, <4>1, <4>2
      <4>4. QED BY <4>3
    <3>4. QED BY <3>2, <3>3
  <2> HIDE DEF S
  <2>6. \A n \in 0 .. N : n \in S
    BY <2>4, <2>5, UpTo
  <2>7. flatten[N] = g[N]
    BY <1>7, <2>6 DEF S
  <2>8. QED BY <1>4, <2>3, <2>7
<1>8. QED BY <1>6, <1>7

\* The panes whose buffer is replayed, and the message of a pane's k-th chunk.
Kept == DOMAIN outputBuffers \cap DOMAIN channels.ptyToChannel
Chunk(q, k) == Data(channels.ptyToChannel[q], <<q, outputBuffers[q][k]>>)

\* s replays the buffers of the panes up to n: each message is a chunk, with
\* its successor in the buffer behind it, and none is missing.
IsChunk(s, j, q, k) ==
  /\ s[j] = Chunk(q, k)
  /\ k < Len(outputBuffers[q]) => j < Len(s) /\ s[j + 1] = Chunk(q, k + 1)

Replays(s, n) ==
  /\ s \in Seq(Messages)
  /\ \A j \in 1 .. Len(s) : \E q \in Kept : \E k \in 1 .. Len(outputBuffers[q]) :
       q <= n /\ IsChunk(s, j, q, k)
  /\ \A q \in Kept : q <= n => \A k \in 1 .. Len(outputBuffers[q]) :
       \E j \in 1 .. Len(s) : s[j] = Chunk(q, k)

\* The buffer of an open pane, and the messages that replay it.
LEMMA BufferIs ==
  ASSUME PanesOK, OutputOK, NEW q \in Kept
  PROVE  /\ q \in 1 .. created /\ q \in PtyIds
         /\ Len(outputBuffers[q]) \in Nat \ {0}
         /\ DOMAIN outputBuffers[q] = 1 .. Len(outputBuffers[q])
         /\ \A k \in 1 .. Len(outputBuffers[q]) :
              /\ outputBuffers[q][k] = written[q] - Len(outputBuffers[q]) + k
              /\ outputBuffers[q][k] \in 1 .. MaxOutput
              /\ Chunk(q, k) \in DataMessages /\ Chunk(q, k) \in Messages
<1>1. q \in 1 .. created /\ created \in 0 .. MaxPtys /\ MaxPtys \in Nat
  BY TerminalWindowAssumption DEF Kept, OutputOK, PanesOK
<1>2. BufferOK(outputBuffers[q], written[q])
  BY DEF Kept, OutputOK
<1>3. channels.ptyToChannel[q] \in Channels
  BY DEF Kept, PanesOK, Given
<1>4. outputBuffers[q] \in Seq(1 .. MaxOutput) /\ outputBuffers[q] # << >>
  BY <1>2 DEF BufferOK
<1>5. Len(outputBuffers[q]) \in Nat \ {0} /\ DOMAIN outputBuffers[q] = 1 .. Len(outputBuffers[q])
  BY <1>4, EmptySeq, LenProperties
<1>6. ASSUME NEW k \in 1 .. Len(outputBuffers[q])
      PROVE  /\ outputBuffers[q][k] = written[q] - Len(outputBuffers[q]) + k
             /\ outputBuffers[q][k] \in 1 .. MaxOutput
             /\ Chunk(q, k) \in DataMessages
  <2>1. outputBuffers[q][k] \in 1 .. MaxOutput
    BY <1>4, ElementOfSeq
  <2>2. q \in PtyIds
    BY <1>1 DEF PtyIds
  <2>3. Chunk(q, k) \in DataMessages
    BY <1>3, <2>1, <2>2 DEF Chunk, Data, DataMessages, Chunks
  <2>4. QED BY <1>2, <2>1, <2>3 DEF BufferOK
<1>7. QED BY <1>1, <1>5, <1>6 DEF PtyIds, Messages

\* Appending the buffer of the next pane.
LEMMA ReplayNext ==
  ASSUME PanesOK, OutputOK, NEW n \in 1 .. MaxPtys, NEW s, Replays(s, n - 1), NEW t,
         t = IF n \in Kept THEN [k \in DOMAIN outputBuffers[n] |-> Chunk(n, k)] ELSE << >>
  PROVE  Replays(s \o t, n)
<1>1. s \in Seq(Messages) /\ n \in Nat /\ \A q \in Kept : q \in Nat
  BY BufferIs, TerminalWindowAssumption DEF Replays, PtyIds
<1>2. CASE n \notin Kept
  <2>1. s \o t = s
    BY <1>1, <1>2, ConcatEmptySeq
  <2>2. \A q \in Kept : q <= n - 1 <=> q <= n
    <3>1. \A q \in Kept : q # n
      BY <1>2
    <3>2. QED BY <1>1, <3>1
  <2>3. Replays(s, n)
    BY <2>2 DEF Replays
  <2>4. QED BY <2>1, <2>3
<1>3. CASE n \in Kept
  <2> DEFINE u == s \o t
             L == Len(s)
             M == Len(outputBuffers[n])
  <2>1. M \in Nat \ {0} /\ \A k \in 1 .. M : Chunk(n, k) \in Messages
    BY <1>3, BufferIs
  <2>2. t = [k \in 1 .. M |-> Chunk(n, k)]
    BY <1>3, BufferIs
  <2> HIDE DEF M
  <2>3. t \in Seq(Messages) /\ Len(t) = M /\ \A k \in 1 .. M : t[k] = Chunk(n, k)
    BY <2>1, <2>2
  <2>4. /\ u \in Seq(Messages) /\ Len(u) = L + M
        /\ \A i \in 1 .. L : u[i] = s[i]
        /\ \A i \in 1 .. M : u[L + i] = Chunk(n, i)
    BY <1>1, <2>3, WireConcat
  <2>5. L \in Nat
    BY <1>1, LenProperties
  <2> HIDE DEF u, L
  <2>6. ASSUME NEW j \in 1 .. Len(u)
        PROVE  \E q \in Kept : \E k \in 1 .. Len(outputBuffers[q]) :
                 q <= n /\ IsChunk(u, j, q, k)
    <3>1. CASE j <= L
      <4>1. j \in 1 .. L
        BY <2>4, <2>5, <3>1
      <4>2. PICK q \in Kept : \E k \in 1 .. Len(outputBuffers[q]) :
              q <= n - 1 /\ IsChunk(s, j, q, k)
        BY <4>1 DEF Replays, L
      <4>7. PICK k \in 1 .. Len(outputBuffers[q]) : q <= n - 1 /\ IsChunk(s, j, q, k)
        BY <4>2
      <4>3. q <= n
        BY <1>1, <4>7
      <4>4. j < L => j < Len(u) /\ j + 1 \in 1 .. L
        BY <2>1, <2>4, <2>5, <4>1
      <4>5. IsChunk(u, j, q, k)
        BY <2>4, <4>1, <4>4, <4>7 DEF IsChunk, L
      <4>6. QED BY <4>3, <4>5
    <3>2. CASE ~ (j <= L)
      <4>1. j - L \in 1 .. M /\ L + (j - L) = j
        BY <2>1, <2>4, <2>5, <3>2
      <4>2. j - L < M => (j - L) + 1 \in 1 .. M /\ L + ((j - L) + 1) = j + 1 /\ j < Len(u)
        BY <2>1, <2>4, <2>5, <4>1
      <4>3. u[j] = Chunk(n, j - L)
        BY <2>4, <4>1
      <4>4. j - L < M => u[j + 1] = Chunk(n, (j - L) + 1)
        BY <2>4, <4>2
      <4>5. IsChunk(u, j, n, j - L)
        BY <4>2, <4>3, <4>4 DEF IsChunk, M
      <4>6. n <= n
        BY <1>1
      <4>7. QED BY <1>3, <4>1, <4>5, <4>6 DEF M
    <3>3. QED BY <3>1, <3>2
  <2>7. ASSUME NEW q \in Kept, q <= n, NEW k \in 1 .. Len(outputBuffers[q])
        PROVE  \E j \in 1 .. Len(u) : u[j] = Chunk(q, k)
    <3>1. CASE q = n
      <4>1. k \in 1 .. M
        BY <3>1 DEF M
      <4>2. L + k \in 1 .. Len(u) /\ u[L + k] = Chunk(q, k)
        BY <2>1, <2>4, <2>5, <3>1, <4>1
      <4>3. QED BY <4>2
    <3>2. CASE q # n
      <4>1. q <= n - 1
        BY <1>1, <2>7, <3>2
      <4>2. PICK j \in 1 .. Len(s) : s[j] = Chunk(q, k)
        BY <4>1 DEF Replays
      <4>3. j \in 1 .. L /\ j \in 1 .. Len(u)
        BY <2>1, <2>4, <2>5, <4>2 DEF L
      <4>4. QED BY <2>4, <4>2, <4>3
    <3>3. QED BY <3>1, <3>2
  <2>8. Replays(u, n)
    BY <2>4, <2>6, <2>7 DEF Replays
  <2>9. QED BY <2>8 DEF u
<1>4. QED BY <1>2, <1>3

\* replayBuffers sends all that the buffers of the open panes keep.
LEMMA ReplayIs ==
  ASSUME PanesOK, OutputOK
  PROVE  Replays(ReplayBuffers, MaxPtys)
<1> DEFINE seqs == [i \in PtyIds |->
              IF i \in DOMAIN outputBuffers /\ HasChannel(channels, i)
                THEN [k \in DOMAIN outputBuffers[i] |->
                        Data(channels.ptyToChannel[i], <<i, outputBuffers[i][k]>>)]
                ELSE << >>]
<1>1. MaxPtys \in Nat
  BY TerminalWindowAssumption
<1>2. ASSUME NEW i \in 1 .. MaxPtys
      PROVE  seqs[i] = IF i \in Kept THEN [k \in DOMAIN outputBuffers[i] |-> Chunk(i, k)]
                                     ELSE << >>
  BY DEF PtyIds, Kept, HasChannel, Chunk
<1>3. ReplayBuffers = FlattenSeq(seqs)
  BY DEF ReplayBuffers
<1>4. DOMAIN seqs = 1 .. MaxPtys /\ seqs = [i \in 1 .. MaxPtys |-> seqs[i]]
  BY DEF PtyIds
<1> HIDE DEF seqs
<1>5. ASSUME NEW i \in 1 .. MaxPtys PROVE seqs[i] \in Seq(Messages)
  <2>1. CASE i \in Kept
    <3> DEFINE M == Len(outputBuffers[i])
    <3>1. /\ M \in Nat /\ DOMAIN outputBuffers[i] = 1 .. M
          /\ \A k \in 1 .. M : Chunk(i, k) \in Messages
      BY <2>1, BufferIs
    <3>2. seqs[i] = [k \in 1 .. M |-> Chunk(i, k)]
      BY <1>2, <2>1, <3>1
    <3> HIDE DEF M
    <3>3. QED BY <3>1, <3>2
  <2>2. CASE i \notin Kept
    BY <1>2, <2>2, EmptySeq
  <2>3. QED BY <2>1, <2>2
<1>6. seqs \in [1 .. MaxPtys -> Seq(Messages)]
  BY <1>4, <1>5
<1>7. PICK g : Appends(g, seqs, MaxPtys, Messages) /\ FlattenSeq(seqs) = g[MaxPtys]
  BY <1>1, <1>6, Flattening
<1> DEFINE S == {n \in 0 .. MaxPtys : Replays(g[n], n)}
<1>8. 0 \in S
  <2>1. g[0] = << >> /\ << >> \in Seq(Messages) /\ Len(<< >>) = 0 /\ 0 \in 0 .. MaxPtys
    BY <1>1, <1>7, EmptySeq DEF Appends
  <2>2. \A q \in Kept : ~ (q <= 0)
    BY BufferIs, <1>1 DEF PtyIds
  <2>3. Replays(g[0], 0)
    BY <2>1, <2>2 DEF Replays
  <2>4. QED BY <2>1, <2>3
<1>9. ASSUME NEW n \in 1 .. MaxPtys, n - 1 \in S PROVE n \in S
  <2>1. Replays(g[n - 1], n - 1) /\ n \in 0 .. MaxPtys
    BY <1>9
  <2>2. g[n] = g[n - 1] \o seqs[n]
    BY <1>7 DEF Appends
  <2>3. Replays(g[n - 1] \o seqs[n], n)
    BY <1>2, <2>1, ReplayNext
  <2>4. QED BY <2>1, <2>2, <2>3
<1> HIDE DEF S
<1>10. \A n \in 0 .. MaxPtys : n \in S
  BY <1>1, <1>8, <1>9, UpTo
<1>11. MaxPtys \in S
  BY <1>1, <1>10
<1>12. QED BY <1>3, <1>7, <1>11 DEF S

\* The replay continues the stream of an open pane's channel.
LEMMA ReplayContinues ==
  ASSUME PanesOK, OwnersOK, OutputOK, NEW c \in Channels, NEW p \in 1 .. created,
         owners[c] = {p}
  PROVE  Continues(ReplayBuffers, c, written[p], written[p])
<1> DEFINE t == ReplayBuffers
<1>1. Replays(t, MaxPtys)
  BY ReplayIs
<1> HIDE DEF t
<1>2. Len(t) \in Nat /\ written[p] \in Nat
  BY <1>1, LenProperties, TerminalWindowAssumption DEF Replays, OutputOK
\* A message on c is a chunk of p, and the next chunk of p is behind it.
<1>3. ASSUME NEW j \in 1 .. Len(t), On(t, c, j)
      PROVE  /\ t[j].chunk[2] <= written[p] /\ t[j].chunk[2] \in Nat
             /\ \/ t[j].chunk[2] = written[p]
                \/ /\ j + 1 \in 1 .. Len(t) /\ On(t, c, j + 1)
                   /\ t[j + 1].chunk[2] = t[j].chunk[2] + 1
  <2>0. PICK q \in Kept : \E k \in 1 .. Len(outputBuffers[q]) : IsChunk(t, j, q, k)
    BY <1>1 DEF Replays
  <2>1. PICK k \in 1 .. Len(outputBuffers[q]) : IsChunk(t, j, q, k)
    BY <2>0
  <2>2. /\ t[j].channel = channels.ptyToChannel[q] /\ t[j].chunk[2] = outputBuffers[q][k]
        /\ \A i : Chunk(q, i).type = "data" /\ Chunk(q, i).channel = channels.ptyToChannel[q]
                  /\ Chunk(q, i).chunk[2] = outputBuffers[q][i]
    BY <2>1 DEF IsChunk, Chunk, Data
  <2>3. q = p
    <3>1. channels.ptyToChannel[q] = c
      BY <1>3, <2>2 DEF On
    <3>2. q \in owners[c]
      BY <3>1 DEF Kept, PanesOK, Given
    <3>3. QED BY <3>2
  <2> DEFINE b == outputBuffers[p]
             M == Len(b)
  <2>4. M \in Nat \ {0} /\ k \in 1 .. M
        /\ \A i \in 1 .. M : b[i] = written[p] - M + i /\ b[i] \in 1 .. MaxOutput
    BY <2>1, <2>3, BufferIs
  <2>5. t[j].chunk[2] = b[k]
    BY <2>2, <2>3
  <2>6. k < M => /\ j + 1 \in 1 .. Len(t) /\ On(t, c, j + 1)
                 /\ t[j + 1].chunk[2] = b[k + 1]
    <3>1. ASSUME k < M PROVE j < Len(t) /\ t[j + 1] = Chunk(q, k + 1)
      BY <2>1, <2>3, <3>1 DEF IsChunk
    <3>2. channels.ptyToChannel[q] = c
      BY <1>3, <2>2 DEF On
    <3>3. QED BY <1>2, <2>2, <2>3, <3>1, <3>2 DEF On
  <2> HIDE DEF b, M
  <2>7. k < M => k + 1 \in 1 .. M
    BY <2>4
  <2>8. b[k] = written[p] - M + k /\ (k < M => b[k + 1] = written[p] - M + (k + 1)) /\ b[k] \in Nat
    BY <2>4, <2>7, TerminalWindowAssumption
  <2>9. b[k] <= written[p] /\ (k < M => b[k + 1] = b[k] + 1) /\ (~ (k < M) => b[k] = written[p])
    BY <1>2, <2>4, <2>8
  <2>10. QED BY <2>5, <2>6, <2>8, <2>9
<1>4. ASSUME NEW i \in 1 .. Len(t), NEW j \in 1 .. Len(t), i < j, On(t, c, i), On(t, c, j),
             \A k \in i + 1 .. j - 1 : ~ On(t, c, k)
      PROVE  t[j].chunk[2] <= t[i].chunk[2] + 1
  <2>1. CASE t[i].chunk[2] = written[p]
    <3>1. t[j].chunk[2] <= written[p] /\ t[j].chunk[2] \in Nat
      BY <1>3, <1>4
    <3>2. QED BY <1>2, <2>1, <3>1
  <2>2. CASE On(t, c, i + 1) /\ t[i + 1].chunk[2] = t[i].chunk[2] + 1
    <3>1. i + 1 = j
      <4>1. i + 1 # j => i + 1 \in i + 1 .. j - 1
        BY <1>2, <1>4
      <4>2. QED BY <1>4, <2>2, <4>1
    <3>2. t[i].chunk[2] \in Nat
      BY <1>3, <1>4
    <3>3. QED BY <2>2, <3>1, <3>2
  <2>3. QED BY <1>3, <1>4, <2>1, <2>2
<1>5. ASSUME NEW j \in 1 .. Len(t), On(t, c, j)
      PROVE  t[j].chunk[2] <= written[p] + 1
  <2>1. t[j].chunk[2] <= written[p] /\ t[j].chunk[2] \in Nat
    BY <1>3, <1>5
  <2>2. QED BY <1>2, <2>1
<1>6. ASSUME NEW j \in 1 .. Len(t), On(t, c, j), \A k \in j + 1 .. Len(t) : ~ On(t, c, k)
      PROVE  t[j].chunk[2] = written[p]
  <2>1. j + 1 \in 1 .. Len(t) => j + 1 \in j + 1 .. Len(t)
    BY <1>2
  <2>2. QED BY <1>3, <1>6, <2>1
<1>7. Continues(t, c, written[p], written[p])
  BY <1>4, <1>5, <1>6 DEF Continues
<1>8. QED BY <1>7 DEF t
-----------------------------------------------------------------------------
(* What steps have in common *)

\* Owners and panes only become more: what was well formed still is.
LEMMA GivenLater ==
  ASSUME NEW f, NEW own, NEW own2, \A c \in Channels : own[c] \subseteq own2[c], Given(f, own)
  PROVE  Given(f, own2)
BY DEF Given

\* So are the layouts and the messages.
LEMMA MessageLater ==
  ASSUME NEW n \in Nat, NEW n2 \in Nat, n <= n2,
         NEW own, NEW own2, \A c \in Channels : own[c] \subseteq own2[c]
  PROVE  /\ \A l : LayoutOK(l, n, own) => LayoutOK(l, n2, own2)
         /\ \A m \in Messages : MessageOK(m, n, own) => MessageOK(m, n2, own2)
<1>1. ASSUME NEW l, LayoutOK(l, n, own) PROVE LayoutOK(l, n2, own2)
  <2>1. 1 .. n \subseteq 1 .. n2
    OBVIOUS
  <2>2. Given(l.channels, own2)
    BY <1>1, GivenLater DEF LayoutOK
  <2>3. QED BY <1>1, <2>1, <2>2 DEF LayoutOK
<1>2. ASSUME NEW m \in Messages, MessageOK(m, n, own) PROVE MessageOK(m, n2, own2)
  <2>1. m.type = "layout" => LayoutOK(m, n2, own2)
    BY <1>1, <1>2 DEF MessageOK
  <2>2. m.type = "data" => m.channel \in Channels
    BY MessageFields DEF DataMessages
  <2>3. QED BY <1>2, <2>1, <2>2 DEF MessageOK
<1>3. QED BY <1>1, <1>2

\* More messages under way: what was received or under way still is.
LEMMA ReachedConcat ==
  ASSUME NEW s, NEW w \in Seq(Messages), NEW t \in Seq(Messages), NEW c, NEW x,
         Reached(s, w, c, x)
  PROVE  Reached(s, w \o t, c, x)
<1>1. /\ \A i \in 1 .. Len(w) : (w \o t)[i] = w[i]
      /\ \A i \in 1 .. Len(w) : i \in 1 .. Len(w \o t)
  <2>1. Len(w) \in Nat /\ Len(t) \in Nat /\ Len(w \o t) = Len(w) + Len(t)
    BY WireIs, WireConcat
  <2>2. QED BY <2>1, WireConcat
<1>2. QED BY <1>1 DEF Reached

\* What is sent is under way.
LEMMA ReachedNew ==
  ASSUME NEW s, NEW w \in Seq(Messages), NEW t \in Seq(Messages), NEW c, NEW x,
         NEW i \in 1 .. Len(t), t[i] = Data(c, x)
  PROVE  Reached(s, w \o t, c, x)
<1>1. Len(w) \in Nat /\ Len(t) \in Nat
  BY WireIs
<1>2. Len(w) + i \in 1 .. Len(w \o t) /\ (w \o t)[Len(w) + i] = t[i]
  BY <1>1, WireConcat
<1>3. QED BY <1>2 DEF Reached

\* The first message reaches the window.
LEMMA ReachedTail ==
  ASSUME NEW s \in Seq(Chunks), NEW w \in Seq(Messages), w # << >>, NEW c, NEW x,
         Reached(s, w, c, x), NEW s2,
         IF On(w, c, 1) THEN s2 = Append(s, w[1].chunk) ELSE s2 = s
  PROVE  Reached(s2, Tail(w), c, x)
<1> DEFINE t == Tail(w)
<1>1. /\ t \in Seq(Messages) /\ Len(t) = Len(w) - 1
      /\ \A i \in 1 .. Len(t) : t[i] = w[i + 1]
      /\ Len(w) \in Nat \ {0} /\ Len(t) \in Nat
  BY HeadTailProperties, EmptySeq, LenProperties
<1> HIDE DEF t
<1>2. On(w, c, 1) => w[1].chunk \in Chunks
  <2>1. w[1] \in Messages
    BY <1>1, WireIs
  <2>2. QED BY <2>1, MessageFields DEF On, DataMessages
<1>3. Len(s) \in Nat /\ (On(w, c, 1) =>
        /\ Len(s2) = Len(s) + 1 /\ s2[Len(s) + 1] = w[1].chunk
        /\ \A i \in 1 .. Len(s) : s2[i] = s[i])
  BY <1>2, AppendProperties, LenProperties
<1>4. ASSUME NEW j \in 1 .. Len(s), s[j] = x PROVE \E i \in 1 .. Len(s2) : s2[i] = x
  <2>1. CASE On(w, c, 1)
    <3>1. j \in 1 .. Len(s2) /\ s2[j] = s[j]
      BY <1>3, <2>1
    <3>2. QED BY <1>4, <3>1
  <2>2. CASE ~ On(w, c, 1)
    BY <1>4, <2>2
  <2>3. QED BY <2>1, <2>2
<1>5. ASSUME w[1] = Data(c, x) PROVE \E i \in 1 .. Len(s2) : s2[i] = x
  <2>1. On(w, c, 1) /\ w[1].chunk = x
    BY <1>5 DEF On, Data
  <2>2. Len(s) + 1 \in 1 .. Len(s2) /\ s2[Len(s) + 1] = x
    BY <1>3, <2>1
  <2>3. QED BY <2>2
<1>6. ASSUME NEW j \in 2 .. Len(w), w[j] = Data(c, x) PROVE \E i \in 1 .. Len(t) : t[i] = Data(c, x)
  <2>1. j - 1 \in 1 .. Len(t) /\ (j - 1) + 1 = j
    BY <1>1
  <2>2. QED BY <1>1, <1>6, <2>1
<1>7. \A j \in 1 .. Len(w) : j = 1 \/ j \in 2 .. Len(w)
  BY <1>1
<1>8. Reached(s2, t, c, x)
  BY <1>4, <1>5, <1>6, <1>7 DEF Reached
<1>9. QED BY <1>8 DEF t

\* A layout continues every stream.
LEMMA LayoutContinues ==
  ASSUME NEW l \in LayoutMessages, NEW c, NEW n
  PROVE  Continues(<<l>>, c, n, n)
<1>1. Len(<<l>>) = 1 /\ <<l>>[1].type = "layout"
  BY DEF LayoutMessages
<1>2. \A j \in 1 .. Len(<<l>>) : ~ On(<<l>>, c, j)
  BY <1>1 DEF On
<1>3. QED BY <1>2 DEF Continues

\* The layout that a broadcast sends of the map m and the places pl.
LayoutOf(m, pl) == [type |-> "layout", channels |-> m.ptyToChannel, place |-> pl]

Describes(m, pl, n, own) ==
  /\ Sound(m) /\ pl \in PartialFcn(PtyIds, 0 .. MaxPtys)
  /\ DOMAIN m.ptyToChannel \cup DOMAIN pl \subseteq 1 .. n
  /\ Given(m.ptyToChannel, own)

\* A layout of a sound map is a message that is well formed and tells the map.
LEMMA LayoutOfOK ==
  ASSUME NEW m, NEW pl, NEW n, NEW own, Describes(m, pl, n, own)
  PROVE  /\ LayoutOf(m, pl) \in LayoutMessages /\ LayoutOf(m, pl) \in Messages
         /\ <<LayoutOf(m, pl)>> \in Seq(Messages)
         /\ MessageOK(LayoutOf(m, pl), n, own)
         /\ Tells(LayoutOf(m, pl), m, pl, {})
<1> DEFINE l == LayoutOf(m, pl)
<1>1. m.ptyToChannel \in PartialFcn(PtyIds, Channels)
  BY TerminalWindowAssumption DEF Describes, Sound, ChannelMapType
<1>2. l \in LayoutMessages /\ l.type = "layout"
  BY <1>1 DEF LayoutOf, LayoutMessages, Describes
<1>3. l.channels = m.ptyToChannel /\ l.place = pl
  BY DEF LayoutOf
<1> HIDE DEF l
<1>4. MessageOK(l, n, own)
  BY <1>2, <1>3 DEF MessageOK, LayoutOK, Describes
<1>5. l \in Messages
  BY <1>2 DEF Messages
<1>6. QED BY <1>2, <1>3, <1>4, <1>5 DEF Tells, l

\* What a broadcast does to the wire.
LEMMA BroadcastWire ==
  ASSUME NEW w \in Seq(Messages), NEW m, NEW pl, NEW n, NEW own, Describes(m, pl, n, own),
         \A i \in 1 .. Len(w) : MessageOK(w[i], n, own)
  PROVE  LET u == w \o <<LayoutOf(m, pl)>>
         IN  /\ u \in Seq(Messages)
             /\ \A i \in DOMAIN u : MessageOK(u[i], n, own)
             /\ \A st : Latest(st, u, m, pl, {})
             /\ \A s \in Seq(Chunks), c \in Channels, k \in Nat :
                  Flow(s, w, c, k) => Flow(s, u, c, k)
             /\ \A s, c, x : Reached(s, w, c, x) => Reached(s, u, c, x)
<1> DEFINE l == LayoutOf(m, pl)
           t == <<l>>
           u == w \o t
<1>1. /\ l \in LayoutMessages /\ t \in Seq(Messages)
      /\ MessageOK(l, n, own) /\ Tells(l, m, pl, {})
  BY LayoutOfOK
<1>2. Len(t) = 1 /\ t[1] = l /\ t # << >>
  OBVIOUS
<1>3. IsLayout(t, Len(t)) /\ Tells(t[Len(t)], m, pl, {}) /\ \A i \in 1 .. Len(t) : MessageOK(t[i], n, own)
  BY <1>1, <1>2 DEF IsLayout, LayoutMessages
<1>4. \A c \in Channels, k \in Nat : Continues(t, c, k, k)
  BY <1>1, LayoutContinues
<1> HIDE DEF l, t
<1>5. u \in Seq(Messages) /\ \A i \in DOMAIN u : MessageOK(u[i], n, own)
  BY <1>1, <1>3, WireConcat, WireOKConcat
<1>6. \A st : Latest(st, u, m, pl, {})
  BY <1>1, <1>2, <1>3, LatestConcat
<1>7. \A s \in Seq(Chunks), c \in Channels, k \in Nat : Flow(s, w, c, k) => Flow(s, u, c, k)
  BY <1>1, <1>4, FlowConcat
<1>8. \A s, c, x : Reached(s, w, c, x) => Reached(s, u, c, x)
  BY <1>1, ReachedConcat
<1>9. QED BY <1>5, <1>6, <1>7, <1>8 DEF t, l
-----------------------------------------------------------------------------
\* A step of the server that leaves the window as it is, and in which owners
\* and panes only become more.
LEMMA WindowKept ==
  ASSUME IInv, UNCHANGED <<window, client>>, created' \in Nat, created <= created',
         \A c \in Channels : owners[c] \subseteq owners'[c],
         ~ Attached => wire' = wire
  PROVE  (ClientOK /\ StreamsOK /\ ViewOK)'
<1>1. created \in Nat /\ 1 .. created \subseteq 1 .. created'
  BY TerminalWindowAssumption DEF IInv, PanesOK
<1>2. /\ state' = state /\ view' = view /\ terminalBuffers' = terminalBuffers
      /\ seen' = seen /\ drawn' = drawn /\ client' = client
  BY DEF window
<1>3. ClientOK'
  <2>1. Attached' = Attached
    BY <1>2 DEF Attached
  <2>2. Attached => LayoutOK(state, created', owners')
    BY <1>1, MessageLater DEF IInv, ClientOK
  <2>3. QED BY <1>2, <2>1, <2>2 DEF IInv, ClientOK
<1>4. StreamsOK'
  BY <1>2 DEF IInv, StreamsOK, StreamKept
<1>5. ViewOK'
  <2>1. ASSUME NEW p \in DOMAIN view
        PROVE  MountOK(view[p], p, owners', terminalBuffers, seen)
    <3>1. MountOK(view[p], p, owners, terminalBuffers, seen)
      BY DEF IInv, ViewOK
    <3>2. view[p].channel \in Channels
      BY <3>1 DEF MountOK, View
    <3>3. QED BY <3>1, <3>2 DEF MountOK
  <2>2. QED BY <1>1, <1>2, <2>1 DEF IInv, ViewOK
<1>6. QED BY <1>3, <1>4, <1>5

\* The facts that typing gives.
LEMMA Typed ==
  ASSUME IInv
  PROVE  /\ created \in Nat /\ created <= MaxPtys /\ MaxPtys \in Nat /\ MaxOutput \in Nat
         /\ 1 .. created \subseteq PtyIds
         /\ wire \in Seq(Messages) /\ Len(wire) \in Nat /\ DOMAIN wire = 1 .. Len(wire)
         /\ \A i \in 1 .. Len(wire) : wire[i] \in Messages /\ MessageOK(wire[i], created, owners)
         /\ \A p \in 1 .. created : written[p] \in Nat
         /\ \A c \in Channels : seen[c] \in Seq(Chunks) /\ owners[c] \subseteq 1 .. created
<1>1. created \in 0 .. MaxPtys /\ MaxPtys \in Nat /\ MaxOutput \in Nat
  BY TerminalWindowAssumption DEF IInv, PanesOK
<1>2. wire \in Seq(Messages) /\ \A i \in DOMAIN wire : MessageOK(wire[i], created, owners)
  BY DEF IInv, WireOK
<1>3. Len(wire) \in Nat /\ DOMAIN wire = 1 .. Len(wire) /\ \A i \in 1 .. Len(wire) : wire[i] \in Messages
  BY <1>2, WireIs
<1>4. \A p \in 1 .. created : written[p] \in Nat
  BY <1>1 DEF IInv, OutputOK
<1>5. \A c \in Channels : seen[c] \in Seq(Chunks) /\ owners[c] \subseteq 1 .. created
  BY DEF IInv, StreamsOK, OwnersOK
<1>6. QED BY <1>1, <1>2, <1>3, <1>4, <1>5 DEF PtyIds

\* An attached window is told of every change, and its streams go on.
LEMMA AfterBroadcast ==
  ASSUME IInv, Broadcast, UNCHANGED <<window, client>>, created' \in Nat, created <= created',
         \A c \in Channels : owners[c] \subseteq owners'[c],
         Describes(channels', place', created', owners')
  PROVE  /\ WireOK' /\ LayoutTold'
         /\ \A s \in Seq(Chunks), c \in Channels, k \in Nat :
              Flow(s, wire, c, k) => Flow(s, wire', c, k)
         /\ \A s, c, x : Reached(s, wire, c, x) => Reached(s, wire', c, x)
<1>1. /\ wire \in Seq(Messages) /\ DOMAIN wire = 1 .. Len(wire)
      /\ \A i \in 1 .. Len(wire) : MessageOK(wire[i], created', owners')
  BY Typed, MessageLater
<1>2. Attached' = Attached /\ state' = state /\ untold' = {}
  BY DEF Attached, window, Broadcast
<1>3. Layout' = LayoutOf(channels', place')
  BY DEF Layout, LayoutOf
<1>4. CASE Attached
  <2> DEFINE u == wire \o <<LayoutOf(channels', place')>>
  <2>1. wire' = u /\ Len(u) <= MaxWire
    <3>1. Len(wire) + Len(<<Layout'>>) <= MaxWire /\ wire' = u
      BY <1>3, <1>4 DEF Broadcast, Send
    <3>2. <<Layout'>> \in Seq(Messages)
      BY <1>3, LayoutOfOK
    <3>3. Len(wire \o <<Layout'>>) = Len(wire) + Len(<<Layout'>>)
      BY <1>1, <3>2, WireConcat
    <3>4. QED BY <1>3, <3>1, <3>3
  <2>2. /\ u \in Seq(Messages)
        /\ \A i \in DOMAIN u : MessageOK(u[i], created', owners')
        /\ \A st : Latest(st, u, channels', place', {})
        /\ \A s \in Seq(Chunks), c \in Channels, k \in Nat :
             Flow(s, wire, c, k) => Flow(s, u, c, k)
        /\ \A s, c, x : Reached(s, wire, c, x) => Reached(s, u, c, x)
    BY <1>1, BroadcastWire
  <2> HIDE DEF u
  <2>3. QED BY <1>2, <2>1, <2>2 DEF WireOK, LayoutTold
<1>5. CASE ~ Attached
  <2>1. wire' = wire
    BY <1>5 DEF Broadcast
  <2>2. QED BY <1>1, <1>2, <1>5, <2>1 DEF WireOK, LayoutTold, IInv
<1>6. QED BY <1>4, <1>5

\* A pane that is closed with no word of it is left out of what is told.
LEMMA AfterSilence ==
  ASSUME IInv, NEW p, UNCHANGED <<wire, window, client, created, place, owners>>,
         Without(channels', channels, {p}),
         untold' = untold \cup ({p} \cap DOMAIN channels.ptyToChannel)
  PROVE  WireOK' /\ LayoutTold'
<1>1. WireOK' /\ Attached' = Attached /\ state' = state
  BY DEF IInv, WireOK, Attached, window
<1>2. ASSUME NEW l, Tells(l, channels, place, untold)
      PROVE  Tells(l, channels', place, untold')
  BY <1>2 DEF Tells, Without
<1>3. Latest(state, wire, channels, place, untold) => Latest(state, wire, channels', place, untold')
  BY <1>2 DEF Latest
<1>4. QED BY <1>1, <1>3 DEF IInv, LayoutTold
-----------------------------------------------------------------------------
(* The server's steps *)

\* assign leaves the channels of the others.
LEMMA AssignIs ==
  ASSUME NEW m, Sound(m), NEW p \in PtyIds, p \notin DOMAIN m.ptyToChannel
  PROVE  LET a == Assign(m, p).ptyToChannel
         IN  /\ Sound(Assign(m, p))
             /\ DOMAIN a = IF HasChannel(Assign(m, p), p) THEN DOMAIN m.ptyToChannel \cup {p}
                                                          ELSE DOMAIN m.ptyToChannel
             /\ \A q \in DOMAIN m.ptyToChannel : a[q] = m.ptyToChannel[q]
             /\ HasChannel(Assign(m, p), p) => a[p] \in Channels
<1>1. Sound(Assign(m, p))
  BY AssignSound, TerminalWindowAssumption
<1>2. CASE CanAllocate(m)
  <2>1. Assign(m, p).ptyToChannel = Put(m.ptyToChannel, p, NextFree(m))
    BY <1>2 DEF Assign, HasChannel, Allocate
  <2>2. NextFree(m) \in Channels
    BY <1>2, NextFreeUnused
  <2>3. QED BY <1>1, <2>1, <2>2 DEF Put, HasChannel
<1>3. CASE ~ CanAllocate(m)
  BY <1>1, <1>3 DEF Assign, HasChannel
<1>4. QED BY <1>2, <1>3

\* A new pane: its channel is its own, and every window is told.
LEMMA CreatePaneKeeps ==
  ASSUME IInv, NEW s \in PtyIds, NEW wraps \in BOOLEAN, CreatePane(s, wraps)
  PROVE  IInv'
<1> DEFINE p == created + 1
<1>1. /\ created \in Nat /\ p \in Nat /\ p \in PtyIds /\ created' = p /\ created <= created'
      /\ 1 .. p = (1 .. created) \cup {p} /\ p \notin 1 .. created /\ p \in 0 .. MaxPtys
  BY Typed DEF CreatePane, PtyIds
<1> HIDE DEF p
<1>2. /\ place \in PartialFcn(PtyIds, 0 .. MaxPtys) /\ DOMAIN place \subseteq 1 .. created
      /\ \A q \in DOMAIN place : place[q] < created
      /\ Sound(channels) /\ terminals = DOMAIN channels.ptyToChannel
      /\ terminals \subseteq DOMAIN place
      /\ closing \in PartialFcn(PtyIds, Channels)
      /\ DOMAIN closing \subseteq 1 .. created
      /\ Given(channels.ptyToChannel, owners) /\ Given(closing, owners)
  BY DEF IInv, PanesOK
<1> DEFINE moved == IF wraps THEN [place EXCEPT ![s] = @ + 1] ELSE place
<1>3. /\ moved \in PartialFcn(PtyIds, 0 .. MaxPtys) /\ DOMAIN moved = DOMAIN place
      /\ \A q \in DOMAIN moved : moved[q] < p
  <2>1. CASE wraps
    <3>1. s \in DOMAIN place
      BY <2>1 DEF CreatePane, p
    <3>2. \A q \in DOMAIN place : place[q] \in 0 .. MaxPtys
      BY <1>2 DEF PartialFcn
    <3>3. place[s] + 1 \in 0 .. MaxPtys /\ place[s] + 1 < p /\ \A q \in DOMAIN place : place[q] < p
      BY <1>1, <1>2, <3>1, <3>2, Typed DEF p
    <3>4. moved = Put(place, s, place[s] + 1)
      BY <1>2, <2>1, <3>1 DEF Put, PartialFcn
    <3>5. moved \in PartialFcn(PtyIds, 0 .. MaxPtys)
      <4>1. Put(place, s, place[s] + 1) \in PartialFcn(PtyIds, 0 .. MaxPtys)
        BY <1>2, <3>3, PutType
      <4> HIDE DEF moved
      <4>2. QED BY <3>4, <4>1
    <3>6. DOMAIN moved = DOMAIN place
      BY <2>1
    <3>7. \A q \in DOMAIN moved : moved[q] = place[q] \/ moved[q] = place[s] + 1
      BY <2>1, <3>4 DEF Put
    <3> HIDE DEF moved
    <3>8. QED BY <3>3, <3>5, <3>6, <3>7
  <2>2. CASE ~ wraps
    <3>1. \A q \in DOMAIN place : place[q] \in 0 .. MaxPtys
      BY <1>2 DEF PartialFcn
    <3>2. \A q \in DOMAIN place : place[q] < p
      BY <1>1, <1>2, <3>1 DEF p
    <3>3. QED BY <1>2, <2>2, <3>2
  <2>3. QED BY <2>1, <2>2
<1>4. place' = Put(moved, p, 0)
  BY DEF CreatePane, p
<1> HIDE DEF moved
<1>5. /\ place' \in PartialFcn(PtyIds, 0 .. MaxPtys) /\ DOMAIN place' = DOMAIN place \cup {p}
      /\ \A q \in DOMAIN place' : place'[q] < created'
  <2>1. 0 \in 0 .. MaxPtys /\ 0 < p
    BY <1>1, Typed
  <2>2. place' \in PartialFcn(PtyIds, 0 .. MaxPtys)
    BY <1>1, <1>3, <1>4, <2>1, PutType
  <2>3. QED BY <1>1, <1>3, <1>4, <2>1, <2>2 DEF Put
<1>6. channels' = Assign(channels, p) /\ p \notin DOMAIN channels.ptyToChannel
  BY <1>1, <1>2 DEF CreatePane, p
<1> DEFINE a == channels'.ptyToChannel
<1>7. /\ Sound(channels')
      /\ DOMAIN a = IF HasChannel(channels', p) THEN terminals \cup {p} ELSE terminals
      /\ \A q \in terminals : a[q] = channels.ptyToChannel[q]
      /\ HasChannel(channels', p) => a[p] \in Channels
  BY <1>1, <1>2, <1>6, AssignIs
<1>8. IF HasChannel(channels', p)
        THEN terminals' = terminals \cup {p} /\ owners' = [owners EXCEPT ![a[p]] = @ \cup {p}]
        ELSE terminals' = terminals /\ owners' = owners
  BY DEF CreatePane, p
<1>9. UNCHANGED <<closing, outputBuffers, client, window>>
      /\ written' = Put(written, p, 0) /\ Broadcast
  BY DEF CreatePane, p
<1>10. /\ owners \in [Channels -> SUBSET (1 .. created)]
       /\ \A c, d \in Channels : \A q \in owners[c] \cap owners[d] : c = d
  BY DEF IInv, OwnersOK
<1> HIDE DEF a
<1>11. /\ owners' \in [Channels -> SUBSET (1 .. created')]
       /\ \A c \in Channels : owners'[c] = owners[c] \/ (HasChannel(channels', p) /\ c = a[p]
                                                         /\ owners'[c] = owners[c] \cup {p})
       /\ HasChannel(channels', p) => p \in owners'[a[p]]
  BY <1>1, <1>7, <1>8, <1>10
<1>12. \A c \in Channels : owners[c] \subseteq owners'[c] /\ p \notin owners[c]
  BY <1>1, <1>10, <1>11
<1>13. OwnersOK'
  <2>1. ASSUME NEW c \in Channels, NEW d \in Channels, NEW q \in owners'[c] \cap owners'[d]
        PROVE  c = d
    BY <1>10, <1>11, <1>12
  <2>2. QED BY <1>11, <2>1 DEF OwnersOK
<1>14. Given(a, owners') /\ Given(closing, owners')
  <2>1. ASSUME NEW q \in DOMAIN a PROVE a[q] \in Channels /\ q \in owners'[a[q]]
    <3>1. CASE q = p /\ HasChannel(channels', p)
      BY <1>7, <1>11, <3>1
    <3>2. CASE q \in terminals
      BY <1>2, <1>7, <1>12, <3>2 DEF Given
    <3>3. QED BY <1>7, <2>1, <3>1, <3>2
  <2>2. QED BY <1>2, <1>12, <2>1, GivenLater DEF Given
<1>15. PanesOK'
  <2>1. terminals' = DOMAIN a /\ terminals' \subseteq DOMAIN place'
    BY <1>2, <1>5, <1>7, <1>8
  <2>2. closing' = closing /\ untold' = {}
    BY <1>9 DEF Broadcast
  <2>3. DOMAIN place' \subseteq 1 .. created' /\ DOMAIN closing \subseteq 1 .. created'
    BY <1>1, <1>2, <1>5
  <2>4. created' \in 0 .. MaxPtys
    BY <1>1
  <2>5. QED BY <1>2, <1>5, <1>7, <1>14, <2>1, <2>2, <2>3, <2>4 DEF PanesOK, a
<1>16. OutputOK'
  <2>1. /\ written \in [1 .. created -> 0 .. MaxOutput] /\ Cardinality(Outputs) <= MaxOutput
        /\ DOMAIN outputBuffers \subseteq 1 .. created
        /\ \A q \in DOMAIN outputBuffers : BufferOK(outputBuffers[q], written[q])
        /\ \A q \in 1 .. created : q \notin DOMAIN outputBuffers => written[q] = 0
    BY DEF IInv, OutputOK
  <2>2. /\ DOMAIN written' = 1 .. created' /\ written'[p] = 0
        /\ \A q \in 1 .. created : written'[q] = written[q]
    BY <1>1, <1>9, <2>1 DEF Put
  <2>3. written' \in [1 .. created' -> 0 .. MaxOutput]
    <3>1. 0 \in 0 .. MaxOutput
      BY Typed
    <3>2. written' = [q \in 1 .. created' |-> written'[q]]
      BY <1>9, <2>2 DEF Put
    <3>3. \A q \in 1 .. created' : written'[q] \in 0 .. MaxOutput
      BY <1>1, <2>1, <2>2, <3>1
    <3>4. QED BY <3>2, <3>3
  <2>4. Outputs' = Outputs
    <3> DEFINE of(f, q) == {q} \X (1 .. f[q])
    <3>1. of(written', p) = {} /\ \A q \in 1 .. created : of(written', q) = of(written, q)
      BY <2>2
    <3>2. Outputs = UNION {of(written, q) : q \in 1 .. created}
          /\ Outputs' = UNION {of(written', q) : q \in 1 .. created'}
      BY <2>1, <2>2 DEF Outputs
    <3> HIDE DEF of
    <3>3. 1 .. created' = (1 .. created) \cup {p}
      BY <1>1
    <3>4. QED BY <3>1, <3>2, <3>3
  <2>5. outputBuffers' = outputBuffers
    BY <1>9
  <2>6. DOMAIN outputBuffers \subseteq 1 .. created'
    BY <1>1, <2>1
  <2>7. \A q \in DOMAIN outputBuffers : BufferOK(outputBuffers[q], written'[q])
    BY <2>1, <2>2
  <2>8. \A q \in 1 .. created' : q \notin DOMAIN outputBuffers => written'[q] = 0
    BY <1>1, <2>1, <2>2
  <2>9. Cardinality(Outputs') <= MaxOutput
    BY <2>1, <2>4
  <2>10. QED BY <2>3, <2>5, <2>6, <2>7, <2>8, <2>9 DEF OutputOK
<1>17. Describes(channels', place', created', owners')
  <2>1. DOMAIN a \cup DOMAIN place' \subseteq 1 .. created'
    BY <1>1, <1>2, <1>5, <1>7
  <2>2. QED BY <1>5, <1>7, <1>14, <2>1 DEF Describes, a
<1>18. created' \in Nat /\ UNCHANGED <<window, client>> /\ Broadcast
       /\ \A c \in Channels : owners[c] \subseteq owners'[c]
  BY <1>1, <1>9, <1>12
<1>19. (ClientOK /\ StreamsOK /\ ViewOK)'
  <2>1. ~ Attached => wire' = wire
    BY <1>18 DEF Broadcast
  <2>2. QED BY <1>1, <1>18, <2>1, WindowKept
<1>20. /\ WireOK' /\ LayoutTold'
       /\ \A t \in Seq(Chunks), c \in Channels, k \in Nat :
            Flow(t, wire, c, k) => Flow(t, wire', c, k)
       /\ \A t, c, x : Reached(t, wire, c, x) => Reached(t, wire', c, x)
  BY <1>1, <1>17, <1>18, AfterBroadcast
<1>21. client' = client /\ seen' = seen /\ outputBuffers' = outputBuffers
  BY <1>9 DEF window
<1>22. Delivered'
  <2>1. ASSUME client = "greeted", NEW q \in DOMAIN outputBuffers \cap DOMAIN a,
               NEW i \in 1 .. Len(outputBuffers[q])
        PROVE  Reached(seen[a[q]], wire', a[q], <<q, outputBuffers[q][i]>>)
    <3>1. q \in 1 .. created
      BY DEF IInv, OutputOK
    <3>2. q \in terminals /\ a[q] = channels.ptyToChannel[q]
      BY <1>1, <1>7, <2>1, <3>1
    <3>3. Reached(seen[a[q]], wire, a[q], <<q, outputBuffers[q][i]>>)
      BY <1>2, <2>1, <3>2 DEF IInv, Delivered
    <3>4. QED BY <1>20, <3>3
  <2>2. QED BY <1>21, <2>1 DEF Delivered, a
<1>23. StreamOK'
  <2>1. ASSUME NEW c \in Channels, NEW q \in 1 .. created', owners'[c] = {q}
        PROVE  Flow(seen[c], wire', c, written'[q])
    <3>1. CASE q = p
      <4>1. owners[c] = {}
        BY <1>12, <2>1, <3>1
      <4>2. seen[c] = << >>
        <5>1. seen[c] \in Seq(Chunks) /\ \A i \in DOMAIN seen[c] : FALSE
          BY <4>1, Typed DEF IInv, StreamsOK
        <5>2. Len(seen[c]) = 0
          <6>1. Len(seen[c]) # 0 => 1 \in DOMAIN seen[c]
            BY <5>1, LenProperties
          <6>2. QED BY <5>1, <6>1
        <5>3. QED BY <5>1, <5>2, EmptySeq
      <4>3. \A j \in 1 .. Len(wire) : ~ On(wire, c, j)
        <5>1. ASSUME NEW j \in 1 .. Len(wire), On(wire, c, j) PROVE FALSE
          <6>1. wire[j].type = "data" /\ wire[j].channel = c
            BY <5>1 DEF On
          <6>2. wire[j].chunk[1] \in owners[c]
            BY <6>1, Typed DEF MessageOK
          <6>3. QED BY <4>1, <6>2
        <5>2. QED BY <5>1
      <4>4. Flow(seen[c], wire, c, 0)
        BY <4>2, <4>3, FlowEmpty, Typed
      <4>5. written'[q] = 0 /\ 0 \in Nat
        BY <1>9, <3>1 DEF Put
      <4>6. QED BY <1>20, <4>4, <4>5, Typed
    <3>2. CASE q # p
      <4>1. q \in 1 .. created /\ owners[c] = {q}
        BY <1>1, <1>11, <1>12, <2>1, <3>2
      <4>2. Flow(seen[c], wire, c, written[q])
        BY <4>1 DEF IInv, StreamOK
      <4>3. written'[q] = written[q]
        BY <1>9, <3>2, <4>1 DEF Put, IInv, OutputOK
      <4>4. QED BY <1>20, <4>1, <4>2, <4>3, Typed
    <3>3. QED BY <3>1, <3>2
  <2>2. QED BY <1>21, <2>1 DEF StreamOK
<1>24. QED BY <1>13, <1>15, <1>16, <1>19, <1>20, <1>22, <1>23 DEF IInv

\* handlePaneClose: the channel is released, and the listener keeps it.
LEMMA ClosePaneKeeps ==
  ASSUME IInv, NEW p \in PtyIds, ClosePane(p)
  PROVE  IInv'
<1>1. /\ place \in PartialFcn(PtyIds, 0 .. MaxPtys) /\ DOMAIN place \subseteq 1 .. created
      /\ \A q \in DOMAIN place : place[q] < created
      /\ Sound(channels) /\ terminals = DOMAIN channels.ptyToChannel
      /\ terminals \subseteq DOMAIN place /\ created \in 0 .. MaxPtys
      /\ closing \in PartialFcn(PtyIds, Channels)
      /\ DOMAIN closing \subseteq 1 .. created
      /\ Given(channels.ptyToChannel, owners) /\ Given(closing, owners)
      /\ untold \subseteq DOMAIN place
  BY DEF IInv, PanesOK
<1>2. /\ p \in DOMAIN place /\ terminals' = terminals \ {p}
      /\ UNCHANGED <<created, outputBuffers, written, owners, client, window>>
      /\ IF HasChannel(channels, p)
           THEN /\ closing' = Put(closing, p, channels.ptyToChannel[p])
                /\ channels' = Release(channels, channels.ptyToChannel[p])
           ELSE UNCHANGED <<closing, channels>>
      /\ \/ place' \in {Drop(place, {p}), place} /\ Broadcast
         \/ /\ place' = place /\ wire' = wire
            /\ untold' = untold \cup ({p} \cap DOMAIN channels.ptyToChannel)
  BY DEF ClosePane
<1>3. Sound(channels') /\ Without(channels', channels, {p})
  <2>1. channels' = ReleaseId(channels, p)
    BY <1>2 DEF ReleaseId
  <2>2. QED BY <1>1, <2>1, ReleaseIdKeeps
<1> DEFINE a == channels'.ptyToChannel
<1>4. DOMAIN a = terminals \ {p} /\ \A q \in DOMAIN a : a[q] = channels.ptyToChannel[q]
  BY <1>1, <1>3 DEF Without
<1> HIDE DEF a
<1>5. /\ place' \in PartialFcn(PtyIds, 0 .. MaxPtys)
      /\ DOMAIN place \ {p} \subseteq DOMAIN place' /\ DOMAIN place' \subseteq DOMAIN place
      /\ \A q \in DOMAIN place' : place'[q] < created'
  <2>1. Drop(place, {p}) \in PartialFcn(PtyIds, 0 .. MaxPtys)
    BY <1>1, DropType
  <2>2. QED BY <1>1, <1>2, <2>1 DEF Drop
<1>6. /\ closing' \in PartialFcn(PtyIds, Channels)
      /\ DOMAIN closing' \subseteq DOMAIN closing \cup {p}
      /\ Given(closing', owners)
  <2>1. CASE HasChannel(channels, p)
    <3>1. channels.ptyToChannel[p] \in Channels /\ p \in owners[channels.ptyToChannel[p]]
      BY <1>1, <2>1 DEF Given, HasChannel
    <3>2. closing' \in PartialFcn(PtyIds, Channels)
      BY <1>1, <1>2, <2>1, <3>1, PutType
    <3>3. QED BY <1>1, <1>2, <2>1, <3>1, <3>2 DEF Put, Given
  <2>2. CASE ~ HasChannel(channels, p)
    BY <1>1, <1>2, <2>2
  <2>3. QED BY <2>1, <2>2
<1>7. Given(a, owners)
  BY <1>1, <1>4 DEF Given
<1>8. PanesOK'
  <2>1. terminals' = DOMAIN a /\ terminals' \subseteq DOMAIN place'
    BY <1>1, <1>2, <1>4, <1>5
  <2>2. /\ DOMAIN place' \subseteq 1 .. created' /\ DOMAIN closing' \subseteq 1 .. created'
        /\ untold' \subseteq DOMAIN place'
    BY <1>1, <1>2, <1>5, <1>6 DEF Broadcast
  <2>3. created' \in 0 .. MaxPtys /\ owners' = owners
    BY <1>1, <1>2
  <2>4. QED BY <1>3, <1>5, <1>6, <1>7, <2>1, <2>2, <2>3 DEF PanesOK, a
<1>9. (OwnersOK /\ OutputOK)'
  BY <1>2 DEF IInv, OwnersOK, OutputOK, Outputs
<1>10. Describes(channels', place', created', owners')
  <2>1. DOMAIN a \cup DOMAIN place' \subseteq 1 .. created'
    BY <1>1, <1>2, <1>4, <1>5
  <2>2. owners' = owners
    BY <1>2
  <2>3. QED BY <1>3, <1>5, <1>7, <2>1, <2>2 DEF Describes, a
<1>11. /\ created' \in Nat /\ created <= created' /\ UNCHANGED <<window, client>>
       /\ \A c \in Channels : owners[c] \subseteq owners'[c]
  BY <1>2, Typed
<1>12. (ClientOK /\ StreamsOK /\ ViewOK)'
  <2>1. ~ Attached => wire' = wire
    BY <1>2 DEF Broadcast
  <2>2. QED BY <1>11, <2>1, WindowKept
<1>13. /\ WireOK' /\ LayoutTold'
       /\ \A t \in Seq(Chunks), c \in Channels, k \in Nat :
            Flow(t, wire, c, k) => Flow(t, wire', c, k)
       /\ \A t, c, x : Reached(t, wire, c, x) => Reached(t, wire', c, x)
  <2>1. CASE Broadcast
    BY <1>10, <1>11, <2>1, AfterBroadcast
  <2>2. CASE ~ Broadcast
    <3>1. place' = place /\ wire' = wire
          /\ untold' = untold \cup ({p} \cap DOMAIN channels.ptyToChannel)
      BY <1>2, <2>2
    <3>2. WireOK' /\ LayoutTold'
      BY <1>2, <1>3, <3>1, AfterSilence
    <3>3. QED BY <3>1, <3>2
  <2>3. QED BY <2>1, <2>2
<1>14. /\ client' = client /\ seen' = seen /\ outputBuffers' = outputBuffers
       /\ owners' = owners /\ written' = written /\ created' = created
  BY <1>2 DEF window
<1>15. Delivered'
  <2>1. ASSUME client = "greeted", NEW q \in DOMAIN outputBuffers \cap DOMAIN a,
               NEW i \in 1 .. Len(outputBuffers[q])
        PROVE  Reached(seen[a[q]], wire', a[q], <<q, outputBuffers[q][i]>>)
    <3>1. q \in DOMAIN outputBuffers \cap DOMAIN channels.ptyToChannel /\ a[q] = channels.ptyToChannel[q]
      BY <1>1, <1>4, <2>1
    <3>2. Reached(seen[a[q]], wire, a[q], <<q, outputBuffers[q][i]>>)
      BY <2>1, <3>1 DEF IInv, Delivered
    <3>3. QED BY <1>13, <3>2
  <2>2. QED BY <1>14, <2>1 DEF Delivered, a
<1>16. StreamOK'
  <2>1. ASSUME NEW c \in Channels, NEW q \in 1 .. created, owners[c] = {q}
        PROVE  Flow(seen[c], wire', c, written[q])
    <3>1. Flow(seen[c], wire, c, written[q])
      BY <2>1 DEF IInv, StreamOK
    <3>2. QED BY <1>13, <3>1, Typed
  <2>2. QED BY <1>14, <2>1 DEF StreamOK
<1>17. QED BY <1>8, <1>9, <1>12, <1>13, <1>15, <1>16 DEF IInv

\* The chunks written are finitely many; the next is within the bound.
LEMMA OutputMore ==
  ASSUME IInv, NEW p \in 1 .. created, Cardinality(Outputs) < MaxOutput,
         written' = [written EXCEPT ![p] = written[p] + 1]
  PROVE  /\ written[p] + 1 \in 1 .. MaxOutput
         /\ Cardinality(Outputs') <= MaxOutput
<1> DEFINE n == written[p] + 1
<1>1. /\ MaxOutput \in Nat /\ MaxPtys \in Nat /\ p \in PtyIds
      /\ written \in [1 .. created -> 0 .. MaxOutput]
  BY Typed DEF IInv, OutputOK
<1>2. n \in Nat /\ n >= 1 /\ written[p] = n - 1 /\ written[p] \in Nat
  BY <1>1
<1>3. DOMAIN written' = 1 .. created /\ \A q \in 1 .. created :
        written'[q] = IF q = p THEN n ELSE written[q]
  BY <1>1
<1> HIDE DEF n
<1>4. IsFiniteSet(Outputs)
  <2>1. IsFiniteSet(1 .. MaxPtys) /\ IsFiniteSet(1 .. MaxOutput)
    BY <1>1, FS_Interval
  <2>2. IsFiniteSet(Chunks)
    BY <2>1, FS_Product DEF Chunks, PtyIds
  <2>3. Outputs \subseteq Chunks
    BY <1>1, Typed DEF Outputs, Chunks
  <2>4. QED BY <2>2, <2>3, FS_Subset
<1>5. Outputs' = Outputs \cup {<<p, n>>}
  <2> DEFINE of(f, q) == {q} \X (1 .. f[q])
  <2>1. of(written', p) = of(written, p) \cup {<<p, n>>}
    <3>1. 1 .. n = (1 .. written[p]) \cup {n}
      BY <1>2
    <3>2. QED BY <1>3, <3>1
  <2>2. \A q \in 1 .. created : q # p => of(written', q) = of(written, q)
    BY <1>3
  <2>3. Outputs = UNION {of(written, q) : q \in 1 .. created}
        /\ Outputs' = UNION {of(written', q) : q \in 1 .. created}
    BY <1>1, <1>3 DEF Outputs
  <2> HIDE DEF of
  <2>4. QED BY <2>1, <2>2, <2>3
<1>6. IsFiniteSet(Outputs') /\ Cardinality(Outputs) \in Nat
      /\ Cardinality(Outputs') <= Cardinality(Outputs) + 1
  <2> DEFINE more == Outputs \cup {<<p, n>>}
  <2>1. Cardinality(Outputs) \in Nat
    BY <1>4, FS_CardinalityType
  <2>2. /\ IsFiniteSet(more)
        /\ Cardinality(more) = Cardinality(Outputs) \/ Cardinality(more) = Cardinality(Outputs) + 1
    BY <1>4, FS_AddElement
  <2>3. Outputs' = more
    BY <1>5
  <2> HIDE DEF more
  <2>4. Cardinality(more) <= Cardinality(Outputs) + 1
    BY <2>1, <2>2
  <2>5. QED BY <2>1, <2>2, <2>3, <2>4
<1>7. Cardinality(Outputs') <= MaxOutput /\ Cardinality(Outputs') \in Nat
  <2>1. Cardinality(Outputs') \in Nat
    BY <1>6, FS_CardinalityType
  <2>2. QED BY <1>1, <1>6, <2>1
<1>8. Cardinality({p} \X (1 .. n)) = n
  <2>1. IsFiniteSet(1 .. n) /\ Cardinality(1 .. n) = n
    BY <1>2, FS_Interval
  <2>2. IsFiniteSet({p}) /\ Cardinality({p}) = 1
    BY FS_Singleton
  <2>3. Cardinality({p} \X (1 .. n)) = 1 * n
    BY <2>1, <2>2, FS_Product
  <2>4. QED BY <1>2, <2>3
<1>9. {p} \X (1 .. n) \subseteq Outputs'
  BY <1>3 DEF Outputs
<1>10. n <= MaxOutput
  <2>1. n <= Cardinality(Outputs')
    BY <1>6, <1>8, <1>9, FS_Subset
  <2>2. QED BY <1>1, <1>2, <1>7, <2>1
<1>11. n \in 1 .. MaxOutput
  BY <1>1, <1>2, <1>10
<1>12. QED BY <1>7, <1>11 DEF n

\* A buffer goes on with the next chunk, and drops its first at the limit.
LEMMA BufferNext ==
  ASSUME NEW n \in 1 .. MaxOutput, NEW old,
         IF old = << >> THEN n = 1 ELSE BufferOK(old, n - 1)
  PROVE  /\ BufferOK(AppendToBuffer(old, n), n)
         /\ \A i \in 1 .. Len(AppendToBuffer(old, n)) :
              \/ AppendToBuffer(old, n)[i] = n
              \/ \E k \in 1 .. Len(old) : AppendToBuffer(old, n)[i] = old[k]
<1> DEFINE all == Append(old, n)
           first == IF Len(all) > MaxBuffer THEN 2 ELSE 1
           b == SubSeq(all, first, Len(all))
           L == Len(old)
<1>1. MaxOutput \in Nat /\ MaxBuffer \in Nat \ {0} /\ n \in Nat
  BY TerminalWindowAssumption
<1>2. old \in Seq(1 .. MaxOutput) /\ L \in Nat /\ (old # << >> => L > 0)
      /\ \A i \in 1 .. L : old[i] = (n - 1) - L + i
      /\ (old = << >> => n = 1)
  <2>1. CASE old = << >>
    BY <2>1, EmptySeq
  <2>2. CASE old # << >>
    BY <2>2, EmptySeq, LenProperties DEF BufferOK
  <2>3. QED BY <2>1, <2>2
<1>3. /\ all \in Seq(1 .. MaxOutput) /\ Len(all) = L + 1 /\ all[L + 1] = n
      /\ \A i \in 1 .. L : all[i] = old[i]
  BY <1>2, AppendProperties
<1> HIDE DEF all, L
<1>4. first \in Nat /\ first <= L + 1 /\ 1 <= first
  BY <1>1, <1>2, <1>3
<1> HIDE DEF first
<1>5. \A i \in 1 .. L + 1 : all[i] = n - (L + 1) + i /\ all[i] \in 1 .. MaxOutput
  <2>1. ASSUME NEW i \in 1 .. L + 1 PROVE all[i] = n - (L + 1) + i /\ all[i] \in 1 .. MaxOutput
    <3>1. all[i] \in 1 .. MaxOutput
      BY <1>3, ElementOfSeq
    <3>2. CASE i = L + 1
      BY <1>1, <1>2, <1>3, <3>1, <3>2
    <3>3. CASE i # L + 1
      <4>1. i \in 1 .. L
        BY <1>2, <3>3
      <4>2. all[i] = (n - 1) - L + i
        BY <1>2, <1>3, <4>1
      <4>3. QED BY <1>1, <1>2, <3>1, <4>1, <4>2
    <3>4. QED BY <3>2, <3>3
  <2>2. QED BY <2>1
<1>6. /\ b \in Seq(1 .. MaxOutput) /\ Len(b) = (L + 1) - first + 1
      /\ \A i \in 1 .. (L + 1) - first + 1 : b[i] = all[first + i - 1]
  <2>1. first \in Int /\ L + 1 \in Int /\ \A i \in first .. L + 1 : all[i] \in 1 .. MaxOutput
    BY <1>2, <1>4, <1>5
  <2>2. QED BY <1>2, <1>3, <1>4, <2>1, SubSeqProperties
<1> HIDE DEF b
<1>7. ASSUME NEW i \in 1 .. Len(b)
      PROVE  b[i] = n - Len(b) + i /\ (b[i] = n \/ \E k \in 1 .. L : b[i] = old[k])
  <2> DEFINE k == first + i - 1
  <2>1. i \in Nat /\ i \in 1 .. (L + 1) - first + 1 /\ k \in 1 .. L + 1 /\ (k # L + 1 => k \in 1 .. L)
    BY <1>2, <1>4, <1>6
  <2>2. b[i] = all[k]
    BY <1>6, <2>1
  <2>3. n - (L + 1) + k = n - Len(b) + i
    BY <1>1, <1>2, <1>4, <1>6, <2>1
  <2> HIDE DEF k
  <2>4. b[i] = n \/ \E h \in 1 .. L : b[i] = old[h]
    BY <1>3, <2>1, <2>2
  <2>5. QED BY <1>5, <2>1, <2>2, <2>3, <2>4
<1>8. b # << >>
  <2>1. Len(b) > 0 /\ Len(<< >>) = 0
    BY <1>2, <1>4, <1>6
  <2>2. QED BY <2>1
<1>9. BufferOK(b, n)
  BY <1>6, <1>7, <1>8 DEF BufferOK
<1>10. AppendToBuffer(old, n) = b
  BY DEF AppendToBuffer, b, first, all
<1>11. QED BY <1>7, <1>9, <1>10 DEF L

\* The next chunk of a pane continues its channel's stream, and no other.
LEMMA DataContinues ==
  ASSUME NEW c, NEW d, NEW p, NEW n \in Nat, NEW k \in Nat
  PROVE  /\ Continues(<<Data(c, <<p, n + 1>>)>>, c, n, n + 1)
         /\ d # c => Continues(<<Data(c, <<p, n + 1>>)>>, d, k, k)
<1> DEFINE t == <<Data(c, <<p, n + 1>>)>>
<1>1. Len(t) = 1 /\ t[1].type = "data" /\ t[1].channel = c /\ t[1].chunk[2] = n + 1
  BY DEF Data
<1> HIDE DEF t
<1>2. \A i \in 1 .. Len(t) : i = 1
  BY <1>1
<1>3. On(t, c, 1) /\ 1 \in 1 .. Len(t) /\ (d # c => \A j \in 1 .. Len(t) : ~ On(t, d, j))
  BY <1>1, <1>2 DEF On
<1>4. \A i, j \in 1 .. Len(t) : ~ (i < j)
  BY <1>2
<1>5. Continues(t, c, n, n + 1)
  BY <1>1, <1>2, <1>3, <1>4 DEF Continues
<1>6. d # c => Continues(t, d, k, k)
  BY <1>3 DEF Continues
<1>7. QED BY <1>5, <1>6 DEF t

\* A chunk of output is kept, and sent on the channel of its pane.
LEMMA OutputKeeps ==
  ASSUME IInv, NEW p \in PtyIds, Output(p)
  PROVE  IInv'
<1> DEFINE n == written[p] + 1
           c == IF p \in terminals THEN channels.ptyToChannel[p] ELSE closing[p]
           old == IF p \in DOMAIN outputBuffers THEN outputBuffers[p] ELSE << >>
           b == AppendToBuffer(old, n)
           x == <<p, n>>
           t == <<Data(c, x)>>
<1>1. /\ written' = [written EXCEPT ![p] = n]
      /\ outputBuffers' = Put(outputBuffers, p, b)
      /\ IF Attached THEN Send(t) ELSE UNCHANGED wire
      /\ UNCHANGED <<created, place, channels, terminals, closing, owners, untold, client,
                     window>>
      /\ Cardinality(Outputs) < MaxOutput /\ p \in terminals \cup DOMAIN closing
  BY DEF Output
<1>2. /\ p \in 1 .. created /\ c \in Channels /\ p \in owners[c]
      /\ terminals = DOMAIN channels.ptyToChannel
      /\ p \in DOMAIN channels.ptyToChannel => c = channels.ptyToChannel[p]
  BY <1>1 DEF IInv, PanesOK, Given
<1>3. n \in 1 .. MaxOutput /\ Cardinality(Outputs') <= MaxOutput
      /\ written[p] \in Nat /\ n - 1 = written[p]
  <2>1. written[p] + 1 \in 1 .. MaxOutput /\ Cardinality(Outputs') <= MaxOutput
    BY <1>1, <1>2, OutputMore
  <2>2. written[p] \in Nat
    BY <1>2, Typed
  <2>3. (written[p] + 1) - 1 = written[p]
    BY <2>2
  <2>4. QED BY <2>1, <2>2, <2>3
<1>4. IF old = << >> THEN n = 1 ELSE BufferOK(old, n - 1)
  <2>1. p \notin DOMAIN outputBuffers => written[p] = 0
    BY <1>2 DEF IInv, OutputOK
  <2>2. p \in DOMAIN outputBuffers => BufferOK(outputBuffers[p], written[p])
    BY DEF IInv, OutputOK
  <2>3. p \in DOMAIN outputBuffers => old # << >>
    BY <2>2 DEF BufferOK
  <2> HIDE DEF b, x, t
  <2>4. QED BY <1>3, <2>1, <2>2, <2>3
<1> HIDE DEF n, old
<1>5. /\ BufferOK(b, n)
      /\ \A i \in 1 .. Len(b) : b[i] = n \/ \E k \in 1 .. Len(old) : b[i] = old[k]
  <2>1. /\ n \in 1 .. MaxOutput
        /\ IF old = << >> THEN n = 1 ELSE BufferOK(old, n - 1)
    BY <1>3, <1>4
  <2>2. QED BY ONLY <2>1, BufferNext
<1> HIDE DEF c, b
<1>6. /\ t \in Seq(Messages) /\ Len(t) = 1 /\ t[1] = Data(c, x)
      /\ ~ IsLayout(t, 1) /\ \A i \in 1 .. Len(t) : i = 1 /\ MessageOK(t[i], created, owners)
  <2>1. Data(c, x) \in Messages
    BY <1>2, <1>3 DEF Data, Messages, DataMessages, Chunks
  <2>2. t \in Seq(Messages) /\ Len(t) = 1 /\ t[1] = Data(c, x)
    BY <2>1
  <2>3. MessageOK(Data(c, x), created, owners) /\ Data(c, x).type = "data"
    BY <1>2 DEF MessageOK, Data
  <2>4. \A i \in 1 .. Len(t) : i = 1
    BY <2>2
  <2> HIDE DEF t
  <2>5. QED BY <2>2, <2>3, <2>4 DEF IsLayout
<1>7. /\ client' = client /\ seen' = seen /\ owners' = owners /\ created' = created
      /\ channels' = channels /\ place' = place /\ state' = state /\ untold' = untold
  BY <1>1 DEF window
<1>8. (PanesOK /\ OwnersOK)'
  BY <1>1 DEF IInv, PanesOK, OwnersOK
<1>9. OutputOK'
  <2>1. /\ written \in [1 .. created -> 0 .. MaxOutput]
        /\ DOMAIN outputBuffers \subseteq 1 .. created
        /\ \A q \in DOMAIN outputBuffers : BufferOK(outputBuffers[q], written[q])
        /\ \A q \in 1 .. created : q \notin DOMAIN outputBuffers => written[q] = 0
    BY DEF IInv, OutputOK
  <2>2. n \in 0 .. MaxOutput
    BY <1>3
  <2>3. written' \in [1 .. created -> 0 .. MaxOutput]
        /\ \A q \in 1 .. created : written'[q] = IF q = p THEN n ELSE written[q]
    BY <1>1, <1>2, <2>1, <2>2
  <2>4. DOMAIN outputBuffers' = DOMAIN outputBuffers \cup {p}
        /\ \A q \in DOMAIN outputBuffers' : outputBuffers'[q] = IF q = p THEN b ELSE outputBuffers[q]
    BY <1>1 DEF Put
  <2>5. \A q \in DOMAIN outputBuffers' : BufferOK(outputBuffers'[q], written'[q])
    BY <1>2, <1>5, <2>1, <2>3, <2>4
  <2>6. \A q \in 1 .. created' : q \notin DOMAIN outputBuffers' => written'[q] = 0
    BY <1>7, <2>1, <2>3, <2>4
  <2>7. DOMAIN outputBuffers' \subseteq 1 .. created'
    BY <1>2, <1>7, <2>1, <2>4
  <2>8. QED BY <1>3, <1>7, <2>3, <2>5, <2>6, <2>7 DEF OutputOK
<1>10. (ClientOK /\ StreamsOK /\ ViewOK)'
  <2>1. ~ Attached => wire' = wire
    BY <1>1
  <2>2. created' \in Nat /\ created <= created' /\ \A d \in Channels : owners[d] \subseteq owners'[d]
    BY <1>7, Typed
  <2>3. UNCHANGED <<window, client>>
    BY <1>1
  <2>4. QED BY <2>1, <2>2, <2>3, WindowKept
<1>11. Attached' = Attached
  BY <1>7 DEF Attached
\* Attached, the window is sent the chunk.
<1>12. CASE Attached
  <2> HIDE DEF t, x
  <2>1. wire' = wire \o t /\ Len(wire) + Len(t) <= MaxWire
    BY <1>1, <1>12 DEF Send
  <2>2. wire \in Seq(Messages) /\ \A i \in 1 .. Len(wire) : MessageOK(wire[i], created, owners)
    BY Typed
  <2>3. WireOK'
    <3>1. wire' \in Seq(Messages) /\ Len(wire') <= MaxWire
      BY <1>6, <2>1, <2>2, WireConcat
    <3>2. \A i \in DOMAIN wire' : MessageOK(wire'[i], created, owners)
      BY <1>6, <2>1, <2>2, WireOKConcat
    <3>3. QED BY <1>7, <3>1, <3>2 DEF WireOK
  <2>4. LayoutTold'
    <3>1. Latest(state, wire, channels, place, untold)
      BY <1>12 DEF IInv, LayoutTold
    <3>2. \A i \in 1 .. Len(t) : ~ IsLayout(t, i)
      BY <1>6
    <3>3. Latest(state, wire', channels, place, untold)
      BY <1>6, <2>1, <2>2, <3>1, <3>2, LatestConcat
    <3>4. QED BY <1>7, <3>3 DEF LayoutTold
  <2>5. Delivered'
    <3> DEFINE to(q) == channels.ptyToChannel[q]
    <3>1. ASSUME client = "greeted", NEW q \in DOMAIN outputBuffers' \cap DOMAIN channels.ptyToChannel,
                 NEW i \in 1 .. Len(outputBuffers'[q])
          PROVE  Reached(seen[to(q)], wire', to(q), <<q, outputBuffers'[q][i]>>)
      <4>1. ASSUME q \in DOMAIN outputBuffers, NEW k \in 1 .. Len(outputBuffers[q])
            PROVE  Reached(seen[to(q)], wire', to(q), <<q, outputBuffers[q][k]>>)
        <5>1. Reached(seen[to(q)], wire, to(q), <<q, outputBuffers[q][k]>>)
          BY <3>1, <4>1 DEF IInv, Delivered
        <5>2. QED BY <1>6, <2>1, <2>2, <5>1, ReachedConcat
      <4>2. CASE q # p
        BY <1>1, <3>1, <4>1, <4>2 DEF Put
      <4>3. CASE q = p
        <5>1. outputBuffers'[q] = b /\ to(q) = c
          BY <1>1, <1>2, <3>1, <4>3 DEF Put
        <5>2. Reached(seen[c], wire', c, x)
          BY <1>6, <2>1, <2>2, ReachedNew
        <5>3. CASE b[i] = n
          BY <4>3, <5>1, <5>2, <5>3 DEF x
        <5>4. CASE \E k \in 1 .. Len(old) : b[i] = old[k]
          <6>1. PICK k \in 1 .. Len(old) : b[i] = old[k]
            BY <5>4
          <6>2. p \in DOMAIN outputBuffers /\ old = outputBuffers[p]
            BY <6>1, EmptySeq DEF old
          <6>3. QED BY <4>1, <4>3, <5>1, <6>1, <6>2
        <5>5. QED BY <1>5, <3>1, <5>1, <5>3, <5>4
      <4>4. QED BY <4>2, <4>3
    <3>2. QED BY <1>7, <3>1 DEF Delivered
  <2>6. StreamOK'
    <3>1. ASSUME NEW d \in Channels, NEW q \in 1 .. created, owners[d] = {q}
          PROVE  Flow(seen[d], wire', d, written'[q])
      <4>1. Flow(seen[d], wire, d, written[q]) /\ seen[d] \in Seq(Chunks) /\ written[q] \in Nat
        BY <3>1, Typed DEF IInv, StreamOK
      <4>2. CASE q = p
        <5>1. d = c
          BY <1>2, <3>1, <4>2 DEF IInv, OwnersOK
        <5>2. Continues(t, d, written[q], n) /\ n \in Nat
          BY <1>3, <4>2, <5>1, DataContinues DEF t, x, n
        <5>3. written'[q] = n
          BY <1>1, <1>2, <4>2 DEF IInv, OutputOK
        <5>4. QED BY <1>6, <2>1, <2>2, <4>1, <5>2, <5>3, FlowConcat
      <4>3. CASE q # p
        <5>1. d # c
          BY <1>2, <3>1, <4>3
        <5>2. Continues(t, d, written[q], written[q])
          BY <1>3, <4>1, <5>1, DataContinues DEF t, x, n
        <5>3. written'[q] = written[q]
          BY <1>1, <3>1, <4>3 DEF IInv, OutputOK
        <5>4. QED BY <1>6, <2>1, <2>2, <4>1, <5>2, <5>3, FlowConcat
      <4>4. QED BY <4>2, <4>3
    <3>2. QED BY <1>7, <3>1 DEF StreamOK
  <2>7. QED BY <1>8, <1>9, <1>10, <2>3, <2>4, <2>5, <2>6 DEF IInv
<1>13. CASE ~ Attached
  <2>1. wire' = wire /\ wire = << >> /\ seen = Empty /\ client # "greeted"
    BY <1>1, <1>13 DEF IInv, ClientOK, Attached
  <2>2. WireOK' /\ LayoutTold' /\ Delivered'
    BY <1>7, <1>11, <1>13, <2>1 DEF IInv, WireOK, LayoutTold, Delivered
  <2>3. StreamOK'
    <3>1. ASSUME NEW d \in Channels, NEW m PROVE Flow(seen[d], wire', d, m)
      <4>1. seen[d] = << >> /\ wire' \in Seq(Messages) /\ \A j \in 1 .. Len(wire') : FALSE
        BY <2>1, EmptySeq DEF Empty
      <4>2. QED BY <4>1, FlowEmpty
    <3>2. QED BY <1>7, <3>1 DEF StreamOK
  <2>4. QED BY <1>8, <1>9, <1>10, <2>2, <2>3 DEF IInv
<1>14. QED BY <1>12, <1>13

\* A closing socket delivers no more: its listener's channel is forgotten.
LEMMA SocketClosedKeeps ==
  ASSUME IInv, NEW p \in PtyIds, SocketClosed(p)
  PROVE  IInv'
<1>1. /\ closing' = Drop(closing, {p})
      /\ UNCHANGED <<created, place, channels, terminals, outputBuffers, written, owners,
                     untold, client, wire, window>>
  BY DEF SocketClosed
<1>2. /\ closing' \in PartialFcn(PtyIds, Channels) /\ DOMAIN closing' \subseteq DOMAIN closing
      /\ \A q \in DOMAIN closing' : closing'[q] = closing[q]
  <2>1. closing' \in PartialFcn(PtyIds, Channels)
    BY <1>1, DropType DEF IInv, PanesOK
  <2>2. QED BY <1>1, <2>1 DEF Drop
<1>3. PanesOK'
  BY <1>1, <1>2 DEF IInv, PanesOK, Given
<1>4. (OwnersOK /\ OutputOK /\ WireOK)'
  BY <1>1 DEF IInv, OwnersOK, OutputOK, Outputs, WireOK
<1>5. (ClientOK /\ StreamsOK /\ ViewOK)'
  BY <1>1 DEF IInv, ClientOK, Attached, StreamsOK, StreamKept, ViewOK, window
<1>6. (LayoutTold /\ Delivered /\ StreamOK)'
  BY <1>1 DEF IInv, LayoutTold, Attached, Delivered, StreamOK, window
<1>7. QED BY <1>3, <1>4, <1>5, <1>6 DEF IInv

\* A step of the window leaves what the server holds.
LEMMA ServerKept ==
  ASSUME IInv, UNCHANGED kept, untold' \in {untold, {}}
  PROVE  /\ (PanesOK /\ OwnersOK /\ OutputOK)'
         /\ created' = created /\ place' = place /\ channels' = channels
         /\ outputBuffers' = outputBuffers /\ written' = written /\ owners' = owners
<1>1. UNCHANGED <<created, place, channels, terminals, closing, outputBuffers, written, owners>>
  BY DEF kept
<1>2. PanesOK'
  <2>1. untold' \subseteq DOMAIN place
    BY DEF IInv, PanesOK
  <2>2. QED BY <1>1, <2>1 DEF IInv, PanesOK
<1>3. (OwnersOK /\ OutputOK)'
  BY <1>1 DEF IInv, OwnersOK, OutputOK, Outputs
<1>4. QED BY <1>1, <1>2, <1>3

\* What the server's map and places are at any time can be told.
LEMMA LayoutSent ==
  ASSUME IInv
  PROVE  Describes(channels, place, created, owners) /\ Layout = LayoutOf(channels, place)
BY DEF IInv, PanesOK, Describes, Layout, LayoutOf

\* A window that is not connected has neither messages nor output.
LEMMA NotAttached ==
  ASSUME IInv, ~ Attached
  PROVE  /\ state = Null /\ wire = << >> /\ view = EmptyMap
         /\ terminalBuffers = Empty /\ seen = Empty /\ drawn = Empty
         /\ \A c \in Channels : seen[c] = << >>
         /\ wire \in Seq(Messages) /\ Len(wire) = 0
BY EmptySeq, Typed DEF IInv, ClientOK, Empty

\* fetch: the window's socket is accepted.
LEMMA JoinKeeps ==
  ASSUME IInv, Join
  PROVE  IInv'
<1>1. /\ client = "none" /\ client' = "open" /\ ~ Attached /\ Attached'
      /\ IF created = 0 THEN wire' = wire ELSE Send(<<Layout>>)
      /\ state' = [channels |-> EmptyMap, place |-> EmptyMap]
      /\ untold' = {} /\ UNCHANGED <<kept, view, terminalBuffers, seen, drawn>>
  BY DEF Join, Attached
<1>2. /\ (PanesOK /\ OwnersOK /\ OutputOK)'
      /\ created' = created /\ place' = place /\ channels' = channels
      /\ outputBuffers' = outputBuffers /\ written' = written /\ owners' = owners
  BY <1>1, ServerKept DEF server
<1>3. wire = << >> /\ wire \in Seq(Messages) /\ Len(wire) = 0 /\ DOMAIN EmptyMap = {}
      /\ \A i \in 1 .. Len(wire) : MessageOK(wire[i], created, owners)
  BY <1>1, NotAttached, Typed DEF EmptyMap
<1>4. ClientOK'
  <2>1. EmptyMap \in PartialFcn(PtyIds, Channels) /\ EmptyMap \in PartialFcn(PtyIds, 0 .. MaxPtys)
    BY EmptyType
  <2>2. state' \in States
    BY <1>1, <2>1 DEF States
  <2>3. LayoutOK(state', created, owners)
    BY <1>1, <1>3 DEF LayoutOK, Given
  <2>4. QED BY <1>1, <1>2, <2>2, <2>3 DEF ClientOK
<1>5. (StreamsOK /\ ViewOK)'
  BY <1>1, <1>2 DEF IInv, StreamsOK, StreamKept, ViewOK
<1>6. Delivered'
  BY <1>1 DEF Delivered
<1>7. /\ WireOK' /\ LayoutTold'
      /\ \A t \in Seq(Chunks), c \in Channels, k \in Nat :
           Flow(t, wire, c, k) => Flow(t, wire', c, k)
  <2>1. CASE created = 0
    <3>1. wire' = wire /\ 1 .. created = {}
      BY <1>1, <2>1
    <3>2. DOMAIN place = {} /\ DOMAIN channels.ptyToChannel = {}
      BY <3>1 DEF IInv, PanesOK
    <3>3. place = EmptyMap /\ channels.ptyToChannel = EmptyMap
      <4>1. place \in [DOMAIN place -> 0 .. MaxPtys]
        BY DEF IInv, PanesOK, PartialFcn
      <4>2. channels.ptyToChannel \in [DOMAIN channels.ptyToChannel -> Channels]
        BY TerminalWindowAssumption DEF IInv, PanesOK, Sound, ChannelMapType, PartialFcn
      <4>3. QED BY <3>2, <4>1, <4>2 DEF EmptyMap
    <3>4. Latest(state', wire, channels, place, {})
      BY <1>1, <1>3, <3>3 DEF Latest, Tells
    <3>5. QED BY <1>1, <1>2, <3>1, <3>4 DEF IInv, WireOK, LayoutTold
  <2>2. CASE created # 0
    <3> DEFINE u == wire \o <<LayoutOf(channels, place)>>
    <3>1. Len(wire) + Len(<<Layout>>) <= MaxWire /\ wire' = u
      BY <1>1, <2>2, LayoutSent DEF Send
    <3>2. /\ u \in Seq(Messages)
          /\ \A i \in DOMAIN u : MessageOK(u[i], created, owners)
          /\ \A st : Latest(st, u, channels, place, {})
          /\ \A s \in Seq(Chunks), c \in Channels, k \in Nat :
               Flow(s, wire, c, k) => Flow(s, u, c, k)
      BY <1>3, LayoutSent, BroadcastWire
    <3>3. Len(u) <= MaxWire
      <4>1. <<Layout>> \in Seq(Messages)
        BY LayoutSent, LayoutOfOK
      <4>2. Len(wire \o <<Layout>>) = Len(wire) + Len(<<Layout>>)
        BY <1>3, <4>1, WireConcat
      <4>3. QED BY <3>1, <4>2, LayoutSent
    <3> HIDE DEF u
    <3>4. QED BY <1>1, <1>2, <3>1, <3>2, <3>3 DEF WireOK, LayoutTold
  <2>3. QED BY <2>1, <2>2
<1>8. StreamOK'
  <2>1. ASSUME NEW c \in Channels, NEW p \in 1 .. created, owners[c] = {p}
        PROVE  Flow(seen[c], wire', c, written[p])
    <3>1. Flow(seen[c], wire, c, written[p])
      BY <2>1 DEF IInv, StreamOK
    <3>2. QED BY <1>7, <3>1, Typed
  <2>2. seen' = seen
    BY <1>1
  <2>3. QED BY <1>2, <2>1, <2>2 DEF StreamOK
<1>9. QED BY <1>2, <1>4, <1>5, <1>6, <1>7, <1>8 DEF IInv

\* handleConnect: the buffers are replayed, and the layout follows.
LEMMA HandleConnectKeeps ==
  ASSUME IInv, HandleConnect
  PROVE  IInv'
<1> DEFINE R == ReplayBuffers
           w1 == wire \o R
           l == LayoutOf(channels, place)
           u == w1 \o <<l>>
<1>1. /\ client = "open" /\ client' = "greeted" /\ Attached /\ Attached'
      /\ Send(Append(R, l))
      /\ untold' = {} /\ UNCHANGED <<kept, window>>
  BY LayoutSent DEF HandleConnect, Attached
<1>2. /\ (PanesOK /\ OwnersOK /\ OutputOK)'
      /\ created' = created /\ place' = place /\ channels' = channels
      /\ outputBuffers' = outputBuffers /\ written' = written /\ owners' = owners
  BY <1>1, ServerKept DEF server
<1>3. state' = state /\ view' = view /\ terminalBuffers' = terminalBuffers
      /\ seen' = seen /\ drawn' = drawn
  BY <1>1 DEF window
<1>4. Replays(R, MaxPtys) /\ R \in Seq(Messages)
  BY ReplayIs DEF Replays, IInv
<1>5. l \in Messages /\ <<l>> \in Seq(Messages)
  BY LayoutSent, LayoutOfOK
<1>6. wire \in Seq(Messages) /\ \A i \in 1 .. Len(wire) : MessageOK(wire[i], created, owners)
  BY Typed
<1>7. ASSUME NEW j \in 1 .. Len(R) PROVE MessageOK(R[j], created, owners)
  <2>1. PICK q \in Kept : \E k \in 1 .. Len(outputBuffers[q]) : R[j] = Chunk(q, k)
    BY <1>4 DEF Replays, IsChunk
  <2>2. PICK k \in 1 .. Len(outputBuffers[q]) : R[j] = Chunk(q, k)
    BY <2>1
  <2>3. /\ R[j].type = "data" /\ R[j].channel = channels.ptyToChannel[q]
        /\ R[j].chunk[1] = q
    BY <2>2 DEF Chunk, Data
  <2>4. q \in owners[channels.ptyToChannel[q]]
    BY DEF IInv, PanesOK, Given, Kept
  <2>5. QED BY <2>3, <2>4 DEF MessageOK
<1>8. w1 \in Seq(Messages) /\ \A i \in DOMAIN w1 : MessageOK(w1[i], created, owners)
  BY <1>4, <1>6, <1>7, WireConcat, WireOKConcat
<1>9. DOMAIN w1 = 1 .. Len(w1)
  BY <1>8, WireIs
<1>10. /\ u \in Seq(Messages)
       /\ \A i \in DOMAIN u : MessageOK(u[i], created, owners)
       /\ \A st : Latest(st, u, channels, place, {})
       /\ \A s \in Seq(Chunks), c \in Channels, k \in Nat : Flow(s, w1, c, k) => Flow(s, u, c, k)
       /\ \A s, c, x : Reached(s, w1, c, x) => Reached(s, u, c, x)
  <2>1. w1 \in Seq(Messages) /\ \A i \in 1 .. Len(w1) : MessageOK(w1[i], created, owners)
    BY <1>8, <1>9
  <2>2. Describes(channels, place, created, owners)
    BY LayoutSent
  <2> HIDE DEF w1
  <2>3. QED BY <2>1, <2>2, BroadcastWire
<1>11. wire' = u /\ Len(u) <= MaxWire
  <2> HIDE DEF R, l
  <2>1. Append(R, l) = R \o <<l>> /\ Append(R, l) \in Seq(Messages)
    BY <1>4, <1>5, AppendIsConcat, AppendProperties
  <2>2. wire \o (R \o <<l>>) = (wire \o R) \o <<l>>
    BY <1>4, <1>5, <1>6, ConcatAssociative
  <2>3. Len(wire) + Len(Append(R, l)) <= MaxWire /\ wire' = wire \o Append(R, l)
    BY <1>1 DEF Send
  <2>4. Len(wire \o Append(R, l)) = Len(wire) + Len(Append(R, l))
    BY <1>6, <2>1, WireConcat
  <2>5. QED BY <2>1, <2>2, <2>3, <2>4
<1> HIDE DEF u
<1>12. (WireOK /\ LayoutTold)'
  BY <1>1, <1>2, <1>10, <1>11 DEF WireOK, LayoutTold
<1>13. (ClientOK /\ StreamsOK /\ ViewOK)'
  BY <1>1, <1>2, <1>3 DEF IInv, ClientOK, StreamsOK, StreamKept, ViewOK
<1>14. Delivered'
  <2>1. ASSUME NEW q \in DOMAIN outputBuffers \cap DOMAIN channels.ptyToChannel,
               NEW i \in 1 .. Len(outputBuffers[q])
        PROVE  Reached(seen[channels.ptyToChannel[q]], wire', channels.ptyToChannel[q],
                       <<q, outputBuffers[q][i]>>)
    <3>1. q \in Kept /\ q <= MaxPtys
      <4>1. q \in 1 .. created
        BY DEF IInv, OutputOK
      <4>2. QED BY <4>1, Typed DEF Kept
    <3>2. PICK j \in 1 .. Len(R) : R[j] = Chunk(q, i)
      BY <1>4, <3>1 DEF Replays
    <3>3. R[j] = Data(channels.ptyToChannel[q], <<q, outputBuffers[q][i]>>)
      BY <3>2 DEF Chunk
    <3> HIDE DEF R
    <3>4. Reached(seen[channels.ptyToChannel[q]], w1, channels.ptyToChannel[q],
                  <<q, outputBuffers[q][i]>>)
      BY <1>4, <1>6, <3>2, <3>3, ReachedNew
    <3>5. QED BY <1>10, <1>11, <3>4
  <2>2. QED BY <1>2, <1>3, <2>1 DEF Delivered
<1>15. StreamOK'
  <2>1. ASSUME NEW c \in Channels, NEW p \in 1 .. created, owners[c] = {p}
        PROVE  Flow(seen[c], wire', c, written[p])
    <3>1. Flow(seen[c], wire, c, written[p]) /\ written[p] \in Nat /\ seen[c] \in Seq(Chunks)
      BY <2>1, Typed DEF IInv, StreamOK
    <3>2. Continues(R, c, written[p], written[p])
      BY <2>1, ReplayContinues DEF IInv
    <3>3. Flow(seen[c], w1, c, written[p])
      <4> HIDE DEF R
      <4>1. QED BY <1>4, <1>6, <3>1, <3>2, FlowConcat
    <3>4. QED BY <1>10, <1>11, <3>1, <3>3
  <2>2. QED BY <1>2, <1>3, <2>1 DEF StreamOK
<1>16. QED BY <1>2, <1>12, <1>13, <1>14, <1>15 DEF IInv
-----------------------------------------------------------------------------
(* The window's steps *)

\* The first message and what it leaves behind.
LEMMA FirstMessage ==
  ASSUME IInv, wire # << >>
  PROVE  /\ Head(wire) = wire[1] /\ wire[1] \in Messages /\ 1 \in 1 .. Len(wire)
         /\ MessageOK(wire[1], created, owners)
         /\ Attached
         /\ Tail(wire) \in Seq(Messages) /\ Len(Tail(wire)) <= MaxWire
         /\ \A i \in DOMAIN Tail(wire) : MessageOK(Tail(wire)[i], created, owners)
<1> DEFINE t == Tail(wire)
<1>1. /\ wire \in Seq(Messages) /\ Len(wire) \in Nat \ {0}
      /\ \A i \in 1 .. Len(wire) : wire[i] \in Messages /\ MessageOK(wire[i], created, owners)
  BY Typed, EmptySeq
<1>2. Len(wire) <= MaxWire
  BY DEF IInv, WireOK
<1>3. 1 \in 1 .. Len(wire)
  BY <1>1
<1>4. t \in Seq(Messages) /\ Len(t) = Len(wire) - 1 /\ \A i \in 1 .. Len(t) : t[i] = wire[i + 1]
  BY <1>1, HeadTailProperties
<1> HIDE DEF t
<1>5. Len(t) <= MaxWire
  BY <1>1, <1>2, <1>4, TerminalWindowAssumption
<1>6. ASSUME NEW i \in DOMAIN t PROVE MessageOK(t[i], created, owners)
  <2>1. i \in 1 .. Len(t)
    BY <1>4, WireIs
  <2>2. i + 1 \in 1 .. Len(wire) /\ t[i] = wire[i + 1]
    BY <1>1, <1>4, <2>1
  <2>3. QED BY <1>1, <2>2
<1>7. Attached
  BY NotAttached
<1>8. Head(wire) = wire[1]
  OBVIOUS
<1>9. QED BY <1>1, <1>3, <1>4, <1>5, <1>6, <1>7, <1>8 DEF t

\* A pane's chunks that reached the window, or were under way, still do.
LEMMA ReceivedKeeps ==
  ASSUME IInv, wire # << >>, wire' = Tail(wire), UNCHANGED <<server, client>>,
         seen' \in [Channels -> Seq(Chunks)],
         \A c \in Channels : IF On(wire, c, 1) THEN seen'[c] = Append(seen[c], wire[1].chunk)
                                               ELSE seen'[c] = seen[c]
  PROVE  (Delivered /\ StreamOK)'
<1>1. /\ created' = created /\ channels' = channels /\ client' = client
      /\ outputBuffers' = outputBuffers /\ written' = written /\ owners' = owners
  BY ServerKept DEF server
<1>2. Delivered'
  <2>1. ASSUME client = "greeted", NEW q \in DOMAIN outputBuffers \cap DOMAIN channels.ptyToChannel,
               NEW i \in 1 .. Len(outputBuffers[q])
        PROVE  Reached(seen'[channels.ptyToChannel[q]], wire', channels.ptyToChannel[q],
                       <<q, outputBuffers[q][i]>>)
    <3> DEFINE c == channels.ptyToChannel[q]
               x == <<q, outputBuffers[q][i]>>
    <3>1. c \in Channels
      BY DEF IInv, PanesOK, Given
    <3>2. Reached(seen[c], wire, c, x)
      BY <2>1 DEF IInv, Delivered
    <3> HIDE DEF c, x
    <3>3. Reached(seen'[c], Tail(wire), c, x)
      BY <3>1, <3>2, ReachedTail, Typed
    <3>4. QED BY <3>3 DEF c, x
  <2>2. QED BY <1>1, <2>1 DEF Delivered
<1>3. StreamOK'
  <2>1. ASSUME NEW c \in Channels, NEW p \in 1 .. created, owners[c] = {p}
        PROVE  Flow(seen'[c], wire', c, written[p])
    <3>1. Flow(seen[c], wire, c, written[p]) /\ written[p] \in Nat
      BY <2>1, Typed DEF IInv, StreamOK
    <3>2. QED BY <3>1, FlowTail, Typed
  <2>2. QED BY <1>1, <2>1 DEF StreamOK
<1>4. QED BY <1>2, <1>3

\* handleServerMessage: the layout becomes the hook's state.
LEMMA ReceiveLayoutKeeps ==
  ASSUME IInv, ReceiveLayout
  PROVE  IInv'
<1>1. /\ wire # << >> /\ Head(wire) = wire[1] /\ wire[1].type = "layout"
      /\ state' = [channels |-> wire[1].channels, place |-> wire[1].place]
      /\ wire' = Tail(wire)
      /\ UNCHANGED <<server, client, view, terminalBuffers, seen, drawn>>
  BY FirstMessage DEF ReceiveLayout
<1>2. /\ (PanesOK /\ OwnersOK /\ OutputOK)'
      /\ created' = created /\ place' = place /\ channels' = channels
      /\ outputBuffers' = outputBuffers /\ written' = written /\ owners' = owners
  BY <1>1, ServerKept DEF server
<1>3. wire[1] \in LayoutMessages /\ LayoutOK(wire[1], created, owners) /\ Attached /\ Attached'
  <2>1. wire[1] \in Messages /\ MessageOK(wire[1], created, owners) /\ Attached
    BY <1>1, FirstMessage
  <2>2. QED BY <1>1, <2>1, MessageFields DEF MessageOK, Attached
<1>4. ClientOK'
  <2>1. /\ wire[1].channels \in PartialFcn(PtyIds, Channels)
        /\ wire[1].place \in PartialFcn(PtyIds, 0 .. MaxPtys)
    BY <1>3 DEF LayoutMessages
  <2>2. state' \in States
    BY <1>1, <2>1 DEF States
  <2>3. LayoutOK(state', created, owners)
    BY <1>1, <1>3 DEF LayoutOK
  <2>4. QED BY <1>1, <1>2, <1>3, <2>2, <2>3 DEF IInv, ClientOK
<1>5. (StreamsOK /\ ViewOK)'
  BY <1>1, <1>2 DEF IInv, StreamsOK, StreamKept, ViewOK
<1>6. WireOK'
  <2>1. /\ Tail(wire) \in Seq(Messages) /\ Len(Tail(wire)) <= MaxWire
        /\ \A i \in DOMAIN Tail(wire) : MessageOK(Tail(wire)[i], created, owners)
    BY <1>1, FirstMessage
  <2>2. QED BY <1>1, <1>2, <2>1 DEF WireOK
<1>7. LayoutTold'
  <2>1. Latest(state, wire, channels, place, untold) /\ IsLayout(wire, 1) /\ wire \in Seq(Messages)
    BY <1>1, <1>3, Typed DEF IInv, LayoutTold, IsLayout
  <2>2. state'.channels = wire[1].channels /\ state'.place = wire[1].place
    BY <1>1
  <2>3. Latest(state', Tail(wire), channels, place, untold)
    BY <1>1, <2>1, <2>2, LatestTail
  <2>4. QED BY <1>1, <1>2, <2>3 DEF LayoutTold, server
<1>8. (Delivered /\ StreamOK)'
  <2>1. \A c \in Channels : ~ On(wire, c, 1)
    BY <1>1 DEF On
  <2>2. seen' \in [Channels -> Seq(Chunks)] /\ seen' = seen
    BY <1>1 DEF IInv, StreamsOK
  <2>3. QED BY <1>1, <2>1, <2>2, ReceivedKeeps
<1>9. QED BY <1>2, <1>4, <1>5, <1>6, <1>7, <1>8 DEF IInv

\* A chunk more, behind the waiting ones or behind all.
LEMMA StreamMore ==
  ASSUME NEW a \in Seq(Chunks), NEW b \in Seq(Chunks), NEW x \in Chunks
  PROVE  a \o Append(b, x) = Append(a \o b, x)
<1>1. Append(b, x) = b \o <<x>> /\ <<x>> \in Seq(Chunks)
  BY AppendIsConcat
<1>2. a \o b \in Seq(Chunks)
  BY ConcatProperties
<1>3. Append(a \o b, x) = (a \o b) \o <<x>>
  BY <1>2, AppendIsConcat
<1>4. (a \o b) \o <<x>> = a \o (b \o <<x>>)
  BY <1>1, ConcatAssociative
<1>5. QED BY <1>1, <1>3, <1>4

\* What a terminal shows stays the end of what was received.
LEMMA SuffixMore ==
  ASSUME NEW t \in Seq(Chunks), NEW s \in Seq(Chunks), NEW x \in Chunks, Suffix(t, s)
  PROVE  Suffix(Append(t, x), Append(s, x))
<1> DEFINE tx == Append(t, x)
           sx == Append(s, x)
<1>1. /\ Len(t) \in Nat /\ Len(s) \in Nat /\ Len(tx) = Len(t) + 1 /\ Len(sx) = Len(s) + 1
      /\ tx[Len(t) + 1] = x /\ sx[Len(s) + 1] = x
      /\ \A i \in 1 .. Len(t) : tx[i] = t[i]
      /\ \A i \in 1 .. Len(s) : sx[i] = s[i]
  BY AppendProperties, LenProperties
<1>2. Len(t) <= Len(s) /\ \A i \in 1 .. Len(t) : t[i] = s[Len(s) - Len(t) + i]
  BY DEF Suffix
<1> HIDE DEF tx, sx
<1>3. ASSUME NEW i \in 1 .. Len(tx) PROVE tx[i] = sx[Len(sx) - Len(tx) + i]
  <2>1. Len(sx) - Len(tx) + i = Len(s) - Len(t) + i
    BY <1>1
  <2>2. CASE i = Len(t) + 1
    <3>1. Len(s) - Len(t) + i = Len(s) + 1
      BY <1>1, <2>2
    <3>2. QED BY <1>1, <2>1, <2>2, <3>1
  <2>3. CASE i # Len(t) + 1
    <3>1. i \in 1 .. Len(t) /\ Len(s) - Len(t) + i \in 1 .. Len(s)
      BY <1>1, <1>2, <2>3
    <3>2. QED BY <1>1, <1>2, <2>1, <3>1
  <2>4. QED BY <2>2, <2>3
<1>4. Len(tx) <= Len(sx)
  BY <1>1, <1>2
<1>5. Suffix(tx, sx)
  BY <1>3, <1>4 DEF Suffix
<1>6. QED BY <1>5 DEF tx, sx

\* What waited is the end of what was received.
LEMMA SuffixConcat ==
  ASSUME NEW a \in Seq(Chunks), NEW b \in Seq(Chunks)
  PROVE  Suffix(b, a \o b)
<1>1. /\ Len(a) \in Nat /\ Len(b) \in Nat /\ Len(a \o b) = Len(a) + Len(b)
      /\ \A i \in 1 .. Len(a) + Len(b) : (a \o b)[i] = IF i <= Len(a) THEN a[i] ELSE b[i - Len(a)]
  BY LenProperties, ConcatProperties
<1> DEFINE s == a \o b
<1> HIDE DEF s
<1>2. ASSUME NEW i \in 1 .. Len(b) PROVE b[i] = s[Len(s) - Len(b) + i]
  <2>1. /\ Len(s) - Len(b) + i = Len(a) + i /\ Len(a) + i \in 1 .. Len(a) + Len(b)
        /\ ~ (Len(a) + i <= Len(a)) /\ (Len(a) + i) - Len(a) = i
    BY <1>1 DEF s
  <2>2. s[Len(a) + i] = b[i]
    BY <1>1, <2>1 DEF s
  <2>3. QED BY <2>1, <2>2
<1>3. Len(b) <= Len(s)
  BY <1>1 DEF s
<1>4. QED BY <1>2, <1>3 DEF Suffix, s

\* A step of the window alone that leaves what it received and the wire.
LEMMA WireKept ==
  ASSUME IInv, UNCHANGED <<server, client, wire, state, seen>>
  PROVE  /\ (PanesOK /\ OwnersOK /\ OutputOK /\ WireOK /\ LayoutTold /\ Delivered /\ StreamOK)'
         /\ created' = created /\ owners' = owners /\ Attached' = Attached
<1>1. /\ (PanesOK /\ OwnersOK /\ OutputOK)'
      /\ created' = created /\ place' = place /\ channels' = channels
      /\ outputBuffers' = outputBuffers /\ written' = written /\ owners' = owners
  BY ServerKept DEF server
<1>2. Attached' = Attached
  BY DEF Attached
<1>3. (WireOK /\ LayoutTold)'
  BY <1>1, <1>2 DEF IInv, WireOK, LayoutTold, server
<1>4. (Delivered /\ StreamOK)'
  BY <1>1 DEF IInv, Delivered, StreamOK
<1>5. QED BY <1>1, <1>2, <1>3, <1>4

\* onmessage with terminal data.
LEMMA ReceiveDataKeeps ==
  ASSUME IInv, ReceiveData
  PROVE  IInv'
<1> DEFINE c == wire[1].channel
           x == wire[1].chunk
<1>1. /\ wire # << >> /\ wire[1].type = "data"
      /\ seen' = [seen EXCEPT ![c] = Append(@, x)]
      /\ IF Listening(c) # {}
           THEN /\ view' = [p \in DOMAIN view |->
                              IF p \in Listening(c)
                                THEN [view[p] EXCEPT !.shown = Append(@, x)] ELSE view[p]]
                /\ drawn' = [drawn EXCEPT ![c] = Append(@, x)]
                /\ UNCHANGED terminalBuffers
           ELSE /\ terminalBuffers' = [terminalBuffers EXCEPT ![c] = Append(@, x)]
                /\ UNCHANGED <<view, drawn>>
      /\ wire' = Tail(wire)
      /\ UNCHANGED <<server, client, state>>
  BY FirstMessage DEF ReceiveData
<1>2. /\ (PanesOK /\ OwnersOK /\ OutputOK)'
      /\ created' = created /\ place' = place /\ channels' = channels
      /\ outputBuffers' = outputBuffers /\ written' = written /\ owners' = owners
  BY <1>1, ServerKept DEF server
<1>3. c \in Channels /\ x \in Chunks /\ x[1] \in owners[c] /\ Attached /\ Attached'
      /\ On(wire, c, 1) /\ \A d : d # c => ~ On(wire, d, 1)
  <2>1. wire[1] \in Messages /\ MessageOK(wire[1], created, owners) /\ Attached
    BY <1>1, FirstMessage
  <2>2. wire[1] \in DataMessages
    BY <1>1, <2>1, MessageFields
  <2>3. QED BY <1>1, <2>1, <2>2 DEF MessageOK, Attached, DataMessages, On
<1>4. /\ terminalBuffers \in [Channels -> Seq(Chunks)]
      /\ seen \in [Channels -> Seq(Chunks)] /\ drawn \in [Channels -> Seq(Chunks)]
      /\ \A d \in Channels : drawn[d] \o terminalBuffers[d] = seen[d]
      /\ \A d \in Channels : \A i \in DOMAIN seen[d] : seen[d][i][1] \in owners[d]
      /\ DOMAIN view \subseteq 1 .. created
      /\ \A p \in DOMAIN view : MountOK(view[p], p, owners, terminalBuffers, seen)
  BY DEF IInv, StreamsOK, StreamKept, ViewOK
<1> HIDE DEF c, x
<1>5. /\ seen' \in [Channels -> Seq(Chunks)] /\ seen'[c] = Append(seen[c], x)
      /\ \A d \in Channels : d # c => seen'[d] = seen[d]
  <2>1. Append(seen[c], x) \in Seq(Chunks)
    BY <1>3, <1>4, AppendProperties
  <2>2. QED BY <1>1, <1>3, <1>4, <2>1
<1>6. (Delivered /\ StreamOK)'
  <2>1. \A d \in Channels : IF On(wire, d, 1) THEN seen'[d] = Append(seen[d], wire[1].chunk)
                                              ELSE seen'[d] = seen[d]
    BY <1>3, <1>5 DEF x
  <2>2. QED BY <1>1, <1>5, <2>1, ReceivedKeeps
<1>7. WireOK'
  <2>1. /\ Tail(wire) \in Seq(Messages) /\ Len(Tail(wire)) <= MaxWire
        /\ \A i \in DOMAIN Tail(wire) : MessageOK(Tail(wire)[i], created, owners)
    BY <1>1, FirstMessage
  <2>2. QED BY <1>1, <1>2, <2>1 DEF WireOK
<1>8. LayoutTold'
  <2>1. Latest(state, wire, channels, place, untold) /\ ~ IsLayout(wire, 1) /\ wire \in Seq(Messages)
    BY <1>1, <1>3, Typed DEF IInv, LayoutTold, IsLayout
  <2>2. Latest(state, Tail(wire), channels, place, untold)
    BY <1>1, <2>1, LatestTail
  <2>3. state' = state
    BY <1>1
  <2>4. QED BY <1>1, <1>2, <2>2, <2>3 DEF LayoutTold, server
<1>9. ClientOK'
  BY <1>1, <1>2, <1>3 DEF IInv, ClientOK
<1>10. ASSUME NEW d \in Channels, NEW i \in DOMAIN seen'[d] PROVE seen'[d][i][1] \in owners'[d]
  <2>1. CASE d # c
    BY <1>2, <1>4, <1>5, <1>10, <2>1
  <2>2. CASE d = c
    <3>1. /\ DOMAIN seen[c] = 1 .. Len(seen[c]) /\ Len(seen[c]) \in Nat
          /\ DOMAIN seen'[c] = 1 .. Len(seen'[c]) /\ Len(seen'[c]) = Len(seen[c]) + 1
          /\ seen'[c][Len(seen[c]) + 1] = x
          /\ \A k \in 1 .. Len(seen[c]) : seen'[c][k] = seen[c][k]
      BY <1>3, <1>4, <1>5, AppendProperties, LenProperties
    <3>2. i \in 1 .. Len(seen[c]) \/ i = Len(seen[c]) + 1
      BY <1>10, <2>2, <3>1
    <3>3. QED BY <1>2, <1>3, <1>4, <2>2, <3>1, <3>2
  <2>3. QED BY <2>1, <2>2
\* The terminals that listen are given the chunk.
<1>11. CASE Listening(c) # {}
  <2>1. PICK p \in DOMAIN view : view[p].phase = "ready" /\ view[p].channel = c
    BY <1>11 DEF Listening
  <2>2. terminalBuffers[c] = << >>
    BY <1>4, <2>1 DEF MountOK
  <2>3. drawn[c] = seen[c]
    <3>1. drawn[c] \in Seq(Chunks) /\ drawn[c] \o terminalBuffers[c] = seen[c]
      BY <1>3, <1>4
    <3>2. drawn[c] \o << >> = drawn[c]
      BY <3>1, ConcatEmptySeq
    <3>3. QED BY <2>2, <3>1, <3>2
  <2>4. /\ terminalBuffers' = terminalBuffers /\ drawn' \in [Channels -> Seq(Chunks)]
        /\ drawn'[c] = seen'[c] /\ \A d \in Channels : d # c => drawn'[d] = drawn[d]
    <3>1. terminalBuffers' = terminalBuffers /\ drawn' = [drawn EXCEPT ![c] = Append(@, x)]
      BY <1>1, <1>11
    <3>2. Append(drawn[c], x) = seen'[c] /\ seen'[c] \in Seq(Chunks)
      BY <1>3, <1>5, <2>3
    <3>3. drawn'[c] = Append(drawn[c], x) /\ \A d \in Channels : d # c => drawn'[d] = drawn[d]
      BY <1>3, <1>4, <3>1
    <3>4. drawn' \in [Channels -> Seq(Chunks)]
      BY <1>3, <1>4, <3>1, <3>2
    <3>5. QED BY <3>1, <3>2, <3>3, <3>4
  <2>5. StreamsOK'
    <3>1. ASSUME NEW d \in Channels PROVE drawn'[d] \o terminalBuffers'[d] = seen'[d]
      <4>1. CASE d = c
        BY <1>3, <1>5, <2>2, <2>4, <4>1, ConcatEmptySeq
      <4>2. CASE d # c
        BY <1>4, <1>5, <2>4, <4>2
      <4>3. QED BY <4>1, <4>2
    <3>2. QED BY <1>4, <1>5, <1>10, <2>4, <3>1 DEF StreamsOK, StreamKept
  <2>6. ViewOK'
    <3>1. DOMAIN view' = DOMAIN view
          /\ \A q \in DOMAIN view : view'[q] = IF q \in Listening(c)
               THEN [view[q] EXCEPT !.shown = Append(@, x)] ELSE view[q]
      BY <1>1, <1>11
    <3>2. ASSUME NEW q \in DOMAIN view
          PROVE  MountOK(view'[q], q, owners, terminalBuffers, seen')
      <4>1. MountOK(view[q], q, owners, terminalBuffers, seen)
        BY <1>4
      <4>2. CASE q \in Listening(c)
        <5>1. view[q].phase = "ready" /\ view[q].channel = c
          BY <4>2 DEF Listening
        <5>2. view[q] \in View /\ view[q].shown \in Seq(Chunks) /\ Suffix(view[q].shown, seen[c])
          BY <4>1, <5>1 DEF MountOK, View
        <5>3. Append(view[q].shown, x) \in Seq(Chunks)
              /\ Suffix(Append(view[q].shown, x), Append(seen[c], x))
          BY <1>3, <1>4, <5>2, AppendProperties, SuffixMore
        <5>4. view'[q] = [view[q] EXCEPT !.shown = Append(view[q].shown, x)]
          BY <3>1, <4>2, <5>2 DEF View
        <5>5. /\ view'[q] \in View /\ view'[q].shown = Append(view[q].shown, x)
              /\ view'[q].channel = c /\ view'[q].phase = "ready"
          BY <5>1, <5>2, <5>3, <5>4 DEF View
        <5>6. QED BY <1>5, <2>2, <4>1, <5>1, <5>3, <5>5 DEF MountOK
      <4>3. CASE q \notin Listening(c)
        <5>1. view'[q] = view[q] /\ view[q].channel \in Channels
          BY <3>1, <4>1, <4>3 DEF MountOK, View
        <5>2. view[q].phase = "ready" => view[q].channel # c
          BY <4>3 DEF Listening
        <5>3. view[q].phase = "ready" => seen'[view[q].channel] = seen[view[q].channel]
          BY <1>5, <5>1, <5>2
        <5>4. QED BY <4>1, <5>1, <5>3 DEF MountOK
      <4>4. QED BY <4>2, <4>3
    <3>3. QED BY <1>2, <1>4, <2>4, <3>1, <3>2 DEF ViewOK
  <2>7. QED BY <1>2, <1>6, <1>7, <1>8, <1>9, <2>5, <2>6 DEF IInv
\* No terminal listens: the chunk waits.
<1>12. CASE Listening(c) = {}
  <2>1. /\ view' = view /\ drawn' = drawn /\ terminalBuffers' \in [Channels -> Seq(Chunks)]
        /\ terminalBuffers'[c] = Append(terminalBuffers[c], x)
        /\ \A d \in Channels : d # c => terminalBuffers'[d] = terminalBuffers[d]
    <3>1. Append(terminalBuffers[c], x) \in Seq(Chunks)
      BY <1>3, <1>4, AppendProperties
    <3>2. QED BY <1>1, <1>3, <1>4, <1>12, <3>1
  <2>2. StreamsOK'
    <3>1. ASSUME NEW d \in Channels PROVE drawn'[d] \o terminalBuffers'[d] = seen'[d]
      <4>1. CASE d = c
        <5>1. /\ drawn[c] \in Seq(Chunks) /\ terminalBuffers[c] \in Seq(Chunks)
              /\ drawn[c] \o terminalBuffers[c] = seen[c]
          BY <1>3, <1>4
        <5>2. drawn[c] \o Append(terminalBuffers[c], x) = Append(drawn[c] \o terminalBuffers[c], x)
          BY <1>3, <5>1, StreamMore
        <5>3. QED BY <1>5, <2>1, <4>1, <5>1, <5>2
      <4>2. CASE d # c
        BY <1>4, <1>5, <2>1, <4>2
      <4>3. QED BY <4>1, <4>2
    <3>2. QED BY <1>4, <1>5, <1>10, <2>1, <3>1 DEF StreamsOK, StreamKept
  <2>3. ViewOK'
    <3>1. ASSUME NEW q \in DOMAIN view
          PROVE  MountOK(view[q], q, owners, terminalBuffers', seen')
      <4>1. MountOK(view[q], q, owners, terminalBuffers, seen) /\ view[q].channel \in Channels
        BY <1>4 DEF MountOK, View
      <4>2. view[q].phase = "ready" => view[q].channel # c
        BY <1>12 DEF Listening
      <4>3. view[q].phase = "ready" => /\ seen'[view[q].channel] = seen[view[q].channel]
                                       /\ terminalBuffers'[view[q].channel]
                                            = terminalBuffers[view[q].channel]
        BY <1>5, <2>1, <4>1, <4>2
      <4>4. QED BY <4>1, <4>3 DEF MountOK
    <3>2. QED BY <1>2, <1>4, <2>1, <3>1 DEF ViewOK
  <2>4. QED BY <1>2, <1>6, <1>7, <1>8, <1>9, <2>2, <2>3 DEF IInv
<1>13. QED BY <1>11, <1>12

\* React mounts and unmounts the terminals that the state asks for.
LEMMA RenderKeeps ==
  ASSUME IInv, Render
  PROVE  IInv'
<1>1. /\ state # Null /\ view' = Mounted(state)
      /\ UNCHANGED <<server, client, wire, state, terminalBuffers, seen, drawn>>
  BY DEF Render
<1>2. /\ (PanesOK /\ OwnersOK /\ OutputOK /\ WireOK /\ LayoutTold /\ Delivered /\ StreamOK)'
      /\ created' = created /\ owners' = owners /\ Attached' = Attached
  BY <1>1, WireKept
<1>3. Attached /\ state \in States /\ LayoutOK(state, created, owners)
  BY <1>1 DEF IInv, ClientOK
<1>4. ClientOK' /\ StreamsOK'
  BY <1>1, <1>2, <1>3 DEF IInv, ClientOK, StreamsOK, StreamKept
<1>5. ASSUME NEW p \in DOMAIN state.place \cap DOMAIN state.channels
      PROVE  /\ p \in 1 .. created
             /\ MountOK(Mounted(state)[p], p, owners, terminalBuffers, seen)
  <2>1. p \in 1 .. created /\ state.channels[p] \in Channels /\ p \in owners[state.channels[p]]
    BY <1>3 DEF LayoutOK, Given
  <2>2. state.place[p] \in 0 .. MaxPtys
    BY <1>3 DEF States, PartialFcn
  <2>3. CASE p \in DOMAIN view /\ view[p].place = state.place[p]
    BY <2>1, <2>3 DEF Mounted, IInv, ViewOK
  <2>4. CASE ~ (p \in DOMAIN view /\ view[p].place = state.place[p])
    <3> DEFINE v == [channel |-> state.channels[p], place |-> state.place[p],
                     phase |-> "loading", shown |-> << >>]
    <3>1. Mounted(state)[p] = v
      BY <2>4 DEF Mounted
    <3>2. v \in View /\ v.channel = state.channels[p] /\ v.phase = "loading" /\ v.shown = << >>
      <4>1. << >> \in Seq(Chunks)
        BY EmptySeq
      <4>2. QED BY <2>1, <2>2, <4>1 DEF View
    <3> HIDE DEF v
    <3>3. QED BY <2>1, <3>1, <3>2 DEF MountOK
  <2>5. QED BY <2>3, <2>4
<1>6. DOMAIN Mounted(state) = DOMAIN state.place \cap DOMAIN state.channels
  BY DEF Mounted
<1>7. ViewOK'
  BY <1>1, <1>2, <1>5, <1>6 DEF ViewOK
<1>8. QED BY <1>2, <1>4, <1>7 DEF IInv

\* init() is done: what waited is given to the terminal.
LEMMA TerminalReadyKeeps ==
  ASSUME IInv, NEW p \in DOMAIN view, TerminalReady(p)
  PROVE  IInv'
<1> DEFINE c == view[p].channel
<1>1. /\ view' = [view EXCEPT ![p].phase = "ready", ![p].shown = terminalBuffers[c]]
      /\ drawn' = [drawn EXCEPT ![c] = @ \o terminalBuffers[c]]
      /\ terminalBuffers' = [terminalBuffers EXCEPT ![c] = << >>]
      /\ UNCHANGED <<server, client, wire, state, seen>>
  BY DEF TerminalReady
<1>2. /\ (PanesOK /\ OwnersOK /\ OutputOK /\ WireOK /\ LayoutTold /\ Delivered /\ StreamOK)'
      /\ created' = created /\ owners' = owners /\ Attached' = Attached
  BY <1>1, WireKept
<1>3. /\ terminalBuffers \in [Channels -> Seq(Chunks)]
      /\ seen \in [Channels -> Seq(Chunks)] /\ drawn \in [Channels -> Seq(Chunks)]
      /\ \A d \in Channels : drawn[d] \o terminalBuffers[d] = seen[d]
      /\ \A d \in Channels : \A i \in DOMAIN seen[d] : seen[d][i][1] \in owners[d]
      /\ DOMAIN view \subseteq 1 .. created
      /\ \A q \in DOMAIN view : MountOK(view[q], q, owners, terminalBuffers, seen)
  BY DEF IInv, StreamsOK, StreamKept, ViewOK
<1>4. view[p] \in View /\ c \in Channels /\ p \in owners[c]
  BY <1>3 DEF MountOK, View
<1>5. /\ terminalBuffers' \in [Channels -> Seq(Chunks)] /\ terminalBuffers'[c] = << >>
      /\ \A d \in Channels : d # c => terminalBuffers'[d] = terminalBuffers[d]
  <2>1. << >> \in Seq(Chunks)
    BY EmptySeq
  <2>2. QED BY <1>1, <1>3, <1>4, <2>1
<1>6. /\ drawn' \in [Channels -> Seq(Chunks)] /\ drawn'[c] = seen[c]
      /\ \A d \in Channels : d # c => drawn'[d] = drawn[d]
  BY <1>1, <1>3, <1>4
<1>7. seen' = seen /\ state' = state /\ client' = client /\ wire' = wire
  BY <1>1
<1>8. StreamsOK'
  <2>1. ASSUME NEW d \in Channels PROVE drawn'[d] \o terminalBuffers'[d] = seen[d]
    <3>1. CASE d = c
      BY <1>3, <1>5, <1>6, <3>1, ConcatEmptySeq
    <3>2. CASE d # c
      BY <1>3, <1>5, <1>6, <3>2
    <3>3. QED BY <3>1, <3>2
  <2>2. QED BY <1>2, <1>3, <1>5, <1>6, <1>7, <2>1 DEF StreamsOK, StreamKept
<1>9. Attached
  BY NotAttached DEF EmptyMap
<1>10. ClientOK'
  BY <1>2, <1>7, <1>9 DEF IInv, ClientOK
<1>11. DOMAIN view' = DOMAIN view /\ \A q \in DOMAIN view : q # p => view'[q] = view[q]
  BY <1>1
<1>12. /\ view'[p] \in View /\ view'[p].channel = c
       /\ view'[p].phase = "ready" /\ view'[p].shown = terminalBuffers[c]
  <2>1. terminalBuffers[c] \in Seq(Chunks)
    BY <1>3, <1>4
  <2>2. view'[p] = [view[p] EXCEPT !.phase = "ready", !.shown = terminalBuffers[c]]
    BY <1>1
  <2>3. QED BY <1>4, <2>1, <2>2 DEF View
<1> HIDE DEF c
<1>13. ASSUME NEW q \in DOMAIN view PROVE MountOK(view'[q], q, owners, terminalBuffers', seen)
  <2>1. CASE q = p
    <3>1. Suffix(terminalBuffers[c], seen[c])
      BY <1>3, <1>4, SuffixConcat
    <3>2. QED BY <1>4, <1>5, <1>12, <2>1, <3>1 DEF MountOK
  <2>2. CASE q # p
    <3>1. MountOK(view[q], q, owners, terminalBuffers, seen) /\ view[q].channel \in Channels
      BY <1>3 DEF MountOK, View
    <3>2. view[q].phase = "ready" => terminalBuffers'[view[q].channel] = << >>
      BY <1>5, <3>1 DEF MountOK
    <3>3. QED BY <1>11, <2>2, <3>1, <3>2 DEF MountOK
  <2>3. QED BY <2>1, <2>2
<1>14. ViewOK'
  BY <1>2, <1>3, <1>7, <1>11, <1>13 DEF ViewOK
<1>15. QED BY <1>2, <1>8, <1>10, <1>14 DEF IInv

\* init() fails: the pane has no terminal.
LEMMA TerminalFailsKeeps ==
  ASSUME IInv, NEW p \in DOMAIN view, TerminalFails(p)
  PROVE  IInv'
<1>1. /\ view[p].phase = "loading"
      /\ view' = [view EXCEPT ![p].phase = "failed"]
      /\ UNCHANGED <<server, client, wire, state, terminalBuffers, seen, drawn>>
  BY DEF TerminalFails
<1>2. /\ (PanesOK /\ OwnersOK /\ OutputOK /\ WireOK /\ LayoutTold /\ Delivered /\ StreamOK)'
      /\ created' = created /\ owners' = owners /\ Attached' = Attached
  BY <1>1, WireKept
<1>3. Attached
  BY NotAttached DEF EmptyMap
<1>4. ClientOK' /\ StreamsOK'
  BY <1>1, <1>2, <1>3 DEF IInv, ClientOK, StreamsOK, StreamKept
<1>5. DOMAIN view \subseteq 1 .. created
      /\ \A q \in DOMAIN view : MountOK(view[q], q, owners, terminalBuffers, seen)
  BY DEF IInv, ViewOK
<1>6. /\ DOMAIN view' = DOMAIN view /\ \A q \in DOMAIN view : q # p => view'[q] = view[q]
      /\ view'[p] = [view[p] EXCEPT !.phase = "failed"]
  BY <1>1
<1>7. MountOK(view'[p], p, owners, terminalBuffers, seen)
  <2>1. MountOK(view[p], p, owners, terminalBuffers, seen)
    BY <1>5
  <2>2. view[p] \in View /\ p \in owners[view[p].channel] /\ view[p].shown = << >>
    BY <1>1, <2>1 DEF MountOK
  <2>3. /\ view'[p] \in View /\ view'[p].channel = view[p].channel
        /\ view'[p].phase = "failed" /\ view'[p].shown = view[p].shown
    BY <1>6, <2>2 DEF View
  <2>4. QED BY <2>2, <2>3 DEF MountOK
<1>8. ViewOK'
  BY <1>1, <1>2, <1>5, <1>6, <1>7 DEF ViewOK
<1>9. QED BY <1>2, <1>4, <1>8 DEF IInv

\* Nothing was sent and nothing received.
LEMMA NothingYet ==
  /\ << >> \in Seq(Messages) /\ Len(<< >>) = 0 /\ DOMAIN << >> = {} /\ << >> \o << >> = << >>
  /\ Empty \in [Channels -> Seq(Chunks)] /\ \A c \in Channels : Empty[c] = << >>
  /\ DOMAIN EmptyMap = {}
  /\ \A c \in Channels : \A n : Flow(Empty[c], << >>, c, n)
<1>1. /\ << >> \in Seq(Messages) /\ << >> \in Seq(Chunks) /\ Len(<< >>) = 0 /\ DOMAIN << >> = {}
  BY EmptySeq
<1>2. << >> \o << >> = << >>
  BY <1>1, ConcatEmptySeq
<1>3. Empty \in [Channels -> Seq(Chunks)] /\ \A c \in Channels : Empty[c] = << >>
  BY <1>1 DEF Empty
<1>4. ASSUME NEW c, NEW n PROVE Flow(<< >>, << >>, c, n)
  <2>1. \A j \in 1 .. Len(<< >>) : ~ On(<< >>, c, j)
    BY <1>1
  <2>2. QED BY <1>1, <2>1, FlowEmpty
<1>5. QED BY <1>1, <1>2, <1>3, <1>4 DEF EmptyMap

\* The socket closes, and the hook forgets everything.
LEMMA SocketLostKeeps ==
  ASSUME IInv, SocketLost
  PROVE  IInv'
<1>1. /\ client' = "lost" /\ wire' = << >> /\ state' = Null /\ view' = EmptyMap
      /\ terminalBuffers' = Empty /\ seen' = Empty /\ drawn' = Empty /\ UNCHANGED kept
      /\ untold' = {} /\ ~ Attached'
  BY DEF SocketLost, Attached
<1>2. /\ (PanesOK /\ OwnersOK /\ OutputOK)'
      /\ created' = created /\ owners' = owners
  BY <1>1, ServerKept DEF server
<1>3. (WireOK /\ ClientOK /\ ViewOK)'
  <2>1. 0 <= MaxWire
    BY TerminalWindowAssumption
  <2>2. QED BY <1>1, <2>1, NothingYet DEF WireOK, ClientOK, ViewOK
<1>4. StreamsOK'
  BY <1>1, NothingYet DEF StreamsOK, StreamKept
<1>5. (LayoutTold /\ Delivered)'
  BY <1>1 DEF LayoutTold, Delivered
<1>6. StreamOK'
  BY <1>1, NothingYet DEF StreamOK
<1>7. QED BY <1>2, <1>3, <1>4, <1>5, <1>6 DEF IInv

\* The page is loaded anew: not connected, as before.
LEMMA ReloadKeeps ==
  ASSUME IInv, Reload
  PROVE  IInv'
<1>1. client = "lost" /\ client' = "none" /\ UNCHANGED <<server, wire, window>>
      /\ ~ Attached /\ ~ Attached'
  BY DEF Reload, Attached
<1>2. /\ (PanesOK /\ OwnersOK /\ OutputOK)'
      /\ created' = created /\ owners' = owners /\ written' = written
  BY <1>1, ServerKept DEF server
<1>3. (ClientOK /\ StreamsOK /\ ViewOK /\ WireOK)'
  BY <1>1, <1>2 DEF IInv, ClientOK, StreamsOK, StreamKept, ViewOK, WireOK, window
<1>4. (LayoutTold /\ Delivered /\ StreamOK)'
  BY <1>1, <1>2 DEF IInv, LayoutTold, Delivered, StreamOK, window
<1>5. QED BY <1>2, <1>3, <1>4 DEF IInv

\* Nothing is there at first.
LEMMA InitKeeps ==
  ASSUME Init
  PROVE  IInv
<1>1. /\ created = 0 /\ place = EmptyMap /\ channels = NewChannelMap
      /\ terminals = {} /\ closing = EmptyMap /\ outputBuffers = EmptyMap
      /\ written = EmptyMap /\ owners = [c \in Channels |-> {}] /\ untold = {}
      /\ client = "none" /\ wire = <<>> /\ ~ Attached
      /\ state = Null /\ view = EmptyMap /\ terminalBuffers = Empty
      /\ seen = Empty /\ drawn = Empty
  BY DEF Init, Attached
<1>2. 1 .. created = {} /\ 0 <= MaxWire /\ 0 \in 0 .. MaxPtys /\ 0 <= MaxOutput
  BY <1>1, TerminalWindowAssumption
<1>3. PanesOK
  <2>1. channels.ptyToChannel = EmptyMap /\ Sound(channels)
    BY <1>1, NewSound DEF NewChannelMap
  <2>2. QED BY <1>1, <1>2, <2>1, EmptyType, NothingYet DEF PanesOK, Given
<1>4. OwnersOK
  BY <1>1 DEF OwnersOK
<1>5. OutputOK
  <2>1. written \in [1 .. created -> 0 .. MaxOutput]
    BY <1>1, <1>2 DEF EmptyMap
  <2>2. Outputs = {}
    BY <1>1, NothingYet DEF Outputs
  <2>3. Cardinality(Outputs) <= MaxOutput
    BY <1>2, <2>2, FS_EmptySet
  <2>4. QED BY <1>1, <1>2, <2>1, <2>3, NothingYet DEF OutputOK
<1>6. WireOK /\ ClientOK /\ ViewOK
  BY <1>1, <1>2, NothingYet DEF WireOK, ClientOK, ViewOK
<1>7. StreamsOK
  BY <1>1, NothingYet DEF StreamsOK, StreamKept
<1>8. LayoutTold /\ Delivered
  BY <1>1 DEF LayoutTold, Delivered
<1>9. StreamOK
  BY <1>1, NothingYet DEF StreamOK
<1>10. QED BY <1>3, <1>4, <1>5, <1>6, <1>7, <1>8, <1>9 DEF IInv

\* Nothing changes.
LEMMA StutterKeeps ==
  ASSUME IInv, UNCHANGED vars
  PROVE  IInv'
<1>1. UNCHANGED <<server, client, wire, state, view, terminalBuffers, seen, drawn>>
  BY DEF vars, window
<1>2. /\ (PanesOK /\ OwnersOK /\ OutputOK /\ WireOK /\ LayoutTold /\ Delivered /\ StreamOK)'
      /\ created' = created /\ owners' = owners /\ Attached' = Attached
  BY <1>1, WireKept
<1>3. (ClientOK /\ StreamsOK /\ ViewOK)'
  BY <1>1, <1>2 DEF IInv, ClientOK, StreamsOK, StreamKept, ViewOK
<1>4. QED BY <1>2, <1>3 DEF IInv

\* The invariant holds always.
LEMMA Invariant == Spec => []IInv
<1>1. ASSUME IInv, [Next]_vars PROVE IInv'
  <2>1. CASE \E s \in PtyIds, wraps \in BOOLEAN : CreatePane(s, wraps)
    BY <1>1, <2>1, CreatePaneKeeps
  <2>2. CASE \E p \in PtyIds : ClosePane(p) \/ Output(p) \/ SocketClosed(p)
    BY <1>1, <2>2, ClosePaneKeeps, OutputKeeps, SocketClosedKeeps
  <2>3. CASE Join \/ HandleConnect
    BY <1>1, <2>3, JoinKeeps, HandleConnectKeeps
  <2>4. CASE ReceiveLayout \/ ReceiveData \/ Render
    BY <1>1, <2>4, ReceiveLayoutKeeps, ReceiveDataKeeps, RenderKeeps
  <2>5. CASE \E p \in DOMAIN view : TerminalReady(p) \/ TerminalFails(p)
    BY <1>1, <2>5, TerminalReadyKeeps, TerminalFailsKeeps
  <2>6. CASE SocketLost \/ Reload
    BY <1>1, <2>6, SocketLostKeeps, ReloadKeeps
  <2>7. CASE UNCHANGED vars
    BY <1>1, <2>7, StutterKeeps
  <2>8. QED BY <1>1, <2>1, <2>2, <2>3, <2>4, <2>5, <2>6, <2>7 DEF Next
<1>2. QED BY <1>1, InitKeeps, PTL DEF Spec
-----------------------------------------------------------------------------
\* The window's state is always well formed, it is connected exactly while the
\* hook has a state, and on each channel what its terminals were given followed
\* by what waits is what it received: use-wormhole-client.ts loses nothing
\* between the socket and the terminals, whatever is mounted and unmounted.
THEOREM SpecClientSound == Spec => []ClientSound
<1>1. ASSUME IInv PROVE ClientSound
  <2>1. /\ created \in 0 .. MaxPtys /\ DOMAIN place \subseteq 1 .. created
        /\ terminals = DOMAIN channels.ptyToChannel /\ terminals \subseteq DOMAIN place
        /\ untold \subseteq DOMAIN place
    BY <1>1 DEF IInv, PanesOK
  <2>2. DOMAIN written = 1 .. created /\ Cardinality(Outputs) <= MaxOutput
    BY <1>1 DEF IInv, OutputOK
  <2>3. Len(wire) <= MaxWire /\ client \in {"none", "open", "greeted", "lost"}
    BY <1>1 DEF IInv, WireOK, ClientOK
  <2>4. Attached <=> state # Null
    BY <1>1, TerminalWindowAssumption DEF IInv, ClientOK
  <2>5. DOMAIN view \subseteq IF state = Null THEN {} ELSE 1 .. created
    <3>1. state = Null => DOMAIN view = {}
      BY <1>1, <2>4, NotAttached DEF EmptyMap
    <3>2. DOMAIN view \subseteq 1 .. created
      BY <1>1 DEF IInv, ViewOK
    <3>3. QED BY <3>1, <3>2
  <2>6. ASSUME NEW p \in DOMAIN view
        PROVE  /\ view[p].channel \in Channels
               /\ view[p].phase \in {"loading", "ready", "failed"}
               /\ view[p].shown \in Seq(Chunks)
    BY <1>1 DEF IInv, ViewOK, MountOK, View
  <2>7. StreamKept
    BY <1>1 DEF IInv, StreamsOK
  <2>8. QED BY <2>1, <2>2, <2>3, <2>4, <2>5, <2>6, <2>7 DEF ClientSound, TypeOK
<1>2. QED BY <1>1, Invariant, PTL

\* While no other pane has had its channel, a terminal shows chunks of its own
\* pane only, and after each the next one written or, where a replay begins,
\* an earlier one: nothing of the output is left out (replayBuffers and the
\* listener of WormholeServer.ts, onTerminalData of use-wormhole-client.ts).
THEOREM SpecOwnOutputWithoutGaps == Spec => []OwnOutputWithoutGaps
<1>1. ASSUME IInv, NEW p \in DOMAIN view, Unshared(view[p].channel)
      PROVE  /\ \A i \in DOMAIN view[p].shown : view[p].shown[i][1] = p
             /\ \A i \in 1 .. Len(view[p].shown) - 1 :
                  view[p].shown[i + 1][2] <= view[p].shown[i][2] + 1
  <2> DEFINE c == view[p].channel
             t == view[p].shown
             s == seen[c]
  <2>1. /\ MountOK(view[p], p, owners, terminalBuffers, seen) /\ p \in 1 .. created
        /\ c \in Channels /\ t \in Seq(Chunks) /\ p \in owners[c]
    BY <1>1 DEF IInv, ViewOK, MountOK, View
  <2>2. s \in Seq(Chunks) /\ \A i \in DOMAIN s : s[i][1] \in owners[c]
    BY <1>1, <2>1 DEF IInv, StreamsOK
  <2>3. owners[c] = {p}
    <3>1. owners[c] \subseteq 1 .. created /\ created \in Nat
      BY <1>1, <2>1, Typed
    <3>2. IsFiniteSet(owners[c])
      <4>1. IsFiniteSet(1 .. created)
        BY <3>1, FS_Interval
      <4>2. QED BY <3>1, <4>1, FS_Subset
    <3>3. \E x : owners[c] = {x}
      BY <1>1, <3>2, FS_Singleton DEF Unshared
    <3>4. QED BY <2>1, <3>3
  <2>4. NoGaps(s)
    BY <1>1, <2>1, <2>3 DEF IInv, StreamOK, Flow
  <2>5. /\ Len(s) \in Nat /\ DOMAIN s = 1 .. Len(s) /\ Len(t) \in Nat /\ DOMAIN t = 1 .. Len(t)
    BY <2>1, <2>2, LenProperties
  <2>6. t = << >> \/ Suffix(t, s)
    BY <2>1 DEF MountOK
  <2> HIDE DEF c, t, s
  <2>7. CASE t = << >>
    <3>1. Len(t) = 0
      BY <2>7, EmptySeq
    <3>2. QED BY <2>5, <3>1 DEF t
  <2>8. CASE Suffix(t, s)
    <3>1. Len(t) <= Len(s) /\ \A i \in 1 .. Len(t) : t[i] = s[Len(s) - Len(t) + i]
      BY <2>8 DEF Suffix
    <3>2. ASSUME NEW i \in 1 .. Len(t) PROVE t[i][1] = p
      <4>1. Len(s) - Len(t) + i \in 1 .. Len(s)
        BY <2>5, <3>1
      <4>2. QED BY <2>2, <2>3, <2>5, <3>1, <4>1
    <3>3. ASSUME NEW i \in 1 .. Len(t) - 1 PROVE t[i + 1][2] <= t[i][2] + 1
      <4> DEFINE k == Len(s) - Len(t) + i
      <4>1. k \in 1 .. Len(s) - 1 /\ Len(s) - Len(t) + (i + 1) = k + 1
            /\ i \in 1 .. Len(t) /\ i + 1 \in 1 .. Len(t)
        BY <2>5, <3>1
      <4>2. t[i] = s[k] /\ t[i + 1] = s[k + 1]
        BY <3>1, <4>1
      <4> HIDE DEF k
      <4>3. QED BY <2>4, <4>1, <4>2 DEF NoGaps
    <3>4. QED BY <2>5, <3>2, <3>3 DEF t
  <2>9. QED BY <2>6, <2>7, <2>8
<1>2. IInv => OwnOutputWithoutGaps
  BY <1>1 DEF OwnOutputWithoutGaps
<1>3. QED BY <1>2, Invariant, PTL

\* Once nothing is under way to a window that was greeted, it has received all
\* the output that the server keeps for the open panes, whether it was written
\* before the window came or since (replayBuffers and the terminals' listeners
\* of WormholeServer.ts).
THEOREM SpecHistoryReplayed == Spec => []HistoryReplayed
<1>1. ASSUME IInv, client = "greeted", wire = << >>,
             NEW p \in DOMAIN outputBuffers \cap DOMAIN channels.ptyToChannel,
             NEW i \in DOMAIN outputBuffers[p]
      PROVE  <<p, outputBuffers[p][i]>> \in ToSet(seen[channels.ptyToChannel[p]])
  <2> DEFINE s == seen[channels.ptyToChannel[p]]
             x == <<p, outputBuffers[p][i]>>
  <2>1. BufferOK(outputBuffers[p], written[p])
    BY <1>1 DEF IInv, OutputOK
  <2>2. i \in 1 .. Len(outputBuffers[p])
    BY <2>1, LenProperties DEF BufferOK
  <2>3. Reached(s, wire, channels.ptyToChannel[p], x)
    BY <1>1, <2>2 DEF IInv, Delivered
  <2>4. s \in Seq(Chunks)
    BY <1>1, Typed DEF IInv, PanesOK, Given
  <2> HIDE DEF s, x
  <2>5. PICK j \in 1 .. Len(s) : s[j] = x
    BY <1>1, <2>3, NothingYet DEF Reached
  <2>6. j \in DOMAIN s
    BY <2>4, LenProperties
  <2>7. x \in ToSet(s)
    BY <2>5, <2>6 DEF ToSet
  <2>8. QED BY <2>7 DEF s, x
<1>2. IInv => HistoryReplayed
  BY <1>1 DEF HistoryReplayed
<1>3. QED BY <1>2, Invariant, PTL

\* A window to which nothing is under way and that has rendered what it was
\* told shows the panes that have a channel, each on the channel the server gave
\* it, and besides at most panes that were closed with no word of it: no layout
\* is missed and none is overtaken (broadcastLayoutUpdate, handlePaneClose,
\* handleServerMessage, PaneLayout).
THEOREM SpecTerminalsMatch == Spec => []TerminalsMatch
<1>1. ASSUME IInv, client = "greeted", wire = << >>, view = Mounted(state)
      PROVE  [p \in DOMAIN view \ untold |-> view[p].channel] = channels.ptyToChannel
  <2> DEFINE a == channels.ptyToChannel
  <2>1. DOMAIN a = DOMAIN state.channels \ untold /\ state.place = place
    <3>1. Latest(state, << >>, channels, place, untold)
      BY <1>1 DEF IInv, LayoutTold, Attached
    <3>2. QED BY <3>1, NothingYet DEF Latest, Tells
  <2>2. DOMAIN view \ untold = DOMAIN a
    <3>1. DOMAIN view = DOMAIN place \cap DOMAIN state.channels
      BY <1>1, <2>1 DEF Mounted
    <3>2. DOMAIN a \subseteq DOMAIN place
      BY <1>1 DEF IInv, PanesOK
    <3>3. QED BY <2>1, <3>1, <3>2
  <2>3. ASSUME NEW p \in DOMAIN a PROVE view[p].channel = a[p]
    <3>1. a[p] \in Channels /\ p \in owners[a[p]]
      BY <1>1 DEF IInv, PanesOK, Given
    <3>2. view[p].channel \in Channels /\ p \in owners[view[p].channel]
      BY <1>1, <2>2 DEF IInv, ViewOK, MountOK, View
    <3>3. QED BY <1>1, <3>1, <3>2 DEF IInv, OwnersOK
  <2>4. a \in [DOMAIN a -> Channels]
    BY <1>1, TerminalWindowAssumption DEF IInv, PanesOK, Sound, ChannelMapType, PartialFcn
  <2> HIDE DEF a
  <2>5. [p \in DOMAIN view \ untold |-> view[p].channel] = a
    BY <2>2, <2>3, <2>4
  <2>6. QED BY <2>5 DEF a
<1>2. IInv => TerminalsMatch
  BY <1>1 DEF TerminalsMatch
<1>3. QED BY <1>2, Invariant, PTL
=============================================================================
