----------------------------- MODULE ChannelMap -----------------------------
(***************************************************************************)
(* The bidirectional map between PTY ids and one-byte channel numbers, as  *)
(* operators on a value: packages/sandbox/src/ChannelMap.ts.  The internal *)
(* channelMap.ts of packages/wormhole has the same assign and release with *)
(* session ids for PTY ids.                                                *)
(*                                                                         *)
(* A channel map is a record with the fields of the class.                 *)
(***************************************************************************)
EXTENDS Naturals, Sequences, Maps

CONSTANTS
  Ids,          \* PTY ids (session ids in packages/wormhole)
  MaxChannels   \* channel numbers are 0 .. MaxChannels - 1; 255 in the code

ASSUME MaxChannelsAssumption == MaxChannels \in Nat \ {0}

Channels == 0 .. MaxChannels - 1

ChannelMapType ==
  [channelToPty : PartialFcn(Channels, Ids),
   ptyToChannel : PartialFcn(Ids, Channels),
   freeList     : Seq(Channels),
   nextChannel  : 0 .. MaxChannels]

\* new ChannelMap()
NewChannelMap ==
  [channelToPty |-> EmptyMap, ptyToChannel |-> EmptyMap,
   freeList |-> << >>, nextChannel |-> 0]

HasChannel(m, id) == id \in DOMAIN m.ptyToChannel

CanAllocate(m) == m.freeList # << >> \/ m.nextChannel < MaxChannels

\* The channel that assign hands out: the most recently freed one, or else
\* the next that was never used.
NextFree(m) ==
  IF m.freeList # << >> THEN m.freeList[Len(m.freeList)] ELSE m.nextChannel

Allocate(m, id) ==
  [channelToPty |-> Put(m.channelToPty, NextFree(m), id),
   ptyToChannel |-> Put(m.ptyToChannel, id, NextFree(m)),
   freeList     |-> IF m.freeList # << >>
                    THEN SubSeq(m.freeList, 1, Len(m.freeList) - 1)
                    ELSE m.freeList,
   nextChannel  |-> IF m.freeList # << >>
                    THEN m.nextChannel ELSE m.nextChannel + 1]

\* Variant: assign is not idempotent.
AssignAgain(m, id) == IF CanAllocate(m) THEN Allocate(m, id) ELSE m

\* The map after assign(id): unchanged when id has a channel already, and
\* when every channel is taken (assign then returns null).
Assign(m, id) ==
  IF ~ HasChannel(m, id) /\ CanAllocate(m) THEN Allocate(m, id) ELSE m

\* Variant: release forgets the reverse direction.
ReleaseOneWay(m, ch) ==
  IF ch \in DOMAIN m.channelToPty
  THEN [m EXCEPT !.channelToPty = Drop(m.channelToPty, {ch}),
                 !.freeList = Append(m.freeList, ch)]
  ELSE m

\* Variant: release forgets the free list.
ReleaseLeak(m, ch) ==
  IF ch \in DOMAIN m.channelToPty
  THEN [m EXCEPT !.channelToPty = Drop(m.channelToPty, {ch}),
                 !.ptyToChannel = Drop(m.ptyToChannel, {m.channelToPty[ch]})]
  ELSE m

\* The map after release(ch).
Release(m, ch) ==
  IF ch \in DOMAIN m.channelToPty
  THEN [channelToPty |-> Drop(m.channelToPty, {ch}),
        ptyToChannel |-> Drop(m.ptyToChannel, {m.channelToPty[ch]}),
        freeList     |-> Append(m.freeList, ch),
        nextChannel  |-> m.nextChannel]
  ELSE m

\* getChannel, and release when there is one.
ReleaseId(m, id) == IF HasChannel(m, id) THEN Release(m, m.ptyToChannel[id]) ELSE m

\* The callers' loop over the ids in seq s.
ReleaseAll(m, s) ==
  LET after[i \in 0 .. Len(s)] == IF i = 0 THEN m ELSE ReleaseId(after[i - 1], s[i])
  IN  after[Len(s)]

\* fromRecord(r): the allocation point goes past the highest channel of the
\* record, and the free list starts empty, so that a gap is not reused.
FromRecord(r) ==
  [channelToPty |-> [c \in {r[id] : id \in DOMAIN r} |->
                       CHOOSE id \in DOMAIN r : r[id] = c],
   ptyToChannel |-> r,
   freeList     |-> << >>,
   nextChannel  |-> CHOOSE n \in 0 .. MaxChannels :
                      /\ \A id \in DOMAIN r : r[id] < n
                      /\ n = 0 \/ \E id \in DOMAIN r : r[id] = n - 1]
-----------------------------------------------------------------------------
\* The two directions are inverse to each other.
MutuallyInverse(m) ==
  /\ \A c \in DOMAIN m.channelToPty :
       /\ m.channelToPty[c] \in DOMAIN m.ptyToChannel
       /\ m.ptyToChannel[m.channelToPty[c]] = c
  /\ \A id \in DOMAIN m.ptyToChannel :
       /\ m.ptyToChannel[id] \in DOMAIN m.channelToPty
       /\ m.channelToPty[m.ptyToChannel[id]] = id

\* What is handed out next is not in use: the free list repeats no channel
\* and holds none that is assigned, and everything handed out so far is
\* below nextChannel.
NothingFreeInUse(m) ==
  /\ \A i, j \in DOMAIN m.freeList :
       i # j => m.freeList[i] # m.freeList[j]
  /\ \A i \in DOMAIN m.freeList :
       /\ m.freeList[i] \notin DOMAIN m.channelToPty
       /\ m.freeList[i] < m.nextChannel
  /\ \A c \in DOMAIN m.channelToPty : c < m.nextChannel

\* The channels a new id may still be given.
FreeChannels(m) ==
  {m.freeList[i] : i \in DOMAIN m.freeList}
    \cup (m.nextChannel .. MaxChannels - 1)
=============================================================================
