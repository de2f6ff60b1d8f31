--------------------------- MODULE ChannelMapSpec ---------------------------
(***************************************************************************)
(* A channel map used by any sequence of the calls its callers may make:   *)
(* assign, release (of any channel number, held or not), and a round trip  *)
(* through toRecord and fromRecord.                                        *)
(***************************************************************************)
EXTENDS ChannelMap

CONSTANT NoChannel   \* the answer when there is none

ASSUME NoChannelAssumption == NoChannel \notin Channels

VARIABLES
  cm,      \* the channel map
  reply    \* what the last call returned

mapVars == <<cm, reply>>

MapInit == cm = NewChannelMap /\ reply = NoChannel

AssignCall(id) ==
  /\ cm' = Assign(cm, id)
  /\ reply' = IF HasChannel(cm', id) THEN cm'.ptyToChannel[id] ELSE NoChannel

ReleaseCall(ch) == cm' = Release(cm, ch) /\ reply' = NoChannel

ReloadCall == cm' = FromRecord(cm.ptyToChannel) /\ reply' = NoChannel

MapNext ==
  \/ \E id \in Ids : AssignCall(id)
  \/ \E ch \in Channels : ReleaseCall(ch)
  \/ ReloadCall

MapSpec == MapInit /\ [][MapNext]_mapVars
-----------------------------------------------------------------------------
\* The fields keep their types: in particular no channel number leaves the
\* byte range 0 .. MaxChannels - 1, where MaxChannels (255) is the control
\* channel of the protocol.
MapTypeOK == cm \in ChannelMapType /\ reply \in Channels \cup {NoChannel}

\* The two directions of the map are inverse to each other, so a frame is
\* routed to the PTY whose channel was announced to the clients.
BothWays == MutuallyInverse(cm)

\* assign never hands out a channel that is in use, and no released channel
\* is queued twice for reuse.
FreeListSound == NothingFreeInUse(cm)

\* The three together: what ChannelMap.ts keeps across every sequence of
\* assign, release and reload.
ChannelMapSound == MapTypeOK /\ BothWays /\ FreeListSound

\* The class keeps the promise of a channel pool: one owner per channel, one
\* channel per id, and null only when nothing is left to hand out.
Pool == INSTANCE ChannelPool WITH owner <- cm.channelToPty,
                                  avail <- FreeChannels(cm), Null <- NoChannel
PoolSpec == Pool!Spec
=============================================================================
