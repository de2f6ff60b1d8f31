---------------------------- MODULE ChannelPool -----------------------------
(***************************************************************************)
(* What a channel map promises its callers, without saying how channels    *)
(* are chosen: an id holds at most one channel and a channel is held by at *)
(* most one id; a request is answered with the id's own channel or with an *)
(* available one, and is refused only when none is available; a released   *)
(* channel is available again.  A reload from the persisted record keeps   *)
(* who holds what; it may change which unheld channels are available.      *)
(***************************************************************************)
EXTENDS Naturals, Maps

CONSTANTS Ids, MaxChannels, Null

VARIABLES
  owner,   \* channel -> id, for the channels held
  avail,   \* the channels a request may be given
  reply    \* the answer to the last operation

vars == <<owner, avail, reply>>

Holds(id) == \E c \in DOMAIN owner : owner[c] = id

Init == owner = EmptyMap /\ avail = 0 .. MaxChannels - 1 /\ reply = Null

Confirm(id) ==
  /\ \E c \in DOMAIN owner : owner[c] = id /\ reply' = c
  /\ UNCHANGED <<owner, avail>>

Grant(id) ==
  /\ ~ Holds(id)
  /\ \E c \in avail :
       /\ owner' = Put(owner, c, id)
       /\ avail' = avail \ {c}
       /\ reply' = c

Refuse(id) ==
  /\ ~ Holds(id)
  /\ avail = {}
  /\ reply' = Null
  /\ UNCHANGED <<owner, avail>>

Free(c) ==
  /\ c \in DOMAIN owner
  /\ owner' = Drop(owner, {c})
  /\ avail' = avail \cup {c}
  /\ reply' = Null

Reload ==
  /\ avail' \in SUBSET (0 .. MaxChannels - 1 \ DOMAIN owner)
  /\ reply' = Null
  /\ UNCHANGED owner

Next ==
  \/ \E id \in Ids : Confirm(id) \/ Grant(id) \/ Refuse(id)
  \/ \E c \in 0 .. MaxChannels - 1 : Free(c)
  \/ Reload

Spec == Init /\ [][Next]_vars
=============================================================================
