----------------------------- MODULE RingBuffer -----------------------------
(***************************************************************************)
(* The byte-capped scrollback of a session:                                *)
(* packages/wormhole/src/RingBuffer.ts, as operators on a value.           *)
(*                                                                         *)
(* An entry is a string of output, abstracted to its place n in the        *)
(* output of the session and its length in bytes.                          *)
(***************************************************************************)
EXTENDS Naturals, SequencesExt

CONSTANTS
  Capacity,    \* in bytes; 102400 in the code
  SplitBytes   \* bytes of a cut character that may start a truncated string

\* A UTF-8 character has at most three bytes after its first.
ASSUME RingBufferAssumption ==
  Capacity \in Nat /\ SplitBytes \subseteq 0 .. 3 /\ SplitBytes # {}

EmptyBuffer == [entries |-> << >>, totalBytes |-> 0]

Bytes(entries) ==
  LET sum[i \in 0 .. Len(entries)] == IF i = 0 THEN 0 ELSE sum[i - 1] + entries[i].bytes
  IN  sum[Len(entries)]

\* Variant: the loop stops a byte early.
EvictLate(b) ==
  LET Left(i) == b.totalBytes - Bytes(SubSeq(b.entries, 1, i - 1))
      first   == Min({i \in DOMAIN b.entries :
                        i = Len(b.entries) \/ Left(i) <= Capacity + 1})
  IN  [entries |-> SubSeq(b.entries, first, Len(b.entries)),
       totalBytes |-> Left(first)]

\* The loop that drops the oldest strings until the rest fits, or is one.
Evict(b) ==
  LET Left(i) == b.totalBytes - Bytes(SubSeq(b.entries, 1, i - 1))
      first   == Min({i \in DOMAIN b.entries :
                        i = Len(b.entries) \/ Left(i) <= Capacity})
  IN  [entries |-> SubSeq(b.entries, first, Len(b.entries)),
       totalBytes |-> Left(first)]

\* push(data): the buffers it may leave.  A string over the capacity is cut
\* to its last Capacity bytes; each byte of a character that the cut runs
\* through decodes to a replacement character of three bytes.
Push(b, e) ==
  IF e.bytes > Capacity
  THEN {[entries |-> <<[e EXCEPT !.bytes = Capacity + 2 * k]>>,
         totalBytes |-> Capacity + 2 * k] : k \in SplitBytes}
  ELSE {Evict([entries |-> Append(b.entries, e),
               totalBytes |-> b.totalBytes + e.bytes])}

\* serialize: what is persisted of a buffer
Serialize(b) == [entries |-> b.entries, totalBytes |-> b.totalBytes, capacity |-> Capacity]

\* fromSnapshot: the count is taken over, not counted again.
FromSnapshot(data) == [entries |-> data.entries, totalBytes |-> data.totalBytes]
-----------------------------------------------------------------------------
\* The count of bytes is right, and only a single truncated string goes over
\* the capacity, by the replacement characters at its start.
WithinCapacity(b) ==
  /\ b.totalBytes = Bytes(b.entries)
  /\ \/ b.totalBytes <= Capacity
     \/ Len(b.entries) = 1 /\ b.totalBytes <= Capacity + 6

\* The entries are the last output of the session, n being the latest.
IsTail(b, n) ==
  \A i \in DOMAIN b.entries : b.entries[i].n = n - Len(b.entries) + i
=============================================================================
