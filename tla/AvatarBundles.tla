--------------------------- MODULE AvatarBundles ---------------------------
(****************************************************************************)
(* emit_greedy_avatar_bundles: how the avatar packets of a tick for one     *)
(* receiver are packed, attempt by attempt, into bundles that fit into a    *)
(* packet when compressed. What the compression makes of a bundle, and so   *)
(* the ratio that suggests the size of the next chunk, are choices of the   *)
(* environment. Wire has what a bundle looks like.                          *)
(****************************************************************************)
EXTENDS Integers, Sequences

CONSTANTS
  Batches,    \* the packets of a tick, with bundle_min_messages and bundle_min_bytes
  BundleMax,  \* how many items a bundle can name: 255
  RawMax,     \* how long a bundle can be before it is compressed: 65535
  Targets     \* the sizes of a chunk, by the ratio of the compression, looked at

ASSUME BatchAssumption ==
  \A b \in Batches : Len(b.packets) \in Nat /\ \A i \in DOMAIN b.packets : b.packets[i].len \in Nat
ASSUME BundleAssumption == BundleMax \in Nat /\ RawMax \in Nat /\ Targets \subseteq Nat

VARIABLES
  batch,
  phase,
  cursor,     \* how many packets have been sent
  chunk_end,  \* where the chunk that overshot ended
  sent        \* the packets and bundles sent: each the packets of the batch after from, up to to

bundleVars == <<batch, phase, cursor, chunk_end, sent>>

BundleInit ==
  /\ batch \in Batches /\ phase = "attempt"
  /\ cursor = 0 /\ chunk_end = 0 /\ sent = <<>>

-----------------------------------------------------------------------------
count == Len(batch.packets)

\* bundle_range_raw_len: each item has a channel and a length of two bytes before it.
RawLen(from, to) ==
  LET len[n \in from .. to] == IF n = from THEN 0 ELSE len[n - 1] + 3 + batch.packets[n].len
  IN len[to]

\* pick_bundle_chunk_end: one packet at least, and then as many as the target allows.
PickedEnds(hard_end, target) ==
  {end \in cursor + 1 .. hard_end : end > cursor + 1 => RawLen(cursor, end) <= target}

pick_bundle_chunk_end(hard_end, target) ==
  IF cursor >= hard_end THEN cursor
  ELSE CHOOSE end \in PickedEnds(hard_end, target) : end + 1 \notin PickedEnds(hard_end, target)

\* try_encode_avatar_bundle_slices refuses these.
TooMany(from, to) == to - from > BundleMax \/ RawLen(from, to) \notin 0 .. RawMax

Bundled(from, to) == [from |-> from, to |-> to, bundled |-> TRUE, raw_len |-> RawLen(from, to)]
Direct(n) == [from |-> n - 1, to |-> n, bundled |-> FALSE, raw_len |-> 0]

Sized(end) == end > cursor /\ RawLen(cursor, end) >= batch.min_bytes

\* A round of the loop. fits: the bundle is within the budget when it is compressed.
Attempt(target, fits) ==
  LET end == pick_bundle_chunk_end(count, target) IN
    /\ phase = "attempt"
    /\ count - cursor >= batch.min_messages /\ Sized(end) /\ ~ TooMany(cursor, end)
    /\ IF fits THEN /\ sent' = Append(sent, Bundled(cursor, end)) /\ cursor' = end
                    /\ UNCHANGED <<phase, chunk_end>>
               ELSE /\ phase' = "retry" /\ chunk_end' = end
                    /\ UNCHANGED <<sent, cursor>>
    /\ UNCHANGED batch

\* The loop ends: too few packets or bytes are left, or they cannot be encoded.
Break(target) ==
  LET end == pick_bundle_chunk_end(count, target) IN
    /\ phase = "attempt" /\ phase' = "tail"
    /\ count - cursor < batch.min_messages \/ ~ Sized(end) \/ TooMany(cursor, end)
    /\ UNCHANGED <<batch, cursor, chunk_end, sent>>

\* A chunk that overshot is tried once more, smaller by the ratio that was observed, or
\* else by a quarter.
RetryEnd(target) ==
  LET picked == pick_bundle_chunk_end(chunk_end, target)
      rest   == ((chunk_end - cursor) * 3) \div 4
  IN IF picked < chunk_end THEN picked ELSE cursor + (IF rest > 1 THEN rest ELSE 1)

\* Mutant: goes on behind the chunk that was too large.
RetryPastChunk(target) ==
  LET end == RetryEnd(target) IN
    /\ phase = "retry" /\ phase' = "attempt"
    /\ Sized(end) /\ ~ TooMany(cursor, end)
    /\ sent' = Append(sent, Bundled(cursor, end)) /\ cursor' = chunk_end
    /\ UNCHANGED <<batch, chunk_end>>

Retry(target) ==
  LET end == RetryEnd(target) IN
    /\ phase = "retry" /\ phase' = "attempt"
    /\ Sized(end) /\ ~ TooMany(cursor, end)
    /\ sent' = Append(sent, Bundled(cursor, end)) /\ cursor' = end
    /\ UNCHANGED <<batch, chunk_end>>

\* It is too small, cannot be encoded, or overshoots again.
GiveUp ==
  /\ phase = "retry" /\ phase' = "tail"
  /\ UNCHANGED <<batch, cursor, chunk_end, sent>>

\* What is left is sent packet by packet.
SendTail ==
  /\ phase = "tail" /\ phase' = "sent"
  /\ sent' = sent \o [i \in 1 .. count - cursor |-> Direct(cursor + i)]
  /\ cursor' = count
  /\ UNCHANGED <<batch, chunk_end>>

BundleNext ==
  \/ \E target \in Targets :
       (\E fits \in BOOLEAN : Attempt(target, fits)) \/ Break(target) \/ Retry(target)
  \/ GiveUp \/ SendTail

BundleSpec == BundleInit /\ [][BundleNext]_bundleVars

-----------------------------------------------------------------------------
\* What sends the n-th packet of the batch
Carriers(n) == {i \in DOMAIN sent : sent[i].from < n /\ n <= sent[i].to}

\* Whatever the compression makes of it, and however the chunks are cut: what has been
\* sent has each packet up to the cursor, and no other, in one packet or bundle, in the
\* order of the batch; no bundle has more items or bytes than its header can say; and in
\* the end every packet of the batch has been sent.
BundlesWhole ==
  /\ \A n \in 1 .. count : IF n <= cursor THEN \E i \in DOMAIN sent : Carriers(n) = {i}
                                          ELSE Carriers(n) = {}
  /\ \A i, j \in DOMAIN sent : i < j => sent[i].to <= sent[j].from
  /\ \A i \in DOMAIN sent :
       /\ sent[i].to - sent[i].from <= (IF sent[i].bundled THEN BundleMax ELSE 1)
       /\ sent[i].raw_len <= RawMax
  /\ phase = "sent" => cursor = count
=============================================================================
