-------------------------------- MODULE Wire --------------------------------
(****************************************************************************)
(* What goes over the wire and what is read at its other end: messages,     *)
(* the packets of avatars in every quality, and the bundles that a tick     *)
(* makes of the packets for one receiver.                                   *)
(*                                                                          *)
(* A behaviour is one job: a message is written, perhaps cut short, and     *)
(* read; a pose is entered, repacked and read; or the packets of a tick     *)
(* are bundled, see AvatarBundles, and the bundles read.                    *)
(****************************************************************************)
EXTENDS MessageSchemas, AvatarBits, AvatarBundles

CONSTANTS
  MaxCut,        \* bound: the longest packet that is also cut short, at every place
  Sizes,         \* bound: lengths of the poses in the packets of a tick
  MaxPackets,    \* bound: packets of a tick
  MinMessages, MinBytes    \* the values of bundle_min_messages and bundle_min_bytes looked at

ASSUME WireAssumption ==
  /\ MaxCut \in Nat /\ MaxPackets \in Nat /\ BundleMax < Base /\ RawMax < Limit(2)
  /\ Sizes \cup MinMessages \cup MinBytes \subseteq Nat

VARIABLES
  job,      \* what is sent
  pc,
  wire,     \* what has been put on the wire
  got       \* what was read

vars == <<job, pc, wire, got, bundleVars>>

-----------------------------------------------------------------------------
(* Messages *)

Long(n) == [i \in 1 .. n |-> i % (Base - 1)]
Extra(i, data)      == [message_index |-> i, data |-> data]
Extras(linked, s)   == [linked |-> linked, items |-> s]
Entry(tag, v)       == [key |-> <<7, 8>>, value |-> [tag |-> tag, v |-> v]]

\* A usual value, another one for every place in a message. msg: the fields before it.
RECURSIVE Usual(_, _, _)
Usual(kind, i, msg) ==
  CASE kind.k = "number"  -> IF kind.w = 1 THEN i ELSE (i + 1) * Base + i
    [] kind.k = "enum"    -> 1
    [] kind.k = "bool"    -> TRUE
    [] kind.k = "raw"     -> [j \in 1 .. kind.n |-> i + j]
    [] kind.k = "pose"    -> [j \in 1 .. PoseLen(msg[kind.quality]) |-> i + j]
    [] kind.k = "extras"  -> Extras(i, <<Extra(i, <<i, i + 1>>)>>)
    [] kind.k = "entries" -> <<Entry("text", <<i>>)>>
    [] kind.k = "list"    ->
         [n \in 1 .. 2 |-> FoldLeft(LAMBDA m, f : m @@ (f.name :> Usual(f.kind, i + n, m)),
                                    <<>>, kind.of)]
    [] OTHER              -> <<i, i + 1, 0>>

\* The values at the limits of what can be written, and past a limit that the writer keeps.
\* (What is longer than its length field is written with a wrong length; no message of the
\* program comes near.)
Limits(kind) ==
  CASE kind.k = "number"  -> {0, Limit(kind.w) - 1}
    [] kind.k = "enum"    -> 0 .. kind.known
    [] kind.k = "bool"    -> {FALSE}
    [] kind.k \in {"string", "name"} -> {<<>>, <<0>>, Long(Limit(2) - 2)}
    [] kind.k = "netid"   -> {<<0>>, Long(Limit(2) - 2)}
    [] kind.k = "bytes"   -> {<<>>, Long(Limit(2) - 1)}
    [] kind.k = "chat"    -> {<<>>, Long(ChatMax), Long(ChatMax + 1)}
    [] kind.k = "trimmed" ->
         {<<>>, Long(kind.n), Long(kind.n + 1), Long(kind.n) \o <<Base - 1>>,
          Long(kind.n - 1) \o <<Base - 1, Base - 1, 1>>}
    [] kind.k = "extras"  ->
         {Extras(1, <<>>), Extras(2, <<Extra(3, <<>>), Extra(4, <<5>>)>>),
          Extras(2, <<Extra(3, Long(Limit(1))), Extra(4, Long(Limit(1) - 1))>>),
          Extras(3, [i \in 1 .. (Limit(1) - 1) |-> Extra(i, <<i>>)])}
    [] kind.k = "entries" ->
         {<<>>, <<Entry("null", <<>>), Entry("bool", TRUE), Entry("nested", <<1, 2>>)>>,
          <<Entry("int", Long(4)), Entry("float", Long(8)), Entry("long", Long(8)),
            Entry("ulong", Long(8)), Entry("text", <<>>)>>}
    [] kind.k = "list"    -> {<<>>}
    [] kind.k = "rest"    -> {<<>>}
    [] OTHER              -> {}

\* A message with usual values, but for the field at place p, which is v.
With(schema, p, v) ==
  FoldLeftDomain(LAMBDA msg, i :
      msg @@ (schema[i].name :> IF i = p THEN v ELSE Usual(schema[i].kind, i, msg)),
    <<>>, schema)

MessageJobs ==
  UNION {{[kind |-> "message", schema |-> s, msg |-> With(s, 0, 0)]} \cup
         UNION {{[kind |-> "message", schema |-> s, msg |-> With(s, p, v)]
                 : v \in Limits(s[p].kind)} : p \in DOMAIN s}
         : s \in Schemas}

Send ==
  /\ pc = "message" /\ pc' = "flying"
  /\ wire' = Serialize(job.schema, job.msg)
  /\ UNCHANGED <<job, got, bundleVars>>

\* The packet of a peer that ends before its message does.
Cut(n) ==
  /\ pc = "flying" /\ pc' = "short" /\ n < Len(wire) /\ Len(wire) <= MaxCut
  /\ wire' = SubSeq(wire, 1, n)
  /\ UNCHANGED <<job, got, bundleVars>>

Receive ==
  /\ pc \in {"flying", "short"} /\ pc' = IF pc = "flying" THEN "read" ELSE "read short"
  /\ got' = Deserialize(job.schema, wire)
  /\ UNCHANGED <<job, wire, bundleVars>>

-----------------------------------------------------------------------------
(* Poses *)

PLAYER_AVATAR_VERY_LOW       == 6
PLAYER_AVATAR_VERY_LOW_LARGE == 41
COMPRESSED_AVATAR_BUNDLE     == 52

Index   == [very_low |-> 0, low |-> 1, medium |-> 2, high |-> 3]
One(b)  == IF b THEN 1 ELSE 0

player_avatar_channel(quality, additional, large) ==
  (IF large THEN PLAYER_AVATAR_VERY_LOW_LARGE ELSE PLAYER_AVATAR_VERY_LOW)
  + 2 * Index[quality] + One(additional)

is_large_player_id_channel(channel) == channel \in PLAYER_AVATAR_VERY_LOW_LARGE .. 48

quality_from_channel(channel) ==
  LET first == IF channel >= PLAYER_AVATAR_VERY_LOW_LARGE
                 THEN PLAYER_AVATAR_VERY_LOW_LARGE ELSE PLAYER_AVATAR_VERY_LOW IN
    CHOOSE q \in Quality : Index[q] = (channel - first) \div 2

\* What a client can be showing: for every field of every rotation, of so many bits.
Pattern == {"least", "most", "middle", "mixed", "sparse"}
Value(pattern, bone, k, bits) ==
  CASE pattern = "least"  -> 0
    [] pattern = "most"   -> 2 ^ bits - 1
    [] pattern = "middle" -> 2 ^ (bits - 1)
    [] pattern = "mixed"  -> (37 * bone + 11 * k) % 2 ^ bits
    [] pattern = "sparse" -> IF bone % 5 = k THEN 2 ^ bits - 1 ELSE 0

PoseOf(pattern, q) ==
  [position |-> "position", tail |-> "tail", quality |-> q,
   bits |-> UNION {LET bpc == Bpc[q][bone] IN
                     write_bits(Value(pattern, bone, k, Width(k, bpc)),
                                Offsets[q][bone] + Shift(k, bpc), Width(k, bpc))
                   : bone \in Bones, k \in 0 .. 3}]

\* A client moves in a quality of its choice, with or without additional data; a receiver is
\* far enough for the target.
PoseJobs ==
  {j \in [kind : {"pose"}, pattern : Pattern, inbound : Quality, additional : BOOLEAN,
          target : Quality, player_id : {5, Base + 5}, sequence : {0, Base - 1}] :
     j.inbound = "high" \/ j.target = j.inbound}

\* process_pending_update takes the quality from the channel and leaves the additional data
\* away; build_quality_packets makes all qualities of a high one, and pre_serialize the
\* packets, of which a receiver is sent the one with the small id if the id is small.
Enter ==
  LET channel == player_avatar_channel(job.inbound, job.additional, FALSE)
      inbound == quality_from_channel(channel)
      pose    == PoseOf(job.pattern, inbound)
      large   == job.player_id >= Base
      header  == [player_id |-> job.player_id, interval |-> 0, sequence |-> job.sequence,
                  payload |-> <<>>] IN
    /\ pc = "pose" /\ pc' = "entered"
    /\ wire' = [channel |-> player_avatar_channel(job.target, FALSE, large),
                header  |-> Serialize(AvatarPacket(large), header),
                pose    |-> IF inbound = job.target THEN pose
                            ELSE repack_high_to_lower(pose, job.target)]
    /\ UNCHANGED <<job, got, bundleVars>>

\* A client takes the quality and the size of the id from the channel.
See ==
  /\ pc = "entered" /\ pc' = "seen"
  /\ LET quality == quality_from_channel(wire.channel)
         header  == Deserialize(AvatarPacket(is_large_player_id_channel(wire.channel)),
                                wire.header).v IN
       got' = [quality |-> quality, player_id |-> header.player_id, sequence |-> header.sequence,
               position |-> wire.pose.position, tail |-> wire.pose.tail,
               rotations |-> [bone \in Bones |-> [k \in 0 .. 3 |->
                               Rotation(wire.pose.bits, quality, bone, k)]]]
  /\ UNCHANGED <<job, wire, bundleVars>>

-----------------------------------------------------------------------------
(* Bundles *)

AvatarChannel(x) == player_avatar_channel("high", FALSE, x.large)
PlayerOf(x)      == IF x.large THEN Base + x.sequence ELSE x.sequence

\* The packet is made before it is known how long the interval of the receiver is.
Packet(x) ==
  Serialize(AvatarPacket(x.large),
            [player_id |-> PlayerOf(x), interval |-> 0, sequence |-> x.sequence,
             payload |-> x.payload])

\* The packets of a tick, numbered by the sequence; some of the ids are large.
BatchPacket(i, size) ==
  LET x == [large |-> i % 2 = 0, interval |-> i + 9, sequence |-> i,
            payload |-> [j \in 1 .. size |-> i + j]]
  IN x @@ ("len" :> Len(Packet(x)))

BundleJobs ==
  {[packets |-> [i \in DOMAIN sizes |-> BatchPacket(i, sizes[i])], min_messages |-> m, min_bytes |-> b]
   : sizes \in BoundedSeq(Sizes, MaxPackets), m \in MinMessages, b \in MinBytes}

IntervalOffset(x) == IF x.large THEN 2 ELSE 1

\* patch_interval_bytes, and the same in a bundle
Patched(x) == [Packet(x) EXCEPT ![IntervalOffset(x) + 1] = x.interval]

\* try_encode_avatar_bundle_slices: the items, behind their number and how long they are.
BundleItem == <<U8("channel"), Bytes("payload")>>
Bundle(items, raw_len) ==
  [channel |-> COMPRESSED_AVATAR_BUNDLE, count |-> Len(items), raw_len |-> raw_len,
   compressed |-> FlattenSeq([i \in DOMAIN items |->
      Serialize(BundleItem, [channel |-> AvatarChannel(items[i]), payload |-> Patched(items[i])])])]

\* A packet of a batch, or a bundle of them, on the wire
OnWire(s) ==
  LET items == SubSeq(batch.packets, s.from + 1, s.to)
  IN IF s.bundled THEN Bundle(items, s.raw_len)
     ELSE [channel |-> AvatarChannel(items[1]), payload |-> Patched(items[1])]

\* decode_avatar_bundle
Unbundled(p) ==
  IF p.channel # COMPRESSED_AVATAR_BUNDLE THEN <<p>>
  ELSE GetMany(p.count, p.compressed, LAMBDA left : Deserialize(BundleItem, left)).v

-----------------------------------------------------------------------------
NoBatch == [packets |-> <<>>, min_messages |-> 0, min_bytes |-> 0]

Init ==
  /\ \/ /\ job \in MessageJobs \cup PoseJobs
        /\ batch = NoBatch /\ phase = "none" /\ cursor = 0 /\ chunk_end = 0 /\ sent = <<>>
     \/ job = [kind |-> "bundle"] /\ BundleInit
  /\ pc = job.kind /\ wire = <<>> /\ got = <<>>

Next ==
  \/ Send \/ (\E n \in 0 .. MaxCut : Cut(n)) \/ Receive
  \/ Enter \/ See
  \/ BundleNext /\ UNCHANGED <<job, pc, wire, got>>

Spec == Init /\ [][Next]_vars

-----------------------------------------------------------------------------
\* The longest text of whole characters that begins s and has at most n bytes.
LongestText(s, n) ==
  LET texts == {i \in 0 .. n : i <= Len(s) /\ (i < Len(s) => s[i + 1] # Base - 1)} IN
    SubSeq(s, 1, CHOOSE i \in texts : \A j \in texts : j <= i)

\* What the reader of a message has in the place of what was written.
Kept(kind, v) ==
  CASE kind.k = "name" /\ v = <<>>     -> Failure
    [] kind.k = "chat"                 -> Upto(v, ChatMax)
    [] kind.k = "trimmed"              -> LongestText(v, kind.n)
    [] kind.k = "enum" /\ v = kind.known -> 0
    [] kind.k = "extras"               ->
         IF v.items = <<>> THEN Extras(0, <<>>)
         ELSE Extras(v.linked, [i \in DOMAIN v.items |->
                LET x == v.items[i] IN
                  IF x.data = <<>> THEN Extra(0, <<>>)
                  ELSE Extra(x.message_index, Upto(x.data, Limit(1) - 1))])
    [] kind.k = "entries"              ->
         [i \in DOMAIN v |->
            IF v[i].value.tag = "nested" THEN [v[i] EXCEPT !.value.tag = "text"] ELSE v[i]]
    [] OTHER                           -> v

\* What a receiver reads of the packets and bundles of a tick, one after the other
BundlesRead ==
  LET seen == FlattenSeq([i \in DOMAIN sent |-> Unbundled(OnWire(sent[i]))])
  IN /\ Len(seen) = count
     /\ \A i \in 1 .. count :
          LET x      == batch.packets[i]
              packet == Deserialize(AvatarPacket(is_large_player_id_channel(seen[i].channel)),
                                    seen[i].payload)
          IN packet.ok /\ packet.v = [player_id |-> PlayerOf(x), interval |-> x.interval,
                                      sequence |-> x.sequence, payload |-> x.payload]

(* What is read of a message is what was written, with nothing left over,    *)
(* also at the limits of its lengths, but for what the writer leaves away    *)
(* on purpose; and a packet that ends too early is noticed, unless the       *)
(* message ends with the rest of the packet, or with a name that may lack.   *)
(* Of the bundles of a tick a receiver reads every packet, in order, with    *)
(* the interval of this receiver.                                            *)
RoundTrips ==
  /\ pc = "read" =>
       LET fields == SelectSeq(job.schema, LAMBDA f : Present(f, job.msg)) IN
         /\ got.ok /\ got.left = <<>>
         /\ DOMAIN got.v = {fields[i].name : i \in DOMAIN fields}
         /\ \A i \in DOMAIN fields :
              got.v[fields[i].name] = Kept(fields[i].kind, job.msg[fields[i].name])
  /\ pc = "read short" /\ got.ok =>
       \/ Last(job.schema).kind.k = "rest"
       \/ job.schema = NetIdMessage /\ wire = <<>>
  /\ phase = "sent" => BundlesRead

Abs(n) == IF n < 0 THEN -n ELSE n

(* A pose is seen with the quality, the player and the sequence it was sent  *)
(* for; every component that is repacked is the nearest one of its size to   *)
(* the original, no field runs into another one, the position or the tail,   *)
(* and the index of the component left out is the same.                      *)
PoseKept ==
  pc = "seen" =>
    /\ <<got.quality, got.player_id, got.sequence>> = <<job.target, job.player_id, job.sequence>>
    /\ got.position = "position" /\ got.tail = "tail"
    /\ \A b \in wire.pose.bits : b < 8 * rotation_len[job.target]
    /\ \A bone \in Bones : \A k \in 0 .. 3 :
         LET src   == Bpc[job.inbound][bone]
             dst   == Bpc[job.target][bone]
             value == Value(job.pattern, bone, k, Width(k, src))
             seen  == got.rotations[bone][k] IN
           IF k = 0 THEN seen = value
           ELSE 2 * Abs(seen * (2 ^ src - 1) - value * (2 ^ dst - 1)) <= 2 ^ src - 1
=============================================================================
