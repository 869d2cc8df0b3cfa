----------------------------- MODULE AvatarBits -----------------------------
(****************************************************************************)
(* The pose of an avatar as bits: where the rotation of every bone is, and  *)
(* what repack_high_to_lower_into makes of a pose of high quality.          *)
(*                                                                          *)
(* A payload is a position, the rotations, and a tail; a rotation is two    *)
(* bits, which name the component left out, and three components of         *)
(* bpc[bone] bits. The bits of the rotations are modelled as the set of     *)
(* those that are 1, counted from the first byte of the rotations: this is  *)
(* what read_bits_u64 and write_bits_u64 see, which go over the bytes from  *)
(* the low bit to the high one.                                             *)
(****************************************************************************)
EXTENDS Integers, Sequences, SequencesExt, FiniteSetsExt

Quality == {"very_low", "low", "medium", "high"}

BPC_HIGH ==
  <<10, 10, 10, 10, 10, 10, 10, 10, 10, 10, 10, 10, 10, 10, 10, 10, 10, 9, 9, 5, 5, 6, 6, 6, 6,
    5, 6, 6, 6, 6, 5, 6, 6, 5, 5, 5, 6, 6, 5, 5, 5, 5, 5, 5, 5, 5, 5, 5, 5, 5, 5>>
BPC_MEDIUM ==
  <<8, 8, 8, 8, 8, 8, 8, 8, 8, 8, 8, 8, 8, 8, 8, 8, 8, 6, 6, 3, 3, 6, 6, 5, 5, 4, 6, 6, 5, 5, 4,
    5, 5, 4, 4, 4, 5, 5, 4, 4, 4, 4, 4, 4, 4, 4, 4, 4, 4, 4, 4>>
BPC_LOW ==
  <<6, 6, 6, 6, 6, 6, 6, 6, 6, 6, 6, 6, 6, 6, 6, 6, 6, 5, 5, 3, 3, 5, 5, 4, 4, 3, 5, 5, 4, 4, 3,
    4, 4, 3, 3, 3, 4, 4, 3, 3, 3, 3, 3, 3, 3, 3, 3, 3, 3, 3, 3>>
BPC_VERY_LOW ==
  <<5, 5, 5, 5, 5, 5, 5, 5, 5, 5, 5, 5, 5, 5, 5, 5, 5, 4, 4, 2, 2, 4, 4, 3, 3, 2, 4, 4, 3, 3, 2,
    3, 3, 2, 2, 2, 3, 3, 2, 2, 2, 2, 2, 2, 2, 2, 2, 2, 2, 2, 2>>

Bpc == [very_low |-> BPC_VERY_LOW, low |-> BPC_LOW, medium |-> BPC_MEDIUM, high |-> BPC_HIGH]
Bones == 1 .. Len(BPC_HIGH)

rotation_len == [very_low |-> 78, low |-> 97, medium |-> 122, high |-> 148]

RotationBits(bits) == 2 + 3 * bits

\* bit_offsets: every rotation begins where the one before it ends.
OffsetsBy(bpc, Bits(_)) ==
  FoldLeft(LAMBDA offsets, b : Append(offsets, offsets[Len(offsets)] + Bits(b)), <<0>>, bpc)
\* Mutant: the two bits of the index are not counted.
bit_offsets_components(bpc) == OffsetsBy(bpc, LAMBDA bits : 3 * bits)

bit_offsets(bpc) == OffsetsBy(bpc, RotationBits)

Offsets == [q \in Quality |-> bit_offsets(Bpc[q])]

\* Where the field k of a rotation is: its index, and its three components.
Shift(k, bits) == IF k = 0 THEN 0 ELSE 2 + (k - 1) * bits
Width(k, bits) == IF k = 0 THEN 2 ELSE bits

read_bits(bits, at, count) == MapThenSumSet(LAMBDA i : 2 ^ i, {i \in 0 .. (count - 1) : at + i \in bits})
write_bits(value, at, count) == {at + i : i \in {j \in 0 .. (count - 1) : (value \div 2 ^ j) % 2 = 1}}

\* The field k of the rotation of a bone.
Rotation(bits, quality, bone, k) ==
  LET bpc == Bpc[quality][bone] IN
    read_bits(bits, Offsets[quality][bone] + Shift(k, bpc), Width(k, bpc))

rescale_quant(value, src_bits, dst_bits) ==
  LET max_src == 2 ^ src_bits - 1
      max_dst == 2 ^ dst_bits - 1 IN
    IF src_bits = dst_bits THEN value
    ELSE (value * max_dst + max_src \div 2) \div max_src

\* Position and tail are copied to where they are in a payload of the target's length.
repack_high_to_lower(pose, target) ==
  [position |-> pose.position, tail |-> pose.tail, quality |-> target,
   bits |-> UNION {
     LET src == BPC_HIGH[bone]
         dst == Bpc[target][bone]
         q   == Rotation(pose.bits, "high", bone, k) IN
       write_bits(IF k = 0 THEN q ELSE rescale_quant(q, src, dst),
                  Offsets[target][bone] + Shift(k, dst), Width(k, dst))
     : bone \in Bones, k \in 0 .. 3}]
=============================================================================
