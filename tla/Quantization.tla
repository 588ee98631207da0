---------------------------- MODULE Quantization ----------------------------
(* Group-wise weight quantization of orion-models.  A weight is an integer, or  *)
(* NotFinite; a scale is the pair <<range, levels - 1>>.  The group size and    *)
(* the width of i32 are parameters: 128 and 31 bits in the code.  Integers      *)
(* saturate when a float is converted and wrap when they are subtracted, as in  *)
(* a release build.                                                             *)
EXTENDS Integers, Sequences, FiniteSets, FiniteSetsExt, SequencesExt

CONSTANTS GROUP_SIZE,
          I32,         \* i32 ranges over -I32 .. I32 - 1
          NotFinite    \* a NaN or an infinity among the weights

ASSUME QuantAssumption == GROUP_SIZE \in Nat \ {0} /\ I32 \in Nat \ {0}

bits(q) == IF q = "int8" THEN 8 ELSE 4
max_value(q) == 2 ^ bits(q) - 1

div_ceil(n, d) == (n + d - 1) \div d

(* slice::chunks: the last one may be short.                                    *)
chunks(s, size) ==
    [g \in 1..div_ceil(Len(s), size) |->
        SubSeq(s, (g - 1) * size + 1, IF g * size < Len(s) THEN g * size ELSE Len(s))]

Abs(x) == IF x < 0 THEN -x ELSE x

(* f32::round: halves go away from zero.                                        *)
round(n, d) == IF n >= 0 THEN (2 * n + d) \div (2 * d) ELSE -((2 * (-n) + d) \div (2 * d))

AsI32(x) == IF x >= I32 THEN I32 - 1 ELSE IF x < -I32 THEN -I32 ELSE x
WrapI32(x) == ((x + I32) % (2 * I32)) - I32

clamp(x, hi) == IF x < 0 THEN 0 ELSE IF x > hi THEN hi ELSE x

range(group) == Max(ToSet(group)) - Min(ToSet(group))

(* Scale 0 marks a constant group, whose zero point is the value itself.        *)
scale_of(group, q) == IF range(group) > 0 THEN <<range(group), max_value(q)>> ELSE <<0, 1>>

zero_point_of(group, q) ==
    IF range(group) > 0
    THEN AsI32(round(-Min(ToSet(group)) * max_value(q), range(group)))
    ELSE Min(ToSet(group))

QuantizedGroup(group, q) ==
    [i \in 1..Len(group) |->
        IF range(group) > 0
        THEN clamp(AsI32(round(group[i] * max_value(q), range(group))) + zero_point_of(group, q),
                   max_value(q))
        ELSE 0]

Nibble(v) == v % 16

pack_HighFirst(values, q) ==
    IF q = "int8" THEN values
    ELSE [g \in 1..div_ceil(Len(values), 2) |->
             LET pair == chunks(values, 2)[g]
             IN  16 * Nibble(pair[1]) + (IF Len(pair) > 1 THEN Nibble(pair[2]) ELSE 0)]

pack(values, q) ==
    IF q = "int8" THEN values
    ELSE [g \in 1..div_ceil(Len(values), 2) |->
             LET pair == chunks(values, 2)[g]
             IN  Nibble(pair[1]) + 16 * (IF Len(pair) > 1 THEN Nibble(pair[2]) ELSE 0)]

unpack(data, q, count) ==
    IF q = "int8" THEN SubSeq(data, 1, count)
    ELSE SubSeq(FlattenSeq([b \in 1..Len(data) |-> <<data[b] % 16, data[b] \div 16>>]), 1, count)

(* "error" for a weight that is not finite.                                     *)
quantize(values, q) ==
    LET groups == chunks(values, GROUP_SIZE)
    IN  IF NotFinite \in ToSet(values) THEN [status |-> "error"]
        ELSE [status |-> "ok",
              data |-> pack(FlattenSeq([g \in 1..Len(groups) |-> QuantizedGroup(groups[g], q)]), q),
              scales |-> [g \in 1..Len(groups) |-> scale_of(groups[g], q)],
              zero_points |-> [g \in 1..Len(groups) |-> zero_point_of(groups[g], q)],
              num_elements |-> Len(values),
              bits |-> q]

(* Each weight as a pair <<n, d>>.                                              *)
dequantize(tensor) ==
    LET groups == chunks(unpack(tensor.data, tensor.bits, tensor.num_elements), GROUP_SIZE)
        Weight(g, x) ==
            LET scale == tensor.scales[g]
                zero_point == tensor.zero_points[g]
            IN  IF scale[1] = 0 THEN <<zero_point, 1>>
                ELSE <<WrapI32(x - zero_point) * scale[1], scale[2]>>
    IN  FlattenSeq([g \in 1..Len(groups) |->
                       [i \in 1..Len(groups[g]) |-> Weight(g, groups[g][i])]])

(* The largest error as a pair; zero when the lengths differ.                   *)
max_abs_error(original, rebuilt) ==
    IF original = << >> \/ Len(original) # Len(rebuilt) THEN <<0, 1>>
    ELSE FoldLeft(LAMBDA a, b : IF b[1] * a[2] > a[1] * b[2] THEN b ELSE a,
                  <<0, 1>>,
                  [i \in 1..Len(original) |->
                      <<Abs(original[i] * rebuilt[i][2] - rebuilt[i][1]), rebuilt[i][2]>>])
=============================================================================
