---------------------------- MODULE AudioChannel ----------------------------
(***************************************************************************)
(* system/audio.h: masks of audio channels.  An audio_channel_mask_t is    *)
(* the set of the bits that are 1 in it: the two highest ones say how the  *)
(* others are meant, as positions or as indices.                           *)
(***************************************************************************)
EXTENDS Integers, FiniteSets

AUDIO_CHANNEL_COUNT_MAX == 30

AUDIO_CHANNEL_REPRESENTATION_POSITION == {}
AUDIO_CHANNEL_REPRESENTATION_INDEX == {31}

AUDIO_CHANNEL_NONE == {}
AUDIO_CHANNEL_INVALID == {30, 31}

AUDIO_CHANNEL_OUT_ALL == 0 .. 17
AUDIO_CHANNEL_IN_ALL == 2 .. 15

AUDIO_CHANNEL_OUT_FRONT_CENTER == {2}
AUDIO_CHANNEL_OUT_BACK_CENTER == {8}
AUDIO_CHANNEL_OUT_MONO == {0}
AUDIO_CHANNEL_OUT_STEREO == {0, 1}
AUDIO_CHANNEL_OUT_QUAD == {0, 1, 4, 5}
AUDIO_CHANNEL_OUT_5POINT1 == 0 .. 5
AUDIO_CHANNEL_OUT_7POINT1 == 0 .. 5 \cup {9, 10}
AUDIO_CHANNEL_IN_MONO == {4}
AUDIO_CHANNEL_IN_STEREO == {2, 3}
AUDIO_CHANNEL_IN_5POINT1 == 2 .. 7
-----------------------------------------------------------------------------
audio_channel_mask_get_bits(channel) == channel \cap 0 .. AUDIO_CHANNEL_COUNT_MAX - 1

audio_channel_mask_get_representation(channel) == channel \ (0 .. AUDIO_CHANNEL_COUNT_MAX - 1)

Representation(channel) == audio_channel_mask_get_representation(channel)

\* The representations that are not reserved.
Known(channel) ==
  Representation(channel)
    \in {AUDIO_CHANNEL_REPRESENTATION_POSITION, AUDIO_CHANNEL_REPRESENTATION_INDEX}

audio_channel_mask_is_valid(channel) ==
  Known(channel) /\ audio_channel_mask_get_bits(channel) # {}

\* audio_is_input_channel and audio_is_output_channel, with the positions
\* of the direction.
IsChannel(channel, all) ==
  /\ audio_channel_mask_is_valid(channel)
  /\ Representation(channel) = AUDIO_CHANNEL_REPRESENTATION_POSITION
       => audio_channel_mask_get_bits(channel) \subseteq all

audio_is_input_channel(channel) == IsChannel(channel, AUDIO_CHANNEL_IN_ALL)
audio_is_output_channel(channel) == IsChannel(channel, AUDIO_CHANNEL_OUT_ALL)

\* Mutated form of CountFrom: the positions of the direction are counted
\* also when the bits are indices.
CountPositions(channel, all) ==
  IF Known(channel) THEN Cardinality(audio_channel_mask_get_bits(channel) \cap all) ELSE 0

\* audio_channel_count_from_in_mask and audio_channel_count_from_out_mask.
CountFrom(channel, all) ==
  LET bits == audio_channel_mask_get_bits(channel)
  IN  CASE Representation(channel) = AUDIO_CHANNEL_REPRESENTATION_POSITION ->
             Cardinality(bits \cap all)
        [] Representation(channel) = AUDIO_CHANNEL_REPRESENTATION_INDEX -> Cardinality(bits)
        [] OTHER -> 0

audio_channel_count_from_in_mask(channel) == CountFrom(channel, AUDIO_CHANNEL_IN_ALL)
audio_channel_count_from_out_mask(channel) == CountFrom(channel, AUDIO_CHANNEL_OUT_ALL)
-----------------------------------------------------------------------------
audio_channel_mask_from_representation_and_bits(representation, bits) == representation \cup bits

\* The bits for 1 to 8 channels.
OutBits ==
  <<AUDIO_CHANNEL_OUT_MONO,
    AUDIO_CHANNEL_OUT_STEREO,
    AUDIO_CHANNEL_OUT_STEREO \cup AUDIO_CHANNEL_OUT_FRONT_CENTER,
    AUDIO_CHANNEL_OUT_QUAD,
    AUDIO_CHANNEL_OUT_QUAD \cup AUDIO_CHANNEL_OUT_FRONT_CENTER,
    AUDIO_CHANNEL_OUT_5POINT1,
    AUDIO_CHANNEL_OUT_5POINT1 \cup AUDIO_CHANNEL_OUT_BACK_CENTER,
    AUDIO_CHANNEL_OUT_7POINT1>>

audio_channel_out_mask_from_count(channel_count) ==
  CASE channel_count = 0 -> AUDIO_CHANNEL_NONE
    [] channel_count \in DOMAIN OutBits ->
         audio_channel_mask_from_representation_and_bits(
           AUDIO_CHANNEL_REPRESENTATION_POSITION, OutBits[channel_count])
    [] OTHER -> AUDIO_CHANNEL_INVALID

audio_channel_in_mask_from_count(channel_count, qcom) ==
  LET position(bits) ==
        audio_channel_mask_from_representation_and_bits(
          AUDIO_CHANNEL_REPRESENTATION_POSITION, bits)
  IN  CASE channel_count = 0 -> AUDIO_CHANNEL_NONE
        [] channel_count = 1 -> position(AUDIO_CHANNEL_IN_MONO)
        [] channel_count = 2 -> position(AUDIO_CHANNEL_IN_STEREO)
        [] channel_count = 6 /\ qcom -> position(AUDIO_CHANNEL_IN_5POINT1)
        [] OTHER -> AUDIO_CHANNEL_INVALID

audio_channel_mask_for_index_assignment_from_count(channel_count) ==
  CASE channel_count = 0 -> AUDIO_CHANNEL_NONE
    [] channel_count \in 1 .. AUDIO_CHANNEL_COUNT_MAX ->
         audio_channel_mask_from_representation_and_bits(
           AUDIO_CHANNEL_REPRESENTATION_INDEX, 0 .. channel_count - 1)
    [] OTHER -> AUDIO_CHANNEL_INVALID
=============================================================================
