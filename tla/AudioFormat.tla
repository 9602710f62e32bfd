----------------------------- MODULE AudioFormat -----------------------------
(***************************************************************************)
(* system/audio.h, hardware/audio.h and hardware/audio_alsaops.h: sample   *)
(* formats, and the sizes of frames.  A format has a main field, here the  *)
(* name of a codec, and a sub field.  0 is AUDIO_FORMAT_DEFAULT, which is  *)
(* PCM with no sub format.                                                 *)
(***************************************************************************)
EXTENDS AudioChannel

SUB_16_BIT == 1
SUB_8_BIT == 2
SUB_32_BIT == 3
SUB_8_24_BIT == 4
SUB_FLOAT == 5
SUB_24_BIT_PACKED == 6

AUDIO_FORMAT_DEFAULT == [main |-> "PCM", sub |-> 0]
AUDIO_FORMAT_PCM_8_24_BIT == [main |-> "PCM", sub |-> SUB_8_24_BIT]

Speech == {"AMR_NB", "AMR_WB", "EVRC", "EVRCB", "EVRCWB", "EVRCNW"}
Codecs ==
  {"MP3", "AMR_NB", "AMR_WB", "AAC", "HE_AAC_V1", "HE_AAC_V2", "VORBIS", "OPUS", "AC3", "E_AC3"}
QcomCodecs ==
  {"QCELP", "EVRC", "EVRCB", "EVRCWB", "AAC_ADIF", "WMA", "WMA_PRO", "DTS", "DTS_LBR",
   "AMR_WB_PLUS", "MP2", "EVRCNW", "FLAC", "E_AC3_JOC"}

Formats == [main : Codecs \cup QcomCodecs \cup {"PCM", "PCM_OFFLOAD"}, sub : 0 .. 7]
-----------------------------------------------------------------------------
audio_is_valid_format(format, qcom) ==
  \/ format.main = "PCM" /\ format.sub \in SUB_16_BIT .. SUB_24_BIT_PACKED
  \/ format.main \in Codecs
  \/ qcom /\ format.main \in QcomCodecs
  \/ qcom /\ format.main = "PCM_OFFLOAD" /\ format.sub \in {SUB_16_BIT, SUB_8_24_BIT}

audio_is_linear_pcm(format) == format.main = "PCM"
audio_is_offload_pcm(format, qcom) == qcom /\ format.main = "PCM_OFFLOAD"
audio_is_compress_capture_format(format, qcom) ==
  qcom /\ format = [main |-> "AMR_WB", sub |-> 0]
audio_is_compress_voip_format(format, qcom) == qcom /\ format.main \in Speech /\ format.sub = 0

PcmBytes == <<2, 1, 4, 4, 4, 3>>   \* by sub format
QcomBytes == [AMR_NB |-> 32, EVRC |-> 23, QCELP |-> 35, AAC |-> 2048, AMR_WB |-> 61]

\* Mutated form of the next definition: a packed sample has the size of an
\* int32_t.
BytesUnpacked(format, qcom) ==
  IF format.main = "PCM" /\ format.sub \in DOMAIN PcmBytes
    THEN [PcmBytes EXCEPT ![SUB_24_BIT_PACKED] = 4][format.sub]
    ELSE IF qcom THEN 1 ELSE 0

audio_bytes_per_sample(format, qcom) ==
  CASE format.main = "PCM" /\ format.sub \in DOMAIN PcmBytes -> PcmBytes[format.sub]
    [] format.main = "PCM_OFFLOAD" /\ format.sub \in {SUB_16_BIT, SUB_8_24_BIT} ->
         PcmBytes[format.sub]
    [] qcom /\ format.main \in DOMAIN QcomBytes /\ format.sub = 0 -> QcomBytes[format.main]
    [] OTHER -> IF qcom THEN 1 ELSE 0
-----------------------------------------------------------------------------
\* The formats of tinyalsa that the conversions name; the first has value 0,
\* as what the conversions return for every other format does.
PcmFormats(bigEndian) ==
  IF bigEndian THEN <<"S16_BE", "S24_3BE", "S32_BE", "S24_BE">>
               ELSE <<"S16_LE", "S24_3LE", "S32_LE", "S24_LE">>

Converted == <<SUB_16_BIT, SUB_24_BIT_PACKED, SUB_32_BIT, SUB_8_24_BIT>>

Convertible(format) == format.main = "PCM" /\ \E k \in DOMAIN Converted : Converted[k] = format.sub

pcm_format_from_audio_format(format, bigEndian) ==
  IF Convertible(format)
    THEN LET k == CHOOSE j \in DOMAIN Converted : Converted[j] = format.sub
         IN  PcmFormats(bigEndian)[k]
    ELSE "S16_LE"

\* Mutated form of the next definition: 32 and 24 bits are exchanged.
FromPcmExchanged(format, bigEndian) ==
  LET known == {k \in DOMAIN Converted : PcmFormats(bigEndian)[k] = format}
  IN  IF known = {} THEN AUDIO_FORMAT_DEFAULT
      ELSE [main |-> "PCM",
            sub |-> LET k == CHOOSE j \in known : TRUE
                    IN  Converted[IF k = 3 THEN 4 ELSE IF k = 4 THEN 3 ELSE k]]

audio_format_from_pcm_format(format, bigEndian) ==
  LET known == {k \in DOMAIN Converted : PcmFormats(bigEndian)[k] = format}
  IN  IF known = {} THEN AUDIO_FORMAT_DEFAULT
      ELSE [main |-> "PCM", sub |-> Converted[CHOOSE k \in known : TRUE]]
-----------------------------------------------------------------------------
\* audio_stream_out_frame_size and audio_stream_in_frame_size, by the
\* positions of the direction.
FrameSize(format, channels, all, qcom) ==
  IF audio_is_linear_pcm(format)
    THEN CountFrom(channels, all) * audio_bytes_per_sample(format, qcom)
    ELSE 1

audio_stream_out_frame_size(format, channels, qcom) ==
  FrameSize(format, channels, AUDIO_CHANNEL_OUT_ALL, qcom)
audio_stream_in_frame_size(format, channels, qcom) ==
  FrameSize(format, channels, AUDIO_CHANNEL_IN_ALL, qcom)

\* The deprecated one: popcount takes the bits of the representation, too.
audio_stream_frame_size(format, channels, qcom) ==
  IF audio_is_linear_pcm(format) /\ format # AUDIO_FORMAT_PCM_8_24_BIT
    THEN Cardinality(channels) * audio_bytes_per_sample(format, qcom)
    ELSE 1
=============================================================================
