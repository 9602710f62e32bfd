--------------------------- MODULE HeaderFunctions ---------------------------
(***************************************************************************)
(* The functions of the headers that compute something and keep no state:  *)
(* fs_config, the comparisons of log times, the bitmasks, the devices,     *)
(* channels and formats of audio, the walk over a Mifare card, packed      *)
(* fields and the sockets of init.  A behaviour is one call, for arguments *)
(* from the sets below, and its result; where functions answer questions   *)
(* about the same thing, one call asks all of them.                        *)
(***************************************************************************)
EXTENDS FsConfig, LogTime, Bitmask, AudioDevice, AudioFormat, MifStdFormat, NfcFields,
        ControlSocket

CONSTANTS Extensions,   \* pieces that follow the text of a rule in some path
          Sizes,        \* of bitmasks, in bits
          ChannelBits,  \* the bits of channel masks that vary
          SocketNames,  \* as sequences of letters
          Numbers       \* that variables of the environment hold

ASSUME HeaderFunctionsAssumption ==
  /\ {"*", "/"} \cap Extensions = {}
  /\ ByteValues \in {2 * k : k \in 1 .. 128} /\ NS_PER_SEC \in 1 .. Modulus \div 2
  /\ BITS_PER_WORD \in Nat \ {0} /\ Sizes \subseteq Nat \ {0}
  /\ ChannelBits \subseteq 0 .. AUDIO_CHANNEL_COUNT_MAX - 1
  /\ BYTE_SIZE \in Nat \ {0} /\ KeyRoom \in Nat \ 0 .. 2
  /\ SocketNames \subseteq Seq(STRING) /\ Numbers \subseteq Int
  /\ IntValues \in Nat \ {0} /\ LongValues \in Nat /\ IntValues <= LongValues

\* The paths around the text of every rule: itself, its parent, and what
\* begins with it, in the same directory or below.
Paths ==
  LET around(rule) ==
        LET p == Text(rule)
        IN  {p, p \o <<"/", "x">>} \cup {Append(p, e) : e \in Extensions}
              \cup (IF p = <<>> THEN {} ELSE {Front(p)})
  IN  UNION {around(rule) : rule \in Range(android_dirs) \cup Range(android_files)}

Times == [sec : 0 .. Modulus - 1, nsec : 0 .. NS_PER_SEC - 1]

\* The bitmasks that bitmask_init and bitmask_set lead to: all bits past
\* num_bits are 0.
Masks(n) == {m \in Bitmasks(n) : \A b \in n .. BITS_PER_WORD * BITS_TO_WORDS(n) - 1 : ~bitmask_test(m, b)}

\* One device or two of a direction, that have a name or not.
DeviceMasks ==
  LET bits == 0 .. AUDIO_DEVICE_BIT_DEFAULT
      outputs == UNION {{{b, c} : c \in bits} : b \in bits}
  IN  outputs \cup {d \cup {AUDIO_DEVICE_BIT_IN} : d \in outputs}

ChannelMasks == SUBSET (ChannelBits \cup {30, 31})

\* What init published: its sockets, and variables that are not its own.
Environments ==
  LET values == {Number(n) : n \in Numbers} \cup {Word}
  IN  UNION {UNION {[{first, second} -> values] : first \in SocketNames} : second \in SocketNames}

AudioCalls ==
  [function : {"device"}, device : DeviceMasks, qcom : BOOLEAN]
  \cup [function : {"channels"}, mask : ChannelMasks]
  \cup [function : {"mask_from_count"}, count : 0 .. AUDIO_CHANNEL_COUNT_MAX + 2, qcom : BOOLEAN]
  \cup [function : {"format"}, format : Formats, qcom : BOOLEAN, bigEndian : BOOLEAN]
  \cup [function : {"frame_size"}, format : Formats, channels : ChannelMasks, qcom : BOOLEAN]

NfcCalls ==
  [function : {"walk"}, card : {"1K", "4K"}, first : 0 .. 3]
  \cup [function : {"search"}, index : 0 .. MAX_SECT_IND_1K,
         sectors : {{}} \cup {{s, t} : s, t \in 0 .. MAX_SECT_IND_4K - 1}]
  \cup [function : {"keys"}, block : 0 .. 255,
         state : {"DEF_KEY", "NFC_KEY", "MAD_KEY", "KEYB", "SCRT_KEYB"}]
  \cup {c \in [function : {"bits"}, num : BitBytes, p : 0 .. BYTE_SIZE, l : 0 .. BYTE_SIZE,
               val : BitBytes] : c.p + c.l <= BYTE_SIZE /\ c.val \subseteq 0 .. c.l - 1}
  \cup [function : {"packed"}, first : 0 .. Byte - 1, second : 0 .. Byte - 1,
         third : {0, 1, Byte - 1}, fourth : {0, Byte - 1}]
  \cup [function : {"value_field"}, blk : 0 .. 2, byte : 0 .. ISO15693_BYTES_PER_BLOCK - 1,
         long : BOOLEAN]

Calls ==
  AudioCalls \cup NfcCalls
  \cup [function : {"socket"}, name : SocketNames, environment : Environments,
        HAVE_STRLCPY : BOOLEAN, LP64 : BOOLEAN]
  \cup [function : {"fs_config"}, path : Paths \cup {<<"/">> \o p : p \in Paths}, dir : BOOLEAN]
  \cup [function : {"compare"}, first : Times, second : Times]
  \cup UNION { [function : {"bitmask_ffz", "bitmask_weight"}, mask : Masks(n), num_bits : {n}]
               \cup [function : {"bitmask_set", "bitmask_clear"}, mask : Masks(n),
                     num_bits : {n}, bit : 0 .. n - 1]
             : n \in Sizes }
-----------------------------------------------------------------------------
VARIABLES call, result   \* <<>> until the call returns

vars == <<call, result>>

Init == call \in Calls /\ result = <<>>

Return(function, value) ==
  /\ call.function = function /\ result = <<>>
  /\ result' = <<value>>
  /\ UNCHANGED call

Configure == Return("fs_config", fs_config(call.path, call.dir))

\* A log_time from the packet, and the header, of two entries.
Comparison(first, second) ==
  LET t == log_time(Packet(first))   u == log_time(Packet(second))
      e == Header(first)             f == Header(second)
  IN  [before |-> Before(t, u), same |-> t = u, nsecBefore |-> nsec(t) < nsec(u),
       msgBefore |-> MsgBefore(e, f), msgNsecBefore |-> MsgNsec(e) < MsgNsec(f)]

Compare == Return("compare", Comparison(call.first, call.second))

FindZero == Return("bitmask_ffz", bitmask_ffz(call.mask, call.num_bits))
Weigh == Return("bitmask_weight", bitmask_weight(call.mask, call.num_bits))
Set == Return("bitmask_set", bitmask_set(call.mask, call.bit))
Clear == Return("bitmask_clear", bitmask_clear(call.mask, call.bit))

Questions(d, q) ==
  [output |-> audio_is_output_device(d, q), input |-> audio_is_input_device(d, q),
   outputs |-> audio_is_output_devices(d), sco |-> audio_is_bluetooth_sco_device(d),
   a2dpOut |-> audio_is_a2dp_out_device(d), a2dpIn |-> audio_is_a2dp_in_device(d),
   usbOut |-> audio_is_usb_out_device(d), usbIn |-> audio_is_usb_in_device(d),
   submix |-> audio_is_remote_submix_device(d),
   parameter |-> audio_device_address_to_parameter(d)]

Classify == Return("device", Questions(call.device, call.qcom))

Channels(mask) ==
  [valid |-> audio_channel_mask_is_valid(mask),
   isIn |-> audio_is_input_channel(mask), isOut |-> audio_is_output_channel(mask),
   countIn |-> audio_channel_count_from_in_mask(mask),
   countOut |-> audio_channel_count_from_out_mask(mask)]

CountChannels == Return("channels", Channels(call.mask))

MasksFromCount(count, qcom) ==
  [out |-> audio_channel_out_mask_from_count(count),
   in |-> audio_channel_in_mask_from_count(count, qcom),
   index |-> audio_channel_mask_for_index_assignment_from_count(count)]

ChooseMasks == Return("mask_from_count", MasksFromCount(call.count, call.qcom))

Description(f, q, bigEndian) ==
  LET pcm == pcm_format_from_audio_format(f, bigEndian)
  IN  [valid |-> audio_is_valid_format(f, q), linear |-> audio_is_linear_pcm(f),
       offload |-> audio_is_offload_pcm(f, q),
       capture |-> audio_is_compress_capture_format(f, q),
       voip |-> audio_is_compress_voip_format(f, q),
       bytes |-> audio_bytes_per_sample(f, q),
       pcm |-> pcm, back |-> audio_format_from_pcm_format(pcm, bigEndian)]

DescribeFormat ==
  Return("format", Description(call.format, call.qcom, call.bigEndian))

Frame(f, c, qcom) ==
  [out |-> audio_stream_out_frame_size(f, c, qcom),
   in |-> audio_stream_in_frame_size(f, c, qcom),
   deprecated |-> audio_stream_frame_size(f, c, qcom)]

MeasureFrame == Return("frame_size", Frame(call.format, call.channels, call.qcom))

WalkCard == Return("walk", Walk(call.card, call.first))

SearchFrom(index, sectors) ==
  LET search == CHK_SECT_ARRAY(index, sectors)
  IN  [index |-> search.index, found |-> search.found,
       Result |-> CHK_END_OF_CARD(index, sectors).Result]

Search == Return("search", SearchFrom(call.index, call.sectors))
TryKeys == Return("keys", Attempts(call.state, call.block))

SetField == Return("bits", SET_BITS8(call.num, call.p, call.l, call.val))
Packed(a, b, c, d) ==
  [status |-> PHNFCSTVAL(a, b), version |-> HARDWARE_MAKE_API_VERSION(a, b),
   version2 |-> HARDWARE_MAKE_API_VERSION_2(a, b, c * Byte + d),
   library |-> LIB_NFC_VERSION_SET(a, b, c, d),
   length |-> PH_NFCFRI_NDEFMAP_FELI_CAL_LEN_BYTES(d, a, b)]

Pack == Return("packed", Packed(call.first, call.second, call.third, call.fourth))

ValuePlace(blk, byte, long) ==
  [block |-> ISO15693_GET_VALUE_FIELD_BLOCK_NO(blk, byte, long),
   byte |-> ISO15693_GET_VALUE_FIELD_BYTE_NO(byte, long)]

FindValue == Return("value_field", ValuePlace(call.blk, call.byte, call.long))

FindSocket ==
  Return("socket", android_get_control_socket(call.name, call.environment, call.HAVE_STRLCPY,
                                              call.LP64))

Next ==
  \/ Configure \/ Compare \/ FindZero \/ Weigh \/ Set \/ Clear
  \/ Classify \/ CountChannels \/ ChooseMasks \/ DescribeFormat \/ MeasureFrame
  \/ WalkCard \/ Search \/ TryKeys \/ SetField \/ Pack \/ FindValue \/ FindSocket

Spec == Init /\ [][Next]_vars

Returned(function) == call.function = function /\ result # <<>>
Value == result[1]
-----------------------------------------------------------------------------
(* Owners and modes of files: what the comments before the tables promise. *)

Relative == SkipSlash(call.path)

\* A rule is for its path and, with a '*', for the paths that begin with it;
\* a rule for a directory is for everything below it as well.
Covers(rule) ==
  IF call.dir \/ Wild(rule) THEN IsPrefix(Text(rule), Relative)
  ELSE rule.prefix \in {<<>>, Relative}

MostSpecific ==
  LET table == Table(call.dir)
      covering == {k \in DOMAIN table : Covers(table[k])}
      longest == Max({Len(Text(table[k])) : k \in covering})
  IN  {table[k].attributes : k \in {c \in covering : Len(Text(table[c])) = longest}}

\* "These rules are applied based on first match": a file gets what the most
\* specific of its rules says, since no rule comes after a wider one that
\* says something else; and so does a directory, except in data/misc.
RuleMostSpecific ==
  Returned("fs_config") /\ ~(call.dir /\ IsPrefix(<<"data", "/misc">>, Relative))
    => Value \in MostSpecific

\* "... so they should start with the most specific path and work their way
\* up to the root", for all directories.
DirRuleMostSpecific == Returned("fs_config") /\ call.dir => Value \in MostSpecific
-----------------------------------------------------------------------------
Later(t, u) == t.sec > u.sec \/ (t.sec = u.sec /\ t.nsec > u.nsec)

\* "good to Feb 5 2106": to the end of the 32 bits, log_times compare as the
\* times did, also through the bytes of a packet, and so do the nanoseconds.
StampsInOrder ==
  Returned("compare") =>
    /\ Value.before <=> Later(call.second, call.first)
    /\ Value.same <=> call.first = call.second
    /\ Value.nsecBefore <=> Value.before

\* "Matching log_time operators": log_msgs compare as log_times do, while
\* the seconds are in the range of an int32_t.
EntriesMatchUntil2038 ==
  Returned("compare") /\ {call.first.sec, call.second.sec} \subseteq 0 .. Modulus \div 2 - 1 =>
    /\ Value.msgBefore <=> Value.before
    /\ Value.msgNsecBefore <=> Value.nsecBefore
-----------------------------------------------------------------------------
Bits == 0 .. call.num_bits - 1
Ones(mask) == {b \in Bits : bitmask_test(mask, b)}

\* A bitmask is a set of bits: bitmask_ffz finds the lowest that is not in
\* it, or says that there is none, also when num_bits does not fill the last
\* word; bitmask_weight is its size; bitmask_set and bitmask_clear put a bit
\* in or take it out, and leave the others and the padding alone.
BitmaskIsASet ==
  /\ Returned("bitmask_ffz") =>
       Value = IF Ones(call.mask) = Bits THEN -1 ELSE Min(Bits \ Ones(call.mask))
  /\ Returned("bitmask_weight") => Value = Cardinality(Ones(call.mask))
  /\ Returned("bitmask_set") =>
       Value \in Masks(call.num_bits) /\ Ones(Value) = Ones(call.mask) \cup {call.bit}
  /\ Returned("bitmask_clear") =>
       Value \in Masks(call.num_bits) /\ Ones(Value) = Ones(call.mask) \ {call.bit}
-----------------------------------------------------------------------------
Named(devices, names) == {d.mask : d \in {e \in devices : e.name \in names}}

A2dpOut == {"BLUETOOTH_A2DP", "BLUETOOTH_A2DP_HEADPHONES", "BLUETOOTH_A2DP_SPEAKER"}
ScoOut == {"BLUETOOTH_SCO", "BLUETOOTH_SCO_HEADSET", "BLUETOOTH_SCO_CARKIT"}
Usb == {"USB_ACCESSORY", "USB_DEVICE"}

\* The questions about audio devices agree with the names in the enum: single
\* devices are recognised in their own direction, though the same bit stands
\* for another device in the other one, and none is of both.  Submixes are
\* looked for in sets of devices as well; input sets with LINE are left out,
\* since its bit is that of OUT_REMOTE_SUBMIX.  Addresses are those of outputs.
DevicesClassified ==
  Returned("device") =>
    LET d == call.device
        outs == OutDevices(call.qcom)
        ins == InDevices(call.qcom)
        Has(devices, names) == \E mask \in Named(devices, names) : mask \subseteq d
    IN  /\ Value.output <=> d \in {e.mask : e \in outs}
        /\ Value.input <=> d \in {e.mask : e \in ins}
        /\ Value.output => Value.outputs
        /\ Value.input => ~Value.outputs
        /\ Value.a2dpOut <=> d \in Named(outs, A2dpOut)
        /\ Value.a2dpIn <=> d \in Named(ins, {"BLUETOOTH_A2DP"})
        /\ Value.sco <=> d \in Named(outs, ScoOut) \cup Named(ins, {"BLUETOOTH_SCO_HEADSET"})
        /\ Value.usbOut <=> d \in Named(outs, Usb)
        /\ Value.usbIn <=> d \in Named(ins, Usb)
        /\ ~Has(ins, {"LINE"}) =>
             (Value.submix <=> Has(IF Value.outputs THEN outs ELSE ins, {"REMOTE_SUBMIX"}))
        /\ Value.outputs =>
             /\ Value.parameter = "a2dp_sink_address=" <=> Has(outs, A2dpOut)
             /\ Value.parameter = "mix=" <=> ~Has(outs, A2dpOut) /\ Has(outs, {"REMOTE_SUBMIX"})

\* A channel mask belongs to a direction exactly if it is valid and the count
\* for the direction misses none of its bits; a reserved representation has
\* no channels; and a mask made for a number of channels has that number, as
\* long as the header has a mask for it, else it is AUDIO_CHANNEL_INVALID.
ChannelsCounted ==
  /\ Returned("channels") =>
       LET bits == Cardinality(audio_channel_mask_get_bits(call.mask))
       IN  /\ Value.isIn <=> Value.valid /\ Value.countIn = bits
           /\ Value.isOut <=> Value.valid /\ Value.countOut = bits
           /\ ~Known(call.mask) => Value.countIn = 0 /\ Value.countOut = 0
  /\ Returned("mask_from_count") =>
       LET inCounts == {1, 2} \cup (IF call.qcom THEN {6} ELSE {})
           Right(mask, count, counts) ==
             IF call.count \in counts \cup {0}
               THEN count = call.count /\ (audio_channel_mask_is_valid(mask) <=> count > 0)
               ELSE mask = AUDIO_CHANNEL_INVALID /\ ~audio_channel_mask_is_valid(mask)
       IN  /\ Right(Value.out, audio_channel_count_from_out_mask(Value.out), 1 .. 8)
           /\ Right(Value.in, audio_channel_count_from_in_mask(Value.in), inCounts)
           /\ Right(Value.index, audio_channel_count_from_in_mask(Value.index), 1 .. 30)
           /\ Right(Value.index, audio_channel_count_from_out_mask(Value.index), 1 .. 30)

\* What the functions say of a format fits together: the formats for capture
\* and VoIP are valid and compressed; a valid format is linear and offloaded
\* PCM at most in one way; what goes to tinyalsa comes back as the same format
\* in builds of either byte order.
FormatsAgree ==
  Returned("format") =>
    /\ Value.capture => Value.voip
    /\ Value.voip => Value.valid /\ ~Value.linear /\ ~Value.offload
    /\ ~(Value.linear /\ Value.offload)
    /\ Convertible(call.format) => Value.valid /\ Value.back = call.format

\* "Logs a fatal error if format is not a valid convertible audio_format_t":
\* the conversion gives a tinyalsa format for the convertible ones only.
UnconvertibleIsFatal == Returned("format") => Convertible(call.format)

WidthInBits == <<16, 8, 32, 32, 32, 24>>   \* by sub format

\* A frame of valid linear PCM has a sample of full width for every channel
\* of its mask, of outputs and of inputs, and none for the reserved
\* representations; the deprecated function agrees with neither: it counts a
\* channel more for every bit of the representation, a reserved one too, and
\* says 1 for 8_24.  A frame of an encoded stream is one byte.
FrameSizesAgree ==
  Returned("frame_size") =>
    LET f == call.format
        c == call.channels
        frame == Cardinality(audio_channel_mask_get_bits(c)) * (WidthInBits[f.sub] \div 8)
        surplus == Cardinality(Representation(c)) * (WidthInBits[f.sub] \div 8)
    IN  IF ~audio_is_linear_pcm(f) THEN {Value.out, Value.in, Value.deprecated} = {1}
        ELSE audio_is_valid_format(f, call.qcom) =>
               /\ audio_is_output_channel(c) => Value.out = frame
               /\ audio_is_input_channel(c) => Value.in = frame
               /\ ~Known(c) => Value.out = 0 /\ Value.in = 0
               /\ Value.deprecated = IF f.sub = SUB_8_24_BIT THEN 1 ELSE frame + surplus
-----------------------------------------------------------------------------
\* The blocks of a sector: 4, or 16 from sector 32 on.
BlocksOf(sector) ==
  IF sector < 32 THEN 4 * sector .. 4 * sector + 3
  ELSE 128 + 16 * (sector - 32) .. 143 + 16 * (sector - 32)

\* From a block of the first sector, CUR_BLK_INC leads to one block of every
\* sector of the card, in their order, and from a trailer to all trailers,
\* where SECT_INDEX_CALC is the number of the sector; and CHK_SECT_ARRAY
\* finds a sector that is marked wherever there is one from the index on,
\* but for 16, which holds the second MAD and is entered by no other way
\* than as the first.  With none, the card cannot be formatted.
EverySectorVisited ==
  /\ Returned("walk") =>
       /\ Len(Value) = IF call.card = "1K" THEN MAX_SECT_IND_1K ELSE MAX_SECT_IND_4K
       /\ \A n \in DOMAIN Value :
            /\ Value[n] \in BlocksOf(n - 1)
            /\ SECT_INDEX_CALC(Value[n]) = n - 1
            /\ call.first = 3 => Value[n] = Max(BlocksOf(n - 1))
  /\ Returned("search") =>
       LET reached == {s \in call.sectors : s >= call.index /\ (s # 16 \/ call.index = 16)}
       IN  /\ Value.found <=> reached # {}
           /\ reached # {} => Value.index = INCR_SECT(Min(reached))
           /\ Value.Result = "FORMAT_ERROR" <=> reached = {}

\* Keys that may open a sector: of a card as delivered, of an NFC forum
\* sector, of a sector with a MAD, and the secret one.
Openers(sector) ==
  {[key |-> "default", MfCmd |-> "AuthentA"], [key |-> "default", MfCmd |-> "AuthentB"],
   AUTH_SEND_BUF_NFCSECT_KEYA, AUTH_SEND_BUF_SCRT_KEY}
    \cup (IF sector \in {0, 16} THEN {AUTH_SEND_BUF_MADSECT_KEYA} ELSE {})

\* From any state, the authentication tries every key that may open the
\* sector of the block, and no key of a MAD sector elsewhere; but for block
\* 67, the trailer of sector 16, to which NXT_AUTH_STATE gives no MAD key.
EveryKeyTried ==
  Returned("keys") /\ call.block # 67 /\ (call.state = "MAD_KEY" => SECT_INDEX_CALC(call.block) \in {0, 16})
    => Value = Openers(SECT_INDEX_CALC(call.block))

\* The value of a tag's TLV begins right after its length.
ValueAfterLength ==
  Returned("value_field") =>
    /\ ISO15693_BYTES_PER_BLOCK * Value.block + Value.byte
         = ISO15693_BYTES_PER_BLOCK * call.blk + call.byte + 2 + (IF call.long THEN 2 ELSE 0)
    /\ Value.byte \in 0 .. ISO15693_BYTES_PER_BLOCK - 1

Digits(number, n) == [k \in 1 .. n |-> (number \div Weight[1 + n - k]) % Byte]

\* Fields that are put into a number come back and leave their neighbours as
\* they were: bits of a byte, by either form of GET_BITS8; the component and
\* the code of a status, but for the component of success; the bytes of the
\* versions, first the one that counts most; the length of a FeliCa tag, as
\* long as its first byte is 0; and the place of a value after its length.
\* The component of a status is what PHNFCCID takes out and PHNFCSTVAL puts
\* in: component 0x10 and code 0x03 make 0x1003.  The example in the comment
\* on the codes (phNfcStatus.h:86-89) says 0x0003, which is not what the
\* macros do, nor the note below it, that the component must not be that of
\* none.
FieldsComeBack ==
  /\ Returned("bits") =>
       /\ GET_BITS8(Value, call.p, call.l) = call.val
       /\ GET_BITS8_masked(Value, call.p, call.l) = call.val
       /\ \A b \in 0 .. BYTE_SIZE - 1 : b < call.p \/ b >= call.p + call.l =>
            (b \in Value <=> b \in call.num)
  /\ Returned("packed") =>
       /\ PHNFCSTATUS(Value.status) = call.second
       /\ call.second # NFCSTATUS_SUCCESS => PHNFCCID(Value.status) = call.first
       /\ Digits(Value.version, 2) = <<call.first, call.second>>
       /\ Digits(Value.version2, 4) = <<call.first, call.second, call.third, call.fourth>>
       /\ Digits(Value.library, 4) = <<call.first, call.second, call.third, call.fourth>>
       /\ call.fourth = 0 => Digits(Value.length, 3) = <<0, call.first, call.second>>
  /\ ValueAfterLength
-----------------------------------------------------------------------------
\* A daemon gets the number in the variable of the very socket that it
\* names, whatever else is in the environment, as long as the name fits into
\* the key, to its last byte, and the number into an int; and -1 if there is
\* no such variable, or if it holds a number that does not fit a long.  What
\* this leaves out the function gets wrong, although it "returns -1 on error"
\* (42): names that are cut, texts that are no number, and, where a long is
\* wider than an int, numbers between the two, which come back cut.
SocketIsTheOneNamed ==
  Returned("socket") /\ Len(call.name) <= KeyRoom - (IF call.HAVE_STRLCPY THEN 2 ELSE 1) =>
    LET published == getenv(call.environment, call.name)
    IN  /\ published.is = "number" /\ Fits(published.value, IntValues) => Value = published.value
        /\ published.is = "unset" => Value = -1
        /\ ~Fits(published.value, LongValues) => Value = -1
=============================================================================
