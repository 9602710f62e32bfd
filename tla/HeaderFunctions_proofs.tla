----------------------- MODULE HeaderFunctions_proofs -----------------------
(***************************************************************************)
(* What the functions of the headers compute, for every value of the       *)
(* constants: words and bytes of any size, bitmasks of any number of bits, *)
(* channels in any places, names of any length, any pieces of text in the  *)
(* paths that fs_config is asked about.                                    *)
(*                                                                         *)
(* A behaviour of HeaderFunctions is one call, so the invariant is only    *)
(* that the result is what the function returns for the arguments; the     *)
(* proofs are about the functions.                                         *)
(***************************************************************************)
EXTENDS HeaderFunctions, NaturalFacts, SequenceTheorems

Answered ==
  /\ call \in Calls
  /\ Returned("fs_config") => Value = fs_config(call.path, call.dir)
  /\ Returned("bitmask_ffz") => Value = bitmask_ffz(call.mask, call.num_bits)
  /\ Returned("bitmask_weight") => Value = bitmask_weight(call.mask, call.num_bits)
  /\ Returned("bitmask_set") => Value = bitmask_set(call.mask, call.bit)
  /\ Returned("bitmask_clear") => Value = bitmask_clear(call.mask, call.bit)
  /\ Returned("compare") => Value = Comparison(call.first, call.second)
  /\ Returned("channels") => Value = Channels(call.mask)
  /\ Returned("mask_from_count") => Value = MasksFromCount(call.count, call.qcom)
  /\ Returned("format") => Value = Description(call.format, call.qcom, call.bigEndian)
  /\ Returned("frame_size") => Value = Frame(call.format, call.channels, call.qcom)
  /\ Returned("device") => Value = Questions(call.device, call.qcom)
  /\ Returned("walk") => Value = Walk(call.card, call.first)
  /\ Returned("search") => Value = SearchFrom(call.index, call.sectors)
  /\ Returned("keys") => Value = Attempts(call.state, call.block)
  /\ Returned("bits") => Value = SET_BITS8(call.num, call.p, call.l, call.val)
  /\ Returned("packed") => Value = Packed(call.first, call.second, call.third, call.fourth)
  /\ Returned("value_field") => Value = ValuePlace(call.blk, call.byte, call.long)
  /\ Returned("socket") =>
       Value = android_get_control_socket(call.name, call.environment, call.HAVE_STRLCPY,
                                          call.LP64)

LEMMA AnsweredInit == Init => Answered
BY DEF Init, Answered, Returned

LEMMA AnsweredStep == Answered /\ [Next]_vars => Answered'
<1> SUFFICES ASSUME Answered, [Next]_vars PROVE Answered'
  OBVIOUS
<1> USE DEF Answered, Returned, Value
<1>1. CASE UNCHANGED vars
  BY <1>1 DEF vars
<1>2. CASE FindZero
  BY <1>2 DEF FindZero, Return
<1>3. CASE Weigh
  BY <1>3 DEF Weigh, Return
<1>4. CASE Set
  BY <1>4 DEF Set, Return
<1>5. CASE Clear
  BY <1>5 DEF Clear, Return
<1>6. CASE Compare
  BY <1>6 DEF Compare, Return
<1>7. CASE CountChannels
  BY <1>7 DEF CountChannels, Return
<1>8. CASE ChooseMasks
  BY <1>8 DEF ChooseMasks, Return
<1>9. CASE MeasureFrame
  BY <1>9 DEF MeasureFrame, Return
<1>10. CASE SetField
  BY <1>10 DEF SetField, Return
<1>11. CASE Pack
  BY <1>11 DEF Pack, Return
<1>12. CASE FindValue
  BY <1>12 DEF FindValue, Return
<1>13. CASE FindSocket
  BY <1>13 DEF FindSocket, Return
<1>14. CASE DescribeFormat
  BY <1>14 DEF DescribeFormat, Return
<1>15. CASE Configure
  BY <1>15 DEF Configure, Return
<1>16. CASE Classify
  BY <1>16 DEF Classify, Return
<1>17. CASE WalkCard
  BY <1>17 DEF WalkCard, Return
<1>18. CASE Search
  BY <1>18 DEF Search, Return
<1>19. CASE TryKeys
  BY <1>19 DEF TryKeys, Return
<1> QED
  BY <1>1, <1>2, <1>3, <1>4, <1>5, <1>6, <1>7, <1>8, <1>9, <1>10, <1>11, <1>12, <1>13,
     <1>14, <1>15, <1>16, <1>17, <1>18, <1>19 DEF Next

LEMMA AlwaysAnswered == Spec => []Answered
BY AnsweredInit, AnsweredStep, PTL DEF Spec
-----------------------------------------------------------------------------
(* The arguments of the calls.                                             *)

LEMMA CallKinds ==
  /\ \A c \in AudioCalls :
       c.function \in {"device", "channels", "mask_from_count", "format", "frame_size"}
  /\ \A c \in NfcCalls :
       c.function \in {"walk", "search", "keys", "bits", "packed", "value_field"}
<1>1. \A c \in AudioCalls :
        c.function \in {"device", "channels", "mask_from_count", "format", "frame_size"}
  BY DEF AudioCalls
<1>2. \A c \in NfcCalls :
        c.function \in {"walk", "search", "keys", "bits", "packed", "value_field"}
  BY DEF NfcCalls
<1> QED BY <1>1, <1>2

LEMMA OtherCalls ==
  ASSUME NEW c \in Calls, c \notin AudioCalls, c \notin NfcCalls
  PROVE  /\ c.function \in {"socket", "fs_config", "compare", "bitmask_ffz", "bitmask_weight",
                            "bitmask_set", "bitmask_clear"}
         /\ c.function = "socket" => c.name \in SocketNames /\ c.environment \in Environments
         /\ c.function = "compare" => c.first \in Times /\ c.second \in Times
BY DEF Calls

LEMMA SocketCall ==
  ASSUME call \in Calls, call.function = "socket"
  PROVE  call.name \in SocketNames /\ call.environment \in Environments
<1>1. call \notin AudioCalls /\ call \notin NfcCalls
  BY CallKinds
<1> QED BY <1>1, OtherCalls

LEMMA CompareCall ==
  ASSUME call \in Calls, call.function = "compare"
  PROVE  call.first \in Times /\ call.second \in Times
<1>1. call \notin AudioCalls /\ call \notin NfcCalls
  BY CallKinds
<1> QED BY <1>1, OtherCalls

LEMMA BitmaskCall ==
  ASSUME call \in Calls
  PROVE  /\ call.function \in {"bitmask_ffz", "bitmask_weight"} =>
              call.num_bits \in Sizes /\ call.mask \in Masks(call.num_bits)
         /\ call.function \in {"bitmask_set", "bitmask_clear"} =>
              /\ call.num_bits \in Sizes /\ call.mask \in Masks(call.num_bits)
              /\ call.bit \in 0 .. call.num_bits - 1
<1> SUFFICES ASSUME call.function \in {"bitmask_ffz", "bitmask_weight", "bitmask_set",
                                      "bitmask_clear"}
             PROVE  /\ call.num_bits \in Sizes /\ call.mask \in Masks(call.num_bits)
                    /\ call.function \in {"bitmask_set", "bitmask_clear"} =>
                         call.bit \in 0 .. call.num_bits - 1
  OBVIOUS
<1>1. call \notin AudioCalls /\ call \notin NfcCalls
  BY CallKinds
<1>2. PICK n \in Sizes :
        \/ call \in [function : {"bitmask_ffz", "bitmask_weight"}, mask : Masks(n), num_bits : {n}]
        \/ call \in [function : {"bitmask_set", "bitmask_clear"}, mask : Masks(n),
                     num_bits : {n}, bit : 0 .. n - 1]
  BY <1>1 DEF Calls
<1>3. call.num_bits = n /\ call.mask \in Masks(n)
  BY <1>2
<1>4. call.function \in {"bitmask_set", "bitmask_clear"} => call.bit \in 0 .. n - 1
  BY <1>2
<1> QED BY <1>3, <1>4
-----------------------------------------------------------------------------
(* Control sockets.                                                        *)

\* A name that fits is in the key as a whole.
LEMMA KeyOfShortName ==
  ASSUME NEW name \in Seq(STRING), NEW strlcpy,
         Len(name) <= KeyRoom - (IF strlcpy THEN 2 ELSE 1)
  PROVE  Key(name, strlcpy) = name
<1>1. Key(name, strlcpy) = SubSeq(name, 1, Len(name))
  BY DEF Key
<1> QED BY <1>1, SubSeqFull

\* A number that fits an int is not cut.
LEMMA AsIntOfInt ==
  ASSUME NEW n \in Int, Fits(n, IntValues)
  PROVE  AsInt(n) = n
<1> DEFINE half == IntValues \div 2
           x == n + half
<1>1. IntValues \in Nat \ {0} /\ half \in Nat /\ half + half <= IntValues
  BY HeaderFunctionsAssumption
<1>2. -half <= n /\ n < half
  BY DEF Fits
<1> HIDE DEF half
<1>3. x \in Nat /\ x < IntValues /\ x = (0 * IntValues) + x
  BY <1>1, <1>2
<1> HIDE DEF x
<1>4. x % IntValues = x
  <2>1. 0 \in Nat
    OBVIOUS
  <2> QED BY <1>1, <1>3, <2>1, Remainder
<1>5. AsInt(n) = (x % IntValues) - half
  BY DEF AsInt, x, half
<1> QED BY <1>1, <1>4, <1>5 DEF x

\* What fits an int fits a long.
LEMMA FitsLong ==
  ASSUME NEW n \in Int, NEW LP64
  PROVE  /\ Fits(n, IntValues) => Fits(n, IF LP64 THEN LongValues ELSE IntValues)
         /\ Fits(n, IF LP64 THEN LongValues ELSE IntValues) => Fits(n, LongValues)
<1>1. /\ IntValues \in Nat /\ LongValues \in Nat
      /\ IntValues \div 2 \in Nat /\ LongValues \div 2 \in Nat
      /\ IntValues \div 2 <= LongValues \div 2
  BY HeaderFunctionsAssumption
<1>2. Fits(n, IntValues) => Fits(n, LongValues)
  BY <1>1 DEF Fits
<1> QED BY <1>2

LEMMA PublishedNumber ==
  ASSUME NEW environment \in Environments, NEW name
  PROVE  getenv(environment, name).value \in Int
<1> DEFINE values == {Number(n) : n \in Numbers} \cup {Word}
<1>1. \A v \in values : v.value \in Int
  BY HeaderFunctionsAssumption DEF Number, Word
<1>2. PICK first \in SocketNames, second \in SocketNames : environment \in [{first, second} -> values]
  <2> DEFINE over(first, second) == [{first, second} -> values]
  <2>1. environment \in UNION {UNION {over(first, second) : first \in SocketNames} :
                                second \in SocketNames}
    BY Zenon DEF Environments
  <2> HIDE DEF over
  <2>2. PICK second \in SocketNames :
          environment \in UNION {over(first, second) : first \in SocketNames}
    BY <2>1
  <2>3. PICK first \in SocketNames : environment \in over(first, second)
    BY <2>2
  <2> QED BY <2>3 DEF over
<1> HIDE DEF values
<1>3. name \in DOMAIN environment => environment[name] \in values
  BY <1>2
<1> QED BY <1>1, <1>3 DEF getenv, Nothing

\* However long the names of the sockets and the room of the key are, and
\* however wide an int and a long, a name that fits leads to the variable of
\* that very socket, and a number that fits an int comes back whole.
THEOREM SocketIsTheOneNamedHolds == Spec => []SocketIsTheOneNamed
<1>1. Answered => SocketIsTheOneNamed
  <2> SUFFICES ASSUME Answered, Returned("socket"),
                      Len(call.name) <= KeyRoom - (IF call.HAVE_STRLCPY THEN 2 ELSE 1)
               PROVE  SocketIsTheOneNamed
    BY DEF SocketIsTheOneNamed
  <2> DEFINE published == getenv(call.environment, call.name)
             n == published.value
             long == IF call.LP64 THEN LongValues ELSE IntValues
  <2>1. call.name \in Seq(STRING)
    BY SocketCall, HeaderFunctionsAssumption DEF Answered, Returned
  <2>2. Key(call.name, call.HAVE_STRLCPY) = call.name
    BY <2>1, KeyOfShortName
  <2>3. Value = IF published.is = "unset" \/ ~Fits(n, long) THEN -1 ELSE AsInt(n)
    BY <2>2 DEF Answered, android_get_control_socket
  <2>4. n \in Int
    BY SocketCall, PublishedNumber DEF Answered, Returned
  <2>5. /\ Fits(n, IntValues) => Fits(n, long) /\ AsInt(n) = n
        /\ Fits(n, long) => Fits(n, LongValues)
    <3> HIDE DEF n
    <3> QED BY <2>4, FitsLong, AsIntOfInt
  <2> HIDE DEF long
  <2>6. /\ published.is = "number" /\ Fits(n, IntValues) => Value = n
        /\ published.is = "unset" => Value = -1
        /\ ~Fits(n, LongValues) => Value = -1
    <3> HIDE DEF published, n
    <3> QED BY <2>3, <2>5
  <2> QED BY <2>6 DEF SocketIsTheOneNamed
<1> QED BY AlwaysAnswered, <1>1, PTL
-----------------------------------------------------------------------------
(* Packed fields.                                                          *)

LEMMA ShiftedBit ==
  ASSUME NEW bits \in SUBSET Int, NEW n \in Int, NEW b \in Int
  PROVE  b \in Shifted(bits, n) <=> b - n \in bits
<1>1. ASSUME b \in Shifted(bits, n) PROVE b - n \in bits
  <2>1. PICK a \in bits : b = a + n
    BY <1>1 DEF Shifted
  <2>2. a \in Int /\ b - n = a
    BY <2>1
  <2> QED BY <2>2
<1>2. ASSUME b - n \in bits PROVE b \in Shifted(bits, n)
  <2>1. (b - n) + n = b
    OBVIOUS
  <2> QED BY <1>2, <2>1 DEF Shifted
<1> QED BY <1>1, <1>2

\* A field of l bits at p, in a byte of any size.
LEMMA FieldOfBits ==
  ASSUME NEW num \in BitBytes, NEW p \in 0 .. BYTE_SIZE, NEW l \in 0 .. BYTE_SIZE,
         p + l <= BYTE_SIZE, NEW val \in SUBSET (0 .. l - 1)
  PROVE  /\ GET_BITS8(SET_BITS8(num, p, l, val), p, l) = val
         /\ GET_BITS8_masked(SET_BITS8(num, p, l, val), p, l) = val
         /\ \A b \in 0 .. BYTE_SIZE - 1 : b < p \/ b >= p + l =>
              (b \in SET_BITS8(num, p, l, val) <=> b \in num)
<1> DEFINE S == SET_BITS8(num, p, l, val)
<1>1. BYTE_SIZE \in Nat \ {0} /\ p \in Nat /\ l \in Nat /\ -p \in Int
  BY HeaderFunctionsAssumption
<1>2. num \in SUBSET Int /\ val \in SUBSET Int
  BY <1>1 DEF BitBytes
<1>3. MASK_BITS8(p, l) = p .. p + l - 1
  BY <1>1 DEF MASK_BITS8, Ones8
<1>4. S = (num \ (p .. p + l - 1)) \cup Shifted(val, p)
  BY <1>3 DEF SET_BITS8
<1>5. Shifted(val, p) \in SUBSET (p .. p + l - 1)
  BY <1>1 DEF Shifted
<1>6. S \in SUBSET Int
  <2>1. p .. p + l - 1 \in SUBSET Int
    BY <1>1
  <2> HIDE DEF S
  <2> QED BY <1>2, <1>4, <1>5, <2>1
<1>7. ASSUME NEW b \in Int
      PROVE  b \in S <=> IF b \in p .. p + l - 1 THEN b - p \in val ELSE b \in num
  <2>1. b \in Shifted(val, p) <=> b - p \in val
    BY <1>1, <1>2, ShiftedBit
  <2>2. b - p \in val => b \in p .. p + l - 1
    BY <1>1
  <2> HIDE DEF S
  <2> QED BY <1>4, <1>5, <2>1, <2>2
<1> HIDE DEF S
<1>8. GET_BITS8(S, p, l) = val
  <2>1. GET_BITS8(S, p, l) = Shifted(S \cap Ones8(p), -p) \ Ones8(l)
    BY DEF GET_BITS8
  <2>2. ASSUME NEW b \in Int PROVE b \in GET_BITS8(S, p, l) <=> b \in val
    <3>1. S \cap Ones8(p) \in SUBSET Int
      BY <1>6
    <3>2. b \in Shifted(S \cap Ones8(p), -p) <=> b - (-p) \in S \cap Ones8(p)
      BY <1>1, <3>1, ShiftedBit
    <3>3. b - (-p) = b + p /\ b + p \in Int /\ (b + p) - p = b
      BY <1>1
    <3>4. b + p \in S <=> IF b \in 0 .. l - 1 THEN b \in val ELSE b + p \in num
      BY <1>1, <1>7, <3>3
    <3>5. b + p \in Ones8(p) <=> b \in 0 .. BYTE_SIZE - 1
      BY <1>1 DEF Ones8
    <3>6. b \in 0 .. BYTE_SIZE - 1 /\ b \notin Ones8(l) <=> b \in 0 .. l - 1
      BY <1>1 DEF Ones8
    <3> QED BY <2>1, <3>2, <3>3, <3>4, <3>5, <3>6
  <2>3. GET_BITS8(S, p, l) \in SUBSET Int
    BY <1>1, <1>6, <2>1 DEF Shifted
  <2> QED BY <1>2, <2>2, <2>3
<1>9. GET_BITS8_masked(S, p, l) = val
  <2>1. GET_BITS8_masked(S, p, l) = Shifted(S \cap (p .. p + l - 1), -p)
    BY <1>3 DEF GET_BITS8_masked
  <2>2. ASSUME NEW b \in Int PROVE b \in GET_BITS8_masked(S, p, l) <=> b \in val
    <3>1. S \cap (p .. p + l - 1) \in SUBSET Int
      BY <1>6
    <3>2. b \in Shifted(S \cap (p .. p + l - 1), -p) <=> b - (-p) \in S \cap (p .. p + l - 1)
      BY <1>1, <3>1, ShiftedBit
    <3>3. b - (-p) = b + p /\ b + p \in Int /\ (b + p) - p = b
      BY <1>1
    <3>4. b + p \in S <=> IF b \in 0 .. l - 1 THEN b \in val ELSE b + p \in num
      BY <1>1, <1>7, <3>3
    <3>5. b + p \in p .. p + l - 1 <=> b \in 0 .. l - 1
      BY <1>1
    <3> QED BY <2>1, <3>2, <3>3, <3>4, <3>5
  <2>3. GET_BITS8_masked(S, p, l) \in SUBSET Int
    BY <1>1, <1>6, <2>1 DEF Shifted
  <2> QED BY <1>2, <2>2, <2>3
<1>10. \A b \in 0 .. BYTE_SIZE - 1 : b < p \/ b >= p + l => (b \in S <=> b \in num)
  BY <1>1, <1>7
<1> QED BY <1>8, <1>9, <1>10 DEF S

LEMMA TwoToDef == \A k \in Nat : TwoTo[k] = IF k = 0 THEN 1 ELSE 2 * TwoTo[k - 1]
<1> DEFINE step == [n \in Nat |-> [x \in Int |-> 2 * x]]
<1>1. step \in Steps(Int) /\ 1 \in Int
  BY DEF Steps
<1>2. PICK f : Iterates(f, Int, 1, step)
  BY <1>1, Recursion
<1>3. f = [k \in Nat |-> IF k = 0 THEN 1 ELSE 2 * f[k - 1]]
  <2>1. f \in [Nat -> Int] /\ f[0] = 1
    BY <1>2 DEF Iterates
  <2>2. ASSUME NEW k \in Nat, k # 0 PROVE f[k] = 2 * f[k - 1]
    <3>1. k - 1 \in Nat /\ (k - 1) + 1 = k
      BY <2>2
    <3>2. f[(k - 1) + 1] = step[k - 1][f[k - 1]]
      BY <1>2, <3>1 DEF Iterates
    <3> QED BY <2>1, <3>1, <3>2
  <2> QED BY <2>1, <2>2
<1>4. TwoTo = [k \in Nat |-> IF k = 0 THEN 1 ELSE 2 * TwoTo[k - 1]]
  BY <1>3 DEF TwoTo
<1> QED BY <1>4

LEMMA ByteIsNatural == Byte \in Nat /\ Byte >= 2
<1> DEFINE S == {k \in Nat : TwoTo[k] \in Nat /\ k < TwoTo[k]}
<1>1. 0 \in S
  BY TwoToDef
<1>2. ASSUME NEW k \in Nat, k \in S PROVE k + 1 \in S
  <2>1. TwoTo[k + 1] = 2 * TwoTo[k]
    BY TwoToDef
  <2>2. TwoTo[k] \in Nat /\ k < TwoTo[k]
    BY <1>2
  <2> QED BY <2>1, <2>2
<1>3. Nat \subseteq S
  <2> HIDE DEF S
  <2> QED BY <1>1, <1>2, NatSetInduction
<1>4. TwoTo[BYTE_SIZE] \in Nat /\ BYTE_SIZE < TwoTo[BYTE_SIZE]
  BY <1>3, HeaderFunctionsAssumption
<1> QED BY <1>4, HeaderFunctionsAssumption DEF Byte

\* The digits of a number, first the one that counts most.
LEMMA DigitsOfBytes ==
  ASSUME NEW a \in 0 .. Byte - 1, NEW b \in 0 .. Byte - 1,
         NEW c \in 0 .. Byte - 1, NEW d \in 0 .. Byte - 1
  PROVE  LET x == Number4(Byte, a, b, c, d)
         IN  /\ Digits(x, 2) = <<c, d>>
             /\ Digits(x, 3) = <<b, c, d>>
             /\ Digits(x, 4) = <<a, b, c, d>>
<1> DEFINE x == Number4(Byte, a, b, c, d)
<1>1. /\ x \in Nat
      /\ (x \div Weight[4]) % Byte = a /\ (x \div Weight[3]) % Byte = b
      /\ (x \div Weight[2]) % Byte = c /\ (x \div Weight[1]) % Byte = d
  <2>1. Byte \in Nat \ {0}
    BY ByteIsNatural
  <2> HIDE DEF x
  <2>2. /\ x \in Nat
        /\ (x \div (Byte * Byte * Byte)) % Byte = a /\ (x \div (Byte * Byte)) % Byte = b
        /\ (x \div Byte) % Byte = c /\ x % Byte = d
    BY <2>1, DigitsOfNumber4 DEF x
  <2>3. x \div 1 = x
    BY <2>2
  <2> QED BY <2>2, <2>3 DEF Weight
<1> HIDE DEF x
<1> DEFINE at(n) == (x \div Weight[n]) % Byte
<1>2. Digits(x, 2) = [k \in 1 .. 2 |-> at(3 - k)]
  BY DEF Digits
<1>3. Digits(x, 3) = [k \in 1 .. 3 |-> at(4 - k)]
  BY DEF Digits
<1>4. Digits(x, 4) = [k \in 1 .. 4 |-> at(5 - k)]
  BY DEF Digits
<1>5. at(1) = d /\ at(2) = c /\ at(3) = b /\ at(4) = a
  BY <1>1
<1> HIDE DEF at
<1> QED BY <1>2, <1>3, <1>4, <1>5 DEF x

LEMMA PackedFields ==
  ASSUME NEW a \in 0 .. Byte - 1, NEW b \in 0 .. Byte - 1,
         NEW c \in 0 .. Byte - 1, NEW d \in 0 .. Byte - 1
  PROVE  /\ PHNFCSTATUS(PHNFCSTVAL(a, b)) = b
         /\ b # NFCSTATUS_SUCCESS => PHNFCCID(PHNFCSTVAL(a, b)) = a
         /\ Digits(HARDWARE_MAKE_API_VERSION(a, b), 2) = <<a, b>>
         /\ Digits(HARDWARE_MAKE_API_VERSION_2(a, b, c * Byte + d), 4) = <<a, b, c, d>>
         /\ Digits(LIB_NFC_VERSION_SET(a, b, c, d), 4) = <<a, b, c, d>>
         /\ Digits(PH_NFCFRI_NDEFMAP_FELI_CAL_LEN_BYTES(0, a, b), 3) = <<0, a, b>>
<1>1. /\ Byte \in Nat \ {0} /\ 0 \in 0 .. Byte - 1
      /\ a \in Nat /\ b \in Nat /\ c \in Nat /\ d \in Nat
      /\ a < Byte /\ b < Byte /\ c < Byte /\ d < Byte
  BY ByteIsNatural
<1>2. a % Byte = a /\ b % Byte = b /\ c % Byte = c /\ d % Byte = d /\ 0 % Byte = 0
  BY <1>1
<1>3. Number4(Byte, 0, 0, a, b) = a * Byte + b
  BY <1>1 DEF Number4
<1>4. Number4(Byte, a, b, c, d) = a * Weight[4] + b * Weight[3] + c * Byte + d
  BY <1>1, DigitsOfNumber4 DEF Weight
<1>5. ASSUME b # 0 PROVE PHNFCSTVAL(a, b) = Number4(Byte, 0, 0, a, b)
  <2>1. b + a * Byte = a * Byte + b
    BY <1>1
  <2> QED BY <1>2, <1>3, <1>5, <2>1 DEF PHNFCSTVAL, NFCSTATUS_SUCCESS
<1>6. b # 0 => PHNFCSTATUS(PHNFCSTVAL(a, b)) = b /\ PHNFCCID(PHNFCSTVAL(a, b)) = a
  BY <1>1, <1>5, DigitsOfNumber4 DEF PHNFCSTATUS, PHNFCCID
<1>7. b = 0 => PHNFCSTATUS(PHNFCSTVAL(a, b)) = b
  BY <1>2 DEF PHNFCSTATUS, PHNFCSTVAL, NFCSTATUS_SUCCESS
<1>8. HARDWARE_MAKE_API_VERSION(a, b) = Number4(Byte, 0, 0, a, b)
  BY <1>2, <1>3 DEF HARDWARE_MAKE_API_VERSION
<1>9. (c * Byte + d) % Weight[3] = c * Byte + d
  <2> DEFINE x == c * Byte + d
             w == Byte * Byte
  <2>1. x \in 0 .. w - 1
    BY <1>1, DigitAndRest
  <2>2. w \in Nat \ {0}
    BY <1>1
  <2> HIDE DEF x, w
  <2>3. x % w = x
    BY <2>1, <2>2
  <2> QED BY <2>3 DEF x, w, Weight
<1>10. HARDWARE_MAKE_API_VERSION_2(a, b, c * Byte + d) = Number4(Byte, a, b, c, d)
  <2>1. HARDWARE_MAKE_API_VERSION_2(a, b, c * Byte + d)
          = a * Weight[4] + b * Weight[3] + (c * Byte + d)
    BY <1>2, <1>9 DEF HARDWARE_MAKE_API_VERSION_2
  <2>2. a * Weight[4] + b * Weight[3] \in Nat /\ c * Byte \in Nat
    BY <1>1 DEF Weight
  <2> QED BY <1>1, <1>4, <2>1, <2>2
<1>11. LIB_NFC_VERSION_SET(a, b, c, d) = Number4(Byte, a, b, c, d)
  BY <1>2, <1>4 DEF LIB_NFC_VERSION_SET
<1>12. PH_NFCFRI_NDEFMAP_FELI_CAL_LEN_BYTES(0, a, b) = Number4(Byte, 0, 0, a, b)
  <2>1. 0 * Weight[3] + a = a
    BY <1>1 DEF Weight
  <2> QED BY <1>3, <2>1 DEF PH_NFCFRI_NDEFMAP_FELI_CAL_LEN_BYTES
<1>13. Digits(Number4(Byte, 0, 0, a, b), 2) = <<a, b>>
       /\ Digits(Number4(Byte, 0, 0, a, b), 3) = <<0, a, b>>
  BY <1>1, DigitsOfBytes
<1>14. Digits(Number4(Byte, a, b, c, d), 4) = <<a, b, c, d>>
  BY DigitsOfBytes
<1>15. Digits(HARDWARE_MAKE_API_VERSION(a, b), 2) = <<a, b>>
  BY <1>8, <1>13
<1>16. /\ Digits(HARDWARE_MAKE_API_VERSION_2(a, b, c * Byte + d), 4) = <<a, b, c, d>>
       /\ Digits(LIB_NFC_VERSION_SET(a, b, c, d), 4) = <<a, b, c, d>>
  BY <1>10, <1>11, <1>14
<1>17. Digits(PH_NFCFRI_NDEFMAP_FELI_CAL_LEN_BYTES(0, a, b), 3) = <<0, a, b>>
  BY <1>12, <1>13
<1> QED BY <1>6, <1>7, <1>15, <1>16, <1>17 DEF NFCSTATUS_SUCCESS

LEMMA NfcCall ==
  ASSUME call \in Calls,
         call.function \in {"walk", "search", "keys", "bits", "packed", "value_field"}
  PROVE  /\ call.function = "walk" => call.card \in {"1K", "4K"} /\ call.first \in 0 .. 3
         /\ call.function = "search" =>
              call.index \in 0 .. 16 /\ call.sectors \in SUBSET (0 .. 39)
         /\ call.function = "keys" =>
              /\ call.block \in 0 .. 255
              /\ call.state \in {"DEF_KEY", "NFC_KEY", "MAD_KEY", "KEYB", "SCRT_KEYB"}
         /\ call.function = "bits" =>
              /\ call.num \in BitBytes /\ call.p \in 0 .. BYTE_SIZE /\ call.l \in 0 .. BYTE_SIZE
              /\ call.p + call.l <= BYTE_SIZE /\ call.val \in SUBSET (0 .. call.l - 1)
         /\ call.function = "packed" =>
              /\ call.first \in 0 .. Byte - 1 /\ call.second \in 0 .. Byte - 1
              /\ call.third \in {0, 1, Byte - 1} /\ call.fourth \in {0, Byte - 1}
         /\ call.function = "value_field" =>
              call.blk \in 0 .. 2 /\ call.byte \in 0 .. 3 /\ call.long \in BOOLEAN
<1>1. call \in NfcCalls
  BY CallKinds, OtherCalls
<1>2. call.function = "bits" =>
        /\ call \in [function : {"bits"}, num : BitBytes, p : 0 .. BYTE_SIZE, l : 0 .. BYTE_SIZE,
                     val : BitBytes]
        /\ call.p + call.l <= BYTE_SIZE /\ call.val \subseteq 0 .. call.l - 1
  BY <1>1 DEF NfcCalls
<1>3. call.function = "packed" =>
        call \in [function : {"packed"}, first : 0 .. Byte - 1, second : 0 .. Byte - 1,
                  third : {0, 1, Byte - 1}, fourth : {0, Byte - 1}]
  BY <1>1 DEF NfcCalls
<1>4. call.function = "value_field" =>
        call \in [function : {"value_field"}, blk : 0 .. 2,
                  byte : 0 .. ISO15693_BYTES_PER_BLOCK - 1, long : BOOLEAN]
  BY <1>1 DEF NfcCalls
<1>5. call.function = "walk" =>
        call \in [function : {"walk"}, card : {"1K", "4K"}, first : 0 .. 3]
  BY <1>1 DEF NfcCalls
<1>6. call.function = "search" =>
        call \in [function : {"search"}, index : 0 .. MAX_SECT_IND_1K,
                  sectors : {{}} \cup {{s, t} : s, t \in 0 .. MAX_SECT_IND_4K - 1}]
  BY <1>1 DEF NfcCalls
<1>7. call.function = "search" => call.index \in 0 .. 16 /\ call.sectors \in SUBSET (0 .. 39)
  <2>1. 0 .. MAX_SECT_IND_4K - 1 = 0 .. 39 /\ 0 .. MAX_SECT_IND_1K = 0 .. 16
    BY DEF MAX_SECT_IND_4K, MAX_SECT_IND_1K
  <2>2. ASSUME NEW S PROVE {{}} \cup {{s, t} : s, t \in S} \subseteq SUBSET S
    OBVIOUS
  <2> QED BY <1>6, <2>1, <2>2
<1>8. call.function = "keys" =>
        call \in [function : {"keys"}, block : 0 .. 255,
                  state : {"DEF_KEY", "NFC_KEY", "MAD_KEY", "KEYB", "SCRT_KEYB"}]
  BY <1>1 DEF NfcCalls
<1> QED BY <1>2, <1>3, <1>4, <1>5, <1>7, <1>8 DEF ISO15693_BYTES_PER_BLOCK

\* Fields come back from bytes of any number of bits: the parts of the
\* versions, of a status and of a length, and any field of the bits.  Of a
\* status this is what the macro does (phNfcStatus.h:71-77), not what the
\* comment below it says (86-89).
THEOREM FieldsComeBackHolds == Spec => []FieldsComeBack
<1>1. ASSUME Answered, Returned("bits")
      PROVE  /\ GET_BITS8(Value, call.p, call.l) = call.val
             /\ GET_BITS8_masked(Value, call.p, call.l) = call.val
             /\ \A b \in 0 .. BYTE_SIZE - 1 : b < call.p \/ b >= call.p + call.l =>
                  (b \in Value <=> b \in call.num)
  <2>1. Value = SET_BITS8(call.num, call.p, call.l, call.val)
    BY <1>1 DEF Answered
  <2>2. /\ call.num \in BitBytes /\ call.p \in 0 .. BYTE_SIZE /\ call.l \in 0 .. BYTE_SIZE
        /\ call.p + call.l <= BYTE_SIZE /\ call.val \in SUBSET (0 .. call.l - 1)
    BY <1>1, NfcCall DEF Answered, Returned
  <2> QED BY <2>1, <2>2, FieldOfBits
<1>2. ASSUME Answered, Returned("packed")
      PROVE  /\ PHNFCSTATUS(Value.status) = call.second
             /\ call.second # NFCSTATUS_SUCCESS => PHNFCCID(Value.status) = call.first
             /\ Digits(Value.version, 2) = <<call.first, call.second>>
             /\ Digits(Value.version2, 4)
                  = <<call.first, call.second, call.third, call.fourth>>
             /\ Digits(Value.library, 4)
                  = <<call.first, call.second, call.third, call.fourth>>
             /\ call.fourth = 0 => Digits(Value.length, 3) = <<0, call.first, call.second>>
  <2>1. Value = Packed(call.first, call.second, call.third, call.fourth)
    BY <1>2 DEF Answered
  <2>2. /\ call.first \in 0 .. Byte - 1 /\ call.second \in 0 .. Byte - 1
        /\ call.third \in {0, 1, Byte - 1} /\ call.fourth \in {0, Byte - 1}
    BY <1>2, NfcCall DEF Answered, Returned
  <2>3. call.third \in 0 .. Byte - 1 /\ call.fourth \in 0 .. Byte - 1
    BY <2>2, ByteIsNatural
  <2> DEFINE a == call.first
             b == call.second
             c == call.third
             d == call.fourth
  <2>4. /\ Value.status = PHNFCSTVAL(a, b) /\ Value.version = HARDWARE_MAKE_API_VERSION(a, b)
        /\ Value.version2 = HARDWARE_MAKE_API_VERSION_2(a, b, c * Byte + d)
        /\ Value.library = LIB_NFC_VERSION_SET(a, b, c, d)
        /\ Value.length = PH_NFCFRI_NDEFMAP_FELI_CAL_LEN_BYTES(d, a, b)
    BY <2>1 DEF Packed
  <2>5. a \in 0 .. Byte - 1 /\ b \in 0 .. Byte - 1 /\ c \in 0 .. Byte - 1 /\ d \in 0 .. Byte - 1
    BY <2>2, <2>3
  <2> HIDE DEF a, b, c, d
  <2>6. /\ PHNFCSTATUS(PHNFCSTVAL(a, b)) = b
        /\ b # NFCSTATUS_SUCCESS => PHNFCCID(PHNFCSTVAL(a, b)) = a
        /\ Digits(HARDWARE_MAKE_API_VERSION(a, b), 2) = <<a, b>>
        /\ Digits(HARDWARE_MAKE_API_VERSION_2(a, b, c * Byte + d), 4) = <<a, b, c, d>>
        /\ Digits(LIB_NFC_VERSION_SET(a, b, c, d), 4) = <<a, b, c, d>>
        /\ Digits(PH_NFCFRI_NDEFMAP_FELI_CAL_LEN_BYTES(0, a, b), 3) = <<0, a, b>>
    BY <2>5, PackedFields
  <2>7. d = 0 => Value.length = PH_NFCFRI_NDEFMAP_FELI_CAL_LEN_BYTES(0, a, b)
    BY <2>4
  <2> QED BY <2>4, <2>6, <2>7 DEF a, b, c, d
<1>3. ASSUME Answered PROVE ValueAfterLength
  <2> SUFFICES ASSUME Returned("value_field") PROVE ValueAfterLength
    BY DEF ValueAfterLength
  <2>1. Value = ValuePlace(call.blk, call.byte, call.long)
    BY <1>3 DEF Answered
  <2>2. call.blk \in 0 .. 2 /\ call.byte \in 0 .. 3 /\ call.long \in BOOLEAN
    BY <1>3, NfcCall DEF Answered, Returned
  <2>3. AfterLength(call.byte, call.long) = call.byte + (IF call.long THEN 4 ELSE 2)
    BY <2>2 DEF AfterLength
  <2>4. /\ Value.block = IF AfterLength(call.byte, call.long) > 3
                           THEN call.blk + 1 ELSE call.blk
        /\ Value.byte = AfterLength(call.byte, call.long) % 4
    BY <2>1 DEF ValuePlace, ISO15693_GET_VALUE_FIELD_BLOCK_NO, ISO15693_GET_VALUE_FIELD_BYTE_NO,
              ISO15693_BYTES_PER_BLOCK
  <2> QED BY <2>2, <2>3, <2>4 DEF ValueAfterLength, ISO15693_BYTES_PER_BLOCK
<1>4. Answered => FieldsComeBack
  BY <1>1, <1>2, <1>3 DEF FieldsComeBack
<1> QED BY AlwaysAnswered, <1>4, PTL
-----------------------------------------------------------------------------
(* Times of log entries.                                                   *)

LEMMA ModulusFacts ==
  /\ ByteValues \in Nat \ {0} /\ Modulus \in Nat \ {0}
  /\ Modulus = ByteValues * (ByteValues * ByteValues * ByteValues)
  /\ Modulus \div 2 \in Nat /\ Modulus \div 2 <= Modulus /\ Modulus - Modulus \div 2 <= Modulus
  /\ NS_PER_SEC \in Nat \ {0} /\ NS_PER_SEC <= Modulus \div 2
<1>1. ByteValues \in Nat \ {0}
  <2>1. PICK k \in 1 .. 128 : ByteValues = 2 * k
    BY HeaderFunctionsAssumption
  <2> QED BY <2>1
<1>2. ByteValues * ByteValues * ByteValues \in Nat \ {0}
  <2> DEFINE s == ByteValues * ByteValues
  <2>1. s \in Nat \ {0}
    BY <1>1
  <2> HIDE DEF s
  <2>2. s * ByteValues \in Nat \ {0}
    BY <1>1, <2>1
  <2> QED BY <2>2 DEF s
<1>3. Modulus = ByteValues * (ByteValues * ByteValues * ByteValues)
  BY DEF Modulus, Place
<1>4. Modulus \in Nat \ {0}
  <2> DEFINE s == ByteValues * ByteValues * ByteValues
  <2>1. s \in Nat \ {0} /\ Modulus = ByteValues * s
    BY <1>2, <1>3
  <2> HIDE DEF s
  <2> QED BY <1>1, <2>1
<1>5. NS_PER_SEC \in 1 .. Modulus \div 2
  BY HeaderFunctionsAssumption
<1> QED BY <1>1, <1>3, <1>4, <1>5

LEMMA UnsignedFacts ==
  ASSUME NEW x \in 0 .. Modulus - 1
  PROVE  /\ Unsigned(x) = x /\ Unsigned(x - Modulus) = x
         /\ Signed(x) \in {x, x - Modulus}
         /\ x < Modulus \div 2 => Signed(x) = x
<1> DEFINE M == Modulus
<1>1. M \in Nat \ {0} /\ x \in Nat /\ x < M
  BY ModulusFacts
<1> HIDE DEF M
<1>2. x % M = x
  BY <1>1
<1>3. (x - M) % M = x
  <2>1. x - M \in Int /\ x - M = (-1) * M + x
    BY <1>1
  <2> QED BY <1>1, <2>1
<1>4. Unsigned(x) = x /\ Unsigned(x - Modulus) = x
  BY <1>2, <1>3 DEF Unsigned, M
<1> QED BY <1>4, <1>1, ModulusFacts DEF Signed, M

\* A word of four bytes is read as it was written, though the shift of its
\* highest byte is signed.
LEMMA WordComesBack ==
  ASSUME NEW x \in 0 .. Modulus - 1
  PROVE  /\ DOMAIN WordBytes(x) = 1 .. 4
         /\ LET c == WordBytes(x)
            IN  Unsigned(c[1] + c[2] * Place[2] + c[3] * Place[3] + Signed(c[4] * Place[4])) = x
<1> DEFINE B == ByteValues
           c == WordBytes(x)
<1>1. B \in Nat \ {0} /\ Modulus = B * (B * B * B) /\ Modulus \in Nat \ {0}
      /\ x \in Nat /\ x < Modulus
  BY ModulusFacts
<1>2. Place[1] = 1 /\ Place[2] = B /\ Place[3] = B * B /\ Place[4] = B * B * B
  BY DEF Place
<1>3. /\ c[1] = x % B /\ c[2] = (x \div B) % B
      /\ c[3] = (x \div (B * B)) % B /\ c[4] = (x \div (B * B * B)) % B
  <2>1. x \div 1 = x
    BY <1>1
  <2> QED BY <1>2, <2>1 DEF WordBytes
<1> HIDE DEF B, c
<1>4. c[1] \in 0 .. B - 1 /\ c[2] \in 0 .. B - 1 /\ c[3] \in 0 .. B - 1 /\ c[4] \in 0 .. B - 1
  <2>1. ASSUME NEW y \in Nat PROVE y % B \in 0 .. B - 1
    BY <1>1
  <2>2. x \div B \in Nat
    BY <1>1
  <2>3. x \div (B * B) \in Nat
    <3> DEFINE w == B * B
    <3>1. w \in Nat \ {0}
      BY <1>1
    <3> HIDE DEF w
    <3>2. x \div w \in Nat
      BY <1>1, <3>1
    <3> QED BY <3>2 DEF w
  <2>4. x \div (B * B * B) \in Nat
    <3> DEFINE w == B * B * B
    <3>1. w \in Nat \ {0}
      BY ModulusFacts, <1>1 DEF B
    <3> HIDE DEF w
    <3>2. x \div w \in Nat
      BY <1>1, <3>1
    <3> QED BY <3>2 DEF w
  <2> QED BY <1>1, <1>3, <2>1, <2>2, <2>3, <2>4
<1>5. x = Number4(B, c[4], c[3], c[2], c[1])
  BY <1>1, <1>3, Number4OfDigits
<1>6. x = c[4] * Place[4] + c[3] * Place[3] + c[2] * Place[2] + c[1]
  <2>1. Number4(B, c[4], c[3], c[2], c[1])
          = c[4] * (B * B * B) + c[3] * (B * B) + c[2] * B + c[1]
    <3> DEFINE c1 == c[1]
               c2 == c[2]
               c3 == c[3]
               c4 == c[4]
    <3>1. c1 \in Nat /\ c2 \in Nat /\ c3 \in Nat /\ c4 \in Nat /\ B \in Nat
      BY <1>1, <1>4
    <3> HIDE DEF c1, c2, c3, c4
    <3>2. Number4(B, c4, c3, c2, c1) = c4 * (B * B * B) + c3 * (B * B) + c2 * B + c1
      BY <3>1, SumOfNumber4
    <3> QED BY <3>2 DEF c1, c2, c3, c4
  <2> QED BY <1>2, <1>5, <2>1
<1> DEFINE high == c[4] * Place[4]
           low == c[1] + c[2] * Place[2] + c[3] * Place[3]
<1>7. high \in Nat /\ low \in Nat /\ x = low + high
  <2> DEFINE w2 == Place[2]
             w3 == Place[3]
             w4 == Place[4]
  <2>1. w2 \in Nat /\ w3 \in Nat /\ w4 \in Nat
    BY <1>1, <1>2
  <2>2. c[1] \in Nat /\ c[2] \in Nat /\ c[3] \in Nat /\ c[4] \in Nat
    BY <1>1, <1>4
  <2> HIDE DEF w2, w3, w4
  <2>3. c[4] * w4 \in Nat /\ c[3] * w3 \in Nat /\ c[2] * w2 \in Nat
    BY <2>1, <2>2
  <2> QED BY <1>6, <2>2, <2>3 DEF w2, w3, w4
<1>8. high \in 0 .. Modulus - 1
  BY <1>1, <1>7
<1> HIDE DEF high
<1>9. Signed(high) \in {high, high - Modulus}
  BY <1>8, UnsignedFacts
<1>10. low + Signed(high) \in {x, x - Modulus}
  <2> HIDE DEF low
  <2> QED BY <1>1, <1>7, <1>9
<1>11. Unsigned(low + Signed(high)) = x
  BY <1>10, UnsignedFacts
<1>12. DOMAIN c = 1 .. 4
  BY DEF c, WordBytes
<1> QED BY <1>11, <1>12 DEF high, c

LEMMA FunctionIsSeq ==
  ASSUME NEW T, NEW n \in Nat, NEW f \in [1 .. n -> T]
  PROVE  f \in Seq(T) /\ Len(f) = n
OBVIOUS

\* A packet is read as the time that it was made of.
LEMMA PacketComesBack ==
  ASSUME NEW t \in Times
  PROVE  log_time(Packet(t)) = [tv_sec |-> t.sec, tv_nsec |-> t.nsec]
<1> DEFINE c == WordBytes(t.sec)
           d == WordBytes(t.nsec)
<1>1. t.sec \in 0 .. Modulus - 1 /\ t.nsec \in 0 .. Modulus - 1
  <2>1. t.sec \in 0 .. Modulus - 1 /\ t.nsec \in 0 .. NS_PER_SEC - 1
    BY DEF Times
  <2> QED BY <2>1, ModulusFacts
<1>2. Packet(t) = c \o d
  BY <1>1, UnsignedFacts DEF Packet
<1>3. DOMAIN c = 1 .. 4 /\ DOMAIN d = 1 .. 4
  BY <1>1, WordComesBack
<1>4. c = [b \in 1 .. 4 |-> c[b]] /\ d = [b \in 1 .. 4 |-> d[b]]
  BY DEF WordBytes
<1> HIDE DEF c, d
<1> DEFINE S == {c[b] : b \in 1 .. 4} \cup {d[b] : b \in 1 .. 4}
<1>5. c \in Seq(S) /\ d \in Seq(S) /\ Len(c) = 4 /\ Len(d) = 4
  <2>1. c \in [1 .. 4 -> S] /\ d \in [1 .. 4 -> S]
    BY <1>4
  <2>2. 4 \in Nat
    OBVIOUS
  <2> HIDE DEF S
  <2> QED BY <2>1, <2>2, FunctionIsSeq
<1>6. /\ \A k \in 1 .. 4 : Packet(t)[k] = c[k]
      /\ \A k \in 5 .. 8 : Packet(t)[k] = d[k - 4]
  <2> HIDE DEF S
  <2>1. \A i \in 1 .. Len(c) + Len(d) :
          (c \o d)[i] = IF i <= Len(c) THEN c[i] ELSE d[i - Len(c)]
    BY <1>5, ConcatProperties
  <2>2. Len(c) + Len(d) = 8
    BY <1>5
  <2>3. \A i \in 1 .. 8 : (c \o d)[i] = IF i <= 4 THEN c[i] ELSE d[i - 4]
    BY <1>5, <2>1, <2>2
  <2>4. ASSUME NEW k \in 1 .. 4 PROVE (c \o d)[k] = c[k]
    <3>1. k \in 1 .. 8 /\ k <= 4
      OBVIOUS
    <3> QED BY <2>3, <3>1
  <2>5. ASSUME NEW k \in 5 .. 8 PROVE (c \o d)[k] = d[k - 4]
    <3>1. k \in 1 .. 8 /\ ~(k <= 4)
      OBVIOUS
    <3> QED BY <2>3, <3>1
  <2> QED BY <1>2, <2>4, <2>5
<1>7. /\ Unsigned(c[1] + c[2] * Place[2] + c[3] * Place[3] + Signed(c[4] * Place[4])) = t.sec
      /\ Unsigned(d[1] + d[2] * Place[2] + d[3] * Place[3] + Signed(d[4] * Place[4])) = t.nsec
  BY <1>1, WordComesBack DEF c, d
<1> QED BY <1>6, <1>7 DEF log_time

\* 64 bits hold the nanoseconds of every time, which compare as the seconds,
\* then the nanoseconds in them.
LEMMA NanosecondsInOrder ==
  ASSUME NEW t \in Times, NEW u \in Times
  PROVE  LET ns(v) == (v.sec * NS_PER_SEC + v.nsec) % (Modulus * Modulus)
         IN  ns(t) < ns(u) <=> t.sec < u.sec \/ (t.sec = u.sec /\ t.nsec < u.nsec)
<1> DEFINE M == Modulus
           w == NS_PER_SEC
<1>1. M \in Nat \ {0} /\ w \in Nat \ {0} /\ w <= M
  <2> HIDE DEF M, w
  <2>1. M \in Nat \ {0} /\ w \in Nat \ {0} /\ w <= M \div 2 /\ M \div 2 <= M
    BY ModulusFacts DEF M, w
  <2>2. M \div 2 \in Nat
    BY <2>1
  <2> QED BY <2>1, <2>2
<1>2. ASSUME NEW v \in Times
      PROVE  /\ v.sec \in 0 .. M - 1 /\ v.nsec \in 0 .. w - 1
             /\ (v.sec * w + v.nsec) % (M * M) = (v.sec * w) + v.nsec
  <2>1. v.sec \in 0 .. M - 1 /\ v.nsec \in 0 .. w - 1
    BY DEF Times
  <2> DEFINE q == v.sec
             r == v.nsec
             x == (q * w) + r
             m == M * M
  <2> HIDE DEF M, w, q, r
  <2>2. q \in 0 .. M - 1 /\ r \in 0 .. w - 1
    BY <2>1 DEF q, r
  <2>3. x \in 0 .. (M * w) - 1
    BY <1>1, <2>2, DigitAndRest
  <2>4. M * w <= m /\ M * w \in Nat /\ m \in Nat \ {0}
    BY <1>1
  <2> HIDE DEF x, m
  <2>5. x \in Nat /\ x < m
    BY <2>3, <2>4
  <2>6. x % m = x
    BY <2>4, <2>5
  <2> QED BY <2>1, <2>6 DEF x, m, q, r
<1> DEFINE p == t.sec
           r == t.nsec
           q == u.sec
           s == u.nsec
<1>3. p \in Nat /\ q \in Nat /\ r \in 0 .. w - 1 /\ s \in 0 .. w - 1
  BY <1>1, <1>2
<1>4. (p * w + r) % (M * M) = (p * w) + r /\ (q * w + s) % (M * M) = (q * w) + s
  BY <1>2
<1> HIDE DEF M, w, p, q, r, s
<1>5. (p * w) + r < (q * w) + s <=> p < q \/ (p = q /\ r < s)
  BY <1>1, <1>3, DigitsFirst
<1>6. (p * w + r) % (M * M) < (q * w + s) % (M * M) <=> p < q \/ (p = q /\ r < s)
  BY <1>4, <1>5
<1> QED BY <1>6 DEF M, w, p, q, r, s

LEMMA ComparisonOfTimes ==
  ASSUME NEW t \in Times, NEW u \in Times
  PROVE  LET v == Comparison(t, u)
         IN  /\ v.before <=> t.sec < u.sec \/ (t.sec = u.sec /\ t.nsec < u.nsec)
             /\ v.same <=> t = u
             /\ v.nsecBefore <=> v.before
             /\ t.sec < Modulus \div 2 /\ u.sec < Modulus \div 2 =>
                  /\ v.msgBefore <=> v.before
                  /\ v.msgNsecBefore <=> v.nsecBefore
<1> DEFINE v == Comparison(t, u)
           T == [tv_sec |-> t.sec, tv_nsec |-> t.nsec]
           U == [tv_sec |-> u.sec, tv_nsec |-> u.nsec]
           e == Header(t)
           f == Header(u)
<1>1. /\ v.before = Before(T, U) /\ v.same = (T = U) /\ v.nsecBefore = (nsec(T) < nsec(U))
      /\ v.msgBefore = MsgBefore(e, f) /\ v.msgNsecBefore = (MsgNsec(e) < MsgNsec(f))
  BY PacketComesBack DEF Comparison
<1>2. Before(T, U) <=> t.sec < u.sec \/ (t.sec = u.sec /\ t.nsec < u.nsec)
  BY DEF Before
<1>3. (T = U) <=> t = u
  <2>1. T = U => t.sec = u.sec /\ t.nsec = u.nsec
    OBVIOUS
  <2>2. t.sec = u.sec /\ t.nsec = u.nsec => t = u
    BY DEF Times
  <2> QED BY <2>1, <2>2
<1>4. nsec(T) < nsec(U) <=> t.sec < u.sec \/ (t.sec = u.sec /\ t.nsec < u.nsec)
  BY NanosecondsInOrder DEF nsec
<1>5. ASSUME NEW x \in Times, x.sec < Modulus \div 2
      PROVE  /\ Header(x) = [sec |-> x.sec, nsec |-> x.nsec]
             /\ x.sec % (Modulus * Modulus) = x.sec
  <2>1. x.sec \in 0 .. Modulus - 1 /\ x.nsec \in 0 .. NS_PER_SEC - 1
    BY DEF Times
  <2>2. x.nsec \in 0 .. Modulus - 1 /\ x.nsec < Modulus \div 2
    BY <2>1, ModulusFacts
  <2>3. Signed(x.sec) = x.sec /\ Signed(x.nsec) = x.nsec
    BY <1>5, <2>1, <2>2, UnsignedFacts
  <2>4. x.sec % (Modulus * Modulus) = x.sec
    <3> DEFINE M == Modulus
               m == M * M
    <3>1. M \in Nat \ {0} /\ x.sec \in Nat /\ x.sec < M
      BY <2>1, ModulusFacts
    <3> HIDE DEF M
    <3>2. m \in Nat \ {0} /\ M <= m
      BY <3>1
    <3> HIDE DEF m
    <3>3. x.sec % m = x.sec
      BY <3>1, <3>2
    <3> QED BY <3>3 DEF m, M
  <2> QED BY <2>3, <2>4 DEF Header
<1>6. ASSUME t.sec < Modulus \div 2, u.sec < Modulus \div 2
      PROVE  /\ MsgBefore(e, f) <=> Before(T, U)
             /\ MsgNsec(e) < MsgNsec(f) <=> nsec(T) < nsec(U)
  <2>1. e = [sec |-> t.sec, nsec |-> t.nsec] /\ f = [sec |-> u.sec, nsec |-> u.nsec]
    BY <1>5, <1>6
  <2>2. MsgNsec(e) = nsec(T)
    BY <1>5, <1>6, <2>1 DEF MsgNsec, nsec
  <2>3. MsgNsec(f) = nsec(U)
    BY <1>5, <1>6, <2>1 DEF MsgNsec, nsec
  <2>4. MsgBefore(e, f) <=> Before(T, U)
    BY <2>1 DEF MsgBefore, Before
  <2> QED BY <2>2, <2>3, <2>4
<1> QED BY <1>1, <1>2, <1>3, <1>4, <1>6

\* Words of four bytes of any size, and a second of any number of
\* nanoseconds that fits into half of one: log_times compare as the times
\* do to the last second, through the bytes of the packet.
THEOREM StampsInOrderHolds == Spec => []StampsInOrder
<1>1. Answered => StampsInOrder
  <2> SUFFICES ASSUME Answered, Returned("compare") PROVE StampsInOrder
    BY DEF StampsInOrder
  <2>1. call.first \in Times /\ call.second \in Times /\ Value = Comparison(call.first, call.second)
    BY CompareCall DEF Answered, Returned
  <2>2. /\ Value.before <=> \/ call.first.sec < call.second.sec
                            \/ /\ call.first.sec = call.second.sec
                               /\ call.first.nsec < call.second.nsec
        /\ Value.same <=> call.first = call.second
        /\ Value.nsecBefore <=> Value.before
    BY <2>1, ComparisonOfTimes
  <2>3. Later(call.second, call.first) <=> \/ call.first.sec < call.second.sec
                                           \/ /\ call.first.sec = call.second.sec
                                              /\ call.first.nsec < call.second.nsec
    <3>1. /\ call.first.sec \in Int /\ call.second.sec \in Int
          /\ call.first.nsec \in Int /\ call.second.nsec \in Int
      BY <2>1, ModulusFacts DEF Times
    <3> QED BY <3>1 DEF Later
  <2> QED BY <2>2, <2>3 DEF StampsInOrder
<1> QED BY AlwaysAnswered, <1>1, PTL

\* And log_msgs compare as log_times do, while their seconds fit into the
\* signed half of the range.
THEOREM EntriesMatchUntil2038Holds == Spec => []EntriesMatchUntil2038
<1>1. Answered => EntriesMatchUntil2038
  <2> SUFFICES ASSUME Answered, Returned("compare"),
                      {call.first.sec, call.second.sec} \subseteq 0 .. Modulus \div 2 - 1
               PROVE  /\ Value.msgBefore <=> Value.before
                      /\ Value.msgNsecBefore <=> Value.nsecBefore
    BY DEF EntriesMatchUntil2038
  <2>1. call.first \in Times /\ call.second \in Times /\ Value = Comparison(call.first, call.second)
    BY CompareCall DEF Answered, Returned
  <2>2. call.first.sec < Modulus \div 2 /\ call.second.sec < Modulus \div 2
    BY ModulusFacts
  <2> QED BY <2>1, <2>2, ComparisonOfTimes
<1> QED BY AlwaysAnswered, <1>1, PTL
-----------------------------------------------------------------------------
(* Bitmasks.  The proofs see the words as one row of bits, padding         *)
(* included: bit b of it is position b % W of word b \div W.               *)

Row(n) == 0 .. BITS_PER_WORD * BITS_TO_WORDS(n) - 1

LEMMA RowFacts ==
  ASSUME NEW n \in Nat \ {0}
  PROVE  /\ BITS_TO_WORDS(n) \in Nat \ {0}
         /\ BITS_PER_WORD * BITS_TO_WORDS(n) \in Nat
         /\ n <= BITS_PER_WORD * BITS_TO_WORDS(n)
<1> DEFINE W == BITS_PER_WORD
           N == BITS_TO_WORDS(n)
           x == n + W - 1
           r == x % W
<1>1. W \in Nat \ {0}
  BY HeaderFunctionsAssumption
<1>2. x \in Nat /\ N = x \div W
  BY <1>1 DEF BITS_TO_WORDS
<1> HIDE DEF W, N
<1>3. x = N * W + r /\ r \in 0 .. W - 1 /\ N \in Nat
  <2> HIDE DEF x
  <2> QED BY <1>1, <1>2
<1>4. N * W \in Nat /\ W * N = N * W
  <2> HIDE DEF x, r
  <2> QED BY <1>1, <1>3
<1>5. n <= N * W
  <2> HIDE DEF r
  <2> QED BY <1>1, <1>3, <1>4
<1>6. N # 0
  BY <1>1, <1>5
<1> QED BY <1>3, <1>4, <1>5, <1>6 DEF W, N

\* A bit of the row is at one position of one word.
LEMMA PlaceOfBit ==
  ASSUME NEW n \in Nat \ {0}, NEW b \in Row(n)
  PROVE  /\ BIT_WORD(b) \in Words(n) /\ BIT_IN_WORD(b) \in Positions
         /\ b = BITS_PER_WORD * BIT_WORD(b) + BIT_IN_WORD(b)
<1> DEFINE W == BITS_PER_WORD
           N == BITS_TO_WORDS(n)
           q == b \div W
           r == b % W
<1>1. W \in Nat \ {0} /\ N \in Nat /\ b \in Nat /\ b < W * N
  <2>1. W \in Nat \ {0} /\ N \in Nat /\ W * N \in Nat
    BY HeaderFunctionsAssumption, RowFacts
  <2>2. b \in 0 .. (W * N) - 1
    BY DEF Row
  <2> HIDE DEF W, N
  <2> QED BY <2>1, <2>2
<1> HIDE DEF W, N
<1>2. q \in Nat /\ r \in 0 .. W - 1 /\ b = W * q + r
  BY <1>1
<1> HIDE DEF q, r
<1>3. q < N
  <2> SUFFICES ASSUME N <= q PROVE FALSE
    BY <1>1, <1>2
  <2>1. W * N <= W * q
    BY <1>1, <1>2
  <2>2. W * N \in Nat /\ W * q \in Nat
    BY <1>1, <1>2
  <2> QED BY <1>1, <1>2, <2>1, <2>2
<1>4. q \in 0 .. N - 1
  BY <1>1, <1>2, <1>3
<1> QED BY <1>2, <1>4 DEF W, N, q, r, BIT_WORD, BIT_IN_WORD, Words, Positions

\* And every position of every word is a bit of the row.
LEMMA BitOfPlace ==
  ASSUME NEW n \in Nat \ {0}, NEW w \in Words(n), NEW p \in Positions
  PROVE  LET b == BITS_PER_WORD * w + p
         IN  b \in Row(n) /\ BIT_WORD(b) = w /\ BIT_IN_WORD(b) = p
<1> DEFINE W == BITS_PER_WORD
           N == BITS_TO_WORDS(n)
           b == W * w + p
<1>1. W \in Nat \ {0} /\ N \in Nat /\ w \in 0 .. N - 1 /\ p \in 0 .. W - 1
  BY HeaderFunctionsAssumption, RowFacts DEF Words, Positions
<1> HIDE DEF W, N
<1>2. b = (w * W) + p /\ W * N = N * W
  BY <1>1
<1>3. b \in 0 .. (N * W) - 1
  <2> HIDE DEF b
  <2> QED BY <1>1, <1>2, DigitAndRest
<1>4. b \in Nat /\ w \in Nat /\ p \in Nat /\ p < W
  <2> HIDE DEF b
  <2>1. N * W \in Nat
    BY <1>1
  <2> QED BY <1>1, <1>3, <2>1
<1> HIDE DEF b
<1>5. b \div W = w /\ b % W = p
  BY <1>1, <1>2, <1>4, Quotient, Remainder
<1>6. b \in 0 .. W * N - 1
  BY <1>2, <1>3
<1> QED BY <1>5, <1>6 DEF W, N, b, Row, BIT_WORD, BIT_IN_WORD

\* The bits of the mask are the first ones of the row.
LEMMA BitsInRow ==
  ASSUME NEW n \in Nat \ {0}, NEW mask \in Masks(n)
  PROVE  /\ 0 .. n - 1 \subseteq Row(n)
         /\ mask \in Bitmasks(n)
         /\ \A b \in Row(n) : bitmask_test(mask, b) => b \in 0 .. n - 1
<1>1. mask \in Bitmasks(n)
  BY DEF Masks
<1>2. \A b \in n .. BITS_PER_WORD * BITS_TO_WORDS(n) - 1 : ~bitmask_test(mask, b)
  BY DEF Masks
<1> DEFINE end == BITS_PER_WORD * BITS_TO_WORDS(n)
<1>3. end \in Nat /\ n <= end
  BY RowFacts
<1> HIDE DEF end
<1>4. Row(n) = 0 .. end - 1
  BY DEF Row, end
<1>5. \A b \in n .. end - 1 : ~bitmask_test(mask, b)
  BY <1>2 DEF end
<1>6. ASSUME NEW b \in Row(n), bitmask_test(mask, b) PROVE b \in 0 .. n - 1
  <2>1. b \in Int /\ 0 <= b /\ b <= end - 1
    BY <1>3, <1>4
  <2>2. b \notin n .. end - 1
    BY <1>5, <1>6
  <2> QED BY <1>3, <2>1, <2>2
<1>7. 0 .. n - 1 \subseteq Row(n)
  BY <1>3, <1>4
<1> QED BY <1>1, <1>6, <1>7

LEMMA SetBit ==
  ASSUME NEW n \in Nat \ {0}, NEW mask \in Masks(n), NEW b \in 0 .. n - 1
  PROVE  /\ bitmask_set(mask, b) \in Masks(n)
         /\ {c \in 0 .. n - 1 : bitmask_test(bitmask_set(mask, b), c)}
              = {c \in 0 .. n - 1 : bitmask_test(mask, c)} \cup {b}
<1> DEFINE s == bitmask_set(mask, b)
<1>1. mask \in [Words(n) -> SUBSET Positions] /\ b \in Row(n) /\ 0 .. n - 1 \subseteq Row(n)
  BY BitsInRow DEF Bitmasks
<1>2. ASSUME NEW c \in Row(n) PROVE bitmask_test(s, c) <=> bitmask_test(mask, c) \/ c = b
  <2>1. BIT_WORD(c) \in Words(n) /\ c = BITS_PER_WORD * BIT_WORD(c) + BIT_IN_WORD(c)
    BY PlaceOfBit
  <2>2. BIT_WORD(b) \in Words(n) /\ b = BITS_PER_WORD * BIT_WORD(b) + BIT_IN_WORD(b)
    BY <1>1, PlaceOfBit
  <2>3. c = b <=> BIT_WORD(c) = BIT_WORD(b) /\ BIT_IN_WORD(c) = BIT_IN_WORD(b)
    BY <2>1, <2>2
  <2>4. s[BIT_WORD(c)] = IF BIT_WORD(c) = BIT_WORD(b)
                           THEN mask[BIT_WORD(b)] \cup {BIT_IN_WORD(b)} ELSE mask[BIT_WORD(c)]
    BY <1>1, <2>1, <2>2 DEF bitmask_set
  <2> HIDE DEF s
  <2> QED BY <2>3, <2>4 DEF bitmask_test
<1>3. s \in Bitmasks(n)
  <2>1. BIT_IN_WORD(b) \in Positions
    BY <1>1, PlaceOfBit
  <2> QED BY <1>1, <2>1 DEF bitmask_set, Bitmasks
<1> HIDE DEF s
<1>4. ASSUME NEW c \in n .. BITS_PER_WORD * BITS_TO_WORDS(n) - 1 PROVE ~bitmask_test(s, c)
  <2>1. c \in Row(n) /\ c # b /\ c \notin 0 .. n - 1
    BY RowFacts DEF Row
  <2>2. ~bitmask_test(mask, c)
    BY <2>1, BitsInRow
  <2> QED BY <1>2, <2>1, <2>2
<1>5. s \in Masks(n)
  BY <1>3, <1>4 DEF Masks
<1>6. {c \in 0 .. n - 1 : bitmask_test(s, c)} = {c \in 0 .. n - 1 : bitmask_test(mask, c)} \cup {b}
  BY <1>1, <1>2
<1> QED BY <1>5, <1>6 DEF s

LEMMA ClearBit ==
  ASSUME NEW n \in Nat \ {0}, NEW mask \in Masks(n), NEW b \in 0 .. n - 1
  PROVE  /\ bitmask_clear(mask, b) \in Masks(n)
         /\ {c \in 0 .. n - 1 : bitmask_test(bitmask_clear(mask, b), c)}
              = {c \in 0 .. n - 1 : bitmask_test(mask, c)} \ {b}
<1> DEFINE s == bitmask_clear(mask, b)
<1>1. mask \in [Words(n) -> SUBSET Positions] /\ b \in Row(n) /\ 0 .. n - 1 \subseteq Row(n)
  BY BitsInRow DEF Bitmasks
<1>2. ASSUME NEW c \in Row(n) PROVE bitmask_test(s, c) <=> bitmask_test(mask, c) /\ c # b
  <2>1. BIT_WORD(c) \in Words(n) /\ c = BITS_PER_WORD * BIT_WORD(c) + BIT_IN_WORD(c)
    BY PlaceOfBit
  <2>2. BIT_WORD(b) \in Words(n) /\ b = BITS_PER_WORD * BIT_WORD(b) + BIT_IN_WORD(b)
    BY <1>1, PlaceOfBit
  <2>3. c = b <=> BIT_WORD(c) = BIT_WORD(b) /\ BIT_IN_WORD(c) = BIT_IN_WORD(b)
    BY <2>1, <2>2
  <2>4. s[BIT_WORD(c)] = IF BIT_WORD(c) = BIT_WORD(b)
                           THEN mask[BIT_WORD(b)] \ {BIT_IN_WORD(b)} ELSE mask[BIT_WORD(c)]
    BY <1>1, <2>1, <2>2 DEF bitmask_clear
  <2> HIDE DEF s
  <2> QED BY <2>3, <2>4 DEF bitmask_test
<1>3. s \in Bitmasks(n)
  BY <1>1 DEF bitmask_clear, Bitmasks
<1> HIDE DEF s
<1>4. ASSUME NEW c \in n .. BITS_PER_WORD * BITS_TO_WORDS(n) - 1 PROVE ~bitmask_test(s, c)
  <2>1. c \in Row(n) /\ c \notin 0 .. n - 1
    BY RowFacts DEF Row
  <2>2. ~bitmask_test(mask, c)
    BY <2>1, BitsInRow
  <2> QED BY <1>2, <2>1, <2>2
<1>5. s \in Masks(n)
  BY <1>3, <1>4 DEF Masks
<1>6. {c \in 0 .. n - 1 : bitmask_test(s, c)} = {c \in 0 .. n - 1 : bitmask_test(mask, c)} \ {b}
  BY <1>1, <1>2
<1> QED BY <1>5, <1>6 DEF s

LEMMA MinFacts ==
  ASSUME NEW S \in SUBSET Nat
  PROVE  /\ S # {} => Min(S) \in S /\ \A y \in S : Min(S) <= y
         /\ \A x \in S : (\A y \in S : x <= y) => Min(S) = x
<1>1. ASSUME NEW x \in S, \A y \in S : x <= y PROVE Min(S) \in S /\ \A y \in S : Min(S) <= y
  BY <1>1 DEF Min
<1>2. ASSUME S # {} PROVE Min(S) \in S /\ \A y \in S : Min(S) <= y
  <2>1. PICK x \in S : \A y \in S : x <= y
    BY <1>2, LeastNatural
  <2> QED BY <1>1, <2>1
<1>3. ASSUME NEW x \in S, \A y \in S : x <= y PROVE Min(S) = x
  <2>1. Min(S) \in S /\ Min(S) <= x /\ x <= Min(S)
    BY <1>1, <1>3
  <2>2. Min(S) \in Nat /\ x \in Nat
    BY <2>1
  <2> QED BY <2>1, <2>2
<1> QED BY <1>2, <1>3

LEMMA MaxFacts ==
  ASSUME NEW S \in SUBSET Int, NEW x \in S, \A y \in S : x >= y
  PROVE  Max(S) = x
<1>1. Max(S) \in S /\ \A y \in S : Max(S) >= y
  BY DEF Max
<1>2. Max(S) \in Int /\ x \in Int /\ Max(S) >= x /\ x >= Max(S)
  BY <1>1
<1> QED BY <1>2

\* The first word with a zero, and the first zero in it, make the first zero.
LEMMA FirstZero ==
  ASSUME NEW n \in Nat \ {0}, NEW mask \in Masks(n)
  PROVE  LET ones == {b \in 0 .. n - 1 : bitmask_test(mask, b)}
         IN  bitmask_ffz(mask, n) = IF ones = 0 .. n - 1 THEN -1 ELSE Min((0 .. n - 1) \ ones)
<1> DEFINE ones == {b \in 0 .. n - 1 : bitmask_test(mask, b)}
           zeros == (0 .. n - 1) \ ones
           open == {w \in Words(n) : mask[w] # Positions}
           m == Min(open)
           free == Positions \ mask[m]
           z == Min(free)
           found == BITS_PER_WORD * m + z
<1>1. bitmask_ffz(mask, n) = IF open = {} \/ found >= n THEN -1 ELSE found
  BY DEF bitmask_ffz
<1>2. /\ mask \in [Words(n) -> SUBSET Positions] /\ 0 .. n - 1 \subseteq Row(n)
      /\ open \in SUBSET Nat /\ Positions \in SUBSET Nat /\ BITS_PER_WORD \in Nat \ {0}
  <2>1. Words(n) \in SUBSET Nat
    BY RowFacts DEF Words
  <2> QED BY <2>1, BitsInRow, HeaderFunctionsAssumption DEF Bitmasks, Positions
<1>3. ASSUME NEW b \in Row(n), ~bitmask_test(mask, b)
      PROVE  /\ BIT_WORD(b) \in open /\ BIT_IN_WORD(b) \in Positions \ mask[BIT_WORD(b)]
             /\ b = BITS_PER_WORD * BIT_WORD(b) + BIT_IN_WORD(b)
  <2>1. /\ BIT_WORD(b) \in Words(n) /\ BIT_IN_WORD(b) \in Positions
        /\ b = BITS_PER_WORD * BIT_WORD(b) + BIT_IN_WORD(b)
    BY PlaceOfBit
  <2> QED BY <1>3, <2>1 DEF bitmask_test
<1>4. CASE open = {}
  <2>1. ones = 0 .. n - 1
    BY <1>2, <1>3, <1>4
  <2> HIDE DEF open, found
  <2> QED BY <1>1, <1>4, <2>1
<1>5. CASE open # {}
  <2>1. m \in open /\ \A w \in open : m <= w
    <3> HIDE DEF open
    <3> QED BY <1>2, <1>5, MinFacts
  <2>2. m \in Words(n) /\ free # {} /\ free \in SUBSET Nat
    BY <1>2, <2>1
  <2>3. z \in free /\ \A p \in free : z <= p
    <3> HIDE DEF free
    <3> QED BY <2>2, MinFacts
  <2>4. found \in Row(n) /\ BIT_WORD(found) = m /\ BIT_IN_WORD(found) = z
    <3> HIDE DEF m, z
    <3> QED BY <2>2, <2>3, BitOfPlace
  <2>5. ~bitmask_test(mask, found)
    BY <2>3, <2>4 DEF bitmask_test
  <2>6. ASSUME NEW b \in Row(n), ~bitmask_test(mask, b) PROVE found <= b
    <3> DEFINE w == BIT_WORD(b)
               p == BIT_IN_WORD(b)
               W == BITS_PER_WORD
    <3>1. w \in open /\ p \in Positions \ mask[w] /\ b = W * w + p
      BY <1>3, <2>6
    <3>2. W \in Nat \ {0} /\ z \in 0 .. W - 1 /\ p \in 0 .. W - 1 /\ w \in Nat /\ m \in Nat
      BY <1>2, <2>1, <2>3, <3>1 DEF Positions
    <3>3. m <= w /\ (m = w => z <= p)
      BY <2>1, <2>3, <3>1
    <3>4. found = (m * W) + z /\ b = (w * W) + p
      BY <3>1, <3>2
    <3> HIDE DEF w, p, W, m, z, found
    <3>5. ~((w * W) + p < (m * W) + z)
      <4>1. (w * W) + p < (m * W) + z <=> w < m \/ (w = m /\ p < z)
        BY <3>2, DigitsFirst
      <4>2. ~(w < m) /\ ~(w = m /\ p < z)
        BY <3>2, <3>3
      <4> QED BY <4>1, <4>2
    <3>6. (w * W) + p \in Int /\ (m * W) + z \in Int
      BY <3>2
    <3> QED BY <3>4, <3>5, <3>6
  <2>7. found \in Nat /\ Row(n) \in SUBSET Nat
    BY <2>4, RowFacts DEF Row
  <2> HIDE DEF open, m, free, z, found
  <2>8. CASE found >= n
    <3>1. ones = 0 .. n - 1
      <4>1. ASSUME NEW b \in 0 .. n - 1 PROVE bitmask_test(mask, b)
        <5>1. b \in Row(n) /\ ~(found <= b)
          BY <1>2, <2>7, <2>8
        <5> QED BY <2>6, <5>1
      <4> QED BY <4>1
    <3> HIDE DEF ones
    <3> QED BY <1>1, <2>8, <3>1 DEF ones
  <2>9. CASE ~(found >= n)
    <3>1. found \in zeros
      BY <2>5, <2>7, <2>9
    <3>2. \A b \in zeros : found <= b
      BY <1>2, <2>6
    <3>3. zeros \in SUBSET Nat
      OBVIOUS
    <3>4. ones # 0 .. n - 1
      BY <3>1
    <3> HIDE DEF ones, zeros
    <3>5. Min(zeros) = found
      BY <3>1, <3>2, <3>3, MinFacts
    <3> QED BY <1>1, <1>5, <2>9, <3>4, <3>5 DEF zeros, ones
  <2> QED BY <2>8, <2>9
<1> QED BY <1>4, <1>5

LEMMA WeightDef ==
  ASSUME NEW n \in Nat \ {0}, NEW mask \in Masks(n)
  PROVE  LET N == BITS_TO_WORDS(n)
             weight == WeightOfWords(mask, n)
         IN  /\ weight[0] = 0
             /\ \A i \in 0 .. N - 1 :
                  weight[i + 1] = weight[i] + Cardinality(mask[i])
<1> DEFINE N == BITS_TO_WORDS(n)
           ones == [i \in Nat |-> IF i \in 0 .. N - 1 THEN Cardinality(mask[i]) ELSE 0]
           step == [i \in Nat |-> [x \in Int |-> x + ones[i]]]
<1>1. N \in Nat \ {0}
  BY RowFacts
<1>2. \A i \in 0 .. N - 1 : Cardinality(mask[i]) \in Nat
  <2> SUFFICES ASSUME NEW i \in 0 .. N - 1 PROVE Cardinality(mask[i]) \in Nat
    OBVIOUS
  <2>1. mask[i] \in SUBSET (0 .. BITS_PER_WORD - 1)
    <3>1. mask \in [Words(n) -> SUBSET Positions] /\ i \in Words(n)
      BY BitsInRow DEF Bitmasks, Words
    <3> QED BY <3>1 DEF Positions
  <2>2. IsFiniteSet(0 .. BITS_PER_WORD - 1)
    BY HeaderFunctionsAssumption, FS_Interval
  <2> QED BY <2>1, <2>2, FS_Subset, FS_CardinalityType
<1>3. ones \in [Nat -> Int]
  BY <1>2
<1>4. step \in Steps(Int) /\ 0 \in Int
  <2> HIDE DEF ones
  <2> QED BY <1>3 DEF Steps
<1>5. PICK f : IteratesTo(f, N, Int, 0, step)
  <2> HIDE DEF step, N
  <2> QED BY <1>1, <1>4, RecursionTo
<1>6. ASSUME NEW g \in [0 .. N -> Int], NEW i \in 0 .. N, i # 0
      PROVE  step[i - 1][g[i - 1]] = g[i - 1] + Cardinality(mask[i - 1])
  <2> HIDE DEF N
  <2>1. i - 1 \in Nat /\ i - 1 \in 0 .. N /\ i - 1 \in 0 .. N - 1
    BY <1>1, <1>6
  <2>2. ones[i - 1] = Cardinality(mask[i - 1])
    BY <2>1
  <2> HIDE DEF ones
  <2> QED BY <2>1, <2>2
<1>7. f = [i \in 0 .. N |-> IF i = 0 THEN 0 ELSE f[i - 1] + Cardinality(mask[i - 1])]
  <2> HIDE DEF step, N
  <2> QED BY <1>5, <1>6 DEF IteratesTo
<1> DEFINE weight == WeightOfWords(mask, n)
<1>8. weight = [i \in 0 .. N |-> IF i = 0 THEN 0 ELSE weight[i - 1] + Cardinality(mask[i - 1])]
  BY <1>7 DEF WeightOfWords
<1> HIDE DEF N, weight
<1>9. weight[0] = 0
  BY <1>1, <1>8
<1>10. ASSUME NEW i \in 0 .. N - 1 PROVE weight[i + 1] = weight[i] + Cardinality(mask[i])
  <2>1. i + 1 \in 0 .. N /\ i + 1 # 0 /\ (i + 1) - 1 = i
    BY <1>1
  <2> QED BY <1>8, <2>1
<1> QED BY <1>9, <1>10 DEF N, weight

\* The words' weights add up to the number of bits.
LEMMA WeightIsSize ==
  ASSUME NEW n \in Nat \ {0}, NEW mask \in Masks(n)
  PROVE  bitmask_weight(mask, n) = Cardinality({b \in 0 .. n - 1 : bitmask_test(mask, b)})
<1> DEFINE W == BITS_PER_WORD
           N == BITS_TO_WORDS(n)
           weight == WeightOfWords(mask, n)
           Below(i) == {b \in Row(n) : bitmask_test(mask, b) /\ b < W * i}
           In(i) == {W * i + p : p \in mask[i]}
           S == {i \in Nat : i <= N => IsFiniteSet(Below(i)) /\ weight[i] = Cardinality(Below(i))}
<1>1. W \in Nat \ {0} /\ N \in Nat /\ mask \in [Words(n) -> SUBSET Positions]
      /\ Words(n) = 0 .. N - 1 /\ Positions = 0 .. W - 1
  BY HeaderFunctionsAssumption, RowFacts, BitsInRow DEF Bitmasks, Words, Positions
<1>2. Row(n) = 0 .. W * N - 1 /\ W * N \in Nat
  BY RowFacts DEF Row
<1>3. weight[0] = 0 /\ \A i \in 0 .. N - 1 : weight[i + 1] = weight[i] + Cardinality(mask[i])
  BY WeightDef
<1>4. 0 \in S
  <2>1. Below(0) = {}
    BY <1>1, <1>2
  <2> HIDE DEF Below, weight
  <2>2. IsFiniteSet({}) /\ Cardinality({}) = 0
    BY FS_EmptySet
  <2> QED BY <1>3, <2>1, <2>2
<1>5. ASSUME NEW i \in Nat, i \in S PROVE i + 1 \in S
  <2> SUFFICES ASSUME i + 1 <= N
               PROVE  IsFiniteSet(Below(i + 1)) /\ weight[i + 1] = Cardinality(Below(i + 1))
    OBVIOUS
  <2>1. i \in 0 .. N - 1 /\ IsFiniteSet(Below(i)) /\ weight[i] = Cardinality(Below(i))
    <3> HIDE DEF Below, weight, N
    <3> QED BY <1>1, <1>5
  <2>2. mask[i] \in SUBSET (0 .. W - 1) /\ W * i \in Nat /\ W * (i + 1) = W * i + W
    <3>1. mask[i] \in SUBSET (0 .. W - 1)
      BY <1>1, <2>1
    <3> HIDE DEF W
    <3> QED BY <1>1, <3>1
  <2>3. IsFiniteSet(mask[i]) /\ IsFiniteSet(In(i)) /\ Cardinality(In(i)) = Cardinality(mask[i])
    <3> DEFINE f == [p \in mask[i] |-> W * i + p]
    <3>1. IsFiniteSet(mask[i])
      <4>1. IsFiniteSet(0 .. W - 1)
        BY <1>1, FS_Interval
      <4> QED BY <2>2, <4>1, FS_Subset
    <3>2. f \in Bijection(mask[i], In(i))
      <4>1. f \in [mask[i] -> In(i)] /\ \A b \in In(i) : \E p \in mask[i] : f[p] = b
        OBVIOUS
      <4>2. \A p, q \in mask[i] : f[p] = f[q] => p = q
        <5> HIDE DEF W
        <5> QED BY <2>2
      <4> HIDE DEF f, In
      <4> QED BY <4>1, <4>2 DEF Bijection, Injection, Surjection, IsInjective
    <3>3. ExistsBijection(mask[i], In(i))
      <4> HIDE DEF f, In
      <4> QED BY <3>2 DEF ExistsBijection
    <3> HIDE DEF In
    <3> QED BY <3>1, <3>3, FS_Bijection
  <2>4. ASSUME NEW b PROVE b \in In(i) <=> b \in Row(n) /\ BIT_WORD(b) = i /\ bitmask_test(mask, b)
    <3>1. ASSUME b \in In(i)
          PROVE  b \in Row(n) /\ BIT_WORD(b) = i /\ bitmask_test(mask, b)
      <4>1. PICK p \in mask[i] : b = W * i + p
        BY <3>1
      <4>2. i \in Words(n) /\ p \in Positions
        BY <1>1, <2>1
      <4>3. b \in Row(n) /\ BIT_WORD(b) = i /\ BIT_IN_WORD(b) = p
        BY <4>1, <4>2, BitOfPlace
      <4> QED BY <4>3 DEF bitmask_test
    <3>2. ASSUME b \in Row(n), BIT_WORD(b) = i, bitmask_test(mask, b) PROVE b \in In(i)
      <4>1. b = W * i + BIT_IN_WORD(b)
        BY <3>2, PlaceOfBit
      <4>2. BIT_IN_WORD(b) \in mask[i]
        BY <3>2 DEF bitmask_test
      <4> QED BY <4>1, <4>2
    <3> QED BY <3>1, <3>2
  <2>5. ASSUME NEW b \in Row(n)
        PROVE  /\ BIT_WORD(b) = i <=> W * i <= b /\ b < W * (i + 1)
               /\ b \in Int
    <3> DEFINE q == BIT_WORD(b)
               r == BIT_IN_WORD(b)
    <3>1. q \in Nat /\ r \in 0 .. W - 1 /\ b = W * q + r
      BY <1>1, PlaceOfBit
    <3> HIDE DEF q, r, W
    <3>2. q < i => W * q + W <= W * i
      <4>1. q < i => W * (q + 1) <= W * i
        BY <1>1, <3>1
      <4>2. W * (q + 1) = W * q + W
        BY <1>1, <3>1
      <4> QED BY <4>1, <4>2
    <3>3. i < q => W * i + W <= W * q
      <4>1. i < q => W * (i + 1) <= W * q
        BY <1>1, <3>1
      <4> QED BY <2>2, <4>1
    <3>4. W * q \in Nat
      BY <1>1, <3>1
    <3> DEFINE x == W * q
               y == W * i
               z == W * (i + 1)
    <3>5. /\ x \in Nat /\ y \in Nat /\ z = y + W /\ r \in Nat /\ r < W /\ b = x + r
          /\ W \in Nat /\ q \in Nat /\ (q < i => x + W <= y) /\ (i < q => y + W <= x)
          /\ (q = i => x = y)
      BY <1>1, <2>2, <3>1, <3>2, <3>3, <3>4
    <3> HIDE DEF x, y, z
    <3>6. (q = i <=> y <= b /\ b < z) /\ b \in Int
      BY <3>5
    <3> QED BY <3>6 DEF q, y, z
  <2>6. Below(i + 1) = Below(i) \cup In(i) /\ Below(i) \cap In(i) = {}
    <3> HIDE DEF W, In
    <3>1. ASSUME NEW b \in Row(n)
          PROVE  b < W * (i + 1) <=> (b < W * i \/ BIT_WORD(b) = i)
      BY <1>1, <2>2, <2>5
    <3>2. ASSUME NEW b \in Row(n), BIT_WORD(b) = i PROVE ~(b < W * i)
      BY <2>2, <2>5, <3>2
    <3> QED BY <2>4, <3>1, <3>2
  <2> HIDE DEF Below, In, weight, N, W
  <2>7. weight[i + 1] = weight[i] + Cardinality(mask[i])
    BY <1>3, <2>1
  <2>8. /\ IsFiniteSet(Below(i) \cup In(i))
        /\ Cardinality(Below(i) \cup In(i))
             = Cardinality(Below(i)) + Cardinality(In(i)) - Cardinality({})
    BY <2>1, <2>3, <2>6, FS_Union
  <2>9. Cardinality({}) = 0 /\ Cardinality(Below(i)) \in Nat /\ Cardinality(In(i)) \in Nat
    BY <2>1, <2>3, FS_EmptySet, FS_CardinalityType
  <2> QED BY <2>1, <2>3, <2>6, <2>7, <2>8, <2>9
<1>6. N \in S
  <2> HIDE DEF S, N
  <2>1. Nat \subseteq S
    BY <1>4, <1>5, NatSetInduction
  <2> QED BY <1>1, <2>1
<1>7. Below(N) = {b \in 0 .. n - 1 : bitmask_test(mask, b)}
  <2>1. \A b \in Row(n) : b < W * N
    BY <1>2
  <2> QED BY <2>1, BitsInRow
<1>8. bitmask_weight(mask, n) = weight[N]
  BY DEF bitmask_weight
<1> HIDE DEF Below, weight, N
<1>9. weight[N] = Cardinality(Below(N))
  BY <1>1, <1>6
<1> QED BY <1>7, <1>8, <1>9

\* A bitmask is the set of its bits, for any number of bits and words of any
\* size: the first zero, the weight, and what set and clear leave.
THEOREM BitmaskIsASetHolds == Spec => []BitmaskIsASet
<1>1. Answered => BitmaskIsASet
  <2> SUFFICES ASSUME Answered PROVE BitmaskIsASet
    OBVIOUS
  <2>1. ASSUME Returned("bitmask_ffz") \/ Returned("bitmask_weight")
               \/ Returned("bitmask_set") \/ Returned("bitmask_clear")
        PROVE  call.num_bits \in Nat \ {0} /\ call.mask \in Masks(call.num_bits)
    BY <2>1, BitmaskCall, HeaderFunctionsAssumption DEF Answered, Returned
  <2>2. ASSUME Returned("bitmask_set") \/ Returned("bitmask_clear")
        PROVE  call.bit \in 0 .. call.num_bits - 1
    BY <2>2, BitmaskCall DEF Answered, Returned
  <2>3. Returned("bitmask_ffz") =>
          Value = IF Ones(call.mask) = Bits THEN -1 ELSE Min(Bits \ Ones(call.mask))
    BY <2>1, FirstZero DEF Answered, Ones, Bits
  <2>4. Returned("bitmask_weight") => Value = Cardinality(Ones(call.mask))
    BY <2>1, WeightIsSize DEF Answered, Ones, Bits
  <2>5. Returned("bitmask_set") =>
          Value \in Masks(call.num_bits) /\ Ones(Value) = Ones(call.mask) \cup {call.bit}
    BY <2>1, <2>2, SetBit DEF Answered, Ones, Bits
  <2>6. Returned("bitmask_clear") =>
          Value \in Masks(call.num_bits) /\ Ones(Value) = Ones(call.mask) \ {call.bit}
    BY <2>1, <2>2, ClearBit DEF Answered, Ones, Bits
  <2> QED BY <2>3, <2>4, <2>5, <2>6 DEF BitmaskIsASet
<1> QED BY AlwaysAnswered, <1>1, PTL
-----------------------------------------------------------------------------
(* Channels and frames of audio.                                           *)

LEMMA AudioCall ==
  ASSUME call \in Calls,
         call.function \in {"channels", "mask_from_count", "format", "frame_size"}
  PROVE  /\ call.function = "mask_from_count" =>
              call.count \in 0 .. AUDIO_CHANNEL_COUNT_MAX + 2 /\ call.qcom \in BOOLEAN
         /\ call.function = "frame_size" =>
              /\ call.format \in Formats /\ call.qcom \in BOOLEAN
              /\ call.channels \in ChannelMasks
         /\ call.function = "format" => call.format \in Formats /\ call.bigEndian \in BOOLEAN
<1>1. call \in AudioCalls
  BY CallKinds, OtherCalls
<1>2. call.function = "mask_from_count" =>
        call \in [function : {"mask_from_count"}, count : 0 .. AUDIO_CHANNEL_COUNT_MAX + 2,
                  qcom : BOOLEAN]
  BY <1>1 DEF AudioCalls
<1>3. call.function = "frame_size" =>
        call \in [function : {"frame_size"}, format : Formats,
                  channels : ChannelMasks, qcom : BOOLEAN]
  BY <1>1 DEF AudioCalls
<1>4. call.function = "format" =>
        call \in [function : {"format"}, format : Formats, qcom : BOOLEAN, bigEndian : BOOLEAN]
  BY <1>1 DEF AudioCalls
<1> QED BY <1>2, <1>3, <1>4

LEMMA FiniteBits ==
  ASSUME NEW mask
  PROVE  /\ IsFiniteSet(audio_channel_mask_get_bits(mask))
         /\ Cardinality(audio_channel_mask_get_bits(mask)) \in Nat
<1>1. IsFiniteSet(0 .. AUDIO_CHANNEL_COUNT_MAX - 1)
  <2>1. 0 \in Int /\ AUDIO_CHANNEL_COUNT_MAX - 1 \in Int
    BY DEF AUDIO_CHANNEL_COUNT_MAX
  <2> QED BY <2>1, FS_Interval
<1>2. IsFiniteSet(audio_channel_mask_get_bits(mask))
  BY <1>1, FS_Subset DEF audio_channel_mask_get_bits
<1> QED BY <1>2, FS_CardinalityType

\* A count for a direction misses no bit exactly of the masks that are of
\* the direction.
LEMMA CountOfMask ==
  ASSUME NEW mask, NEW all
  PROVE  /\ IsChannel(mask, all) <=>
              /\ audio_channel_mask_is_valid(mask)
              /\ CountFrom(mask, all) = Cardinality(audio_channel_mask_get_bits(mask))
         /\ ~Known(mask) => CountFrom(mask, all) = 0
         /\ Representation(mask) = AUDIO_CHANNEL_REPRESENTATION_INDEX =>
              CountFrom(mask, all) = Cardinality(audio_channel_mask_get_bits(mask))
<1> DEFINE bits == audio_channel_mask_get_bits(mask)
<1>1. IsFiniteSet(bits)
  BY FiniteBits
<1> HIDE DEF bits
<1>2. bits \subseteq all <=> Cardinality(bits \cap all) = Cardinality(bits)
  <2>1. Cardinality(bits) = Cardinality(bits \cap all) => bits = bits \cap all
    BY <1>1, FS_Subset
  <2>2. bits \subseteq all => bits \cap all = bits
    OBVIOUS
  <2> QED BY <2>1, <2>2
<1> USE DEF AUDIO_CHANNEL_REPRESENTATION_POSITION, AUDIO_CHANNEL_REPRESENTATION_INDEX
<1>3. CountFrom(mask, all) = CASE Representation(mask) = {} -> Cardinality(bits \cap all)
                               [] Representation(mask) = {31} -> Cardinality(bits)
                               [] OTHER -> 0
  BY DEF CountFrom, bits
<1>4. IsChannel(mask, all) <=> /\ audio_channel_mask_is_valid(mask)
                               /\ Representation(mask) = {} => bits \subseteq all
  BY DEF IsChannel, bits
<1>5. audio_channel_mask_is_valid(mask) => Representation(mask) \in {{}, {31}}
  BY DEF audio_channel_mask_is_valid, Known
<1>6. CASE Representation(mask) = {}
  <2>1. CountFrom(mask, all) = Cardinality(bits \cap all) /\ Known(mask)
    BY <1>3, <1>6 DEF Known
  <2> QED BY <1>2, <1>4, <1>6, <2>1 DEF bits
<1>7. CASE Representation(mask) = {31}
  <2>1. CountFrom(mask, all) = Cardinality(bits) /\ Known(mask)
    BY <1>3, <1>7 DEF Known
  <2> QED BY <1>4, <1>7, <2>1 DEF bits
<1>8. CASE Representation(mask) \notin {{}, {31}}
  <2>1. CountFrom(mask, all) = 0
    BY <1>3, <1>8
  <2> QED BY <1>4, <1>5, <1>8, <2>1
<1> QED BY <1>6, <1>7, <1>8

LEMMA OneMore ==
  ASSUME NEW S, NEW n \in Nat, IsFiniteSet(S), Cardinality(S) = n, NEW x, x \notin S,
         NEW m, m = n + 1
  PROVE  IsFiniteSet(S \cup {x}) /\ Cardinality(S \cup {x}) = m
BY FS_AddElement

LEMMA IntervalSize ==
  ASSUME NEW a \in Int, NEW b \in Int, NEW n \in Int, a <= b, n = b - a + 1
  PROVE  IsFiniteSet(a .. b) /\ Cardinality(a .. b) = n
BY FS_Interval

\* The masks that the header has for a number of positions.
LEMMA PositionMasks ==
  /\ \A k \in 1 .. 8 :
       /\ OutBits[k] \subseteq AUDIO_CHANNEL_OUT_ALL /\ IsFiniteSet(OutBits[k])
       /\ Cardinality(OutBits[k]) = k
  /\ \A mask \in {AUDIO_CHANNEL_IN_MONO, AUDIO_CHANNEL_IN_STEREO, AUDIO_CHANNEL_IN_5POINT1} :
       mask \subseteq AUDIO_CHANNEL_IN_ALL
  /\ Cardinality(AUDIO_CHANNEL_IN_MONO) = 1 /\ Cardinality(AUDIO_CHANNEL_IN_STEREO) = 2
  /\ Cardinality(AUDIO_CHANNEL_IN_5POINT1) = 6
<1>2. OutBits[1] = 0 .. 0 /\ OutBits[2] = 0 .. 1 /\ OutBits[3] = 0 .. 2 /\ OutBits[6] = 0 .. 5
  BY DEF OutBits, AUDIO_CHANNEL_OUT_MONO, AUDIO_CHANNEL_OUT_STEREO,
         AUDIO_CHANNEL_OUT_FRONT_CENTER, AUDIO_CHANNEL_OUT_5POINT1
<1>3. /\ OutBits[4] = (0 .. 1 \cup {4}) \cup {5} /\ OutBits[5] = (0 .. 2 \cup {4}) \cup {5}
      /\ OutBits[7] = 0 .. 5 \cup {8} /\ OutBits[8] = (0 .. 5 \cup {9}) \cup {10}
  BY DEF OutBits, AUDIO_CHANNEL_OUT_QUAD, AUDIO_CHANNEL_OUT_FRONT_CENTER,
         AUDIO_CHANNEL_OUT_5POINT1, AUDIO_CHANNEL_OUT_BACK_CENTER, AUDIO_CHANNEL_OUT_7POINT1
<1>4. /\ IsFiniteSet(0 .. 0) /\ Cardinality(0 .. 0) = 1
      /\ IsFiniteSet(0 .. 1) /\ Cardinality(0 .. 1) = 2
      /\ IsFiniteSet(0 .. 2) /\ Cardinality(0 .. 2) = 3
      /\ IsFiniteSet(0 .. 5) /\ Cardinality(0 .. 5) = 6
  <2>1. IsFiniteSet(0 .. 0) /\ Cardinality(0 .. 0) = 1
    <3>1. 0 \in Int /\ 0 \in Int /\ 0 <= 0 /\ 1 = 0 - 0 + 1 /\ 1 \in Int
      OBVIOUS
    <3> QED BY <3>1, IntervalSize, Zenon
  <2>2. IsFiniteSet(0 .. 1) /\ Cardinality(0 .. 1) = 2
    <3>1. 0 \in Int /\ 1 \in Int /\ 0 <= 1 /\ 2 = 1 - 0 + 1 /\ 2 \in Int
      OBVIOUS
    <3> QED BY <3>1, IntervalSize, Zenon
  <2>3. IsFiniteSet(0 .. 2) /\ Cardinality(0 .. 2) = 3
    <3>1. 0 \in Int /\ 2 \in Int /\ 0 <= 2 /\ 3 = 2 - 0 + 1 /\ 3 \in Int
      OBVIOUS
    <3> QED BY <3>1, IntervalSize, Zenon
  <2>4. IsFiniteSet(0 .. 5) /\ Cardinality(0 .. 5) = 6
    <3>1. 0 \in Int /\ 5 \in Int /\ 0 <= 5 /\ 6 = 5 - 0 + 1 /\ 6 \in Int
      OBVIOUS
    <3> QED BY <3>1, IntervalSize, Zenon
  <2> QED BY <2>1, <2>2, <2>3, <2>4
<1>5. /\ IsFiniteSet(0 .. 1 \cup {4}) /\ Cardinality(0 .. 1 \cup {4}) = 3
      /\ IsFiniteSet(0 .. 2 \cup {4}) /\ Cardinality(0 .. 2 \cup {4}) = 4
      /\ IsFiniteSet(0 .. 5 \cup {9}) /\ Cardinality(0 .. 5 \cup {9}) = 7
  <2>1. 4 \notin 0 .. 1 /\ 4 \notin 0 .. 2 /\ 9 \notin 0 .. 5
    OBVIOUS
  <2>2. 2 \in Nat /\ 3 \in Nat /\ 6 \in Nat /\ 3 = 2 + 1 /\ 4 = 3 + 1 /\ 7 = 6 + 1
    OBVIOUS
  <2>3. IsFiniteSet(0 .. 1 \cup {4}) /\ Cardinality(0 .. 1 \cup {4}) = 3
    BY <1>4, <2>1, <2>2, OneMore
  <2>4. IsFiniteSet(0 .. 2 \cup {4}) /\ Cardinality(0 .. 2 \cup {4}) = 4
    <3> DEFINE S == 0 .. 2
    <3>1. IsFiniteSet(S) /\ Cardinality(S) = 3 /\ 4 \notin S
      BY <1>4, <2>1
    <3> HIDE DEF S
    <3>2. IsFiniteSet(S \cup {4}) /\ Cardinality(S \cup {4}) = 4
      BY <2>2, <3>1, OneMore
    <3> QED BY <3>2 DEF S
  <2>5. IsFiniteSet(0 .. 5 \cup {9}) /\ Cardinality(0 .. 5 \cup {9}) = 7
    <3> DEFINE S == 0 .. 5
    <3>1. IsFiniteSet(S) /\ Cardinality(S) = 6 /\ 9 \notin S
      BY <1>4, <2>1
    <3> HIDE DEF S
    <3>2. IsFiniteSet(S \cup {9}) /\ Cardinality(S \cup {9}) = 7
      BY <2>2, <3>1, OneMore
    <3> QED BY <3>2 DEF S
  <2> QED BY <2>3, <2>4, <2>5
<1>6. /\ IsFiniteSet(OutBits[4]) /\ Cardinality(OutBits[4]) = 4
      /\ IsFiniteSet(OutBits[5]) /\ Cardinality(OutBits[5]) = 5
      /\ IsFiniteSet(OutBits[7]) /\ Cardinality(OutBits[7]) = 7
      /\ IsFiniteSet(OutBits[8]) /\ Cardinality(OutBits[8]) = 8
  <2>1. 5 \notin 0 .. 1 \cup {4} /\ 5 \notin 0 .. 2 \cup {4} /\ 8 \notin 0 .. 5
        /\ 10 \notin 0 .. 5 \cup {9}
    OBVIOUS
  <2>2. /\ 3 \in Nat /\ 4 \in Nat /\ 6 \in Nat /\ 7 \in Nat
        /\ 4 = 3 + 1 /\ 5 = 4 + 1 /\ 7 = 6 + 1 /\ 8 = 7 + 1
    OBVIOUS
  <2>3. IsFiniteSet(OutBits[4]) /\ Cardinality(OutBits[4]) = 4
    <3> DEFINE S == 0 .. 1 \cup {4}
    <3>1. IsFiniteSet(S) /\ Cardinality(S) = 3 /\ 5 \notin S
      BY <1>5, <2>1
    <3> HIDE DEF S
    <3>2. IsFiniteSet(S \cup {5}) /\ Cardinality(S \cup {5}) = 4
      BY <2>2, <3>1, OneMore
    <3> QED BY <1>3, <3>2 DEF S
  <2>4. IsFiniteSet(OutBits[5]) /\ Cardinality(OutBits[5]) = 5
    <3> DEFINE S == 0 .. 2 \cup {4}
    <3>1. IsFiniteSet(S) /\ Cardinality(S) = 4 /\ 5 \notin S
      BY <1>5, <2>1
    <3> HIDE DEF S
    <3>2. IsFiniteSet(S \cup {5}) /\ Cardinality(S \cup {5}) = 5
      BY <2>2, <3>1, OneMore
    <3> QED BY <1>3, <3>2 DEF S
  <2>5. IsFiniteSet(OutBits[7]) /\ Cardinality(OutBits[7]) = 7
    <3> DEFINE S == 0 .. 5
    <3>1. IsFiniteSet(S) /\ Cardinality(S) = 6 /\ 8 \notin S
      BY <1>4, <2>1
    <3> HIDE DEF S
    <3>2. IsFiniteSet(S \cup {8}) /\ Cardinality(S \cup {8}) = 7
      BY <2>2, <3>1, OneMore
    <3> QED BY <1>3, <3>2 DEF S
  <2>6. IsFiniteSet(OutBits[8]) /\ Cardinality(OutBits[8]) = 8
    <3> DEFINE S == 0 .. 5 \cup {9}
    <3>1. IsFiniteSet(S) /\ Cardinality(S) = 7 /\ 10 \notin S
      BY <1>5, <2>1
    <3> HIDE DEF S
    <3>2. IsFiniteSet(S \cup {10}) /\ Cardinality(S \cup {10}) = 8
      BY <2>2, <3>1, OneMore
    <3> QED BY <1>3, <3>2 DEF S
  <2> QED BY <2>3, <2>4, <2>5, <2>6
<1>7. \A k \in 1 .. 8 : IsFiniteSet(OutBits[k]) /\ Cardinality(OutBits[k]) = k
  <2>1. \A k \in 1 .. 8 : k = 1 \/ k = 2 \/ k = 3 \/ k = 4 \/ k = 5 \/ k = 6 \/ k = 7 \/ k = 8
    OBVIOUS
  <2> QED BY <1>2, <1>4, <1>6, <2>1
<1>8. \A k \in 1 .. 8 : OutBits[k] \subseteq AUDIO_CHANNEL_OUT_ALL
  <2>1. \A k \in 1 .. 8 : k = 1 \/ k = 2 \/ k = 3 \/ k = 4 \/ k = 5 \/ k = 6 \/ k = 7 \/ k = 8
    OBVIOUS
  <2>2. /\ 0 .. 0 \subseteq 0 .. 17 /\ 0 .. 1 \subseteq 0 .. 17 /\ 0 .. 2 \subseteq 0 .. 17
        /\ 0 .. 5 \subseteq 0 .. 17 /\ {4, 5, 8, 9, 10} \subseteq 0 .. 17
    OBVIOUS
  <2> QED BY <1>2, <1>3, <2>1, <2>2 DEF AUDIO_CHANNEL_OUT_ALL
<1>9. /\ AUDIO_CHANNEL_IN_MONO = 4 .. 4 /\ AUDIO_CHANNEL_IN_STEREO = 2 .. 3
      /\ AUDIO_CHANNEL_IN_5POINT1 = 2 .. 7
  BY DEF AUDIO_CHANNEL_IN_MONO, AUDIO_CHANNEL_IN_STEREO, AUDIO_CHANNEL_IN_5POINT1
<1>10. Cardinality(4 .. 4) = 1 /\ Cardinality(2 .. 3) = 2 /\ Cardinality(2 .. 7) = 6
  <2>1. IsFiniteSet(4 .. 4) /\ Cardinality(4 .. 4) = 1
    <3>1. 4 \in Int /\ 4 \in Int /\ 4 <= 4 /\ 1 = 4 - 4 + 1 /\ 1 \in Int
      OBVIOUS
    <3> QED BY <3>1, IntervalSize, Zenon
  <2>2. IsFiniteSet(2 .. 3) /\ Cardinality(2 .. 3) = 2
    <3>1. 2 \in Int /\ 3 \in Int /\ 2 <= 3 /\ 2 = 3 - 2 + 1 /\ 2 \in Int
      OBVIOUS
    <3> QED BY <3>1, IntervalSize, Zenon
  <2>3. IsFiniteSet(2 .. 7) /\ Cardinality(2 .. 7) = 6
    <3>1. 2 \in Int /\ 7 \in Int /\ 2 <= 7 /\ 6 = 7 - 2 + 1 /\ 6 \in Int
      OBVIOUS
    <3> QED BY <3>1, IntervalSize, Zenon
  <2> QED BY <2>1, <2>2, <2>3
<1>11. 4 .. 4 \subseteq 2 .. 15 /\ 2 .. 3 \subseteq 2 .. 15 /\ 2 .. 7 \subseteq 2 .. 15
  OBVIOUS
<1> QED BY <1>7, <1>8, <1>9, <1>10, <1>11 DEF AUDIO_CHANNEL_IN_ALL

\* A mask of positions of the direction has as many channels as bits.
LEMMA CountOfPositions ==
  ASSUME NEW all, NEW mask \in SUBSET all, mask \subseteq 0 .. 29
  PROVE  /\ CountFrom(mask, all) = Cardinality(mask)
         /\ audio_channel_mask_is_valid(mask) <=> mask # {}
<1>1. audio_channel_mask_get_bits(mask) = mask /\ Representation(mask) = {}
  <2>1. AUDIO_CHANNEL_COUNT_MAX - 1 = 29
    BY DEF AUDIO_CHANNEL_COUNT_MAX
  <2> QED BY <2>1 DEF audio_channel_mask_get_bits, Representation,
                      audio_channel_mask_get_representation
<1>2. mask \cap all = mask
  OBVIOUS
<1> QED BY <1>1, <1>2 DEF CountFrom, audio_channel_mask_is_valid, Known,
              AUDIO_CHANNEL_REPRESENTATION_POSITION

LEMMA InvalidMask ==
  /\ ~audio_channel_mask_is_valid(AUDIO_CHANNEL_INVALID)
<1>1. 31 \in AUDIO_CHANNEL_INVALID /\ 30 \in AUDIO_CHANNEL_INVALID
  BY DEF AUDIO_CHANNEL_INVALID
<1>2. 30 \notin 0 .. AUDIO_CHANNEL_COUNT_MAX - 1
  BY DEF AUDIO_CHANNEL_COUNT_MAX
<1>3. 30 \in Representation(AUDIO_CHANNEL_INVALID)
  BY <1>1, <1>2 DEF Representation, audio_channel_mask_get_representation
<1> QED BY <1>3 DEF audio_channel_mask_is_valid, Known, AUDIO_CHANNEL_REPRESENTATION_POSITION,
              AUDIO_CHANNEL_REPRESENTATION_INDEX

LEMMA NoChannels ==
  ASSUME NEW all
  PROVE  CountFrom(AUDIO_CHANNEL_NONE, all) = 0 /\ ~audio_channel_mask_is_valid(AUDIO_CHANNEL_NONE)
BY CountOfPositions, FS_EmptySet DEF AUDIO_CHANNEL_NONE

LEMMA OutMaskFromCount ==
  ASSUME NEW k \in 0 .. 32
  PROVE  LET mask == audio_channel_out_mask_from_count(k)
         IN  IF k \in 1 .. 8 \cup {0}
               THEN /\ audio_channel_count_from_out_mask(mask) = k
                    /\ audio_channel_mask_is_valid(mask) <=> k > 0
               ELSE mask = AUDIO_CHANNEL_INVALID /\ ~audio_channel_mask_is_valid(mask)
<1> DEFINE mask == audio_channel_out_mask_from_count(k)
<1>1. CASE k = 0
  <2>1. DOMAIN OutBits = 1 .. 8
    BY DEF OutBits
  <2>2. mask = AUDIO_CHANNEL_NONE
    BY <1>1, <2>1 DEF audio_channel_out_mask_from_count
  <2> HIDE DEF mask
  <2> QED BY <1>1, <2>2, NoChannels DEF mask, audio_channel_count_from_out_mask
<1>2. CASE k \in 1 .. 8
  <2>1. DOMAIN OutBits = 1 .. 8
    BY DEF OutBits
  <2>2. mask = OutBits[k]
    BY <1>2, <2>1 DEF audio_channel_out_mask_from_count,
       audio_channel_mask_from_representation_and_bits, AUDIO_CHANNEL_REPRESENTATION_POSITION
  <2>3. /\ OutBits[k] \subseteq AUDIO_CHANNEL_OUT_ALL /\ IsFiniteSet(OutBits[k])
        /\ Cardinality(OutBits[k]) = k
    BY <1>2, PositionMasks
  <2> HIDE DEF mask
  <2>4. mask \in SUBSET AUDIO_CHANNEL_OUT_ALL /\ mask \subseteq 0 .. 29
    BY <2>2, <2>3 DEF AUDIO_CHANNEL_OUT_ALL
  <2>5. mask # {}
    BY <1>2, <2>2, <2>3, FS_EmptySet
  <2>6. CountFrom(mask, AUDIO_CHANNEL_OUT_ALL) = k /\ audio_channel_mask_is_valid(mask)
    BY <2>2, <2>3, <2>4, <2>5, CountOfPositions
  <2> QED BY <1>2, <2>6 DEF mask, audio_channel_count_from_out_mask
<1>3. CASE k \notin 1 .. 8 \cup {0}
  <2>1. k # 0 /\ k \notin DOMAIN OutBits
    BY <1>3 DEF OutBits
  <2>2. mask = AUDIO_CHANNEL_INVALID
    BY <2>1 DEF audio_channel_out_mask_from_count
  <2> HIDE DEF mask
  <2> QED BY <1>3, <2>2, InvalidMask DEF mask
<1> QED BY <1>1, <1>2, <1>3

LEMMA InMaskFromCount ==
  ASSUME NEW k \in 0 .. 32, NEW qcom \in BOOLEAN
  PROVE  LET mask == audio_channel_in_mask_from_count(k, qcom)
         IN  IF k \in ({1, 2} \cup (IF qcom THEN {6} ELSE {})) \cup {0}
               THEN /\ audio_channel_count_from_in_mask(mask) = k
                    /\ audio_channel_mask_is_valid(mask) <=> k > 0
               ELSE mask = AUDIO_CHANNEL_INVALID /\ ~audio_channel_mask_is_valid(mask)
<1> DEFINE mask == audio_channel_in_mask_from_count(k, qcom)
<1> USE DEF audio_channel_mask_from_representation_and_bits, AUDIO_CHANNEL_REPRESENTATION_POSITION
<1>1. CASE k = 0
  BY <1>1, NoChannels DEF audio_channel_in_mask_from_count, audio_channel_count_from_in_mask
<1>2. ASSUME NEW bits \in {AUDIO_CHANNEL_IN_MONO, AUDIO_CHANNEL_IN_STEREO,
                           AUDIO_CHANNEL_IN_5POINT1},
             Cardinality(bits) = k, k # 0
      PROVE  CountFrom(bits, AUDIO_CHANNEL_IN_ALL) = k /\ audio_channel_mask_is_valid(bits)
  <2>1. bits \in SUBSET AUDIO_CHANNEL_IN_ALL
    BY PositionMasks
  <2>2. bits \subseteq 0 .. 29
    BY <2>1 DEF AUDIO_CHANNEL_IN_ALL
  <2>3. bits # {}
    BY <1>2, FS_EmptySet
  <2> QED BY <1>2, <2>1, <2>2, <2>3, CountOfPositions
<1>3. CASE k = 1
  <2>1. mask = AUDIO_CHANNEL_IN_MONO
    BY <1>3 DEF audio_channel_in_mask_from_count
  <2> HIDE DEF mask
  <2> QED BY <1>2, <1>3, <2>1, PositionMasks DEF mask, audio_channel_count_from_in_mask
<1>4. CASE k = 2
  <2>1. mask = AUDIO_CHANNEL_IN_STEREO
    BY <1>4 DEF audio_channel_in_mask_from_count
  <2> HIDE DEF mask
  <2> QED BY <1>2, <1>4, <2>1, PositionMasks DEF mask, audio_channel_count_from_in_mask
<1>5. CASE k = 6 /\ qcom
  <2>1. mask = AUDIO_CHANNEL_IN_5POINT1
    BY <1>5 DEF audio_channel_in_mask_from_count
  <2> HIDE DEF mask
  <2>2. CountFrom(mask, AUDIO_CHANNEL_IN_ALL) = k /\ audio_channel_mask_is_valid(mask)
    BY <1>2, <1>5, <2>1, PositionMasks
  <2>3. k \in ({1, 2} \cup (IF qcom THEN {6} ELSE {})) \cup {0}
    BY <1>5
  <2>4. k > 0 /\ audio_channel_count_from_in_mask(mask) = k
    BY <1>5, <2>2 DEF audio_channel_count_from_in_mask
  <2> QED BY <2>2, <2>3, <2>4 DEF mask
<1>6. CASE k \notin {0, 1, 2} /\ ~(k = 6 /\ qcom)
  <2>1. mask = AUDIO_CHANNEL_INVALID
    BY <1>6 DEF audio_channel_in_mask_from_count
  <2> HIDE DEF mask
  <2> QED BY <1>6, <2>1, InvalidMask DEF mask
<1> QED BY <1>1, <1>3, <1>4, <1>5, <1>6

LEMMA IndexMaskFromCount ==
  ASSUME NEW k \in 0 .. 32, NEW all
  PROVE  LET mask == audio_channel_mask_for_index_assignment_from_count(k)
         IN  IF k \in 1 .. 30 \cup {0}
               THEN /\ CountFrom(mask, all) = k
                    /\ audio_channel_mask_is_valid(mask) <=> k > 0
               ELSE mask = AUDIO_CHANNEL_INVALID /\ ~audio_channel_mask_is_valid(mask)
<1> DEFINE mask == audio_channel_mask_for_index_assignment_from_count(k)
<1> USE DEF AUDIO_CHANNEL_COUNT_MAX
<1>1. CASE k = 0
  BY <1>1, NoChannels DEF audio_channel_mask_for_index_assignment_from_count
<1>2. CASE k \in 1 .. 30
  <2>1. mask = {31} \cup 0 .. k - 1
    BY <1>2 DEF audio_channel_mask_for_index_assignment_from_count,
       audio_channel_mask_from_representation_and_bits, AUDIO_CHANNEL_REPRESENTATION_INDEX
  <2> HIDE DEF mask
  <2>2. audio_channel_mask_get_bits(mask) = 0 .. k - 1
    BY <1>2, <2>1 DEF audio_channel_mask_get_bits
  <2>3. Representation(mask) = {31}
    BY <1>2, <2>1 DEF Representation, audio_channel_mask_get_representation
  <2>4. CountFrom(mask, all) = Cardinality(0 .. k - 1)
    BY <2>2, <2>3, CountOfMask DEF AUDIO_CHANNEL_REPRESENTATION_INDEX
  <2>5. Cardinality(0 .. k - 1) = k
    BY <1>2, IntervalSize
  <2>6. audio_channel_mask_is_valid(mask)
    BY <1>2, <2>2, <2>3 DEF audio_channel_mask_is_valid, Known, AUDIO_CHANNEL_REPRESENTATION_INDEX
  <2> QED BY <1>2, <2>4, <2>5, <2>6 DEF mask
<1>3. CASE k \notin 1 .. 30 \cup {0}
  <2>1. mask = AUDIO_CHANNEL_INVALID
    BY <1>3 DEF audio_channel_mask_for_index_assignment_from_count
  <2> HIDE DEF mask
  <2> QED BY <1>3, <2>1, InvalidMask DEF mask
<1> QED BY <1>1, <1>2, <1>3

\* A mask belongs to a direction exactly if the count misses none of its
\* bits, for any set of channels; and masks made for a number have it.
THEOREM ChannelsCountedHolds == Spec => []ChannelsCounted
<1>1. ASSUME Answered, Returned("channels")
      PROVE  LET bits == Cardinality(audio_channel_mask_get_bits(call.mask))
             IN  /\ Value.isIn <=> Value.valid /\ Value.countIn = bits
                 /\ Value.isOut <=> Value.valid /\ Value.countOut = bits
                 /\ ~Known(call.mask) => Value.countIn = 0 /\ Value.countOut = 0
  <2>1. /\ Value.valid = audio_channel_mask_is_valid(call.mask)
        /\ Value.isIn = IsChannel(call.mask, AUDIO_CHANNEL_IN_ALL)
        /\ Value.isOut = IsChannel(call.mask, AUDIO_CHANNEL_OUT_ALL)
        /\ Value.countIn = CountFrom(call.mask, AUDIO_CHANNEL_IN_ALL)
        /\ Value.countOut = CountFrom(call.mask, AUDIO_CHANNEL_OUT_ALL)
    BY <1>1 DEF Answered, Channels, audio_is_input_channel, audio_is_output_channel,
       audio_channel_count_from_in_mask, audio_channel_count_from_out_mask
  <2> QED BY <2>1, CountOfMask
<1>2. ASSUME Answered, Returned("mask_from_count")
      PROVE  LET inCounts == {1, 2} \cup (IF call.qcom THEN {6} ELSE {})
                 Right(mask, count, counts) ==
                   IF call.count \in counts \cup {0}
                     THEN /\ count = call.count
                          /\ audio_channel_mask_is_valid(mask) <=> count > 0
                     ELSE mask = AUDIO_CHANNEL_INVALID /\ ~audio_channel_mask_is_valid(mask)
             IN  /\ Right(Value.out, audio_channel_count_from_out_mask(Value.out), 1 .. 8)
                 /\ Right(Value.in, audio_channel_count_from_in_mask(Value.in), inCounts)
                 /\ Right(Value.index, audio_channel_count_from_in_mask(Value.index), 1 .. 30)
                 /\ Right(Value.index, audio_channel_count_from_out_mask(Value.index), 1 .. 30)
  <2>1. /\ Value.out = audio_channel_out_mask_from_count(call.count)
        /\ Value.in = audio_channel_in_mask_from_count(call.count, call.qcom)
        /\ Value.index = audio_channel_mask_for_index_assignment_from_count(call.count)
    BY <1>2 DEF Answered, MasksFromCount
  <2>2. call.count \in 0 .. 32 /\ call.qcom \in BOOLEAN
    BY <1>2, AudioCall DEF Answered, Returned, AUDIO_CHANNEL_COUNT_MAX
  <2> DEFINE k == call.count
             q == call.qcom
  <2> HIDE DEF k, q
  <2>3. IF k \in 1 .. 8 \cup {0}
          THEN /\ audio_channel_count_from_out_mask(Value.out) = k
               /\ audio_channel_mask_is_valid(Value.out) <=> k > 0
          ELSE Value.out = AUDIO_CHANNEL_INVALID /\ ~audio_channel_mask_is_valid(Value.out)
    BY <2>1, <2>2, OutMaskFromCount DEF k
  <2>4. IF k \in ({1, 2} \cup (IF q THEN {6} ELSE {})) \cup {0}
          THEN /\ audio_channel_count_from_in_mask(Value.in) = k
               /\ audio_channel_mask_is_valid(Value.in) <=> k > 0
          ELSE Value.in = AUDIO_CHANNEL_INVALID /\ ~audio_channel_mask_is_valid(Value.in)
    BY <2>1, <2>2, InMaskFromCount DEF k, q
  <2>5. ASSUME NEW all
        PROVE  IF k \in 1 .. 30 \cup {0}
                 THEN /\ CountFrom(Value.index, all) = k
                      /\ audio_channel_mask_is_valid(Value.index) <=> k > 0
                 ELSE /\ Value.index = AUDIO_CHANNEL_INVALID
                      /\ ~audio_channel_mask_is_valid(Value.index)
    BY <2>1, <2>2, IndexMaskFromCount DEF k
  <2>6. IF k \in 1 .. 30 \cup {0}
          THEN /\ audio_channel_count_from_in_mask(Value.index) = k
               /\ audio_channel_count_from_out_mask(Value.index) = k
               /\ audio_channel_mask_is_valid(Value.index) <=> k > 0
          ELSE Value.index = AUDIO_CHANNEL_INVALID /\ ~audio_channel_mask_is_valid(Value.index)
    BY <2>5 DEF audio_channel_count_from_in_mask, audio_channel_count_from_out_mask
  <2> QED BY <2>3, <2>4, <2>6 DEF k, q
<1>3. Answered => ChannelsCounted
  BY <1>1, <1>2 DEF ChannelsCounted
<1> QED BY AlwaysAnswered, <1>3, PTL

\* Of a mask, the bits and the representation are all there is.
LEMMA BitsAndRepresentation ==
  ASSUME NEW mask \in ChannelMasks
  PROVE  /\ Cardinality(Representation(mask)) \in Nat
         /\ Cardinality(mask) = Cardinality(audio_channel_mask_get_bits(mask))
                                  + Cardinality(Representation(mask))
<1> DEFINE bits == audio_channel_mask_get_bits(mask)
           rep == Representation(mask)
<1>1. mask = bits \cup rep /\ bits \cap rep = {}
  BY DEF audio_channel_mask_get_bits, Representation, audio_channel_mask_get_representation
<1>2. IsFiniteSet(bits) /\ Cardinality(bits) \in Nat
  BY FiniteBits
<1>3. IsFiniteSet(rep)
  <2>1. mask \subseteq ChannelBits \cup {30, 31}
    BY DEF ChannelMasks
  <2>2. ChannelBits \subseteq 0 .. AUDIO_CHANNEL_COUNT_MAX - 1
    BY HeaderFunctionsAssumption
  <2>3. rep \subseteq {30, 31}
    BY <2>1, <2>2 DEF Representation, audio_channel_mask_get_representation
  <2>4. IsFiniteSet({30} \cup {31}) /\ {30} \cup {31} = {30, 31}
    <3>1. IsFiniteSet({30}) /\ IsFiniteSet({31})
      BY FS_Singleton
    <3>2. IsFiniteSet({30} \cup {31})
      BY <3>1, FS_Union
    <3> QED BY <3>2
  <2>5. IsFiniteSet({30, 31})
    BY <2>4
  <2> HIDE DEF rep
  <2> QED BY <2>3, <2>5, FS_Subset, Zenon
<1> HIDE DEF bits, rep
<1>4. Cardinality(rep) \in Nat
  BY <1>3, FS_CardinalityType
<1>5. Cardinality(bits \cup rep) = Cardinality(bits) + Cardinality(rep) - Cardinality({})
  BY <1>1, <1>2, <1>3, FS_Union
<1>6. Cardinality({}) = 0
  BY FS_EmptySet
<1>7. Cardinality(mask) = Cardinality(bits) + Cardinality(rep)
  BY <1>1, <1>2, <1>4, <1>5, <1>6
<1> QED BY <1>4, <1>7 DEF bits, rep

\* The sizes of frames for every format and every mask, of a representation
\* that is known or reserved: the two functions for outputs and for inputs
\* count the channels, and the deprecated one is off by the representation's
\* bits, except that it says 1 for 8_24.
THEOREM FrameSizesAgreeHolds == Spec => []FrameSizesAgree
<1>1. Answered => FrameSizesAgree
  <2> SUFFICES ASSUME Answered, Returned("frame_size") PROVE FrameSizesAgree
    BY DEF FrameSizesAgree
  <2> DEFINE f == call.format
             c == call.channels
             q == call.qcom
             bits == Cardinality(audio_channel_mask_get_bits(c))
             rep == Cardinality(Representation(c))
             size == audio_bytes_per_sample(f, q)
             width == WidthInBits[f.sub] \div 8
  <2>1. f \in Formats /\ c \in ChannelMasks
    BY AudioCall DEF Answered, Returned
  <2>2. /\ Value.out = FrameSize(f, c, AUDIO_CHANNEL_OUT_ALL, q)
        /\ Value.in = FrameSize(f, c, AUDIO_CHANNEL_IN_ALL, q)
        /\ Value.deprecated = audio_stream_frame_size(f, c, q)
    BY DEF Answered, Frame, audio_stream_out_frame_size, audio_stream_in_frame_size
  <2> HIDE DEF f, c, q
  <2>3. CASE ~audio_is_linear_pcm(f)
    <3>1. Value.out = 1 /\ Value.in = 1 /\ Value.deprecated = 1
      BY <2>2, <2>3 DEF FrameSize, audio_stream_frame_size
    <3> QED BY <2>3, <3>1 DEF FrameSizesAgree, f
  <2>4. CASE audio_is_linear_pcm(f) /\ ~audio_is_valid_format(f, q)
    BY <2>4 DEF FrameSizesAgree, f, q
  <2>5. CASE audio_is_linear_pcm(f) /\ audio_is_valid_format(f, q)
    <3>1. f.main = "PCM" /\ f.sub \in 1 .. 6
      BY <2>5 DEF audio_is_linear_pcm, audio_is_valid_format, Codecs, QcomCodecs, SUB_16_BIT,
         SUB_24_BIT_PACKED
    <3>2. size = width /\ width \in Nat
      <4>1. size = PcmBytes[f.sub]
        BY <3>1 DEF audio_bytes_per_sample, PcmBytes
      <4>2. ASSUME NEW k \in 1 .. 6
            PROVE  PcmBytes[k] = WidthInBits[k] \div 8 /\ PcmBytes[k] \in Nat
        <5>1. k = 1 \/ k = 2 \/ k = 3 \/ k = 4 \/ k = 5 \/ k = 6
          OBVIOUS
        <5>2. 16 \div 8 = 2 /\ 8 \div 8 = 1 /\ 32 \div 8 = 4 /\ 24 \div 8 = 3
          OBVIOUS
        <5> QED BY <5>1, <5>2 DEF PcmBytes, WidthInBits
      <4> QED BY <3>1, <4>1, <4>2
    <3>3. bits \in Nat /\ rep \in Nat /\ Cardinality(c) = bits + rep
      BY <2>1, FiniteBits, BitsAndRepresentation
    <3>4. /\ Value.out = CountFrom(c, AUDIO_CHANNEL_OUT_ALL) * size
          /\ Value.in = CountFrom(c, AUDIO_CHANNEL_IN_ALL) * size
      BY <2>2, <2>5 DEF FrameSize
    <3>5. Value.deprecated = IF f.sub = SUB_8_24_BIT THEN 1 ELSE Cardinality(c) * size
      BY <2>1, <2>2, <2>5, <3>1 DEF audio_stream_frame_size, AUDIO_FORMAT_PCM_8_24_BIT, Formats
    <3> HIDE DEF bits, rep, size, width
    <3>6. audio_is_output_channel(c) => Value.out = bits * width
      BY <3>2, <3>4, CountOfMask DEF audio_is_output_channel, bits
    <3>7. audio_is_input_channel(c) => Value.in = bits * width
      BY <3>2, <3>4, CountOfMask DEF audio_is_input_channel, bits
    <3>8. (bits + rep) * width = bits * width + rep * width
      BY <3>2, <3>3
    <3>9. Value.deprecated = IF f.sub = SUB_8_24_BIT THEN 1 ELSE bits * width + rep * width
      BY <3>2, <3>3, <3>5, <3>8
    <3>10. ~Known(c) => Value.out = 0 /\ Value.in = 0
      BY <3>2, <3>4
         DEF CountFrom, Known, AUDIO_CHANNEL_REPRESENTATION_POSITION,
             AUDIO_CHANNEL_REPRESENTATION_INDEX
    <3> QED BY <2>5, <3>6, <3>7, <3>9, <3>10 DEF FrameSizesAgree, f, c, q, bits, rep, width
  <2> QED BY <2>3, <2>4, <2>5
<1> QED BY AlwaysAnswered, <1>1, PTL

LEMMA FormatComesBack ==
  ASSUME NEW f \in Formats, Convertible(f), NEW bigEndian \in BOOLEAN
  PROVE  audio_format_from_pcm_format(pcm_format_from_audio_format(f, bigEndian), bigEndian) = f
<1> DEFINE pcm == pcm_format_from_audio_format(f, bigEndian)
           known == {k \in DOMAIN Converted : PcmFormats(bigEndian)[k] = pcm}
<1>1. DOMAIN Converted = 1 .. 4 /\ \A j, k \in 1 .. 4 : Converted[j] = Converted[k] => j = k
  BY DEF Converted, SUB_16_BIT, SUB_24_BIT_PACKED, SUB_32_BIT, SUB_8_24_BIT
<1>2. \A j, k \in 1 .. 4 : PcmFormats(bigEndian)[j] = PcmFormats(bigEndian)[k] => j = k
  <2>1. CASE bigEndian
    <3>1. PcmFormats(bigEndian) = <<"S16_BE", "S24_3BE", "S32_BE", "S24_BE">>
      BY <2>1 DEF PcmFormats
    <3> QED BY <3>1
  <2>2. CASE ~bigEndian
    <3>1. PcmFormats(bigEndian) = <<"S16_LE", "S24_3LE", "S32_LE", "S24_LE">>
      BY <2>2 DEF PcmFormats
    <3> QED BY <3>1
  <2> QED BY <2>1, <2>2
<1>3. PICK k \in 1 .. 4 : Converted[k] = f.sub
  BY <1>1 DEF Convertible
<1>4. f = [main |-> "PCM", sub |-> Converted[k]]
  BY <1>3 DEF Convertible, Formats
<1>5. pcm = PcmFormats(bigEndian)[k]
  <2>1. (CHOOSE j \in DOMAIN Converted : Converted[j] = f.sub) = k
    BY <1>1, <1>3
  <2> QED BY <2>1 DEF pcm_format_from_audio_format
<1> HIDE DEF pcm
<1>6. known = {k}
  BY <1>1, <1>2, <1>5
<1>7. (CHOOSE j \in known : TRUE) = k /\ known # {}
  <2> HIDE DEF known
  <2> QED BY <1>6
<1>8. audio_format_from_pcm_format(pcm, bigEndian)
        = IF known = {} THEN AUDIO_FORMAT_DEFAULT
          ELSE [main |-> "PCM", sub |-> Converted[CHOOSE j \in known : TRUE]]
  BY DEF audio_format_from_pcm_format
<1> HIDE DEF known
<1> QED BY <1>4, <1>7, <1>8 DEF pcm

\* The answers about a format fit together.
THEOREM FormatsAgreeHolds == Spec => []FormatsAgree
<1>1. Answered => FormatsAgree
  <2> SUFFICES ASSUME Answered, Returned("format") PROVE FormatsAgree
    BY DEF FormatsAgree
  <2> DEFINE f == call.format
             q == call.qcom
             e == call.bigEndian
  <2>1. f \in Formats /\ e \in BOOLEAN
    BY AudioCall DEF Answered, Returned
  <2>2. /\ Value.valid = audio_is_valid_format(f, q) /\ Value.linear = audio_is_linear_pcm(f)
        /\ Value.offload = audio_is_offload_pcm(f, q)
        /\ Value.capture = audio_is_compress_capture_format(f, q)
        /\ Value.voip = audio_is_compress_voip_format(f, q)
        /\ Value.back = audio_format_from_pcm_format(pcm_format_from_audio_format(f, e), e)
    BY DEF Answered, Description
  <2> HIDE DEF f, q, e
  <2>3. audio_is_compress_capture_format(f, q) => audio_is_compress_voip_format(f, q)
    BY DEF audio_is_compress_capture_format, audio_is_compress_voip_format, Speech
  <2>4. audio_is_compress_voip_format(f, q) =>
          audio_is_valid_format(f, q) /\ ~audio_is_linear_pcm(f) /\ ~audio_is_offload_pcm(f, q)
    <3>1. Speech \subseteq Codecs \cup QcomCodecs
      BY DEF Speech, Codecs, QcomCodecs
    <3>2. "PCM" \notin Speech /\ "PCM_OFFLOAD" \notin Speech
      BY DEF Speech
    <3> QED BY <3>1, <3>2 DEF audio_is_compress_voip_format, audio_is_valid_format,
                  audio_is_linear_pcm, audio_is_offload_pcm
  <2>5. ~(audio_is_linear_pcm(f) /\ audio_is_offload_pcm(f, q))
    BY DEF audio_is_linear_pcm, audio_is_offload_pcm
  <2>6. Convertible(f) => audio_is_valid_format(f, q)
    BY DEF Convertible, Converted, audio_is_valid_format, SUB_16_BIT, SUB_24_BIT_PACKED,
       SUB_32_BIT, SUB_8_24_BIT
  <2>7. Convertible(f) => Value.back = f
    BY <2>1, <2>2, FormatComesBack
  <2> QED BY <2>2, <2>3, <2>4, <2>5, <2>6, <2>7 DEF FormatsAgree, f
<1> QED BY AlwaysAnswered, <1>1, PTL
-----------------------------------------------------------------------------
(* The keys and the sectors of Mifare cards.                               *)

\* The five attempts, one by one.
LEMMA AttemptsDef ==
  ASSUME NEW s1, NEW block
  PROVE  LET s2 == NXT_AUTH_STATE(s1, block)
             s3 == NXT_AUTH_STATE(s2, block)
             s4 == NXT_AUTH_STATE(s3, block)
             s5 == NXT_AUTH_STATE(s4, block)
         IN  Attempts(s1, block)
               = {SendBuf(s1), SendBuf(s2), SendBuf(s3), SendBuf(s4), SendBuf(s5)}
<1> DEFINE s2 == NXT_AUTH_STATE(s1, block)
           s3 == NXT_AUTH_STATE(s2, block)
           s4 == NXT_AUTH_STATE(s3, block)
           s5 == NXT_AUTH_STATE(s4, block)
           IsState(f) == f = [n \in 1 .. 5 |-> IF n = 1 THEN s1
                                               ELSE NXT_AUTH_STATE(f[n - 1], block)]
           state == CHOOSE f : IsState(f)
           five == [n \in 1 .. 5 |-> IF n = 1 THEN s1 ELSE IF n = 2 THEN s2
                                     ELSE IF n = 3 THEN s3 ELSE IF n = 4 THEN s4 ELSE s5]
<1>1. five[1] = s1 /\ five[2] = s2 /\ five[3] = s3 /\ five[4] = s4 /\ five[5] = s5
  <2> HIDE DEF s2, s3, s4, s5
  <2> QED OBVIOUS
<1>2. IsState(five)
  <2>1. ASSUME NEW n \in 1 .. 5
        PROVE  five[n] = IF n = 1 THEN s1 ELSE NXT_AUTH_STATE(five[n - 1], block)
    <3>1. n = 1 \/ n = 2 \/ n = 3 \/ n = 4 \/ n = 5
      OBVIOUS
    <3>2. 2 - 1 = 1 /\ 3 - 1 = 2 /\ 4 - 1 = 3 /\ 5 - 1 = 4
      OBVIOUS
    <3> HIDE DEF five
    <3> QED BY <1>1, <3>1, <3>2, Zenon
  <2>2. five = [n \in 1 .. 5 |-> five[n]]
    OBVIOUS
  <2> HIDE DEF five
  <2> QED BY <2>1, <2>2, Zenon
<1>3. IsState(state)
  <2> HIDE DEF IsState, five
  <2> QED BY <1>2, Zenon
<1>4. state[1] = s1 /\ \A n \in 2 .. 5 : state[n] = NXT_AUTH_STATE(state[n - 1], block)
  <2>1. ASSUME NEW n \in 1 .. 5
        PROVE  state[n] = IF n = 1 THEN s1 ELSE NXT_AUTH_STATE(state[n - 1], block)
    <3> HIDE DEF state
    <3> QED BY <1>3
  <2>2. 1 \in 1 .. 5 /\ \A n \in 2 .. 5 : n \in 1 .. 5 /\ n # 1
    OBVIOUS
  <2> HIDE DEF state
  <2> QED BY <2>1, <2>2
<1>5. state[2] = s2 /\ state[3] = s3 /\ state[4] = s4 /\ state[5] = s5
  <2> HIDE DEF state
  <2>1. 2 \in 2 .. 5 /\ 3 \in 2 .. 5 /\ 4 \in 2 .. 5 /\ 5 \in 2 .. 5
    OBVIOUS
  <2>2. 2 - 1 = 1 /\ 3 - 1 = 2 /\ 4 - 1 = 3 /\ 5 - 1 = 4
    OBVIOUS
  <2>3. /\ state[2] = NXT_AUTH_STATE(state[1], block) /\ state[3] = NXT_AUTH_STATE(state[2], block)
        /\ state[4] = NXT_AUTH_STATE(state[3], block) /\ state[5] = NXT_AUTH_STATE(state[4], block)
    BY <1>4, <2>1, <2>2
  <2> QED BY <1>4, <2>3
<1>6. Attempts(s1, block) = {SendBuf(state[n]) : n \in 1 .. 5}
  BY DEF Attempts
<1>7. \A x : x \in {SendBuf(state[n]) : n \in 1 .. 5}
               <=> x \in {SendBuf(s1), SendBuf(s2), SendBuf(s3), SendBuf(s4), SendBuf(s5)}
  <2> HIDE DEF state, s2, s3, s4, s5
  <2>1. \A n \in 1 .. 5 : n = 1 \/ n = 2 \/ n = 3 \/ n = 4 \/ n = 5
    OBVIOUS
  <2>2. 1 \in 1 .. 5 /\ 2 \in 1 .. 5 /\ 3 \in 1 .. 5 /\ 4 \in 1 .. 5 /\ 5 \in 1 .. 5
    OBVIOUS
  <2> QED BY <1>4, <1>5, <2>1, <2>2, Zenon
<1> HIDE DEF state, s2, s3, s4, s5
<1>8. Attempts(s1, block) = {SendBuf(s1), SendBuf(s2), SendBuf(s3), SendBuf(s4), SendBuf(s5)}
  BY <1>6, <1>7
<1> QED BY <1>8 DEF s2, s3, s4, s5

\* From any state, the authentication tries every key that may open the
\* sector, whatever the block.
THEOREM EveryKeyTriedHolds == Spec => []EveryKeyTried
<1>1. ASSUME Answered, Returned("keys"), call.block # 67,
             call.state = "MAD_KEY" => SECT_INDEX_CALC(call.block) \in {0, 16}
      PROVE  Value = Openers(SECT_INDEX_CALC(call.block))
  <2> DEFINE s == call.state
             b == call.block
             mad == SECT_INDEX_CALC(b) \in {0, 16}
             default(command) == [key |-> "default", MfCmd |-> command]
  <2>1. /\ b \in 0 .. 255
        /\ s \in {"DEF_KEY", "NFC_KEY", "MAD_KEY", "KEYB", "SCRT_KEYB"}
    BY <1>1, NfcCall DEF Answered, Returned
  <2>2. Value = Attempts(s, b)
    BY <1>1 DEF Answered
  <2>3. mad <=> b <= 3 \/ (b > 63 /\ b < 67)
    BY <1>1, <2>1 DEF SECT_INDEX_CALC
  <2>4. Openers(SECT_INDEX_CALC(b))
          = {default("AuthentA"), default("AuthentB"),
             AUTH_SEND_BUF_NFCSECT_KEYA, AUTH_SEND_BUF_SCRT_KEY}
              \cup (IF mad THEN {AUTH_SEND_BUF_MADSECT_KEYA} ELSE {})
    BY DEF Openers
  <2> HIDE DEF b, s
  <2>5. /\ NXT_AUTH_STATE("DEF_KEY", b) = IF mad THEN "MAD_KEY" ELSE "NFC_KEY"
        /\ NXT_AUTH_STATE("MAD_KEY", b) = "NFC_KEY" /\ NXT_AUTH_STATE("NFC_KEY", b) = "KEYB"
        /\ NXT_AUTH_STATE("KEYB", b) = "SCRT_KEYB" /\ NXT_AUTH_STATE("SCRT_KEYB", b) = "DEF_KEY"
    BY <2>3 DEF NXT_AUTH_STATE
  <2>6. /\ SendBuf("DEF_KEY") = default("AuthentA") /\ SendBuf("KEYB") = default("AuthentB")
        /\ SendBuf("NFC_KEY") = AUTH_SEND_BUF_NFCSECT_KEYA
        /\ SendBuf("MAD_KEY") = AUTH_SEND_BUF_MADSECT_KEYA
        /\ SendBuf("SCRT_KEYB") = AUTH_SEND_BUF_SCRT_KEY
    BY DEF SendBuf, AUTH_SEND_BUF_DEF
  <2> HIDE DEF default, mad
  <2>7. Attempts(s, b)
          = {default("AuthentA"), default("AuthentB"),
             AUTH_SEND_BUF_NFCSECT_KEYA, AUTH_SEND_BUF_SCRT_KEY}
              \cup (IF mad THEN {AUTH_SEND_BUF_MADSECT_KEYA} ELSE {})
    <3>1. CASE s = "DEF_KEY"
      BY <2>5, <2>6, <3>1, AttemptsDef
    <3>2. CASE s = "NFC_KEY"
      BY <2>5, <2>6, <3>2, AttemptsDef
    <3>3. CASE s = "MAD_KEY"
      <4>1. mad
        BY <1>1, <3>3 DEF mad, s, b
      <4> QED BY <2>5, <2>6, <3>3, <4>1, AttemptsDef
    <3>4. CASE s = "KEYB"
      BY <2>5, <2>6, <3>4, AttemptsDef
    <3>5. CASE s = "SCRT_KEYB"
      BY <2>5, <2>6, <3>5, AttemptsDef
    <3> QED BY <2>1, <3>1, <3>2, <3>3, <3>4, <3>5
  <2> QED BY <2>2, <2>4, <2>7 DEF b
<1>2. Answered => EveryKeyTried
  BY <1>1 DEF EveryKeyTried
<1> QED BY AlwaysAnswered, <1>2, PTL

\* The n-th block on the way from a block of the first sector: a block of
\* sector n - 1.
BlockAt(first, n) ==
  IF n <= 32 THEN first + (4 * (n - 1))
  ELSE 128 + (16 * (n - 33)) + (IF first = 3 THEN 15 ELSE first)

LEMMA NextBlockAt ==
  ASSUME NEW first \in 0 .. 3, NEW n \in 2 .. 41
  PROVE  BlockAt(first, n) = CUR_BLK_INC(BlockAt(first, n - 1))
<1>1. n \in Int /\ 2 <= n /\ n <= 41 /\ first \in Int /\ 0 <= first /\ first <= 3
  OBVIOUS
<1>2. CASE n <= 32
  <2>1. BlockAt(first, n) = first + (4 * (n - 1)) /\ BlockAt(first, n - 1) = first + (4 * (n - 2))
    BY <1>1, <1>2 DEF BlockAt
  <2> QED BY <1>1, <1>2, <2>1 DEF CUR_BLK_INC
<1>3. CASE n = 33
  <2>1. /\ BlockAt(first, n) = 128 + (IF first = 3 THEN 15 ELSE first)
        /\ BlockAt(first, n - 1) = first + 124
    BY <1>1, <1>3 DEF BlockAt
  <2> QED BY <1>1, <2>1 DEF CUR_BLK_INC
<1>4. CASE n > 33
  <2> DEFINE d == IF first = 3 THEN 15 ELSE first
  <2>1. d \in Int /\ 0 <= d
    BY <1>1
  <2>2. /\ BlockAt(first, n) = 128 + (16 * (n - 33)) + d
        /\ BlockAt(first, n - 1) = 128 + (16 * (n - 34)) + d
    BY <1>1, <1>4 DEF BlockAt
  <2> HIDE DEF d
  <2> QED BY <1>1, <1>4, <2>1, <2>2 DEF CUR_BLK_INC
<1> QED BY <1>1, <1>2, <1>3, <1>4

LEMMA BlockAtFacts ==
  ASSUME NEW first \in 0 .. 3, NEW n \in 1 .. 41
  PROVE  /\ BlockAt(first, n) \in Nat
         /\ BlockAt(first, n) >= 64 <=> n >= 17
         /\ BlockAt(first, n) >= 256 <=> n >= 41
         /\ BlockAt(first, n) \in BlocksOf(n - 1)
         /\ SECT_INDEX_CALC(BlockAt(first, n)) = n - 1
         /\ \A b \in BlocksOf(n - 1) : BlockAt(3, n) >= b
<1>1. n \in Int /\ 1 <= n /\ n <= 41 /\ first \in Int /\ 0 <= first /\ first <= 3
  OBVIOUS
<1>2. CASE n <= 32
  <2>1. BlockAt(first, n) = first + (4 * (n - 1)) /\ BlockAt(3, n) = 3 + (4 * (n - 1))
    BY <1>2 DEF BlockAt
  <2>2. BlocksOf(n - 1) = 4 * (n - 1) .. 4 * (n - 1) + 3
    BY <1>1, <1>2 DEF BlocksOf
  <2>3. SECT_INDEX_CALC(BlockAt(first, n)) = (first + (4 * (n - 1))) \div 4
    BY <1>1, <1>2, <2>1 DEF SECT_INDEX_CALC
  <2>4. (first + (4 * (n - 1))) \div 4 = n - 1
    BY <1>1
  <2> QED BY <1>1, <1>2, <2>1, <2>2, <2>3, <2>4
<1>3. CASE n >= 33
  <2> DEFINE d == IF first = 3 THEN 15 ELSE first
  <2>1. d \in Int /\ 0 <= d /\ d <= 15
    BY <1>1
  <2>2. BlockAt(first, n) = 128 + (16 * (n - 33)) + d /\ BlockAt(3, n) = 128 + (16 * (n - 33)) + 15
    BY <1>1, <1>3 DEF BlockAt
  <2> HIDE DEF d
  <2>3. BlocksOf(n - 1) = 128 + 16 * (n - 33) .. 143 + 16 * (n - 33)
    <3>1. ~(n - 1 < 32) /\ (n - 1) - 32 = n - 33
      BY <1>1, <1>3
    <3> QED BY <3>1 DEF BlocksOf
  <2>4. SECT_INDEX_CALC(BlockAt(first, n)) = 32 + (((16 * (n - 33)) + d) \div 16)
    <3>1. BlockAt(first, n) >= 128 /\ BlockAt(first, n) - 128 = (16 * (n - 33)) + d
      BY <1>1, <1>3, <2>1, <2>2
    <3> QED BY <3>1 DEF SECT_INDEX_CALC
  <2>5. ((16 * (n - 33)) + d) \div 16 = n - 33
    BY <1>1, <1>3, <2>1
  <2>6. SECT_INDEX_CALC(BlockAt(first, n)) = n - 1
    BY <1>1, <2>4, <2>5
  <2>7. BlockAt(first, n) \in Nat /\ BlockAt(first, n) >= 64 /\ n >= 17
    BY <1>1, <1>3, <2>1, <2>2
  <2>8. BlockAt(first, n) >= 256 <=> n >= 41
    BY <1>1, <1>3, <2>1, <2>2
  <2>9. BlockAt(first, n) \in BlocksOf(n - 1) /\ \A b \in BlocksOf(n - 1) : BlockAt(3, n) >= b
    BY <1>1, <1>3, <2>1, <2>2, <2>3
  <2> QED BY <2>6, <2>7, <2>8, <2>9
<1> QED BY <1>1, <1>2, <1>3

\* The walk ends right before the first block past the card.
LEMMA WalkDef ==
  ASSUME NEW card \in {"1K", "4K"}, NEW first \in 0 .. 3
  PROVE  Walk(card, first)
           = [n \in 1 .. (IF card = "1K" THEN 16 ELSE 40) |-> BlockAt(first, n)]
<1> DEFINE IsBlock(f) == f = [n \in 1 .. 41 |-> IF n = 1 THEN first ELSE CUR_BLK_INC(f[n - 1])]
           block == CHOOSE f : IsBlock(f)
           place == [n \in 1 .. 41 |-> BlockAt(first, n)]
           past == {n \in DOMAIN block : CUR_BLK_CHK(card, block[n])}
           last == IF card = "1K" THEN 16 ELSE 40
<1>1. BlockAt(first, 1) = first
  BY DEF BlockAt
<1>2. IsBlock(place)
  <2>1. ASSUME NEW n \in 1 .. 41
        PROVE  place[n] = IF n = 1 THEN first ELSE CUR_BLK_INC(place[n - 1])
    <3>1. CASE n = 1
      BY <1>1, <3>1
    <3>2. CASE n # 1
      <4>1. n \in 2 .. 41 /\ n - 1 \in 1 .. 41
        BY <3>2
      <4>2. place[n] = BlockAt(first, n) /\ place[n - 1] = BlockAt(first, n - 1)
        BY <4>1
      <4> HIDE DEF place
      <4> QED BY <3>2, <4>1, <4>2, NextBlockAt
    <3> QED BY <3>1, <3>2
  <2>2. place = [n \in 1 .. 41 |-> place[n]]
    OBVIOUS
  <2> HIDE DEF place
  <2> QED BY <2>1, <2>2, Zenon
<1>3. IsBlock(block)
  <2> HIDE DEF IsBlock, place
  <2> QED BY <1>2, Zenon
<1>4. DOMAIN block = 1 .. 41
      /\ \A n \in 1 .. 41 : block[n] = IF n = 1 THEN first ELSE CUR_BLK_INC(block[n - 1])
  <2> HIDE DEF block
  <2> QED BY <1>3
<1>5. \A n \in 1 .. 41 : block[n] = BlockAt(first, n)
  <2> HIDE DEF block
  <2> DEFINE good == {n \in Nat : n + 1 <= 41 => block[n + 1] = BlockAt(first, n + 1)}
  <2>1. 0 \in good
    BY <1>1, <1>4
  <2>2. ASSUME NEW n \in Nat, n \in good PROVE n + 1 \in good
    <3> SUFFICES ASSUME n + 2 <= 41 PROVE block[n + 2] = BlockAt(first, n + 2)
      OBVIOUS
    <3> DEFINE m == n + 2
    <3>1. m \in 1 .. 41 /\ m \in 2 .. 41 /\ m # 1 /\ m - 1 = n + 1
      OBVIOUS
    <3>2. block[m - 1] = BlockAt(first, m - 1)
      BY <2>2, <3>1
    <3> HIDE DEF m, good
    <3>3. block[m] = CUR_BLK_INC(block[m - 1])
      BY <1>4, <3>1
    <3>4. block[m] = BlockAt(first, m)
      BY <3>1, <3>2, <3>3, NextBlockAt
    <3> QED BY <3>4 DEF m
  <2>3. Nat \subseteq good
    <3> HIDE DEF good
    <3> QED BY <2>1, <2>2, NatSetInduction
  <2>4. ASSUME NEW n \in 1 .. 41 PROVE block[n] = BlockAt(first, n)
    <3>1. n - 1 \in good /\ (n - 1) + 1 = n
      BY <2>3
    <3> QED BY <3>1
  <2> QED BY <2>4
<1> HIDE DEF block, place
<1>6. last \in {16, 40} /\ last \in Nat
  OBVIOUS
<1>7. past = {n \in 1 .. 41 : n >= last + 1}
  <2>1. ASSUME NEW n \in 1 .. 41
        PROVE  CUR_BLK_CHK(card, block[n]) <=> n >= last + 1
    <3>1. block[n] = BlockAt(first, n)
      BY <1>5
    <3>2. BlockAt(first, n) >= 64 <=> n >= 17
      BY BlockAtFacts
    <3>3. BlockAt(first, n) >= 256 <=> n >= 41
      BY BlockAtFacts
    <3> QED BY <3>1, <3>2, <3>3 DEF CUR_BLK_CHK, MAX_BLOCKS
  <2> HIDE DEF last
  <2> QED BY <1>4, <2>1
<1>8. Min(past) = last + 1
  <2>1. past \in SUBSET Nat /\ last + 1 \in past /\ \A y \in past : last + 1 <= y
    BY <1>6, <1>7
  <2> HIDE DEF past, last
  <2> QED BY <2>1, MinFacts
<1>9. Walk(card, first) = [n \in 1 .. Min(past) - 1 |-> block[n]]
  BY DEF Walk, block, MAX_SECT_IND_4K
<1>10. Min(past) - 1 = last /\ \A n \in 1 .. last : n \in 1 .. 41
  <2> HIDE DEF past
  <2> QED BY <1>6, <1>8
<1>11. Walk(card, first) = [n \in 1 .. last |-> BlockAt(first, n)]
  <2> HIDE DEF past, last
  <2> QED BY <1>5, <1>9, <1>10
<1> QED BY <1>11

\* The sectors that the loop comes to from an index on, if they are marked.
Reached(i, sectors) == {s \in sectors : s >= i /\ (s # 16 \/ i = 16)}

\* Where the loop ends that has come to an index, and what it has found.
Found(i, sectors) ==
  IF i <= 40 /\ Reached(i, sectors) # {}
    THEN [index |-> INCR_SECT(Min(Reached(i, sectors))), found |-> TRUE]
    ELSE [index |-> IF i = 41 THEN 41 ELSE 40, found |-> FALSE]

LEMMA FoundNext ==
  ASSUME NEW sectors \in SUBSET (0 .. 39), NEW i \in 0 .. 41
  PROVE  Found(i, sectors)
           = IF i >= 40 THEN [index |-> i, found |-> FALSE]
             ELSE IF i \in sectors THEN [index |-> INCR_SECT(i), found |-> TRUE]
             ELSE Found(INCR_SECT(i), sectors)
<1>1. CASE i >= 40
  <2>1. i = 40 \/ i = 41
    BY <1>1
  <2>2. \A s \in sectors : s \in 0 .. 39 /\ ~(s >= i)
    BY <2>1
  <2>3. Reached(i, sectors) = {}
    BY <2>2 DEF Reached
  <2>4. Found(i, sectors) = [index |-> IF i = 41 THEN 41 ELSE 40, found |-> FALSE]
    BY <2>3 DEF Found
  <2>5. (IF i = 41 THEN 41 ELSE 40) = i
    BY <2>1
  <2> QED BY <1>1, <2>4, <2>5
<1>2. CASE i < 40 /\ i \in sectors
  <2>1. i \in Reached(i, sectors) /\ \A s \in Reached(i, sectors) : i <= s
    BY <1>2 DEF Reached
  <2>2. Reached(i, sectors) \in SUBSET Nat
    <3>1. 0 .. 39 \subseteq Nat
      OBVIOUS
    <3> QED BY <3>1 DEF Reached
  <2>3. Min(Reached(i, sectors)) = i
    BY <2>1, <2>2, MinFacts
  <2>4. i <= 40 /\ ~(i >= 40)
    BY <1>2
  <2> QED BY <1>2, <2>1, <2>3, <2>4 DEF Found
<1>3. CASE i < 40 /\ i \notin sectors
  <2> DEFINE next == INCR_SECT(i)
  <2>1. next \in 1 .. 40 /\ next = IF i = 15 THEN 17 ELSE i + 1
    BY <1>3 DEF INCR_SECT
  <2>2. Reached(i, sectors) = Reached(next, sectors)
    <3> HIDE DEF next
    <3>1. ASSUME NEW s \in sectors
          PROVE  s >= i /\ (s # 16 \/ i = 16) <=> s >= next /\ (s # 16 \/ next = 16)
      BY <1>3, <2>1
    <3> QED BY <3>1 DEF Reached
  <2>3. i <= 40 /\ i # 41 /\ ~(i >= 40) /\ next <= 40 /\ next # 41
    BY <1>3, <2>1
  <2> HIDE DEF next
  <2>4. Found(i, sectors) = Found(next, sectors)
    BY <2>2, <2>3 DEF Found
  <2> QED BY <1>3, <2>3, <2>4 DEF next
<1> QED BY <1>1, <1>2, <1>3

LEMMA SearchDef ==
  ASSUME NEW sectors \in SUBSET (0 .. 39), NEW index \in 0 .. 16
  PROVE  CHK_SECT_ARRAY(index, sectors) = Found(index, sectors)
<1> DEFINE Step(f, i) ==
             IF i >= MAX_SECT_IND_4K THEN [index |-> i, found |-> FALSE]
             ELSE LET next == i + IF i = MAX_SECT_IND_1K - 1 THEN 2 ELSE 1
                  IN  IF i \in sectors THEN [index |-> next, found |-> TRUE] ELSE f[next]
           IsLoop(f) == f = [i \in index .. MAX_SECT_IND_4K + 1 |-> Step(f, i)]
           loop == CHOOSE f : IsLoop(f)
           found == [i \in index .. 41 |-> Found(i, sectors)]
<1>1. MAX_SECT_IND_4K + 1 = 41
  BY DEF MAX_SECT_IND_4K
<1>2. ASSUME NEW f, NEW i \in index .. 41
       PROVE  Step(f, i) = IF i >= 40 THEN [index |-> i, found |-> FALSE]
                           ELSE IF i \in sectors THEN [index |-> INCR_SECT(i), found |-> TRUE]
                           ELSE f[INCR_SECT(i)]
  <2>1. i + (IF i = MAX_SECT_IND_1K - 1 THEN 2 ELSE 1) = INCR_SECT(i)
    BY DEF INCR_SECT, MAX_SECT_IND_1K
  <2> QED BY <2>1 DEF MAX_SECT_IND_4K
<1>3. ASSUME NEW i \in index .. 41
      PROVE  /\ i \in 0 .. 41
             /\ i < 40 => INCR_SECT(i) \in index .. 41 /\ INCR_SECT(i) > i
  BY DEF INCR_SECT
<1>4. IsLoop(found)
  <2>1. ASSUME NEW i \in index .. 41 PROVE found[i] = Step(found, i)
    <3>1. found[i] = Found(i, sectors)
      OBVIOUS
    <3>2. i < 40 => found[INCR_SECT(i)] = Found(INCR_SECT(i), sectors)
      BY <1>3
    <3>3. i < 40 <=> ~(i >= 40)
      BY <1>3
    <3>4. i \in 0 .. 41
      BY <1>3
    <3>5. Found(i, sectors)
            = IF i >= 40 THEN [index |-> i, found |-> FALSE]
              ELSE IF i \in sectors THEN [index |-> INCR_SECT(i), found |-> TRUE]
              ELSE Found(INCR_SECT(i), sectors)
      BY <3>4, FoundNext, Zenon
    <3> HIDE DEF found, Step
    <3>6. Step(found, i)
            = IF i >= 40 THEN [index |-> i, found |-> FALSE]
              ELSE IF i \in sectors THEN [index |-> INCR_SECT(i), found |-> TRUE]
              ELSE found[INCR_SECT(i)]
      BY <1>2, Zenon
    <3> QED BY <3>1, <3>2, <3>3, <3>5, <3>6, Zenon
  <2>2. found = [i \in index .. 41 |-> found[i]]
    OBVIOUS
  <2> HIDE DEF found, Step
  <2> QED BY <1>1, <2>1, <2>2, Zenon
<1>5. IsLoop(loop)
  <2> HIDE DEF IsLoop, found
  <2> QED BY <1>4, Zenon
<1>6. \A i \in index .. 41 : loop[i] = Step(loop, i)
  <2> HIDE DEF loop, Step
  <2> QED BY <1>1, <1>5
<1> HIDE DEF loop, Step
<1> DEFINE good == {k \in Nat : \A i \in index .. 41 : i >= 41 - k => loop[i] = Found(i, sectors)}
<1>7. 0 \in good
  <2> SUFFICES ASSUME NEW i \in index .. 41, i >= 41 PROVE loop[i] = Found(i, sectors)
    OBVIOUS
  <2>1. i >= 40 /\ i \in 0 .. 41
    OBVIOUS
  <2> QED BY <1>2, <1>6, <2>1, FoundNext
<1>8. ASSUME NEW k \in Nat, k \in good PROVE k + 1 \in good
  <2> SUFFICES ASSUME NEW i \in index .. 41, i >= 41 - (k + 1) PROVE loop[i] = Found(i, sectors)
    OBVIOUS
  <2>1. CASE i >= 40
    BY <1>2, <1>3, <1>6, <2>1, FoundNext
  <2>2. CASE i < 40
    <3>1. i \in 0 .. 41 /\ INCR_SECT(i) \in index .. 41 /\ INCR_SECT(i) > i /\ ~(i >= 40)
      BY <1>3, <2>2
    <3>2. INCR_SECT(i) >= 41 - k
      BY <3>1
    <3>3. loop[INCR_SECT(i)] = Found(INCR_SECT(i), sectors)
      BY <1>8, <3>1, <3>2
    <3>4. Found(i, sectors)
            = IF i \in sectors THEN [index |-> INCR_SECT(i), found |-> TRUE]
              ELSE Found(INCR_SECT(i), sectors)
      BY <3>1, FoundNext, Zenon
    <3>5. Step(loop, i)
            = IF i \in sectors THEN [index |-> INCR_SECT(i), found |-> TRUE]
              ELSE loop[INCR_SECT(i)]
      BY <1>2, <3>1, Zenon
    <3> QED BY <1>6, <3>3, <3>4, <3>5, Zenon
  <2>3. i >= 40 \/ i < 40
    BY <1>3
  <2> QED BY <2>1, <2>2, <2>3
<1>9. Nat \subseteq good
  <2> HIDE DEF good
  <2> QED BY <1>7, <1>8, NatSetInduction
<1>10. loop[index] = Found(index, sectors)
  <2>1. 41 \in good /\ index \in index .. 41 /\ index >= 41 - 41
    BY <1>9
  <2> QED BY <2>1
<1>11. CHK_SECT_ARRAY(index, sectors) = loop[index]
  BY DEF CHK_SECT_ARRAY, loop, Step
<1> QED BY <1>10, <1>11

\* The walk and the search meet every sector they should, from any block of
\* the first sector, any index up to 16 and any set of marked sectors.
THEOREM EverySectorVisitedHolds == Spec => []EverySectorVisited
<1>1. ASSUME Answered, Returned("walk")
      PROVE  /\ Len(Value) = IF call.card = "1K" THEN MAX_SECT_IND_1K ELSE MAX_SECT_IND_4K
             /\ \A n \in DOMAIN Value :
                  /\ Value[n] \in BlocksOf(n - 1)
                  /\ SECT_INDEX_CALC(Value[n]) = n - 1
                  /\ call.first = 3 => Value[n] = Max(BlocksOf(n - 1))
  <2> DEFINE card == call.card
             first == call.first
             last == IF card = "1K" THEN 16 ELSE 40
  <2>1. card \in {"1K", "4K"} /\ first \in 0 .. 3
    BY <1>1, NfcCall DEF Answered, Returned
  <2>2. Value = Walk(card, first)
    BY <1>1 DEF Answered
  <2> HIDE DEF card, first
  <2>3. Value = [n \in 1 .. last |-> BlockAt(first, n)]
    BY <2>1, <2>2, WalkDef
  <2>4. /\ last \in Nat /\ last <= 40
        /\ last = IF card = "1K" THEN MAX_SECT_IND_1K ELSE MAX_SECT_IND_4K
    BY DEF MAX_SECT_IND_1K, MAX_SECT_IND_4K
  <2> HIDE DEF last
  <2>5. ASSUME NEW n \in 1 .. last
        PROVE  /\ BlockAt(first, n) \in Nat
               /\ BlockAt(first, n) \in BlocksOf(n - 1)
               /\ SECT_INDEX_CALC(BlockAt(first, n)) = n - 1
               /\ first = 3 => BlockAt(first, n) = Max(BlocksOf(n - 1))
    <3>1. n \in 1 .. 41
      BY <2>4
    <3>2. /\ BlockAt(first, n) \in Nat /\ BlockAt(first, n) \in BlocksOf(n - 1)
          /\ SECT_INDEX_CALC(BlockAt(first, n)) = n - 1
          /\ \A b \in BlocksOf(n - 1) : BlockAt(3, n) >= b
      BY <2>1, <3>1, BlockAtFacts
    <3>3. BlocksOf(n - 1) \in SUBSET Int
      BY <3>1 DEF BlocksOf
    <3>4. first = 3 => BlockAt(first, n) = Max(BlocksOf(n - 1))
      BY <3>2, <3>3, MaxFacts
    <3> QED BY <3>2, <3>4
  <2>6. DOMAIN Value = 1 .. last /\ \A n \in 1 .. last : Value[n] = BlockAt(first, n)
    BY <2>3
  <2>7. Len(Value) = last
    <3>1. Value \in [1 .. last -> Nat]
      BY <2>3, <2>5
    <3> QED BY <2>4, <3>1, FunctionIsSeq
  <2> QED BY <2>4, <2>5, <2>6, <2>7 DEF card, first
<1>2. ASSUME Answered, Returned("search")
      PROVE  LET reached == {s \in call.sectors : s >= call.index /\ (s # 16 \/ call.index = 16)}
             IN  /\ Value.found <=> reached # {}
                 /\ reached # {} => Value.index = INCR_SECT(Min(reached))
                 /\ Value.Result = "FORMAT_ERROR" <=> reached = {}
  <2> DEFINE index == call.index
             sectors == call.sectors
             search == CHK_SECT_ARRAY(index, sectors)
             came == Reached(index, sectors)
  <2>1. index \in 0 .. 16 /\ sectors \in SUBSET (0 .. 39)
    BY <1>2, NfcCall DEF Answered, Returned
  <2>2. /\ Value.index = search.index /\ Value.found = search.found
        /\ Value.Result = CHK_END_OF_CARD(index, sectors).Result
    BY <1>2 DEF Answered, SearchFrom
  <2>3. came = {s \in call.sectors : s >= call.index /\ (s # 16 \/ call.index = 16)}
    BY DEF Reached
  <2>4. /\ search.found = TRUE => CHK_END_OF_CARD(index, sectors).Result = "of WrRdAuth"
        /\ search.found = FALSE => CHK_END_OF_CARD(index, sectors).Result = "FORMAT_ERROR"
    BY Zenon DEF CHK_END_OF_CARD
  <2> HIDE DEF index, sectors
  <2>5. search = Found(index, sectors) /\ index <= 40
    BY <2>1, SearchDef
  <2>6. CASE came = {}
    <3>1. search.found = FALSE
      BY <2>5, <2>6 DEF Found
    <3>2. Value.found = FALSE /\ Value.Result = "FORMAT_ERROR"
      BY <2>2, <2>4, <3>1, Zenon
    <3> HIDE DEF came
    <3> QED BY <2>3, <2>6, <3>2, Zenon
  <2>7. CASE came # {}
    <3>1. search.found = TRUE /\ search.index = INCR_SECT(Min(came))
      BY <2>5, <2>7 DEF Found
    <3>2. /\ Value.found = TRUE /\ Value.Result # "FORMAT_ERROR"
          /\ Value.index = INCR_SECT(Min(came))
      BY <2>2, <2>4, <3>1, Zenon
    <3> HIDE DEF came
    <3> QED BY <2>3, <2>7, <3>2, Zenon
  <2> QED BY <2>6, <2>7
<1>3. Answered => EverySectorVisited
  BY <1>1, <1>2 DEF EverySectorVisited
<1> QED BY AlwaysAnswered, <1>3, PTL
-----------------------------------------------------------------------------
(* Audio devices.                                                          *)

LEMMA DeviceCall ==
  ASSUME call \in Calls, call.function = "device"
  PROVE  call.device \in DeviceMasks /\ call.qcom \in BOOLEAN
<1>1. call \in AudioCalls
  BY CallKinds, OtherCalls
<1>2. call \in [function : {"device"}, device : DeviceMasks, qcom : BOOLEAN]
  BY <1>1 DEF AudioCalls
<1> QED BY <1>2

\* What the number of its bits says of a device.
LEMMA DeviceShape ==
  ASSUME NEW d \in DeviceMasks
  PROVE  /\ Cardinality(d) = 1 <=> \E x \in 0 .. 30 : d = {x}
         /\ SingleInput(d) <=> \E x \in 0 .. 30 : d = {31, x}
<1>1. PICK direction \in {{}, {31}}, b \in 0 .. 30, c \in 0 .. 30 : d = direction \cup {b, c}
  <2> DEFINE outputs == UNION {{{b, c} : c \in 0 .. 30} : b \in 0 .. 30}
  <2>1. d \in outputs \/ \E e \in outputs : d = e \cup {31}
    BY DEF DeviceMasks, AUDIO_DEVICE_BIT_IN, AUDIO_DEVICE_BIT_DEFAULT
  <2>2. \A e \in outputs : \E b \in 0 .. 30, c \in 0 .. 30 : e = {b, c}
    OBVIOUS
  <2> HIDE DEF outputs
  <2>3. CASE d \in outputs
    <3>1. PICK b \in 0 .. 30, c \in 0 .. 30 : d = {b, c}
      BY <2>2, <2>3
    <3>2. d = {} \cup {b, c}
      BY <3>1
    <3> QED BY <3>2
  <2>4. ASSUME NEW e \in outputs, d = e \cup {31}
        PROVE  \E b \in 0 .. 30, c \in 0 .. 30 : d = {31} \cup {b, c}
    <3>1. PICK b \in 0 .. 30, c \in 0 .. 30 : e = {b, c}
      BY <2>2
    <3>2. d = {31} \cup {b, c}
      BY <2>4, <3>1
    <3> QED BY <3>2
  <2> QED BY <2>1, <2>3, <2>4
<1>2. 31 \notin 0 .. 30
  OBVIOUS
<1>3. ASSUME NEW x PROVE IsFiniteSet({x}) /\ Cardinality({x}) = 1
  BY FS_Singleton
<1>4. ASSUME NEW x, NEW y, x # y PROVE IsFiniteSet({x, y}) /\ Cardinality({x, y}) = 2
  <2>1. {x, y} = {x} \cup {y} /\ y \notin {x}
    BY <1>4
  <2>2. IsFiniteSet({x} \cup {y}) /\ Cardinality({x} \cup {y}) = Cardinality({x}) + 1
    BY <1>3, <2>1, FS_AddElement
  <2> QED BY <1>3, <2>1, <2>2
<1>5. CASE direction = {}
  <2>1. d = {b, c} /\ 31 \notin d
    BY <1>1, <1>2, <1>5
  <2>2. Cardinality(d) = 1 <=> b = c
    <3>1. b = c => d = {b} /\ Cardinality({b}) = 1
      BY <1>3, <2>1
    <3>2. b # c => Cardinality({b, c}) = 2
      BY <1>4
    <3> QED BY <2>1, <3>1, <3>2
  <2>3. b = c <=> \E x \in 0 .. 30 : d = {x}
    BY <2>1
  <2> QED BY <2>1, <2>2, <2>3 DEF SingleInput, IsInput, AUDIO_DEVICE_BIT_IN
<1>6. CASE direction = {31}
  <2>1. d = {31, b, c} /\ 31 \in d /\ b # 31 /\ c # 31
    BY <1>1, <1>2, <1>6
  <2>2. b = c => d = {31, b} /\ Cardinality(d) = 2
    <3>1. Cardinality({31, b}) = 2
      BY <1>4, <2>1
    <3> QED BY <2>1, <3>1
  <2>3. b # c => Cardinality(d) = 3
    <3> SUFFICES ASSUME b # c PROVE Cardinality(d) = 3
      OBVIOUS
    <3>1. d = {b, c} \cup {31} /\ 31 \notin {b, c}
      BY <2>1
    <3>2. IsFiniteSet({b, c}) /\ Cardinality({b, c}) = 2
      BY <1>4
    <3>3. Cardinality({b, c} \cup {31}) = Cardinality({b, c}) + 1
      BY <3>1, <3>2, FS_AddElement
    <3> QED BY <3>1, <3>2, <3>3
  <2>4. Cardinality(d) # 1 /\ (Cardinality(d) = 2 <=> b = c)
    BY <2>2, <2>3
  <2>5. b = c <=> \E x \in 0 .. 30 : d = {31, x}
    BY <1>2, <2>1
  <2>6. ~ \E x \in 0 .. 30 : d = {x}
    BY <1>2, <2>1
  <2> QED BY <2>1, <2>4, <2>5, <2>6 DEF SingleInput, IsInput, AUDIO_DEVICE_BIT_IN
<1> QED BY <1>1, <1>5, <1>6

\* The bits of the devices of a direction.
OutputBits(qcom) == 0 .. 22 \cup {30} \cup (IF qcom THEN {24, 25} ELSE {})
InputBits(qcom) == 0 .. 18 \cup {30} \cup (IF qcom THEN {20, 21, 22} ELSE {})

LEMMA OutMasks ==
  ASSUME NEW qcom \in BOOLEAN
  PROVE  /\ {e.mask : e \in OutDevices(qcom)} = {{x} : x \in OutputBits(qcom)}
         /\ AUDIO_DEVICE_OUT_ALL(qcom) = OutputBits(qcom)
<1>1. DOMAIN OutNames = 1 .. 23
  BY DEF OutNames
<1>2. \A k \in 1 .. 23 : k - 1 \in 0 .. 22
  OBVIOUS
<1>3. \A x \in 0 .. 22 : x + 1 \in 1 .. 23 /\ (x + 1) - 1 = x
  OBVIOUS
<1>4. ASSUME NEW e \in OutDevices(qcom) PROVE \E x \in OutputBits(qcom) : e.mask = {x}
  BY <1>1, <1>2 DEF OutDevices, Device, OutputBits, AUDIO_DEVICE_BIT_DEFAULT
<1>5. ASSUME NEW x \in OutputBits(qcom) PROVE \E e \in OutDevices(qcom) : e.mask = {x}
  <2>1. CASE x \in 0 .. 22
    <3>1. Device(OutNames[x + 1], {(x + 1) - 1}) \in OutDevices(qcom)
      BY <1>1, <1>3, <2>1 DEF OutDevices
    <3>2. Device(OutNames[x + 1], {(x + 1) - 1}).mask = {x}
      BY <1>3, <2>1 DEF Device
    <3> QED BY <3>1, <3>2
  <2>2. CASE x = 30
    <3>1. Device("DEFAULT", {30}) \in OutDevices(qcom)
      BY DEF OutDevices, AUDIO_DEVICE_BIT_DEFAULT
    <3> QED BY <2>2, <3>1 DEF Device
  <2>3. CASE qcom /\ x \in {24, 25}
    <3>1. Device("FM_TX", {24}) \in OutDevices(qcom) /\ Device("PROXY", {25}) \in OutDevices(qcom)
      BY <2>3 DEF OutDevices
    <3> QED BY <2>3, <3>1 DEF Device
  <2> QED BY <2>1, <2>2, <2>3 DEF OutputBits
<1>6. {e.mask : e \in OutDevices(qcom)} = {{x} : x \in OutputBits(qcom)}
  <2>1. \A e \in OutDevices(qcom) : e.mask \in {{x} : x \in OutputBits(qcom)}
    BY <1>4
  <2>2. \A x \in OutputBits(qcom) : {x} \in {e.mask : e \in OutDevices(qcom)}
    BY <1>5
  <2> QED BY <2>1, <2>2
<1>7. AUDIO_DEVICE_OUT_ALL(qcom) = OutputBits(qcom)
  BY DEF AUDIO_DEVICE_OUT_ALL, OutputBits, AUDIO_DEVICE_BIT_DEFAULT
<1> QED BY <1>6, <1>7

LEMMA InMasks ==
  ASSUME NEW qcom \in BOOLEAN
  PROVE  /\ {e.mask : e \in InDevices(qcom)} = {{31, x} : x \in InputBits(qcom)}
         /\ AUDIO_DEVICE_IN_ALL(qcom) = InputBits(qcom) \cup {31}
<1> USE DEF AUDIO_DEVICE_BIT_IN
<1>1. DOMAIN InNames = 1 .. 19
  BY DEF InNames
<1>2. \A k \in 1 .. 19 : k - 1 \in 0 .. 18
  OBVIOUS
<1>3. \A x \in 0 .. 18 : x + 1 \in 1 .. 19 /\ (x + 1) - 1 = x
  OBVIOUS
<1>4. ASSUME NEW e \in InDevices(qcom) PROVE \E x \in InputBits(qcom) : e.mask = {31, x}
  BY <1>1, <1>2 DEF InDevices, Device, InputBits, AUDIO_DEVICE_BIT_DEFAULT
<1>5. ASSUME NEW x \in InputBits(qcom) PROVE \E e \in InDevices(qcom) : e.mask = {31, x}
  <2>1. CASE x \in 0 .. 18
    <3>1. Device(InNames[x + 1], {31, (x + 1) - 1}) \in InDevices(qcom)
      BY <1>1, <1>3, <2>1 DEF InDevices
    <3>2. Device(InNames[x + 1], {31, (x + 1) - 1}).mask = {31, x}
      BY <1>3, <2>1 DEF Device
    <3> QED BY <3>1, <3>2
  <2>2. CASE x = 30
    <3>1. Device("DEFAULT", {31, 30}) \in InDevices(qcom)
      BY DEF InDevices, AUDIO_DEVICE_BIT_DEFAULT
    <3> QED BY <2>2, <3>1 DEF Device
  <2>3. CASE qcom /\ x \in {20, 21, 22}
    <3>1. /\ Device("PROXY", {31, 20}) \in InDevices(qcom)
          /\ Device("FM_RX", {31, 21}) \in InDevices(qcom)
          /\ Device("FM_RX_A2DP", {31, 22}) \in InDevices(qcom)
      BY <2>3 DEF InDevices
    <3> QED BY <2>3, <3>1 DEF Device
  <2> QED BY <2>1, <2>2, <2>3 DEF InputBits
<1>6. {e.mask : e \in InDevices(qcom)} = {{31, x} : x \in InputBits(qcom)}
  <2>1. \A e \in InDevices(qcom) : e.mask \in {{31, x} : x \in InputBits(qcom)}
    BY <1>4
  <2>2. \A x \in InputBits(qcom) : {31, x} \in {e.mask : e \in InDevices(qcom)}
    BY <1>5
  <2> QED BY <2>1, <2>2
<1>7. AUDIO_DEVICE_IN_ALL(qcom) = InputBits(qcom) \cup {31}
  BY DEF AUDIO_DEVICE_IN_ALL, InputBits, AUDIO_DEVICE_BIT_DEFAULT
<1> QED BY <1>6, <1>7

\* The masks of the devices with some names, by the places of the names.
LEMMA OutsNamed ==
  ASSUME NEW qcom \in BOOLEAN, NEW names, {"DEFAULT", "FM_TX", "PROXY"} \cap names = {},
         NEW bits \in SUBSET (0 .. 22), \A k \in 1 .. 23 : OutNames[k] \in names <=> k - 1 \in bits
  PROVE  Named(OutDevices(qcom), names) = {{x} : x \in bits}
<1>1. DOMAIN OutNames = 1 .. 23
  BY DEF OutNames
<1>2. ASSUME NEW e \in OutDevices(qcom), e.name \in names PROVE \E x \in bits : e.mask = {x}
  <2>1. PICK k \in 1 .. 23 : e = Device(OutNames[k], {k - 1})
    BY <1>1, <1>2 DEF OutDevices, Device
  <2>2. e.name = OutNames[k] /\ e.mask = {k - 1}
    BY <2>1 DEF Device
  <2> QED BY <1>2, <2>2
<1>3. ASSUME NEW x \in bits PROVE \E e \in OutDevices(qcom) : e.name \in names /\ e.mask = {x}
  <2>1. x + 1 \in 1 .. 23 /\ (x + 1) - 1 = x
    OBVIOUS
  <2>2. Device(OutNames[x + 1], {(x + 1) - 1}) \in OutDevices(qcom)
    BY <1>1, <2>1 DEF OutDevices
  <2>3. OutNames[x + 1] \in names
    BY <2>1
  <2> QED BY <2>1, <2>2, <2>3 DEF Device
<1>4. \A m \in Named(OutDevices(qcom), names) : m \in {{x} : x \in bits}
  BY <1>2 DEF Named
<1>5. \A x \in bits : {x} \in Named(OutDevices(qcom), names)
  BY <1>3 DEF Named
<1> QED BY <1>4, <1>5

LEMMA InsNamed ==
  ASSUME NEW qcom \in BOOLEAN, NEW names,
         {"DEFAULT", "PROXY", "FM_RX", "FM_RX_A2DP"} \cap names = {},
         NEW bits \in SUBSET (0 .. 18), \A k \in 1 .. 19 : InNames[k] \in names <=> k - 1 \in bits
  PROVE  Named(InDevices(qcom), names) = {{31, x} : x \in bits}
<1> USE DEF AUDIO_DEVICE_BIT_IN
<1>1. DOMAIN InNames = 1 .. 19
  BY DEF InNames
<1>2. ASSUME NEW e \in InDevices(qcom), e.name \in names PROVE \E x \in bits : e.mask = {31, x}
  <2>1. PICK k \in 1 .. 19 : e = Device(InNames[k], {31, k - 1})
    BY <1>1, <1>2 DEF InDevices, Device
  <2>2. e.name = InNames[k] /\ e.mask = {31, k - 1}
    BY <2>1 DEF Device
  <2> QED BY <1>2, <2>2
<1>3. ASSUME NEW x \in bits
      PROVE  \E e \in InDevices(qcom) : e.name \in names /\ e.mask = {31, x}
  <2>1. x + 1 \in 1 .. 19 /\ (x + 1) - 1 = x
    OBVIOUS
  <2>2. Device(InNames[x + 1], {31, (x + 1) - 1}) \in InDevices(qcom)
    BY <1>1, <2>1 DEF InDevices
  <2>3. InNames[x + 1] \in names
    BY <2>1
  <2> QED BY <2>1, <2>2, <2>3 DEF Device
<1>4. \A m \in Named(InDevices(qcom), names) : m \in {{31, x} : x \in bits}
  BY <1>2 DEF Named
<1>5. \A x \in bits : {31, x} \in Named(InDevices(qcom), names)
  BY <1>3 DEF Named
<1> QED BY <1>4, <1>5

LEMMA PlacesOfNames ==
  /\ \A k \in 1 .. 23 :
       /\ OutNames[k] \in A2dpOut <=> k - 1 \in {7, 8, 9}
       /\ OutNames[k] \in ScoOut <=> k - 1 \in {4, 5, 6}
       /\ OutNames[k] \in Usb <=> k - 1 \in {13, 14}
       /\ OutNames[k] \in {"REMOTE_SUBMIX"} <=> k - 1 \in {15}
  /\ \A k \in 1 .. 19 :
       /\ InNames[k] \in {"BLUETOOTH_A2DP"} <=> k - 1 \in {17}
       /\ InNames[k] \in {"BLUETOOTH_SCO_HEADSET"} <=> k - 1 \in {3}
       /\ InNames[k] \in Usb <=> k - 1 \in {11, 12}
       /\ InNames[k] \in {"LINE"} <=> k - 1 \in {15}
       /\ InNames[k] \in {"REMOTE_SUBMIX"} <=> k - 1 \in {8}
<1> USE DEF A2dpOut, ScoOut, Usb
<1>1. ASSUME NEW k \in 1 .. 23
      PROVE  /\ OutNames[k] \in A2dpOut <=> k - 1 \in {7, 8, 9}
             /\ OutNames[k] \in ScoOut <=> k - 1 \in {4, 5, 6}
             /\ OutNames[k] \in Usb <=> k - 1 \in {13, 14}
             /\ OutNames[k] \in {"REMOTE_SUBMIX"} <=> k - 1 \in {15}
  BY DEF OutNames
<1>2. ASSUME NEW k \in 1 .. 19
      PROVE  /\ InNames[k] \in {"BLUETOOTH_A2DP"} <=> k - 1 \in {17}
             /\ InNames[k] \in {"BLUETOOTH_SCO_HEADSET"} <=> k - 1 \in {3}
             /\ InNames[k] \in Usb <=> k - 1 \in {11, 12}
             /\ InNames[k] \in {"LINE"} <=> k - 1 \in {15}
             /\ InNames[k] \in {"REMOTE_SUBMIX"} <=> k - 1 \in {8}
  BY DEF InNames
<1> QED BY <1>1, <1>2

LEMMA NamedMasks ==
  ASSUME NEW qcom \in BOOLEAN
  PROVE  /\ Named(OutDevices(qcom), A2dpOut) = {{x} : x \in {7, 8, 9}}
         /\ Named(OutDevices(qcom), ScoOut) = {{x} : x \in {4, 5, 6}}
         /\ Named(OutDevices(qcom), Usb) = {{x} : x \in {13, 14}}
         /\ Named(OutDevices(qcom), {"REMOTE_SUBMIX"}) = {{x} : x \in {15}}
         /\ Named(InDevices(qcom), {"BLUETOOTH_A2DP"}) = {{31, x} : x \in {17}}
         /\ Named(InDevices(qcom), {"BLUETOOTH_SCO_HEADSET"}) = {{31, x} : x \in {3}}
         /\ Named(InDevices(qcom), Usb) = {{31, x} : x \in {11, 12}}
         /\ Named(InDevices(qcom), {"LINE"}) = {{31, x} : x \in {15}}
         /\ Named(InDevices(qcom), {"REMOTE_SUBMIX"}) = {{31, x} : x \in {8}}
<1>1. Named(OutDevices(qcom), A2dpOut) = {{x} : x \in {7, 8, 9}}
  <2> DEFINE names == A2dpOut
             bits == {7, 8, 9}
  <2>1. {"DEFAULT", "FM_TX", "PROXY"} \cap names = {}
    BY DEF A2dpOut
  <2>2. bits \in SUBSET (0 .. 22)
    OBVIOUS
  <2>3. \A k \in 1 .. 23 : OutNames[k] \in names <=> k - 1 \in bits
    BY PlacesOfNames
  <2> HIDE DEF names, bits
  <2>4. Named(OutDevices(qcom), names) = {{x} : x \in bits}
    BY <2>1, <2>2, <2>3, OutsNamed
  <2> QED BY <2>4 DEF names, bits
<1>2. Named(OutDevices(qcom), ScoOut) = {{x} : x \in {4, 5, 6}}
  <2> DEFINE names == ScoOut
             bits == {4, 5, 6}
  <2>1. {"DEFAULT", "FM_TX", "PROXY"} \cap names = {}
    BY DEF ScoOut
  <2>2. bits \in SUBSET (0 .. 22)
    OBVIOUS
  <2>3. \A k \in 1 .. 23 : OutNames[k] \in names <=> k - 1 \in bits
    BY PlacesOfNames
  <2> HIDE DEF names, bits
  <2>4. Named(OutDevices(qcom), names) = {{x} : x \in bits}
    BY <2>1, <2>2, <2>3, OutsNamed
  <2> QED BY <2>4 DEF names, bits
<1>3. Named(OutDevices(qcom), Usb) = {{x} : x \in {13, 14}}
  <2> DEFINE names == Usb
             bits == {13, 14}
  <2>1. {"DEFAULT", "FM_TX", "PROXY"} \cap names = {}
    BY DEF Usb
  <2>2. bits \in SUBSET (0 .. 22)
    OBVIOUS
  <2>3. \A k \in 1 .. 23 : OutNames[k] \in names <=> k - 1 \in bits
    BY PlacesOfNames
  <2> HIDE DEF names, bits
  <2>4. Named(OutDevices(qcom), names) = {{x} : x \in bits}
    BY <2>1, <2>2, <2>3, OutsNamed
  <2> QED BY <2>4 DEF names, bits
<1>4. Named(OutDevices(qcom), {"REMOTE_SUBMIX"}) = {{x} : x \in {15}}
  <2> DEFINE names == {"REMOTE_SUBMIX"}
             bits == {15}
  <2>1. {"DEFAULT", "FM_TX", "PROXY"} \cap names = {}
    OBVIOUS
  <2>2. bits \in SUBSET (0 .. 22)
    OBVIOUS
  <2>3. \A k \in 1 .. 23 : OutNames[k] \in names <=> k - 1 \in bits
    BY PlacesOfNames
  <2> HIDE DEF names, bits
  <2>4. Named(OutDevices(qcom), names) = {{x} : x \in bits}
    BY <2>1, <2>2, <2>3, OutsNamed
  <2> QED BY <2>4 DEF names, bits
<1>5. Named(InDevices(qcom), {"BLUETOOTH_A2DP"}) = {{31, x} : x \in {17}}
  <2> DEFINE names == {"BLUETOOTH_A2DP"}
             bits == {17}
  <2>1. {"DEFAULT", "PROXY", "FM_RX", "FM_RX_A2DP"} \cap names = {}
    OBVIOUS
  <2>2. bits \in SUBSET (0 .. 18)
    OBVIOUS
  <2>3. \A k \in 1 .. 19 : InNames[k] \in names <=> k - 1 \in bits
    BY PlacesOfNames
  <2> HIDE DEF names, bits
  <2>4. Named(InDevices(qcom), names) = {{31, x} : x \in bits}
    BY <2>1, <2>2, <2>3, InsNamed
  <2> QED BY <2>4 DEF names, bits
<1>6. Named(InDevices(qcom), {"BLUETOOTH_SCO_HEADSET"}) = {{31, x} : x \in {3}}
  <2> DEFINE names == {"BLUETOOTH_SCO_HEADSET"}
             bits == {3}
  <2>1. {"DEFAULT", "PROXY", "FM_RX", "FM_RX_A2DP"} \cap names = {}
    OBVIOUS
  <2>2. bits \in SUBSET (0 .. 18)
    OBVIOUS
  <2>3. \A k \in 1 .. 19 : InNames[k] \in names <=> k - 1 \in bits
    BY PlacesOfNames
  <2> HIDE DEF names, bits
  <2>4. Named(InDevices(qcom), names) = {{31, x} : x \in bits}
    BY <2>1, <2>2, <2>3, InsNamed
  <2> QED BY <2>4 DEF names, bits
<1>7. Named(InDevices(qcom), Usb) = {{31, x} : x \in {11, 12}}
  <2> DEFINE names == Usb
             bits == {11, 12}
  <2>1. {"DEFAULT", "PROXY", "FM_RX", "FM_RX_A2DP"} \cap names = {}
    BY DEF Usb
  <2>2. bits \in SUBSET (0 .. 18)
    OBVIOUS
  <2>3. \A k \in 1 .. 19 : InNames[k] \in names <=> k - 1 \in bits
    BY PlacesOfNames
  <2> HIDE DEF names, bits
  <2>4. Named(InDevices(qcom), names) = {{31, x} : x \in bits}
    BY <2>1, <2>2, <2>3, InsNamed
  <2> QED BY <2>4 DEF names, bits
<1>8. Named(InDevices(qcom), {"LINE"}) = {{31, x} : x \in {15}}
  <2> DEFINE names == {"LINE"}
             bits == {15}
  <2>1. {"DEFAULT", "PROXY", "FM_RX", "FM_RX_A2DP"} \cap names = {}
    OBVIOUS
  <2>2. bits \in SUBSET (0 .. 18)
    OBVIOUS
  <2>3. \A k \in 1 .. 19 : InNames[k] \in names <=> k - 1 \in bits
    BY PlacesOfNames
  <2> HIDE DEF names, bits
  <2>4. Named(InDevices(qcom), names) = {{31, x} : x \in bits}
    BY <2>1, <2>2, <2>3, InsNamed
  <2> QED BY <2>4 DEF names, bits
<1>9. Named(InDevices(qcom), {"REMOTE_SUBMIX"}) = {{31, x} : x \in {8}}
  <2> DEFINE names == {"REMOTE_SUBMIX"}
             bits == {8}
  <2>1. {"DEFAULT", "PROXY", "FM_RX", "FM_RX_A2DP"} \cap names = {}
    OBVIOUS
  <2>2. bits \in SUBSET (0 .. 18)
    OBVIOUS
  <2>3. \A k \in 1 .. 19 : InNames[k] \in names <=> k - 1 \in bits
    BY PlacesOfNames
  <2> HIDE DEF names, bits
  <2>4. Named(InDevices(qcom), names) = {{31, x} : x \in bits}
    BY <2>1, <2>2, <2>3, InsNamed
  <2> QED BY <2>4 DEF names, bits
<1> QED BY <1>1, <1>2, <1>3, <1>4, <1>5, <1>6, <1>7, <1>8, <1>9

LEMMA AnswersAboutDevice ==
  ASSUME NEW d \in DeviceMasks, NEW qcom \in BOOLEAN
  PROVE  /\ audio_is_output_device(d, qcom) <=> d \in {{x} : x \in OutputBits(qcom)}
         /\ audio_is_input_device(d, qcom) <=> d \in {{31, x} : x \in InputBits(qcom)}
         /\ audio_is_a2dp_out_device(d) <=> d \in {{x} : x \in {7, 8, 9}}
         /\ audio_is_a2dp_in_device(d) <=> d \in {{31, x} : x \in {17}}
         /\ audio_is_bluetooth_sco_device(d) <=>
              d \in {{x} : x \in {4, 5, 6}} \cup {{31, x} : x \in {3}}
         /\ audio_is_usb_out_device(d) <=> d \in {{x} : x \in {13, 14}}
         /\ audio_is_usb_in_device(d) <=> d \in {{31, x} : x \in {11, 12}}
<1> USE DEF AUDIO_DEVICE_BIT_IN
<1>1. 31 \notin 0 .. 30 /\ OutputBits(qcom) \subseteq 0 .. 30 /\ InputBits(qcom) \subseteq 0 .. 30
  BY DEF OutputBits, InputBits
<1>2. IsInput(d) <=> 31 \in d
  BY DEF IsInput
<1>3. ASSUME NEW bits \in SUBSET (0 .. 30)
      PROVE  /\ Cardinality(d) = 1 /\ d \subseteq bits <=> d \in {{x} : x \in bits}
             /\ Cardinality(d) = 1 /\ d \cap bits # {} <=> d \in {{x} : x \in bits}
             /\ SingleInput(d) /\ d \subseteq bits \cup {31} <=> d \in {{31, x} : x \in bits}
             /\ SingleInput(d) /\ (d \ {31}) \cap (bits \cup {31}) # {}
                  <=> d \in {{31, x} : x \in bits}
             /\ d \in {{x} : x \in bits} => 31 \notin d
             /\ d \in {{31, x} : x \in bits} => 31 \in d
  <2>1. d \in {{x} : x \in bits} <=> \E x \in bits : d = {x}
    OBVIOUS
  <2>2. d \in {{31, x} : x \in bits} <=> \E x \in bits : d = {31, x}
    OBVIOUS
  <2>3. Cardinality(d) = 1 /\ d \subseteq bits <=> \E x \in bits : d = {x}
    BY DeviceShape
  <2>4. Cardinality(d) = 1 /\ d \cap bits # {} <=> \E x \in bits : d = {x}
    BY DeviceShape
  <2>5. SingleInput(d) /\ d \subseteq bits \cup {31} <=> \E x \in bits : d = {31, x}
    <3>1. ASSUME SingleInput(d), d \subseteq bits \cup {31} PROVE \E x \in bits : d = {31, x}
      BY <1>1, <3>1, DeviceShape
    <3>2. ASSUME NEW x \in bits, d = {31, x} PROVE SingleInput(d) /\ d \subseteq bits \cup {31}
      <4>1. SingleInput(d)
        BY <3>2, DeviceShape
      <4> QED BY <3>2, <4>1
    <3> QED BY <3>1, <3>2
  <2>6. SingleInput(d) /\ (d \ {31}) \cap (bits \cup {31}) # {} <=> \E x \in bits : d = {31, x}
    <3>1. ASSUME SingleInput(d), (d \ {31}) \cap (bits \cup {31}) # {}
          PROVE  \E x \in bits : d = {31, x}
      BY <3>1, DeviceShape
    <3>2. ASSUME NEW x \in bits, d = {31, x}
          PROVE  SingleInput(d) /\ (d \ {31}) \cap (bits \cup {31}) # {}
      <4>1. SingleInput(d)
        BY <3>2, DeviceShape
      <4>2. x \in (d \ {31}) \cap (bits \cup {31})
        BY <1>1, <3>2
      <4> QED BY <4>1, <4>2
    <3> QED BY <3>1, <3>2
  <2>7. \A x \in bits : 31 \notin {x} /\ 31 \in {31, x}
    BY <1>1
  <2> QED BY <2>1, <2>2, <2>3, <2>4, <2>5, <2>6, <2>7, Zenon
<1>4. audio_is_output_device(d, qcom) <=> d \in {{x} : x \in OutputBits(qcom)}
  <2>1. OutputBits(qcom) \in SUBSET (0 .. 30)
    BY <1>1
  <2>2. /\ Cardinality(d) = 1 /\ d \subseteq OutputBits(qcom)
             <=> d \in {{x} : x \in OutputBits(qcom)}
        /\ d \in {{x} : x \in OutputBits(qcom)} => 31 \notin d
    BY <1>3, <2>1, Zenon
  <2> QED BY <1>2, <2>2, OutMasks, Zenon DEF audio_is_output_device
<1>5. audio_is_input_device(d, qcom) <=> d \in {{31, x} : x \in InputBits(qcom)}
  <2>1. InputBits(qcom) \in SUBSET (0 .. 30)
    BY <1>1
  <2>2. SingleInput(d) /\ d \subseteq InputBits(qcom) \cup {31}
          <=> d \in {{31, x} : x \in InputBits(qcom)}
    BY <1>3, <2>1, Zenon
  <2> QED BY <2>2, InMasks, Zenon DEF audio_is_input_device
<1>6. audio_is_a2dp_out_device(d) <=> d \in {{x} : x \in {7, 8, 9}}
  <2>1. {7, 8, 9} \in SUBSET (0 .. 30)
    OBVIOUS
  <2> QED BY <1>3, <2>1, Zenon DEF audio_is_a2dp_out_device, AUDIO_DEVICE_OUT_ALL_A2DP
<1>7. audio_is_a2dp_in_device(d) <=> d \in {{31, x} : x \in {17}}
  <2>1. {17} \in SUBSET (0 .. 30)
    OBVIOUS
  <2>2. d \in {{31, x} : x \in {17}} <=> d = {31, 17}
    OBVIOUS
  <2>3. d \in {{31, x} : x \in {17}} => SingleInput(d)
    BY <1>3, <2>1, Zenon
  <2> QED BY <2>2, <2>3 DEF audio_is_a2dp_in_device, AUDIO_DEVICE_IN_BLUETOOTH_A2DP
<1>8. audio_is_bluetooth_sco_device(d) <=>
        d \in {{x} : x \in {4, 5, 6}} \cup {{31, x} : x \in {3}}
  <2>1. {4, 5, 6} \in SUBSET (0 .. 30) /\ {3} \in SUBSET (0 .. 30) /\ {31, 3} = {3} \cup {31}
    OBVIOUS
  <2>2. /\ Cardinality(d) = 1 /\ d \subseteq {4, 5, 6} <=> d \in {{x} : x \in {4, 5, 6}}
        /\ d \in {{x} : x \in {4, 5, 6}} => 31 \notin d
    BY <1>3, <2>1, Zenon
  <2>3. /\ SingleInput(d) /\ d \subseteq {3} \cup {31} <=> d \in {{31, x} : x \in {3}}
        /\ d \in {{31, x} : x \in {3}} => 31 \in d
    BY <1>3, <2>1, Zenon
  <2>4. audio_is_bluetooth_sco_device(d)
          <=> IF ~(31 \in d) THEN Cardinality(d) = 1 /\ d \subseteq {4, 5, 6}
              ELSE SingleInput(d) /\ d \subseteq {3} \cup {31}
    BY <1>2, <2>1 DEF audio_is_bluetooth_sco_device, AUDIO_DEVICE_OUT_ALL_SCO,
       AUDIO_DEVICE_IN_BLUETOOTH_SCO_HEADSET
  <2> QED BY <2>2, <2>3, <2>4, Zenon
<1>9. audio_is_usb_out_device(d) <=> d \in {{x} : x \in {13, 14}}
  <2>1. {13, 14} \in SUBSET (0 .. 30)
    OBVIOUS
  <2> QED BY <1>3, <2>1, Zenon DEF audio_is_usb_out_device, AUDIO_DEVICE_OUT_ALL_USB
<1>10. audio_is_usb_in_device(d) <=> d \in {{31, x} : x \in {11, 12}}
  <2>1. {11, 12} \in SUBSET (0 .. 30) /\ {31, 11, 12} = {11, 12} \cup {31}
    OBVIOUS
  <2>2. SingleInput(d) /\ (d \ {31}) \cap ({11, 12} \cup {31}) # {}
          <=> d \in {{31, x} : x \in {11, 12}}
    BY <1>3, <2>1, Zenon
  <2> QED BY <2>1, <2>2, Zenon DEF audio_is_usb_in_device, AUDIO_DEVICE_IN_ALL_USB
<1> QED BY <1>4, <1>5, <1>6, <1>7, <1>8, <1>9, <1>10

\* The answers agree with the names, for one device or two of a direction.
THEOREM DevicesClassifiedHolds == Spec => []DevicesClassified
<1>1. ASSUME Answered, Returned("device") PROVE DevicesClassified
  <2> DEFINE d == call.device
             q == call.qcom
             outs == OutDevices(call.qcom)
             ins == InDevices(call.qcom)
             Has(devices, names) == \E mask \in Named(devices, names) : mask \subseteq d
  <2>1. d \in DeviceMasks /\ q \in BOOLEAN
    BY <1>1, DeviceCall DEF Answered, Returned
  <2>2. /\ Value.output = audio_is_output_device(d, q)
        /\ Value.input = audio_is_input_device(d, q)
        /\ Value.outputs = audio_is_output_devices(d)
        /\ Value.sco = audio_is_bluetooth_sco_device(d)
        /\ Value.a2dpOut = audio_is_a2dp_out_device(d)
        /\ Value.a2dpIn = audio_is_a2dp_in_device(d)
        /\ Value.usbOut = audio_is_usb_out_device(d)
        /\ Value.usbIn = audio_is_usb_in_device(d)
        /\ Value.submix = audio_is_remote_submix_device(d)
        /\ Value.parameter = audio_device_address_to_parameter(d)
    BY <1>1 DEF Answered, Questions
  <2> HIDE DEF d
  <2>3. Value.outputs <=> 31 \notin d
    BY <2>2 DEF audio_is_output_devices, IsInput, AUDIO_DEVICE_BIT_IN
  <2>4. /\ Value.output <=> d \in {e.mask : e \in outs}
        /\ Value.input <=> d \in {e.mask : e \in ins}
    BY <2>1, <2>2, AnswersAboutDevice, OutMasks, InMasks
  <2>5. /\ Value.output => Value.outputs
        /\ Value.input => ~Value.outputs
    BY <2>2 DEF audio_is_output_device, audio_is_input_device, SingleInput, audio_is_output_devices
  <2>6. /\ Value.a2dpOut <=> d \in Named(outs, A2dpOut)
        /\ Value.a2dpIn <=> d \in Named(ins, {"BLUETOOTH_A2DP"})
        /\ Value.sco <=> d \in Named(outs, ScoOut) \cup Named(ins, {"BLUETOOTH_SCO_HEADSET"})
        /\ Value.usbOut <=> d \in Named(outs, Usb)
        /\ Value.usbIn <=> d \in Named(ins, Usb)
    BY <2>1, <2>2, AnswersAboutDevice, NamedMasks
  <2>7. /\ Has(outs, A2dpOut) <=> d \cap {7, 8, 9} # {}
        /\ Has(outs, {"REMOTE_SUBMIX"}) <=> 15 \in d
        /\ Has(ins, {"LINE"}) <=> {31, 15} \subseteq d
        /\ Has(ins, {"REMOTE_SUBMIX"}) <=> {31, 8} \subseteq d
    <3>1. /\ Named(outs, A2dpOut) = {{x} : x \in {7, 8, 9}}
          /\ Named(outs, {"REMOTE_SUBMIX"}) = {{x} : x \in {15}}
          /\ Named(ins, {"LINE"}) = {{31, x} : x \in {15}}
          /\ Named(ins, {"REMOTE_SUBMIX"}) = {{31, x} : x \in {8}}
      BY <2>1, NamedMasks, Zenon
    <3> HIDE DEF outs, ins
    <3>2. Has(outs, A2dpOut) <=> d \cap {7, 8, 9} # {}
      <4>1. Has(outs, A2dpOut) <=> \E mask \in {{x} : x \in {7, 8, 9}} : mask \subseteq d
        BY <3>1, Zenon
      <4> DEFINE bits == {7, 8, 9}
                 masks == {{x} : x \in bits}
      <4>2. ASSUME NEW mask \in masks, mask \subseteq d PROVE d \cap bits # {}
        <5>1. PICK x \in bits : mask = {x}
          OBVIOUS
        <5> QED BY <4>2, <5>1
      <4>3. ASSUME NEW x \in d \cap bits PROVE \E mask \in masks : mask \subseteq d
        <5>1. {x} \in masks /\ {x} \subseteq d
          OBVIOUS
        <5> HIDE DEF masks
        <5> QED BY <5>1
      <4>4. (\E mask \in masks : mask \subseteq d) <=> d \cap bits # {}
        <5> HIDE DEF bits, masks
        <5> QED BY <4>2, <4>3
      <4> QED BY <4>1, <4>4, Zenon
    <3>3. Has(outs, {"REMOTE_SUBMIX"}) <=> 15 \in d
      <4>1. Has(outs, {"REMOTE_SUBMIX"}) <=> \E mask \in {{x} : x \in {15}} : mask \subseteq d
        BY <3>1, Zenon
      <4>2. (\E mask \in {{x} : x \in {15}} : mask \subseteq d) <=> 15 \in d
        OBVIOUS
      <4> QED BY <4>1, <4>2, Zenon
    <3>4. Has(ins, {"LINE"}) <=> {31, 15} \subseteq d
      <4>1. Has(ins, {"LINE"}) <=> \E mask \in {{31, x} : x \in {15}} : mask \subseteq d
        BY <3>1, Zenon
      <4>2. (\E mask \in {{31, x} : x \in {15}} : mask \subseteq d) <=> {31, 15} \subseteq d
        OBVIOUS
      <4> QED BY <4>1, <4>2, Zenon
    <3>5. Has(ins, {"REMOTE_SUBMIX"}) <=> {31, 8} \subseteq d
      <4>1. Has(ins, {"REMOTE_SUBMIX"}) <=> \E mask \in {{31, x} : x \in {8}} : mask \subseteq d
        BY <3>1, Zenon
      <4>2. (\E mask \in {{31, x} : x \in {8}} : mask \subseteq d) <=> {31, 8} \subseteq d
        OBVIOUS
      <4> QED BY <4>1, <4>2, Zenon
    <3> HIDE DEF Has
    <3> QED BY <3>2, <3>3, <3>4, <3>5
  <2>8. ~Has(ins, {"LINE"}) =>
          (Value.submix <=> Has(IF Value.outputs THEN outs ELSE ins, {"REMOTE_SUBMIX"}))
    <3>1. Value.submix <=> 15 \in d \/ {31, 8} \subseteq d
      BY <2>2 DEF audio_is_remote_submix_device, AUDIO_DEVICE_OUT_REMOTE_SUBMIX,
         AUDIO_DEVICE_IN_REMOTE_SUBMIX, AUDIO_DEVICE_BIT_IN
    <3>2. CASE Value.outputs
      BY <2>3, <2>7, <3>1, <3>2
    <3>3. CASE ~Value.outputs
      BY <2>3, <2>7, <3>1, <3>3
    <3> QED BY <3>2, <3>3
  <2>9. /\ Value.parameter = "a2dp_sink_address=" <=> Has(outs, A2dpOut)
        /\ Value.parameter = "mix=" <=> ~Has(outs, A2dpOut) /\ Has(outs, {"REMOTE_SUBMIX"})
    <3>1. /\ d \cap {7, 8, 9} # {} => Value.parameter = "a2dp_sink_address="
          /\ d \cap {7, 8, 9} = {} /\ 15 \in d => Value.parameter = "mix="
          /\ d \cap {7, 8, 9} = {} /\ 15 \notin d => Value.parameter = ""
      <4>1. d \cap {15} # {} <=> 15 \in d
        OBVIOUS
      <4> QED BY <2>2, <4>1, Zenon DEF audio_device_address_to_parameter,
                 AUDIO_DEVICE_OUT_ALL_A2DP, AUDIO_DEVICE_OUT_REMOTE_SUBMIX
    <3> HIDE DEF Has
    <3> QED BY <2>7, <3>1, Zenon
  <2> HIDE DEF outs, ins, Has
  <2> QED BY <2>4, <2>5, <2>6, <2>8, <2>9 DEF DevicesClassified, d, outs, ins, Has
<1>2. Answered => DevicesClassified
  BY <1>1 DEF DevicesClassified
<1> QED BY AlwaysAnswered, <1>2, PTL
-----------------------------------------------------------------------------
(* Owners and modes of files: the first rule that matches.                 *)

IsSequence(s) == \E S : s \in Seq(S)

\* Sequences of no particular set.
LEMMA LengthFacts ==
  ASSUME NEW s, IsSequence(s)
  PROVE  Len(s) \in Nat /\ (s = <<>> <=> Len(s) = 0)
<1>1. PICK S : s \in Seq(S)
  BY DEF IsSequence
<1> QED BY <1>1, EmptySeq, LenProperties

LEMMA LongerSequences ==
  ASSUME NEW s, IsSequence(s)
  PROVE  /\ \A e : IsSequence(Append(s, e)) /\ IsSequence(<<e>> \o s)
         /\ \A a, b : IsSequence(s \o <<a, b>>)
<1>1. PICK S : s \in Seq(S)
  BY DEF IsSequence
<1>2. ASSUME NEW e PROVE IsSequence(Append(s, e)) /\ IsSequence(<<e>> \o s)
  <2> DEFINE T == S \cup {e}
  <2>1. s \in Seq(T) /\ <<e>> \in Seq(T) /\ e \in T
    BY <1>1
  <2> HIDE DEF T
  <2>2. Append(s, e) \in Seq(T)
    BY <2>1, AppendProperties
  <2>3. <<e>> \o s \in Seq(T)
    BY <2>1, ConcatProperties
  <2> QED BY <2>2, <2>3 DEF IsSequence
<1>3. ASSUME NEW a, NEW b PROVE IsSequence(s \o <<a, b>>)
  <2> DEFINE T == S \cup {a, b}
  <2>1. s \in Seq(T) /\ <<a, b>> \in Seq(T)
    BY <1>1
  <2> HIDE DEF T
  <2>2. s \o <<a, b>> \in Seq(T)
    BY <2>1, ConcatProperties
  <2> QED BY <2>2 DEF IsSequence
<1> QED BY <1>2, <1>3

LEMMA ShorterSequences ==
  ASSUME NEW s, IsSequence(s), s # <<>>
  PROVE  /\ IsSequence(Tail(s)) /\ IsSequence(Front(s))
         /\ Len(Front(s)) = Len(s) - 1
         /\ \A i \in 1 .. Len(s) - 1 : Front(s)[i] = s[i]
<1>1. PICK S : s \in Seq(S)
  BY DEF IsSequence
<1>2. Tail(s) \in Seq(S)
  BY <1>1, HeadTailProperties
<1>3. /\ 1 \in Int /\ Len(s) - 1 \in Nat
      /\ \A i \in 1 .. Len(s) - 1 : s[i] \in S
  BY LengthFacts, <1>1, LenProperties
<1> DEFINE n == Len(s) - 1
<1>4. /\ SubSeq(s, 1, n) \in Seq(S)
      /\ Len(SubSeq(s, 1, n)) = IF 1 <= n THEN n - 1 + 1 ELSE 0
      /\ \A i \in 1 .. n - 1 + 1 : SubSeq(s, 1, n)[i] = s[1 + i - 1]
  <2> HIDE DEF n
  <2> QED BY <1>3, SubSeqProperties DEF n
<1>5. n - 1 + 1 = n /\ \A i \in 1 .. n : 1 + i - 1 = i
  BY <1>3
<1>6. Front(s) = SubSeq(s, 1, n)
  BY DEF Front
<1> HIDE DEF n
<1>7. IsSequence(Tail(s)) /\ IsSequence(Front(s))
  BY <1>2, <1>4, <1>6 DEF IsSequence
<1>8. Len(Front(s)) = n
  BY <1>3, <1>4, <1>5, <1>6 DEF n
<1>9. \A i \in 1 .. n : Front(s)[i] = s[i]
  BY <1>4, <1>5, <1>6
<1> QED BY <1>7, <1>8, <1>9 DEF n

\* Prefixes, element by element.
LEMMA PrefixFacts ==
  ASSUME NEW s, NEW t, IsSequence(s), IsSequence(t)
  PROVE  /\ s = <<>> => IsPrefix(s, t)
         /\ IsPrefix(s, t) => Len(s) <= Len(t) /\ \A i \in 1 .. Len(s) : s[i] = t[i]
<1>1. Len(s) \in Nat /\ Len(t) \in Nat /\ (s = <<>> => Len(s) = 0)
  BY LengthFacts
<1>2. ASSUME s = <<>> PROVE IsPrefix(s, t)
  <2>1. SubSeq(s, 1, Len(s)) = <<>> /\ SubSeq(t, 1, Len(s)) = <<>>
    BY <1>1, <1>2, SubSeqEmpty
  <2> QED BY <1>1, <1>2, <2>1 DEF IsPrefix
<1>3. ASSUME NEW u PROVE \A i \in 1 .. Len(s) : SubSeq(u, 1, Len(s))[i] = u[i]
  <2> DEFINE n == Len(s)
             S == {u[i] : i \in 1 .. n}
  <2>1. 1 \in Int /\ n \in Int /\ \A i \in 1 .. n : u[i] \in S
    BY <1>1
  <2> HIDE DEF n, S
  <2>2. \A i \in 1 .. n - 1 + 1 : SubSeq(u, 1, n)[i] = u[1 + i - 1]
    BY <2>1, SubSeqProperties
  <2>3. n - 1 + 1 = n /\ \A i \in 1 .. n : 1 + i - 1 = i
    BY <2>1
  <2> QED BY <2>2, <2>3 DEF n
<1>4. ASSUME IsPrefix(s, t) PROVE Len(s) <= Len(t) /\ \A i \in 1 .. Len(s) : s[i] = t[i]
  <2>1. Len(s) <= Len(t) /\ SubSeq(s, 1, Len(s)) = SubSeq(t, 1, Len(s))
    BY <1>4 DEF IsPrefix
  <2> QED BY <1>3, <2>1
<1> QED BY <1>2, <1>4

\* The length of a text, its first pieces and its last.
Pieces(p, n, first, second, third, last) ==
  /\ IsSequence(p) /\ Len(p) = n
  /\ n >= 1 => p[1] = first /\ p[n] = last
  /\ n >= 2 => p[2] = second
  /\ n >= 3 => p[3] = third

\* Of a prefix that is written out.
LEMMA PiecesOf0 ==
  Pieces(<<>>, 0, "-", "-", "-", "-")
<1>1. IsSequence(<<>>)
  <2>1. <<>> \in Seq({})
    OBVIOUS
  <2> QED BY <2>1, Zenon DEF IsSequence
<1> QED BY <1>1 DEF Pieces

LEMMA PiecesOf1 ==
  ASSUME NEW a
  PROVE  Pieces(<<a>>, 1, a, "-", "-", a)
<1>1. IsSequence(<<a>>)
  <2>1. <<a>> \in Seq({a})
    OBVIOUS
  <2> QED BY <2>1, Zenon DEF IsSequence
<1> QED BY <1>1 DEF Pieces

LEMMA PiecesOf2 ==
  ASSUME NEW a, NEW b
  PROVE  Pieces(<<a, b>>, 2, a, b, "-", b)
<1>1. IsSequence(<<a, b>>)
  <2>1. <<a, b>> \in Seq({a, b})
    OBVIOUS
  <2> QED BY <2>1, Zenon DEF IsSequence
<1> QED BY <1>1 DEF Pieces

LEMMA PiecesOf3 ==
  ASSUME NEW a, NEW b, NEW c
  PROVE  Pieces(<<a, b, c>>, 3, a, b, c, c)
<1>1. IsSequence(<<a, b, c>>)
  <2>1. <<a, b, c>> \in Seq({a, b, c})
    OBVIOUS
  <2> QED BY <2>1, Zenon DEF IsSequence
<1> QED BY <1>1 DEF Pieces

LEMMA PiecesOf4 ==
  ASSUME NEW a, NEW b, NEW c, NEW d
  PROVE  Pieces(<<a, b, c, d>>, 4, a, b, c, d)
<1>1. IsSequence(<<a, b, c, d>>)
  <2>1. <<a, b, c, d>> \in Seq({a, b, c, d})
    OBVIOUS
  <2> QED BY <2>1, Zenon DEF IsSequence
<1> QED BY <1>1 DEF Pieces

LEMMA PiecesOf5 ==
  ASSUME NEW a, NEW b, NEW c, NEW d, NEW e
  PROVE  Pieces(<<a, b, c, d, e>>, 5, a, b, c, e)
<1>1. IsSequence(<<a, b, c, d, e>>)
  <2>1. <<a, b, c, d, e>> \in Seq({a, b, c, d, e})
    OBVIOUS
  <2> QED BY <2>1, Zenon DEF IsSequence
<1> QED BY <1>1 DEF Pieces

LEMMA PiecesOf6 ==
  ASSUME NEW a, NEW b, NEW c, NEW d, NEW e, NEW f
  PROVE  Pieces(<<a, b, c, d, e, f>>, 6, a, b, c, f)
<1>1. IsSequence(<<a, b, c, d, e, f>>)
  <2>1. <<a, b, c, d, e, f>> \in Seq({a, b, c, d, e, f})
    OBVIOUS
  <2> QED BY <2>1, Zenon DEF IsSequence
<1> QED BY <1>1 DEF Pieces

LEMMA PiecesOf7 ==
  ASSUME NEW a, NEW b, NEW c, NEW d, NEW e, NEW f, NEW g
  PROVE  Pieces(<<a, b, c, d, e, f, g>>, 7, a, b, c, g)
<1>1. IsSequence(<<a, b, c, d, e, f, g>>)
  <2>1. <<a, b, c, d, e, f, g>> \in Seq({a, b, c, d, e, f, g})
    OBVIOUS
  <2> QED BY <2>1, Zenon DEF IsSequence
<1> QED BY <1>1 DEF Pieces

\* The text of a rule, by the length and the last piece of its prefix.
TextOf(rule, n, last) ==
  /\ rule.prefix = <<>> <=> n = 0
  /\ Wild(rule) <=> n # 0 /\ last = "*"
  /\ IsSequence(Text(rule))
  /\ Len(Text(rule)) = IF Wild(rule) THEN n - 1 ELSE n
  /\ \A i \in 1 .. Len(Text(rule)) : Text(rule)[i] = rule.prefix[i]

LEMMA TextFacts ==
  ASSUME NEW rule, NEW n \in Nat, NEW a, NEW b, NEW c, NEW last,
         Pieces(rule.prefix, n, a, b, c, last)
  PROVE  TextOf(rule, n, last)
<1>1. IsSequence(rule.prefix) /\ Len(rule.prefix) = n /\ (n >= 1 => rule.prefix[n] = last)
  BY DEF Pieces
<1>2. rule.prefix = <<>> <=> n = 0
  BY <1>1, LengthFacts
<1>3. Wild(rule) <=> n # 0 /\ last = "*"
  BY <1>1, <1>2 DEF Wild, Last
<1>4. /\ IsSequence(Text(rule))
      /\ Len(Text(rule)) = IF Wild(rule) THEN n - 1 ELSE n
      /\ \A i \in 1 .. Len(Text(rule)) : Text(rule)[i] = rule.prefix[i]
  <2>1. CASE Wild(rule)
    <3>1. Text(rule) = Front(rule.prefix) /\ rule.prefix # <<>>
      BY <1>2, <1>3, <2>1 DEF Text
    <3>2. /\ IsSequence(Front(rule.prefix)) /\ Len(Front(rule.prefix)) = n - 1
          /\ \A i \in 1 .. n - 1 : Front(rule.prefix)[i] = rule.prefix[i]
      BY <1>1, <3>1, ShorterSequences
    <3> QED BY <2>1, <3>1, <3>2
  <2>2. CASE ~Wild(rule)
    BY <1>1, <2>2 DEF Text
  <2> QED BY <2>1, <2>2
<1> QED BY <1>2, <1>3, <1>4 DEF TextOf

\* The tables by columns: the lengths of the prefixes, their first pieces, the
\* last; "-" where there is none.
DirLength ==
  <<1, 2, 3, 2, 2, 3, 2, 2, 3, 3, 2, 3, 1, 1, 2, 2, 2, 3, 2, 1, 1, 0>>
DirFirst ==
  <<"cache", "data", "data", "data", "data", "data", "data", "data", "data", "data",
    "data", "data", "data", "sbin", "system", "system", "system", "system", "system",
    "vendor", "sdcard", "-">>
DirSecond ==
  <<"-", "/app", "/app", "/dalvik-cache", "/data", "/local", "/local", "/misc",
    "/misc", "/misc", "/media", "/media", "-", "-", "/bin", "/vendor", "/xbin",
    "/etc", "/etc", "-", "-", "-">>
DirThird ==
  <<"-", "-", "-private", "-", "-", "/tmp", "-", "-", "/dhcp", "/shared_relro", "-",
    "/Music", "-", "-", "-", "-", "-", "/ppp", "-", "-", "-", "-">>
DirLast ==
  <<"cache", "/app", "-private", "/dalvik-cache", "/data", "/tmp", "/local", "/misc",
    "/dhcp", "/shared_relro", "/media", "/Music", "data", "sbin", "/bin", "/vendor",
    "/xbin", "/ppp", "/etc", "vendor", "sdcard", "-">>
DirPieces(k) ==
  Pieces(android_dirs[k].prefix, DirLength[k], DirFirst[k], DirSecond[k], DirThird[k],
         DirLast[k])

LEMMA DirsHavePieces == \A k \in 1 .. 22 : DirPieces(k)
<1> USE DEF DirPieces, android_dirs, Rule, Default, DirLength, DirFirst, DirSecond, DirThird,
            DirLast
<1>1. DirPieces(1)
  BY PiecesOf1
<1>2. DirPieces(2)
  BY PiecesOf2
<1>3. DirPieces(3)
  BY PiecesOf3
<1>4. DirPieces(4)
  BY PiecesOf2
<1>5. DirPieces(5)
  BY PiecesOf2
<1>6. DirPieces(6)
  BY PiecesOf3
<1>7. DirPieces(7)
  BY PiecesOf2
<1>8. DirPieces(8)
  BY PiecesOf2
<1>9. DirPieces(9)
  BY PiecesOf3
<1>10. DirPieces(10)
  BY PiecesOf3
<1>11. DirPieces(11)
  BY PiecesOf2
<1>12. DirPieces(12)
  BY PiecesOf3
<1>13. DirPieces(13)
  BY PiecesOf1
<1>14. DirPieces(14)
  BY PiecesOf1
<1>15. DirPieces(15)
  BY PiecesOf2
<1>16. DirPieces(16)
  BY PiecesOf2
<1>17. DirPieces(17)
  BY PiecesOf2
<1>18. DirPieces(18)
  BY PiecesOf3
<1>19. DirPieces(19)
  BY PiecesOf2
<1>20. DirPieces(20)
  BY PiecesOf1
<1>21. DirPieces(21)
  BY PiecesOf1
<1>22. DirPieces(22)
  BY PiecesOf0
<1> HIDE DEF DirPieces
<1> QED
  BY <1>1, <1>2, <1>3, <1>4, <1>5, <1>6, <1>7, <1>8, <1>9, <1>10, <1>11, <1>12, <1>13,
     <1>14, <1>15, <1>16, <1>17, <1>18, <1>19, <1>20, <1>21, <1>22

FileLength ==
  <<5, 5, 5, 5, 5, 4, 3, 5, 4, 4, 4, 5, 4, 4, 4, 4, 4, 4, 4, 4, 4, 4, 4, 4, 7, 5, 6,
    4, 5, 4, 3, 3, 2, 3, 2, 7, 0>>
FileFirst ==
  <<"system", "system", "system", "system", "system", "system", "system", "system",
    "system", "data", "data", "data", "data", "system", "system", "system", "system",
    "system", "system", "system", "system", "system", "system", "system", "system",
    "system", "system", "system", "system", "vendor", "sbin", "bin", "init", "sbin",
    "fstab.", "system", "-">>
FileSecond ==
  <<"/etc", "/etc", "/etc", "/etc", "/etc", "/etc", "/etc", "/etc", "/etc", "/app",
    "/media", "/app", "/data", "/bin", "/bin", "/xbin", "/xbin", "/xbin", "/xbin",
    "/bin", "/bin", "/bin", "/bin", "/bin", "/etc", "/lib", "/lib", "/xbin",
    "/vendor", "/bin", "/", "/", "*", "/", "*", "/etc", "-">>
FileThird ==
  <<"/", "/", "/", "/", "/", "/dhcpcd", "/AudioPara4.csv", "/ppp", "/rc.", "/", "/",
    "-private", "/", "/", "/", "/", "/", "/", "/", "/", "/", "/", "/", "/", "/",
    "/valgrind", "64", "/", "/bin", "/", "*", "*", "-", "fs_mgr", "-", "/", "-">>
FileLast ==
  <<".goldfish.rc", ".goldfish.sh", ".trout.rc", ".ril", ".testmenu",
    "/dhcpcd-run-hooks", "/AudioPara4.csv", "*", "*", "*", "*", "*", "*", "ping",
    "netcfg", "su", "librank", "procrank", "procmem", "pppd-ril", "run-as",
    "uncrypt", "install-recovery.sh", "*", "*", "*", "*", "*", "*", "*", "*", "*",
    "*", "fs_mgr", "*", "*", "-">>
FilePieces(k) ==
  Pieces(android_files[k].prefix, FileLength[k], FileFirst[k], FileSecond[k], FileThird[k],
         FileLast[k])

LEMMA FilesHavePieces == \A k \in 1 .. 37 : FilePieces(k)
<1> USE DEF FilePieces, android_files, Rule, Default, FileLength, FileFirst, FileSecond, FileThird,
            FileLast
<1>1. FilePieces(1)
  BY PiecesOf5
<1>2. FilePieces(2)
  BY PiecesOf5
<1>3. FilePieces(3)
  BY PiecesOf5
<1>4. FilePieces(4)
  BY PiecesOf5
<1>5. FilePieces(5)
  BY PiecesOf5
<1>6. FilePieces(6)
  BY PiecesOf4
<1>7. FilePieces(7)
  BY PiecesOf3
<1>8. FilePieces(8)
  BY PiecesOf5
<1>9. FilePieces(9)
  BY PiecesOf4
<1>10. FilePieces(10)
  BY PiecesOf4
<1>11. FilePieces(11)
  BY PiecesOf4
<1>12. FilePieces(12)
  BY PiecesOf5
<1>13. FilePieces(13)
  BY PiecesOf4
<1>14. FilePieces(14)
  BY PiecesOf4
<1>15. FilePieces(15)
  BY PiecesOf4
<1>16. FilePieces(16)
  BY PiecesOf4
<1>17. FilePieces(17)
  BY PiecesOf4
<1>18. FilePieces(18)
  BY PiecesOf4
<1>19. FilePieces(19)
  BY PiecesOf4
<1>20. FilePieces(20)
  BY PiecesOf4
<1>21. FilePieces(21)
  BY PiecesOf4
<1>22. FilePieces(22)
  BY PiecesOf4
<1>23. FilePieces(23)
  BY PiecesOf4
<1>24. FilePieces(24)
  BY PiecesOf4
<1>25. FilePieces(25)
  BY PiecesOf7
<1>26. FilePieces(26)
  BY PiecesOf5
<1>27. FilePieces(27)
  BY PiecesOf6
<1>28. FilePieces(28)
  BY PiecesOf4
<1>29. FilePieces(29)
  BY PiecesOf5
<1>30. FilePieces(30)
  BY PiecesOf4
<1>31. FilePieces(31)
  BY PiecesOf3
<1>32. FilePieces(32)
  BY PiecesOf3
<1>33. FilePieces(33)
  BY PiecesOf2
<1>34. FilePieces(34)
  BY PiecesOf3
<1>35. FilePieces(35)
  BY PiecesOf2
<1>36. FilePieces(36)
  BY PiecesOf7
<1>37. FilePieces(37)
  BY PiecesOf0
<1> HIDE DEF FilePieces
<1> QED
  BY <1>1, <1>2, <1>3, <1>4, <1>5, <1>6, <1>7, <1>8, <1>9, <1>10, <1>11, <1>12, <1>13,
     <1>14, <1>15, <1>16, <1>17, <1>18, <1>19, <1>20, <1>21, <1>22, <1>23, <1>24,
     <1>25, <1>26, <1>27, <1>28, <1>29, <1>30, <1>31, <1>32, <1>33, <1>34, <1>35,
     <1>36, <1>37

\* Rules for some of the same directories, by what the columns say.
LEMMA DirPairs ==
  ASSUME NEW j \in 1 .. 22, NEW k \in 1 .. 22, j < k, DirFirst[j] = DirFirst[k],
         DirLength[j] < DirLength[k],
         DirLength[j] >= 2 => DirSecond[j] = DirSecond[k],
         DirLength[j] >= 3 => DirThird[j] = DirThird[k]
  PROVE  (j = 2 /\ k = 3) \/ j = 8 \/ (j = 11 /\ k = 12)
BY DEF DirFirst, DirSecond, DirThird, DirLength
\* And for some of the same files, where the first one has a '*'.
LEMMA FilePairs ==
  ASSUME NEW j \in 1 .. 37, NEW k \in 1 .. 37, j < k, FileFirst[j] = FileFirst[k],
         FileLast[j] = "*",
         FileLength[j] <= FileLength[k],
         FileLength[j] >= 3 => FileSecond[j] = FileSecond[k],
         FileLength[j] >= 4 => FileThird[j] = FileThird[k]
  PROVE  (j = 25 /\ k = 36) \/ (j = 31 /\ k = 34)
BY DEF FileFirst, FileSecond, FileThird, FileLength, FileLast

\* In a table of n rules, the last and only the last is for all paths.
Ordered(table, n) ==
  /\ DOMAIN table = 1 .. n
  /\ \A k \in 1 .. n : IsSequence(Text(table[k])) /\ Len(Text(table[k])) \in 0 .. 10
  /\ \A k \in 1 .. n : table[k].prefix = <<>> <=> k = n

\* A text is the beginning of a longer one.
Begins(s, t) == Len(s) < Len(t) /\ \A i \in 1 .. Len(s) : s[i] = t[i]

LEMMA DirTexts ==
  \A k \in 1 .. 22 : DirLength[k] \in Nat /\ TextOf(android_dirs[k], DirLength[k], DirLast[k])
<1> SUFFICES ASSUME NEW k \in 1 .. 22
             PROVE  DirLength[k] \in Nat /\ TextOf(android_dirs[k], DirLength[k], DirLast[k])
  OBVIOUS
<1>1. DirLength[k] \in Nat
  BY DEF DirLength
<1>2. Pieces(android_dirs[k].prefix, DirLength[k], DirFirst[k], DirSecond[k], DirThird[k],
          DirLast[k])
  BY DirsHavePieces DEF DirPieces
<1> QED BY <1>1, <1>2, TextFacts, Zenon

LEMMA FileTexts ==
  \A k \in 1 .. 37 : FileLength[k] \in Nat /\ TextOf(android_files[k], FileLength[k], FileLast[k])
<1> SUFFICES ASSUME NEW k \in 1 .. 37
             PROVE  FileLength[k] \in Nat /\ TextOf(android_files[k], FileLength[k], FileLast[k])
  OBVIOUS
<1>1. FileLength[k] \in Nat
  BY DEF FileLength
<1>2. Pieces(android_files[k].prefix, FileLength[k], FileFirst[k], FileSecond[k], FileThird[k],
          FileLast[k])
  BY FilesHavePieces DEF FilePieces
<1> QED BY <1>1, <1>2, TextFacts, Zenon

LEMMA DirsOrdered == Ordered(android_dirs, 22) /\ \A k \in 1 .. 22 : ~Wild(android_dirs[k])
<1>1. DOMAIN android_dirs = 1 .. 22
  BY DEF android_dirs
<1>2. ASSUME NEW k \in 1 .. 22
      PROVE  /\ IsSequence(Text(android_dirs[k])) /\ Len(Text(android_dirs[k])) \in 0 .. 10
             /\ android_dirs[k].prefix = <<>> <=> k = 22
             /\ ~Wild(android_dirs[k])
  <2>1. /\ DirLength[k] \in 0 .. 10 /\ (DirLength[k] = 0 <=> k = 22)
        /\ DirLast[k] # "*"
    BY DEF DirLength, DirLast
  <2>2. TextOf(android_dirs[k], DirLength[k], DirLast[k])
    BY DirTexts
  <2> QED BY <2>1, <2>2 DEF TextOf
<1> QED BY <1>1, <1>2 DEF Ordered

LEMMA FilesOrdered ==
  /\ Ordered(android_files, 37)
  /\ \A k \in 1 .. 37 : Wild(android_files[k]) <=> FileLast[k] = "*"
<1>1. DOMAIN android_files = 1 .. 37
  BY DEF android_files
<1>2. ASSUME NEW k \in 1 .. 37
      PROVE  /\ IsSequence(Text(android_files[k])) /\ Len(Text(android_files[k])) \in 0 .. 10
             /\ android_files[k].prefix = <<>> <=> k = 37
             /\ Wild(android_files[k]) <=> FileLast[k] = "*"
  <2>1. /\ FileLength[k] \in 0 .. 10 /\ (FileLength[k] = 0 <=> k = 37)
        /\ FileLast[k] = "*" => k # 37
    BY DEF FileLength, FileLast
  <2>2. TextOf(android_files[k], FileLength[k], FileLast[k])
    BY FileTexts
  <2> QED BY <2>1, <2>2 DEF TextOf
<1> QED BY <1>1, <1>2 DEF Ordered

\* A rule for directories comes before one for some of the same paths only if
\* it grants the same, but for data/misc.
LEMMA DirsHidden ==
  ASSUME NEW j \in 1 .. 22, NEW k \in 1 .. 22, j < k,
         Begins(Text(android_dirs[j]), Text(android_dirs[k]))
  PROVE  \/ android_dirs[j].attributes = android_dirs[k].attributes
         \/ Text(android_dirs[j]) = <<"data", "/misc">>
<1>1. \A i \in 1 .. 22 : Text(android_dirs[i]) = android_dirs[i].prefix
  BY DirsOrdered DEF Text
<1>2. \A i \in 1 .. 22 :
        Pieces(android_dirs[i].prefix, DirLength[i], DirFirst[i], DirSecond[i], DirThird[i],
            DirLast[i])
  BY DirsHavePieces DEF DirPieces
<1>3. /\ DirLength[j] \in 0 .. 10 /\ DirLength[k] \in 0 .. 10
      /\ DirLength[j] >= 1
  BY DEF DirLength
<1>4. DirLength[j] < DirLength[k]
  BY <1>1, <1>2 DEF Begins, Pieces
<1>5. /\ DirFirst[j] = DirFirst[k]
      /\ DirLength[j] >= 2 => DirSecond[j] = DirSecond[k]
      /\ DirLength[j] >= 3 => DirThird[j] = DirThird[k]
  <2>1. \A i \in 1 .. DirLength[j] : android_dirs[j].prefix[i] = android_dirs[k].prefix[i]
    BY <1>1, <1>2 DEF Begins, Pieces
  <2>2. \A i \in 1 .. 3 : DirLength[j] >= i => android_dirs[j].prefix[i] = android_dirs[k].prefix[i]
    BY <1>3, <2>1
  <2>3. \A i \in 1 .. 22 :
          /\ DirLength[i] >= 1 => android_dirs[i].prefix[1] = DirFirst[i]
          /\ DirLength[i] >= 2 => android_dirs[i].prefix[2] = DirSecond[i]
          /\ DirLength[i] >= 3 => android_dirs[i].prefix[3] = DirThird[i]
    BY <1>2 DEF Pieces
  <2>4. 1 \in 1 .. 3 /\ 2 \in 1 .. 3 /\ 3 \in 1 .. 3
    OBVIOUS
  <2>5. DirLength[k] >= 1 /\ (DirLength[j] >= 2 => DirLength[k] >= 2)
        /\ (DirLength[j] >= 3 => DirLength[k] >= 3)
    BY <1>3, <1>4
  <2> QED BY <1>3, <2>2, <2>3, <2>4, <2>5, Zenon
<1>6. (j = 2 /\ k = 3) \/ j = 8 \/ (j = 11 /\ k = 12)
  BY <1>4, <1>5, DirPairs
<1>7. /\ android_dirs[2].attributes = android_dirs[3].attributes
      /\ android_dirs[8].prefix = <<"data", "/misc">>
      /\ android_dirs[11].attributes = android_dirs[12].attributes
  BY DEF android_dirs, Rule
<1> QED BY <1>1, <1>6, <1>7

\* A rule for files that begin with a text comes before one for some of the
\* same files only if it grants the same.
LEMMA FilesHidden ==
  ASSUME NEW j \in 1 .. 37, NEW k \in 1 .. 37, j < k, Wild(android_files[j]),
         Begins(Text(android_files[j]), Text(android_files[k]))
  PROVE  android_files[j].attributes = android_files[k].attributes
<1> DEFINE s == Text(android_files[j])
           t == Text(android_files[k])
<1>1. \A i \in 1 .. 37 :
        Pieces(android_files[i].prefix, FileLength[i], FileFirst[i], FileSecond[i], FileThird[i],
            FileLast[i])
  BY FilesHavePieces DEF FilePieces
<1>2. \A i \in 1 .. 37 : FileLength[i] \in 0 .. 10
  BY DEF FileLength
<1>3. FileLast[j] = "*" /\ FileLength[j] >= 2
  <2>1. FileLast[j] = "*"
    BY FilesOrdered
  <2> QED BY <2>1 DEF FileLast, FileLength
<1>4. /\ Len(s) = FileLength[j] - 1
      /\ \A i \in 1 .. Len(s) : s[i] = android_files[j].prefix[i]
  BY FileTexts DEF TextOf
<1>5. /\ Len(t) <= FileLength[k]
      /\ \A i \in 1 .. Len(t) : t[i] = android_files[k].prefix[i]
  <2>1. /\ Len(t) = IF Wild(android_files[k]) THEN FileLength[k] - 1 ELSE FileLength[k]
        /\ \A i \in 1 .. Len(t) : t[i] = android_files[k].prefix[i]
    BY FileTexts DEF TextOf
  <2>2. FileLength[k] \in Nat
    BY <1>2
  <2> QED BY <2>1, <2>2
<1>6. Len(t) \in Int /\ Len(s) < Len(t) /\ \A i \in 1 .. Len(s) : s[i] = t[i]
  <2>1. Len(t) \in 0 .. 10
    BY FilesOrdered, Zenon DEF Ordered
  <2> QED BY <2>1 DEF Begins
<1> HIDE DEF s, t
<1>7. FileLength[j] <= FileLength[k]
  <2>1. FileLength[j] \in Int /\ FileLength[k] \in Int
    BY <1>2
  <2> QED BY <2>1, <1>4, <1>5, <1>6
<1>8. \A i \in 1 .. FileLength[j] - 1 : android_files[j].prefix[i] = android_files[k].prefix[i]
  BY <1>2, <1>4, <1>5, <1>6
<1>9. /\ FileFirst[j] = FileFirst[k]
      /\ FileLength[j] >= 3 => FileSecond[j] = FileSecond[k]
      /\ FileLength[j] >= 4 => FileThird[j] = FileThird[k]
  <2>1. FileLength[j] \in Int /\ FileLength[k] \in Int
    BY <1>2
  <2>2. \A i \in 1 .. 3 : FileLength[j] >= i + 1 =>
          android_files[j].prefix[i] = android_files[k].prefix[i]
    BY <1>8, <2>1
  <2>3. \A i \in 1 .. 37 :
          /\ FileLength[i] >= 1 => android_files[i].prefix[1] = FileFirst[i]
          /\ FileLength[i] >= 2 => android_files[i].prefix[2] = FileSecond[i]
          /\ FileLength[i] >= 3 => android_files[i].prefix[3] = FileThird[i]
    BY <1>1 DEF Pieces
  <2>4. /\ android_files[j].prefix[1] = android_files[k].prefix[1]
        /\ FileLength[j] >= 3 => android_files[j].prefix[2] = android_files[k].prefix[2]
        /\ FileLength[j] >= 4 => android_files[j].prefix[3] = android_files[k].prefix[3]
    BY <1>3, <2>2
  <2>5. /\ FileLength[j] >= 1 /\ FileLength[k] >= 1
        /\ FileLength[j] >= 3 => FileLength[j] >= 2 /\ FileLength[k] >= 2
        /\ FileLength[j] >= 4 => FileLength[j] >= 3 /\ FileLength[k] >= 3
    BY <1>3, <1>7, <2>1
  <2> QED BY <2>3, <2>4, <2>5, Zenon
<1>10. (j = 25 /\ k = 36) \/ (j = 31 /\ k = 34)
  BY <1>3, <1>7, <1>9, FilePairs
<1>11. /\ android_files[25].attributes = android_files[36].attributes
       /\ android_files[31].attributes = android_files[34].attributes
  BY DEF android_files, Rule
<1> QED BY <1>10, <1>11
-----------------------------------------------------------------------------
\* A call of fs_config is for a sequence of pieces of text.
LEMMA PathsAreSequences == \A p \in Paths : IsSequence(p)
<1> DEFINE rules == Range(android_dirs) \cup Range(android_files)
           around(rule) ==
             LET p == Text(rule)
             IN  {p, p \o <<"/", "x">>} \cup {Append(p, e) : e \in Extensions}
                   \cup (IF p = <<>> THEN {} ELSE {Front(p)})
<1>1. ASSUME NEW rule \in rules PROVE IsSequence(Text(rule))
  <2>1. CASE rule \in Range(android_dirs)
    <3>1. PICK k \in DOMAIN android_dirs : rule = android_dirs[k]
      BY <2>1 DEF Range
    <3> QED BY <3>1, DirsOrdered, Zenon DEF Ordered
  <2>2. CASE rule \in Range(android_files)
    <3>1. PICK k \in DOMAIN android_files : rule = android_files[k]
      BY <2>2 DEF Range
    <3> QED BY <3>1, FilesOrdered, Zenon DEF Ordered
  <2> QED BY <2>1, <2>2
<1> HIDE DEF rules
<1>2. ASSUME NEW rule \in rules, NEW p \in around(rule) PROVE IsSequence(p)
  <2> DEFINE t == Text(rule)
  <2>1. IsSequence(t)
    BY <1>1
  <2>2. \/ p = t \/ p = t \o <<"/", "x">>
        \/ \E e \in Extensions : p = Append(t, e)
        \/ t # <<>> /\ p = Front(t)
    BY <1>2
  <2> HIDE DEF t
  <2> QED BY <2>1, <2>2, LongerSequences, ShorterSequences
<1>3. Paths = UNION {around(rule) : rule \in rules}
  BY DEF Paths, rules
<1> HIDE DEF around
<1> QED BY <1>2, <1>3

LEMMA RelativeIsSequence ==
  ASSUME call \in Calls, call.function = "fs_config"
  PROVE  call.dir \in BOOLEAN /\ IsSequence(Relative)
<1>1. call \notin AudioCalls /\ call \notin NfcCalls
  BY CallKinds
<1>2. call \in [function : {"fs_config"}, path : Paths \cup {<<"/">> \o p : p \in Paths},
                dir : BOOLEAN]
  BY <1>1 DEF Calls
<1>3. call.dir \in BOOLEAN /\ call.path \in Paths \cup {<<"/">> \o p : p \in Paths}
  BY <1>2
<1>4. IsSequence(call.path)
  BY <1>3, PathsAreSequences, LongerSequences
<1>5. IsSequence(Relative)
  BY <1>4, ShorterSequences DEF Relative, SkipSlash
<1> QED BY <1>3, <1>5

\* In a table of which no rule hides one that says something else, the first
\* rule for a path says what the most specific one says.
LEMMA FirstIsMostSpecific ==
  ASSUME NEW n \in Nat \ {0}, Ordered(Table(call.dir), n), IsSequence(Relative),
         call.dir => \A k \in 1 .. n : ~Wild(Table(call.dir)[k]),
         \A j, k \in 1 .. n :
           /\ j < k /\ Begins(Text(Table(call.dir)[j]), Text(Table(call.dir)[k]))
           /\ call.dir \/ Wild(Table(call.dir)[j])
           /\ IsPrefix(Text(Table(call.dir)[j]), Relative)
           => Table(call.dir)[j].attributes = Table(call.dir)[k].attributes
  PROVE  fs_config(call.path, call.dir) \in MostSpecific
<1> DEFINE table == Table(call.dir)
           covering == {k \in DOMAIN table : Covers(table[k])}
           lengths == {Len(Text(table[k])) : k \in covering}
           m == Min(covering)
<1>1. /\ DOMAIN table = 1 .. n
      /\ \A k \in 1 .. n : IsSequence(Text(table[k])) /\ Len(Text(table[k])) \in 0 .. 10
      /\ \A k \in 1 .. n : table[k].prefix = <<>> <=> k = n
  BY DEF Ordered
<1> HIDE DEF table
<1>2. \A k \in 1 .. n : Covers(table[k]) <=>
        table[k].prefix = <<>> \/ Matches(table[k], Relative, call.dir)
  <2> SUFFICES ASSUME NEW k \in 1 .. n
               PROVE  Covers(table[k]) <=>
                        table[k].prefix = <<>> \/ Matches(table[k], Relative, call.dir)
    OBVIOUS
  <2>1. CASE call.dir
    <3>1. Text(table[k]) = table[k].prefix
      BY <2>1 DEF Text, table
    <3>2. table[k].prefix = <<>> => IsPrefix(table[k].prefix, Relative)
      BY <1>1, <3>1, PrefixFacts
    <3> QED BY <2>1, <3>1, <3>2 DEF Covers, Matches
  <2>2. CASE ~call.dir /\ Wild(table[k])
    BY <2>2 DEF Covers, Matches, Text, Wild
  <2>3. CASE ~call.dir /\ ~Wild(table[k])
    BY <2>3 DEF Covers, Matches
  <2> QED BY <2>1, <2>2, <2>3
<1>3. fs_config(call.path, call.dir) = table[m].attributes
  <2>1. {k \in DOMAIN table : table[k].prefix = <<>> \/ Matches(table[k], Relative, call.dir)}
          = covering
    BY <1>1, <1>2
  <2> HIDE DEF covering
  <2> QED BY <2>1 DEF fs_config, RuleFor, Relative, table
<1>4. m \in covering /\ \A k \in covering : m <= k
  <2>1. n \in covering
    BY <1>1, <1>2
  <2>2. covering \in SUBSET Nat
    BY <1>1
  <2> HIDE DEF covering
  <2> QED BY <2>1, <2>2, MinFacts
<1>5. PICK k0 \in covering :
        Len(Text(table[k0])) = Max(lengths) /\ \A x \in lengths : x <= Max(lengths)
  <2>1. lengths \in SUBSET (0 .. 10) /\ lengths # {}
    <3>1. \A k \in covering : Len(Text(table[k])) \in 0 .. 10
      BY <1>1
    <3> HIDE DEF covering, m
    <3> QED BY <1>4, <3>1
  <2> HIDE DEF covering, m
  <2>2. \A x \in lengths : \E k \in covering : Len(Text(table[k])) = x
    OBVIOUS
  <2> HIDE DEF lengths
  <2>3. PICK x \in lengths : \A y \in lengths : y <= x
    BY <2>1, GreatestNatural
  <2>4. lengths \in SUBSET Int /\ \A y \in lengths : x >= y
    BY <2>1, <2>3
  <2>5. Max(lengths) = x
    BY <2>4, MaxFacts
  <2> QED BY <2>2, <2>3, <2>5
<1>6. \A k \in covering : k \in 1 .. n /\ Covers(table[k])
  BY <1>1
<1>7. MostSpecific =
        {table[k].attributes : k \in {c \in covering : Len(Text(table[c])) = Max(lengths)}}
  BY DEF MostSpecific, table
<1>8. m \in 1 .. n /\ k0 \in 1 .. n /\ m <= k0 /\ Len(Text(table[m])) <= Len(Text(table[k0]))
  BY <1>4, <1>5, <1>6
<1>9. CASE Len(Text(table[m])) = Len(Text(table[k0]))
  <2> HIDE DEF m, covering, lengths
  <2> QED BY <1>3, <1>4, <1>5, <1>7, <1>9
<1>10. CASE Len(Text(table[m])) # Len(Text(table[k0]))
  <2> HIDE DEF m, lengths
  <2>1. m < k0 /\ m # n /\ Len(Text(table[m])) < Len(Text(table[k0]))
    BY <1>1, <1>8, <1>10
  <2>2. ASSUME NEW k \in covering
        PROVE  IsPrefix(Text(table[k]), Relative)
    <3>1. CASE call.dir \/ Wild(table[k])
      BY <1>6, <3>1 DEF Covers
    <3>2. CASE ~call.dir /\ ~Wild(table[k])
      <4>1. Text(table[k]) = table[k].prefix /\ Text(table[k]) \in {<<>>, Relative}
        BY <1>6, <3>2 DEF Covers, Text
      <4>2. Len(Relative) \in Nat
        BY LengthFacts
      <4>3. IsPrefix(Relative, Relative)
        BY <4>2 DEF IsPrefix
      <4>4. IsSequence(Text(table[k]))
        BY <1>1, <1>6
      <4>5. Text(table[k]) = <<>> => IsPrefix(Text(table[k]), Relative)
        BY <4>4, PrefixFacts
      <4> QED BY <4>1, <4>3, <4>5
    <3> QED BY <3>1, <3>2
  <2> HIDE DEF covering
  <2> DEFINE s == Text(table[m])
             t == Text(table[k0])
  <2>3. /\ IsSequence(s) /\ IsSequence(t) /\ Len(s) \in Nat /\ Len(t) \in Nat
        /\ IsPrefix(s, Relative) /\ IsPrefix(t, Relative)
    BY <1>1, <1>4, <1>8, <2>2
  <2>4. call.dir \/ Wild(table[m])
    <3> SUFFICES ASSUME ~call.dir, ~Wild(table[m]) PROVE FALSE
      OBVIOUS
    <3>1. table[m].prefix \in {<<>>, Relative} /\ s = table[m].prefix
      BY <1>4, <1>6 DEF Covers, Text
    <3>2. s = Relative
      BY <1>1, <1>8, <2>1, <3>1
    <3> HIDE DEF s, t
    <3>3. Len(t) <= Len(Relative)
      BY <2>3, PrefixFacts
    <3> QED BY <2>1, <2>3, <3>2, <3>3 DEF s, t
  <2>5. Begins(s, t)
    <3> HIDE DEF s, t
    <3>1. \A i \in 1 .. Len(s) : s[i] = Relative[i]
      BY <2>3, PrefixFacts
    <3>2. \A i \in 1 .. Len(t) : t[i] = Relative[i]
      BY <2>3, PrefixFacts
    <3>3. Len(s) < Len(t)
      BY <2>1 DEF s, t
    <3> QED BY <2>3, <3>1, <3>2, <3>3 DEF Begins
  <2>6. table[m].attributes = table[k0].attributes
    BY <1>8, <2>1, <2>3, <2>4, <2>5 DEF table
  <2> QED BY <1>3, <1>5, <1>7, <2>6
<1> QED BY <1>9, <1>10

\* A file gets what the most specific of its rules says, and so does a
\* directory, except in data/misc; for any pieces of text that a path has
\* after the text of a rule.
THEOREM RuleMostSpecificHolds == Spec => []RuleMostSpecific
<1>1. ASSUME Answered, Returned("fs_config"),
             ~(call.dir /\ IsPrefix(<<"data", "/misc">>, Relative))
      PROVE  Value \in MostSpecific
  <2>1. call.dir \in BOOLEAN /\ IsSequence(Relative)
    BY <1>1, RelativeIsSequence DEF Answered, Returned
  <2>2. Value = fs_config(call.path, call.dir)
    BY <1>1 DEF Answered
  <2>3. CASE call.dir
    <3> DEFINE n == 22
    <3>1. n \in Nat \ {0} /\ Table(call.dir) = android_dirs
      BY <2>3 DEF Table
    <3>2. Ordered(Table(call.dir), n) /\ \A k \in 1 .. n : ~Wild(Table(call.dir)[k])
      BY <3>1, DirsOrdered
    <3>3. \A j, k \in 1 .. n :
            /\ j < k /\ Begins(Text(Table(call.dir)[j]), Text(Table(call.dir)[k]))
            /\ call.dir \/ Wild(Table(call.dir)[j])
            /\ IsPrefix(Text(Table(call.dir)[j]), Relative)
            => Table(call.dir)[j].attributes = Table(call.dir)[k].attributes
      BY <1>1, <2>3, <3>1, DirsHidden
    <3> HIDE DEF n
    <3> QED BY <2>1, <2>2, <3>1, <3>2, <3>3, FirstIsMostSpecific, Zenon
  <2>4. CASE ~call.dir
    <3> DEFINE n == 37
    <3>1. n \in Nat \ {0} /\ Table(call.dir) = android_files
      BY <2>4 DEF Table
    <3>2. Ordered(Table(call.dir), n)
      BY <3>1, FilesOrdered
    <3>3. \A j, k \in 1 .. n :
            /\ j < k /\ Begins(Text(Table(call.dir)[j]), Text(Table(call.dir)[k]))
            /\ call.dir \/ Wild(Table(call.dir)[j])
            /\ IsPrefix(Text(Table(call.dir)[j]), Relative)
            => Table(call.dir)[j].attributes = Table(call.dir)[k].attributes
      BY <2>4, <3>1, FilesHidden
    <3> HIDE DEF n
    <3> QED BY <2>1, <2>2, <2>4, <3>1, <3>2, <3>3, FirstIsMostSpecific, Zenon
  <2> QED BY <2>3, <2>4
<1>2. Answered => RuleMostSpecific
  BY <1>1 DEF RuleMostSpecific
<1> QED BY AlwaysAnswered, <1>2, PTL
=============================================================================
