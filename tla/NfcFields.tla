------------------------------ MODULE NfcFields ------------------------------
(***************************************************************************)
(* Macros of libnfc-nxp and of hardware.h that put fields into one number  *)
(* and take them out.  A byte has BYTE_SIZE bits, 8 in the headers; where  *)
(* single bits matter it is the set of those that are 1, elsewhere a       *)
(* number.                                                                 *)
(***************************************************************************)
EXTENDS Integers, Sequences

CONSTANT BYTE_SIZE

BitBytes == SUBSET (0 .. BYTE_SIZE - 1)
TwoTo[k \in Nat] == IF k = 0 THEN 1 ELSE 2 * TwoTo[k - 1]
Byte == TwoTo[BYTE_SIZE]

\* The weights of the bytes of a number.
Weight == <<1, Byte, Byte * Byte, Byte * Byte * Byte>>

Shifted(bits, n) == {b + n : b \in bits}

\* 0xFFU << n
Ones8(n) == n .. n + BYTE_SIZE - 1
-----------------------------------------------------------------------------
MASK_BITS8(p, l) == IF p + l <= BYTE_SIZE THEN Ones8(p) \ Ones8(p + l) ELSE {}

\* With MASK_BITS defined, and without.
GET_BITS8_masked(num, p, l) ==
  IF p + l <= BYTE_SIZE THEN Shifted(num \cap MASK_BITS8(p, l), -p) ELSE {}
GET_BITS8(num, p, l) ==
  IF p + l <= BYTE_SIZE THEN Shifted(num \cap Ones8(p), -p) \ Ones8(l) ELSE {}

\* Mutated form of the next definition: the old bits of the field remain.
SetWithoutClearing(num, p, l, val) ==
  IF p + l <= BYTE_SIZE THEN num \cup Shifted(val, p) ELSE {}

SET_BITS8(num, p, l, val) ==
  IF p + l <= BYTE_SIZE THEN (num \ MASK_BITS8(p, l)) \cup Shifted(val, p) ELSE {}
-----------------------------------------------------------------------------
NFCSTATUS_SUCCESS == 0

PHNFCSTVAL(phNfcCompID, phNfcStatus) ==
  IF phNfcStatus = NFCSTATUS_SUCCESS THEN NFCSTATUS_SUCCESS
  ELSE (phNfcStatus % Byte) + phNfcCompID * Byte
PHNFCSTATUS(phNfcStatus) == phNfcStatus % Byte
PHNFCCID(phNfcStatus) == (phNfcStatus \div Byte) % Byte

HARDWARE_MAKE_API_VERSION(maj, min) == (maj % Byte) * Byte + (min % Byte)
HARDWARE_MAKE_API_VERSION_2(maj, min, hdr) ==
  (maj % Byte) * Weight[4] + (min % Byte) * Weight[3] + (hdr % Weight[3])
LIB_NFC_VERSION_SET(major, minor, patch, build) ==
  (major % Byte) * Weight[4] + (minor % Byte) * Weight[3] + (patch % Byte) * Byte
    + (build % Byte)

PH_NFCFRI_NDEFMAP_FELI_CAL_LEN_BYTES(Byte1, Byte2, Byte3) ==
  (Byte1 * Weight[3] + Byte2) * Byte + Byte3
-----------------------------------------------------------------------------
ISO15693_BYTES_PER_BLOCK == 4

\* Where the value of a TLV is in the memory of an ISO 15693 tag: after its
\* type and a length of one byte or, from ISO15693_THREE_BYTE_LENGTH_ID on,
\* of three.
AfterLength(byte_addr, long) == byte_addr + 1 + IF long THEN 3 ELSE 1

ISO15693_GET_VALUE_FIELD_BLOCK_NO(blk, byte_addr, long) ==
  IF AfterLength(byte_addr, long) > ISO15693_BYTES_PER_BLOCK - 1 THEN blk + 1 ELSE blk
ISO15693_GET_VALUE_FIELD_BYTE_NO(byte_addr, long) ==
  AfterLength(byte_addr, long) % ISO15693_BYTES_PER_BLOCK
=============================================================================
