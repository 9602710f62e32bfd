---------------------------- MODULE MifStdFormat ----------------------------
(***************************************************************************)
(* libnfc-nxp/phFriNfc_MifStdFormat.h: how the blocks, sectors and keys of *)
(* a Mifare Standard card follow each other while it is formatted.  The    *)
(* names are without PH_FRINFC_MFSTD_FMT_.                                 *)
(***************************************************************************)
EXTENDS Integers, Sequences, FiniteSetsExt

MAX_SECT_IND_1K == 16
MAX_SECT_IND_4K == 40
MAX_BLOCKS(card) == IF card = "1K" THEN 64 ELSE 256

\* Mutated form of CUR_BLK_INC: the long sectors begin one step later.
IncLate(CurrentBlock) == CurrentBlock + IF CurrentBlock > 127 THEN 16 ELSE 4

CUR_BLK_INC(CurrentBlock) == CurrentBlock + IF CurrentBlock >= 127 THEN 16 ELSE 4

SECT_INDEX_CALC(CurrentBlock) ==
  IF CurrentBlock >= 128 THEN 32 + (CurrentBlock - 128) \div 16 ELSE CurrentBlock \div 4

CUR_BLK_CHK(card, CurrentBlock) == CurrentBlock >= MAX_BLOCKS(card)

\* The blocks that CUR_BLK_INC leads to, until CUR_BLK_CHK says that the card
\* has ended.
Walk(card, first) ==
  LET block[n \in 1 .. MAX_SECT_IND_4K + 1] ==
        IF n = 1 THEN first ELSE CUR_BLK_INC(block[n - 1])
      end == Min({n \in DOMAIN block : CUR_BLK_CHK(card, block[n])})
  IN  [n \in 1 .. end - 1 |-> block[n]]
-----------------------------------------------------------------------------
\* Mutated form of NXT_AUTH_STATE: the default key is not tried as key B.
NextStateWithoutKeyB(AuthState, CurrentBlock) ==
  CASE AuthState = "DEF_KEY" ->
         IF CurrentBlock <= 3 \/ CurrentBlock \in 64 .. 66 THEN "MAD_KEY" ELSE "NFC_KEY"
    [] AuthState = "MAD_KEY" -> "NFC_KEY"
    [] AuthState = "NFC_KEY" -> "SCRT_KEYB"
    [] OTHER -> "DEF_KEY"

NXT_AUTH_STATE(AuthState, CurrentBlock) ==
  CASE AuthState = "DEF_KEY" ->
         IF CurrentBlock <= 3 \/ (CurrentBlock > 63 /\ CurrentBlock < 67)
           THEN "MAD_KEY" ELSE "NFC_KEY"
    [] AuthState = "MAD_KEY" -> "NFC_KEY"
    [] AuthState = "NFC_KEY" -> "KEYB"
    [] AuthState = "KEYB" -> "SCRT_KEYB"
    [] OTHER -> "DEF_KEY"

AUTH_SEND_BUF_DEF(AuthState) ==
  [key |-> "default", MfCmd |-> IF AuthState = "DEF_KEY" THEN "AuthentA" ELSE "AuthentB"]
AUTH_SEND_BUF_NFCSECT_KEYA == [key |-> "NFCForumSect_KeyA", MfCmd |-> "AuthentA"]
AUTH_SEND_BUF_MADSECT_KEYA == [key |-> "MADSect_KeyA", MfCmd |-> "AuthentA"]
AUTH_SEND_BUF_SCRT_KEY == [key |-> "ScrtKeyB", MfCmd |-> "AuthentB"]

\* What is sent in a state: by the macro of its key, as these macros are
\* named; the choice is in a .c file that the repository does not have.
\* AUTH_SEND_BUF_DEF is that of DEF_KEY and KEYB, which it tells apart.
SendBuf(AuthState) ==
  CASE AuthState = "NFC_KEY" -> AUTH_SEND_BUF_NFCSECT_KEYA
    [] AuthState = "MAD_KEY" -> AUTH_SEND_BUF_MADSECT_KEYA
    [] AuthState = "SCRT_KEYB" -> AUTH_SEND_BUF_SCRT_KEY
    [] OTHER -> AUTH_SEND_BUF_DEF(AuthState)

\* What is sent in the five states that follow each other from one on.
Attempts(AuthState, CurrentBlock) ==
  LET state[n \in 1 .. 5] ==
        IF n = 1 THEN AuthState ELSE NXT_AUTH_STATE(state[n - 1], CurrentBlock)
  IN  {SendBuf(state[n]) : n \in 1 .. 5}
-----------------------------------------------------------------------------
INCR_SECT(SectIndex) == IF SectIndex + 1 = 16 THEN 17 ELSE SectIndex + 1

\* The loop from an index on: where it ends, and whether memcompare is 0
\* then.  sectCompl is the set of the sectors that are marked in SectCompl.
CHK_SECT_ARRAY(index, sectCompl) ==
  LET loop[i \in index .. MAX_SECT_IND_4K + 1] ==
        IF i >= MAX_SECT_IND_4K THEN [index |-> i, found |-> FALSE]
        ELSE LET next == i + IF i = MAX_SECT_IND_1K - 1 THEN 2 ELSE 1
             IN  IF i \in sectCompl THEN [index |-> next, found |-> TRUE] ELSE loop[next]
  IN  loop[index]

\* After the last sector: the result, and what the formatter goes on with if
\* there is a sector to name in the MAD.
CHK_END_OF_CARD(index, sectCompl) ==
  IF CHK_SECT_ARRAY(index, sectCompl).found
    THEN [Result |-> "of WrRdAuth", CurrentBlock |-> 1, UpdMADBlk |-> "MAD_BLK_1",
          AuthState |-> "SCRT_KEYB", State |-> "AUTH_SECT"]
    ELSE [Result |-> "FORMAT_ERROR"]
=============================================================================
