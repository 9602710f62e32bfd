------------------------------- MODULE LogTime -------------------------------
(***************************************************************************)
(* The times of log entries: log_time of log/log_read.h, of unsigned       *)
(* seconds and nanoseconds, and log_msg of log/logger.h, which has the     *)
(* signed sec and nsec of an entry's header.                               *)
(*                                                                         *)
(* A time is a pair of true integers, sec and nsec; the logger puts it in  *)
(* a packet, two words of four bytes each, lowest byte first, that readers *)
(* make a log_time of, and in the header of the entry.                     *)
(***************************************************************************)
EXTENDS Integers, Sequences

CONSTANTS ByteValues,   \* 256 in the program
          NS_PER_SEC

\* The weights of the bytes of a word.
Place ==
  <<1, ByteValues, ByteValues * ByteValues, ByteValues * ByteValues * ByteValues>>

Modulus == ByteValues * Place[4]   \* 2^32

\* Conversions to uint32_t and int32_t.
Unsigned(x) == x % Modulus
Signed(x) == IF Unsigned(x) >= Modulus \div 2 THEN Unsigned(x) - Modulus ELSE Unsigned(x)

\* The bytes of a little-endian word.
WordBytes(x) == [b \in 1 .. 4 |-> (x \div Place[b]) % ByteValues]

\* The constructor log_time(const char *): c[0] | c[1] << 8 | ...
log_time(c) ==
  LET word(b) == Unsigned(c[b] + c[b + 1] * Place[2] + c[b + 2] * Place[3]
                            + Signed(c[b + 3] * Place[4]))
  IN  [tv_sec |-> word(1), tv_nsec |-> word(5)]

\* operator< of log_time
Before(t, u) ==
  t.tv_sec < u.tv_sec \/ (t.tv_sec = u.tv_sec /\ t.tv_nsec < u.tv_nsec)

\* Mutated form of nsec: without the cast, multiplied in 32 bits.
NsecIn32Bits(t) == Unsigned(t.tv_sec * NS_PER_SEC + t.tv_nsec)

\* log_time::nsec, in 64 bits
nsec(t) == (t.tv_sec * NS_PER_SEC + t.tv_nsec) % (Modulus * Modulus)

\* Mutated form of MsgBefore: >= instead of > turned around.
MsgNotAfter(e, f) == e.sec < f.sec \/ (e.sec = f.sec /\ e.nsec <= f.nsec)

\* operator< of log_msg
MsgBefore(e, f) == e.sec < f.sec \/ (e.sec = f.sec /\ e.nsec < f.nsec)

\* log_msg::nsec: a negative sec is taken modulo 2^64.
MsgNsec(e) == ((e.sec % (Modulus * Modulus)) * NS_PER_SEC + e.nsec) % (Modulus * Modulus)

Packet(t) == WordBytes(Unsigned(t.sec)) \o WordBytes(Unsigned(t.nsec))
Header(t) == [sec |-> Signed(t.sec), nsec |-> Signed(t.nsec)]
=============================================================================
