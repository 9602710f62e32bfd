---------------------------- MODULE QemudChannel ----------------------------
(***************************************************************************)
(* hardware/qemud.h: messages over a byte stream.  qemud_channel_send      *)
(* writes a header, the length in four hexadecimal digits, and then the    *)
(* message, with one write(2) each; qemud_channel_recv reads them with one *)
(* read(2) each.  Neither loops: a count that is not the one asked for is  *)
(* an error, -1 to the caller, and whatever was transferred stays          *)
(* transferred.  Only EINTR is retried, which changes nothing.             *)
(*                                                                         *)
(* One sender and one receiver share a stream.  A message is a sequence of *)
(* bytes; a byte is the hexadecimal digit it reads as, or Other, so that a *)
(* receiver that is out of step does take payload for a header.            *)
(***************************************************************************)
EXTENDS Integers, Sequences, SequencesExt

CONSTANTS Base,        \* of the digits in a header: 16
          Digits,      \* how many there are: 4
          Messages,    \* what the sender may send
          BufferSize,  \* msgsize, the receiver's buffer
          MaxSends     \* bound: calls of qemud_channel_send in a behaviour

Other == -1
Byte == Other .. Base - 1

ASSUME ChannelAssumption ==
  /\ Base \in Nat \ {0, 1} /\ Digits \in Nat \ {0}
  /\ BufferSize \in Nat /\ MaxSends \in Nat

ASSUME MessagesAssumption == \A m \in Messages : m \in Seq(Byte)

VARIABLES wire,      \* the bytes written and not yet read
          sending,   \* the message between its two writes
          sent,      \* the messages qemud_channel_send returned 0 for
          awaited,   \* the size of the message between its two reads
          received,  \* the messages qemud_channel_recv returned
          failed,    \* some call has returned -1
          calls      \* calls of qemud_channel_send so far

channelVars == <<wire, sending, sent, awaited, received, failed, calls>>

Nothing == <<>>   \* an empty message is never between its writes
NoSize == -1
Negative == -2    \* any size below 0

ChannelInit ==
  /\ wire = <<>>
  /\ sending = Nothing
  /\ sent = <<>>
  /\ awaited = NoSize
  /\ received = <<>>
  /\ failed = FALSE
  /\ calls = 0
-----------------------------------------------------------------------------
\* Base ^ k; recursive functions rather than ^ and a fold, since they are
\* proved about.
Power[k \in Nat] == IF k = 0 THEN 1 ELSE Base * Power[k - 1]

\* "%04x" writes a number with four digits or, when that is not enough, more.
Width(n) ==
  CHOOSE w \in Digits .. Digits + n :
    n < Power[w] /\ \A x \in Digits .. w - 1 : n >= Power[x]

\* snprintf(header, 5, "%04x", msglen): the first four of these digits.
Header(n) == [d \in 1 .. Digits |-> (n \div Power[Width(n) - d]) % Base]

\* What the digits up to each place of h say.
Value(h) ==
  LET value[k \in 0 .. Len(h)] == IF k = 0 THEN 0 ELSE (value[k - 1] * Base) + h[k]
  IN  value

\* Where the digits of a number may start: behind bytes that are none, and
\* that may be white space and a sign, and behind "0x".
Starts(h) ==
  {i \in DOMAIN h : h[i] # Other /\ \A k \in 1 .. i - 1 : h[k] = Other \/ (k = i - 2 /\ h[k] = 0)}

DigitsFrom(h, i) ==
  LET ends == {j \in i .. Len(h) : \A k \in i .. j : h[k] # Other}
  IN  SubSeq(h, i, CHOOSE j \in ends : \A k \in ends : k <= j)

Number(digits) == Value(digits)[Len(digits)]

\* What sscanf(header, "%04x", &size) may find.  Four digits are the number
\* that they say; with bytes that are none it depends on them: no number, or
\* one with a minus, which the test against msgsize lets pass.
Parsed(h) ==
  {Number(DigitsFrom(h, i)) : i \in Starts(h)}
    \cup (IF h[1] = Other THEN {NoSize} \cup {Negative : i \in Starts(h)} ELSE {})
    \cup (IF Digits > 1 /\ h[1] = 0 /\ h[2] = Other THEN {NoSize} ELSE {})

\* What write(2) may put on the wire: everything, or less, or nothing.
Written(bytes) == {SubSeq(bytes, 1, k) : k \in 0 .. Len(bytes)}

\* What read(2) may take off the wire: up to n of the bytes that are there,
\* or any number of them when n is negative, which is a very large size_t.
\* It waits for the first one, unless none is asked for.
Readable(n) ==
  {SubSeq(wire, 1, k) :
     k \in IF n = 0 THEN {0} ELSE 1 .. IF n \in 0 .. Len(wire) THEN n ELSE Len(wire)}

Rest(part) == SubSeq(wire, Len(part) + 1, Len(wire))
-----------------------------------------------------------------------------
\* Nothing is written for an empty message.
SendEmpty ==
  /\ sending = Nothing /\ calls < MaxSends
  /\ <<>> \in Messages
  /\ calls' = calls + 1
  /\ UNCHANGED <<wire, sending, sent, awaited, received, failed>>

\* Mutated form of SendHeader: returns 0 when the header is written.
SendHeaderOnly ==
  /\ sending = Nothing /\ calls < MaxSends
  /\ calls' = calls + 1
  /\ \E m \in Messages \ {<<>>} :
       /\ wire' = wire \o Header(Len(m))
       /\ sent' = Append(sent, m)
  /\ UNCHANGED <<sending, awaited, received, failed>>

\* qemud_fd_write(fd, header, 4)
SendHeader ==
  /\ sending = Nothing /\ calls < MaxSends
  /\ calls' = calls + 1
  /\ \E m \in Messages \ {<<>>} : \E part \in Written(Header(Len(m))) :
       /\ wire' = wire \o part
       /\ IF part = Header(Len(m))
            THEN sending' = m /\ UNCHANGED failed
            ELSE failed' = TRUE /\ UNCHANGED sending
  /\ UNCHANGED <<sent, awaited, received>>

\* Mutated form of SendPayload: any count above 0 is good enough.
SendPayloadLoosely ==
  /\ sending # Nothing
  /\ \E part \in Written(sending) :
       /\ wire' = wire \o part
       /\ IF part # <<>>
            THEN sent' = Append(sent, sending) /\ UNCHANGED failed
            ELSE failed' = TRUE /\ UNCHANGED sent
  /\ sending' = Nothing
  /\ UNCHANGED <<awaited, received, calls>>

\* qemud_fd_write(fd, msg, msglen)
SendPayload ==
  /\ sending # Nothing
  /\ \E part \in Written(sending) :
       /\ wire' = wire \o part
       /\ IF part = sending
            THEN sent' = Append(sent, sending) /\ UNCHANGED failed
            ELSE failed' = TRUE /\ UNCHANGED sent
  /\ sending' = Nothing
  /\ UNCHANGED <<awaited, received, calls>>

\* qemud_fd_read(fd, header, 4), and the looks at what it says.  The
\* payload of a message that is too large stays on the wire.
ReceiveHeader ==
  /\ awaited = NoSize
  /\ \E part \in Readable(Digits) :
       \E size \in IF Len(part) = Digits THEN Parsed(part) ELSE {NoSize} :
         /\ wire' = Rest(part)
         /\ IF size # NoSize /\ size <= BufferSize
              THEN awaited' = size /\ UNCHANGED failed
              ELSE failed' = TRUE /\ UNCHANGED awaited
  /\ UNCHANGED <<sending, sent, received, calls>>

\* qemud_fd_read(fd, msg, size)
ReceivePayload ==
  /\ awaited # NoSize
  /\ \E part \in Readable(awaited) :
       /\ wire' = Rest(part)
       /\ IF Len(part) = awaited
            THEN received' = Append(received, part) /\ UNCHANGED failed
            ELSE failed' = TRUE /\ UNCHANGED received
  /\ awaited' = NoSize
  /\ UNCHANGED <<sending, sent, calls>>

\* Either read answers 0 or -1, for a stream that has ended or an error.
ReceiveNothing ==
  /\ failed' = TRUE
  /\ awaited' = NoSize
  /\ UNCHANGED <<wire, sending, sent, received, calls>>

qemud_channel_send == SendEmpty \/ SendHeader \/ SendPayload
qemud_channel_recv == ReceiveHeader \/ ReceivePayload \/ ReceiveNothing
-----------------------------------------------------------------------------
ChannelTypeOK ==
  /\ wire \in Seq(Byte)
  /\ sending \in Messages \cup {Nothing}
  /\ sent \in Seq(Messages)
  /\ awaited \in {NoSize, Negative} \cup 0 .. BufferSize
  /\ received \in Seq(Seq(Byte))

\* The header cannot say the length of some message that was sent.
TooLong(m) == Len(m) >= Power[Digits]
Misframed == \E m \in Range(sent) \cup {sending} : TooLong(m)

\* As long as no call on a channel has failed and no message is longer than
\* a header can say, the receiver gets the messages that were sent on it: in
\* order, unchanged, none joined, split, skipped, made up or left from an
\* earlier channel.
FramesInOrder == ~failed /\ ~Misframed => IsPrefix(received, sent)

\* Every message that was sent is received, or a call fails, or a length did
\* not fit: neither side waits for bytes that do not come.
AllReceived == <>[](failed \/ Misframed \/ received = sent)
=============================================================================
