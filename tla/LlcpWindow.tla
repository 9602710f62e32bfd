----------------------------- MODULE LlcpWindow -----------------------------
(***************************************************************************)
(* The send window of an LLCP connection: CHECK_SEND_RW of libnfc-nxp's    *)
(* phFriNfc_Llcp.h decides from the counters of a socket whether another I *)
(* PDU may be sent.  V(S) is the number of the next PDU to send, V(SA) the *)
(* last acknowledgement, V(R) the number expected next; the PDUs carry     *)
(* them in fields of four bits, so they count modulo 16.  RemoteRW is what *)
(* the peer announced, at most 15, in four bits of a parameter.            *)
(*                                                                         *)
(* The code that moves the counters is not in the repository and external: *)
(* a socket sends a PDU when CHECK_SEND_RW allows it, and the peer, whose  *)
(* table of buffers has one place per PDU of the window, acknowledges what *)
(* its user has read.  The link loses and reorders nothing.                *)
(***************************************************************************)
EXTENDS Integers, Sequences

CONSTANTS Windows,    \* the receive windows to try, in PDUs, up to 15
          MaxFrames   \* bound: the I PDUs sent in a behaviour

SEQUENCE == 16             \* phFriNfc_Llcp_sPacketSequence_t: ns : 4, nr : 4
PHFRINFC_LLCP_RW_MAX == 15

VARIABLES remoteRW, socket_VS, socket_VSA,   \* of the sending socket
          socket_VR,   \* of the peer's socket
          pdus,        \* the I PDUs on the link: their sequence numbers
          acks,        \* the acknowledgements on the link: nr
          buffered,    \* PDUs in the peer's buffers
          frames,      \* PDUs sent since the connection began
          acked        \* PDUs the sender knows to be received and read

vars == <<remoteRW, socket_VS, socket_VSA, socket_VR, pdus, acks, buffered,
          frames, acked>>

\* The remainder of C, which has the sign of its left operand; socket_VS and
\* socket_VSA are uint8_t and promoted to int before they are subtracted.
Rem(a, b) == IF a >= 0 THEN a % b ELSE -((-a) % b)

CHECK_SEND_RW == Rem(socket_VS - socket_VSA, 16) < remoteRW

Init ==
  /\ remoteRW \in Windows
  /\ socket_VS = 0 /\ socket_VSA = 0 /\ socket_VR = 0
  /\ pdus = <<>> /\ acks = <<>>
  /\ buffered = 0
  /\ frames = 0 /\ acked = 0

\* An I PDU with ns = V(S).
Send ==
  /\ frames < MaxFrames /\ CHECK_SEND_RW
  /\ pdus' = Append(pdus, socket_VS)
  /\ socket_VS' = (socket_VS + 1) % SEQUENCE
  /\ frames' = frames + 1
  /\ UNCHANGED <<remoteRW, socket_VSA, socket_VR, acks, buffered, acked>>

\* The peer takes the PDU, which has the number it expects, into a buffer.
Receive ==
  /\ pdus # <<>> /\ Head(pdus) = socket_VR
  /\ pdus' = Tail(pdus)
  /\ socket_VR' = (socket_VR + 1) % SEQUENCE
  /\ buffered' = buffered + 1
  /\ UNCHANGED <<remoteRW, socket_VS, socket_VSA, acks, frames, acked>>

\* The peer's user reads n PDUs, which are then acknowledged together by an
\* RR with nr = V(R) less those still in the buffers.
Read ==
  /\ \E n \in 1 .. buffered :
       /\ buffered' = buffered - n
       /\ acks' = Append(acks, (socket_VR - (buffered - n)) % SEQUENCE)
  /\ UNCHANGED <<remoteRW, socket_VS, socket_VSA, socket_VR, pdus, frames, acked>>

\* V(SA) = nr
Acknowledge ==
  /\ acks # <<>>
  /\ acks' = Tail(acks)
  /\ acked' = acked + ((Head(acks) - socket_VSA) % SEQUENCE)
  /\ socket_VSA' = Head(acks)
  /\ UNCHANGED <<remoteRW, socket_VS, socket_VR, pdus, buffered, frames>>

Next == Send \/ Receive \/ Read \/ Acknowledge

Spec == Init /\ [][Next]_vars
-----------------------------------------------------------------------------
TypeOK ==
  /\ socket_VS \in 0 .. SEQUENCE - 1
  /\ socket_VSA \in 0 .. SEQUENCE - 1
  /\ socket_VR \in 0 .. SEQUENCE - 1
  /\ pdus \in Seq(0 .. SEQUENCE - 1) /\ acks \in Seq(0 .. SEQUENCE - 1)
  /\ buffered \in 0 .. PHFRINFC_LLCP_RW_MAX

\* The receive window: never more PDUs under way, buffered or unacknowledged
\* than the peer announced, so that each has a buffer of
\* sSocketRwBufferTable when it arrives.
WindowRespected == frames - acked <= remoteRW
=============================================================================
