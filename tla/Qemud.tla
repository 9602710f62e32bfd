-------------------------------- MODULE Qemud --------------------------------
(***************************************************************************)
(* A HAL module and an emulator service (hardware/qemud.h): the module     *)
(* opens a channel (QemudOpen) and exchanges messages over it              *)
(* (QemudChannel); when a call on the channel has failed, nothing in the   *)
(* stream tells where the next message begins, and all that is left is to  *)
(* close it and open another.  The module has one channel at a time.       *)
(***************************************************************************)
EXTENDS QemudOpen, QemudChannel

vars == <<openVars, channelVars>>

Init == OpenInit /\ ChannelInit

Open == returned = {} /\ Call /\ UNCHANGED channelVars

OpenStep == qemud_channel_open /\ UNCHANGED channelVars

SendStep == returned # {} /\ qemud_channel_send /\ UNCHANGED openVars
ReceiveStep == returned # {} /\ qemud_channel_recv /\ UNCHANGED openVars

\* The calls in progress on the closed channel are over; a new descriptor
\* has a stream of its own.
HangUp ==
  /\ failed /\ Close
  /\ wire' = <<>>
  /\ sending' = Nothing /\ sent' = <<>>
  /\ awaited' = NoSize /\ received' = <<>>
  /\ failed' = FALSE
  /\ UNCHANGED calls

Next == Open \/ OpenStep \/ SendStep \/ ReceiveStep \/ HangUp

Spec == Init /\ [][Next]_vars

\* Every system call of an open returns, the receiver is called again and
\* again and its reads take bytes where there are any, unless one fails; and
\* the sender finishes a call.  No read has to fail.
FairSpec ==
  /\ Spec
  /\ WF_vars(OpenStep)
  /\ WF_vars(returned # {} /\ (ReceiveHeader \/ ReceivePayload) /\ UNCHANGED openVars)
  /\ WF_vars(SendPayload /\ UNCHANGED openVars)
-----------------------------------------------------------------------------
TypeOK == OpenTypeOK /\ ChannelTypeOK
=============================================================================
