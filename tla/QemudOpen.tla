------------------------------ MODULE QemudOpen ------------------------------
(***************************************************************************)
(* How a HAL module reaches an emulator service: qemu_pipe_open of         *)
(* hardware/qemu_pipe.h, and qemud_channel_open of hardware/qemud.h, which *)
(* tries the pipe and then the control socket of the qemud daemon.         *)
(*                                                                         *)
(* The devices, the daemon and the system calls are external: each call    *)
(* succeeds, fails, or, for read and write, transfers less than asked for. *)
(* Which of the two pipe devices exists does not change.  A failure of     *)
(* open is ENOENT when the device does not exist and some other error when *)
(* it does.  The name of the pipe, "qemud:<name>", is never empty.         *)
(***************************************************************************)
EXTENDS FiniteSets

CONSTANTS Descriptors,   \* the descriptors the process may have open
          NoDescriptor

ASSUME DescriptorAssumption ==
  IsFiniteSet(Descriptors) /\ NoDescriptor \notin Descriptors

\* What a descriptor is open on.
Kinds == {"closed", "device", "pipe", "socket", "service"}

VARIABLES devices,   \* the pipe devices of this system
          kind,      \* of every descriptor
          pc,        \* where the call is
          fd,        \* its local variable
          result,    \* what the last qemud_channel_open returned
          returned,  \* the descriptors returned and not closed by the callers
          leaked     \* the descriptors of pipes that refused the name

openVars == <<devices, kind, pc, fd, result, returned, leaked>>

OpenInit ==
  /\ devices \in SUBSET {"qemu_pipe", "goldfish_pipe"}
  /\ kind = [d \in Descriptors |-> "closed"]
  /\ pc = "idle"
  /\ fd = NoDescriptor
  /\ result = NoDescriptor
  /\ returned = {}
  /\ leaked = {}

Call ==
  /\ pc = "idle"
  /\ pc' = "open qemu_pipe"
  /\ UNCHANGED <<devices, kind, fd, result, returned, leaked>>

\* open(2) or socket(2), ...: the lowest-numbered free descriptor, here any.
Obtain(d, what, next) ==
  /\ kind[d] = "closed"
  /\ kind' = [kind EXCEPT ![d] = what]
  /\ fd' = d
  /\ pc' = next

Fail(next) ==
  /\ pc' = next
  /\ UNCHANGED <<kind, fd>>

\* qemud_channel_open returns.
Succeed ==
  /\ pc' = "idle"
  /\ result' = fd
  /\ returned' = returned \cup {fd}
  /\ UNCHANGED fd

GiveUp ==
  /\ pc' = "idle"
  /\ result' = NoDescriptor
  /\ UNCHANGED <<fd, returned>>
-----------------------------------------------------------------------------
(* qemu_pipe_open                                                          *)

OpenQemuPipe ==
  /\ pc = "open qemu_pipe"
  /\ \/ "qemu_pipe" \in devices /\ \E d \in Descriptors : Obtain(d, "device", "write name")
     \/ "qemu_pipe" \in devices /\ Fail("no pipe")
     \/ "qemu_pipe" \notin devices /\ Fail("open goldfish_pipe")
  /\ UNCHANGED <<devices, result, returned, leaked>>

\* The other device, when the first does not exist.
OpenGoldfishPipe ==
  /\ pc = "open goldfish_pipe"
  /\ \/ "goldfish_pipe" \in devices /\ \E d \in Descriptors : Obtain(d, "device", "write name")
     \/ Fail("no pipe")
  /\ UNCHANGED <<devices, result, returned, leaked>>

\* Mutated form of WritePipeName: a short write counts as success.
WritePipeNameLoosely ==
  /\ pc = "write name"
  /\ \/ kind' = [kind EXCEPT ![fd] = "pipe"] /\ Succeed /\ UNCHANGED leaked
     \/ Succeed /\ UNCHANGED <<kind, leaked>>
  /\ UNCHANGED devices

\* write(fd, "pipe:<name>"): the service takes the name, or not; the error
\* path returns without closing the device.
WritePipeName ==
  /\ pc = "write name"
  /\ \/ /\ kind' = [kind EXCEPT ![fd] = "pipe"]
        /\ Succeed
        /\ UNCHANGED leaked
     \/ /\ pc' = "no pipe"
        /\ leaked' = leaked \cup {fd}
        /\ UNCHANGED <<kind, fd, result, returned>>
  /\ UNCHANGED devices
-----------------------------------------------------------------------------
(* The rest of qemud_channel_open.                                         *)

\* socket_local_client("qemud", ...)
ConnectSocket ==
  /\ pc = "no pipe"
  /\ \/ \E d \in Descriptors : Obtain(d, "socket", "send service name")
     \/ Fail("failed")
  /\ UNCHANGED <<devices, result, returned, leaked>>

\* qemud_fd_write(fd, name, namelen), in full or not.
SendServiceName ==
  /\ pc = "send service name"
  /\ pc' \in {"read answer", "close socket"}
  /\ UNCHANGED <<devices, kind, fd, result, returned, leaked>>

\* qemud_fd_read(fd, answer, 2): "OK", or anything else, or part of it.
ReadAnswer ==
  /\ pc = "read answer"
  /\ \/ /\ kind' = [kind EXCEPT ![fd] = "service"]
        /\ Succeed
     \/ /\ kind' \in {kind, [kind EXCEPT ![fd] = "service"]}
        /\ pc' = "close socket"
        /\ UNCHANGED <<fd, result, returned>>
  /\ UNCHANGED <<devices, leaked>>

\* Mutated form of CloseSocket: return -1 without close(fd).
CloseForgotten ==
  /\ pc = "close socket"
  /\ GiveUp
  /\ UNCHANGED <<devices, kind, leaked>>

CloseSocket ==
  /\ pc = "close socket"
  /\ kind' = [kind EXCEPT ![fd] = "closed"]
  /\ GiveUp
  /\ UNCHANGED <<devices, leaked>>

NoSocket ==
  /\ pc = "failed"
  /\ GiveUp
  /\ UNCHANGED <<devices, kind, leaked>>

\* A caller closes a channel it got.
Close ==
  /\ pc = "idle"
  /\ \E d \in returned :
       /\ kind' = [kind EXCEPT ![d] = "closed"]
       /\ returned' = returned \ {d}
       /\ result' = IF result = d THEN NoDescriptor ELSE result
  /\ UNCHANGED <<devices, pc, fd, leaked>>

qemu_pipe_open == OpenQemuPipe \/ OpenGoldfishPipe \/ WritePipeName

qemud_channel_open ==
  qemu_pipe_open \/ ConnectSocket \/ SendServiceName \/ ReadAnswer \/ CloseSocket \/ NoSocket
-----------------------------------------------------------------------------
Places == {"idle", "open qemu_pipe", "open goldfish_pipe", "write name", "no pipe",
           "send service name", "read answer", "close socket", "failed"}

OpenTypeOK ==
  /\ kind \in [Descriptors -> Kinds]
  /\ pc \in Places
  /\ fd \in Descriptors \cup {NoDescriptor}
  /\ result \in returned \cup {NoDescriptor}
  /\ returned \subseteq Descriptors /\ leaked \subseteq Descriptors

\* A channel that qemud_channel_open returned leads to the service: the pipe
\* device took its whole name, or the daemon answered OK, and nobody closed
\* it.
ReturnedIsConnected == \A d \in returned : kind[d] \in {"pipe", "service"}

\* Between calls the open descriptors are the ones the callers have, and
\* those of pipes that refused the name: no path on the socket side, however
\* the daemon answers and however often the channel is opened, leaves one
\* behind.
OnlyPipesLeak ==
  pc = "idle" => {d \in Descriptors : kind[d] # "closed"} = returned \cup leaked
=============================================================================
