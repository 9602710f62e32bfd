---------------------------- MODULE Qemud_proofs ----------------------------
(***************************************************************************)
(* The channels of hardware/qemud.h, for every set of descriptors and of   *)
(* messages, every base and number of digits of a header, every buffer and *)
(* every number of calls.                                                  *)
(***************************************************************************)
EXTENDS Qemud, NaturalFacts, SequenceTheorems

-----------------------------------------------------------------------------
(* Opening a channel.  A descriptor that qemud_channel_open has obtained   *)
(* and not yet returned, closed or lost is the one in its variable fd.     *)

Held ==
  IF pc \in {"write name", "send service name", "read answer", "close socket"}
    THEN {fd} ELSE {}

\* Every open descriptor is accounted for, and only once: the callers have
\* it, it has leaked, or the call in progress holds it.
Accounted ==
  /\ \A d \in Descriptors : kind[d] # "closed" <=> d \in returned \cup leaked \cup Held
  /\ Held \subseteq Descriptors
  /\ Held \cap (returned \cup leaked) = {} /\ returned \cap leaked = {}

OpenInv == OpenTypeOK /\ Accounted /\ ReturnedIsConnected

LEMMA OpenInvInit == OpenInit => OpenInv
BY DEF OpenInit, OpenInv, OpenTypeOK, Accounted, Held, ReturnedIsConnected, Kinds, Places

\* A call that obtains a descriptor holds it.
LEMMA Obtained ==
  ASSUME OpenTypeOK, Accounted, Held = {}, NEW d \in Descriptors, NEW what, NEW next,
         Obtain(d, what, next), what # "closed",
         next \in {"write name", "send service name"}, UNCHANGED <<returned, leaked>>
  PROVE  Accounted'
<1>1. /\ kind[d] = "closed" /\ kind' = [kind EXCEPT ![d] = what] /\ fd' = d
      /\ kind \in [Descriptors -> Kinds]
  BY DEF Obtain, OpenTypeOK
<1>2. Held' = {d}
  BY DEF Obtain, Held
<1>3. d \notin returned \cup leaked
  BY <1>1 DEF Accounted
<1>4. ASSUME NEW e \in Descriptors
      PROVE  kind'[e] # "closed" <=> e \in returned \cup leaked \cup {d}
  BY <1>1 DEF Accounted
<1> QED BY <1>2, <1>3, <1>4 DEF Accounted

\* A call that fails leaves the descriptors as they are.
LEMMA Failed ==
  ASSUME Accounted, Held = {}, NEW next, Fail(next),
         next \in {"open goldfish_pipe", "no pipe", "failed"}, UNCHANGED <<returned, leaked>>
  PROVE  Accounted'
BY DEF Accounted, Held, Fail

LEMMA OpenInvStep ==
  ASSUME OpenInv, qemud_channel_open \/ Call \/ Close
  PROVE  OpenInv'
<1> USE DescriptorAssumption DEF OpenInv
<1>1. CASE Call
  <2>1. OpenTypeOK'
    BY <1>1 DEF Call, OpenTypeOK, Accounted, Held, Kinds, Places
  <2>2. Accounted'
    BY <1>1 DEF Call, OpenTypeOK, Accounted, Held
  <2>3. ReturnedIsConnected'
    BY <1>1 DEF Call, OpenTypeOK, Accounted, Held, ReturnedIsConnected
  <2> QED BY <2>1, <2>2, <2>3
<1>2. CASE OpenQemuPipe
  <2>1. OpenTypeOK'
    BY <1>2 DEF OpenQemuPipe, Obtain, Fail, OpenTypeOK, Accounted, Held, Kinds, Places
  <2>2. Accounted'
    <3>1. Held = {}
      BY <1>2 DEF OpenQemuPipe, Held
    <3> QED BY <1>2, <3>1, Obtained, Failed DEF OpenQemuPipe
  <2>3. ReturnedIsConnected'
    BY <1>2 DEF OpenQemuPipe, Obtain, Fail, OpenTypeOK, Accounted, Held, ReturnedIsConnected
  <2> QED BY <2>1, <2>2, <2>3
<1>3. CASE OpenGoldfishPipe
  <2>1. OpenTypeOK'
    BY <1>3 DEF OpenGoldfishPipe, Obtain, Fail, OpenTypeOK, Accounted, Held, Kinds, Places
  <2>2. Accounted'
    <3>1. Held = {}
      BY <1>3 DEF OpenGoldfishPipe, Held
    <3> QED BY <1>3, <3>1, Obtained, Failed DEF OpenGoldfishPipe
  <2>3. ReturnedIsConnected'
    BY <1>3 DEF OpenGoldfishPipe, Obtain, Fail, OpenTypeOK, Accounted, Held, ReturnedIsConnected
  <2> QED BY <2>1, <2>2, <2>3
<1>4. CASE WritePipeName
  <2>1. OpenTypeOK'
    BY <1>4 DEF WritePipeName, Succeed, OpenTypeOK, Accounted, Held, Kinds, Places
  <2>2. Accounted'
    BY <1>4 DEF WritePipeName, Succeed, OpenTypeOK, Accounted, Held
  <2>3. ReturnedIsConnected'
    BY <1>4 DEF WritePipeName, Succeed, OpenTypeOK, Accounted, Held, ReturnedIsConnected
  <2> QED BY <2>1, <2>2, <2>3
<1>5. CASE ConnectSocket
  <2>1. OpenTypeOK'
    BY <1>5 DEF ConnectSocket, Obtain, Fail, OpenTypeOK, Accounted, Held, Kinds, Places
  <2>2. Accounted'
    <3>1. Held = {}
      BY <1>5 DEF ConnectSocket, Held
    <3> QED BY <1>5, <3>1, Obtained, Failed DEF ConnectSocket
  <2>3. ReturnedIsConnected'
    BY <1>5 DEF ConnectSocket, Obtain, Fail, OpenTypeOK, Accounted, Held, ReturnedIsConnected
  <2> QED BY <2>1, <2>2, <2>3
<1>6. CASE SendServiceName
  <2>1. OpenTypeOK'
    BY <1>6 DEF SendServiceName, OpenTypeOK, Accounted, Held, Kinds, Places
  <2>2. Accounted'
    BY <1>6 DEF SendServiceName, OpenTypeOK, Accounted, Held
  <2>3. ReturnedIsConnected'
    BY <1>6 DEF SendServiceName, OpenTypeOK, Accounted, Held, ReturnedIsConnected
  <2> QED BY <2>1, <2>2, <2>3
<1>7. CASE ReadAnswer
  <2>1. OpenTypeOK'
    BY <1>7 DEF ReadAnswer, Succeed, OpenTypeOK, Accounted, Held, Kinds, Places
  <2>2. Accounted'
    BY <1>7 DEF ReadAnswer, Succeed, OpenTypeOK, Accounted, Held
  <2>3. ReturnedIsConnected'
    BY <1>7 DEF ReadAnswer, Succeed, OpenTypeOK, Accounted, Held, ReturnedIsConnected
  <2> QED BY <2>1, <2>2, <2>3
<1>8. CASE CloseSocket
  <2>1. OpenTypeOK'
    BY <1>8 DEF CloseSocket, GiveUp, OpenTypeOK, Accounted, Held, Kinds, Places
  <2>2. Accounted'
    BY <1>8 DEF CloseSocket, GiveUp, OpenTypeOK, Accounted, Held
  <2>3. ReturnedIsConnected'
    BY <1>8 DEF CloseSocket, GiveUp, OpenTypeOK, Accounted, Held, ReturnedIsConnected
  <2> QED BY <2>1, <2>2, <2>3
<1>9. CASE NoSocket
  <2>1. OpenTypeOK'
    BY <1>9 DEF NoSocket, GiveUp, OpenTypeOK, Accounted, Held, Kinds, Places
  <2>2. Accounted'
    BY <1>9 DEF NoSocket, GiveUp, OpenTypeOK, Accounted, Held
  <2>3. ReturnedIsConnected'
    BY <1>9 DEF NoSocket, GiveUp, OpenTypeOK, Accounted, Held, ReturnedIsConnected
  <2> QED BY <2>1, <2>2, <2>3
<1>10. CASE Close
  <2>1. OpenTypeOK'
    BY <1>10 DEF Close, OpenTypeOK, Accounted, Held, Kinds, Places
  <2>2. Accounted'
    BY <1>10 DEF Close, OpenTypeOK, Accounted, Held
  <2>3. ReturnedIsConnected'
    BY <1>10 DEF Close, OpenTypeOK, Accounted, Held, ReturnedIsConnected
  <2> QED BY <2>1, <2>2, <2>3
<1> QED
  BY <1>1, <1>2, <1>3, <1>4, <1>5, <1>6, <1>7, <1>8, <1>9, <1>10
  DEF qemud_channel_open, qemu_pipe_open

\* What a call on a channel, or a step of the stream, leaves alone.
LEMMA OpenInvStutter == OpenInv /\ UNCHANGED openVars => OpenInv'
BY DEF OpenInv, OpenTypeOK, Accounted, Held, ReturnedIsConnected, openVars

LEMMA OpenInvariance == Spec => []OpenInv
<1>1. Init => OpenInv
  BY OpenInvInit DEF Init
<1>2. OpenInv /\ [Next]_vars => OpenInv'
  BY OpenInvStep, OpenInvStutter
  DEF Next, Open, OpenStep, SendStep, ReceiveStep, HangUp, vars
<1> QED BY <1>1, <1>2, PTL DEF Spec

\* Every channel that qemud_channel_open of qemud.h has returned leads to the
\* service: the write of the whole name succeeded, or the daemon said OK, and
\* nobody has closed the descriptor since.
THEOREM ReturnedIsConnectedHolds == Spec => []ReturnedIsConnected
<1>1. OpenInv => ReturnedIsConnected
  BY DEF OpenInv
<1> QED BY OpenInvariance, <1>1, PTL

\* The error path of qemu_pipe_open is the only one that loses a descriptor,
\* however often channels are opened and closed.
THEOREM OnlyPipesLeakHolds == Spec => []OnlyPipesLeak
<1>1. OpenInv => OnlyPipesLeak
  BY DEF OpenInv, OpenTypeOK, Accounted, Held, OnlyPipesLeak
<1> QED BY OpenInvariance, <1>1, PTL
-----------------------------------------------------------------------------
(* The header of a message says its length.                                *)

LEMMA PowerDef == \A k \in Nat : Power[k] = IF k = 0 THEN 1 ELSE Base * Power[k - 1]
<1> DEFINE step == [n \in Nat |-> [x \in Int |-> Base * x]]
<1>1. step \in Steps(Int) /\ 1 \in Int
  BY ChannelAssumption DEF Steps
<1>2. PICK f : Iterates(f, Int, 1, step)
  BY <1>1, Recursion
<1>3. f = [k \in Nat |-> IF k = 0 THEN 1 ELSE Base * f[k - 1]]
  <2>1. f \in [Nat -> Int] /\ f[0] = 1
    BY <1>2 DEF Iterates
  <2>2. ASSUME NEW k \in Nat, k # 0 PROVE f[k] = Base * f[k - 1]
    <3>1. k - 1 \in Nat /\ (k - 1) + 1 = k
      BY <2>2
    <3>2. f[(k - 1) + 1] = step[k - 1][f[k - 1]]
      BY <1>2, <3>1 DEF Iterates
    <3> QED BY <2>1, <3>1, <3>2
  <2> QED BY <2>1, <2>2
<1>4. Power = [k \in Nat |-> IF k = 0 THEN 1 ELSE Base * Power[k - 1]]
  BY <1>3 DEF Power
<1> QED BY <1>4

\* Powers are positive, and exceed their exponents.
LEMMA PowerFacts ==
  /\ \A k \in Nat : Power[k] \in Nat \ {0} /\ k < Power[k]
  /\ \A k \in Nat : Power[k + 1] = Base * Power[k]
<1>1. \A k \in Nat : Power[k + 1] = Base * Power[k]
  BY PowerDef
<1> DEFINE S == {k \in Nat : Power[k] \in Nat \ {0} /\ k < Power[k]}
<1>2. 0 \in S
  BY PowerDef
<1>3. ASSUME NEW k \in Nat, k \in S PROVE k + 1 \in S
  <2>1. Power[k] \in Nat /\ k < Power[k] /\ Base \in Nat /\ Base >= 2
    BY <1>3, ChannelAssumption
  <2>2. Base * Power[k] \in Nat /\ Base * Power[k] >= 2 * Power[k]
    BY <2>1
  <2> QED BY <1>1, <2>1, <2>2
<1>4. Nat \subseteq S
  <2> HIDE DEF S
  <2> QED BY <1>2, <1>3, NatSetInduction
<1> QED BY <1>1, <1>4

\* The width of a number is well defined.
LEMMA WidthFacts ==
  ASSUME NEW n \in Nat
  PROVE  /\ Width(n) \in Nat /\ Width(n) >= Digits
         /\ n < Power[Digits] => Width(n) = Digits
         /\ Header(n) = [d \in 1 .. Digits |-> (n \div Power[Width(n) - d]) % Base]
<1> DEFINE T == {w \in Nat : w >= Digits /\ n < Power[w]}
           Good(w) == w \in Digits .. Digits + n /\ n < Power[w]
                        /\ \A x \in Digits .. w - 1 : n >= Power[x]
<1>1. Digits \in Nat /\ Digits + n \in T
  <2>1. Digits \in Nat /\ Digits + n \in Nat
    BY ChannelAssumption
  <2>2. Digits + n < Power[Digits + n] /\ Power[Digits + n] \in Nat
    BY <2>1, PowerFacts
  <2> QED BY <2>1, <2>2
<1>2. PICK w \in T : \A y \in T : w <= y
  <2> HIDE DEF T
  <2>1. T # {}
    BY <1>1
  <2>2. T \in SUBSET Nat
    BY DEF T
  <2> QED BY <2>1, <2>2, LeastNatural
<1>3. Good(w)
  <2>1. w \in Digits .. Digits + n /\ n < Power[w]
    BY <1>1, <1>2
  <2>2. ASSUME NEW x \in Digits .. w - 1 PROVE n >= Power[x]
    <3>1. x \in Nat /\ x >= Digits /\ x < w /\ Power[x] \in Nat
      BY <1>1, <2>1, PowerFacts
    <3> QED BY <1>2, <3>1
  <2> QED BY <2>1, <2>2
<1>4. Good(Width(n))
  BY <1>3 DEF Width
<1>5. ASSUME n < Power[Digits] PROVE Width(n) = Digits
  <2>1. Width(n) \in Nat /\ Power[Digits] \in Nat
    BY <1>1, <1>4, PowerFacts
  <2>2. SUFFICES ASSUME Width(n) > Digits PROVE FALSE
    BY <1>1, <1>4, <2>1
  <2>3. Digits \in Digits .. Width(n) - 1
    BY <1>1, <2>1, <2>2
  <2>4. n >= Power[Digits]
    BY <1>4, <2>3
  <2> QED BY <1>5, <2>1, <2>4
<1>6. Header(n) = [d \in 1 .. Digits |-> (n \div Power[Width(n) - d]) % Base]
  BY DEF Header
<1> QED BY <1>1, <1>4, <1>5, <1>6

\* A header has Digits bytes, all of them digits.
LEMMA HeaderType ==
  ASSUME NEW n \in Nat
  PROVE  /\ Header(n) \in Seq(Byte) /\ Len(Header(n)) = Digits
         /\ \A d \in 1 .. Digits : Header(n)[d] \in 0 .. Base - 1
<1>1. ASSUME NEW d \in 1 .. Digits
      PROVE  (n \div Power[Width(n) - d]) % Base \in 0 .. Base - 1
  <2>1. Width(n) - d \in Nat
    <3>1. Width(n) \in Nat /\ Width(n) >= Digits
      BY WidthFacts
    <3> QED BY <3>1, ChannelAssumption
  <2>2. Power[Width(n) - d] \in Nat \ {0}
    BY <2>1, PowerFacts
  <2>3. n \div Power[Width(n) - d] \in Int
    BY <2>2
  <2> QED BY <2>3, ChannelAssumption
<1>2. Header(n) \in [1 .. Digits -> 0 .. Base - 1]
  BY <1>1, WidthFacts
<1>3. 0 .. Base - 1 \subseteq Byte /\ Digits \in Nat
  BY ChannelAssumption DEF Byte, Other
<1> QED BY <1>2, <1>3

LEMMA ValueFacts ==
  ASSUME NEW h \in Seq(Byte)
  PROVE  /\ Value(h) \in [0 .. Len(h) -> Int] /\ Value(h)[0] = 0
         /\ \A k \in 1 .. Len(h) : Value(h)[k] = (Value(h)[k - 1] * Base) + h[k]
<1> DEFINE digit == [n \in Nat |-> IF n + 1 \in 1 .. Len(h) THEN h[n + 1] ELSE 0]
           step == [n \in Nat |-> [x \in Int |-> (x * Base) + digit[n]]]
<1>1. Byte \subseteq Int /\ Base \in Int /\ Len(h) \in Nat
      /\ \A k \in 1 .. Len(h) : h[k] \in Int
  <2>1. \A k \in 1 .. Len(h) : h[k] \in Byte
    OBVIOUS
  <2> QED BY <2>1, ChannelAssumption DEF Byte, Other
<1>2. digit \in [Nat -> Int]
  BY <1>1
<1>3. step \in Steps(Int) /\ 0 \in Int
  <2> HIDE DEF digit
  <2> QED BY <1>1, <1>2 DEF Steps
<1>4. PICK f : IteratesTo(f, Len(h), Int, 0, step)
  <2> HIDE DEF step
  <2> QED BY <1>1, <1>3, RecursionTo
<1>5. ASSUME NEW g \in [0 .. Len(h) -> Int], NEW k \in 0 .. Len(h), k # 0
      PROVE  step[k - 1][g[k - 1]] = (g[k - 1] * Base) + h[k]
  <2>1. k - 1 \in Nat /\ k - 1 \in 0 .. Len(h) /\ (k - 1) + 1 = k /\ k \in 1 .. Len(h)
    BY <1>1, <1>5
  <2>2. digit[k - 1] = h[k]
    BY <2>1
  <2> HIDE DEF digit
  <2> QED BY <2>1, <2>2
<1>6. f = [k \in 0 .. Len(h) |-> IF k = 0 THEN 0 ELSE (f[k - 1] * Base) + h[k]]
  <2> HIDE DEF step
  <2> QED BY <1>4, <1>5 DEF IteratesTo
<1>7. Value(h) = [k \in 0 .. Len(h) |->
                    IF k = 0 THEN 0 ELSE (Value(h)[k - 1] * Base) + h[k]]
  BY <1>6 DEF Value
<1>8. Value(h)[0] = 0 /\ DOMAIN Value(h) = 0 .. Len(h)
  BY <1>1, <1>7
<1>9. \A k \in 1 .. Len(h) : Value(h)[k] = (Value(h)[k - 1] * Base) + h[k]
  <2>1. \A k \in 1 .. Len(h) : k \in 0 .. Len(h) /\ k # 0
    BY <1>1
  <2> QED BY <1>7, <2>1
<1> DEFINE S == {k \in Nat : k <= Len(h) => Value(h)[k] \in Int}
<1>10. Nat \subseteq S
  <2>1. 0 \in S
    BY <1>8
  <2>2. ASSUME NEW k \in Nat, k \in S PROVE k + 1 \in S
    <3> SUFFICES ASSUME k + 1 <= Len(h) PROVE Value(h)[k + 1] \in Int
      OBVIOUS
    <3>1. k + 1 \in 1 .. Len(h) /\ (k + 1) - 1 = k /\ Value(h)[k] \in Int
      BY <1>1, <2>2
    <3>2. h[k + 1] \in Int
      BY <1>1, <3>1
    <3> QED BY <1>1, <1>9, <3>1, <3>2
  <2> HIDE DEF S
  <2> QED BY <2>1, <2>2, NatSetInduction
<1>11. Value(h) \in [0 .. Len(h) -> Int]
  BY <1>1, <1>7, <1>10
<1> QED BY <1>8, <1>9, <1>11

\* What the receiver's sscanf makes of the sender's snprintf.
LEMMA ParsedHeader ==
  ASSUME NEW n \in Nat, n < Power[Digits]
  PROVE  Parsed(Header(n)) = {n}
<1> DEFINE h == Header(n)
           P(k) == Power[Digits - k]
<1>1. /\ h \in Seq(Byte) /\ Len(h) = Digits /\ Digits \in Nat \ {0}
      /\ \A k \in 1 .. Digits : h[k] \in 0 .. Base - 1 /\ h[k] = (n \div P(k)) % Base
  <2>1. /\ h \in Seq(Byte) /\ Len(h) = Digits /\ Digits \in Nat \ {0}
        /\ \A k \in 1 .. Digits : h[k] \in 0 .. Base - 1
    BY HeaderType, ChannelAssumption
  <2>2. \A k \in 1 .. Digits : h[k] = (n \div P(k)) % Base
    <3>1. h = [k \in 1 .. Digits |-> (n \div P(k)) % Base]
      <4>1. /\ Width(n) = Digits
            /\ h = [d \in 1 .. Digits |-> (n \div Power[Width(n) - d]) % Base]
        BY WidthFacts
      <4> QED BY <4>1
    <3> QED BY <3>1
  <2> QED BY <2>1, <2>2
<1>2. \A k \in 0 .. Digits : P(k) \in Nat \ {0}
  <2>1. \A k \in 0 .. Digits : Digits - k \in Nat
    BY <1>1
  <2> QED BY <2>1, PowerFacts
<1>3. \A k \in 1 .. Digits : P(k - 1) = Base * P(k)
  <2>1. \A k \in 1 .. Digits : Digits - k \in Nat /\ (Digits - k) + 1 = Digits - (k - 1)
    BY <1>1
  <2> QED BY <2>1, PowerFacts
<1> DEFINE S == {k \in Nat : k <= Digits => Value(h)[k] = n \div P(k)}
<1>4. 0 \in S
  <2>1. P(0) = Power[Digits]
    BY <1>1
  <2>2. Power[Digits] \in Nat \ {0} /\ n = (0 * Power[Digits]) + n
    <3>1. Power[Digits] \in Nat \ {0}
      BY <1>1, PowerFacts
    <3> QED BY <3>1
  <2>3. n \div Power[Digits] = 0
    BY <2>2, Quotient
  <2> QED BY <2>1, <2>3, <1>1, ValueFacts
<1>5. ASSUME NEW k \in Nat, k \in S PROVE k + 1 \in S
  <2> SUFFICES ASSUME k + 1 <= Digits PROVE Value(h)[k + 1] = n \div P(k + 1)
    OBVIOUS
  <2>1. k + 1 \in 1 .. Digits /\ (k + 1) - 1 = k
    BY <1>1
  <2>2. Value(h)[k] = n \div P(k)
    <3>1. k <= Digits
      BY <1>1, <2>1
    <3> HIDE DEF P, h
    <3> QED BY <1>5, <3>1
  <2>3. P(k) = Base * P(k + 1) /\ P(k + 1) \in Nat \ {0}
    BY <1>2, <1>3, <2>1
  <2>4. n \div P(k + 1) = ((n \div P(k)) * Base) + ((n \div P(k + 1)) % Base)
    <3> DEFINE p == P(k + 1)
    <3>1. Base \in Nat \ {0} /\ p \in Nat \ {0} /\ P(k) = Base * p
      BY <2>3, ChannelAssumption
    <3> HIDE DEF p
    <3>2. n \div p = ((n \div (Base * p)) * Base) + ((n \div p) % Base)
      BY <3>1, QuotientOfQuotient
    <3> QED BY <3>1, <3>2 DEF p
  <2>5. Value(h)[k + 1] = (Value(h)[k] * Base) + h[k + 1]
    BY <1>1, <2>1, ValueFacts
  <2> HIDE DEF P, h
  <2> QED BY <1>1, <2>1, <2>2, <2>4, <2>5
<1>6. Digits \in S
  <2> HIDE DEF S
  <2> QED BY <1>1, <1>4, <1>5, NatSetInduction
<1>7. Value(h)[Digits] = n
  <2>1. P(Digits) = 1
    BY <1>1, PowerDef
  <2> QED BY <1>1, <1>6, <2>1
<1>8. DOMAIN h = 1 .. Digits /\ \A k \in 1 .. Digits : h[k] # Other
  BY <1>1 DEF Other
<1>9. Starts(h) = {1}
  <2>1. 1 \in Starts(h)
    BY <1>1, <1>8 DEF Starts
  <2>2. ASSUME NEW i \in Starts(h) PROVE i = 1
    <3>1. /\ i \in 1 .. Digits
          /\ \A k \in 1 .. i - 1 : h[k] = Other \/ (k = i - 2 /\ h[k] = 0)
      BY <1>8 DEF Starts
    <3>2. i > 1 => i - 1 \in 1 .. i - 1 /\ i - 1 \in 1 .. Digits /\ i - 1 # i - 2
      BY <1>1, <3>1
    <3> HIDE DEF h
    <3>3. i > 1 => h[i - 1] # Other
      BY <1>8, <3>2
    <3>4. i > 1 => h[i - 1] = Other
      BY <3>1, <3>2
    <3> QED BY <3>1, <3>3, <3>4
  <2> QED BY <2>1, <2>2
<1>10. DigitsFrom(h, 1) = h
  <2> DEFINE ends == {j \in 1 .. Len(h) : \A k \in 1 .. j : h[k] # Other}
  <2>1. ends = 1 .. Digits
    BY <1>1, <1>8
  <2>2. (CHOOSE j \in ends : \A k \in ends : k <= j) = Digits
    <3>1. \A x \in 1 .. Digits : (\A y \in 1 .. Digits : y <= x) <=> x = Digits
      BY <1>1
    <3>2. Digits \in 1 .. Digits
      BY <1>1
    <3> HIDE DEF ends
    <3> QED BY <2>1, <3>1, <3>2
  <2>3. SubSeq(h, 1, Digits) = h
    <3> HIDE DEF h
    <3> QED BY <1>1
  <2> QED BY <2>2, <2>3 DEF DigitsFrom
<1>11. Number(DigitsFrom(h, 1)) = n
  BY <1>1, <1>7, <1>10 DEF Number
<1>12. h[1] # Other /\ ~(Digits > 1 /\ h[1] = 0 /\ h[2] = Other)
  BY <1>1, <1>8
<1> HIDE DEF h
<1>13. {Number(DigitsFrom(h, i)) : i \in Starts(h)} = {n}
  BY <1>9, <1>11
<1>14. Parsed(h) = {n}
  BY <1>12, <1>13 DEF Parsed
<1> QED BY <1>14 DEF h

\* What digits say is a natural number.
LEMMA NumberType ==
  ASSUME NEW h \in Seq(0 .. Base - 1)
  PROVE  Number(h) \in Nat
<1>1. /\ Len(h) \in Nat /\ Base \in Nat /\ h \in Seq(Byte)
      /\ \A k \in 1 .. Len(h) : h[k] \in Nat
  <2>1. Base \in Nat /\ 0 .. Base - 1 \subseteq Byte
    BY ChannelAssumption DEF Byte, Other
  <2>2. h \in Seq(Byte)
    BY <2>1, SeqMonotonic
  <2>3. \A k \in 1 .. Len(h) : h[k] \in 0 .. Base - 1
    BY ElementOfSeq
  <2> QED BY <2>1, <2>2, <2>3
<1>values. /\ Value(h)[0] = 0
           /\ \A k \in 1 .. Len(h) : Value(h)[k] = (Value(h)[k - 1] * Base) + h[k]
  BY <1>1, ValueFacts, Zenon
<1> DEFINE S == {k \in Nat : k <= Len(h) => Value(h)[k] \in Nat}
<1>2. 0 \in S
  BY <1>values
<1>3. ASSUME NEW k \in Nat, k \in S PROVE k + 1 \in S
  <2> SUFFICES ASSUME k + 1 <= Len(h) PROVE Value(h)[k + 1] \in Nat
    OBVIOUS
  <2>1. k + 1 \in 1 .. Len(h) /\ (k + 1) - 1 = k /\ Value(h)[k] \in Nat
    BY <1>1, <1>3
  <2>2. Value(h)[k + 1] = (Value(h)[k] * Base) + h[k + 1]
    BY <1>values, <2>1
  <2>3. h[k + 1] \in Nat /\ Base \in Nat
    BY <1>1, <2>1
  <2>4. \A v, b, d \in Nat : (v * b) + d \in Nat
    OBVIOUS
  <2>5. (Value(h)[k] * Base) + h[k + 1] \in Nat
    BY <2>1, <2>3, <2>4, Zenon
  <2> QED BY <2>2, <2>5, Zenon
<1>4. Len(h) \in S
  <2> HIDE DEF S
  <2> QED BY <1>1, <1>2, <1>3, NatSetInduction
<1> QED BY <1>1, <1>4 DEF Number

\* What the receiver takes for digits are digits.
LEMMA DigitsFromType ==
  ASSUME NEW h \in Seq(Byte), NEW i \in Starts(h)
  PROVE  DigitsFrom(h, i) \in Seq(0 .. Base - 1)
<1> DEFINE ends == {j \in i .. Len(h) : \A k \in i .. j : h[k] # Other}
           last == CHOOSE j \in ends : \A k \in ends : k <= j
<1>1. Len(h) \in Nat /\ i \in 1 .. Len(h) /\ h[i] # Other
  BY DEF Starts
<1>2. last \in ends
  <2>1. ends \in SUBSET (0 .. Len(h)) /\ i \in ends
    BY <1>1
  <2> HIDE DEF ends
  <2> QED BY <1>1, <2>1, GreatestNatural
<1> HIDE DEF last
<1>3. last \in i .. Len(h) /\ \A k \in i .. last : h[k] \in 0 .. Base - 1
  <2>1. \A k \in i .. last : k \in 1 .. Len(h)
    BY <1>1, <1>2
  <2>2. \A k \in 1 .. Len(h) : h[k] \in Byte
    BY ElementOfSeq
  <2> QED BY <1>2, <2>1, <2>2, ChannelAssumption DEF Byte, Other
<1>4. SubSeq(h, i, last) = [k \in 1 .. last - i + 1 |-> h[i + k - 1]]
  BY <1>1, <1>3
<1>5. /\ last - i + 1 \in Nat
      /\ \A k \in 1 .. last - i + 1 : h[i + k - 1] \in 0 .. Base - 1
  <2>1. i \in Nat /\ last \in Nat /\ i <= last
    BY <1>1, <1>3
  <2>2. \A k \in 1 .. last - i + 1 : i + k - 1 \in i .. last
    BY <2>1
  <2> QED BY <1>3, <2>1, <2>2
<1>6. SubSeq(h, i, last) \in Seq(0 .. Base - 1)
  <2> DEFINE n == last - i + 1
             D == 0 .. Base - 1
             s == SubSeq(h, i, last)
  <2>1. n \in Nat /\ s \in [1 .. n -> D]
    BY <1>4, <1>5
  <2> HIDE DEF n, D, s
  <2>2. s \in Seq(D)
    BY <2>1
  <2> QED BY <2>2 DEF D, s
<1> QED BY <1>6 DEF DigitsFrom, last

\* Whatever the receiver reads, what it takes for a size is one.
LEMMA ParsedType ==
  ASSUME NEW h \in Seq(Byte)
  PROVE  Parsed(h) \subseteq Nat \cup {NoSize, Negative}
<1>1. \A i \in Starts(h) : Number(DigitsFrom(h, i)) \in Nat
  BY DigitsFromType, NumberType
<1> QED BY <1>1 DEF Parsed
-----------------------------------------------------------------------------
(* The stream.                                                             *)

\* The receiver has r messages, and the sender has sent n.  What has been
\* written from message k + 1 on is rest[k]: the frames of the messages sent,
\* then the header of the one between its two writes.
Remaining(rest) ==
  /\ rest \in [Nat -> Seq(Byte)]
  /\ rest[Len(sent)] = IF sending = Nothing THEN <<>> ELSE Header(Len(sending))
  /\ \A k \in Len(received) .. Len(sent) - 1 :
       rest[k] = Header(Len(sent[k + 1])) \o (sent[k + 1] \o rest[k + 1])

\* The message the receiver gets next.
Upcoming == IF Len(received) < Len(sent) THEN sent[Len(received) + 1] ELSE sending

\* The receiver is in step with the sender: it has the first messages; all
\* that has been written of the others is on the wire, but for the header it
\* has read, and then it awaits as many bytes as the message has.
InStep ==
  /\ Len(received) <= Len(sent)
  /\ \A i \in 1 .. Len(received) : received[i] = sent[i]
  /\ awaited # NoSize => Upcoming # Nothing /\ awaited = Len(Upcoming)
  /\ \E rest : /\ Remaining(rest)
               /\ rest[Len(received)] =
                    IF awaited = NoSize THEN wire ELSE Header(awaited) \o wire

ChannelInv ==
  /\ ChannelTypeOK
  /\ sent \in Seq(Messages \ {Nothing}) /\ failed \in BOOLEAN
  /\ ~failed /\ ~Misframed => InStep

LEMMA Cancel ==
  \A a, b, c \in Seq(Byte) : (a \o b = a => b = <<>>) /\ (a \o b = a \o c => b = c)
BY ConcatSimplifications

LEMMA Associative == \A a, b, c \in Seq(Byte) : (a \o b) \o c = a \o (b \o c)
BY ConcatAssociative

\* A channel nothing has been sent on.
Fresh ==
  /\ wire = <<>> /\ sending = Nothing /\ sent = <<>>
  /\ awaited = NoSize /\ received = <<>> /\ failed = FALSE

LEMMA FreshChannel == Fresh => ChannelInv
<1> SUFFICES ASSUME Fresh PROVE ChannelInv
  OBVIOUS
<1> USE DEF Fresh, Nothing, NoSize
<1>1. ChannelTypeOK /\ sent \in Seq(Messages \ {Nothing}) /\ failed \in BOOLEAN
  <2>1. \A S : <<>> \in Seq(S)
    BY EmptySeq
  <2>2. wire \in Seq(Byte) /\ sent \in Seq(Messages) /\ received \in Seq(Seq(Byte))
        /\ sent \in Seq(Messages \ {<<>>})
    BY <2>1, Zenon
  <2> QED BY <2>2 DEF ChannelTypeOK
<1>2. Remaining([k \in Nat |-> <<>>])
  BY DEF Remaining
<1>3. InStep
  BY <1>2 DEF InStep
<1> QED BY <1>1, <1>3 DEF ChannelInv

\* A read of as many bytes as the first part of the wire has takes that part.
LEMMA FirstOfTwo ==
  ASSUME NEW h \in Seq(Byte), NEW t \in Seq(Byte)
  PROVE  /\ SubSeq(h \o t, 1, Len(h)) = h
         /\ SubSeq(h \o t, Len(h) + 1, Len(h \o t)) = t
<1>1. /\ Len(h) \in Nat /\ Len(t) \in Nat /\ h \o t \in Seq(Byte)
      /\ Len(h \o t) = Len(h) + Len(t)
  OBVIOUS
<1>2. SubSeq(h \o t, 1, Len(h)) = h
  <2> DEFINE s == SubSeq(h \o t, 1, Len(h))
  <2>1. s \in Seq(Byte) /\ Len(s) = Len(h)
    BY <1>1
  <2>2. \A i \in 1 .. Len(h) : s[i] = h[i]
    BY <1>1
  <2> HIDE DEF s
  <2>3. s = h
    BY <2>1, <2>2, SeqEqual
  <2> QED BY <2>3 DEF s
<1>3. SubSeq(h \o t, Len(h) + 1, Len(h \o t)) = t
  <2> DEFINE s == SubSeq(h \o t, Len(h) + 1, Len(h \o t))
  <2>1. s \in Seq(Byte) /\ Len(s) = Len(t)
    BY <1>1
  <2>2. \A i \in 1 .. Len(t) : s[i] = t[i]
    BY <1>1
  <2> HIDE DEF s
  <2>3. s = t
    BY <2>1, <2>2, SeqEqual
  <2> QED BY <2>3 DEF s
<1> QED BY <1>2, <1>3

LEMMA ChannelTypes ==
  ASSUME ChannelInv
  PROVE  /\ wire \in Seq(Byte) /\ sent \in Seq(Messages) /\ received \in Seq(Seq(Byte))
         /\ Len(sent) \in Nat /\ Len(received) \in Nat
         /\ \A k \in 1 .. Len(sent) : sent[k] \in Messages /\ sent[k] # <<>>
         /\ sending \in Messages \cup {<<>>}
         /\ awaited \in Nat \cup {NoSize, Negative}
<1>1. /\ wire \in Seq(Byte) /\ sent \in Seq(Messages) /\ received \in Seq(Seq(Byte))
      /\ sent \in Seq(Messages \ {<<>>}) /\ sending \in Messages \cup {<<>>}
      /\ awaited \in Nat \cup {NoSize, Negative}
  BY ChannelAssumption DEF ChannelInv, ChannelTypeOK, Nothing, NoSize
<1>2. \A k \in 1 .. Len(sent) : sent[k] \in Messages \ {<<>>}
  BY <1>1, ElementOfSeq
<1>3. Len(sent) \in Nat /\ Len(received) \in Nat
  BY <1>1, LenProperties
<1> QED BY <1>1, <1>2, <1>3

LEMMA HeaderAndMessage ==
  ASSUME NEW m \in Messages
  PROVE  /\ m \in Seq(Byte) /\ Len(m) \in Nat
         /\ Header(Len(m)) \in Seq(Byte) /\ Len(Header(Len(m))) = Digits
         /\ ~TooLong(m) => Parsed(Header(Len(m))) = {Len(m)}
<1>1. m \in Seq(Byte) /\ Len(m) \in Nat
  BY MessagesAssumption
<1>2. Power[Digits] \in Nat
  BY PowerFacts, ChannelAssumption
<1>3. ~TooLong(m) => Len(m) < Power[Digits]
  BY <1>1, <1>2 DEF TooLong
<1> QED BY <1>1, <1>3, HeaderType, ParsedHeader

\* A receiver in step awaits a message: no negative size.
LEMMA AwaitedInStep ==
  ASSUME ChannelInv, InStep, awaited # NoSize
  PROVE  awaited \in Nat /\ Header(awaited) \in Seq(Byte)
<1>1. awaited = Len(Upcoming) /\ Upcoming # <<>>
  BY DEF InStep, Nothing
<1>2. Upcoming \in Messages
  <2>1. CASE Len(received) < Len(sent)
    <3>1. Len(received) + 1 \in 1 .. Len(sent)
      BY <2>1, ChannelTypes
    <3> QED BY <2>1, <3>1, ChannelTypes DEF Upcoming
  <2>2. CASE ~(Len(received) < Len(sent))
    <3>1. Upcoming = sending
      BY <2>2 DEF Upcoming
    <3> QED BY <1>1, <3>1, ChannelTypes
  <2> QED BY <2>1, <2>2
<1> QED BY <1>1, <1>2, HeaderAndMessage

LEMMA SendHeaderStep ==
  ASSUME ChannelInv, SendHeader
  PROVE  ChannelInv'
<1> USE DEF Nothing
<1>1. PICK m \in Messages \ {<<>>} : \E part \in Written(Header(Len(m))) :
        /\ wire' = wire \o part
        /\ IF part = Header(Len(m))
             THEN sending' = m /\ UNCHANGED failed
             ELSE failed' = TRUE /\ UNCHANGED sending
  BY DEF SendHeader
<1> DEFINE H == Header(Len(m))
<1>2. H \in Seq(Byte) /\ m \in Messages
  BY <1>1, HeaderAndMessage
<1>3. PICK part \in Written(H) :
        /\ wire' = wire \o part
        /\ IF part = H THEN sending' = m /\ UNCHANGED failed
                       ELSE failed' = TRUE /\ UNCHANGED sending
  BY <1>1
<1> HIDE DEF H
<1>4. part \in Seq(Byte)
  BY <1>2 DEF Written
<1>5. ChannelTypeOK' /\ sent' \in Seq(Messages \ {Nothing}) /\ failed' \in BOOLEAN
  <2>1. wire' \in Seq(Byte)
    BY <1>3, <1>4, ChannelTypes, ConcatProperties
  <2>2. /\ sending' \in Messages \cup {<<>>} /\ failed' \in BOOLEAN
        /\ UNCHANGED <<sent, awaited, received>>
    BY <1>2, <1>3 DEF SendHeader, ChannelInv, ChannelTypeOK
  <2> QED BY <2>1, <2>2 DEF ChannelInv, ChannelTypeOK
<1>6. SUFFICES ASSUME ~failed', ~Misframed' PROVE InStep'
  BY <1>5 DEF ChannelInv
<1>7. /\ wire' = wire \o H /\ sending = <<>> /\ sending' = m /\ ~failed
      /\ UNCHANGED <<sent, awaited, received>> /\ m # <<>>
  BY <1>1, <1>3, <1>6 DEF SendHeader
<1>8. ~Misframed
  <2>1. ~TooLong(<<>>)
    <3>1. Digits \in Nat /\ Len(<<>>) = 0
      BY ChannelAssumption
    <3>2. Power[Digits] \in Nat \ {0}
      BY <3>1, PowerFacts
    <3> QED BY <3>1, <3>2 DEF TooLong
  <2> QED BY <1>6, <1>7, <2>1 DEF Misframed
<1>9. InStep
  BY <1>7, <1>8 DEF ChannelInv
<1>10. PICK rest : /\ Remaining(rest)
                   /\ rest[Len(received)] =
                        IF awaited = NoSize THEN wire ELSE Header(awaited) \o wire
  BY <1>9 DEF InStep
<1> DEFINE more == [k \in Nat |-> rest[k] \o H]
<1>11. /\ Len(received) \in Nat /\ Len(sent) \in Nat /\ wire \in Seq(Byte)
       /\ rest \in [Nat -> Seq(Byte)]
       /\ awaited # NoSize => Header(awaited) \in Seq(Byte)
       /\ \A k \in 1 .. Len(sent) : sent[k] \in Messages
  BY <1>9, <1>10, ChannelTypes, AwaitedInStep DEF Remaining
<1>12. Remaining(more)'
  <2>1. more \in [Nat -> Seq(Byte)]
    BY <1>2, <1>11
  <2>2. more[Len(sent)] = H
    BY <1>2, <1>7, <1>10, <1>11 DEF Remaining
  <2>3. ASSUME NEW k \in Len(received) .. Len(sent) - 1
        PROVE  more[k] = Header(Len(sent[k + 1])) \o (sent[k + 1] \o more[k + 1])
    <3> DEFINE s == sent[k + 1]
               h == Header(Len(s))
    <3>1. k \in Nat /\ k + 1 \in Nat /\ s \in Seq(Byte) /\ h \in Seq(Byte)
      <4>1. k \in Nat /\ k + 1 \in Nat /\ k + 1 \in 1 .. Len(sent)
        BY <1>11
      <4>2. s \in Messages
        BY <1>11, <4>1
      <4> QED BY <4>1, <4>2, HeaderAndMessage
    <3>2. rest[k] = h \o (s \o rest[k + 1]) /\ rest[k + 1] \in Seq(Byte)
      BY <1>10, <1>11, <3>1 DEF Remaining
    <3> HIDE DEF s, h
    <3>3. (h \o (s \o rest[k + 1])) \o H = h \o ((s \o rest[k + 1]) \o H)
      <4>1. s \o rest[k + 1] \in Seq(Byte)
        BY <3>1, <3>2, ConcatProperties
      <4>2. H \in Seq(Byte) /\ h \in Seq(Byte)
        BY <1>2, <3>1
      <4> QED BY <4>1, <4>2, Associative, Zenon
    <3>4. (s \o rest[k + 1]) \o H = s \o (rest[k + 1] \o H)
      <4>1. H \in Seq(Byte) /\ s \in Seq(Byte) /\ rest[k + 1] \in Seq(Byte)
        BY <1>2, <3>1, <3>2
      <4> QED BY <4>1, Associative, Zenon
    <3> QED BY <3>1, <3>2, <3>3, <3>4 DEF s, h
  <2> HIDE DEF more
  <2> QED BY <1>7, <2>1, <2>2, <2>3 DEF Remaining, H
<1>13. more[Len(received)] = IF awaited = NoSize THEN wire' ELSE Header(awaited) \o wire'
  <2>1. awaited # NoSize => (Header(awaited) \o wire) \o H = Header(awaited) \o (wire \o H)
    BY <1>2, <1>11, Associative
  <2> QED BY <1>7, <1>10, <1>11, <2>1
<1> HIDE DEF more
<1>14. awaited # NoSize => Upcoming' # Nothing /\ awaited = Len(Upcoming')
  BY <1>7, <1>9, <1>11 DEF InStep, Upcoming
<1>15. Len(received) <= Len(sent) /\ \A i \in 1 .. Len(received) : received[i] = sent[i]
  BY <1>9 DEF InStep
<1> QED BY <1>7, <1>12, <1>13, <1>14, <1>15 DEF InStep

LEMMA SendPayloadStep ==
  ASSUME ChannelInv, SendPayload
  PROVE  ChannelInv'
<1> USE DEF Nothing
<1>1. PICK part \in Written(sending) :
        /\ wire' = wire \o part
        /\ IF part = sending
             THEN sent' = Append(sent, sending) /\ UNCHANGED failed
             ELSE failed' = TRUE /\ UNCHANGED sent
  BY DEF SendPayload
<1>2. /\ sending \in Messages \ {<<>>} /\ sending \in Seq(Byte) /\ wire \in Seq(Byte)
      /\ sent \in Seq(Messages \ {<<>>}) /\ received \in Seq(Seq(Byte))
      /\ sending' = <<>> /\ UNCHANGED <<awaited, received>>
  BY HeaderAndMessage DEF SendPayload, ChannelInv, ChannelTypeOK
<1>3. part \in Seq(Byte)
  <2>1. \A k \in 0 .. Len(sending) : SubSeq(sending, 1, k) \in Seq(Byte)
    BY <1>2
  <2> QED BY <1>1, <2>1 DEF Written
<1>4. ChannelTypeOK' /\ sent' \in Seq(Messages \ {Nothing}) /\ failed' \in BOOLEAN
  <2>1. sent' \in Seq(Messages \ {<<>>})
    <3>1. Append(sent, sending) \in Seq(Messages \ {<<>>})
      BY <1>2, AppendProperties
    <3> QED BY <1>1, <1>2, <3>1
  <2>2. sent' \in Seq(Messages)
    BY <2>1, SeqMonotonic
  <2>3. wire' \in Seq(Byte)
    BY <1>1, <1>2, <1>3, ConcatProperties
  <2> QED BY <1>1, <1>2, <2>1, <2>2, <2>3 DEF ChannelInv, ChannelTypeOK
<1>5. SUFFICES ASSUME ~failed', ~Misframed' PROVE InStep'
  BY <1>4 DEF ChannelInv
<1>6. wire' = wire \o sending /\ sent' = Append(sent, sending) /\ ~failed
  BY <1>1, <1>5
<1>7. Len(sent) \in Nat /\ Len(sent') = Len(sent) + 1 /\ sent'[Len(sent) + 1] = sending
      /\ \A k \in 1 .. Len(sent) : sent'[k] = sent[k] /\ sent[k] \in Messages
  BY <1>2, <1>6
<1>8. ~Misframed
  <2>1. Range(sent') = Range(sent) \cup {sending}
    <3>1. DOMAIN sent = 1 .. Len(sent) /\ DOMAIN sent' = 1 .. Len(sent) + 1
      BY <1>2, <1>6, <1>7
    <3>2. 1 .. Len(sent) + 1 = (1 .. Len(sent)) \cup {Len(sent) + 1}
      BY <1>7
    <3> QED BY <1>7, <3>1, <3>2 DEF Range
  <2> QED BY <1>5, <2>1 DEF Misframed
<1>9. InStep
  BY <1>6, <1>8 DEF ChannelInv
<1>10. PICK rest : /\ Remaining(rest)
                   /\ rest[Len(received)] =
                        IF awaited = NoSize THEN wire ELSE Header(awaited) \o wire
  BY <1>9 DEF InStep
<1>11. /\ Len(received) \in Nat /\ Len(received) <= Len(sent) /\ rest \in [Nat -> Seq(Byte)]
       /\ awaited # NoSize => Header(awaited) \in Seq(Byte)
  <2>1. awaited # NoSize => Header(awaited) \in Seq(Byte)
    BY <1>9, AwaitedInStep
  <2> QED BY <1>9, <1>10, <2>1, ChannelTypes DEF Remaining, InStep
<1>lengths. Len(sent) \in Nat /\ Len(received) \in Nat /\ Len(received) <= Len(sent)
  BY <1>7, <1>11
<1> DEFINE longer == [k \in Nat |-> IF k <= Len(sent) THEN rest[k] \o sending ELSE <<>>]
<1>more. PICK more : more = longer
  OBVIOUS
<1>12. Remaining(more)'
  <2>1. more \in [Nat -> Seq(Byte)]
    <3>1. \A k \in Nat : rest[k] \o sending \in Seq(Byte)
      BY <1>2, <1>11
    <3> QED BY <1>more, <3>1
  <2>2. more[Len(sent) + 1] = <<>> /\ more[Len(sent)] = rest[Len(sent)] \o sending
    BY <1>lengths, <1>more
  <2>3. more[Len(sent)] = Header(Len(sending)) \o (sending \o more[Len(sent) + 1])
    <3>1. rest[Len(sent)] = Header(Len(sending))
      BY <1>2, <1>10 DEF Remaining
    <3>2. sending \o <<>> = sending
      BY <1>2, ConcatEmptySeq
    <3> QED BY <2>2, <3>1, <3>2
  <2>4. ASSUME NEW k \in Len(received) .. Len(sent) - 1
        PROVE  more[k] = Header(Len(sent[k + 1])) \o (sent[k + 1] \o more[k + 1])
    <3> DEFINE s == sent[k + 1]
               h == Header(Len(s))
    <3>1. k \in Nat /\ k + 1 \in Nat /\ k + 1 \in 1 .. Len(sent) /\ k <= Len(sent) /\ k + 1 <= Len(sent)
      BY <1>7, <1>11
    <3>2. s \in Seq(Byte) /\ h \in Seq(Byte)
      BY <1>7, <3>1, HeaderAndMessage
    <3>3. rest[k] = h \o (s \o rest[k + 1]) /\ rest[k + 1] \in Seq(Byte)
      BY <1>10, <1>11, <3>1 DEF Remaining
    <3>4. more[k] = rest[k] \o sending /\ more[k + 1] = rest[k + 1] \o sending
      BY <1>more, <3>1
    <3> HIDE DEF s, h
    <3>5. (h \o (s \o rest[k + 1])) \o sending = h \o ((s \o rest[k + 1]) \o sending)
      <4>1. s \o rest[k + 1] \in Seq(Byte)
        BY <3>2, <3>3, ConcatProperties
      <4>2. sending \in Seq(Byte) /\ h \in Seq(Byte)
        BY <1>2, <3>2
      <4> QED BY <4>1, <4>2, Associative, Zenon
    <3>6. (s \o rest[k + 1]) \o sending = s \o (rest[k + 1] \o sending)
      <4>1. sending \in Seq(Byte) /\ rest[k + 1] \in Seq(Byte)
        BY <1>2, <3>3
      <4> QED BY <3>2, <4>1, Associative, Zenon
    <3> QED BY <3>3, <3>4, <3>5, <3>6 DEF s, h
  <2>5. ASSUME NEW k \in Len(received) .. (Len(sent) + 1) - 1
        PROVE  more[k] = Header(Len(sent'[k + 1])) \o (sent'[k + 1] \o more[k + 1])
    <3>1. k \in Len(received) .. Len(sent) - 1 \/ k = Len(sent)
      BY <1>lengths
    <3>2. k # Len(sent) => k + 1 \in 1 .. Len(sent)
      BY <1>lengths, <3>1
    <3> QED BY <1>7, <2>3, <2>4, <3>1, <3>2
  <2>6. /\ Len(sent') = Len(sent) + 1 /\ sending' = <<>>
        /\ UNCHANGED received
    BY <1>2, <1>7
  <2> QED BY <2>1, <2>2, <2>5, <2>6 DEF Remaining
<1>13. more[Len(received)] = IF awaited = NoSize THEN wire' ELSE Header(awaited) \o wire'
  <2>1. awaited # NoSize =>
          (Header(awaited) \o wire) \o sending = Header(awaited) \o (wire \o sending)
    <3>1. sending \in Seq(Byte) /\ wire \in Seq(Byte)
      BY <1>2
    <3>2. awaited # NoSize => Header(awaited) \in Seq(Byte)
      BY <1>11
    <3> QED BY <3>1, <3>2, Associative, Zenon
  <2> QED BY <1>6, <1>10, <1>11, <1>more, <2>1
<1>14. awaited # NoSize => Upcoming' # Nothing /\ awaited = Len(Upcoming')
  <2>1. Upcoming' = Upcoming
    <3>1. CASE Len(received) < Len(sent)
      <4>1. Len(received) + 1 \in 1 .. Len(sent) /\ Len(received) < Len(sent) + 1
        BY <1>lengths, <3>1
      <4>2. sent'[Len(received) + 1] = sent[Len(received) + 1]
        BY <1>7, <4>1
      <4> QED BY <1>2, <1>7, <3>1, <4>1, <4>2 DEF Upcoming
    <3>2. CASE Len(received) = Len(sent)
      BY <1>2, <1>7, <3>2 DEF Upcoming
    <3> QED BY <1>7, <1>11, <3>1, <3>2
  <2> QED BY <1>9, <2>1 DEF InStep
<1>15. Len(received) <= Len(sent') /\ \A i \in 1 .. Len(received) : received[i] = sent'[i]
  <2>1. \A i \in 1 .. Len(received) : i \in 1 .. Len(sent)
    BY <1>lengths
  <2>2. \A i \in 1 .. Len(received) : received[i] = sent[i]
    BY <1>9 DEF InStep
  <2>3. \A i \in 1 .. Len(sent) : sent'[i] = sent[i]
    BY <1>7
  <2>4. Len(received) <= Len(sent')
    BY <1>7, <1>lengths
  <2> QED BY <2>1, <2>2, <2>3, <2>4
<1>16. UNCHANGED <<awaited, received>>
  BY <1>2
<1> QED BY <1>12, <1>13, <1>14, <1>15, <1>16 DEF InStep

\* A read of up to n bytes, or of any number of them, takes the first part of
\* what is on the wire.
LEMMA ReadFacts ==
  ASSUME ChannelInv, NEW n \in Int, NEW part \in Readable(n)
  PROVE  /\ part \in Seq(Byte) /\ Rest(part) \in Seq(Byte)
         /\ n # 0 => wire # <<>>
         /\ \A h, t \in Seq(Byte) :
              wire = h \o t /\ Len(part) = Len(h) => part = h /\ Rest(part) = t
<1>1. wire \in Seq(Byte) /\ Len(wire) \in Nat
  BY ChannelTypes
<1>2. PICK k \in IF n = 0 THEN {0}
                          ELSE 1 .. IF n \in 0 .. Len(wire) THEN n ELSE Len(wire) :
        part = SubSeq(wire, 1, k)
  BY DEF Readable
<1>3. k \in 0 .. Len(wire) /\ (n # 0 => Len(wire) # 0)
  BY <1>1, <1>2
<1>4. part \in Seq(Byte) /\ Len(part) = k
  BY <1>1, <1>2, <1>3, SubSeqProperties
<1>5. Rest(part) \in Seq(Byte)
  BY <1>1, <1>3, <1>4 DEF Rest
<1>6. n # 0 => wire # <<>>
  BY <1>3, EmptySeq
<1>7. ASSUME NEW h \in Seq(Byte), NEW t \in Seq(Byte), wire = h \o t, Len(part) = Len(h)
      PROVE  part = h /\ Rest(part) = t
  <2>1. SubSeq(wire, 1, Len(h)) = h /\ SubSeq(wire, Len(h) + 1, Len(wire)) = t
    BY <1>7, FirstOfTwo
  <2> QED BY <1>2, <1>4, <1>7, <2>1 DEF Rest
<1> QED BY <1>4, <1>5, <1>6, <1>7

LEMMA ReceiveHeaderStep ==
  ASSUME ChannelInv, ReceiveHeader
  PROVE  ChannelInv'
<1> USE DEF Nothing
<1> DEFINE r == Len(received)
<1>part. PICK part \in Readable(Digits) :
           \E size \in IF Len(part) = Digits THEN Parsed(part) ELSE {NoSize} :
             /\ wire' = Rest(part)
             /\ IF size # NoSize /\ size <= BufferSize
                  THEN awaited' = size /\ UNCHANGED failed
                  ELSE failed' = TRUE /\ UNCHANGED awaited
  BY DEF ReceiveHeader
<1>1. PICK size \in IF Len(part) = Digits THEN Parsed(part) ELSE {NoSize} :
        /\ wire' = Rest(part)
        /\ IF size # NoSize /\ size <= BufferSize
             THEN awaited' = size /\ UNCHANGED failed
             ELSE failed' = TRUE /\ UNCHANGED awaited
  BY <1>part
<1>2. awaited = NoSize /\ UNCHANGED <<sending, sent, received>>
  BY DEF ReceiveHeader
<1>3. /\ Digits \in Nat \ {0} /\ part \in Seq(Byte) /\ Rest(part) \in Seq(Byte)
      /\ wire # <<>>
      /\ \A h, t \in Seq(Byte) :
           wire = h \o t /\ Len(part) = Len(h) => part = h /\ Rest(part) = t
  <2>1. Digits \in Nat \ {0} /\ Digits \in Int /\ Digits # 0
    BY ChannelAssumption
  <2> QED BY <2>1, ReadFacts, Zenon
<1>4. ChannelTypeOK' /\ sent' \in Seq(Messages \ {Nothing}) /\ failed' \in BOOLEAN
  <2>1. awaited' \in {NoSize, Negative} \cup 0 .. BufferSize
    <3>1. size \in Nat \cup {NoSize, Negative} /\ BufferSize \in Nat
      BY <1>1, <1>3, ParsedType, ChannelAssumption
    <3> QED BY <1>1, <1>2, <3>1
  <2>2. failed' \in BOOLEAN
    BY <1>1 DEF ChannelInv
  <2> QED BY <1>1, <1>2, <1>3, <2>1, <2>2 DEF ChannelInv, ChannelTypeOK
<1>5. SUFFICES ASSUME ~failed', ~Misframed' PROVE InStep'
  BY <1>4 DEF ChannelInv
<1>6. Len(part) = Digits /\ awaited' \in Parsed(part) /\ ~failed
  BY <1>1, <1>5
<1>7. ~Misframed
  BY <1>2, <1>5 DEF Misframed
<1>8. InStep
  BY <1>6, <1>7 DEF ChannelInv
<1>9. PICK rest : Remaining(rest) /\ rest[r] = wire
  BY <1>2, <1>8 DEF InStep
<1>10. r \in Nat /\ Len(sent) \in Nat /\ r <= Len(sent) /\ rest \in [Nat -> Seq(Byte)]
  BY <1>8, <1>9, ChannelTypes DEF InStep, Remaining
<1>11. /\ Upcoming \in Messages \ {<<>>} /\ ~TooLong(Upcoming)
       /\ \E t \in Seq(Byte) : wire = Header(Len(Upcoming)) \o t
  <2>1. CASE r < Len(sent)
    <3>1. r \in r .. Len(sent) - 1 /\ r + 1 \in 1 .. Len(sent) /\ r + 1 \in Nat
      <4>1. r \in Nat /\ Len(sent) \in Nat
        BY <1>10
      <4> HIDE DEF r
      <4> QED BY <2>1, <4>1
    <3>2. Upcoming = sent[r + 1] /\ Upcoming \in Messages \ {<<>>}
      BY <2>1, <3>1, ChannelTypes DEF Upcoming
    <3>3. wire = Header(Len(Upcoming)) \o (Upcoming \o rest[r + 1])
      BY <1>9, <3>1, <3>2 DEF Remaining
    <3>4. rest[r + 1] \in Seq(Byte) /\ Upcoming \in Seq(Byte)
      BY <1>10, <3>1, <3>2, HeaderAndMessage
    <3>5. Upcoming \o rest[r + 1] \in Seq(Byte)
      BY <3>4, ConcatProperties
    <3>6. Upcoming \in Range(sent)
      <4>1. DOMAIN sent = 1 .. Len(sent)
        BY ChannelTypes, LenProperties
      <4> QED BY <3>1, <3>2, <4>1 DEF Range
    <3> QED BY <1>7, <3>2, <3>3, <3>5, <3>6 DEF Misframed
  <2>2. CASE r = Len(sent)
    <3>1. Upcoming = sending
      BY <1>10, <2>2 DEF Upcoming
    <3>2. sending # <<>> /\ wire = Header(Len(sending))
      BY <1>3, <1>9, <2>2 DEF Remaining
    <3>3. sending \in Messages
      BY <3>2, ChannelTypes
    <3>4. wire = Header(Len(sending)) \o <<>> /\ <<>> \in Seq(Byte)
      BY <3>2, <3>3, HeaderAndMessage, ConcatEmptySeq, EmptySeq
    <3> QED BY <1>7, <3>1, <3>2, <3>3, <3>4 DEF Misframed
  <2>3. r < Len(sent) \/ r = Len(sent)
    BY <1>10
  <2> QED BY <2>1, <2>2, <2>3
<1>12. PICK t \in Seq(Byte) : wire = Header(Len(Upcoming)) \o t
  BY <1>11
<1>13. part = Header(Len(Upcoming)) /\ wire' = t /\ awaited' = Len(Upcoming)
  <2>1. /\ Header(Len(Upcoming)) \in Seq(Byte) /\ Len(Header(Len(Upcoming))) = Digits
        /\ Parsed(Header(Len(Upcoming))) = {Len(Upcoming)}
    BY <1>11, HeaderAndMessage
  <2> QED BY <1>1, <1>3, <1>6, <1>12, <2>1
<1>14. Remaining(rest)' /\ rest[r] = Header(awaited') \o wire'
  BY <1>2, <1>9, <1>12, <1>13 DEF Remaining
<1>15. awaited' # NoSize
  BY <1>1, <1>5
<1>16. Upcoming' = Upcoming
  BY <1>2 DEF Upcoming
<1>17. r <= Len(sent) /\ \A i \in 1 .. r : received[i] = sent[i]
  BY <1>8 DEF InStep
<1> QED BY <1>2, <1>11, <1>13, <1>14, <1>15, <1>16, <1>17 DEF InStep

LEMMA ReceivePayloadStep ==
  ASSUME ChannelInv, ReceivePayload
  PROVE  ChannelInv'
<1> USE DEF Nothing
<1> DEFINE r == Len(received)
<1>1. PICK part \in Readable(awaited) :
        /\ wire' = Rest(part)
        /\ IF Len(part) = awaited
             THEN received' = Append(received, part) /\ UNCHANGED failed
             ELSE failed' = TRUE /\ UNCHANGED received
  BY DEF ReceivePayload
<1>2. awaited # NoSize /\ awaited' = NoSize /\ UNCHANGED <<sending, sent>>
  BY DEF ReceivePayload
<1>3. /\ part \in Seq(Byte) /\ Rest(part) \in Seq(Byte)
      /\ awaited # 0 => wire # <<>>
      /\ \A h, t \in Seq(Byte) :
           wire = h \o t /\ Len(part) = Len(h) => part = h /\ Rest(part) = t
  <2>1. awaited \in Int
    BY <1>2, ChannelTypes DEF NoSize, Negative
  <2> QED BY <2>1, ReadFacts
<1>4. ChannelTypeOK' /\ sent' \in Seq(Messages \ {Nothing}) /\ failed' \in BOOLEAN
  <2>1. received' \in Seq(Seq(Byte))
    <3>1. Append(received, part) \in Seq(Seq(Byte))
      BY <1>3, ChannelTypes, AppendProperties
    <3> QED BY <1>1, <3>1, ChannelTypes
  <2>2. failed' \in BOOLEAN
    BY <1>1 DEF ChannelInv
  <2> QED BY <1>1, <1>2, <1>3, <2>1, <2>2 DEF ChannelInv, ChannelTypeOK
<1>5. SUFFICES ASSUME ~failed', ~Misframed' PROVE InStep'
  BY <1>4 DEF ChannelInv
<1>6. Len(part) = awaited /\ received' = Append(received, part) /\ ~failed
  BY <1>1, <1>5
<1>7. ~Misframed
  BY <1>2, <1>5 DEF Misframed
<1>8. InStep
  BY <1>6, <1>7 DEF ChannelInv
<1>9. PICK rest : Remaining(rest) /\ rest[r] = Header(awaited) \o wire
  BY <1>2, <1>8 DEF InStep
<1>10. r \in Nat /\ Len(sent) \in Nat /\ r <= Len(sent) /\ rest \in [Nat -> Seq(Byte)]
  BY <1>8, <1>9, ChannelTypes DEF InStep, Remaining
<1>11. awaited = Len(Upcoming) /\ Upcoming # <<>>
  BY <1>2, <1>8 DEF InStep
<1>12. Header(awaited) \in Seq(Byte) /\ wire \in Seq(Byte)
  BY <1>2, <1>8, AwaitedInStep, ChannelTypes
<1>13. r < Len(sent)
  <2> SUFFICES ASSUME r = Len(sent) PROVE FALSE
    BY <1>10
  <2>1. Upcoming = sending
    BY <1>10 DEF Upcoming
  <2>2. rest[r] = Header(awaited)
    BY <1>9, <1>11, <2>1 DEF Remaining
  <2>3. wire = <<>>
    <3>1. Header(awaited) \o wire = Header(awaited)
      BY <1>9, <2>2
    <3> QED BY <1>12, <3>1, Cancel
  <2>4. awaited # 0
    <3>1. sending \in Seq(Byte)
      BY <1>11, <2>1, ChannelTypes, HeaderAndMessage
    <3> QED BY <1>11, <2>1, <3>1, EmptySeq
  <2> QED BY <1>3, <2>3, <2>4
<1>14. r \in r .. Len(sent) - 1 /\ r + 1 \in 1 .. Len(sent) /\ r + 1 \in Nat
  <2>1. r \in Nat /\ Len(sent) \in Nat /\ r < Len(sent)
    BY <1>10, <1>13
  <2> HIDE DEF r
  <2> QED BY <2>1
<1>15. Upcoming = sent[r + 1] /\ Upcoming \in Messages
  BY <1>13, <1>14, ChannelTypes DEF Upcoming
<1>16. wire = Upcoming \o rest[r + 1]
  <2>1. rest[r] = Header(awaited) \o (Upcoming \o rest[r + 1])
    BY <1>9, <1>11, <1>14, <1>15 DEF Remaining
  <2>2. Upcoming \in Seq(Byte) /\ rest[r + 1] \in Seq(Byte)
    BY <1>10, <1>14, <1>15, HeaderAndMessage
  <2>3. Upcoming \o rest[r + 1] \in Seq(Byte)
    BY <2>2, ConcatProperties
  <2>4. Header(awaited) \o wire = Header(awaited) \o (Upcoming \o rest[r + 1])
    BY <1>9, <2>1
  <2> QED BY <1>12, <2>3, <2>4, Cancel
<1>17. part = Upcoming /\ wire' = rest[r + 1]
  <2>1. Upcoming \in Seq(Byte) /\ rest[r + 1] \in Seq(Byte)
    BY <1>10, <1>14, <1>15, HeaderAndMessage
  <2> QED BY <1>1, <1>3, <1>6, <1>11, <1>16, <2>1
<1>18. /\ Len(received') = r + 1 /\ received'[r + 1] = part
       /\ \A i \in 1 .. r : received'[i] = received[i]
  BY <1>3, <1>6, ChannelTypes, AppendProperties
<1>19. \A i \in 1 .. r + 1 : received'[i] = sent[i]
  <2>1. \A i \in 1 .. r : received[i] = sent[i]
    BY <1>8 DEF InStep
  <2>2. \A i \in 1 .. r + 1 : i \in 1 .. r \/ i = r + 1
    <3>1. r \in Nat
      BY <1>10
    <3> HIDE DEF r
    <3> QED BY <3>1
  <2> QED BY <1>15, <1>17, <1>18, <2>1, <2>2
<1>20. Remaining(rest)' /\ rest[Len(received')] = wire'
  <2>1. \A k \in r + 1 .. Len(sent) - 1 : k \in r .. Len(sent) - 1
    BY <1>10
  <2> QED BY <1>2, <1>9, <1>17, <1>18, <2>1 DEF Remaining
<1>21. Len(received') <= Len(sent)
  BY <1>10, <1>13, <1>18
<1> QED BY <1>2, <1>18, <1>19, <1>20, <1>21 DEF InStep

LEMMA ChannelInvStep ==
  ASSUME ChannelInv, SendStep \/ ReceiveStep \/ HangUp
  PROVE  ChannelInv'
<1>1. CASE SendEmpty
  BY <1>1 DEF SendEmpty, ChannelInv, ChannelTypeOK, InStep, Remaining, Upcoming, Misframed
<1>2. CASE SendHeader
  BY <1>2, SendHeaderStep
<1>3. CASE SendPayload
  BY <1>3, SendPayloadStep
<1>4. CASE ReceiveHeader
  BY <1>4, ReceiveHeaderStep
<1>5. CASE ReceivePayload
  BY <1>5, ReceivePayloadStep
<1>6. CASE ReceiveNothing
  <2>1. ChannelTypeOK' /\ sent' \in Seq(Messages \ {Nothing}) /\ failed'
    BY <1>6 DEF ReceiveNothing, ChannelInv, ChannelTypeOK
  <2> QED BY <2>1 DEF ChannelInv
<1>7. CASE HangUp
  <2>1. (Fresh => ChannelInv)'
    BY FreshChannel, PTL
  <2>2. Fresh'
    BY <1>7 DEF HangUp, Fresh
  <2> QED BY <2>1, <2>2
<1> QED
  BY <1>1, <1>2, <1>3, <1>4, <1>5, <1>6, <1>7
  DEF SendStep, ReceiveStep, qemud_channel_send, qemud_channel_recv

LEMMA ChannelInvStutter == ChannelInv /\ UNCHANGED channelVars => ChannelInv'
<1> SUFFICES ASSUME ChannelInv, UNCHANGED channelVars PROVE ChannelInv'
  OBVIOUS
<1>1. UNCHANGED <<wire, sending, sent, awaited, received, failed>>
  BY DEF channelVars
<1>2. ChannelTypeOK' /\ Misframed' = Misframed
  BY <1>1 DEF ChannelInv, ChannelTypeOK, Misframed
<1>3. InStep => InStep'
  BY <1>1 DEF InStep, Remaining, Upcoming
<1> QED BY <1>1, <1>2, <1>3 DEF ChannelInv

LEMMA ChannelInvariance == Spec => []ChannelInv
<1>1. Init => ChannelInv
  BY FreshChannel DEF Init, ChannelInit, Fresh
<1>2. ChannelInv /\ [Next]_vars => ChannelInv'
  BY ChannelInvStep, ChannelInvStutter DEF Next, Open, OpenStep, vars
<1> QED BY <1>1, <1>2, PTL DEF Spec

\* As long as no call on a channel has failed and no message is longer than
\* the header of hardware/qemud.h can say, the receiver has a prefix of the
\* messages sent, however the two writes of qemud_channel_send and the two
\* reads of qemud_channel_recv interleave.
THEOREM FramesInOrderHolds == Spec => []FramesInOrder
<1>1. ChannelInv => FramesInOrder
  <2> SUFFICES ASSUME ChannelInv, ~failed, ~Misframed PROVE IsPrefix(received, sent)
    BY DEF FramesInOrder
  <2>1. /\ Len(received) \in Nat /\ Len(sent) \in Nat /\ Len(received) <= Len(sent)
        /\ \A i \in 1 .. Len(received) : received[i] = sent[i]
    BY ChannelTypes DEF ChannelInv, InStep
  <2>2. received \in Seq(Seq(Byte)) /\ sent \in Seq(Messages)
    BY ChannelTypes
  <2> DEFINE s == SubSeq(received, 1, Len(received))
             t == SubSeq(sent, 1, Len(received))
  <2>3. s = [i \in 1 .. Len(received) |-> received[i]]
    BY <2>1, <2>2
  <2>4. t = [i \in 1 .. Len(received) |-> sent[i]]
    BY <2>1, <2>2
  <2>5. s = t
    BY <2>1, <2>3, <2>4
  <2> QED BY <2>1, <2>5 DEF IsPrefix
<1> QED BY ChannelInvariance, <1>1, PTL

\* Type correctness of the composition.
THEOREM TypeCorrect == Spec => []TypeOK
<1>1. OpenInv /\ ChannelInv => TypeOK
  BY DEF OpenInv, ChannelInv, TypeOK
<1> QED BY OpenInvariance, ChannelInvariance, <1>1, PTL
=============================================================================
