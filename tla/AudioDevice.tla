----------------------------- MODULE AudioDevice -----------------------------
(***************************************************************************)
(* system/audio.h: the devices and the questions asked about them.  An     *)
(* audio_devices_t is the set of the bits that are 1 in it.  The builds    *)
(* with QCOM_HARDWARE have some devices more.                              *)
(***************************************************************************)
EXTENDS Integers, FiniteSets, Sequences

AUDIO_DEVICE_BIT_IN == 31
AUDIO_DEVICE_BIT_DEFAULT == 30

\* From bit 0 on.
OutNames ==
  <<"EARPIECE", "SPEAKER", "WIRED_HEADSET", "WIRED_HEADPHONE", "BLUETOOTH_SCO",
    "BLUETOOTH_SCO_HEADSET", "BLUETOOTH_SCO_CARKIT", "BLUETOOTH_A2DP",
    "BLUETOOTH_A2DP_HEADPHONES", "BLUETOOTH_A2DP_SPEAKER", "HDMI", "ANLG_DOCK_HEADSET",
    "DGTL_DOCK_HEADSET", "USB_ACCESSORY", "USB_DEVICE", "REMOTE_SUBMIX", "TELEPHONY_TX",
    "LINE", "HDMI_ARC", "SPDIF", "FM", "AUX_LINE", "SPEAKER_SAFE">>

InNames ==
  <<"COMMUNICATION", "AMBIENT", "BUILTIN_MIC", "BLUETOOTH_SCO_HEADSET", "WIRED_HEADSET",
    "HDMI", "TELEPHONY_RX", "BACK_MIC", "REMOTE_SUBMIX", "ANLG_DOCK_HEADSET",
    "DGTL_DOCK_HEADSET", "USB_ACCESSORY", "USB_DEVICE", "FM_TUNER", "TV_TUNER", "LINE",
    "SPDIF", "BLUETOOTH_A2DP", "LOOPBACK">>

Device(name, bits) == [name |-> name, mask |-> bits]

OutDevices(qcom) ==
  {Device(OutNames[k], {k - 1}) : k \in DOMAIN OutNames}
    \cup {Device("DEFAULT", {AUDIO_DEVICE_BIT_DEFAULT})}
    \cup (IF qcom THEN {Device("FM_TX", {24}), Device("PROXY", {25})} ELSE {})

InDevices(qcom) ==
  {Device(InNames[k], {AUDIO_DEVICE_BIT_IN, k - 1}) : k \in DOMAIN InNames}
    \cup {Device("DEFAULT", {AUDIO_DEVICE_BIT_IN, AUDIO_DEVICE_BIT_DEFAULT})}
    \cup (IF qcom THEN {Device("PROXY", {AUDIO_DEVICE_BIT_IN, 20}),
                        Device("FM_RX", {AUDIO_DEVICE_BIT_IN, 21}),
                        Device("FM_RX_A2DP", {AUDIO_DEVICE_BIT_IN, 22})}
                  ELSE {})

\* Mutated form of AUDIO_DEVICE_OUT_ALL: SPEAKER_SAFE is not in the list.
OutAllWithoutSafe(qcom) ==
  0 .. 21 \cup {AUDIO_DEVICE_BIT_DEFAULT} \cup (IF qcom THEN {24, 25} ELSE {})

\* The bits of the devices in the list: EARPIECE to SPEAKER_SAFE, FM_TX and
\* PROXY, DEFAULT.
AUDIO_DEVICE_OUT_ALL(qcom) ==
  0 .. 22 \cup {AUDIO_DEVICE_BIT_DEFAULT} \cup (IF qcom THEN {24, 25} ELSE {})

AUDIO_DEVICE_OUT_ALL_A2DP == {7, 8, 9}
AUDIO_DEVICE_OUT_ALL_SCO == {4, 5, 6}
AUDIO_DEVICE_OUT_ALL_USB == {13, 14}
AUDIO_DEVICE_OUT_REMOTE_SUBMIX == {15}

\* COMMUNICATION to LOOPBACK, FM_RX, FM_RX_A2DP and PROXY, DEFAULT; each is
\* given with the bit of its direction.
AUDIO_DEVICE_IN_ALL(qcom) ==
  0 .. 18 \cup {AUDIO_DEVICE_BIT_DEFAULT, AUDIO_DEVICE_BIT_IN}
    \cup (IF qcom THEN {21, 22, 20} ELSE {})

AUDIO_DEVICE_IN_BLUETOOTH_SCO_HEADSET == {AUDIO_DEVICE_BIT_IN, 3}
AUDIO_DEVICE_IN_BLUETOOTH_A2DP == {AUDIO_DEVICE_BIT_IN, 17}
AUDIO_DEVICE_IN_ALL_USB == {AUDIO_DEVICE_BIT_IN, 11, 12}
AUDIO_DEVICE_IN_REMOTE_SUBMIX == {AUDIO_DEVICE_BIT_IN, 8}
-----------------------------------------------------------------------------
IsInput(device) == AUDIO_DEVICE_BIT_IN \in device

\* device &= ~AUDIO_DEVICE_BIT_IN; popcount(device) == 1
SingleInput(device) == IsInput(device) /\ Cardinality(device) = 2

audio_is_output_device(device, qcom) ==
  ~IsInput(device) /\ Cardinality(device) = 1 /\ device \subseteq AUDIO_DEVICE_OUT_ALL(qcom)

audio_is_input_device(device, qcom) ==
  SingleInput(device) /\ device \subseteq AUDIO_DEVICE_IN_ALL(qcom)

audio_is_output_devices(device) == ~IsInput(device)

audio_is_a2dp_in_device(device) == SingleInput(device) /\ device = AUDIO_DEVICE_IN_BLUETOOTH_A2DP

audio_is_a2dp_out_device(device) ==
  Cardinality(device) = 1 /\ device \cap AUDIO_DEVICE_OUT_ALL_A2DP # {}

\* Mutated form of the next definition: the direction is not looked at.
ScoOfEitherDirection(device) ==
  \/ Cardinality(device) = 1 /\ device \subseteq AUDIO_DEVICE_OUT_ALL_SCO
  \/ device \ {AUDIO_DEVICE_BIT_IN} \subseteq AUDIO_DEVICE_IN_BLUETOOTH_SCO_HEADSET

audio_is_bluetooth_sco_device(device) ==
  IF ~IsInput(device)
    THEN Cardinality(device) = 1 /\ device \subseteq AUDIO_DEVICE_OUT_ALL_SCO
    ELSE SingleInput(device) /\ device \subseteq AUDIO_DEVICE_IN_BLUETOOTH_SCO_HEADSET

audio_is_usb_out_device(device) ==
  Cardinality(device) = 1 /\ device \cap AUDIO_DEVICE_OUT_ALL_USB # {}

audio_is_usb_in_device(device) ==
  SingleInput(device) /\ (device \ {AUDIO_DEVICE_BIT_IN}) \cap AUDIO_DEVICE_IN_ALL_USB # {}

\* The bit of OUT_REMOTE_SUBMIX is tested whatever the direction is.
audio_is_remote_submix_device(device) ==
  \/ AUDIO_DEVICE_OUT_REMOTE_SUBMIX \subseteq device
  \/ AUDIO_DEVICE_IN_REMOTE_SUBMIX \subseteq device

\* What stands before the address in the parameter; nothing for most.
audio_device_address_to_parameter(device) ==
  CASE device \cap AUDIO_DEVICE_OUT_ALL_A2DP # {} -> "a2dp_sink_address="
    [] /\ device \cap AUDIO_DEVICE_OUT_ALL_A2DP = {}
       /\ device \cap AUDIO_DEVICE_OUT_REMOTE_SUBMIX # {} -> "mix="
    [] OTHER -> ""
=============================================================================
