---------------------------- MODULE ControlSocket ----------------------------
(***************************************************************************)
(* cutils/sockets.h: how a daemon finds a socket that init made for it.    *)
(* init, which is not here, sets a variable of the environment for every   *)
(* socket, named for it, to the number of its descriptor.                  *)
(***************************************************************************)
EXTENDS Integers, Sequences

CONSTANTS KeyRoom,    \* bytes of key after the prefix, the last NUL included
          IntValues,  \* the values of an int: 2^32
          LongValues  \* and those of the long of an LP64 build: 2^64

\* What getenv returns for a variable of that name: Nothing, or its text.
Nothing == [is |-> "unset", value |-> 0]
Number(n) == [is |-> "number", value |-> n]
Word == [is |-> "word", value |-> 0]

getenv(environment, name) ==
  IF name \in DOMAIN environment THEN environment[name] ELSE Nothing

\* Mutated form of Key: room is left for one NUL more.
KeyCutShort(name, HAVE_STRLCPY) ==
  LET room == KeyRoom - (IF HAVE_STRLCPY THEN 3 ELSE 2)
  IN  SubSeq(name, 1, IF Len(name) <= room THEN Len(name) ELSE room)

\* The name in the key, without the prefix.  strlcpy is given the size of
\* the room without its last byte and keeps one byte of that for a NUL of
\* its own; after strncpy only the last byte is made a NUL.
Key(name, HAVE_STRLCPY) ==
  LET room == KeyRoom - (IF HAVE_STRLCPY THEN 2 ELSE 1)
  IN  SubSeq(name, 1, IF Len(name) <= room THEN Len(name) ELSE room)

\* n is a value of the signed type that has so many values.
Fits(n, values) == -(values \div 2) <= n /\ n < values \div 2

\* A long is cut to the low bits that an int has.
AsInt(n) == ((n + IntValues \div 2) % IntValues) - IntValues \div 2

\* strtol takes a text that begins with no number for 0 and leaves errno
\* alone; it sets errno for a number that does not fit a long, which is as
\* wide as an int where the build is not LP64.  Nobody looks whether the
\* number fits the int it is assigned to.
android_get_control_socket(name, environment, HAVE_STRLCPY, LP64) ==
  LET val == getenv(environment, Key(name, HAVE_STRLCPY))
  IN  IF val.is = "unset" \/ ~Fits(val.value, IF LP64 THEN LongValues ELSE IntValues) THEN -1
      ELSE AsInt(val.value)
=============================================================================
