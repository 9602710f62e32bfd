# android-headers: a verification project

The repository is the set of Android 5.1 headers that programs outside of Android
are built against. Most of it declares things that live elsewhere. Some of it is
code: inline functions and macros that are compiled into every program that
includes them, among them the atomic operations, the reference counts, the lists,
the mutexes, the trace events, the emulator channels, the file permissions of a
device and the arithmetic on audio masks and formats. This directory models that code in TLA+, checks it with TLC and proves the
most important facts with TLAPS.

Run a check with `tlc -config <name>.cfg MC<Module>.tla`, a proof with
`tlapm <Module>_proofs.tla`. PROJECT.json lists the runs, the lines of the source
each definition translates, a mutation for every property, the hazards of the code
and the theorems.

Contents: 1 the system; 2 modules and code; 3 runs; 4 proofs; 5 disagreements
found; 6 what is left out; 7 plan.

## 1. The system

| part | state | operations | who interacts | what makes it correct |
|---|---|---|---|---|
| `cutils/atomic*.h` operations | a shared 32-bit word | cas, add, inc, dec, and, or, loads, stores; six instruction sets | threads, interrupts | each call takes effect at one instant and returns the previous value or the cas status; loops make progress |
| `cutils/atomic*.h` barriers | memory, registers | acquire/release loads, stores, cas; `android_memory_barrier` | threads, compiler, processor | locks lose no update, publication works, a store is not passed by a later load where that was asked for |
| `cutils/aref.h` | the count | init, get, put, count | threads that share an object | release runs once, after the last put, never before |
| `cutils/list.h` | next, prev of every node | init, add at both ends, remove, three loops | a loop and its own body | the ring is well formed in spite of stale pointers; loops miss nothing |
| `cutils/threads.h` (Win32) | init flag, critical section | init, lock, unlock, destroy | threads | one holder; nobody enters a section that is not initialised |
| `cutils/bitops.h` | words of a bitmask | init, ffz, weight, set, clear, test | none | behaves as a set of bits |
| `cutils/trace.h` | ready flag, tag mask, marker | begin, end, int, async events | threads, setup and mask changes in libcutils | no event is lost, made up or let through around setup; the two ends of a context come together |
| `hardware/qemu_pipe.h`, `qemud.h` | descriptors, a byte stream | open, send, recv | a HAL module, the emulator's services | what is returned is connected; nothing leaks; messages keep their boundaries |
| `libnfc-nxp/phFriNfc_Llcp.h` | sequence counters of a link | `CHECK_SEND_RW` | two peers | never more unacknowledged PDUs than the window |
| `private/android_filesystem_config.h` | two tables | `fs_config` | none | the most specific rule decides |
| `log/log_read.h`, `log/logger.h` | time stamps | parsing, comparisons, nanoseconds | the reader and the writer of a log | the order of the stamps is that of the times |
| `system/audio.h`, `hardware/audio.h`, `hardware/audio_alsaops.h` | none | questions about devices, channel masks and formats; sizes; conversions | the audio service and its modules | the answers fit each other and the names of the enumerations |
| `libnfc-nxp/phFriNfc_MifStdFormat.h` | current block, authentication state | the steps from block to block, sector to sector and key to key | a formatter in libnfc-nxp, a card | no sector and no key is left out |
| `libnfc-nxp` and `hardware.h`: packed fields | none | bits, status words, versions, lengths | all layers of the NFC stack | a field comes back, its neighbours stay |
| `cutils/sockets.h` | the environment | `android_get_control_socket` | a daemon and init | the descriptor is that of the socket named |

Calls between the parts: `aref.h` changes its count with `android_atomic_inc` and
`_dec`; `trace.h` reads its ready flag with `android_atomic_acquire_load`;
`qemud.h` opens pipes through `qemu_pipe.h` and sockets through `sockets.h`.

Hard to test, and the reason for the choice of these parts: interleavings and
reordering of the atomic operations on processors a developer does not own; two
threads that drop the last two references; loops whose bodies change the list;
two first callers of a lock or of a trace function; reads and writes of a stream
that are cut short; counters that wrap; rules that shadow each other. Every hazard
is listed with its line in PROJECT.json.

## 2. Modules and code

**AtomicWord**: a call and what it does to the word when it runs alone
(`Updated`, `Returned`). `inc` and `dec` are additions, as in the headers. The
word is a number modulo `WordSize`; `&` and `|` are parameters.

**AtomicSpec**: the promise of `atomic.h`: Begin, Execute (all at once), Return.

**AtomicLLSC**: `atomic-arm.h`, `atomic-mips.h`, `atomic-mips64.h`. One action per
instruction: `LoadLinked` (ldrex, ll; a cas that sees another value leaves its
loop here), `StoreConditional` and `Retry` (strex, sc), `Access` for plain loads
and stores. `reserved` is the exclusive monitor; any store to the word clears it,
and so does `Interrupt`. `Abstract` is the refinement mapping: a call has taken
effect when it is at "return".

**AtomicCasLoop**: `atomic-x86.h`, `atomic-x86_64.h`, `atomic-arm64.h`. One
instruction for cas (and for add on x86), and a plain read followed by a cas in a
loop for the operations in `Looped`. Also refines AtomicSpec.

**Atomic**: `atomic-inline.h`, which includes the header of the processor. The two
modules above, of which a behaviour runs the one or the other; the properties of
the operations are checked on this composition.

**AtomicBarriers**, **AtomicOrdering**: the instructions with their barriers. In the
first, each operation expands to the sequence its header emits for the instruction set
and for `ANDROID_SMP`. In the second, N threads run short programs made of them, and
`MayPass` says when the compiler or the processor may perform a later access first. The
programs are a spin lock released by a store or by a cas, a publication handed on from
thread to thread, threads that store and then look at the next, the last `aref_put`, and
the first `mutex_lock` on Windows, whose plain store of 2 publishes the critical section.

**Aref**: `aref.h`. The count and, beside it, who holds which reference. Each
atomic operation is one step, which AtomicLLSC and AtomicCasLoop justify. The call
of `release` is a step of its own after the decrement, as in the code.

**ListSpec**, **LinkedList**: `list.h`. The pointers of every node, those of
removed nodes included (`list_remove` leaves them), and one loop in progress with
the variables of the macros (`node`, `n`). List operations between two steps of
the loop are its body. LinkedList refines ListSpec, where a list is a sequence.

**Win32Mutex**: the `HAVE_WIN32_THREADS` half of `threads.h`, one action per access
of `init` and per call of Windows.

**QemudOpen**, **QemudChannel**, **Qemud**: opening a channel with each outcome of
each system call and the descriptors it leaves; sending and receiving, with the
four-digit header, over a stream that may take or give any part of what is asked, or
nothing; and the composition, in which a module hangs up after a failure and opens again. A receiver that
is out of step reads a header of bytes that are no digits: `Parsed` has all that sscanf
may take them for, a negative size among them, which passes the test against `msgsize`
(`qemud.h:143`) and asks read for a huge count.

**Trace**: `trace.h`. Threads in trace functions, with the ready flag, the mask and
the marker as shared variables; `atrace_setup` and `atrace_update_tags`, which are
in libcutils, as the header's comments and its use of them describe. Setup may fail.
An update needs nothing but `atrace_is_ready`, which is set then too (104-106, 124-126),
and sets the mask to any tags or none, as atrace_set_tracing_enabled and
atrace_set_debuggable may. The open contexts of a thread carry a history: what was
written for them, and whether their tag was switched meanwhile.

**LlcpWindow**: `CHECK_SEND_RW` with C's remainder, inside a link whose other moves
(send, receive, read, acknowledge) are external.

**FsConfig**, **LogTime**, **Bitmask**, **HeaderFunctions**: functions without
state. HeaderFunctions makes a behaviour out of a call: a function, its arguments,
its result. Functions that answer questions about the same thing are asked together.
Its other parts:

- **AudioDevice**, **AudioChannel**, **AudioFormat**: `system/audio.h`, and the frame
  sizes and tinyalsa formats made from it. A mask is the set of its bits, a format a
  main field and a sub field; builds with QCOM_HARDWARE and without.
- **MifStdFormat**: the macros that step from block to block (`CUR_BLK_INC`), from key
  to key (`NXT_AUTH_STATE`) and through the list of sectors (`CHK_SECT_ARRAY`). `Walk`
  and `Attempts` follow them to the end, as a formatter does.
- **NfcFields**: the macros that shift fields into a number and mask them out.
- **ControlSocket**: `android_get_control_socket`, with the key it cuts to length in
  two different ways, strtol's answers for texts that are no number or too large a
  one, and the conversion of its long to an int, in builds where a long is wider and not.

Modules whose names begin with MC give TLC its values; modules that end in _proofs, and
NaturalFacts, have theorems. A definition marked "Mutated form of" is a wrong version of its
neighbour, used to show that a property notices the mistake.

## 3. Runs

| run | instance | what it shows |
|---|---|---|
| atomic | 3 threads, 4 word values, 1 interrupt; cas, decrement, and, store: calls that wrap and that return the word to an old value; the ARM/MIPS loops, or those of ARM64, where add, and, or are loops on a cas | each call takes effect at one instant, with its result; while calls are in progress somebody completes |
| atomic_ordering | N = 3, 9 targets (both values of ANDROID_SMP where the header looks at it), 6 programs | lock, publication, store-then-load and last-put behave on the builds that order them; on x86, a critical section that is found ready was made |
| aref | 3 threads, 3 references, a count of 4 values | never early, once, finally; a count of 1 means sole owner |
| linked_list | 2 lists, 3 items | refinement of sequences; pointers inverse; loops stay in the list, miss nothing and end |
| win32_mutex | 4 threads, one first caller | exclusion, an initialised section, no lost waiter |
| win32_mutex_race | 4 threads, any first callers | violation: see section 5 |
| qemud | 2 descriptors, 3 sends, messages that do not fit, look like headers, or have a length that does not fit the header | connected results, no leak on the socket side, framing, delivery |
| trace | 2 threads, with 2 calls and 1, 2 tags, any changes of the mask | setup race, failed setup; of the tags that were not switched no event is lost, made up or out of order; the messages of a context come in pairs unless its tag was switched while it was open; every call returns |
| llcp_window | windows of 0 to 4, 20 PDUs | violation: see section 5 |
| header_functions | all paths around every rule; all pairs of times; all bitmasks of up to 3 words; one or two devices of 31 bits, either direction; channel masks over 8 bits in 4 representations; every format; blocks 0 to 255 and 40 sectors; all fields of a byte; 2 variables in the environment, with numbers that fit an int, a long, and neither | the most specific rule decides; stamps are ordered; a bitmask is a set; the questions about audio agree with each other and with the enumerations; no sector or key is left out; fields come back; the socket is the one named |
| fs_config_shadowed | the same, for all directories | violation: see section 5 |
| alsa_not_fatal | the same, for all formats | violation: see section 5 |

**Why these bounds.** Three threads are needed for a value to be changed and
changed back by two others while the first is in its loop, and for a publication
through a third. A word of four values wraps, has two bits to tell `&` from `|`,
and has values that equal neither operand. One interrupt is enough to lose a
reservation that nobody's store took; the proof covers any number of them. With three references, two
can be dropped while a third is taken. Three items give a first, a middle and a
last node, two lists let a body move a node. Four threads give a mutex an
initialiser, two waiters and a late caller. Two hexadecimal digits in place of
four and base 2 in place of 16 keep the header a number of several digits that
payload bytes can imitate; 3 sends let an old message meet a new channel. The LLCP
counters keep their width of 4 bits and the run sends more than 16 PDUs. Log times
are made of four bytes of one bit: the shifts, the sign bit and the comparison of
the two words are all there. Bitmasks have words of 3 bits and sizes that fill the
last word and that do not. The tables of `fs_config` are
complete, and so are the devices, the formats and the blocks of both cards. The bits
of channel masks that vary lie inside and outside of the positions of either direction
and at both of their edges; a mask is a matter of each bit by itself and of how many
there are. A byte of NfcFields has 4 bits where the headers have 8: the shifts are
multiples of it. Two marked sectors are enough for CHK_SECT_ARRAY to find the wrong
one. A key has room for three letters or two, and the names have up to four, so that
two of them are alike after the cut. An int has 16 values there and a long 64: what
matters is that the one is cut from the other. Two calls are a context, and a third, of
the other thread, is what races with it for setup.

The type invariants (`TypeOK`) are stated in the modules and are part of the
inductive invariants of section 4; the runs spend their properties on what is not a
matter of types.

No run uses a symmetry set: most check liveness or refinement, where TLC does not
allow it, and the others are small.

`CHECK_DEADLOCK FALSE` is set where a behaviour may end: every reference is dropped
(aref), a bound on calls or messages is used up (qemud, trace, llcp_window), or the
function has returned (header_functions, fs_config_shadowed, alsa_not_fatal).

**Fairness.** A call in progress keeps running: weak fairness of a thread's own
steps (atomic loops, release after the decrement, trace calls, the initialisation
of the mutex, loop bodies). Nothing is assumed about beginning a call. This is what
a scheduler that gives every runnable thread time provides. For the atomic loops it
gives lock-freedom only, that somebody completes; a single thread may starve, and no
property says otherwise. Two assumptions are about the environment: Windows lets a
waiting thread into a critical section that is free again and again (strong
fairness of `EnterSection`), and a receiver goes on calling `qemud_channel_recv`, whose
reads take bytes where there are any; that a read fails is possible and never necessary.
`win32_mutex` also assumes that a held mutex is released.

## 4. Proofs

All theorems hold for every value of the constants under the named assumptions in
the modules, which TLC evaluates in the runs. Of the properties of the passing runs
they cover all but the liveness properties, which are listed at the end of this section.

- **Atomic_proofs.** `EveryBuildImplementsAtomic`: whichever header `atomic-inline.h`
  includes, the operations implement AtomicSpec. It joins two proofs.
  `LLSCImplementsAtomic` is about the loops of ARM and MIPS. The inductive invariant is
  `TypeOK /\ ReservationFresh /\ CasAboutToStore /\ KindMatchesPc`. ReservationFresh is
  the heart of it: whoever writes the word closes every reservation and whoever opens
  one has just read the word, so at an open reservation the register holds the word.
  CasAboutToStore and KindMatchesPc say what the location of a thread tells about its
  call. Each action is then mapped to Begin, Execute, Return or a stutter.
  `CasLoopImplementsAtomic` is about x86 and ARM64, and little invariant is needed: the
  cas compares with the register at the moment it stores, so the value computed from
  the register is the value computed from the word, however often the word changed in
  between. The invariant of the composition says which of the two is running.
  `TypeCorrect` comes from the same invariant. Assumed: the
  bitwise operators return words.
  The second half is about order. Five lemmas say which instructions `MayPass` keeps
  apart: a barrier between them, a compiler barrier where the processor would not swap
  them, an update that orders what follows, the same location. From these it follows,
  program by program, in which order a thread of any target performs its accesses
  (`LockSteps` and its like), and then the invariants are those of sequential programs.
  `NeverLosesUpdates`: who is between its cas and its release is alone, and the counter is
  the number of threads that have written (`LockInv`). `FlagsPublish` and
  `SectionPublished`: where a flag is known, in memory or in a register, what it stands
  for is there (`PublishInv`, `MutexInv`). `NotAllMiss`: a thread looks after its store is
  visible, so the last one to store is seen by whoever looks at it later (`DekkerInv`).
  `PutFollowsWrites` and `CallbackSeesWrites`: the count is N less the threads that have
  dropped their reference, so the last is last (`LastPutInv`). All hold for every number
  of threads from 2 on and every target.
- **Aref_proofs.** `NeverReleasedEarly`, `NeverReleasedTwice`, `OneMeansAlone`,
  `TypeCorrect`. The properties alone are not inductive; the invariant adds that the
  count is the number of live references and that, when there is none, exactly one
  thread is to release or has released. Assumed: fewer references than values of the
  count. The lemmas LiveGrows and LiveShrinks are about cardinalities.
- **LinkedList_proofs.** Four theorems, for any lists and any finite set of items, with
  loops running. `WellLinkedHolds`: the pointers of linked nodes are inverse and stay
  within a list; its invariant is WellLinked with the types of the pointers. For the
  others this is too weak, because pointers that are merely inverse may form a second
  ring that the head of the list is not on. The invariant `LoopsInRings` therefore says
  that there is a sequence for every list (`Rings`) along which the pointers lead from
  the head through all of its items, each once, and back; and where a loop is in that
  sequence: it has covered what is on one side of its node and not come to what is on
  the other, and a safe loop whose node is gone is placed by its `n` (`LoopPlace`).
  Insertion and removal of an item at some place of the sequence preserve this
  (`Inserted`, `Deleted`), and each step of a loop moves its place by one.
  `LoopCoversAllHolds` and `LoopStaysInListHolds`, which is an action property, follow.
  `ImplementsSequencesHolds` is the refinement of ListSpec: `Contents`, which follows the
  pointers, gives the sequence of the invariant, and the operations are mapped one to
  one. Assumed: the callers' rules written in the module's header.
- **Win32Mutex_proofs.** `Excludes` and `SectionIsReady`, under OneFirstCaller. The
  invariant names three phases (untouched, one thread initialising, ready) and says
  for each where the threads can be.
- **Qemud_proofs.** `ReturnedIsConnectedHolds` and `OnlyPipesLeakHolds`: every open
  descriptor is accounted for exactly once, as one a caller has, one that has leaked, or
  the one that the call in progress holds at its place (`Accounted`).
  `FramesInOrderHolds`: the receiver has the first messages that were sent, and the wire
  holds the frames of the others, from where the receiver is to where the sender is
  (`InStep`; `rest[k]` is what remains of the stream after k messages). What makes the
  step of a receiver work is a fact on numbers: the value of the digits of a length is
  the length, and nothing else that sscanf could take (`ParsedHeader`), as long as it
  fits, for every base and number of digits. A receiver that is in step never has a
  negative size (`AwaitedInStep`).
  After a failure or a length that does not fit the invariant says nothing, like the
  property. `TypeCorrect` is about the composition.
- **Trace_proofs.** `LogMatchesCallsHolds` and `ContextsComeInPairsHolds`. The invariant follows
  setup (`SetupProgress`): before it the mask is NotReady alone; while a thread is in it
  nobody else is; afterwards NotReady is gone, and of the tags that nobody switched none
  is enabled if the marker is not open. `Logged` extends LogMatchesCalls to a thread in a
  call: its messages are those of the calls it has made, and of the one it is about to
  return from. `ContextsKept` says of each open context, innermost or not, whether its
  begin is written: exactly if its tag is enabled now and the marker open, as long as the
  tag has not been switched, wherever in the two calls the thread is.
- **HeaderFunctions_proofs.** A behaviour is one call, so the invariant `Answered` only
  says that the result is what the function gives for the arguments; the proofs are
  about the functions. `BitmaskIsASetHolds`: a bit and its word and place determine each
  other; the loop of bitmask_weight adds up the parts of a set; bitmask_ffz stops at the
  first word with a hole, and a hole past the end means that there is none before it.
  `ChannelsCountedHolds` and `FormatsAgreeHolds`: by representation and by format.
  `FrameSizesAgreeHolds` is about every format and mask, reserved representations and
  8_24 included: a mask is its bits and its representation, and nothing else. `StampsInOrderHolds` and `EntriesMatchUntil2038Holds`: a
  word is its bytes, and a number below half of the modulus is the same signed.
  `FieldsComeBackHolds`: bits by sets, numbers by their digits.
  `SocketIsTheOneNamedHolds`: two names that fit have the same key only if they are
  equal, and a number that fits an int is not changed by the conversion to one; it
  promises nothing about the numbers between an int and a long (section 5). `DevicesClassifiedHolds`: one bit or two and a direction, against the names of
  the enum at their places. `EverySectorVisitedHolds`: the block at every step of a walk
  is known, below and above sector 32, so the step that ends the card is too; the
  search is shown to be the next marked sector that its steps reach (`Found`).
  `EveryKeyTriedHolds`: the five attempts, one by one, for every block.
  `RuleMostSpecificHolds` is about any path that is a sequence, so for every set of
  Extensions. The rule that the loop breaks at is the first of those that cover the path
  (`FirstIsMostSpecific`), and all their texts begin the path, so that the text of the
  first is the longest or begins the text of the longest. What is left is a matter of the
  tables: a rule for some of the paths of a later one says the same (`DirsHidden`,
  `FilesHidden`), except that for data/misc. The provers cannot look up a sequence in
  a table at an index they do not know, so the proofs have the tables by columns
  (`DirFirst`, `FileFirst` and so on), which are shown row by row to be those of the
  model. For the parts of the constants these proofs need, see HeaderFunctionsAssumption.
- **NaturalFacts.** What the others need to know of the naturals. The induction
  theorems of the prover's library take an operator as a parameter and cannot be used.
  Here is induction over a *set* of naturals (`NatSetInduction`, from the least element),
  with which recursive functions are shown to exist, to satisfy their equations and to
  be the only ones that do (`Recursion`, `RecursionTo`), quotients and remainders to have
  their laws, and numbers of four digits to be their digits.

Recursion is written in recursive functions for this reason, in `TaggedUpTo`, `Walk`,
`Power`, `Value`, `WeightOfWords` and `TwoTo`: the prover has no SMT backend in modules
with RECURSIVE operators.

Only model-checked are the liveness properties: LockFree, EventuallyReleased, LoopEnds,
LockSucceeds, AllReceived, CallsReturn. Temporal reasoning under fairness needs ENABLED,
which is out of the prover's reach. DirRuleMostSpecific and the other three properties of
section 5 are false of the code.

Every other property of the passing runs, each safety invariant, action property and
refinement, is stated by a theorem. That the recursive loops of the model compute what the
loops of the code do is a matter of the translation, not of a proof.

## 5. Disagreements found

Each has a run that TLC finds violated and an entry under "findings".

1. **win32_mutex_race.** `mutex_lock` tests and sets `init` in two steps
   (`cutils/threads.h:113-116`). Two threads that make the first call together both
   initialise the section, the second one while the first is inside it.
2. **llcp_window.** `CHECK_SEND_RW` (`phFriNfc_Llcp.h:204`) takes C's remainder of a
   difference that is negative once V(S) has wrapped and V(SA) has not; the result is
   below any window, and the sender overruns the peer's buffers.
3. **fs_config_shadowed.** The rule for `data/misc` comes before those for
   `data/misc/dhcp` and `data/misc/shared_relro`
   (`android_filesystem_config.h:230-232`), which are never used, against the order
   the comment at 217-219 asks for. `RuleMostSpecific` leaves out directories under
   `data/misc` for this reason.
4. **alsa_not_fatal.** `pcm_format_from_audio_format` "logs a fatal error if format is
   not a valid convertible audio_format_t" (`audio_alsaops.h:35`). It logs nothing, and
   returns 0 (59-61), which is PCM_FORMAT_S16_LE, for float and for every encoded
   format. `audio_format_from_pcm_format` says and does the same (69, 93-94).

Seen while modelling, without a property:

- `aref_put` decrements with a release order only. On ARM and MIPS nothing orders
  the reads of the release callback after the decrement; `LastPutSeesWrites` is
  stated for x86, x86_64 and ARM64, where the update orders what follows it.
- `qemu_pipe_open` returns -1 without closing the device when the name cannot be
  written (`qemu_pipe.h:80-87`). The model records these descriptors in `leaked`,
  and OnlyPipesLeak shows that there are no others. Its comment promises ENOSYS
  (44-45), which is commented out in the code (73).
- `qemud_channel_send` cuts off the header of a message of 65536 bytes or more
  (`qemud.h:115`), and `qemud_channel_recv` leaves the payload of a message that is
  too large in the stream (143). From the first on the stream is out of step (`Misframed`),
  and after the second a call has failed; FramesInOrder promises nothing any more.
- `sscanf("%04x")` takes a minus, so that four bytes that are no header may give a
  negative size; it is not larger than `msgsize` (143), and the read that follows is
  asked for a huge count (146). Only a receiver that is out of step comes to this.
- When setup has failed, tracing is ready all the same (`trace.h:124-126`), and an update
  of the mask (104-106) makes the threads write to the marker -1. Nothing is written, so
  LogMatchesCalls and ContextsComeInPairs hold.
- A tag that is switched while a context is open leaves its begin or its end alone
  (`trace.h:176`); ContextsComeInPairs says that nothing else does.
- The trace functions pass what `snprintf` returns to `write` (`trace.h:190`), which
  is more than the buffer holds for a name of about 1024 characters.
- The two time types of the log disagree from 2^31 seconds on: signed in
  `logger.h:88-120`, unsigned in `log_read.h:33`. EntriesMatchUntil2038 says so.
- `fs_config` matches directories by text: a rule for `data/app` is used for
  `data/apple` too. RuleMostSpecific counts such a directory as covered.
- `audio_is_remote_submix_device` tests the bit of OUT_REMOTE_SUBMIX, 0x8000, without
  the direction, and takes IN_LINE (0x80008000) for a submix (`audio.h:1223`, 747).
  DevicesClassified leaves out input sets with LINE. In the same way
  `audio_device_address_to_parameter` gives `a2dp_sink_address=` to the inputs of bits
  7, 8 and 9, a back microphone among them; the property is about outputs.
- `audio_stream_frame_size`, deprecated, counts the bit of the index representation as
  a channel (`hardware/audio.h:529`), and the bits of reserved representations too, for
  which the others say 0; for PCM_SUB_8_24_BIT, which its test does not list, it says 1
  (527). FrameSizesAgree has it as it is, for every format and mask.
- NXT_AUTH_STATE gives the MAD key to blocks 64 to 66, not to 67, the trailer of the
  same sector (`phFriNfc_MifStdFormat.h:316-317`), though it does to block 3.
  EveryKeyTried leaves out block 67. The comments on AUTH_NFC_KEY and AUTH_MAD_KEY
  (70-71) are exchanged.
- PH_NFCFRI_NDEFMAP_FELI_CAL_LEN_BYTES (`phFriNfc_FelicaMap.h:112-120`) shifts its first
  byte by 24 and not by 16; FieldsComeBack has it 0.
- A comment says that component 0x10 with status 0x03 results in 0x0003
  (`phNfcStatus.h:86-89`). PHNFCSTVAL gives 0x1003 (71-74): it drops the component of
  NFCSTATUS_SUCCESS only, which is 0x00. FieldsComeBack follows the macro: the
  component comes back with every other status.
- `android_get_control_socket` cuts a long name off without saying so, a byte earlier
  with strlcpy than with strncpy (`sockets.h:54-62`), and takes a variable that is no
  number for descriptor 0, although it "returns -1 on error" (42): strtol sets no errno.
  Where a long is wider than an int it assigns strtol's long to an int (70), so that a
  number between the two is cut to some other descriptor, with no error. The model does
  the same, and SocketIsTheOneNamed leaves both out.
- EFFECT_API_VERSION_MINOR(v) names m, which is no argument of it (`audio_effect.h`).

## 6. What is left out

- The barriers inside AtomicLLSC and AtomicCasLoop: there the memory is sequentially
  consistent, and AtomicOrdering examines order by itself, on short programs.
- AtomicOrdering has no speculation, no partial visibility of a store and no control
  dependencies; a loop around a cas is one instruction that waits. AtomicBarriers has no
  `android_atomic_and` and `_or`, and no build that overrides `android_memory_barrier`.
- The names of pipes and services that snprintf cuts to the length of its buffer
  (`qemu_pipe.h`, `qemud.h`), and what a read of a huge count does to the receiver's
  memory: the model has the bytes it takes off the stream.
- Callers that break the contracts the headers leave to them: adding an item that is
  in a list or removing one that is in none, a bit outside of a bitmask (the -1 of
  `bitmask_ffz`, in the example at `bitops.h:39-40`), two threads that set bits of one
  word, a second release of a mutex, more references than an int32_t counts.
- Win32Mutex executes plain accesses in program order; AtomicOrdering examines the one
  place where this matters, for the x86 builds that Windows runs on.
- MifStdFormat has no card that refuses and no order of calls: the functions that send
  the commands and use the macros are not in the repository. Which of the
  AUTH_SEND_BUF macros belongs to a state is taken from their names.
- The text of trace messages and log entries; errno.
- Everything the repository only declares: the HAL interfaces, libnfc-nxp but for its
  macros, liblog, libcutils, the kernel interfaces. There is no code to translate;
  PROJECT.json lists them with status not_modelled. This is most of the repository:
  of its 57857 lines, the largest headers (phLibNfc.h, camera3.h, gps.h,
  phNfcHalTypes.h and their like) hold no statement at all, and the inline functions
  of window.h and of the HAL headers pass their arguments to a pointer and return
  what it returns. What has control flow is modelled; the share of lines this makes
  is small, and cannot be made larger without modelling comments.

## 7. Plan

Done: atomics with their barriers, reference counts, lists, mutexes, bitmasks, trace,
emulator channels, LLCP window, file permissions, log times, audio devices, channels
and formats, Mifare walk and keys, packed fields, control sockets. No other code of the
repository has behaviour of its own. Proved: what section 4 says.

Left is what the provers cannot reach, the liveness properties of section 4, and what the
properties do not say: DevicesClassified is about one device or two of a direction, not
about sets of more.
