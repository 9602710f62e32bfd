-------------------------------- MODULE Trace --------------------------------
(***************************************************************************)
(* cutils/trace.h: trace events of the threads of a process.  Every trace  *)
(* function makes sure that setup has run (atrace_init), reads the mask of *)
(* enabled tags, and writes a message to the trace marker if its tag is    *)
(* enabled.  Setup and the changes of the mask are in libcutils, outside   *)
(* of the header: the first caller opens the marker and sets the mask      *)
(* under a lock, and the mask may change at any time after that.           *)
(*                                                                         *)
(* The mask is a set of tags, which is empty while tracing is disabled for *)
(* the process; atrace_int, atrace_int64 and the asynchronous events run   *)
(* the code of atrace_begin with other letters.  The text of a message,    *)
(* and how much of it fits the buffer, is left out.                        *)
(***************************************************************************)
EXTENDS Integers, Sequences

CONSTANTS Threads,
          Tags,
          MaxCalls                \* bound: calls of each thread

NotReady == "not ready"   \* ATRACE_TAG_NOT_READY, no tag of a caller
Nobody == "nobody"

ASSUME TraceAssumption ==
  /\ NotReady \notin Tags
  /\ Nobody \notin Threads
  /\ MaxCalls \in [Threads -> Nat]

NoCall == [kind |-> "none"]

VARIABLES atrace_is_ready, atrace_enabled_tags, atrace_marker_fd,
          setup,     \* the thread that runs atrace_setup
          pc, call,  \* the call in progress of each thread
          open,      \* the contexts of each thread, innermost first
          made,      \* the calls of each thread that have returned
          log,       \* the messages of each thread that reached the marker
          changed    \* the tags that were turned on or off after setup

vars == <<atrace_is_ready, atrace_enabled_tags, atrace_marker_fd, setup, pc,
          call, open, made, log, changed>>

globals == <<atrace_is_ready, atrace_enabled_tags, atrace_marker_fd, setup, changed>>

Init ==
  /\ atrace_is_ready = FALSE
  /\ atrace_enabled_tags = {NotReady}
  /\ atrace_marker_fd = -1
  /\ setup = Nobody
  /\ pc = [t \in Threads |-> "idle"]
  /\ call = [t \in Threads |-> NoCall]
  /\ open = [t \in Threads |-> <<>>]
  /\ made = [t \in Threads |-> <<>>]
  /\ log = [t \in Threads |-> <<>>]
  /\ changed = {}

Goto(t, place) == pc' = [pc EXCEPT ![t] = place]

Event(k, tag) == [kind |-> k, tag |-> tag]

\* A context, from the call of atrace_begin to the return of atrace_end.
\* Beside its tag, the history of it: the messages that were written for it,
\* and whether its tag was turned on or off meanwhile.
Context(tag) == [tag |-> tag, written |-> {}, switched |-> FALSE]
-----------------------------------------------------------------------------
Enter(t, e, contexts) ==
  /\ pc[t] = "idle" /\ Len(made[t]) < MaxCalls[t]
  /\ call' = [call EXCEPT ![t] = e]
  /\ open' = [open EXCEPT ![t] = contexts]
  /\ Goto(t, "init")
  /\ UNCHANGED <<globals, made, log>>

atrace_begin(t) == \E tag \in Tags : Enter(t, Event("B", tag), <<Context(tag)>> \o open[t])

\* A single 'E'; it matches up with the innermost context.
atrace_end(t) ==
  /\ open[t] # <<>>
  /\ Enter(t, Event("E", Head(open[t]).tag), open[t])

\* The counters and asynchronous events.
atrace_int(t) == \E tag \in Tags : Enter(t, Event("C", tag), open[t])

\* Mutated form of atrace_init: it does not wait for somebody else's setup.
InitPassesBy(t) ==
  /\ pc[t] = "init"
  /\ Goto(t, IF atrace_is_ready \/ setup # Nobody THEN "tags" ELSE "setup")
  /\ UNCHANGED <<globals, call, open, made, log>>

\* Mutated form of atrace_init: it waits for somebody else's setup.
InitWaits(t) ==
  /\ pc[t] = "init"
  /\ Goto(t, IF atrace_is_ready THEN "tags" ELSE "init")
  /\ UNCHANGED <<globals, call, open, made, log>>

\* android_atomic_acquire_load(&atrace_is_ready), and atrace_setup if not.
atrace_init(t) ==
  /\ pc[t] = "init"
  /\ Goto(t, IF atrace_is_ready THEN "tags" ELSE "setup")
  /\ UNCHANGED <<globals, call, open, made, log>>

\* Mutated form of atrace_is_tag_enabled: atrace_end does not ask.
EndsUnasked(t) ==
  /\ pc[t] = "tags"
  /\ Goto(t, IF call[t].kind = "E" \/ call[t].tag \in atrace_enabled_tags THEN "write" ELSE "return")
  /\ UNCHANGED <<globals, call, open, made, log>>

\* atrace_get_enabled_tags() & tag
atrace_is_tag_enabled(t) ==
  /\ pc[t] = "tags"
  /\ Goto(t, IF call[t].tag \in atrace_enabled_tags THEN "write" ELSE "return")
  /\ UNCHANGED <<globals, call, open, made, log>>

\* The innermost context when a message of that kind is written.
Noted(contexts, kind) ==
  IF kind = "C" THEN contexts ELSE [contexts EXCEPT ![1].written = @ \cup {kind}]

\* write(atrace_marker_fd, buf, len), which fails while the marker is -1;
\* what it returns is not looked at.
Write(t) ==
  /\ pc[t] = "write"
  /\ IF atrace_marker_fd = -1 THEN UNCHANGED <<log, open>>
     ELSE /\ log' = [log EXCEPT ![t] = Append(@, call[t])]
          /\ open' = [open EXCEPT ![t] = Noted(@, call[t].kind)]
  /\ Goto(t, "return")
  /\ UNCHANGED <<globals, call, made>>

Return(t) ==
  /\ pc[t] = "return"
  /\ made' = [made EXCEPT ![t] = Append(@, call[t])]
  /\ call' = [call EXCEPT ![t] = NoCall]
  /\ open' = [open EXCEPT ![t] = IF call[t].kind = "E" THEN Tail(@) ELSE @]
  /\ Goto(t, "idle")
  /\ UNCHANGED <<globals, log>>
-----------------------------------------------------------------------------
(* atrace_setup and atrace_update_tags.                                    *)

\* The lock is free and setup not done: open the marker, which may fail.
SetupOpen(t) ==
  /\ pc[t] = "setup" /\ setup = Nobody /\ ~atrace_is_ready
  /\ setup' = t
  /\ atrace_marker_fd' \in {-1, 0}
  /\ UNCHANGED <<atrace_is_ready, atrace_enabled_tags, changed, pc, call, open, made, log>>

\* "A value of zero indicates setup has failed."
SetupTags(t) ==
  /\ setup = t /\ NotReady \in atrace_enabled_tags
  /\ atrace_enabled_tags' \in IF atrace_marker_fd = -1 THEN {{}} ELSE SUBSET Tags
  /\ UNCHANGED <<atrace_is_ready, atrace_marker_fd, setup, changed, pc, call, open, made, log>>

SetupReady(t) ==
  /\ setup = t /\ NotReady \notin atrace_enabled_tags
  /\ atrace_is_ready' = TRUE
  /\ setup' = Nobody
  /\ UNCHANGED <<atrace_enabled_tags, atrace_marker_fd, changed, pc, call, open, made, log>>

SetupDone(t) ==
  /\ pc[t] = "setup" /\ setup = Nobody /\ atrace_is_ready
  /\ Goto(t, "tags")
  /\ UNCHANGED <<globals, call, open, made, log>>

atrace_setup(t) == SetupOpen(t) \/ SetupTags(t) \/ SetupReady(t) \/ SetupDone(t)

Switched(contexts, tags) ==
  [n \in DOMAIN contexts |->
     [contexts[n] EXCEPT !.switched = @ \/ contexts[n].tag \in tags]]

\* "If tracing is ready, set atrace_enabled_tags", also when setup failed,
\* since "this does NOT indicate whether or not setup was successful"; with
\* atrace_set_tracing_enabled and atrace_set_debuggable, to any tags or none.
atrace_update_tags ==
  /\ atrace_is_ready
  /\ \E tags \in SUBSET Tags :
       LET turned == (tags \ atrace_enabled_tags) \cup (atrace_enabled_tags \ tags)
       IN  /\ atrace_enabled_tags' = tags
           /\ changed' = changed \cup turned
           /\ open' = [t \in Threads |-> Switched(open[t], turned)]
  /\ UNCHANGED <<atrace_is_ready, atrace_marker_fd, setup, pc, call, made, log>>

Proceed(t) ==
  atrace_init(t) \/ atrace_setup(t) \/ atrace_is_tag_enabled(t) \/ Write(t) \/ Return(t)

Next ==
  \/ atrace_update_tags
  \/ \E t \in Threads : atrace_begin(t) \/ atrace_end(t) \/ atrace_int(t) \/ Proceed(t)

Spec == Init /\ [][Next]_vars

\* A call in progress goes on, whoever else is tracing.
FairSpec == Spec /\ \A t \in Threads : WF_vars(Proceed(t))
-----------------------------------------------------------------------------
TypeOK ==
  /\ atrace_enabled_tags \subseteq Tags \cup {NotReady}
  /\ atrace_marker_fd \in {-1, 0}
  /\ setup \in Threads \cup {Nobody}
  /\ \A t \in Threads :
       /\ pc[t] \in {"idle", "init", "setup", "tags", "write", "return"}
       /\ pc[t] = "idle" <=> call[t] = NoCall

\* Those of the first events that have a tag in tags, in order; a recursive
\* function, since it is proved about.
TaggedUpTo(events, tags) ==
  LET upTo[n \in 0 .. Len(events)] ==
        IF n = 0 THEN <<>>
        ELSE IF events[n].tag \in tags THEN Append(upTo[n - 1], events[n])
        ELSE upTo[n - 1]
  IN  upTo

Tagged(events, tags) == TaggedUpTo(events, tags)[Len(events)]

\* "The first call to any normal trace function will cause [setup] to be
\* run safely": no event before or during setup is lost or let through.  Of
\* the tags that nobody turned on or off after setup, the messages of a
\* thread are its calls with enabled tags, in order, however the mask
\* changes for other tags; when setup failed there are none.
LogMatchesCalls ==
  \A t \in Threads :
    pc[t] = "idle" =>
      Tagged(log[t], Tags \ changed) = Tagged(made[t], atrace_enabled_tags \ changed)

\* The end of a context "should match up with (and occur after) a
\* corresponding ATRACE_BEGIN" (196-197): either both of its messages are
\* written or none is, unless its tag was turned on or off while the context
\* was open; what happened to the mask before, the contexts around and
\* inside of it and the other threads do not matter, nor does setup, when
\* the begin of the context was the call that ran it or waited for it.
ContextsComeInPairs ==
  \A t \in Threads :
    pc[t] = "return" /\ call[t].kind = "E" /\ ~open[t][1].switched =>
      open[t][1].written \in {{}, {"B", "E"}}

\* A trace call returns, also when another thread is in setup.
CallsReturn == \A t \in Threads : (pc[t] # "idle") ~> (pc[t] = "idle")
=============================================================================
