---------------------------- MODULE Trace_proofs ----------------------------
(***************************************************************************)
(* The trace functions of cutils/trace.h, for every set of threads and of  *)
(* tags and every number of calls.                                         *)
(***************************************************************************)
EXTENDS Trace, NaturalFacts, SequenceTheorems

Events == {Event(k, tag) : k \in {"B", "E", "C"}, tag \in Tags}
Places == {"idle", "init", "setup", "tags", "write", "return"}

-----------------------------------------------------------------------------
(* The enabled events of a sequence.                                       *)

LEMMA TaggedUpToFacts ==
  ASSUME NEW events \in Seq(Events), NEW tags
  PROVE  /\ TaggedUpTo(events, tags)[0] = <<>>
         /\ \A n \in 1 .. Len(events) :
              TaggedUpTo(events, tags)[n] =
                IF events[n].tag \in tags THEN Append(TaggedUpTo(events, tags)[n - 1], events[n])
                ELSE TaggedUpTo(events, tags)[n - 1]
<1> DEFINE next(n, x) == IF events[n].tag \in tags THEN Append(x, events[n]) ELSE x
           step == [n \in Nat |-> [x \in Seq(Events) |->
                      IF n + 1 \in 1 .. Len(events) THEN next(n + 1, x) ELSE x]]
<1>1. Len(events) \in Nat /\ \A n \in 1 .. Len(events) : events[n] \in Events
  BY ElementOfSeq, LenProperties
<1>2. step \in Steps(Seq(Events)) /\ <<>> \in Seq(Events)
  <2>1. ASSUME NEW n \in 1 .. Len(events), NEW x \in Seq(Events)
        PROVE  next(n, x) \in Seq(Events)
    BY <1>1, AppendProperties
  <2>2. <<>> \in Seq(Events)
    BY EmptySeq
  <2> HIDE DEF next
  <2> QED BY <2>1, <2>2 DEF Steps
<1>3. PICK f : IteratesTo(f, Len(events), Seq(Events), <<>>, step)
  <2> HIDE DEF step
  <2> QED BY <1>1, <1>2, RecursionTo
<1>4. ASSUME NEW n \in 0 .. Len(events), n # 0
      PROVE  step[n - 1][f[n - 1]] = next(n, f[n - 1])
  <2>1. n - 1 \in Nat /\ n - 1 \in 0 .. Len(events) /\ (n - 1) + 1 = n /\ n \in 1 .. Len(events)
    BY <1>1, <1>4
  <2>2. f[n - 1] \in Seq(Events)
    BY <1>3, <2>1 DEF IteratesTo
  <2> HIDE DEF next
  <2> QED BY <2>1, <2>2
<1>5. f = [n \in 0 .. Len(events) |-> IF n = 0 THEN <<>> ELSE next(n, f[n - 1])]
  <2> HIDE DEF step, next
  <2> QED BY <1>3, <1>4 DEF IteratesTo
<1>6. TaggedUpTo(events, tags) =
        [n \in 0 .. Len(events) |->
           IF n = 0 THEN <<>> ELSE next(n, TaggedUpTo(events, tags)[n - 1])]
  BY <1>5 DEF TaggedUpTo
<1>7. \A n \in 1 .. Len(events) : n \in 0 .. Len(events) /\ n # 0
  BY <1>1
<1>8. 0 \in 0 .. Len(events)
  BY <1>1
<1>9. TaggedUpTo(events, tags)[0] = <<>>
  BY <1>6, <1>8
<1>10. \A n \in 1 .. Len(events) : TaggedUpTo(events, tags)[n] = next(n, TaggedUpTo(events, tags)[n - 1])
  <2> HIDE DEF next
  <2> QED BY <1>6, <1>7
<1> QED BY <1>9, <1>10

LEMMA TaggedNone == \A tags : Tagged(<<>>, tags) = <<>>
<1> TAKE tags
<1>1. <<>> \in Seq(Events) /\ Len(<<>>) = 0
  BY EmptySeq
<1>2. Tagged(<<>>, tags) = TaggedUpTo(<<>>, tags)[Len(<<>>)]
  BY DEF Tagged
<1> QED BY <1>1, <1>2, TaggedUpToFacts

LEMMA TaggedAppend ==
  ASSUME NEW events \in Seq(Events), NEW e \in Events, NEW tags
  PROVE  Tagged(Append(events, e), tags) =
           IF e.tag \in tags THEN Append(Tagged(events, tags), e) ELSE Tagged(events, tags)
<1> DEFINE more == Append(events, e)
           u == TaggedUpTo(events, tags)
           v == TaggedUpTo(more, tags)
           S == {n \in Nat : n <= Len(events) => v[n] = u[n]}
<1>1. /\ more \in Seq(Events) /\ Len(events) \in Nat /\ Len(more) = Len(events) + 1
      /\ more[Len(events) + 1] = e /\ \A n \in 1 .. Len(events) : more[n] = events[n]
  BY AppendProperties, LenProperties
<1>2. 0 \in S
  BY <1>1, TaggedUpToFacts
<1>3. ASSUME NEW n \in Nat, n \in S PROVE n + 1 \in S
  <2> SUFFICES ASSUME n + 1 <= Len(events) PROVE v[n + 1] = u[n + 1]
    OBVIOUS
  <2>1. n + 1 \in 1 .. Len(events) /\ n + 1 \in 1 .. Len(more) /\ (n + 1) - 1 = n
        /\ n <= Len(events)
    BY <1>1
  <2>2. v[n] = u[n] /\ more[n + 1] = events[n + 1]
    BY <1>1, <1>3, <2>1
  <2>3. u[n + 1] = IF events[n + 1].tag \in tags THEN Append(u[n], events[n + 1]) ELSE u[n]
    BY <2>1, TaggedUpToFacts
  <2>4. v[n + 1] = IF more[n + 1].tag \in tags THEN Append(v[n], more[n + 1]) ELSE v[n]
    <3> HIDE DEF more
    <3> QED BY <1>1, <2>1, TaggedUpToFacts
  <2> HIDE DEF u, v, more
  <2> QED BY <2>2, <2>3, <2>4
<1>4. v[Len(events)] = u[Len(events)]
  <2>1. Nat \subseteq S
    <3> HIDE DEF S
    <3> QED BY <1>2, <1>3, NatSetInduction
  <2> QED BY <1>1, <2>1
<1>5. v[Len(events) + 1] = IF e.tag \in tags THEN Append(u[Len(events)], e) ELSE u[Len(events)]
  <2>1. Len(events) + 1 \in 1 .. Len(more) /\ (Len(events) + 1) - 1 = Len(events)
    BY <1>1
  <2>2. v[Len(events) + 1] =
          IF more[Len(events) + 1].tag \in tags
            THEN Append(v[(Len(events) + 1) - 1], more[Len(events) + 1])
            ELSE v[(Len(events) + 1) - 1]
    <3> HIDE DEF more
    <3> QED BY <1>1, <2>1, TaggedUpToFacts
  <2> HIDE DEF v, u, more
  <2> QED BY <1>1, <1>4, <2>1, <2>2
<1>6. Tagged(events, tags) = u[Len(events)] /\ Tagged(more, tags) = v[Len(more)]
  BY DEF Tagged
<1> HIDE DEF u, v
<1> QED BY <1>1, <1>5, <1>6
-----------------------------------------------------------------------------
(* The invariant.                                                          *)

Contexts == [tag : Tags, written : SUBSET {"B", "E"}, switched : BOOLEAN]

StateType ==
  /\ atrace_is_ready \in BOOLEAN /\ changed \subseteq Tags
  /\ atrace_enabled_tags \subseteq Tags \cup {NotReady}
  /\ atrace_marker_fd \in {-1, 0}
  /\ setup \in Threads \cup {Nobody}
  /\ pc \in [Threads -> Places]
  /\ call \in [Threads -> Events \cup {NoCall}]
  /\ open \in [Threads -> Seq(Contexts)]
  /\ made \in [Threads -> Seq(Events)] /\ log \in [Threads -> Seq(Events)]

\* The call in progress has not yet decided whether to write its 'B'.
BeginPending(t) == pc[t] \in {"init", "setup", "tags", "write"} /\ call[t].kind = "B"

\* The call in progress has written its 'E', or has decided not to.
Ended(t) == pc[t] = "return" /\ call[t].kind = "E"

\* What setup has done so far: nobody is in it or past it before the first
\* caller opens the marker, and a thread that passes atrace_init finds the
\* mask that setup chose or a later one.  Without a marker tags are enabled
\* only by a change of the mask.
SetupProgress ==
  /\ atrace_is_ready => setup = Nobody /\ NotReady \notin atrace_enabled_tags
  /\ ~atrace_is_ready /\ setup = Nobody => atrace_enabled_tags = {NotReady}
  /\ NotReady \notin atrace_enabled_tags /\ atrace_marker_fd = -1
       => atrace_enabled_tags \subseteq changed
  /\ ~atrace_is_ready =>
       /\ changed = {}
       /\ \A t \in Threads : /\ pc[t] \in {"idle", "init", "setup"}
                             /\ made[t] = <<>> /\ log[t] = <<>>
                             /\ \A n \in 1 .. Len(open[t]) : n = 1 /\ BeginPending(t)

\* What a thread has written: of any tags that did not change, the enabled
\* ones of the calls that returned, and the message of the call in progress
\* when it is past the write.
Logged(t) ==
  LET calls == IF pc[t] = "return" THEN Append(made[t], call[t]) ELSE made[t]
  IN  \A tags \in SUBSET (Tags \ changed) :
        Tagged(log[t], tags) = Tagged(calls, tags \cap atrace_enabled_tags)

WritesEnabled(t) == pc[t] = "write" => call[t].tag \in atrace_enabled_tags \cup changed

\* The messages for a tag reach the marker.
On(tag) == tag \in atrace_enabled_tags /\ atrace_marker_fd # -1

\* A context that was not switched has its messages exactly if its tag is on.
ContextKept(c, pending, ended) ==
  IF pending THEN c.written = {}
  ELSE /\ ~c.switched => ("B" \in c.written <=> On(c.tag))
       /\ IF ended THEN ~c.switched => ("E" \in c.written <=> On(c.tag))
          ELSE "E" \notin c.written

ContextsKept(t) ==
  /\ pc[t] # "idle" /\ call[t].kind # "C" =>
       /\ open[t] # <<>> /\ open[t][1].tag = call[t].tag
       /\ pc[t] = "write" => open[t][1].switched \/ call[t].tag \in atrace_enabled_tags
  /\ \A n \in 1 .. Len(open[t]) :
       ContextKept(open[t][n], n = 1 /\ BeginPending(t), n = 1 /\ Ended(t))

CallsNamed == \A t \in Threads : pc[t] = "idle" <=> call[t] = NoCall

TraceInv ==
  /\ StateType /\ SetupProgress /\ CallsNamed
  /\ \A t \in Threads : Logged(t) /\ WritesEnabled(t) /\ ContextsKept(t)

LEMMA NoCallIsNoEvent == NoCall \notin Events
<1>1. ASSUME NEW e \in Events PROVE e # NoCall
  <2>1. DOMAIN e = {"kind", "tag"}
    BY DEF Events, Event
  <2>2. DOMAIN NoCall = {"kind"}
    BY DEF NoCall
  <2> QED BY <2>1, <2>2
<1> QED BY <1>1

LEMMA EventFields == \A e \in Events : e.kind \in {"B", "E", "C"} /\ e.tag \in Tags
BY DEF Events, Event

LEMMA EventIs ==
  ASSUME NEW k \in {"B", "E", "C"}, NEW tag \in Tags
  PROVE  Event(k, tag) \in Events /\ Event(k, tag).kind = k /\ Event(k, tag).tag = tag
BY DEF Events, Event

LEMMA TraceInvInit == Init => TraceInv
<1> SUFFICES ASSUME Init PROVE TraceInv
  OBVIOUS
<1> USE DEF Init
<1>0. Len(<<>>) = 0 /\ \A S : <<>> \in Seq(S)
  BY EmptySeq
<1>1. StateType
  BY <1>0 DEF StateType, Places
<1>2. SetupProgress /\ CallsNamed
  BY <1>0 DEF SetupProgress, CallsNamed
<1>3. ASSUME NEW t \in Threads PROVE Logged(t) /\ WritesEnabled(t)
  BY TaggedNone DEF Logged, WritesEnabled
<1>4. ASSUME NEW t \in Threads PROVE ContextsKept(t)
  BY <1>0 DEF ContextsKept
<1> QED BY <1>1, <1>2, <1>3, <1>4 DEF TraceInv

\* The history of a thread that a step does not concern.
LEMMA Bystander ==
  ASSUME TraceInv, NEW u \in Threads,
         UNCHANGED <<atrace_enabled_tags, atrace_marker_fd, changed>>,
         pc'[u] = pc[u], call'[u] = call[u], open'[u] = open[u],
         made'[u] = made[u], log'[u] = log[u]
  PROVE  Logged(u)' /\ WritesEnabled(u)' /\ ContextsKept(u)'
<1>1. Logged(u) /\ WritesEnabled(u) /\ ContextsKept(u)
  BY DEF TraceInv
<1>2. Logged(u)'
  BY <1>1 DEF Logged
<1>3. WritesEnabled(u)'
  BY <1>1 DEF WritesEnabled
<1>4. ContextsKept(u)'
  BY <1>1 DEF ContextsKept, ContextKept, BeginPending, Ended, On
<1> QED BY <1>2, <1>3, <1>4

\* A thread enters a trace function: no message is written, and a context
\* at most is opened.
LEMMA EnterStep ==
  ASSUME TraceInv, NEW t \in Threads, NEW e \in Events, NEW contexts \in Seq(Contexts),
         Enter(t, e, contexts),
         e.kind # "C" => contexts # <<>> /\ contexts[1].tag = e.tag,
         e.kind = "B" => contexts[1].written = {},
         \A n \in 1 .. Len(contexts) :
           \/ n = 1 /\ e.kind = "B"
           \/ \E m \in 1 .. Len(open[t]) : contexts[n] = open[t][m]
  PROVE  TraceInv'
<1> USE DEF Enter, Goto, globals
<1>1. pc[t] = "idle" /\ pc' = [pc EXCEPT ![t] = "init"] /\ call' = [call EXCEPT ![t] = e]
      /\ open' = [open EXCEPT ![t] = contexts] /\ UNCHANGED <<globals, made, log>>
      /\ e.kind \in {"B", "E", "C"} /\ e.tag \in Tags
  BY EventFields
<1>2. StateType /\ SetupProgress /\ CallsNamed /\ Logged(t) /\ ContextsKept(t)
  BY DEF TraceInv
<1>3. /\ pc'[t] = "init" /\ call'[t] = e /\ open'[t] = contexts
      /\ \A u \in Threads \ {t} : pc'[u] = pc[u] /\ call'[u] = call[u] /\ open'[u] = open[u]
  BY <1>1, <1>2 DEF StateType
<1>4. StateType'
  BY <1>1, <1>2 DEF StateType, Places
<1>5. CallsNamed'
  BY <1>1, <1>2, <1>3, NoCallIsNoEvent DEF CallsNamed
<1>6. SetupProgress'
  <2> SUFFICES ASSUME ~atrace_is_ready, NEW u \in Threads
               PROVE  /\ pc'[u] \in {"idle", "init", "setup"}
                      /\ \A n \in 1 .. Len(open'[u]) : n = 1 /\ BeginPending(u)'
    BY <1>1, <1>2 DEF SetupProgress
  <2>1. CASE u # t
    BY <1>2, <1>3, <2>1 DEF SetupProgress, BeginPending
  <2>2. CASE u = t
    <3>1. \A m \in 1 .. Len(open[t]) : FALSE
      BY <1>1, <1>2 DEF SetupProgress, BeginPending
    <3>2. \A n \in 1 .. Len(contexts) : n = 1 /\ e.kind = "B"
      BY <3>1
    <3> QED BY <1>3, <2>2, <3>2 DEF BeginPending
  <2> QED BY <2>1, <2>2
<1>7. ASSUME NEW u \in Threads PROVE Logged(u)' /\ WritesEnabled(u)' /\ ContextsKept(u)'
  <2>1. CASE u # t
    BY <1>1, <1>3, <2>1, Bystander
  <2>2. CASE u = t
    <3>1. Logged(t)'
      BY <1>1, <1>2, <1>3 DEF Logged
    <3>2. WritesEnabled(t)'
      BY <1>3 DEF WritesEnabled
    <3>3. ASSUME NEW n \in 1 .. Len(contexts)
          PROVE  ContextKept(contexts[n], n = 1 /\ BeginPending(t), n = 1 /\ Ended(t))'
      <4>1. BeginPending(t)' = (e.kind = "B") /\ ~Ended(t)'
        BY <1>3 DEF BeginPending, Ended
      <4>2. CASE n = 1 /\ e.kind = "B"
        BY <4>1, <4>2 DEF ContextKept
      <4>3. CASE ~(n = 1 /\ e.kind = "B")
        <5>1. PICK m \in 1 .. Len(open[t]) : contexts[n] = open[t][m]
          BY <4>3
        <5>2. ~BeginPending(t) /\ ~Ended(t)
          BY <1>1 DEF BeginPending, Ended
        <5>3. ContextKept(open[t][m], FALSE, FALSE)
          BY <1>2, <5>1, <5>2 DEF ContextsKept, ContextKept
        <5> QED BY <1>1, <4>1, <4>3, <5>1, <5>3 DEF ContextKept, On
      <4> QED BY <4>2, <4>3
    <3>4. ContextsKept(t)'
      BY <1>3, <3>3 DEF ContextsKept
    <3> QED BY <2>2, <3>1, <3>2, <3>4
  <2> QED BY <2>1, <2>2
<1> QED BY <1>4, <1>5, <1>6, <1>7 DEF TraceInv

LEMMA CallStep ==
  ASSUME TraceInv, NEW t \in Threads, atrace_begin(t) \/ atrace_end(t) \/ atrace_int(t)
  PROVE  TraceInv'
<1>1. open[t] \in Seq(Contexts) /\ Len(open[t]) \in Nat
      /\ \A n \in 1 .. Len(open[t]) : open[t][n] \in Contexts
  <2>1. open[t] \in Seq(Contexts)
    BY DEF TraceInv, StateType
  <2> QED BY <2>1, ElementOfSeq, LenProperties
<1>2. CASE atrace_begin(t)
  <2>1. PICK tag \in Tags : Enter(t, Event("B", tag), <<Context(tag)>> \o open[t])
    BY <1>2 DEF atrace_begin
  <2> DEFINE c == Context(tag)
             more == <<c>> \o open[t]
  <2>2. c \in Contexts /\ c.tag = tag /\ c.written = {}
    BY DEF Context, Contexts
  <2>3. /\ more \in Seq(Contexts) /\ Len(more) = Len(open[t]) + 1 /\ more[1] = c
        /\ \A n \in 2 .. Len(open[t]) + 1 : more[n] = open[t][n - 1]
    <3> HIDE DEF c
    <3> QED BY <1>1, <2>2
  <2>4. more # <<>>
    <3>1. Len(<<>>) = 0
      BY EmptySeq
    <3> HIDE DEF more
    <3> QED BY <1>1, <2>3, <3>1
  <2>5. ASSUME NEW n \in 1 .. Len(more), n # 1
        PROVE  n - 1 \in 1 .. Len(open[t]) /\ more[n] = open[t][n - 1]
    <3> HIDE DEF more
    <3> QED BY <1>1, <2>3, <2>5
  <2>6. Enter(t, Event("B", tag), more) /\ Event("B", tag) \in Events
        /\ Event("B", tag).kind = "B" /\ Event("B", tag).tag = tag
    BY <2>1, EventIs
  <2> HIDE DEF more, c
  <2> QED BY <2>2, <2>3, <2>4, <2>5, <2>6, EnterStep
<1>3. CASE atrace_end(t)
  <2>1. open[t] # <<>> /\ Enter(t, Event("E", Head(open[t]).tag), open[t])
    BY <1>3 DEF atrace_end
  <2>2. Head(open[t]) = open[t][1] /\ Head(open[t]) \in Contexts
    BY <1>1, <2>1, HeadTailProperties
  <2>3. Head(open[t]).tag \in Tags
    BY <2>2 DEF Contexts
  <2> DEFINE e == Event("E", Head(open[t]).tag)
  <2>4. e \in Events /\ e.kind = "E" /\ e.tag = open[t][1].tag
    BY <2>2, <2>3, EventIs
  <2> HIDE DEF e
  <2> QED BY <1>1, <2>1, <2>4, EnterStep DEF e
<1>4. CASE atrace_int(t)
  <2>1. PICK tag \in Tags : Enter(t, Event("C", tag), open[t])
    BY <1>4 DEF atrace_int
  <2>2. Event("C", tag) \in Events /\ Event("C", tag).kind = "C"
    BY EventIs
  <2> QED BY <1>1, <2>1, <2>2, EnterStep
<1> QED BY <1>2, <1>3, <1>4

LEMMA NotEmptyHasLength ==
  ASSUME NEW S, NEW s \in Seq(S), s # <<>>
  PROVE  Len(s) \in Nat /\ 1 \in 1 .. Len(s)
<1>1. Len(s) \in Nat /\ Len(s) # 0
  BY EmptySeq, LenProperties
<1> QED BY <1>1

\* A change of the mask: the contexts of the tags it turns are switched.
LEMMA UpdateStep ==
  ASSUME TraceInv, atrace_update_tags
  PROVE  TraceInv'
<1>1. /\ atrace_is_ready
      /\ UNCHANGED <<atrace_is_ready, atrace_marker_fd, setup, pc, call, made, log>>
  BY DEF atrace_update_tags
<1> DEFINE turnedBy(tags) == (tags \ atrace_enabled_tags) \cup (atrace_enabled_tags \ tags)
<1>2. PICK tags \in SUBSET Tags :
        /\ atrace_enabled_tags' = tags
        /\ changed' = changed \cup turnedBy(tags)
        /\ open' = [t \in Threads |-> Switched(open[t], turnedBy(tags))]
  BY DEF atrace_update_tags
<1> DEFINE turned == turnedBy(tags)
<1>3. StateType /\ SetupProgress /\ CallsNamed
      /\ \A t \in Threads : Logged(t) /\ WritesEnabled(t) /\ ContextsKept(t)
  BY DEF TraceInv
<1>4. atrace_enabled_tags \subseteq Tags /\ turned \subseteq Tags
  BY <1>1, <1>2, <1>3 DEF StateType, SetupProgress
<1>5. /\ \A tag : tag \notin turned => (tag \in atrace_enabled_tags <=> tag \in atrace_enabled_tags')
      /\ changed' = changed \cup turned
  BY <1>2
<1>6. open' = [t \in Threads |-> Switched(open[t], turned)]
  BY <1>2
<1>7. atrace_enabled_tags' \subseteq Tags
  BY <1>2
<1> HIDE DEF turned
<1>8. ASSUME NEW t \in Threads
      PROVE  /\ open'[t] \in Seq(Contexts) /\ Len(open'[t]) = Len(open[t]) /\ Len(open[t]) \in Nat
             /\ \A n \in 1 .. Len(open[t]) :
                  /\ open[t][n] \in Contexts
                  /\ open'[t][n] = [open[t][n] EXCEPT !.switched = @ \/ open[t][n].tag \in turned]
  <2>1. open[t] \in Seq(Contexts)
    BY <1>3 DEF StateType
  <2>2. open'[t] = Switched(open[t], turned)
    BY <1>6
  <2>3. DOMAIN open[t] = 1 .. Len(open[t]) /\ Len(open[t]) \in Nat
        /\ \A n \in 1 .. Len(open[t]) : open[t][n] \in Contexts
    BY <2>1, ElementOfSeq, LenProperties
  <2>4. open'[t] = [n \in 1 .. Len(open[t]) |->
                      [open[t][n] EXCEPT !.switched = @ \/ open[t][n].tag \in turned]]
    BY <2>2, <2>3 DEF Switched
  <2>5. ASSUME NEW c \in Contexts
        PROVE  [c EXCEPT !.switched = @ \/ c.tag \in turned] \in Contexts
    <3>1. (c.switched \/ c.tag \in turned) \in BOOLEAN
      OBVIOUS
    <3> QED BY <3>1 DEF Contexts
  <2>6. \A n \in 1 .. Len(open[t]) :
          [open[t][n] EXCEPT !.switched = @ \/ open[t][n].tag \in turned] \in Contexts
    BY <2>3, <2>5
  <2> DEFINE new(n) == [open[t][n] EXCEPT !.switched = @ \/ open[t][n].tag \in turned]
  <2>7. open'[t] = [n \in 1 .. Len(open[t]) |-> new(n)] /\ \A n \in 1 .. Len(open[t]) : new(n) \in Contexts
    BY <2>4, <2>6
  <2>8. \A n \in 1 .. Len(open[t]) : open'[t][n] = new(n)
    BY <2>4
  <2>9. open'[t] \in Seq(Contexts) /\ Len(open'[t]) = Len(open[t])
    <3> HIDE DEF new
    <3>1. open'[t] \in [1 .. Len(open[t]) -> Contexts]
      BY <2>7
    <3> QED BY <2>3, <3>1, IsASeq, LenProperties
  <2> QED BY <2>3, <2>8, <2>9
<1>9. StateType'
  <2>1. open' \in [Threads -> Seq(Contexts)]
    <3>1. \A t \in Threads : open'[t] \in Seq(Contexts)
      BY <1>8
    <3> QED BY <1>6, <3>1
  <2> QED BY <1>1, <1>3, <1>4, <1>5, <1>7, <2>1 DEF StateType
<1>10. SetupProgress' /\ CallsNamed'
  <2>1. atrace_marker_fd = -1 => atrace_enabled_tags' \subseteq changed'
    BY <1>1, <1>3, <1>5 DEF SetupProgress
  <2>2. NotReady \notin atrace_enabled_tags'
    BY <1>7, TraceAssumption
  <2> QED BY <1>1, <1>3, <2>1, <2>2 DEF SetupProgress, CallsNamed
<1>11. ASSUME NEW t \in Threads PROVE Logged(t)' /\ WritesEnabled(t)'
  <2>1. ASSUME NEW some \in SUBSET (Tags \ changed')
        PROVE  some \in SUBSET (Tags \ changed)
               /\ some \cap atrace_enabled_tags = some \cap atrace_enabled_tags'
    BY <1>5, <2>1
  <2>2. Logged(t)'
    BY <1>1, <1>3, <2>1 DEF Logged
  <2>3. WritesEnabled(t)'
    BY <1>1, <1>3, <1>5 DEF WritesEnabled
  <2> QED BY <2>2, <2>3
<1>12. ASSUME NEW t \in Threads PROVE ContextsKept(t)'
  <2>1. BeginPending(t)' = BeginPending(t) /\ Ended(t)' = Ended(t)
    BY <1>1 DEF BeginPending, Ended
  <2>2. ASSUME NEW n \in 1 .. Len(open[t])
        PROVE  /\ open'[t][n].tag = open[t][n].tag /\ open'[t][n].written = open[t][n].written
               /\ open'[t][n].switched = (open[t][n].switched \/ open[t][n].tag \in turned)
    <3>1. open[t][n] \in Contexts
          /\ open'[t][n] = [open[t][n] EXCEPT !.switched = @ \/ open[t][n].tag \in turned]
      BY <1>8
    <3> QED BY <3>1 DEF Contexts
  <2>3. ASSUME NEW n \in 1 .. Len(open[t])
        PROVE  ContextKept(open[t][n], n = 1 /\ BeginPending(t), n = 1 /\ Ended(t))'
    <3>1. ContextKept(open[t][n], n = 1 /\ BeginPending(t), n = 1 /\ Ended(t))
      BY <1>3 DEF ContextsKept
    <3>2. open[t][n].tag \notin turned =>
            (open[t][n].tag \in atrace_enabled_tags <=> open[t][n].tag \in atrace_enabled_tags')
      BY <1>5
    <3> QED BY <1>1, <2>1, <2>2, <3>1, <3>2 DEF ContextKept, On
  <2>4. ASSUME pc[t] # "idle", call[t].kind # "C"
        PROVE  /\ open'[t] # <<>> /\ open'[t][1].tag = call[t].tag
               /\ pc[t] = "write" => open'[t][1].switched \/ call[t].tag \in atrace_enabled_tags'
    <3>1. /\ open[t] # <<>> /\ open[t][1].tag = call[t].tag
          /\ pc[t] = "write" => open[t][1].switched \/ call[t].tag \in atrace_enabled_tags
      BY <1>3, <2>4 DEF ContextsKept
    <3>2. open[t] \in Seq(Contexts)
      BY <1>3 DEF StateType
    <3>3. 1 \in 1 .. Len(open[t]) /\ Len(open'[t]) # 0
      BY <1>8, <3>1, <3>2, NotEmptyHasLength
    <3>4. open'[t] # <<>>
      BY <3>3, EmptySeq
    <3>5. /\ open'[t][1].tag = open[t][1].tag
          /\ open'[t][1].switched = (open[t][1].switched \/ open[t][1].tag \in turned)
      BY <2>2, <3>3
    <3>6. call[t].tag \notin turned =>
            (call[t].tag \in atrace_enabled_tags <=> call[t].tag \in atrace_enabled_tags')
      BY <1>5
    <3>7. open[t][1].switched \/ call[t].tag \in turned => open'[t][1].switched
      BY <3>1, <3>5
    <3> QED BY <3>1, <3>4, <3>5, <3>6, <3>7
  <2> QED BY <1>1, <1>8, <2>3, <2>4 DEF ContextsKept
<1> QED BY <1>9, <1>10, <1>11, <1>12 DEF TraceInv

\* A thread that finds tracing ready goes on; one that does not goes to setup.
LEMMA InitStep ==
  ASSUME TraceInv, NEW t \in Threads, atrace_init(t) \/ SetupDone(t)
  PROVE  TraceInv'
<1> USE DEF atrace_init, SetupDone, Goto, globals
<1>1. /\ pc[t] \in {"init", "setup"}
      /\ pc' = [pc EXCEPT ![t] = IF atrace_is_ready THEN "tags" ELSE "setup"]
      /\ UNCHANGED <<globals, call, open, made, log>>
  OBVIOUS
<1>2. StateType /\ SetupProgress /\ CallsNamed
      /\ \A u \in Threads : Logged(u) /\ WritesEnabled(u) /\ ContextsKept(u)
  BY DEF TraceInv
<1>3. pc'[t] \in {"tags", "setup"} /\ \A u \in Threads \ {t} : pc'[u] = pc[u]
  BY <1>1, <1>2 DEF StateType
<1>4. StateType' /\ CallsNamed'
  BY <1>1, <1>2, <1>3 DEF StateType, Places, CallsNamed
<1>5. \A u \in Threads : BeginPending(u)' = BeginPending(u) /\ Ended(u)' = Ended(u)
  BY <1>1, <1>3 DEF BeginPending, Ended
<1>6. SetupProgress'
  <2>1. \A u \in Threads : atrace_is_ready \/ pc'[u] \in {"idle", "init", "setup"}
    BY <1>1, <1>2, <1>3 DEF SetupProgress, StateType
  <2> QED BY <1>1, <1>2, <1>5, <2>1 DEF SetupProgress
<1>7. ASSUME NEW u \in Threads PROVE Logged(u)' /\ WritesEnabled(u)' /\ ContextsKept(u)'
  <2>1. CASE u # t
    BY <1>1, <1>3, <2>1, Bystander
  <2>2. CASE u = t
    <3>1. Logged(u)'
      BY <1>1, <1>2, <1>3, <2>2 DEF Logged
    <3>2. WritesEnabled(u)'
      BY <1>1, <1>2, <1>3, <2>2 DEF WritesEnabled
    <3>3. ContextsKept(u)'
      BY <1>1, <1>2, <1>3, <1>5, <2>2 DEF ContextsKept, ContextKept, On
    <3> QED BY <3>1, <3>2, <3>3
  <2> QED BY <2>1, <2>2
<1> QED BY <1>4, <1>6, <1>7 DEF TraceInv

LEMMA SetupStep ==
  ASSUME TraceInv, NEW t \in Threads, SetupOpen(t) \/ SetupTags(t) \/ SetupReady(t)
  PROVE  TraceInv'
<1> USE TraceAssumption DEF TraceInv, SetupOpen, SetupTags, SetupReady
<1>1. StateType'
  BY DEF StateType
<1>2. ~atrace_is_ready
  BY DEF SetupProgress
<1>3. changed' = {} /\ UNCHANGED <<pc, call, open, made, log>>
  BY <1>2 DEF SetupProgress
<1>4. \A u \in Threads : BeginPending(u)' = BeginPending(u)
  BY <1>3 DEF BeginPending
<1>5. SetupProgress'
  BY <1>3, <1>4 DEF SetupProgress, StateType
<1>6. CallsNamed'
  BY DEF CallsNamed
<1>7. ASSUME NEW u \in Threads PROVE Logged(u)' /\ WritesEnabled(u)' /\ ContextsKept(u)'
  <2>1. pc'[u] \in {"idle", "init", "setup"} /\ made'[u] = <<>> /\ log'[u] = <<>>
        /\ \A n \in 1 .. Len(open[u]) : n = 1 /\ BeginPending(u)
    BY <1>2 DEF SetupProgress
  <2>2. Logged(u)' /\ WritesEnabled(u)'
    BY <2>1, TaggedNone DEF Logged, WritesEnabled
  <2>3. ContextsKept(u)'
    BY <1>3, <1>4, <2>1 DEF ContextsKept, ContextKept
  <2> QED BY <2>2, <2>3
<1> QED BY <1>1, <1>5, <1>6, <1>7

\* The decision: nothing is written for a tag that is not enabled now.
LEMMA DecideStep ==
  ASSUME TraceInv, NEW t \in Threads, atrace_is_tag_enabled(t)
  PROVE  TraceInv'
<1> USE DEF atrace_is_tag_enabled, Goto, globals
<1> DEFINE enabled == call[t].tag \in atrace_enabled_tags
<1>1. /\ pc[t] = "tags" /\ pc' = [pc EXCEPT ![t] = IF enabled THEN "write" ELSE "return"]
      /\ UNCHANGED <<globals, call, open, made, log>>
  OBVIOUS
<1>2. StateType /\ SetupProgress /\ CallsNamed /\ Logged(t) /\ ContextsKept(t)
  BY DEF TraceInv
<1>3. /\ pc'[t] = IF enabled THEN "write" ELSE "return"
      /\ \A u \in Threads \ {t} : pc'[u] = pc[u]
  BY <1>1, <1>2 DEF StateType
<1>4. StateType' /\ CallsNamed'
  BY <1>1, <1>2, <1>3 DEF StateType, Places, CallsNamed
<1>5. atrace_is_ready /\ SetupProgress'
  BY <1>1, <1>2 DEF SetupProgress
<1>6. call[t] \in Events /\ call[t].tag \in Tags /\ call[t].kind \in {"B", "E", "C"}
  <2>1. call[t] \in Events
    BY <1>1, <1>2 DEF StateType, CallsNamed
  <2> QED BY <2>1, EventFields
<1>7. Logged(t)'
  <2>1. CASE enabled
    BY <1>1, <1>2, <1>3, <2>1 DEF Logged
  <2>2. CASE ~enabled
    <3> SUFFICES ASSUME NEW tags \in SUBSET (Tags \ changed)
                 PROVE  Tagged(log[t], tags) =
                          Tagged(Append(made[t], call[t]), tags \cap atrace_enabled_tags)
      BY <1>1, <1>3, <2>2 DEF Logged
    <3>1. Tagged(log[t], tags) = Tagged(made[t], tags \cap atrace_enabled_tags)
      BY <1>1, <1>2 DEF Logged
    <3>2. made[t] \in Seq(Events) /\ call[t].tag \notin tags \cap atrace_enabled_tags
      BY <1>2, <2>2 DEF StateType
    <3> QED BY <1>6, <3>1, <3>2, TaggedAppend
  <2> QED BY <2>1, <2>2
<1>8. WritesEnabled(t)'
  BY <1>1, <1>3 DEF WritesEnabled
<1>9. ContextsKept(t)'
  <2>1. call[t].kind # "C" =>
          /\ open[t] # <<>> /\ open[t][1].tag = call[t].tag
          /\ pc'[t] = "write" => call[t].tag \in atrace_enabled_tags
    BY <1>1, <1>2, <1>3 DEF ContextsKept
  <2>2. ASSUME NEW n \in 1 .. Len(open[t])
        PROVE  ContextKept(open[t][n], n = 1 /\ BeginPending(t), n = 1 /\ Ended(t))'
    <3>1. ContextKept(open[t][n], n = 1 /\ BeginPending(t), n = 1 /\ Ended(t))
      BY <1>2 DEF ContextsKept
    <3>2. n = 1 /\ call[t].kind # "C" => open[t][n].tag = call[t].tag
      BY <2>1
    <3>3. BeginPending(t) = (call[t].kind = "B") /\ ~Ended(t)
      BY <1>1 DEF BeginPending, Ended
    <3>4. BeginPending(t)' = (enabled /\ call[t].kind = "B") /\ Ended(t)' = (~enabled /\ call[t].kind = "E")
      BY <1>1, <1>3 DEF BeginPending, Ended
    <3> QED BY <1>1, <3>1, <3>2, <3>3, <3>4 DEF ContextKept, On
  <2> QED BY <1>1, <2>1, <2>2 DEF ContextsKept
<1>10. ASSUME NEW u \in Threads PROVE Logged(u)' /\ WritesEnabled(u)' /\ ContextsKept(u)'
  BY <1>1, <1>3, <1>7, <1>8, <1>9, Bystander
<1> QED BY <1>4, <1>5, <1>10 DEF TraceInv

\* The write: with a marker the message is one of an enabled tag, or of one
\* that was turned off meanwhile; without a marker every enabled tag is one
\* that was turned on after setup.
LEMMA WriteStep ==
  ASSUME TraceInv, NEW t \in Threads, Write(t)
  PROVE  TraceInv'
<1> USE DEF Write, Goto, globals
<1>1. /\ pc[t] = "write" /\ pc' = [pc EXCEPT ![t] = "return"]
      /\ UNCHANGED <<globals, call, made>>
  OBVIOUS
<1>2. StateType /\ SetupProgress /\ CallsNamed /\ Logged(t) /\ WritesEnabled(t) /\ ContextsKept(t)
  BY DEF TraceInv
<1>3. pc'[t] = "return" /\ \A u \in Threads \ {t} : pc'[u] = pc[u]
  BY <1>1, <1>2 DEF StateType
<1>4. /\ call[t] \in Events /\ call[t].tag \in Tags /\ call[t].kind \in {"B", "E", "C"}
      /\ open[t] \in Seq(Contexts) /\ made[t] \in Seq(Events) /\ log[t] \in Seq(Events)
  <2>1. call[t] \in Events
    BY <1>1, <1>2 DEF StateType, CallsNamed
  <2> QED BY <1>2, <2>1, EventFields DEF StateType
<1>5. atrace_is_ready /\ NotReady \notin atrace_enabled_tags
  BY <1>1, <1>2 DEF SetupProgress
<1> DEFINE wrote == atrace_marker_fd # -1
<1>6. wrote => log' = [log EXCEPT ![t] = Append(@, call[t])]
               /\ open' = [open EXCEPT ![t] = Noted(@, call[t].kind)]
  OBVIOUS
<1>7. ~wrote => log' = log /\ open' = open
  OBVIOUS
<1>8. /\ wrote => log'[t] = Append(log[t], call[t]) /\ open'[t] = Noted(open[t], call[t].kind)
      /\ \A u \in Threads \ {t} : log'[u] = log[u] /\ open'[u] = open[u]
  BY <1>2, <1>6, <1>7 DEF StateType
<1>9. ASSUME wrote, call[t].kind # "C"
      PROVE  /\ open[t] # <<>> /\ 1 \in 1 .. Len(open[t]) /\ open[t][1] \in Contexts
             /\ open'[t] = [open[t] EXCEPT ![1] =
                              [open[t][1] EXCEPT !.written = @ \cup {call[t].kind}]]
  <2>1. open[t] # <<>> /\ 1 \in 1 .. Len(open[t])
    BY <1>1, <1>2, <1>4, <1>9, NotEmptyHasLength DEF ContextsKept
  <2>2. open[t][1] \in Contexts
    BY <1>4, <2>1, ElementOfSeq
  <2> QED BY <1>8, <1>9, <2>1, <2>2 DEF Noted
<1>10. /\ open'[t] \in Seq(Contexts) /\ Len(open'[t]) = Len(open[t]) /\ Len(open[t]) \in Nat
       /\ open[t] # <<>> => open'[t] # <<>>
       /\ \A n \in 1 .. Len(open[t]) :
            /\ open[t][n] \in Contexts
            /\ open'[t][n].tag = open[t][n].tag /\ open'[t][n].switched = open[t][n].switched
            /\ open'[t][n].written =
                 IF wrote /\ n = 1 /\ call[t].kind # "C" THEN open[t][n].written \cup {call[t].kind}
                 ELSE open[t][n].written
  <2>1. Len(open[t]) \in Nat /\ \A n \in 1 .. Len(open[t]) : open[t][n] \in Contexts
    BY <1>4, ElementOfSeq, LenProperties
  <2>2. CASE ~wrote \/ call[t].kind = "C"
    <3>1. open'[t] = open[t]
      BY <1>7, <1>8, <2>2 DEF Noted
    <3> QED BY <1>4, <2>1, <2>2, <3>1
  <2>3. CASE wrote /\ call[t].kind # "C"
    <3> DEFINE c == [open[t][1] EXCEPT !.written = @ \cup {call[t].kind}]
    <3>1. open'[t] = [open[t] EXCEPT ![1] = c] /\ 1 \in 1 .. Len(open[t])
      BY <1>9, <2>3
    <3>2. /\ c \in Contexts /\ c.tag = open[t][1].tag /\ c.switched = open[t][1].switched
          /\ c.written = open[t][1].written \cup {call[t].kind}
      BY <1>4, <1>9, <2>3 DEF Contexts
    <3> HIDE DEF c
    <3>3. open'[t] \in Seq(Contexts) /\ Len(open'[t]) = Len(open[t])
      BY <1>4, <3>1, <3>2, ExceptSeq
    <3>4. \A n \in 1 .. Len(open[t]) : open'[t][n] = IF n = 1 THEN c ELSE open[t][n]
      BY <1>4, <3>1, <3>2, ExceptSeq
    <3>5. open'[t] # <<>>
      BY <2>1, <3>1, <3>3, EmptySeq
    <3> QED BY <2>1, <2>3, <3>2, <3>3, <3>4, <3>5
  <2> QED BY <2>2, <2>3
<1>11. StateType' /\ CallsNamed'
  <2>1. log' \in [Threads -> Seq(Events)]
    <3>1. Append(log[t], call[t]) \in Seq(Events)
      BY <1>4, AppendProperties
    <3> QED BY <1>2, <1>6, <1>7, <3>1 DEF StateType
  <2>2. open' \in [Threads -> Seq(Contexts)]
    BY <1>2, <1>6, <1>7, <1>8, <1>10 DEF StateType
  <2> QED BY <1>1, <1>2, <1>3, <2>1, <2>2 DEF StateType, Places, CallsNamed
<1>12. SetupProgress'
  BY <1>1, <1>2, <1>5 DEF SetupProgress
<1>13. Logged(t)'
  <2> SUFFICES ASSUME NEW tags \in SUBSET (Tags \ changed)
               PROVE  Tagged(log'[t], tags) =
                        Tagged(Append(made[t], call[t]), tags \cap atrace_enabled_tags)
    BY <1>1, <1>3 DEF Logged
  <2>1. Tagged(log[t], tags) = Tagged(made[t], tags \cap atrace_enabled_tags)
    BY <1>1, <1>2 DEF Logged
  <2>2. call[t].tag \in tags => call[t].tag \in atrace_enabled_tags
    BY <1>1, <1>2 DEF WritesEnabled
  <2>3. Tagged(Append(made[t], call[t]), tags \cap atrace_enabled_tags) =
          IF call[t].tag \in tags \cap atrace_enabled_tags
            THEN Append(Tagged(made[t], tags \cap atrace_enabled_tags), call[t])
            ELSE Tagged(made[t], tags \cap atrace_enabled_tags)
    BY <1>4, TaggedAppend
  <2>4. CASE wrote
    <3>1. Tagged(log'[t], tags) =
            IF call[t].tag \in tags THEN Append(Tagged(log[t], tags), call[t])
            ELSE Tagged(log[t], tags)
      <4>1. log'[t] = Append(log[t], call[t])
        BY <1>8, <2>4
      <4>2. Tagged(Append(log[t], call[t]), tags) =
              IF call[t].tag \in tags THEN Append(Tagged(log[t], tags), call[t])
              ELSE Tagged(log[t], tags)
        BY <1>4, TaggedAppend
      <4> QED BY <4>1, <4>2, Zenon
    <3> QED BY <2>1, <2>2, <2>3, <3>1
  <2>5. CASE ~wrote
    <3>1. call[t].tag \notin tags \cap atrace_enabled_tags
      BY <1>2, <1>5, <2>5 DEF SetupProgress
    <3> QED BY <1>7, <2>1, <2>3, <2>5, <3>1
  <2> QED BY <2>4, <2>5
<1>14. WritesEnabled(t)'
  BY <1>3 DEF WritesEnabled
<1>15. ContextsKept(t)'
  <2>1. /\ call[t].kind # "C" => open[t] # <<>> /\ open[t][1].tag = call[t].tag
        /\ call[t].kind # "C" => open[t][1].switched \/ call[t].tag \in atrace_enabled_tags
    BY <1>1, <1>2 DEF ContextsKept
  <2>2. call[t].kind # "C" => open'[t] # <<>> /\ open'[t][1].tag = call[t].tag
    BY <1>4, <1>10, <2>1, NotEmptyHasLength
  <2>3. ASSUME NEW n \in 1 .. Len(open[t])
        PROVE  ContextKept(open[t][n], n = 1 /\ BeginPending(t), n = 1 /\ Ended(t))'
    <3>1. ContextKept(open[t][n], n = 1 /\ BeginPending(t), n = 1 /\ Ended(t))
      BY <1>2 DEF ContextsKept
    <3>2. BeginPending(t) = (call[t].kind = "B") /\ ~Ended(t)
      BY <1>1 DEF BeginPending, Ended
    <3>3. ~BeginPending(t)' /\ Ended(t)' = (call[t].kind = "E")
      BY <1>1, <1>3 DEF BeginPending, Ended
    <3> DEFINE c == open[t][n]
               d == open'[t][n]
    <3>4. /\ d.tag = c.tag /\ d.switched = c.switched
          /\ d.written = IF wrote /\ n = 1 /\ call[t].kind # "C" THEN c.written \cup {call[t].kind}
                         ELSE c.written
      BY <1>10
    <3>5. n = 1 /\ call[t].kind # "C" =>
            c.tag = call[t].tag /\ (c.switched \/ call[t].tag \in atrace_enabled_tags)
      BY <2>1
    <3>6. On(c.tag) => wrote
      BY DEF On
    <3>7. n = 1 /\ call[t].kind # "C" /\ ~c.switched => (On(c.tag) <=> wrote)
      BY <3>5 DEF On
    <3>8. ContextKept(c, n = 1 /\ call[t].kind = "B", FALSE)
      BY <3>1, <3>2 DEF ContextKept
    <3> HIDE DEF c, d
    <3>9. ContextKept(d, FALSE, n = 1 /\ call[t].kind = "E")
      <4>1. CASE n = 1 /\ call[t].kind = "B"
        BY <3>4, <3>6, <3>7, <3>8, <4>1 DEF ContextKept
      <4>2. CASE n = 1 /\ call[t].kind = "E"
        BY <3>4, <3>6, <3>7, <3>8, <4>2 DEF ContextKept
      <4>3. CASE ~(n = 1 /\ call[t].kind \in {"B", "E"})
        BY <1>4, <3>4, <3>6, <3>8, <4>3 DEF ContextKept
      <4> QED BY <4>1, <4>2, <4>3
    <3> QED BY <1>1, <3>3, <3>9 DEF ContextKept, On, d
  <2> QED BY <1>1, <1>3, <1>10, <2>2, <2>3 DEF ContextsKept
<1>16. ASSUME NEW u \in Threads PROVE Logged(u)' /\ WritesEnabled(u)' /\ ContextsKept(u)'
  BY <1>1, <1>3, <1>8, <1>13, <1>14, <1>15, Bystander
<1> QED BY <1>11, <1>12, <1>16 DEF TraceInv

\* The return: the innermost context is closed by an 'E'.
LEMMA ReturnStep ==
  ASSUME TraceInv, NEW t \in Threads, Return(t)
  PROVE  TraceInv'
<1> USE DEF Return, Goto, globals
<1>1. /\ pc[t] = "return" /\ pc' = [pc EXCEPT ![t] = "idle"]
      /\ call' = [call EXCEPT ![t] = NoCall]
      /\ made' = [made EXCEPT ![t] = Append(@, call[t])]
      /\ open' = [open EXCEPT ![t] = IF call[t].kind = "E" THEN Tail(@) ELSE @]
      /\ UNCHANGED <<globals, log>>
  OBVIOUS
<1>2. StateType /\ SetupProgress /\ CallsNamed /\ Logged(t) /\ ContextsKept(t)
  BY DEF TraceInv
<1>3. /\ pc'[t] = "idle" /\ call'[t] = NoCall /\ made'[t] = Append(made[t], call[t])
      /\ open'[t] = IF call[t].kind = "E" THEN Tail(open[t]) ELSE open[t]
      /\ \A u \in Threads \ {t} : /\ pc'[u] = pc[u] /\ call'[u] = call[u]
                                  /\ made'[u] = made[u] /\ open'[u] = open[u]
  BY <1>1, <1>2 DEF StateType
<1>4. /\ call[t] \in Events /\ call[t].kind \in {"B", "E", "C"}
      /\ open[t] \in Seq(Contexts) /\ made[t] \in Seq(Events)
  <2>1. call[t] \in Events
    BY <1>1, <1>2 DEF StateType, CallsNamed
  <2> QED BY <1>2, <2>1, EventFields DEF StateType
<1>5. atrace_is_ready
  BY <1>1, <1>2 DEF SetupProgress
<1>6. /\ open'[t] \in Seq(Contexts)
      /\ \A n \in 1 .. Len(open'[t]) :
           \E m \in 1 .. Len(open[t]) : /\ open'[t][n] = open[t][m]
                                        /\ ~(m = 1 /\ Ended(t))
  <2>1. Len(open[t]) \in Nat
    BY <1>4, LenProperties
  <2>2. CASE call[t].kind # "E"
    BY <1>3, <1>4, <2>1, <2>2 DEF Ended
  <2>3. CASE call[t].kind = "E"
    <3>1. open[t] # <<>>
      BY <1>1, <1>2, <2>3 DEF ContextsKept
    <3>2. /\ Tail(open[t]) \in Seq(Contexts) /\ Len(Tail(open[t])) = Len(open[t]) - 1
          /\ \A n \in 1 .. Len(Tail(open[t])) : Tail(open[t])[n] = open[t][n + 1]
      BY <1>4, <3>1, HeadTailProperties
    <3>3. \A n \in 1 .. Len(open[t]) - 1 : n + 1 \in 1 .. Len(open[t]) /\ n + 1 # 1
      BY <2>1
    <3>4. open'[t] = Tail(open[t])
      BY <1>3, <2>3
    <3> QED BY <3>2, <3>3, <3>4
  <2> QED BY <2>2, <2>3
<1>7. StateType'
  <2>1. made' \in [Threads -> Seq(Events)]
    <3>1. Append(made[t], call[t]) \in Seq(Events)
      BY <1>4, AppendProperties
    <3> QED BY <1>1, <1>2, <3>1 DEF StateType
  <2>2. open' \in [Threads -> Seq(Contexts)]
    BY <1>1, <1>2, <1>3, <1>6 DEF StateType
  <2>3. call' \in [Threads -> Events \cup {NoCall}] /\ pc' \in [Threads -> Places]
    BY <1>1, <1>2 DEF StateType, Places
  <2> QED BY <1>1, <1>2, <2>1, <2>2, <2>3 DEF StateType
<1>8. CallsNamed'
  BY <1>2, <1>3 DEF CallsNamed
<1>9. SetupProgress'
  BY <1>1, <1>2, <1>5 DEF SetupProgress
<1>10. Logged(t)' /\ WritesEnabled(t)'
  BY <1>1, <1>2, <1>3 DEF Logged, WritesEnabled
<1>11. ContextsKept(t)'
  <2>1. ASSUME NEW n \in 1 .. Len(open'[t])
        PROVE  ContextKept(open[t][n], n = 1 /\ BeginPending(t), n = 1 /\ Ended(t))'
    <3>1. PICK m \in 1 .. Len(open[t]) : open'[t][n] = open[t][m] /\ ~(m = 1 /\ Ended(t))
      BY <1>6
    <3>2. ContextKept(open[t][m], m = 1 /\ BeginPending(t), m = 1 /\ Ended(t))
      BY <1>2 DEF ContextsKept
    <3>3. ~BeginPending(t) /\ ~BeginPending(t)' /\ ~Ended(t)'
      BY <1>1, <1>3 DEF BeginPending, Ended
    <3> QED BY <1>1, <3>1, <3>2, <3>3 DEF ContextKept, On
  <2> QED BY <1>3, <2>1 DEF ContextsKept
<1>12. ASSUME NEW u \in Threads PROVE Logged(u)' /\ WritesEnabled(u)' /\ ContextsKept(u)'
  BY <1>1, <1>3, <1>10, <1>11, Bystander
<1> QED BY <1>7, <1>8, <1>9, <1>12 DEF TraceInv

LEMMA TraceInvStep == TraceInv /\ [Next]_vars => TraceInv'
<1> SUFFICES ASSUME TraceInv, [Next]_vars PROVE TraceInv'
  OBVIOUS
<1>1. CASE atrace_update_tags
  BY <1>1, UpdateStep
<1>2. ASSUME NEW t \in Threads, atrace_begin(t) \/ atrace_end(t) \/ atrace_int(t)
      PROVE  TraceInv'
  BY <1>2, CallStep
<1>3. ASSUME NEW t \in Threads, Proceed(t) PROVE TraceInv'
  BY <1>3, InitStep, SetupStep, DecideStep, WriteStep, ReturnStep DEF Proceed, atrace_setup
<1>4. CASE UNCHANGED vars
  <2>1. StateType /\ SetupProgress /\ CallsNamed
    BY DEF TraceInv
  <2>2. StateType' /\ CallsNamed'
    BY <1>4, <2>1 DEF vars, StateType, CallsNamed
  <2>3. SetupProgress'
    BY <1>4, <2>1 DEF vars, SetupProgress, BeginPending
  <2>4. ASSUME NEW u \in Threads PROVE Logged(u)' /\ WritesEnabled(u)' /\ ContextsKept(u)'
    BY <1>4, Bystander DEF vars
  <2> QED BY <2>2, <2>3, <2>4 DEF TraceInv
<1> QED BY <1>1, <1>2, <1>3, <1>4 DEF Next

LEMMA TraceInvariance == Spec => []TraceInv
BY TraceInvInit, TraceInvStep, PTL DEF Spec
-----------------------------------------------------------------------------
(* The theorems.                                                           *)

\* Whatever the threads call, however many they are, whoever runs setup and
\* whatever becomes of it, and however the mask changes after that: of the
\* tags that were not turned on or off after setup, the messages of a thread
\* at the marker are its calls with enabled tags, in order.
THEOREM LogMatchesCallsHolds == Spec => []LogMatchesCalls
<1>1. TraceInv => LogMatchesCalls
  <2> SUFFICES ASSUME TraceInv, NEW t \in Threads, pc[t] = "idle"
               PROVE  Tagged(log[t], Tags \ changed) = Tagged(made[t], atrace_enabled_tags \ changed)
    BY DEF LogMatchesCalls
  <2>1. StateType /\ SetupProgress /\ Logged(t)
    BY DEF TraceInv
  <2>2. CASE ~atrace_is_ready
    BY <2>1, <2>2, TaggedNone DEF SetupProgress
  <2>3. CASE atrace_is_ready
    <3>1. (Tags \ changed) \cap atrace_enabled_tags = atrace_enabled_tags \ changed
      BY <2>1, <2>3 DEF StateType, SetupProgress
    <3>2. Tagged(log[t], Tags \ changed) =
            Tagged(made[t], (Tags \ changed) \cap atrace_enabled_tags)
      BY <2>1 DEF Logged
    <3> QED BY <3>1, <3>2
  <2> QED BY <2>1, <2>2, <2>3 DEF StateType
<1> QED BY <1>1, TraceInvariance, PTL

\* Every context, in any nesting and beside any other thread, has both of its
\* messages at the marker or none, unless its own tag was turned on or off
\* between its begin and its end; and also when its begin ran setup, waited
\* for it, or found that it had failed.
THEOREM ContextsComeInPairsHolds == Spec => []ContextsComeInPairs
<1>1. TraceInv => ContextsComeInPairs
  <2> SUFFICES ASSUME TraceInv, NEW t \in Threads, pc[t] = "return", call[t].kind = "E",
                      ~open[t][1].switched
               PROVE  open[t][1].written \in {{}, {"B", "E"}}
    BY DEF ContextsComeInPairs
  <2>1. StateType /\ ContextsKept(t)
    BY DEF TraceInv
  <2>2. 1 \in 1 .. Len(open[t]) /\ open[t][1] \in Contexts
    <3>1. open[t] \in Seq(Contexts) /\ open[t] # <<>>
      BY <2>1 DEF StateType, ContextsKept
    <3> QED BY <3>1, NotEmptyHasLength, ElementOfSeq
  <2>3. Ended(t) /\ ~BeginPending(t)
    BY DEF Ended, BeginPending
  <2>4. ContextKept(open[t][1], FALSE, TRUE)
    BY <2>1, <2>2, <2>3 DEF ContextsKept, ContextKept
  <2>5. "B" \in open[t][1].written <=> "E" \in open[t][1].written
    BY <2>4 DEF ContextKept
  <2> QED BY <2>2, <2>5 DEF Contexts
<1> QED BY <1>1, TraceInvariance, PTL
=============================================================================
