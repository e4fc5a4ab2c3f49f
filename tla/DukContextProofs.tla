------------------------ MODULE DukContextProofs ------------------------
(***************************************************************************)
(* Theorems about DukContext, for any scripts, events, lengths of streams  *)
(* and limit of the stack: first where plays do not overlap, as in the     *)
(* shell and in a server that gets one Play request at a time, and in the  *)
(* last section for any number of threads, whose plays share the stack.    *)
(***************************************************************************)
EXTENDS DukContext, SequenceTheorems, TLAPS

\* Plays do not overlap.
OneThread == \A t, u \in Thread : t = u

Calls == {<<f, EventArg(e)>> : f \in Defining, e \in Event}
States == {StateArg(h) : h \in Seq(Calls)}
Entry == Slots \cup States

Job == [at : Places \ {"idle"}, script : Script, events : Seq(Event), done : Nat,
        state : Seq(Calls), base : Seq(Entry)]

---------------------------------------------------------------------------
(* The inductive invariant: what a play has put above its base, place by   *)
(* place.  Lookup pushes the function twice, every call uses up one entry  *)
(* more than it was given, so that the third finds the global object.      *)

\* Below the event and the state of call n + 1, and below its callee.
Left(f, n) == IF n = 0 THEN <<Global, Function(f), Function(f)>>
              ELSE IF n = 1 THEN <<Global, Function(f)>>
              ELSE <<Global>>
Below(f, n) == IF n = 0 THEN <<Global, Function(f)>>
               ELSE IF n = 1 THEN <<Global>>
               ELSE <<>>
CalleeAt(f, n) == IF n = 2 THEN Global ELSE Function(f)

Folded(f, j, n) == [i \in 1..n |-> <<f, EventArg(j.events[i])>>]

\* A loop that has called f "done" times.
Rounds(j, f) ==
    /\ j.done \in 0..2
    /\ j.state = Folded(f, j, j.done)
    /\ j.script \in Defining => f = j.script
    /\ j.at = "push" =>
          /\ j.done < Len(j.events)
          /\ stack = j.base \o Left(f, j.done)
    /\ j.at = "call" =>
          /\ j.done < Len(j.events)
          /\ stack = (j.base \o Below(f, j.done))
                         \o <<CalleeAt(f, j.done), EventArg(j.events[j.done + 1]),
                              StateArg(j.state)>>
    /\ j.at = "finish" =>
          /\ j.done = Len(j.events) /\ j.done # 0
          /\ stack = j.base \o Left(f, j.done)

Placed(j) ==
    /\ j.at = "read" => stack = j.base /\ j.done = 0 /\ j.state = <<>>
    /\ j.at = "lookup" =>
          /\ stack = j.base \o <<Global>> /\ j.done = 0 /\ j.state = <<>>
          /\ j.events # <<>>
          /\ j.script \in Defining => defined = {j.script}
    /\ j.at \in {"push", "call", "finish"} =>
          \E f \in Defining : defined = {f} /\ Rounds(j, f)
    /\ j.at = "ok" =>
          /\ stack = j.base \o IF Len(j.events) = 2 THEN <<>> ELSE <<Global>>
          /\ \E f \in Script :
                /\ j.state = Folded(f, j, Len(j.events))
                /\ f \in Defining \/ j.events = <<>>
                /\ j.script \in Defining => f = j.script
    /\ j.at = "failed" =>
          \E top \in Seq(Entry) :
              stack = j.base \o top /\ Len(top) \in 2..4 /\ top[1] \in {Global, Error}

PlayInv ==
    /\ up \in BOOLEAN
    /\ stack \in Seq(Entry)
    /\ Len(stack) <= StackLimit
    /\ defined \in {{}} \cup {{f} : f \in Defining}
    /\ job \in [Thread -> {Idle} \cup Job]
    /\ \A t \in Thread : job[t] # Idle => Placed(job[t])

---------------------------------------------------------------------------
(* Entries and stacks.                                                     *)

LEMMA Entries ==
    /\ Global \in Entry /\ Error \in Entry /\ Text \in Entry /\ Undefined \in Entry
    /\ \A f \in Defining : Function(f) \in Entry
    /\ \A e \in Event : EventArg(e) \in Entry
    /\ \A h \in Seq(Calls) : StateArg(h) \in Entry
BY DEF Entry, Slots, States

LEMMA Kinds ==
    /\ ~IsFunction(Global)
    /\ \A f : IsFunction(Function(f)) /\ Function(f).of = f
    /\ \A h : StateArg(h).kind = "state" /\ StateArg(h).of = h
BY DEF IsFunction, Function, Global, StateArg

LEMMA Tops ==
    ASSUME NEW x \in Entry, NEW y \in Entry, NEW z \in Entry
    PROVE  /\ <<>> \in Seq(Entry) /\ Len(<<>>) = 0
           /\ <<x>> \in Seq(Entry) /\ Len(<<x>>) = 1
           /\ <<x, y>> \in Seq(Entry) /\ Len(<<x, y>>) = 2
           /\ <<x, y, z>> \in Seq(Entry) /\ Len(<<x, y, z>>) = 3
OBVIOUS

LEMMA OneAndOne ==
    ASSUME NEW x \in Entry, NEW y \in Entry
    PROVE  <<x>> \o <<y>> = <<x, y>>
<1>. DEFINE s == <<x>> \o <<y>>
<1>1. /\ s \in Seq(Entry) /\ Len(s) = 2
      /\ \A i \in 1..2 : s[i] = <<x, y>>[i]
  BY Tops, ConcatProperties
<1>2. \A t \in Seq(Entry) : Len(t) = 2 => t = <<t[1], t[2]>>
  OBVIOUS
<1>. HIDE DEF s
<1>3. s = <<x, y>>
  BY <1>1, <1>2
<1>. QED
  BY <1>3 DEF s

LEMMA OneAndTwo ==
    ASSUME NEW x \in Entry, NEW y \in Entry, NEW z \in Entry
    PROVE  <<x>> \o <<y, z>> = <<x, y, z>>
<1>. DEFINE s == <<x>> \o <<y, z>>
<1>1. /\ s \in Seq(Entry) /\ Len(s) = 3
      /\ \A i \in 1..3 : s[i] = <<x, y, z>>[i]
  BY Tops, ConcatProperties
<1>2. \A t \in Seq(Entry) : Len(t) = 3 => t = <<t[1], t[2], t[3]>>
  OBVIOUS
<1>. HIDE DEF s
<1>3. s = <<x, y, z>>
  BY <1>1, <1>2
<1>. QED
  BY <1>3 DEF s

LEMMA Associative ==
    ASSUME NEW a \in Seq(Entry), NEW b \in Seq(Entry), NEW c \in Seq(Entry)
    PROVE  (a \o b) \o c = a \o (b \o c)
BY ConcatAssociative

LEMMA OneOnTop ==
    ASSUME NEW b \in Seq(Entry), NEW x \in Entry
    PROVE  /\ b \o <<x>> \in Seq(Entry)
           /\ b \o <<x>> = Append(b, x)
           /\ Len(b \o <<x>>) = Len(b) + 1
           /\ Front(b \o <<x>>) = b
           /\ b \o <<x>> # <<>>
<1>1. <<x>> \in Seq(Entry) /\ Len(<<x>>) = 1 /\ Len(b) \in Nat
  BY Tops, LenProperties
<1>2. b \o <<x>> \in Seq(Entry) /\ Len(b \o <<x>>) = Len(b) + 1
  BY <1>1, ConcatProperties
<1>3. \A i \in 1..Len(b) : (b \o <<x>>)[i] = b[i]
  BY <1>1, ConcatProperties
<1>4. /\ SubSeq(b \o <<x>>, 1, Len(b)) \in Seq(Entry)
      /\ Len(SubSeq(b \o <<x>>, 1, Len(b))) = Len(b)
      /\ \A i \in 1..Len(b) : SubSeq(b \o <<x>>, 1, Len(b))[i] = (b \o <<x>>)[i]
  BY <1>1, <1>2, <1>3, SubSeqProperties, ElementOfSeq
<1>5. SubSeq(b \o <<x>>, 1, Len(b)) = b
  BY <1>3, <1>4, SeqEqual
<1>. QED
  BY <1>1, <1>2, <1>5, AppendIsConcat, EmptySeq DEF Front

LEMMA ThreeOnTop ==
    ASSUME NEW b \in Seq(Entry), NEW x \in Entry, NEW y \in Entry, NEW z \in Entry,
           NEW s, s = b \o <<x, y, z>>
    PROVE  /\ s \in Seq(Entry) /\ Len(s) = Len(b) + 3
           /\ s[Len(s) - 2] = x /\ s[Len(s) - 1] = y /\ s[Len(s)] = z
           /\ SubSeq(s, 1, Len(s) - 3) = b
<1>1. <<x, y, z>> \in Seq(Entry) /\ Len(<<x, y, z>>) = 3 /\ Len(b) \in Nat
  BY Tops, LenProperties
<1>2. s \in Seq(Entry) /\ Len(s) = Len(b) + 3
  BY <1>1, ConcatProperties
<1>3. \A i \in 1..Len(b) + 3 : s[i] = IF i <= Len(b) THEN b[i] ELSE <<x, y, z>>[i - Len(b)]
  BY <1>1, ConcatProperties
<1>4. s[Len(b) + 1] = x /\ s[Len(b) + 2] = y /\ s[Len(b) + 3] = z
  BY <1>1, <1>3
<1>5. /\ SubSeq(s, 1, Len(b)) \in Seq(Entry)
      /\ Len(SubSeq(s, 1, Len(b))) = Len(b)
      /\ \A i \in 1..Len(b) : SubSeq(s, 1, Len(b))[i] = s[i]
  BY <1>1, <1>2, <1>3, SubSeqProperties, ElementOfSeq
<1>6. SubSeq(s, 1, Len(b)) = b
  BY <1>1, <1>3, <1>5, SeqEqual
<1>7. Len(s) - 2 = Len(b) + 1 /\ Len(s) - 1 = Len(b) + 2 /\ Len(s) - 3 = Len(b)
  BY <1>1, <1>2
<1>. QED
  BY <1>2, <1>4, <1>6, <1>7

\* The arguments of a call make three entries of what Left says.
LEMMA ThreeForACall ==
    ASSUME NEW b \in Seq(Entry), NEW f \in Defining, NEW n \in 0..2,
           NEW x \in Entry, NEW y \in Entry
    PROVE  /\ (b \o Left(f, n)) \o <<x, y>> = (b \o Below(f, n)) \o <<CalleeAt(f, n), x, y>>
           /\ b \o Below(f, n) \in Seq(Entry)
           /\ CalleeAt(f, n) \in Entry
<1>1. /\ Global \in Entry /\ Function(f) \in Entry
  BY Entries
<1>2. Left(f, n) \in Seq(Entry) /\ Below(f, n) \in Seq(Entry) /\ CalleeAt(f, n) \in Entry
  BY <1>1, Tops DEF Left, Below, CalleeAt
<1>3. Left(f, n) \o <<x, y>> = Below(f, n) \o <<CalleeAt(f, n), x, y>>
  <2>. DEFINE g == Function(f)
  <2>1. CASE n = 0
    <3>1. <<Global, g, g>> \o <<x, y>> = <<Global, g>> \o <<g, x, y>>
      BY <1>1
    <3>. QED
      BY <2>1, <3>1 DEF Left, Below, CalleeAt
  <2>2. CASE n = 1
    <3>1. <<Global, g>> \o <<x, y>> = <<Global>> \o <<g, x, y>>
      BY <1>1
    <3>. QED
      BY <2>2, <3>1 DEF Left, Below, CalleeAt
  <2>3. CASE n = 2
    <3>1. <<Global>> \o <<x, y>> = <<Global, x, y>>
      BY <1>1, OneAndTwo
    <3>2. <<>> \o <<Global, x, y>> = <<Global, x, y>>
      BY <1>1, Tops, ConcatEmptySeq
    <3>. QED
      BY <2>3, <3>1, <3>2 DEF Left, Below, CalleeAt
  <2>4. n = 0 \/ n = 1 \/ n = 2
    OBVIOUS
  <2>. QED
    BY <2>1, <2>2, <2>3, <2>4
<1>4. <<x, y>> \in Seq(Entry) /\ <<CalleeAt(f, n), x, y>> \in Seq(Entry)
  BY <1>2, Tops
<1>5. (b \o Left(f, n)) \o <<x, y>> = (b \o Below(f, n)) \o <<CalleeAt(f, n), x, y>>
  <2>1. (b \o Left(f, n)) \o <<x, y>> = b \o (Left(f, n) \o <<x, y>>)
    BY <1>2, <1>4, Associative
  <2>2. (b \o Below(f, n)) \o <<CalleeAt(f, n), x, y>>
          = b \o (Below(f, n) \o <<CalleeAt(f, n), x, y>>)
    BY <1>2, <1>4, Associative
  <2>. QED
    BY <1>3, <2>1, <2>2
<1>6. b \o Below(f, n) \in Seq(Entry)
  BY <1>2, ConcatProperties
<1>. QED
  BY <1>2, <1>5, <1>6

\* A call that returns leaves what the next one finds.
LEMMA LeftNext ==
    ASSUME NEW f, NEW n \in 0..1
    PROVE  Left(f, n + 1) = Below(f, n)
BY DEF Left, Below

---------------------------------------------------------------------------
(* Jobs.                                                                   *)

LEMMA StreamsAreSequences ==
    ASSUME NEW es \in Streams
    PROVE  es \in Seq(Event)
BY ScriptAssumption DEF Streams

\* What is known of a request that was made.
LEMMA JobOf ==
    ASSUME PlayInv, NEW t \in Thread, job[t].at # "idle"
    PROVE  /\ job[t] \in Job /\ Placed(job[t])
           /\ job[t].script \in Script /\ job[t].base \in Seq(Entry)
           /\ job[t].state \in Seq(Calls) /\ job[t].done \in Nat
           /\ job[t].events \in Seq(Event) /\ Len(job[t].events) \in Nat
           /\ \A i \in 1..Len(job[t].events) : job[t].events[i] \in Event
<1>1. job[t] \in Job /\ Placed(job[t])
  BY DEF PlayInv, Idle
<1>2. /\ job[t].script \in Script /\ job[t].base \in Seq(Entry)
      /\ job[t].state \in Seq(Calls) /\ job[t].done \in Nat /\ job[t].events \in Seq(Event)
  BY <1>1 DEF Job
<1>. QED
  BY <1>1, <1>2, LenProperties, ElementOfSeq

LEMMA GotoJob ==
    ASSUME PlayInv, NEW t \in Thread, job[t].at # "idle",
           NEW place \in Places \ {"idle"}, Goto(t, place)
    PROVE  \E k \in Job :
              /\ job' = [job EXCEPT ![t] = k]
              /\ k.at = place
              /\ k.script = job[t].script /\ k.events = job[t].events
              /\ k.done = job[t].done /\ k.state = job[t].state /\ k.base = job[t].base
<1>. DEFINE j == job[t]
            k == [at |-> place, script |-> j.script, events |-> j.events, done |-> j.done,
                  state |-> j.state, base |-> j.base]
<1>1. j \in Job
  BY JobOf
<1>2. k \in Job
  BY <1>1 DEF Job
<1>3. k = [j EXCEPT !.at = place]
  BY <1>1 DEF Job
<1>4. job' = [job EXCEPT ![t] = k]
  BY <1>3 DEF Goto
<1>. QED
  BY <1>2, <1>4

\* A step of the one thread, to a job k that is where it should be.
LEMMA StepTo ==
    ASSUME OneThread, PlayInv, NEW t \in Thread,
           NEW k \in Job, job' = [job EXCEPT ![t] = k], Placed(k)',
           up' \in BOOLEAN, stack' \in Seq(Entry), Len(stack') <= StackLimit,
           defined' \in {{}} \cup {{f} : f \in Defining}
    PROVE  PlayInv'
<1>1. job' \in [Thread -> {Idle} \cup Job] /\ \A x \in Thread : job'[x] = k
  BY DEF PlayInv, OneThread
<1>2. ASSUME NEW x \in Thread PROVE Placed(job[x])'
  BY <1>1
<1>. QED
  BY <1>1, <1>2 DEF PlayInv

LEMMA FailedWith ==
    ASSUME NEW k, k.at = "failed", NEW top \in Seq(Entry),
           stack' = k.base \o top, Len(top) \in 2..4, top[1] \in {Global, Error}
    PROVE  Placed(k)'
<1>1. \E above \in Seq(Entry) :
          stack' = k.base \o above /\ Len(above) \in 2..4 /\ above[1] \in {Global, Error}
  OBVIOUS
<1>. QED
  BY <1>1 DEF Placed

LEMMA InitPlayInv == Init => PlayInv
<1>. SUFFICES ASSUME Init PROVE PlayInv
  OBVIOUS
<1>1. <<>> \in Seq(Entry) /\ Len(<<>>) = 0
  BY EmptySeq
<1>. QED
  BY <1>1, ScriptAssumption DEF Init, PlayInv

LEMMA PlayStep ==
    ASSUME OneThread, PlayInv, NEW t \in Thread, NEW s \in Script, NEW es \in Seq(Event),
           Play(t, s, es)
    PROVE  PlayInv'
<1>. PICK k : k = [at |-> "read", script |-> s, events |-> es, done |-> 0, state |-> <<>>,
                  base |-> stack]
  OBVIOUS
<1>1. k \in Job
  <2>1. <<>> \in Seq(Calls)
    BY EmptySeq
  <2>. QED
    BY <2>1 DEF Job, Places, PlayInv
<1>2. job' = [job EXCEPT ![t] = k] /\ UNCHANGED <<up, stack, defined>>
  BY DEF Play
<1>3. Placed(k)'
  <2>1. k.at = "read" /\ k.base = stack' /\ k.done = 0 /\ k.state = <<>>
    BY <1>2
  <2>. QED
    BY <2>1 DEF Placed
<1>4. /\ up' \in BOOLEAN /\ stack' \in Seq(Entry) /\ Len(stack') <= StackLimit
      /\ defined' \in {{}} \cup {{f} : f \in Defining}
  BY <1>2 DEF PlayInv
<1>. QED
  BY <1>1, <1>2, <1>3, <1>4, StepTo

LEMMA ReadStep ==
    ASSUME OneThread, PlayInv, NEW t \in Thread, Read(t)
    PROVE  PlayInv'
<1>. DEFINE j == job[t]
<1>1. /\ j.at = "read" /\ stack = j.base /\ j.done = 0 /\ j.state = <<>>
      /\ j.base \in Seq(Entry) /\ j.script \in Script /\ j.events \in Seq(Event)
      /\ Len(j.events) \in Nat
  BY JobOf DEF Read, Placed
<1>2. defined' \in {{}} \cup {{f} : f \in Defining} /\ UNCHANGED up
  BY DEF Read, PlayInv
<1>3. Len(stack) + Need(t) <= StackLimit
  BY DEF Read, Fits
<1>4. CASE j.script \notin Broken
  <2>1. stack' = j.base \o <<Global>>
    BY <1>1, <1>4, Entries, OneOnTop DEF Read
  <2>2. stack' \in Seq(Entry) /\ Len(stack') = Len(stack) + 1
    BY <1>1, <2>1, Entries, OneOnTop
  <2>3. Need(t) = 1
    BY <1>1, <1>4 DEF Need
  <2>4. CASE j.events # <<>>
    <3>1. PICK k \in Job : /\ job' = [job EXCEPT ![t] = k]
                           /\ k.at = "lookup"
                           /\ k.script = j.script /\ k.events = j.events
                           /\ k.done = j.done /\ k.state = j.state /\ k.base = j.base
      <4>1. Goto(t, "lookup") /\ "lookup" \in Places \ {"idle"}
        BY <1>1, <1>4, <2>4 DEF Read, Places
      <4>2. j.at # "idle"
        BY <1>1
      <4>. QED
        BY <4>1, <4>2, GotoJob
    <3>2. Placed(k)'
      <4>1. j.script \in Defining => defined' = {j.script}
        BY DEF Read
      <4>2. /\ k.at = "lookup" /\ stack' = k.base \o <<Global>>
            /\ k.done = 0 /\ k.state = <<>> /\ k.events # <<>>
            /\ k.script \in Defining => defined' = {k.script}
        BY <1>1, <2>1, <2>4, <3>1, <4>1
      <4>. QED
        BY <4>2 DEF Placed
    <3>. QED
      BY <1>2, <1>3, <2>2, <2>3, <3>1, <3>2, StepTo DEF PlayInv
  <2>5. CASE j.events = <<>>
    <3>1. PICK k \in Job : /\ job' = [job EXCEPT ![t] = k]
                           /\ k.at = "ok"
                           /\ k.script = j.script /\ k.events = j.events
                           /\ k.done = j.done /\ k.state = j.state /\ k.base = j.base
      <4>1. Goto(t, "ok") /\ "ok" \in Places \ {"idle"}
        BY <1>1, <1>4, <2>5 DEF Read, Places, Answered
      <4>2. j.at # "idle"
        BY <1>1
      <4>. QED
        BY <4>1, <4>2, GotoJob
    <3>2. k.state = Folded(k.script, k, Len(k.events))
      BY <1>1, <2>5, <3>1 DEF Folded
    <3>3. Placed(k)'
      BY <1>1, <2>1, <2>5, <3>1, <3>2 DEF Placed, Folded
    <3>. QED
      BY <1>2, <1>3, <2>2, <2>3, <3>1, <3>3, StepTo DEF PlayInv
  <2>. QED
    BY <2>4, <2>5
<1>5. CASE j.script \in Broken
  <2>1. stack' = j.base \o <<Error, Text>>
    BY <1>1, <1>5 DEF Read
  <2>2. <<Error, Text>> \in Seq(Entry) /\ Len(<<Error, Text>>) = 2
    BY Entries, Tops
  <2>3. stack' \in Seq(Entry) /\ Len(stack') = Len(stack) + 2
    BY <1>1, <2>1, <2>2, ConcatProperties
  <2>4. Need(t) = 2
    BY <1>1, <1>5 DEF Need
  <2>5. PICK k \in Job : job' = [job EXCEPT ![t] = k] /\ k.at = "failed" /\ k.base = j.base
    BY <1>1, <1>5, GotoJob DEF Read, Places, Answered
  <2>6. Placed(k)'
    <3>. PICK top : top = <<Error, Text>>
      OBVIOUS
    <3>1. /\ top \in Seq(Entry) /\ stack' = k.base \o top /\ Len(top) \in 2..4
          /\ top[1] \in {Global, Error}
      BY <2>1, <2>2, <2>5
    <3>. QED
      BY <2>5, <3>1, FailedWith
  <2>. QED
    BY <1>2, <1>3, <2>3, <2>4, <2>5, <2>6, StepTo DEF PlayInv
<1>. QED
  BY <1>4, <1>5

LEMMA LookupStep ==
    ASSUME OneThread, PlayInv, NEW t \in Thread, Lookup(t)
    PROVE  PlayInv'
<1>. DEFINE j == job[t]
<1>1. /\ j.at = "lookup" /\ stack = j.base \o <<Global>> /\ j.done = 0 /\ j.state = <<>>
      /\ j.events # <<>> /\ (j.script \in Defining => defined = {j.script})
      /\ j.base \in Seq(Entry) /\ j.events \in Seq(Event) /\ Len(j.events) \in Nat
  BY JobOf DEF Lookup, Placed
<1>2. stack # <<>> /\ stack \in Seq(Entry) /\ Len(stack) \in Nat
  BY <1>1, Entries, OneOnTop, LenProperties
<1>3. Len(stack) + Need(t) <= StackLimit /\ UNCHANGED <<up, defined>>
  BY DEF Lookup, Fits
<1>4. CASE Found
  <2>1. PICK f \in Defining :
            defined = {f} /\ stack' = stack \o <<Function(f), Function(f)>>
    BY <1>4 DEF Lookup, Found, PlayInv
  <2>2. Function(f) \in Entry /\ Global \in Entry
    BY Entries
  <2>3. <<Function(f), Function(f)>> \in Seq(Entry) /\ Len(<<Function(f), Function(f)>>) = 2
    BY <2>2, Tops
  <2>4. stack' \in Seq(Entry) /\ Len(stack') = Len(stack) + 2
    BY <1>2, <2>1, <2>3, ConcatProperties
  <2>5. stack' = j.base \o Left(f, 0)
    <3>1. stack' = j.base \o (<<Global>> \o <<Function(f), Function(f)>>)
      BY <1>1, <2>1, <2>2, <2>3, Tops, Associative
    <3>2. <<Global>> \o <<Function(f), Function(f)>> = Left(f, 0)
      BY <2>2, OneAndTwo DEF Left
    <3>. QED
      BY <3>1, <3>2
  <2>6. Need(t) = 2
    BY <1>1, <1>4 DEF Need
  <2>7. PICK k \in Job : /\ job' = [job EXCEPT ![t] = k]
                         /\ k.at = "push"
                         /\ k.script = j.script /\ k.events = j.events
                         /\ k.done = j.done /\ k.state = j.state /\ k.base = j.base
    <3>1. Goto(t, "push") /\ "push" \in Places \ {"idle"}
      BY <1>4 DEF Lookup, Places
    <3>. QED
      BY <1>1, <3>1, GotoJob
  <2>8. Rounds(k, f)'
    <3>1. k.state = Folded(f, k, k.done)
      BY <1>1, <2>7 DEF Folded
    <3>2. k.done < Len(k.events)
      BY <1>1, <2>7, EmptySeq
    <3>3. k.done \in 0..2 /\ k.base \o Left(f, k.done) = j.base \o Left(f, 0)
      BY <1>1, <2>7
    <3>4. k.script \in Defining => f = k.script
      BY <1>1, <2>1, <2>7
    <3>. QED
      BY <2>5, <2>7, <3>1, <3>2, <3>3, <3>4 DEF Rounds
  <2>9. Placed(k)'
    BY <1>3, <2>1, <2>7, <2>8 DEF Placed
  <2>. QED
    BY <1>2, <1>3, <2>4, <2>6, <2>7, <2>9, StepTo DEF PlayInv
<1>5. CASE ~Found
  <2>1. stack' = Append(stack, Undefined)
    BY <1>2, <1>5 DEF Lookup
  <2>2. <<Global, Undefined>> \in Seq(Entry) /\ Len(<<Global, Undefined>>) = 2
    BY Entries, Tops
  <2>3. stack' = j.base \o <<Global, Undefined>>
    <3>1. stack' = (j.base \o <<Global>>) \o <<Undefined>>
      BY <1>1, <1>2, <2>1, Entries, AppendIsConcat
    <3>2. stack' = j.base \o (<<Global>> \o <<Undefined>>)
      BY <1>1, <3>1, Entries, Tops, Associative
    <3>. QED
      BY <3>2
  <2>4. stack' \in Seq(Entry) /\ Len(stack') = Len(stack) + 1
    BY <1>2, <2>1, Entries, AppendProperties
  <2>5. Need(t) = 1
    BY <1>1, <1>5 DEF Need
  <2>6. PICK k \in Job : job' = [job EXCEPT ![t] = k] /\ k.at = "failed" /\ k.base = j.base
    BY <1>1, <1>5, GotoJob DEF Lookup, Places, Answered
  <2>7. Placed(k)'
    <3>. PICK top : top = <<Global, Undefined>>
      OBVIOUS
    <3>1. /\ top \in Seq(Entry) /\ stack' = k.base \o top /\ Len(top) \in 2..4
          /\ top[1] \in {Global, Error}
      BY <2>2, <2>3, <2>6
    <3>. QED
      BY <2>6, <3>1, FailedWith
  <2>. QED
    BY <1>2, <1>3, <2>4, <2>5, <2>6, <2>7, StepTo DEF PlayInv
<1>. QED
  BY <1>4, <1>5

---------------------------------------------------------------------------
(* The rounds.                                                             *)

LEMMA InRounds ==
    ASSUME PlayInv, NEW t \in Thread, job[t].at \in {"push", "call", "finish"}
    PROVE  \E f \in Defining : defined = {f} /\ Rounds(job[t], f)
BY JobOf DEF Placed

\* Where the arguments of a call are on the stack.
LEMMA InCall ==
    ASSUME PlayInv, NEW t \in Thread, job[t].at = "call",
           NEW f \in Defining, Rounds(job[t], f)
    PROVE  LET j == job[t]
               b == j.base \o Below(f, j.done)
           IN  /\ b \in Seq(Entry) /\ Len(stack) = Len(b) + 3 /\ BelowCall = b
               /\ Callee = CalleeAt(f, j.done)
               /\ Arguments = <<EventArg(j.events[j.done + 1]), StateArg(j.state)>>
<1>. DEFINE j == job[t]
<1>1. PICK b : b = j.base \o Below(f, j.done)
  OBVIOUS
<1>2. PICK x, y, z : /\ x = CalleeAt(f, j.done)
                     /\ y = EventArg(j.events[j.done + 1])
                     /\ z = StateArg(j.state)
  OBVIOUS
<1>3. j.done \in 0..2 /\ j.done < Len(j.events) /\ stack = b \o <<x, y, z>>
  BY <1>1, <1>2 DEF Rounds
<1>4. j.events[j.done + 1] \in Event /\ j.state \in Seq(Calls) /\ j.base \in Seq(Entry)
  BY <1>3, JobOf
<1>5. b \in Seq(Entry) /\ x \in Entry /\ y \in Entry /\ z \in Entry
  BY <1>1, <1>2, <1>3, <1>4, Entries, ThreeForACall
<1>6. /\ Len(stack) = Len(b) + 3
      /\ stack[Len(stack) - 2] = x /\ stack[Len(stack) - 1] = y /\ stack[Len(stack)] = z
      /\ SubSeq(stack, 1, Len(stack) - 3) = b
  <2>. PICK s : s = stack
    OBVIOUS
  <2>1. s = b \o <<x, y, z>>
    BY <1>3
  <2>. QED
    BY <1>5, <2>1, ThreeOnTop
<1>. QED
  BY <1>1, <1>2, <1>5, <1>6 DEF Callee, Arguments, BelowCall, Last

LEMMA PushArgumentsStep ==
    ASSUME OneThread, PlayInv, NEW t \in Thread, PushArguments(t)
    PROVE  PlayInv'
<1>. DEFINE j == job[t]
            e == j.events[j.done + 1]
<1>1. j.at = "push"
  BY DEF PushArguments
<1>2. PICK f \in Defining : defined = {f} /\ Rounds(j, f)
  BY <1>1, InRounds
<1>3. /\ j.done \in 0..2 /\ j.done < Len(j.events)
      /\ stack = j.base \o Left(f, j.done)
  BY <1>1, <1>2 DEF Rounds
<1>4. e \in Event /\ j.state \in Seq(Calls) /\ j.base \in Seq(Entry)
  BY <1>1, <1>3, JobOf
<1>5. EventArg(e) \in Entry /\ StateArg(j.state) \in Entry
  BY <1>4, Entries
<1>6. stack' = stack \o <<EventArg(e), StateArg(j.state)>> /\ UNCHANGED <<up, defined>>
  BY DEF PushArguments, NextEvent
<1>7. stack' = (j.base \o Below(f, j.done))
                   \o <<CalleeAt(f, j.done), EventArg(e), StateArg(j.state)>>
  BY <1>3, <1>4, <1>5, <1>6, ThreeForACall
<1>8. stack' \in Seq(Entry) /\ Len(stack') <= StackLimit
  <2>1. stack \in Seq(Entry) /\ Len(stack) \in Nat
    BY LenProperties DEF PlayInv
  <2>2. Len(stack) + 3 <= StackLimit
    BY <1>1 DEF PushArguments, Fits, Need
  <2>3. /\ <<EventArg(e), StateArg(j.state)>> \in Seq(Entry)
        /\ Len(<<EventArg(e), StateArg(j.state)>>) = 2
    BY <1>5, Tops
  <2>4. stack' \in Seq(Entry) /\ Len(stack') = Len(stack) + 2
    BY <1>6, <2>1, <2>3, ConcatProperties
  <2>. QED
    BY <2>1, <2>2, <2>4, ScriptAssumption
<1>9. PICK k \in Job : /\ job' = [job EXCEPT ![t] = k]
                       /\ k.at = "call"
                       /\ k.script = j.script /\ k.events = j.events
                       /\ k.done = j.done /\ k.state = j.state /\ k.base = j.base
  <2>1. Goto(t, "call") /\ "call" \in Places \ {"idle"}
    BY DEF PushArguments, Places
  <2>. QED
    BY <1>1, <2>1, GotoJob
<1>10. Rounds(k, f)'
  <2>1. /\ k.done \in 0..2 /\ k.state = Folded(f, k, k.done)
        /\ k.script \in Defining => f = k.script
    BY <1>2, <1>9 DEF Rounds, Folded
  <2>2. k.done < Len(k.events)
    BY <1>3, <1>9
  <2>3. stack' = (k.base \o Below(f, k.done))
                     \o <<CalleeAt(f, k.done), EventArg(k.events[k.done + 1]),
                          StateArg(k.state)>>
    BY <1>7, <1>9
  <2>. QED
    BY <1>9, <2>1, <2>2, <2>3 DEF Rounds
<1>11. Placed(k)'
  BY <1>2, <1>6, <1>9, <1>10 DEF Placed
<1>12. up' \in BOOLEAN /\ defined' \in {{}} \cup {{g} : g \in Defining}
  BY <1>6 DEF PlayInv
<1>. QED
  BY <1>8, <1>9, <1>11, <1>12, StepTo

LEMMA FoldedNext ==
    ASSUME NEW f, NEW j, NEW n \in 0..1, Folded(f, j, n) \in Seq(Calls),
           <<f, EventArg(j.events[n + 1])>> \in Calls
    PROVE  /\ Append(Folded(f, j, n), <<f, EventArg(j.events[n + 1])>>) =
                  Folded(f, j, n + 1)
           /\ Folded(f, j, n + 1) \in Seq(Calls)
<1>. DEFINE c == <<f, EventArg(j.events[n + 1])>>
            s == Folded(f, j, n)
            u == Append(s, c)
<1>1. DOMAIN s = 1..n /\ \A i \in 1..n : s[i] = <<f, EventArg(j.events[i])>>
  BY DEF Folded
<1>2. Len(s) = n
  <2>. HIDE DEF s
  <2>. QED
    BY <1>1, LenProperties
<1>3. /\ u \in Seq(Calls) /\ Len(u) = n + 1
      /\ \A i \in 1..n : u[i] = s[i] /\ u[n + 1] = c
  BY <1>2, AppendProperties
<1>4. u[n + 1] = c
  BY <1>2, AppendProperties
<1>5. \A i \in 1..(n + 1) : u[i] = <<f, EventArg(j.events[i])>>
  <2>. SUFFICES ASSUME NEW i \in 1..(n + 1) PROVE u[i] = <<f, EventArg(j.events[i])>>
    OBVIOUS
  <2>1. CASE i \in 1..n
    BY <1>1, <1>3, <2>1
  <2>2. CASE i = n + 1
    BY <1>4, <2>2
  <2>3. i \in 1..n \/ i = n + 1
    OBVIOUS
  <2>. QED
    BY <2>1, <2>2, <2>3
<1>6. u = [i \in 1..(n + 1) |-> u[i]]
  <2>. HIDE DEF u
  <2>. QED
    BY <1>3, LenProperties
<1>7. u = Folded(f, j, n + 1)
  <2>. HIDE DEF u
  <2>. QED
    BY <1>5, <1>6 DEF Folded
<1>. QED
  BY <1>3, <1>7

LEMMA CallReturnsStep ==
    ASSUME OneThread, PlayInv, NEW t \in Thread, CallReturns(t)
    PROVE  PlayInv'
<1>. DEFINE j == job[t]
            e == j.events[j.done + 1]
<1>1. j.at = "call" /\ j.at # "idle"
  BY DEF CallReturns
<1>2. PICK f \in Defining : defined = {f} /\ Rounds(j, f)
  BY <1>1, InRounds
<1>3. /\ j.done \in 0..2 /\ j.done < Len(j.events) /\ j.state = Folded(f, j, j.done)
      /\ j.script \in Defining => f = j.script
  BY <1>1, <1>2 DEF Rounds
<1>4. /\ j \in Job /\ e \in Event /\ j.state \in Seq(Calls) /\ j.base \in Seq(Entry)
      /\ Len(j.events) \in Nat
  BY <1>1, <1>3, JobOf
<1>5. PICK b : b = j.base \o Below(f, j.done)
  OBVIOUS
<1>6. /\ b \in Seq(Entry) /\ Len(stack) = Len(b) + 3 /\ BelowCall = b
      /\ Callee = CalleeAt(f, j.done)
      /\ Arguments = <<EventArg(e), StateArg(j.state)>>
  BY <1>1, <1>2, <1>5, InCall
<1>7. j.done < 2 /\ j.done \in 0..1 /\ Callee = Function(f)
  BY <1>3, <1>6, Kinds DEF CallReturns, CalleeAt
<1>8. Applied(Callee.of, Arguments) = Append(j.state, <<f, EventArg(e)>>)
  BY <1>6, <1>7, Kinds DEF Applied
<1>9. /\ Append(j.state, <<f, EventArg(e)>>) = Folded(f, j, j.done + 1)
      /\ Folded(f, j, j.done + 1) \in Seq(Calls)
  <2>1. <<f, EventArg(e)>> \in Calls
    BY <1>4 DEF Calls
  <2>. QED
    BY <1>3, <1>4, <1>7, <2>1, FoldedNext
<1>10. PICK k : k = [at |-> IF j.done + 1 = Len(j.events) THEN "finish" ELSE "push",
                     script |-> j.script, events |-> j.events, done |-> j.done + 1,
                     state |-> Folded(f, j, j.done + 1), base |-> j.base]
  OBVIOUS
<1>11. k \in Job
  BY <1>3, <1>4, <1>9, <1>10 DEF Job, Places
<1>12. job' = [job EXCEPT ![t] = k]
  <2>1. job' = [job EXCEPT ![t].state = Folded(f, j, j.done + 1),
                           ![t].done = @ + 1,
                           ![t].at = IF j.done + 1 = Len(j.events)
                                     THEN "finish" ELSE "push"]
    BY <1>8, <1>9 DEF CallReturns
  <2>. QED
    BY <1>4, <1>10, <2>1 DEF Job, PlayInv
<1>13. stack' = b /\ UNCHANGED <<up, defined>>
  BY <1>6 DEF CallReturns
<1>14. Rounds(k, f)'
  <2>1. /\ k.done = j.done + 1 /\ k.done \in 0..2 /\ k.done # 0
        /\ k.events = j.events /\ k.base = j.base /\ k.script = j.script
        /\ k.at \in {"finish", "push"}
    BY <1>7, <1>10
  <2>2. k.state = Folded(f, k, k.done)
    BY <1>10 DEF Folded
  <2>3. stack' = k.base \o Left(f, k.done)
    BY <1>5, <1>7, <1>13, <2>1, LeftNext
  <2>4. k.at = "finish" <=> k.done = Len(k.events)
    BY <1>10
  <2>5. k.at # "finish" => k.done < Len(k.events)
    BY <1>3, <1>4, <2>1, <2>4
  <2>. QED
    BY <1>3, <2>1, <2>2, <2>3, <2>4, <2>5 DEF Rounds
<1>15. Placed(k)'
  <2>1. k.at \in {"finish", "push"}
    BY <1>10
  <2>. QED
    BY <1>2, <1>13, <1>14, <2>1 DEF Placed
<1>16. /\ up' \in BOOLEAN /\ stack' \in Seq(Entry) /\ Len(stack') <= StackLimit
       /\ defined' \in {{}} \cup {{g} : g \in Defining}
  BY <1>6, <1>13, LenProperties, ScriptAssumption DEF PlayInv
<1>. QED
  BY <1>11, <1>12, <1>15, <1>16, StepTo

LEMMA CallFailsStep ==
    ASSUME OneThread, PlayInv, NEW t \in Thread, CallFails(t)
    PROVE  PlayInv'
<1>. DEFINE j == job[t]
<1>1. j.at = "call" /\ j.at # "idle"
  BY DEF CallFails
<1>2. PICK f \in Defining : defined = {f} /\ Rounds(j, f)
  BY <1>1, InRounds
<1>3. PICK d \in 0..2 : d = j.done
  BY <1>1, <1>2 DEF Rounds
<1>4. PICK w : w = Below(f, d)
  OBVIOUS
<1>5. PICK b : b = j.base \o w
  OBVIOUS
<1>6. /\ b \in Seq(Entry) /\ Len(stack) = Len(b) + 3 /\ BelowCall = b
      /\ Callee = CalleeAt(f, d)
  BY <1>1, <1>2, <1>3, <1>4, <1>5, InCall
<1>7. PICK base \in Seq(Entry) : base = j.base
  BY <1>1, JobOf
<1>8. w \in Seq(Entry) /\ Len(w) = 2 - d
  <2>1. Global \in Entry /\ Function(f) \in Entry
    BY Entries
  <2>2. CASE d = 0
    BY <1>4, <2>1, <2>2, Tops DEF Below
  <2>3. CASE d = 1
    BY <1>4, <2>1, <2>3, Tops DEF Below
  <2>4. CASE d = 2
    BY <1>4, <2>1, <2>4, Tops DEF Below
  <2>. QED
    BY <2>2, <2>3, <2>4
<1>9. PICK u \in Seq(Entry) :
          /\ stack' = b \o u /\ Len(u) \in 1..2 /\ Len(w) + Len(u) \in 2..4
          /\ d = 2 => u[1] = Error
  <2>1. CASE stack' = BelowCall \o <<Error, Text>>
    <3>. PICK u : u = <<Error, Text>>
      OBVIOUS
    <3>1. u \in Seq(Entry) /\ Len(u) = 2 /\ u[1] = Error
      BY Entries, Tops
    <3>2. stack' = b \o u /\ Len(u) \in 1..2 /\ Len(w) + Len(u) \in 2..4
      BY <1>6, <1>8, <2>1, <3>1
    <3>. QED
      BY <3>1, <3>2
  <2>2. CASE IsFunction(Callee) /\ stack' = Append(BelowCall, Undefined)
    <3>. PICK u : u = <<Undefined>>
      OBVIOUS
    <3>1. u \in Seq(Entry) /\ Len(u) = 1
      BY Entries, Tops
    <3>2. stack' = b \o u
      BY <1>6, <2>2, Entries, AppendIsConcat
    <3>3. d # 2
      BY <1>6, <2>2, Kinds DEF CalleeAt
    <3>4. Len(u) \in 1..2 /\ Len(w) + Len(u) \in 2..4
      BY <1>8, <3>1, <3>3
    <3>. QED
      BY <3>1, <3>2, <3>3, <3>4
  <2>. QED
    BY <2>1, <2>2 DEF CallFails
<1>10. PICK top : top = w \o u
  OBVIOUS
<1>11. /\ top \in Seq(Entry) /\ Len(top) \in 2..4
       /\ stack' = j.base \o top /\ top[1] \in {Global, Error}
  <2>1. top \in Seq(Entry) /\ Len(top) = Len(w) + Len(u)
    BY <1>8, <1>10, ConcatProperties
  <2>2. (base \o w) \o u = base \o (w \o u)
    BY <1>8, Associative
  <2>3. Len(top) \in 2..4
    BY <1>9, <2>1
  <2>4. stack' = j.base \o top
    BY <1>5, <1>7, <1>9, <1>10, <2>2
  <2>5. CASE d = 2
    <3>1. Len(w) = 0 /\ u[1] = Error
      BY <1>8, <1>9, <2>5
    <3>2. top[1] = u[1]
      BY <1>8, <1>9, <1>10, <3>1, ConcatProperties
    <3>. QED
      BY <2>1, <2>3, <2>4, <3>1, <3>2
  <2>6. CASE d # 2
    <3>1. w[1] = Global /\ 1 \in 1..Len(w)
      BY <1>4, <1>8, <2>6 DEF Below
    <3>2. top[1] = w[1]
      BY <1>8, <1>9, <1>10, <3>1, ConcatProperties
    <3>. QED
      BY <2>1, <2>3, <2>4, <3>1, <3>2
  <2>. QED
    BY <2>5, <2>6
<1>12. PICK k \in Job : job' = [job EXCEPT ![t] = k] /\ k.at = "failed" /\ k.base = j.base
  <2>1. Goto(t, "failed") /\ "failed" \in Places \ {"idle"}
    BY DEF CallFails, Places, Answered
  <2>. QED
    BY <1>1, <2>1, GotoJob
<1>13. Placed(k)'
  <2>1. stack' = k.base \o top
    BY <1>11, <1>12
  <2>. QED
    BY <1>11, <1>12, <2>1, FailedWith
<1>14. stack' \in Seq(Entry) /\ Len(stack') <= StackLimit
  <2>1. stack' \in Seq(Entry) /\ Len(stack') = Len(b) + Len(u)
    BY <1>6, <1>9, ConcatProperties
  <2>2. Len(b) \in Nat /\ Len(stack) <= StackLimit
    BY <1>6, LenProperties DEF PlayInv
  <2>3. Len(u) \in 1..2 /\ Len(stack) = Len(b) + 3
    BY <1>6, <1>9
  <2>. HIDE DEF j
  <2>4. \A m \in Nat : \A n \in 1..2 : m + 3 <= StackLimit => m + n <= StackLimit
    BY ScriptAssumption
  <2>5. Len(stack') <= StackLimit
    BY <2>1, <2>2, <2>3, <2>4
  <2>. QED
    BY <2>1, <2>5
<1>15. up' \in BOOLEAN /\ defined' \in {{}} \cup {{g} : g \in Defining}
  BY DEF CallFails, PlayInv
<1>. QED
  BY <1>12, <1>13, <1>14, <1>15, StepTo

LEMMA FinishStep ==
    ASSUME OneThread, PlayInv, NEW t \in Thread, Finish(t)
    PROVE  PlayInv'
<1>. DEFINE j == job[t]
<1>1. j.at = "finish" /\ j.at # "idle"
  BY DEF Finish
<1>2. PICK f \in Defining : defined = {f} /\ Rounds(j, f)
  BY <1>1, InRounds
<1>3. /\ j.done \in 0..2 /\ j.done # 0 /\ j.done = Len(j.events)
      /\ j.state = Folded(f, j, Len(j.events)) /\ (j.script \in Defining => f = j.script)
      /\ stack = j.base \o Left(f, j.done)
  BY <1>1, <1>2 DEF Rounds
<1>4. PICK b \in Seq(Entry) : b = j.base
  BY <1>1, JobOf
<1>5. PICK rest \in Seq(Entry) :
          stack' = rest /\ rest = b \o IF Len(j.events) = 2 THEN <<>> ELSE <<Global>>
  <2>1. stack' = Front(stack)
    BY DEF Finish
  <2>2. Global \in Entry /\ Function(f) \in Entry
    BY Entries
  <2>3. CASE Len(j.events) = 2
    <3>1. stack = b \o <<Global>>
      BY <1>3, <1>4, <2>3 DEF Left
    <3>2. stack' = b
      BY <2>1, <2>2, <3>1, OneOnTop
    <3>3. b \o <<>> = b
      BY ConcatEmptySeq
    <3>. QED
      BY <2>3, <3>2, <3>3
  <2>4. CASE Len(j.events) = 1
    <3>1. stack = b \o <<Global, Function(f)>>
      BY <1>3, <1>4, <2>4 DEF Left
    <3>2. <<Global>> \o <<Function(f)>> = <<Global, Function(f)>>
      BY <2>2, OneAndOne
    <3>3. stack = (b \o <<Global>>) \o <<Function(f)>>
      BY <2>2, <3>1, <3>2, Tops, Associative
    <3>4. PICK r : r = b \o <<Global>>
      OBVIOUS
    <3>5. r \in Seq(Entry) /\ Front(r \o <<Function(f)>>) = r
      BY <2>2, <3>4, OneOnTop
    <3>6. stack' = r
      BY <2>1, <3>3, <3>4, <3>5
    <3>7. r = b \o IF Len(j.events) = 2 THEN <<>> ELSE <<Global>>
      BY <2>4, <3>4
    <3>. QED
      BY <3>5, <3>6, <3>7
  <2>. QED
    BY <1>3, <2>3, <2>4
<1>6. PICK k \in Job : /\ job' = [job EXCEPT ![t] = k]
                       /\ k.at = "ok"
                       /\ k.script = j.script /\ k.events = j.events
                       /\ k.done = j.done /\ k.state = j.state /\ k.base = j.base
  <2>1. Goto(t, "ok") /\ "ok" \in Places \ {"idle"}
    BY DEF Finish, Places, Answered
  <2>. QED
    BY <1>1, <2>1, GotoJob
<1>7. Placed(k)'
  <2>1. /\ f \in Script /\ k.state = Folded(f, k, Len(k.events))
        /\ (k.script \in Defining => f = k.script)
    BY <1>3, <1>6, ScriptAssumption DEF Folded
  <2>2. stack' = k.base \o IF Len(k.events) = 2 THEN <<>> ELSE <<Global>>
    BY <1>4, <1>5, <1>6
  <2>. QED
    BY <1>6, <2>1, <2>2 DEF Placed
<1>8. stack' \in Seq(Entry) /\ Len(stack') <= StackLimit
  <2>1. stack \in Seq(Entry) /\ stack # <<>> /\ Len(stack) <= StackLimit
    BY DEF Finish, PlayInv
  <2>2. Len(stack) \in Nat \ {0}
    BY <2>1, EmptySeq
  <2>3. Len(stack') = Len(stack) - 1
    <3>1. \A i \in 1..Len(stack) - 1 : stack[i] \in Entry
      BY <2>1, <2>2, ElementOfSeq
    <3>2. Len(SubSeq(stack, 1, Len(stack) - 1)) = IF 1 <= Len(stack) - 1
                                                  THEN Len(stack) - 1 - 1 + 1 ELSE 0
      BY <2>2, <3>1, SubSeqProperties
    <3>3. Len(stack') = IF 1 <= Len(stack) - 1 THEN Len(stack) - 1 - 1 + 1 ELSE 0
      BY <3>2 DEF Finish, Front
    <3>4. \A n \in Nat \ {0} : (IF 1 <= n - 1 THEN n - 1 - 1 + 1 ELSE 0) = n - 1
      OBVIOUS
    <3>. QED
      BY <2>2, <3>3, <3>4
  <2>. QED
    BY <1>5, <2>1, <2>2, <2>3, ScriptAssumption
<1>9. up' \in BOOLEAN /\ defined' \in {{}} \cup {{g} : g \in Defining}
  BY DEF Finish, PlayInv
<1>. QED
  BY <1>6, <1>7, <1>8, <1>9, StepTo

LEMMA SameInv ==
    ASSUME PlayInv, up' \in BOOLEAN, UNCHANGED <<stack, defined, job>>
    PROVE  PlayInv'
<1>1. ASSUME NEW t \in Thread, job'[t] # Idle PROVE Placed(job[t])'
  <2>. PICK k : k = job[t]
    OBVIOUS
  <2>1. Placed(k)
    BY <1>1 DEF PlayInv
  <2>2. Placed(k)'
    BY <2>1 DEF Placed, Rounds
  <2>. QED
    BY <2>2
<1>. QED
  BY <1>1 DEF PlayInv

LEMMA NextPlayInv == OneThread /\ PlayInv /\ [Next]_vars => PlayInv'
<1>. SUFFICES ASSUME OneThread, PlayInv, [Next]_vars PROVE PlayInv'
  OBVIOUS
<1>1. ASSUME NEW t \in Thread, NEW s \in Script, NEW es \in Streams, Play(t, s, es)
      PROVE  PlayInv'
  BY <1>1, PlayStep, StreamsAreSequences
<1>2. ASSUME NEW t \in Thread, Read(t) PROVE PlayInv'
  BY <1>2, ReadStep
<1>3. ASSUME NEW t \in Thread, Lookup(t) PROVE PlayInv'
  BY <1>3, LookupStep
<1>4. ASSUME NEW t \in Thread, PushArguments(t) PROVE PlayInv'
  BY <1>4, PushArgumentsStep
<1>5. ASSUME NEW t \in Thread, CallReturns(t) PROVE PlayInv'
  BY <1>5, CallReturnsStep
<1>6. ASSUME NEW t \in Thread, CallFails(t) PROVE PlayInv'
  BY <1>6, CallFailsStep
<1>7. ASSUME NEW t \in Thread, Finish(t) PROVE PlayInv'
  BY <1>7, FinishStep
<1>8. ASSUME NEW t \in Thread, Abort(t) PROVE PlayInv'
  BY <1>8, SameInv DEF Abort
<1>9. ASSUME UNCHANGED vars PROVE PlayInv'
  BY <1>9, SameInv DEF vars, PlayInv
<1>. QED
  BY <1>1, <1>2, <1>3, <1>4, <1>5, <1>6, <1>7, <1>8, <1>9 DEF Next

\* At every place of a play the entries above its base are known one by one.
THEOREM PlayInvariant ==
    ASSUME OneThread
    PROVE  Spec => []PlayInv
<1>1. PlayInv /\ [Next]_vars => PlayInv'
  BY NextPlayInv
<1>. QED
  BY <1>1, InitPlayInv, PTL DEF Spec

---------------------------------------------------------------------------
(* What plays promise.                                                     *)

LEMMA AnswersAreFolds == PlayInv => ResultIsFold
<1>. SUFFICES ASSUME PlayInv, NEW t \in Thread, job[t].at = "ok"
              PROVE  LET j == job[t] IN
                     \E f \in Script :
                        /\ j.state =
                              [i \in DOMAIN j.events |-> <<f, EventArg(j.events[i])>>]
                        /\ f \in Defining \/ j.events = <<>>
                        /\ j.script \in Defining => f = j.script
  BY DEF ResultIsFold
<1>1. Placed(job[t]) /\ DOMAIN job[t].events = 1..Len(job[t].events)
  BY JobOf, LenProperties
<1>. QED
  BY <1>1 DEF Placed, Folded

\* An answer is the fold of one function over all events of the stream.
THEOREM ResultIsFoldHolds ==
    ASSUME OneThread
    PROVE  Spec => []ResultIsFold
BY AnswersAreFolds, PlayInvariant, PTL

\* What the current request has put on its base begins with the global object, or with
\* the error of its script or of its third event.
LEMMA OnTop ==
    ASSUME PlayInv, NEW t \in Thread, job[t].at # "idle"
    PROVE  \E top \in Seq(Entry) :
               /\ stack = job[t].base \o top
               /\ \/ top = <<>>
                  \/ top[1] = Global
                  \/ top[1] = Error /\ job[t].at = "failed"
<1>. DEFINE j == job[t]
<1>1. PICK base \in Seq(Entry) : base = j.base
  BY JobOf
<1>2. /\ Global \in Entry /\ <<>> \in Seq(Entry)
      /\ <<Global>> \in Seq(Entry) /\ <<Global>>[1] = Global
  BY Entries, Tops
<1>3. CASE j.at = "read"
  <2>1. stack = base \o <<>>
    BY <1>1, <1>3, JobOf, ConcatEmptySeq DEF Placed
  <2>. QED
    BY <1>1, <1>2, <2>1
<1>4. CASE j.at = "lookup"
  BY <1>2, <1>4, JobOf DEF Placed
<1>5. CASE j.at \in {"push", "finish"}
  <2>1. PICK f \in Defining : Rounds(j, f)
    BY <1>5, InRounds
  <2>2. Left(f, j.done) \in Seq(Entry) /\ Left(f, j.done)[1] = Global
    <3>1. Function(f) \in Entry
      BY Entries
    <3>. QED
      BY <1>2, <3>1, Tops DEF Left
  <2>. QED
    BY <1>5, <2>1, <2>2 DEF Rounds
<1>6. CASE j.at = "call"
  <2>1. PICK f \in Defining : Rounds(j, f)
    BY <1>6, InRounds
  <2>2. PICK d \in 0..2 : d = j.done
    BY <1>6, <2>1 DEF Rounds
  <2>3. PICK w : w = Below(f, d)
    OBVIOUS
  <2>4. PICK u : u = <<CalleeAt(f, d), EventArg(j.events[d + 1]), StateArg(j.state)>>
    OBVIOUS
  <2>5. stack = (base \o w) \o u
    BY <1>1, <1>6, <2>1, <2>2, <2>3, <2>4 DEF Rounds
  <2>6. /\ w \in Seq(Entry)
        /\ \/ w = <<>> /\ d = 2
           \/ Len(w) \in 1..2 /\ w[1] = Global
    <3>1. Function(f) \in Entry
      BY Entries
    <3>2. CASE d = 0
      BY <1>2, <2>3, <3>1, <3>2, Tops DEF Below
    <3>3. CASE d = 1
      BY <1>2, <2>3, <3>1, <3>3, Tops DEF Below
    <3>4. CASE d = 2
      BY <1>2, <2>3, <3>4 DEF Below
    <3>. QED
      BY <3>2, <3>3, <3>4
  <2>7. u \in Seq(Entry) /\ Len(u) = 3 /\ u[1] = CalleeAt(f, d)
    <3>1. j.events[d + 1] \in Event /\ j.state \in Seq(Calls)
      BY <1>6, <2>1, <2>2, JobOf DEF Rounds
    <3>2. /\ CalleeAt(f, d) \in Entry /\ EventArg(j.events[d + 1]) \in Entry
          /\ StateArg(j.state) \in Entry
      BY <3>1, Entries DEF CalleeAt
    <3>. QED
      BY <2>4, <3>2, Tops
  <2>8. stack = base \o (w \o u) /\ w \o u \in Seq(Entry)
    <3>1. w \in Seq(Entry) /\ u \in Seq(Entry)
      BY <2>6, <2>7
    <3>2. (base \o w) \o u = base \o (w \o u)
      BY <3>1, Associative
    <3>3. w \o u \in Seq(Entry)
      BY <3>1, ConcatProperties
    <3>. QED
      BY <2>5, <3>2, <3>3
  <2>9. (w \o u)[1] = Global
    <3>1. CASE w = <<>> /\ d = 2
      BY <2>7, <3>1, ConcatEmptySeq DEF CalleeAt
    <3>2. CASE Len(w) \in 1..2 /\ w[1] = Global
      BY <2>6, <2>7, <3>2, ConcatProperties
    <3>. QED
      BY <2>6, <3>1, <3>2
  <2>. QED
    BY <1>1, <2>8, <2>9
<1>7. CASE j.at = "ok"
  BY <1>2, <1>7, JobOf DEF Placed
<1>8. CASE j.at = "failed"
  BY <1>8, JobOf DEF Placed
<1>9. j.at \in {"read", "lookup", "push", "call", "finish", "ok", "failed"}
  BY JobOf DEF Job, Places, Answered
<1>. QED
  BY <1>3, <1>4, <1>5, <1>6, <1>7, <1>8, <1>9

\* No play touches what earlier ones left on the stack.
THEOREM BaseUntouchedHolds ==
    ASSUME OneThread
    PROVE  Spec => []BaseUntouched
<1>1. PlayInv => BaseUntouched
  <2>. SUFFICES ASSUME PlayInv, NEW t \in Thread, job[t].at # "idle"
                PROVE  IsPrefix(job[t].base, stack)
    BY DEF BaseUntouched
  <2>1. PICK base \in Seq(Entry) : base = job[t].base
    BY JobOf
  <2>2. PICK top \in Seq(Entry) : stack = base \o top
    BY <2>1, OnTop
  <2>3. Len(base) \in Nat /\ Len(top) \in Nat /\ Len(stack) = Len(base) + Len(top)
    BY <2>2, LenProperties, ConcatProperties
  <2>4. \A i \in 1..Len(base) : stack[i] = base[i] /\ base[i] \in Entry
    BY <2>2, <2>3, ConcatProperties, ElementOfSeq
  <2>5. /\ SubSeq(stack, 1, Len(base)) \in Seq(Entry)
        /\ Len(SubSeq(stack, 1, Len(base))) = Len(base)
        /\ \A i \in 1..Len(base) : SubSeq(stack, 1, Len(base))[i] = stack[i]
    BY <2>3, <2>4, SubSeqProperties
  <2>6. SubSeq(stack, 1, Len(base)) = base
    BY <2>4, <2>5, SeqEqual
  <2>7. SubSeq(base, 1, Len(base)) = base
    BY SubSeqFull
  <2>. QED
    BY <2>1, <2>3, <2>6, <2>7 DEF IsPrefix
<1>. QED
  BY <1>1, PlayInvariant, PTL

\* What a play leaves: nothing after two events, the global object after none and
\* one, two to four entries after a failure.
THEOREM ResidueOfPlayHolds ==
    ASSUME OneThread
    PROVE  Spec => []ResidueOfPlay
<1>1. PlayInv => ResidueOfPlay
  <2>. SUFFICES ASSUME PlayInv, NEW t \in Thread
                PROVE  /\ job[t].at = "ok" =>
                            stack = job[t].base \o IF Len(job[t].events) = 2
                                                   THEN <<>> ELSE <<Global>>
                       /\ job[t].at = "failed" => Len(stack) - Len(job[t].base) \in 2..4
    BY DEF ResidueOfPlay
  <2>1. ASSUME job[t].at = "failed" PROVE Len(stack) - Len(job[t].base) \in 2..4
    <3>1. PICK base \in Seq(Entry) : base = job[t].base
      BY <2>1, JobOf
    <3>2. PICK top \in Seq(Entry) : stack = base \o top /\ Len(top) \in 2..4
      BY <2>1, <3>1, JobOf DEF Placed
    <3>3. Len(base) \in Nat /\ Len(stack) = Len(base) + Len(top)
      BY <3>2, LenProperties, ConcatProperties
    <3>. QED
      BY <3>1, <3>2, <3>3
  <2>. QED
    BY <2>1, JobOf DEF Placed
<1>. QED
  BY <1>1, PlayInvariant, PTL

LEMMA GotoPlace ==
    ASSUME PlayInv, NEW t \in Thread, job[t].at # "idle",
           NEW place \in Places \ {"idle"}, Goto(t, place)
    PROVE  job'[t].at = place
BY GotoJob DEF PlayInv

SoundPlays ==
    \A t \in Thread :
        /\ job[t].at # "failed" /\ job'[t].at = "failed"
        /\ Sound(job[t]) /\ Len(job[t].events) <= 2
        => Poisoned

LEMMA NextSoundPlays ==
    ASSUME OneThread, PlayInv, [Next]_vars
    PROVE  SoundPlays
<1>. SUFFICES ASSUME PlayInv, [Next]_vars, NEW t \in Thread,
                     job[t].at # "failed", job'[t].at = "failed",
                     Sound(job[t]), Len(job[t].events) <= 2
              PROVE  Poisoned
  BY DEF SoundPlays
<1>. DEFINE j == job[t]
<1>1. job \in [Thread -> {Idle} \cup Job]
  BY DEF PlayInv
<1>2. Read(t) \/ Lookup(t) \/ CallFails(t)
  <2>1. PICK x \in Thread : \/ \E s \in Script, es \in Streams : Play(x, s, es)
                            \/ Read(x) \/ Lookup(x) \/ PushArguments(x)
                            \/ CallReturns(x) \/ CallFails(x) \/ Finish(x) \/ Abort(x)
    BY DEF Next, vars
  <2>2. x = t
    BY DEF OneThread
  <2>3. ASSUME NEW s \in Script, NEW es \in Streams, Play(t, s, es) PROVE FALSE
    BY <1>1, <2>3 DEF Play
  <2>4. ~PushArguments(t) /\ ~Finish(t) /\ ~Abort(t)
    BY GotoPlace DEF PushArguments, Finish, Abort, Places, Answered
  <2>5. ASSUME CallReturns(t) PROVE FALSE
    <3>1. job[t] \in Job
      BY <2>5, JobOf DEF CallReturns
    <3>2. job'[t].at \in {"finish", "push"}
      BY <1>1, <2>5, <3>1 DEF CallReturns, Job
    <3>. QED
      BY <3>2
  <2>. QED
    BY <2>1, <2>2, <2>3, <2>4, <2>5
<1>3. CASE Read(t)
  <2>1. job[t].script \notin Broken /\ job[t].at # "idle"
    BY <1>3 DEF Read, Sound
  <2>2. Goto(t, "ok") \/ Goto(t, "lookup")
    BY <1>3, <2>1 DEF Read
  <2>. QED
    BY <2>1, <2>2, GotoPlace DEF Places, Answered
<1>4. CASE Lookup(t)
  <2>1. ~Found
    BY <1>4, GotoPlace DEF Lookup, Places
  <2>2. /\ stack = j.base \o <<Global>> /\ j.base \in Seq(Entry)
        /\ j.script \in Defining => defined = {j.script}
    BY <1>4, JobOf DEF Lookup, Placed
  <2>3. stack # <<>>
    BY <2>2, Entries, OneOnTop
  <2>. QED
    BY <2>1, <2>2, <2>3 DEF Found, Poisoned, Sound
<1>5. CASE CallFails(t)
  <2>1. j.at = "call"
    BY <1>5 DEF CallFails
  <2>2. PICK f \in Defining : Rounds(j, f)
    BY <2>1, InRounds
  <2>3. /\ j.done \in 0..2 /\ j.done < Len(j.events)
        /\ j.script \in Defining => f = j.script
    BY <2>1, <2>2 DEF Rounds
  <2>4. Callee = CalleeAt(f, j.done) /\ Len(j.events) \in Nat
    BY <2>1, <2>2, InCall, JobOf
  <2>5. Callee = Function(f)
    BY <2>3, <2>4 DEF CalleeAt
  <2>6. f \in Failing
    BY <1>5, <2>5, Kinds DEF CallFails, MayFail
  <2>. QED
    BY <2>3, <2>6 DEF Sound
<1>. QED
  BY <1>2, <1>3, <1>4, <1>5

\* A play without fault and of two events at most fails only if the bottom of the
\* stack is not the global object.
THEOREM SoundShortPlayWorksHolds ==
    ASSUME OneThread
    PROVE  Spec => SoundShortPlayWorks
<1>1. PlayInv /\ [Next]_vars => [SoundPlays]_vars
  BY NextSoundPlays
<1>. QED
  BY <1>1, PlayInvariant, PTL DEF Spec, SoundShortPlayWorks, SoundPlays

---------------------------------------------------------------------------
(* What a program that plays may use: each step of the engine keeps HeapInv, *)
(* changes only the job of its thread, and aborts only for a reason.         *)

Works(t) ==
    \/ Read(t)
    \/ Lookup(t)
    \/ PushArguments(t)
    \/ CallReturns(t)
    \/ CallFails(t)
    \/ Finish(t)

\* The bottom entry is never the undefined that a failed lookup leaves on top.
Bottom == stack # <<>> => stack[1] # Undefined

\* A play that has got past its script has one that runs.
Ran == \A t \in Thread :
           job[t].at \notin {"idle", "read", "failed"} => job[t].script \notin Broken

HeapInv == PlayInv /\ Bottom /\ Ran

LEMMA WorkKeepsJob ==
    ASSUME PlayInv, NEW t \in Thread, Works(t)
    PROVE  /\ job[t].at \in {"read", "lookup", "push", "call", "finish"}
           /\ job'[t].at \in Places \ {"idle", "read"}
           /\ job'[t].script = job[t].script
           /\ job'[t].events = job[t].events
           /\ job'[t].base = job[t].base
           /\ \A u \in Thread \ {t} : job'[u] = job[u]
           /\ up /\ UNCHANGED up
<1>1. job \in [Thread -> {Idle} \cup Job]
  BY DEF PlayInv
<1>2. CASE CallReturns(t)
  <2>1. job[t] \in Job
    BY <1>2, JobOf DEF CallReturns
  <2>. QED
    BY <1>1, <1>2, <2>1 DEF CallReturns, Job, Places
<1>3. CASE ~CallReturns(t)
  <2>1. /\ job[t].at \in {"read", "lookup", "push", "call", "finish"}
        /\ up /\ UNCHANGED up
        /\ \E place \in Places \ {"idle", "read"} : Goto(t, place)
    BY <1>3 DEF Works, Read, Lookup, PushArguments, CallFails, Finish, Places, Answered
  <2>2. PICK place \in Places \ {"idle", "read"} : Goto(t, place)
    BY <2>1
  <2>3. PICK k \in Job : /\ job' = [job EXCEPT ![t] = k]
                         /\ k.at = place
                         /\ k.script = job[t].script /\ k.events = job[t].events
                         /\ k.base = job[t].base
    BY <2>1, <2>2, GotoJob
  <2>. QED
    BY <1>1, <2>1, <2>3
<1>. QED
  BY <1>2, <1>3

LEMMA WorkKeepsPlayInv ==
    ASSUME OneThread, PlayInv, NEW t \in Thread, Works(t)
    PROVE  PlayInv'
BY ReadStep, LookupStep, PushArgumentsStep, CallReturnsStep, CallFailsStep, FinishStep
DEF Works

AllOnTop ==
    \A t \in Thread : job[t].at # "idle" =>
        \E top \in Seq(Entry) :
            /\ stack = job[t].base \o top
            /\ \/ top = <<>>
               \/ top[1] = Global
               \/ top[1] = Error /\ job[t].at = "failed"

LEMMA AllOnTopHolds == PlayInv => AllOnTop
BY OnTop DEF AllOnTop

LEMMA AllOnTopNext == PlayInv' => AllOnTop'
BY AllOnTopHolds, PTL

LEMMA WorkKeepsHeap ==
    ASSUME OneThread, HeapInv, NEW t \in Thread, Works(t)
    PROVE  HeapInv'
<1>1. PlayInv /\ PlayInv'
  BY WorkKeepsPlayInv DEF HeapInv
<1>2. /\ job[t].at # "idle" /\ job'[t].at # "idle"
      /\ job'[t].script = job[t].script /\ job'[t].base = job[t].base
      /\ \A u \in Thread \ {t} : job'[u] = job[u]
  BY <1>1, WorkKeepsJob
<1>3. Bottom'
  <2>1. PICK base \in Seq(Entry) : base = job[t].base
    BY <1>1, <1>2, JobOf
  <2>2. PICK top \in Seq(Entry) : stack = base \o top
    BY <1>1, <1>2, <2>1, OnTop
  <2>3. PICK top2 \in Seq(Entry) :
            stack' = base \o top2 /\ (top2 = <<>> \/ top2[1] \in {Global, Error})
    BY <1>1, <1>2, <2>1, AllOnTopNext DEF AllOnTop
  <2>4. CASE base = <<>>
    <3>1. stack' = top2
      BY <2>3, <2>4, ConcatEmptySeq
    <3>. QED
      BY <2>3, <3>1 DEF Bottom, Undefined, Global, Error
  <2>5. CASE base # <<>>
    <3>1. Len(base) \in Nat \ {0} /\ Len(stack) = Len(base) + Len(top)
      BY <2>2, <2>5, EmptySeq, LenProperties, ConcatProperties
    <3>2. stack[1] = base[1] /\ stack'[1] = base[1]
      BY <2>2, <2>3, <3>1, ConcatProperties
    <3>3. stack # <<>>
      BY <2>2, <3>1, EmptySeq, LenProperties
    <3>. QED
      BY <3>2, <3>3 DEF HeapInv, Bottom
  <2>. QED
    BY <2>4, <2>5
<1>4. Ran'
  <2>1. ASSUME job'[t].at # "failed" PROVE job[t].script \notin Broken
    <3>1. CASE job[t].at = "read"
      <4>1. Read(t)
        BY <3>1 DEF Works, Lookup, PushArguments, CallReturns, CallFails, Finish
      <4>2. ~Goto(t, "failed")
        BY <1>1, <1>2, <2>1, GotoPlace DEF Places, Answered
      <4>. QED
        BY <4>1, <4>2 DEF Read
    <3>2. CASE job[t].at # "read"
      BY <1>1, <3>2, WorkKeepsJob DEF HeapInv, Ran
    <3>. QED
      BY <3>1, <3>2
  <2>. QED
    BY <1>2, <2>1 DEF HeapInv, Ran
<1>. QED
  BY <1>1, <1>3, <1>4 DEF HeapInv

LEMMA PlayKeepsHeap ==
    ASSUME OneThread, HeapInv, NEW t \in Thread, NEW s \in Script, NEW es \in Seq(Event),
           Play(t, s, es)
    PROVE  HeapInv'
<1>1. PlayInv'
  BY PlayStep DEF HeapInv
<1>2. Ran' /\ Bottom'
  BY DEF HeapInv, PlayInv, Ran, Bottom, Play
<1>. QED
  BY <1>1, <1>2 DEF HeapInv

\* An abort, and what does not concern the engine.
LEMMA SameHeap ==
    ASSUME HeapInv, up' \in BOOLEAN, UNCHANGED <<stack, defined, job>>
    PROVE  HeapInv'
BY SameInv DEF HeapInv, Bottom, Ran

\* Why the process is aborted.
LEMMA AbortCause ==
    ASSUME HeapInv, NEW t \in Thread, Abort(t)
    PROVE  /\ job[t].at # "idle" /\ job[t].at \notin Answered
           /\ \/ job[t].script \in Broken
              \/ \E f \in Failing : /\ defined = {f}
                                    /\ job[t].script \in Defining => f = job[t].script
              \/ \E i \in 1..Len(job[t].events) : job[t].events[i] \in BadPayload
              \/ Len(job[t].base) + 6 > StackLimit
<1>. DEFINE j == job[t]
<1>1. PlayInv /\ Len(stack) \in Nat /\ Len(stack) <= StackLimit
  BY LenProperties DEF HeapInv, PlayInv
<1>2. CASE j.at \in {"idle"} \cup Answered
  <2>1. Need(t) = 0
    BY <1>2 DEF Need, Answered
  <2>2. Fits(t)
    BY <1>1, <2>1 DEF Fits
  <2>. QED
    BY <1>2, <2>2 DEF Abort, Answered
<1>3. CASE j.at \notin {"idle"} \cup Answered
  <2>1. PICK base \in Seq(Entry) : base = j.base
    BY <1>1, <1>3, JobOf
  <2>2. PICK n \in Nat : n = Len(base)
    BY LenProperties
  <2>3. CASE j.at = "read"
    <3>1. Len(stack) = n /\ Need(t) \in {1, 2}
      BY <1>1, <2>1, <2>2, <2>3, JobOf DEF Placed, Need
    <3>. QED
      BY <1>3, <2>1, <2>2, <2>3, <3>1, ScriptAssumption DEF Abort, Fits
  <2>4. CASE j.at = "lookup"
    <3>1. stack = base \o <<Global>>
      BY <1>1, <2>1, <2>4, JobOf DEF Placed
    <3>2. Len(stack) = n + 1 /\ stack # <<>> /\ Need(t) \in {1, 2}
      BY <2>2, <2>4, <3>1, Entries, OneOnTop DEF Need
    <3>3. Head(stack) # Undefined
      BY <3>2 DEF HeapInv, PlayInv, Bottom
    <3>. QED
      BY <1>3, <2>1, <2>2, <2>4, <3>2, <3>3, ScriptAssumption DEF Abort, Fits
  <2>5. CASE j.at = "push"
    <3>1. PICK f \in Defining : defined = {f} /\ Rounds(j, f)
      BY <1>1, <2>5, InRounds
    <3>2. PICK w : w = Left(f, j.done)
      OBVIOUS
    <3>3. w \in Seq(Entry) /\ Len(w) \in 1..3
      <4>1. Function(f) \in Entry /\ Global \in Entry
        BY Entries
      <4>. QED
        BY <3>2, <4>1, Tops DEF Left
    <3>4. stack = base \o w
      BY <2>1, <2>5, <3>1, <3>2 DEF Rounds
    <3>5. Len(stack) = n + Len(w) /\ Need(t) = 3
      BY <2>2, <2>5, <3>3, <3>4, ConcatProperties DEF Need
    <3>6. j.done + 1 \in 1..Len(j.events)
      BY <1>1, <1>3, <2>5, <3>1, JobOf DEF Rounds
    <3>7. ~Fits(t) \/ NextEvent(t) \in BadPayload
      BY <2>5 DEF Abort
    <3>8. CASE ~Fits(t)
      <4>1. n + 6 > StackLimit
        <5>1. PICK m \in 1..3 : m = Len(w)
          BY <3>3
        <5>2. Len(stack) + Need(t) = n + m + 3
          BY <3>5, <5>1
        <5>3. ~(n + m + 3 <= StackLimit)
          BY <3>8, <5>2 DEF Fits
        <5>. QED
          BY <5>3, ScriptAssumption
      <4>. QED
        BY <1>3, <2>1, <2>2, <4>1
    <3>9. CASE NextEvent(t) \in BadPayload
      <4>1. j.events[j.done + 1] \in BadPayload
        BY <3>9 DEF NextEvent
      <4>. QED
        BY <1>3, <3>6, <4>1
    <3>. QED
      BY <3>7, <3>8, <3>9
  <2>6. CASE j.at = "call"
    <3>1. PICK f \in Defining : defined = {f} /\ Rounds(j, f)
      BY <1>1, <2>6, InRounds
    <3>2. Len(stack) >= 3 /\ Callee = CalleeAt(f, j.done)
      <4>1. Callee = CalleeAt(f, j.done)
        BY <1>1, <2>6, <3>1, InCall
      <4>2. PICK b \in Seq(Entry) : Len(stack) = Len(b) + 3
        BY <1>1, <2>6, <3>1, InCall
      <4>3. Len(b) \in Nat
        BY LenProperties
      <4>. QED
        BY <4>1, <4>2, <4>3
    <3>3. Need(t) = 0
      BY <2>6 DEF Need
    <3>4. IsFunction(Callee) /\ Callee.of \in Failing
      BY <1>1, <2>6, <3>2, <3>3 DEF Abort, Fits
    <3>5. f \in Failing
      BY <3>2, <3>4, Kinds DEF CalleeAt
    <3>. QED
      BY <1>3, <3>1, <3>5 DEF Rounds
  <2>7. CASE j.at = "finish"
    <3>1. PICK f \in Defining : Rounds(j, f)
      BY <1>1, <2>7, InRounds
    <3>2. PICK w : w = Left(f, j.done)
      OBVIOUS
    <3>3. w \in Seq(Entry) /\ Len(w) \in 1..3
      <4>1. Function(f) \in Entry /\ Global \in Entry
        BY Entries
      <4>. QED
        BY <3>2, <4>1, Tops DEF Left
    <3>4. stack = base \o w
      BY <2>1, <2>7, <3>1, <3>2 DEF Rounds
    <3>5. Len(stack) = n + Len(w) /\ Need(t) = 0
      BY <2>2, <2>7, <3>3, <3>4, ConcatProperties DEF Need
    <3>6. stack # <<>>
      <4>1. Len(stack) # 0
        BY <2>2, <3>3, <3>5
      <4>. QED
        BY <4>1, EmptySeq
    <3>. QED
      BY <1>1, <2>7, <3>5, <3>6 DEF Abort, Fits
  <2>. QED
    BY <1>1, <1>3, <2>3, <2>4, <2>5, <2>6, <2>7, JobOf DEF Job, Places
<1>. QED
  BY <1>2, <1>3

\* On a fresh heap a faultless play of two events at most does not fail.
LEMMA FirstWorks ==
    ASSUME OneThread, HeapInv, StackLimit >= 6, NEW t \in Thread,
           job[t].base = <<>>, job[t].at # "failed",
           Sound(job[t]), Len(job[t].events) <= 2
    PROVE  /\ Works(t) => job'[t].at # "failed"
           /\ ~Abort(t)
<1>1. PlayInv
  BY DEF HeapInv
<1>2. ASSUME Works(t), job'[t].at = "failed" PROVE FALSE
  <2>1. Next
    BY <1>2 DEF Works, Next
  <2>2. Poisoned
    BY <1>1, <1>2, <2>1, NextSoundPlays DEF SoundPlays
  <2>3. PICK top \in Seq(Entry) :
            stack = job[t].base \o top /\ (top = <<>> \/ top[1] = Global)
    BY <1>1, <1>2, OnTop, WorkKeepsJob
  <2>4. stack = top
    BY <2>3, ConcatEmptySeq
  <2>. QED
    BY <2>2, <2>3, <2>4 DEF Poisoned
<1>3. ASSUME Abort(t) PROVE FALSE
  <2>1. Len(job[t].base) + 6 <= StackLimit
    BY EmptySeq, ScriptAssumption
  <2>2. job[t].at # "idle"
    BY <1>3, AbortCause
  <2>3. DOMAIN job[t].events = 1..Len(job[t].events)
    BY <1>1, <2>2, JobOf, LenProperties
  <2>4. /\ job[t].script \notin Broken /\ job[t].script \in Defining
        /\ job[t].script \notin Failing
        /\ \A i \in 1..Len(job[t].events) : job[t].events[i] \notin BadPayload
    BY <2>3 DEF Sound
  <2>5. Len(job[t].base) \in Nat /\ ~(Len(job[t].base) + 6 > StackLimit)
    BY <2>1, EmptySeq, ScriptAssumption
  <2>. QED
    BY <1>3, <2>4, <2>5, AbortCause
<1>. QED
  BY <1>2, <1>3

\* A request that is answered is forgotten by the engine.
LEMMA AnswerKeepsHeap ==
    ASSUME OneThread, HeapInv, NEW t \in Thread, job' = [job EXCEPT ![t] = Idle],
           UNCHANGED <<up, stack, defined>>
    PROVE  HeapInv'
<1>1. job'[t] = Idle /\ job' \in [Thread -> {Idle} \cup Job] /\ Idle.at = "idle"
  BY DEF HeapInv, PlayInv, Idle
<1>2. \A u \in Thread : job'[u] = Idle
  BY <1>1 DEF OneThread
<1>. QED
  BY <1>1, <1>2 DEF HeapInv, PlayInv, Bottom, Ran

LEMMA InitHeap == Init => HeapInv
<1>. SUFFICES ASSUME Init PROVE HeapInv
  OBVIOUS
<1>1. PlayInv
  BY InitPlayInv
<1>2. Ran /\ Bottom
  BY DEF Init, Ran, Bottom, Idle
<1>. QED
  BY <1>1, <1>2 DEF HeapInv

LEMMA StartKeepsHeap ==
    ASSUME up' = TRUE, stack' = <<>>, defined' = {}, job' = [t \in Thread |-> Idle]
    PROVE  HeapInv'
<1>1. stack' \in Seq(Entry) /\ Len(stack') <= StackLimit
  BY ScriptAssumption
<1>2. job' \in [Thread -> {Idle} \cup Job] /\ \A t \in Thread : job'[t] = Idle
  OBVIOUS
<1>. QED
  BY <1>1, <1>2 DEF HeapInv, PlayInv, Bottom, Ran, Idle
---------------------------------------------------------------------------
(* Any number of threads.  Plays that overlap find each other's entries on  *)
(* the stack, so nothing is known there of what a call gets; a job and its   *)
(* place in the loop are its thread's own.                                   *)

Stacked(s) ==
    /\ s \in Seq(ToSet(s))
    /\ \A x \in ToSet(s) : x \in Slots \/ x.kind = "state"

JobOK(j) ==
    /\ j \in [at : Places \ {"idle"}, script : Script, events : Seq(Event), done : Nat,
              state : {j.state}, base : {j.base}]
    /\ j.at = "read" => j.done = 0
    /\ j.at \in {"lookup", "push", "call"} => j.done < Len(j.events)
    /\ j.at \in {"finish", "ok"} => j.done = Len(j.events)
    /\ j.at \notin {"read", "failed"} => j.script \notin Broken

SharedInv ==
    /\ up \in BOOLEAN
    /\ Stacked(stack) /\ Len(stack) <= StackLimit
    /\ defined \in {{}} \cup {{f} : f \in Defining}
    /\ job = [t \in Thread |-> job[t]]
    /\ \A t \in Thread : job[t] = Idle \/ JobOK(job[t])

LEMMA StackedIs ==
    ASSUME NEW S, NEW s \in Seq(S), \A x \in S : x \in Slots \/ x.kind = "state"
    PROVE  Stacked(s)
<1>1. \A i \in 1..Len(s) : s[i] \in S /\ s[i] \in ToSet(s)
  BY ElementOfSeq DEF ToSet
<1>2. s \in Seq(ToSet(s))
  <2>1. s \in [1..Len(s) -> ToSet(s)] /\ Len(s) \in Nat
    BY <1>1, LenProperties
  <2>. QED
    BY <2>1
<1>3. ToSet(s) \subseteq S
  BY <1>1, LenProperties DEF ToSet
<1>. QED
  BY <1>2, <1>3 DEF Stacked

LEMMA StackedEmpty == Stacked(<<>>) /\ Len(<<>>) = 0
<1>1. PICK S : S = {}
  OBVIOUS
<1>2. <<>> \in Seq(S) /\ Len(<<>>) = 0
  BY EmptySeq
<1>3. \A x \in S : x \in Slots \/ x.kind = "state"
  BY <1>1
<1>4. PICK s : s = <<>>
  OBVIOUS
<1>5. Stacked(s)
  BY <1>2, <1>3, <1>4, StackedIs
<1>. QED
  BY <1>2, <1>4, <1>5

LEMMA StackedOn ==
    ASSUME NEW s, Stacked(s), NEW x, NEW y,
           x \in Slots \/ x.kind = "state", y \in Slots \/ y.kind = "state"
    PROVE  /\ Len(s) \in Nat
           /\ Stacked(Append(s, x)) /\ Len(Append(s, x)) = Len(s) + 1
           /\ Stacked(s \o <<x, y>>) /\ Len(s \o <<x, y>>) = Len(s) + 2
<1>1. PICK S : S = ToSet(s) \cup {x, y}
  OBVIOUS
<1>2. s \in Seq(S) /\ Len(s) \in Nat /\ \A z \in S : z \in Slots \/ z.kind = "state"
  BY <1>1, LenProperties DEF Stacked
<1>3. x \in S /\ <<x, y>> \in Seq(S) /\ Len(<<x, y>>) = 2
  BY <1>1
<1>4. Append(s, x) \in Seq(S) /\ Len(Append(s, x)) = Len(s) + 1
  BY <1>2, <1>3, AppendProperties
<1>5. s \o <<x, y>> \in Seq(S) /\ Len(s \o <<x, y>>) = Len(s) + 2
  BY <1>2, <1>3, ConcatProperties
<1>6. Stacked(Append(s, x))
  BY <1>2, <1>4, StackedIs
<1>7. Stacked(s \o <<x, y>>)
  BY <1>2, <1>5, StackedIs
<1>. QED
  BY <1>2, <1>4, <1>5, <1>6, <1>7

LEMMA StackedBelow ==
    ASSUME NEW s, Stacked(s), NEW n \in Nat, n <= Len(s)
    PROVE  Stacked(SubSeq(s, 1, n)) /\ Len(SubSeq(s, 1, n)) = n
<1>1. PICK S : S = ToSet(s)
  OBVIOUS
<1>2. s \in Seq(S) /\ Len(s) \in Nat /\ \A z \in S : z \in Slots \/ z.kind = "state"
  BY <1>1, LenProperties DEF Stacked
<1>3. \A i \in 1..n : s[i] \in S
  BY <1>2, ElementOfSeq
<1>4. SubSeq(s, 1, n) \in Seq(S) /\ Len(SubSeq(s, 1, n)) = n
  BY <1>2, <1>3, SubSeqProperties
<1>. QED
  BY <1>2, <1>4, StackedIs

LEMMA Kept ==
    /\ Global \in Slots /\ Error \in Slots /\ Text \in Slots /\ Undefined \in Slots
    /\ \A f \in Defining : Function(f) \in Slots
    /\ \A e \in Event : EventArg(e) \in Slots
    /\ \A h : StateArg(h).kind = "state"
BY DEF Slots, StateArg

LEMMA JobFacts ==
    ASSUME NEW j, JobOK(j)
    PROVE  /\ j.at \in Places /\ j.at # "idle" /\ j # Idle
           /\ j.script \in Script /\ j.events \in Seq(Event) /\ j.done \in Nat
           /\ Len(j.events) \in Nat
           /\ \A i \in 1..Len(j.events) : j.events[i] \in Event
<1>1. /\ j.at \in Places \ {"idle"} /\ j.script \in Script /\ j.events \in Seq(Event)
      /\ j.done \in Nat
  BY DEF JobOK
<1>2. j # Idle
  BY <1>1 DEF Idle
<1>. QED
  BY <1>1, <1>2, LenProperties, ElementOfSeq

LEMMA SharedJob ==
    ASSUME SharedInv, NEW t \in Thread, job[t].at # "idle"
    PROVE  JobOK(job[t])
BY DEF SharedInv, Idle

\* A step of thread t, whatever the others are at.
LEMMA SharedStep ==
    ASSUME SharedInv, NEW t \in Thread, NEW k, job' = [job EXCEPT ![t] = k],
           k = Idle \/ JobOK(k), up' \in BOOLEAN, Stacked(stack'), Len(stack') <= StackLimit,
           defined' \in {{}} \cup {{f} : f \in Defining}
    PROVE  SharedInv'
<1>1. DOMAIN job = Thread
  BY DEF SharedInv
<1>2. /\ job' = [u \in Thread |-> job'[u]] /\ job'[t] = k
      /\ \A u \in Thread : u # t => job'[u] = job[u]
  BY <1>1
<1>3. \A u \in Thread : job'[u] = Idle \/ JobOK(job'[u])
  BY <1>2 DEF SharedInv
<1>. QED
  BY <1>2, <1>3 DEF SharedInv, JobOK, Stacked

\* A step that takes thread t to another place.
LEMMA SharedGoto ==
    ASSUME NEW t \in Thread, job = [u \in Thread |-> job[u]], JobOK(job[t]),
           NEW place \in Places \ {"idle", "read"}, Goto(t, place),
           place \in {"lookup", "push", "call"} => job[t].done < Len(job[t].events),
           place \in {"finish", "ok"} => job[t].done = Len(job[t].events),
           place \notin {"read", "failed"} => job[t].script \notin Broken
    PROVE  \E k : /\ job' = [job EXCEPT ![t] = k] /\ JobOK(k) /\ k.at = place
                  /\ k.script = job[t].script /\ k.events = job[t].events
                  /\ k.base = job[t].base
<1>1. PICK j : j = job[t]
  OBVIOUS
<1>2. PICK k : k = [at |-> place, script |-> j.script, events |-> j.events,
                    done |-> j.done, state |-> j.state, base |-> j.base]
  OBVIOUS
<1>3. k = [j EXCEPT !.at = place]
  BY <1>1, <1>2 DEF JobOK
<1>4. job' = [job EXCEPT ![t] = k]
  BY <1>1, <1>3 DEF Goto
<1>5. JobOK(k)
  BY <1>1, <1>2 DEF JobOK
<1>6. /\ k.at = place /\ k.script = job[t].script /\ k.events = job[t].events
      /\ k.base = job[t].base
  BY <1>1, <1>2
<1>. QED
  BY <1>4, <1>5, <1>6

\* What a step leaves of the stack, place by place.
LEMMA SharedStack ==
    ASSUME SharedInv, NEW t \in Thread, Works(t)
    PROVE  Stacked(stack') /\ Len(stack') <= StackLimit
<1>1. /\ Stacked(stack) /\ Len(stack) \in Nat /\ Len(stack) <= StackLimit
      /\ StackLimit \in Nat
  BY StackedOn, Kept, ScriptAssumption DEF SharedInv
<1>2. CASE Read(t)
  <2>1. CASE stack' = Append(stack, Global) /\ job[t].script \notin Broken
    <3>1. Len(stack) + 1 <= StackLimit
      BY <1>2, <2>1 DEF Read, Fits, Need
    <3>. QED
      BY <1>1, <2>1, <3>1, StackedOn, Kept
  <2>2. CASE stack' = stack \o <<Error, Text>> /\ job[t].script \in Broken
    <3>1. Len(stack) + 2 <= StackLimit
      BY <1>2, <2>2 DEF Read, Fits, Need
    <3>. QED
      BY <1>1, <2>2, <3>1, StackedOn, Kept
  <2>. QED
    BY <1>2, <2>1, <2>2 DEF Read
<1>3. CASE Lookup(t)
  <2>1. ASSUME NEW f \in defined, Found, stack' = stack \o <<Function(f), Function(f)>>
        PROVE  Stacked(stack') /\ Len(stack') <= StackLimit
    <3>1. Len(stack) + 2 <= StackLimit
      BY <1>3, <2>1 DEF Lookup, Fits, Need
    <3>2. f \in Defining
      BY DEF SharedInv
    <3>. QED
      BY <1>1, <2>1, <3>1, <3>2, StackedOn, Kept
  <2>2. CASE ~Found /\ stack' = Append(stack, Undefined)
    <3>1. Len(stack) + 1 <= StackLimit
      BY <1>3, <2>2 DEF Lookup, Fits, Need
    <3>. QED
      BY <1>1, <2>2, <3>1, StackedOn, Kept
  <2>3. CASE stack' = stack
    BY <1>1, <2>3
  <2>. QED
    BY <1>3, <2>1, <2>2, <2>3 DEF Lookup
<1>4. CASE PushArguments(t)
  <2>1. /\ Len(stack) + 3 <= StackLimit /\ job[t].at = "push"
        /\ stack' = stack \o <<EventArg(NextEvent(t)), StateArg(job[t].state)>>
    BY <1>4 DEF PushArguments, Fits, Need
  <2>2. NextEvent(t) \in Event
    <3>1. JobOK(job[t])
      BY <2>1, SharedJob
    <3>2. job[t].done < Len(job[t].events)
      BY <2>1, <3>1 DEF JobOK
    <3>. QED
      BY <3>1, <3>2, JobFacts DEF NextEvent
  <2>3. PICK x, y : x = EventArg(NextEvent(t)) /\ y = StateArg(job[t].state)
    OBVIOUS
  <2>4. x \in Slots /\ y.kind = "state" /\ stack' = stack \o <<x, y>>
    BY <2>1, <2>2, <2>3, Kept
  <2>5. Stacked(stack') /\ Len(stack') = Len(stack) + 2
    BY <1>1, <2>4, StackedOn
  <2>. QED
    BY <1>1, <2>1, <2>5
<1>5. ASSUME Len(stack) >= 3
      PROVE  Stacked(BelowCall) /\ Len(BelowCall) = Len(stack) - 3
  <2>1. Len(stack) - 3 \in Nat /\ Len(stack) - 3 <= Len(stack)
    BY <1>1, <1>5
  <2>. QED
    BY <1>1, <2>1, StackedBelow DEF BelowCall
<1>6. CASE CallReturns(t)
  <2>1. Len(stack) >= 3 /\ stack' = BelowCall
    BY <1>6 DEF CallReturns
  <2>. QED
    BY <1>1, <1>5, <2>1
<1>7. CASE CallFails(t)
  <2>1. /\ Len(stack) >= 3
        /\ stack' = BelowCall \o <<Error, Text>> \/ stack' = Append(BelowCall, Undefined)
    BY <1>7 DEF CallFails
  <2>2. PICK b : b = BelowCall
    OBVIOUS
  <2>3. Stacked(b) /\ Len(b) = Len(stack) - 3
    BY <1>5, <2>1, <2>2
  <2>4. Len(b) \in Nat /\ Len(b) + 2 <= StackLimit /\ Len(b) + 1 <= StackLimit
    BY <1>1, <2>1, <2>3
  <2>5. CASE stack' = b \o <<Error, Text>>
    BY <2>3, <2>4, <2>5, StackedOn, Kept
  <2>6. CASE stack' = Append(b, Undefined)
    BY <2>3, <2>4, <2>6, StackedOn, Kept
  <2>. QED
    BY <2>1, <2>2, <2>5, <2>6
<1>8. CASE Finish(t)
  <2>1. stack # <<>> /\ stack' = SubSeq(stack, 1, Len(stack) - 1)
    BY <1>8 DEF Finish, Front
  <2>2. Len(stack) # 0
    BY <1>1, <2>1, EmptySeq DEF Stacked
  <2>3. Len(stack) - 1 \in Nat /\ Len(stack) - 1 <= Len(stack)
    BY <1>1, <2>2
  <2>4. Stacked(stack') /\ Len(stack') = Len(stack) - 1
    BY <1>1, <2>1, <2>3, StackedBelow
  <2>. QED
    BY <1>1, <2>4
<1>. QED
  BY <1>2, <1>3, <1>4, <1>6, <1>7, <1>8 DEF Works

\* A call that returns counts, and its result is the state of the next one.
LEMMA SharedReturns ==
    ASSUME SharedInv, NEW t \in Thread, CallReturns(t)
    PROVE  \E k : /\ job' = [job EXCEPT ![t] = k] /\ JobOK(k)
                  /\ k.script = job[t].script /\ k.events = job[t].events
                  /\ k.base = job[t].base
<1>1. PICK j : j = job[t]
  OBVIOUS
<1>2. j.at = "call" /\ JobOK(j)
  BY <1>1, SharedJob DEF CallReturns
<1>3. PICK n \in Nat : n = Len(j.events)
  BY <1>2, JobFacts
<1>4. j.done < n /\ j.done \in Nat /\ j.script \notin Broken
  BY <1>2, <1>3, JobFacts DEF JobOK
<1>5. PICK h : h = Applied(Callee.of, Arguments)
  OBVIOUS
<1>6. PICK at : at = IF j.done + 1 = n THEN "finish" ELSE "push"
  OBVIOUS
<1>7. PICK m : m = j.done + 1
  OBVIOUS
<1>8. PICK k : k = [at |-> at, script |-> j.script, events |-> j.events,
                    done |-> m, state |-> h, base |-> j.base]
  OBVIOUS
<1>9. k = [j EXCEPT !.state = h, !.done = m, !.at = at]
  <2>1. PICK a : a = [at |-> j.at, script |-> j.script, events |-> j.events,
                      done |-> j.done, state |-> h, base |-> j.base]
    OBVIOUS
  <2>2. PICK b : b = [at |-> j.at, script |-> j.script, events |-> j.events,
                      done |-> m, state |-> h, base |-> j.base]
    OBVIOUS
  <2>3. a = [j EXCEPT !.state = h]
    BY <1>2, <2>1 DEF JobOK
  <2>4. b = [a EXCEPT !.done = m]
    BY <2>1, <2>2
  <2>5. k = [b EXCEPT !.at = at]
    BY <1>8, <2>2
  <2>. QED
    BY <2>3, <2>4, <2>5
<1>10. job' = [job EXCEPT ![t] = k]
  <2>1. job' = [job EXCEPT ![t].state = h, ![t].done = @ + 1, ![t].at = at]
    BY <1>1, <1>3, <1>5, <1>6 DEF CallReturns
  <2>2. PICK U : U = {job[u] : u \in Thread}
    OBVIOUS
  <2>3. job \in [Thread -> U] /\ j = job[t]
    BY <1>1, <2>2 DEF SharedInv
  <2>4. job' = [job EXCEPT ![t] = [j EXCEPT !.state = h, !.done = m, !.at = at]]
    BY <1>7, <2>1, <2>3
  <2>. QED
    BY <1>9, <2>4
<1>11. /\ at \in Places \ {"idle", "read"} /\ m \in Nat
       /\ at \in {"lookup", "push", "call"} => m < n
       /\ at \in {"finish", "ok"} => m = n
  BY <1>3, <1>4, <1>6, <1>7 DEF Places
<1>12. JobOK(k)
  BY <1>2, <1>3, <1>4, <1>8, <1>11 DEF JobOK
<1>13. k.script = j.script /\ k.events = j.events /\ k.base = j.base
  BY <1>8
<1>. QED
  BY <1>1, <1>10, <1>12, <1>13

LEMMA WorkKeepsShared ==
    ASSUME SharedInv, NEW t \in Thread, Works(t)
    PROVE  \E k : /\ SharedInv' /\ up /\ UNCHANGED up
                  /\ job[t].at \notin {"idle", "ok", "failed"}
                  /\ job' = [job EXCEPT ![t] = k] /\ JobOK(k)
                  /\ k.script = job[t].script /\ k.events = job[t].events
                  /\ k.base = job[t].base
<1>1. PICK j : j = job[t]
  OBVIOUS
<1>2. /\ j.at \in {"read", "lookup", "push", "call", "finish"} /\ up /\ UNCHANGED up
      /\ JobOK(j)
  <2>1. j.at \in {"read", "lookup", "push", "call", "finish"} /\ up /\ UNCHANGED up
    BY <1>1 DEF Works, Read, Lookup, PushArguments, CallReturns, CallFails, Finish
  <2>. QED
    BY <1>1, <2>1, SharedJob
<1>3. defined' \in {{}} \cup {{f} : f \in Defining}
  BY DEF SharedInv, Works, Read, Lookup, PushArguments, CallReturns, CallFails, Finish
<1>4. \E k : /\ job' = [job EXCEPT ![t] = k] /\ JobOK(k)
             /\ k.script = j.script /\ k.events = j.events /\ k.base = j.base
  <2>1. CASE CallReturns(t)
    BY <1>1, <2>1, SharedReturns
  <2>2. ASSUME NEW place \in Places \ {"idle", "read"}, Goto(t, place),
               place \in {"lookup", "push", "call"} => j.done < Len(j.events),
               place \in {"finish", "ok"} => j.done = Len(j.events),
               place \notin {"read", "failed"} => j.script \notin Broken
        PROVE  \E k : /\ job' = [job EXCEPT ![t] = k] /\ JobOK(k)
                      /\ k.script = j.script /\ k.events = j.events /\ k.base = j.base
    BY <1>1, <1>2, <2>2, SharedGoto DEF SharedInv
  <2>3. {"ok", "failed", "lookup", "push", "call"} \subseteq Places \ {"idle", "read"}
    BY DEF Places, Answered
  <2>4. CASE Read(t)
    <3>1. CASE j.script \in Broken
      BY <1>1, <2>2, <2>3, <2>4, <3>1 DEF Read
    <3>2. CASE j.script \notin Broken /\ j.events = <<>>
      <4>1. j.done = Len(j.events)
        BY <1>1, <1>2, <2>4, <3>2 DEF Read, JobOK
      <4>. QED
        BY <1>1, <2>2, <2>3, <2>4, <3>2, <4>1 DEF Read
    <3>3. CASE j.script \notin Broken /\ j.events # <<>>
      <4>1. j.done < Len(j.events)
        BY <1>1, <1>2, <2>4, <3>3, JobFacts, EmptySeq DEF Read, JobOK
      <4>. QED
        BY <1>1, <2>2, <2>3, <2>4, <3>3, <4>1 DEF Read
    <3>. QED
      BY <3>1, <3>2, <3>3
  <2>5. CASE Lookup(t)
    BY <1>1, <1>2, <2>2, <2>3, <2>5 DEF Lookup, JobOK
  <2>6. CASE PushArguments(t)
    BY <1>1, <1>2, <2>2, <2>3, <2>6 DEF PushArguments, JobOK
  <2>7. CASE CallFails(t)
    BY <1>1, <2>2, <2>3, <2>7 DEF CallFails
  <2>8. CASE Finish(t)
    BY <1>1, <1>2, <2>2, <2>3, <2>8 DEF Finish, JobOK
  <2>. QED
    BY <2>1, <2>4, <2>5, <2>6, <2>7, <2>8 DEF Works
<1>5. PICK k : /\ job' = [job EXCEPT ![t] = k] /\ JobOK(k)
               /\ k.script = j.script /\ k.events = j.events /\ k.base = j.base
  BY <1>4
<1>6. up' \in BOOLEAN
  BY <1>2 DEF SharedInv
<1>7. SharedInv'
  BY <1>3, <1>5, <1>6, SharedStack, SharedStep
<1>. QED
  BY <1>1, <1>2, <1>5, <1>7

LEMMA PlayKeepsShared ==
    ASSUME SharedInv, NEW t \in Thread, NEW s \in Script, NEW es \in Seq(Event),
           Play(t, s, es)
    PROVE  \E k : /\ SharedInv' /\ up /\ UNCHANGED up
                  /\ job' = [job EXCEPT ![t] = k] /\ JobOK(k)
                  /\ k.script = s /\ k.events = es
<1>1. PICK k : k = [at |-> "read", script |-> s, events |-> es, done |-> 0,
                    state |-> <<>>, base |-> stack]
  OBVIOUS
<1>2. /\ job' = [job EXCEPT ![t] = k] /\ up /\ UNCHANGED <<up, stack, defined>>
      /\ k.script = s /\ k.events = es
  BY <1>1 DEF Play
<1>3. JobOK(k)
  BY <1>1 DEF JobOK, Places
<1>4. /\ up' \in BOOLEAN /\ Stacked(stack') /\ Len(stack') <= StackLimit
      /\ defined' \in {{}} \cup {{f} : f \in Defining}
  BY <1>2 DEF SharedInv
<1>5. SharedInv'
  BY <1>2, <1>3, <1>4, SharedStep
<1>. QED
  BY <1>2, <1>3, <1>5

\* An abort, and what does not concern the engine.
LEMMA SameShared ==
    ASSUME SharedInv, up' \in BOOLEAN, UNCHANGED <<stack, defined, job>>
    PROVE  SharedInv'
BY DEF SharedInv

\* The answer is sent and forgotten.
LEMMA AnswerKeepsShared ==
    ASSUME SharedInv, NEW t \in Thread, job' = [job EXCEPT ![t] = Idle],
           UNCHANGED <<up, stack, defined>>
    PROVE  SharedInv'
<1>1. /\ up' \in BOOLEAN /\ Stacked(stack') /\ Len(stack') <= StackLimit
      /\ defined' \in {{}} \cup {{f} : f \in Defining}
  BY DEF SharedInv
<1>. QED
  BY <1>1, SharedStep

LEMMA InitShared == Init => SharedInv
<1>. SUFFICES ASSUME Init PROVE SharedInv
  OBVIOUS
<1>1. Stacked(<<>>) /\ Len(<<>>) = 0
  BY StackedEmpty
<1>2. job = [t \in Thread |-> job[t]] /\ \A t \in Thread : job[t] = Idle
  BY DEF Init
<1>. QED
  BY <1>1, <1>2, ScriptAssumption DEF Init, SharedInv

LEMMA StartKeepsShared ==
    ASSUME up' = TRUE, stack' = <<>>, defined' = {}, job' = [t \in Thread |-> Idle]
    PROVE  SharedInv'
<1>1. Stacked(<<>>) /\ Len(<<>>) = 0
  BY StackedEmpty
<1>2. Stacked(stack')
  BY <1>1
<1>3. Len(stack') <= StackLimit
  BY <1>1, ScriptAssumption
<1>4. job' = [t \in Thread |-> job'[t]] /\ \A t \in Thread : job'[t] = Idle
  OBVIOUS
<1>. QED
  BY <1>2, <1>3, <1>4 DEF SharedInv, Stacked

LEMMA NextShared == SharedInv /\ [Next]_vars => SharedInv'
<1>. SUFFICES ASSUME SharedInv, [Next]_vars PROVE SharedInv'
  OBVIOUS
<1>1. ASSUME NEW t \in Thread, NEW s \in Script, NEW es \in Streams, Play(t, s, es)
      PROVE  SharedInv'
  BY <1>1, PlayKeepsShared, StreamsAreSequences
<1>2. ASSUME NEW t \in Thread, Works(t) PROVE SharedInv'
  BY <1>2, WorkKeepsShared
<1>3. ASSUME NEW t \in Thread, Abort(t) PROVE SharedInv'
  BY <1>3, SameShared DEF Abort
<1>4. CASE UNCHANGED vars
  BY <1>4, SameShared DEF vars, SharedInv
<1>. QED
  BY <1>1, <1>2, <1>3, <1>4 DEF Next, Works

\* However many plays overlap: the stack holds entries of the known kinds, and each
\* job is at a place of the loop that its count of calls allows.
THEOREM SharedInvariant == Spec => []SharedInv
<1>. QED
  BY InitShared, NextShared, PTL DEF Spec

LEMMA SharedTypes == SharedInv => TypeOK
<1>. SUFFICES ASSUME SharedInv PROVE TypeOK
  OBVIOUS
<1>1. \A i \in DOMAIN stack : stack[i] \in Slots \/ stack[i].kind = "state"
  BY DEF SharedInv, Stacked, ToSet
<1>2. \A t \in Thread : job[t].at \in Places
  BY JobFacts DEF SharedInv, Idle, Places
<1>. QED
  BY <1>1, <1>2 DEF SharedInv, TypeOK

\* One global function at most, entries of the known kinds, and the stack within
\* its limit, however many plays overlap.
THEOREM TypeCorrect == Spec => []TypeOK
<1>. QED
  BY SharedInvariant, SharedTypes, PTL

\* However many plays overlap, none gets an answer from a script that does not run,
\* and none after fewer calls, or more, than it has events.
AnswersAreWhole ==
    \A t \in Thread : job[t].at = "ok" =>
        job[t].script \notin Broken /\ job[t].done = Len(job[t].events)

THEOREM AnswersAreWholeHolds == Spec => []AnswersAreWhole
<1>1. SharedInv => AnswersAreWhole
  BY SharedJob DEF AnswersAreWhole, JobOK
<1>. QED
  BY <1>1, SharedInvariant, PTL
===========================================================================
