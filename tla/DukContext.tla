---------------------------- MODULE DukContext ----------------------------
(***************************************************************************)
(* Playing a projection: Action_handler::play_projection and the Duktape   *)
(* context it runs JavaScript in.  A server has one Duktape heap for its   *)
(* whole life, with one value stack; every Play request works on it, and   *)
(* the gRPC server runs requests on several threads without a lock around  *)
(* the heap.                                                               *)
(*                                                                         *)
(* The value stack is modelled entry by entry, because its height and its  *)
(* bottom decide what a later play does.  JavaScript is abstracted to what *)
(* the C++ code can tell apart: whether a script runs, whether it defines  *)
(* a global function "projection", and how a call of that function ends.   *)
(* A state is the sequence of calls that produced it.                      *)
(*                                                                         *)
(* Threads interleave between calls of the Duktape API, which is a lower   *)
(* bound of what a data race inside Duktape can do.                        *)
(***************************************************************************)
EXTENDS Naturals, Sequences, SequencesExt

CONSTANTS
    Thread,      \* threads that handle Play requests
    Script,      \* JavaScript sources of projections
    Defining,    \* those that define the function "projection"
    Broken,      \* those whose evaluation ends with an uncaught error, maybe after defining it
    Failing,     \* those whose function may throw, or return nothing that JSON can hold
    Event,       \* events of streams
    BadPayload,  \* those whose payload is not JSON text
    MaxEvents,   \* bound on the length of a played stream
    StackLimit   \* entries the value stack may hold (64 in Duktape, by DUK_API_ENTRY_STACK)

ASSUME ScriptAssumption ==
    /\ Defining \subseteq Script
    /\ Broken \subseteq Script
    /\ Failing \subseteq Defining
    /\ BadPayload \subseteq Event
    /\ MaxEvents \in Nat
    /\ StackLimit \in Nat

VARIABLES
    up,          \* the process has not been aborted by Duktape's fatal handler
    stack,       \* the value stack, bottom first
    defined,     \* the script that the global "projection" comes from: {} or {f}
    job          \* thread -> the Play request it works on, or has answered

vars == <<up, stack, defined, job>>

---------------------------------------------------------------------------
(* Entries of the value stack.                                             *)

Global == [kind |-> "global"]
Error == [kind |-> "error"]
Text == [kind |-> "text"]
Undefined == [kind |-> "undefined"]
Function(f) == [kind |-> "function", of |-> f]
EventArg(e) == [kind |-> "event", of |-> e]
StateArg(s) == [kind |-> "state", of |-> s]

\* The property "projection" of the bottom entry exists.
Found == stack # <<>> /\ Head(stack) = Global /\ defined # {}

\* Entries that the next step of t needs above the present ones.
Need(t) ==
    CASE job[t].at = "read"   -> IF job[t].script \in Broken THEN 2 ELSE 1
      [] job[t].at = "lookup" -> IF Found THEN 2 ELSE 1
      [] job[t].at = "push"   -> 3
      [] OTHER                -> 0

Fits(t) == Len(stack) + Need(t) <= StackLimit

Idle == [at |-> "idle"]
Answered == {"ok", "failed"}

Goto(t, place) == job' = [job EXCEPT ![t].at = place]

\* The event of the loop's next round.
NextEvent(t) == job[t].events[job[t].done + 1]

---------------------------------------------------------------------------
(* One Play request.                                                       *)

\* play_projection has fetched the projection and the events.
Play(t, s, es) ==
    /\ up
    /\ job[t].at \in Answered \cup {"idle"}
    /\ job' = [job EXCEPT ![t] = [at |-> "read", script |-> s, events |-> es, done |-> 0,
                                  state |-> <<>>, base |-> stack]]
    /\ UNCHANGED <<up, stack, defined>>

\* Mutation of Read: a function defined before is not replaced.
ReadKeepsFunctions(t) ==
    /\ up
    /\ job[t].at = "read"
    /\ Fits(t)
    /\ job[t].script \notin Broken
    /\ defined' = defined \cup ({job[t].script} \cap Defining)
    /\ stack' = Append(stack, Global)
    /\ Goto(t, IF job[t].events = <<>> THEN "ok" ELSE "lookup")
    /\ UNCHANGED up

\* read: the result of a script is popped, the global object stays.  A failed
\* script leaves its error and the text of its stack trace.
Read(t) ==
    /\ up
    /\ job[t].at = "read"
    /\ Fits(t)
    /\ defined' = IF job[t].script \in Defining THEN {job[t].script} ELSE defined
    /\ \/ /\ job[t].script \notin Broken
          /\ stack' = Append(stack, Global)
          /\ Goto(t, IF job[t].events = <<>> THEN "ok" ELSE "lookup")
       \/ /\ job[t].script \in Broken
          /\ stack' = stack \o <<Error, Text>>
          /\ Goto(t, "failed")
    /\ UNCHANGED up

\* Mutation of Lookup: the function is pushed once.
LookupOnce(t) ==
    /\ up
    /\ job[t].at = "lookup"
    /\ Fits(t)
    /\ \/ /\ Found
          /\ \E f \in defined : stack' = Append(stack, Function(f))
          /\ Goto(t, "push")
       \/ /\ ~Found
          /\ stack # <<>> => Head(stack) # Undefined
          /\ stack' = IF stack = <<>> THEN stack ELSE Append(stack, Undefined)
          /\ Goto(t, "failed")
    /\ UNCHANGED <<up, defined>>

\* objIdx = 0 is the bottom of the stack, not what read pushed last.  The
\* function is pushed twice; a missing property is pushed as undefined, and an
\* empty stack is an "Invalid index!".
Lookup(t) ==
    /\ up
    /\ job[t].at = "lookup"
    /\ Fits(t)
    /\ \/ /\ Found
          /\ \E f \in defined : stack' = stack \o <<Function(f), Function(f)>>
          /\ Goto(t, "push")
       \/ /\ ~Found
          /\ stack # <<>> => Head(stack) # Undefined
          /\ stack' = IF stack = <<>> THEN stack ELSE Append(stack, Undefined)
          /\ Goto(t, "failed")
    /\ UNCHANGED <<up, defined>>

\* Mutation of PushArguments: every round starts from the initial state.
PushInitialState(t) ==
    /\ up
    /\ job[t].at = "push"
    /\ NextEvent(t) \notin BadPayload
    /\ Fits(t)
    /\ stack' = stack \o <<EventArg(NextEvent(t)), StateArg(<<>>)>>
    /\ Goto(t, "call")
    /\ UNCHANGED <<up, defined>>

\* The event object and the state.  A property is put with a value and a key
\* on top of the object.
PushArguments(t) ==
    /\ up
    /\ job[t].at = "push"
    /\ NextEvent(t) \notin BadPayload
    /\ Fits(t)
    /\ stack' = stack \o <<EventArg(NextEvent(t)), StateArg(job[t].state)>>
    /\ Goto(t, "call")
    /\ UNCHANGED <<up, defined>>

Callee == stack[Len(stack) - 2]
Arguments == <<stack[Len(stack) - 1], Last(stack)>>
BelowCall == SubSeq(stack, 1, Len(stack) - 3)
IsFunction(x) == x.kind = "function"
MayFail(x) == IsFunction(x) => x.of \in Failing

\* What a call makes of its arguments: one more application of the function.
Applied(f, args) ==
    LET history == IF args[2].kind = "state" THEN args[2].of ELSE <<>>
    IN  Append(history, <<f, args[1]>>)

\* duk_pcall(2) replaces function and arguments by the result; encoded and
\* parsed, it is the state of the next round, and it is popped.
CallReturns(t) ==
    /\ up
    /\ job[t].at = "call"
    /\ Len(stack) >= 3
    /\ IsFunction(Callee)
    /\ stack' = BelowCall
    /\ job' = [job EXCEPT ![t].state = Applied(Callee.of, Arguments),
                          ![t].done = @ + 1,
                          ![t].at = IF job[t].done + 1 = Len(job[t].events)
                                    THEN "finish" ELSE "push"]
    /\ UNCHANGED <<up, defined>>

\* The callee throws, or is not a function at all; or its result stays on the
\* stack: undefined, which duk_json_encode turns into a null pointer
\* (std::logic_error), or text that json::parse refuses.
CallFails(t) ==
    /\ up
    /\ job[t].at = "call"
    /\ Len(stack) >= 3
    /\ MayFail(Callee)
    /\ \/ stack' = BelowCall \o <<Error, Text>>
       \/ IsFunction(Callee) /\ stack' = Append(BelowCall, Undefined)
    /\ Goto(t, "failed")
    /\ UNCHANGED <<up, defined>>

\* Mutation of Finish: two entries are popped.
FinishPopsTwo(t) ==
    /\ up
    /\ job[t].at = "finish"
    /\ Len(stack) >= 2
    /\ stack' = Front(Front(stack))
    /\ Goto(t, "ok")
    /\ UNCHANGED <<up, defined>>

\* The last duk_pop.
Finish(t) ==
    /\ up
    /\ job[t].at = "finish"
    /\ stack # <<>>
    /\ stack' = Front(stack)
    /\ Goto(t, "ok")
    /\ UNCHANGED <<up, defined>>

\* An error outside a protected call reaches Duktape's fatal handler, which
\* aborts the process: a push beyond the limit, a payload that does not parse
\* (duk_json_decode), a thrown null or undefined (asked for its property
\* "stack"), a stack shorter than the call or the pop expects.
Abort(t) ==
    /\ up
    /\ \/ ~Fits(t)
       \/ job[t].at = "read" /\ job[t].script \in Broken
       \/ job[t].at = "lookup" /\ stack # <<>> /\ Head(stack) = Undefined
       \/ job[t].at = "push" /\ NextEvent(t) \in BadPayload
       \/ job[t].at = "call" /\ (Len(stack) >= 3 => IsFunction(Callee) /\ Callee.of \in Failing)
       \/ job[t].at = "finish" /\ stack = <<>>
    /\ up' = FALSE
    /\ UNCHANGED <<stack, defined, job>>

---------------------------------------------------------------------------

Streams == UNION {[1..n -> Event] : n \in 0..MaxEvents}

Init ==
    /\ up = TRUE
    /\ stack = <<>>
    /\ defined = {}
    /\ job = [t \in Thread |-> Idle]

Next ==
    \E t \in Thread :
        \/ \E s \in Script, es \in Streams : Play(t, s, es)
        \/ Read(t)
        \/ Lookup(t)
        \/ PushArguments(t)
        \/ CallReturns(t)
        \/ CallFails(t)
        \/ Finish(t)
        \/ Abort(t)

Spec == Init /\ [][Next]_vars

---------------------------------------------------------------------------
(* Properties.                                                             *)

Places == {"idle", "read", "lookup", "push", "call", "finish"} \cup Answered

Slots == {Global, Error, Text, Undefined}
           \cup {Function(f) : f \in Defining}
           \cup {EventArg(e) : e \in Event}

\* One global function at most, entries of the known kinds, and the stack within
\* its limit.
TypeOK ==
    /\ up \in BOOLEAN
    /\ Len(stack) <= StackLimit
    /\ \A i \in DOMAIN stack : stack[i] \in Slots \/ stack[i].kind = "state"
    /\ defined \in {{}} \cup {{f} : f \in Defining}
    /\ \A t \in Thread : job[t].at \in Places

\* An answer is what one function makes of all events of the stream in their
\* order, and the function is the played script's own if it defines one.  Without
\* events no function is asked for.
ResultIsFold ==
    \A t \in Thread : job[t].at = "ok" =>
        \E f \in Script :
            /\ job[t].state = [i \in DOMAIN job[t].events |-> <<f, EventArg(job[t].events[i])>>]
            /\ f \in Defining \/ job[t].events = <<>>
            /\ job[t].script \in Defining => f = job[t].script

\* What earlier plays left on the stack is not touched by a later one.
BaseUntouched ==
    \A t \in Thread : job[t].at # "idle" => IsPrefix(job[t].base, stack)

\* A successful play leaves the stack as it found it after two events, and one
\* global object higher otherwise; a failed one leaves two to four entries.
ResidueOfPlay ==
    \A t \in Thread :
        /\ job[t].at = "ok" =>
              stack = job[t].base \o IF Len(job[t].events) = 2 THEN <<>> ELSE <<Global>>
        /\ job[t].at = "failed" => Len(stack) - Len(job[t].base) \in 2..4

\* The bottom of the stack is something else than the global object: the first
\* thing ever pushed was the error of a script or of a third event.
Poisoned == stack # <<>> /\ Head(stack) # Global

\* A script, its function and the events of a stream are without fault.
Sound(j) ==
    /\ j.script \in Defining \ (Broken \cup Failing)
    /\ \A i \in DOMAIN j.events : j.events[i] \notin BadPayload

\* A play without fault and of two events at most fails on a poisoned stack only.
SoundShortPlayWorks ==
    [][\A t \in Thread :
          /\ job[t].at # "failed" /\ job'[t].at = "failed"
          /\ Sound(job[t]) /\ Len(job[t].events) <= 2
          => Poisoned]_vars

---------------------------------------------------------------------------
(* What a caller may expect, and does not get.                             *)

\* On an empty stack, a play succeeds when nothing is wrong with it: the loop
\* runs over every event.
WholeStreamIsPlayed ==
    \A t \in Thread :
        job[t].at = "failed" /\ job[t].base = <<>> => ~Sound(job[t])
===========================================================================
