------------------------------ MODULE Shell ------------------------------
(***************************************************************************)
(* The interactive shell: a user composes a line word by word, and the     *)
(* shell tokenizes it, interprets it and executes the command.             *)
(*                                                                         *)
(* A word is a sequence of characters; any run of characters that are not  *)
(* blanks and not quotes counts as one.  What std::stoi and json::parse do *)
(* with a word is given by sets of words.  Of the store the shell sees     *)
(* only whether an operation returns or throws.                            *)
(***************************************************************************)
EXTENDS Naturals, Sequences, SequencesExt

CONSTANTS
    Word,        \* arguments a user may give
    Number,      \* those that std::stoi converts (it reads as far as there are digits)
    Huge,        \* those that it finds out of range
    Json,        \* those that json::parse accepts
    Stray,       \* stream ids that an uninitialized int may hold
    MaxArgs      \* bound on the arguments in a line

ASSUME WordAssumption ==
    /\ \A w \in Word : w \in Seq(Range(w))
    /\ Number \cup Huge \cup Json \subseteq Word
    /\ Number \cap Huge = {}
    /\ MaxArgs \in Nat

VARIABLES
    at,          \* where the loop is, or how it ended
    meant,       \* the words of the line as the user means them
    line,        \* the characters typed
    closed,      \* all quotes were closed
    cmd,         \* the command that the line was interpreted as
    raised       \* what ended the shell in the operation it was executing, or "none"

vars == <<at, meant, line, closed, cmd, raised>>

---------------------------------------------------------------------------
(* tokenize.                                                               *)

Blank == " "
Quotes == {"\"", "'"}

\* The first place of character c from i on, or the one after the end.
Find(s, c, i) ==
    CHOOSE j \in i..(Len(s) + 1) :
        /\ j <= Len(s) => s[j] = c
        /\ \A k \in i..(j - 1) : s[k] # c

\* Where the word that begins at place i ends.  A quote counts only there; the word
\* reaches to its partner, other words reach to the next blank.
End(s, i) == IF s[i] \in Quotes THEN Find(s, s[i], i + 1) ELSE Find(s, Blank, i)

WordAt(s, i) == SubSeq(s, IF s[i] \in Quotes THEN i + 1 ELSE i, End(s, i) - 1)

\* Mutation of After: the character after a closing quote is not skipped.
AfterUnskipped(s, i) == End(s, i) + 1

\* Where the next word begins.  The blank, or the character after the closing quote,
\* is skipped unseen.
After(s, i) == IF s[i] \in Quotes THEN End(s, i) + 2 ELSE End(s, i) + 1

Tokens(s) ==
    LET from[i \in 1..(Len(s) + 3)] ==
            IF i > Len(s) THEN <<>> ELSE <<WordAt(s, i)>> \o from[After(s, i)]
    IN  from[1]

\* "One of the quotes is open": the last word began with a quote and found none.
QuoteOpen(s) ==
    LET open[i \in 1..(Len(s) + 3)] ==
            IF i > Len(s) THEN FALSE
            ELSE (s[i] \in Quotes /\ End(s, i) > Len(s)) \/ open[After(s, i)]
    IN  open[1]

---------------------------------------------------------------------------
(* interpret.                                                              *)

Arity ==
    [create_stream |-> {1}, delete_stream |-> {1}, push |-> {4}, create_projection |-> {1, 2},
     get_streams |-> {0, 1}, get_projections |-> {0, 1}, delete_projection |-> {1},
     play |-> {2, 3}]

Operation == DOMAIN Arity
Name == Operation \cup {"help", "quit", "typo"}

\* The arguments that std::stoi converts outside of a handler for out_of_range, in
\* the order in which it does.
Numeric ==
    [o \in Operation |->
        CASE o \in {"delete_stream", "delete_projection", "play"} -> <<1>>
          [] o = "push" -> <<1, 4>>
          [] OTHER      -> <<>>]

\* How the conversions end: the first one that fails decides.
Conversion(o, args) ==
    LET bad == {i \in DOMAIN Numeric[o] : args[Numeric[o][i]] \notin Number}
        first == CHOOSE i \in bad : \A j \in bad : i <= j
    IN  IF bad = {}
        THEN "converted"
        ELSE IF args[Numeric[o][first]] \in Huge THEN "out_of_range" ELSE "invalid_argument"

Simple(kind) == [kind |-> kind]
Call(o, args) == [kind |-> "call", op |-> o, args |-> args]

\* play PID T/SID [I]: what is not a number is a type.  If that is empty, the
\* stream id is used, which nothing has set.
PlayArgs(args) ==
    IF args[2] = <<>>
    THEN {ReplaceAt(args, 2, [stream |-> n]) : n \in Stray}
    ELSE {ReplaceAt(args, 2, IF args[2] \in Number THEN [stream |-> args[2]]
                                                   ELSE [type |-> args[2]])}

\* Mutation of CallArgs: any last argument that is empty is dropped.
CallArgsTrimmed(o, args) ==
    IF o = "play" THEN PlayArgs(args)
    ELSE {IF args # <<>> /\ Last(args) = <<>> THEN Front(args) ELSE args}

\* An optional type that is empty counts as left out.
CallArgs(o, args) ==
    CASE o = "play" -> PlayArgs(args)
      [] o \in {"create_projection", "get_streams", "get_projections"}
           /\ Len(args) = (CHOOSE n \in Arity[o] : n - 1 \in Arity[o]) /\ Last(args) = <<>>
         -> {Front(args)}
      [] OTHER -> {args}

\* The commands a list of words can become.  "throws" is an exception that
\* nothing up to main catches.
Commands(words) ==
    LET name == Head(words)
        args == Tail(words)
    IN  CASE name = <<"help">> -> {Simple("help")}
          [] name = <<"quit">> -> {Simple("quit")}
          [] \E o \in Operation : name = <<o>> ->
               LET o == name[1]
               IN  IF \/ Len(args) \notin Arity[o]
                      \/ Conversion(o, args) = "invalid_argument"
                   THEN {Simple("invalid")}
                   ELSE IF \/ Conversion(o, args) = "out_of_range"
                           \/ o = "play" /\ Len(args) = 3 /\ args[3] \notin Json
                        THEN {Simple("throws")}
                        ELSE {Call(o, a) : a \in CallArgs(o, args)}
          [] OTHER -> {Simple("unknown")}

---------------------------------------------------------------------------
(* The user.                                                               *)

\* The ways to write a word so that it is one word for tokenize.
Written(w) ==
    {<<q>> \o w \o <<q>> : q \in {c \in Quotes : \A i \in DOMAIN w : w[i] # c}}
      \cup (IF w # <<>> /\ Head(w) \notin Quotes /\ (\A i \in DOMAIN w : w[i] # Blank)
            THEN {w} ELSE {})

\* Bound on the arguments of a line: one too many, and never more than MaxArgs.
MayGoOn ==
    /\ meant # <<>>
    /\ Len(meant) <= MaxArgs
    /\ \/ Len(meant) = 1
       \/ \E o \in Operation : Head(meant) = <<o>> /\ \E n \in Arity[o] : Len(meant) <= n + 1

Compose(w) ==
    /\ at = "prompt"
    /\ \E typed \in Written(w) :
          line' = (IF line = <<>> THEN line ELSE Append(line, Blank)) \o typed
    /\ meant' = Append(meant, w)
    /\ UNCHANGED <<at, closed, cmd, raised>>

Enter ==
    /\ at = "prompt"
    /\ line # <<>>
    /\ at' = "line"
    /\ UNCHANGED <<meant, line, closed, cmd, raised>>

\* The user forgets to close the quotes of the last word.
EnterOpen ==
    /\ at = "prompt"
    /\ line # <<>>
    /\ Last(line) \in Quotes
    /\ line' = Front(line)
    /\ QuoteOpen(line')
    /\ closed' = FALSE
    /\ at' = "line"
    /\ UNCHANGED <<meant, cmd, raised>>

\* At the end of the input every getline yields the empty line: run goes round
\* without end.
EndOfInput ==
    /\ at = "prompt"
    /\ line = <<>>
    /\ at' = "spinning"
    /\ UNCHANGED <<meant, line, closed, cmd, raised>>

---------------------------------------------------------------------------
(* run.                                                                    *)

Interpret ==
    /\ at = "line"
    /\ IF QuoteOpen(line)
       THEN at' = "crashed" /\ UNCHANGED cmd
       ELSE \E c \in Commands(Tokens(line)) :
               /\ cmd' = c
               /\ at' = IF c.kind = "throws" THEN "crashed" ELSE "execute"
    /\ UNCHANGED <<meant, line, closed, raised>>

\* How an operation of the handler may end.  What it throws is a runtime_error
\* (SQLite::Exception is one), except for a projection that returns undefined.  A play
\* may also end the process without an exception: "fatal" is DukContext!Abort, Duktape's
\* handler for errors outside of a protected call, as for a payload that is no JSON.
Outcome(o) ==
    {"returns", "runtime_error"} \cup (IF o = "play" THEN {"logic_error", "fatal"} ELSE {})

\* The exceptions an execute() catches.
Caught(o) ==
    {"runtime_error"} \cup (IF o \in {"create_stream", "push"} THEN {"logic_error"} ELSE {})

NextPrompt ==
    /\ at' = "prompt"
    /\ meant' = <<>>
    /\ line' = <<>>
    /\ closed' = TRUE
    /\ cmd' = Simple("none")
    /\ raised' = "none"

\* Nothing up to main catches what an operation ended with.
Die(end) ==
    /\ at' = IF end = "fatal" THEN "aborted" ELSE "crashed"
    /\ raised' = end
    /\ UNCHANGED <<meant, line, closed, cmd>>

\* Mutation of ExecuteCall: exceptions of the store are not caught.
ExecuteUncaught ==
    /\ at = "execute"
    /\ cmd.kind = "call"
    /\ \E end \in Outcome(cmd.op) : IF end = "returns" THEN NextPrompt ELSE Die(end)

ExecuteCall ==
    /\ at = "execute"
    /\ cmd.kind = "call"
    /\ \E end \in Outcome(cmd.op) :
          IF end \in {"returns"} \cup Caught(cmd.op) THEN NextPrompt ELSE Die(end)

ExecuteOther ==
    /\ at = "execute"
    /\ cmd.kind \in {"help", "unknown", "invalid"}
    /\ NextPrompt

\* Mutation of ExecuteQuit: the status "exit" is not looked at.
ExecuteQuitIgnored ==
    /\ at = "execute"
    /\ cmd.kind = "quit"
    /\ NextPrompt

ExecuteQuit ==
    /\ at = "execute"
    /\ cmd.kind = "quit"
    /\ at' = "exited"
    /\ UNCHANGED <<meant, line, closed, cmd, raised>>

Run == Interpret \/ ExecuteCall \/ ExecuteOther \/ ExecuteQuit

---------------------------------------------------------------------------

Init ==
    /\ at = "prompt"
    /\ meant = <<>>
    /\ line = <<>>
    /\ closed = TRUE
    /\ cmd = Simple("none")
    /\ raised = "none"

Next ==
    \/ meant = <<>> /\ \E n \in Name : Compose(<<n>>)
    \/ MayGoOn /\ \E w \in Word : Compose(w)
    \/ Enter
    \/ EnterOpen
    \/ EndOfInput
    \/ Run

\* The shell works on; the user need not.
Spec == Init /\ [][Next]_vars /\ WF_vars(Run)

---------------------------------------------------------------------------
(* Properties.                                                             *)

Places == {"prompt", "line", "execute", "exited", "crashed", "aborted", "spinning"}
Kinds == {"none", "unknown", "invalid", "quit", "help", "call", "throws"}

\* The loop is at a known place, and a call has arguments the operation takes.
TypeOK ==
    /\ at \in Places
    /\ closed \in BOOLEAN
    /\ raised \in {"none", "runtime_error", "logic_error", "fatal"}
    /\ cmd.kind \in Kinds
    /\ cmd.kind = "call" => Len(cmd.args) \in Arity[cmd.op]

\* Any words that can be written at all arrive as they were meant: blanks in quotes,
\* one kind of quotes inside the other, empty words, in every combination.
WordsArrive == at = "line" /\ closed => ~QuoteOpen(line) /\ Tokens(line) = meant

Oversized(words) ==
    \E i \in 2..Len(words) : words[i] \in Huge

\* Whatever an operation of the store throws, the prompt comes back.  The only exceptions
\* that end the shell are those of an open quote, of a number out of range, of an initial
\* state that is not JSON, and of a play whose projection returns nothing; and nothing
\* but a play can end it without one.
CrashHasCause ==
    /\ at = "crashed" =>
          \/ ~closed
          \/ cmd.kind = "throws" /\ (Oversized(meant) \/ (Len(meant) = 4 /\ meant[4] \notin Json))
          \/ cmd.kind = "call" /\ cmd.op = "play" /\ raised = "logic_error"
    /\ at = "aborted" => cmd.kind = "call" /\ cmd.op = "play" /\ raised = "fatal"

\* "quit" ends the shell with status 0 ("leave the interactive shell").
QuitExits == (at = "line" /\ closed /\ Head(meant) = <<"quit">>) ~> at = "exited"
==========================================================================
