---------------------------- MODULE PushClient ----------------------------
(***************************************************************************)
(* Clients that push events through the gRPC service of a server: requests *)
(* wait, answers get lost, clients give up waiting and send again, servers *)
(* crash with requests in progress, and a shell deletes the stream.        *)
(*                                                                         *)
(* Grpc_service and Action_handler are the code; the clients are not part  *)
(* of the repository.  They are careful: a client reads the history of its *)
(* stream and offers the next version.  Without an answer it sends the     *)
(* same request again, or reads again; refused, it reads again; when it    *)
(* finds its event it is content.  Each has one event to push.             *)
(*                                                                         *)
(* A read is one step: EventReads shows that the history by id is the one  *)
(* at the end of the query.                                                *)
(***************************************************************************)
EXTENDS EventStore, Sequences, FiniteSets

CONSTANTS
    Client,          \* each has one event, named like itself
    MaxTries         \* bound on the requests a client sends

ASSUME ClientAssumption ==
    /\ Client \subseteq Data
    /\ MaxTries \in Nat

VARIABLES
    client,      \* what each client does and knows
    calls,       \* requests sent and not yet handled
    answers,     \* answers on their way
    abused       \* history: a request outlived its stream and was accepted by another

clientVars == <<client, calls, answers, abused>>
pushVars == <<vars, clientVars>>

Server == Proc \ Shell

\* getEvents joins the events with their stream.
History(s) == IF s \in DOMAIN streams THEN LogOf(s) ELSE <<>>

---------------------------------------------------------------------------
(* The clients.                                                            *)

\* GetEventsByStreamId.
Read(c, s) ==
    /\ client[c].at \in {"idle", "unsure", "refused"}
    /\ client[c].at = "idle" \/ client[c].stream = s
    /\ \E p \in Server : pc[p] = "ready" /\ Tables \subseteq schema
    /\ client' = [client EXCEPT ![c] =
                     [@ EXCEPT !.at = IF \E i \in DOMAIN History(s) : History(s)[i] = c
                                      THEN "found" ELSE "knows",
                               !.stream = s,
                               !.seen = History(s),
                               !.live = s \in DOMAIN streams,
                               !.stale = FALSE]]
    /\ UNCHANGED <<vars, calls, answers, abused>>

\* A request carries the number of the attempt; "seen", "live" (the stream existed when
\* it was read) and "stale" are history.
Send(c) ==
    /\ client[c].at \in {"knows", "unsure"}
    /\ client[c].try < MaxTries
    /\ Len(client[c].seen) + 1 \in Version
    /\ calls' = calls \cup {[from |-> c,
                             try |-> client[c].try + 1,
                             stream |-> client[c].stream,
                             version |-> Len(client[c].seen) + 1,
                             seen |-> client[c].seen,
                             stale |-> client[c].stale]}
    /\ client' = [client EXCEPT ![c].at = "waiting", ![c].try = @ + 1]
    /\ UNCHANGED <<vars, answers, abused>>

\* The deadline of the call, or a connection that breaks: no answer will count.
Timeout(c) ==
    /\ client[c].at = "waiting"
    /\ client' = [client EXCEPT ![c].at = "unsure"]
    /\ answers' = {a \in answers : a.to # c}
    /\ UNCHANGED <<vars, calls, abused>>

Receive(c) ==
    /\ client[c].at = "waiting"
    /\ \E a \in answers :
          /\ a.to = c
          /\ client' = [client EXCEPT ![c].at = IF a.status = 0 THEN "acked" ELSE "refused"]
          /\ answers' = answers \ {a}
    /\ UNCHANGED <<vars, calls, abused>>

---------------------------------------------------------------------------
(* The server.                                                             *)

Awaited(r) == client[r.from].at = "waiting" /\ client[r.from].try = r.try

Answer(r, status) ==
    answers' = IF Awaited(r) THEN answers \cup {[to |-> r.from, status |-> status]} ELSE answers

\* Mutation of PushEvent: an exception of push_event is not reported.
PushEventAlwaysOk(p, r) ==
    /\ p \in Server
    /\ pc[p] = "ready"
    /\ r \in calls
    /\ calls' = calls \ {r}
    /\ \/ /\ AttachEvent(p, r.stream, r.version, r.from)
          /\ Answer(r, 0)
          /\ abused' = (abused \/ r.stale)
       \/ /\ ~Accepts(p, r.stream, r.version)
          /\ Answer(r, 0)
          /\ UNCHANGED <<vars, abused>>
    /\ UNCHANGED client

\* Mutation of PushEvent: calls that were given up are answered too.
PushEventAnswersAll(p, r) ==
    /\ p \in Server
    /\ pc[p] = "ready"
    /\ r \in calls
    /\ calls' = calls \ {r}
    /\ \/ /\ AttachEvent(p, r.stream, r.version, r.from)
          /\ answers' = answers \cup {[to |-> r.from, status |-> 0]}
          /\ abused' = (abused \/ r.stale)
       \/ /\ ~Accepts(p, r.stream, r.version)
          /\ answers' = answers \cup {[to |-> r.from, status |-> 1]}
          /\ UNCHANGED <<vars, abused>>
    /\ UNCHANGED client

\* Grpc_service::PushEvent takes the stream from the event in the request; whatever
\* the database throws becomes status 1.
PushEvent(p, r) ==
    /\ p \in Server
    /\ pc[p] = "ready"
    /\ r \in calls
    /\ calls' = calls \ {r}
    /\ \/ /\ AttachEvent(p, r.stream, r.version, r.from)
          /\ Answer(r, 0)
          /\ abused' = (abused \/ r.stale)
       \/ /\ ~Accepts(p, r.stream, r.version)
          /\ Answer(r, 1)
          /\ UNCHANGED <<vars, abused>>
    /\ UNCHANGED client

\* A server that ends takes its requests and answers with it.
End(p) ==
    /\ Terminate(p)
    /\ calls' = IF p \in Server THEN {} ELSE calls
    /\ answers' = IF p \in Server THEN {} ELSE answers
    /\ UNCHANGED <<client, abused>>

\* What clients know of a deleted stream, and their requests for it, are stale.
DeleteStream(p) ==
    /\ RemoveCommit(p)
    /\ client' = [c \in Client |->
                     [client[c] EXCEPT !.stale = @ \/ client[c].stream \in removing[p]]]
    /\ calls' = {[r EXCEPT !.stale = @ \/ r.stream \in removing[p]] : r \in calls}
    /\ UNCHANGED <<answers, abused>>

Store(p) ==
    /\ \/ InitDb(p)
       \/ \E t \in Type : CreateStream(p, t)
       \/ \E s \in StreamId : RemoveEvents(p, s)
       \/ RemoveRollback(p)
    /\ UNCHANGED clientVars

---------------------------------------------------------------------------

\* A client that has not read anything yet.
Stranger ==
    [at |-> "idle", stream |-> 0, seen |-> <<>>, try |-> 0, live |-> FALSE, stale |-> FALSE]

PushInit ==
    /\ Init
    /\ client = [c \in Client |-> Stranger]
    /\ calls = {}
    /\ answers = {}
    /\ abused = FALSE

PushNext ==
    \/ \E c \in Client :
          \/ \E s \in StreamId : Read(c, s)
          \/ Send(c)
          \/ Timeout(c)
          \/ Receive(c)
    \/ \E p \in Proc :
          \/ \E r \in calls : PushEvent(p, r)
          \/ DeleteStream(p)
          \/ Store(p)
          \/ End(p)

PushSpec == PushInit /\ [][PushNext]_pushVars

---------------------------------------------------------------------------
(* Properties.                                                             *)

\* A call belongs to an attempt its client has made, and an answer is on its way
\* only to a client that waits.
PushTypeOK ==
    /\ \A r \in calls : r.from \in Client /\ r.try \in 1..client[r.from].try
    /\ \A a \in answers :
          /\ client[a.to].at = "waiting"
          /\ \A b \in answers : b.to = a.to => b = a

\* The call r is handled, as opposed to lost.
Handled(r) == calls' = calls \ {r} /\ pc' = pc

\* To a client, a push is a compare-and-append: unless the stream was deleted in
\* between, its event is accepted if and only if nothing was added to the stream
\* since it was read.  So nobody overwrites or skips what he has not seen, and a
\* refusal means that somebody got through ('Event version mismatch.').
CompareAndAppend ==
    [][\A r \in calls :
          Handled(r) /\ ~r.stale /\ r.stream \in DOMAIN streams /\ Unlocked =>
              (events' # events) = (LogOf(r.stream) = r.seen)]_pushVars

\* However often requests are repeated, delayed or lost with their answers, no event
\* is stored twice, unless a request was accepted that outlived a deletion.
StoredOnce ==
    ~abused => \A c \in Client : Cardinality({e \in DOMAIN events : events[e].data = c}) <= 1

\* What a client was told is stored is stored, right behind what it had seen, until
\* somebody deletes the stream: after any restart, through any other client, and also
\* through a server that does not enforce the foreign key, as every server does that
\* found the file already there.  If the stream existed when it was read it still does,
\* so every reader finds the event; pushed without a stream, no reader does.  The trigger is
\* there: the making of the file was left alone (Exclusive).
AckedIsOnTop ==
    \A c \in Client :
        LET k   == client[c]
            log == LogOf(k.stream)
        IN  k.at = "acked" /\ ~k.stale =>
                /\ Len(log) > Len(k.seen) /\ SubSeq(log, 1, Len(k.seen) + 1) = Append(k.seen, c)
                /\ k.live => History(k.stream) = log
===========================================================================
