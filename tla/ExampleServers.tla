---------------------------- MODULE ExampleServers ----------------------------
(* The two example servers (webhook_example_server and                        *)
(* sse_example_server, main.cpp of each).  Both accept a connection, serve    *)
(* its one request to the end and accept the next, on one thread: a client    *)
(* is waited for, and a stream is written, while all others wait.             *)
(*                                                                            *)
(* The webhook server stores the events posted to it and lists the last of    *)
(* them.  The other one answers with a stream of ticks.                       *)
EXTENDS Integers, Sequences, FiniteSets

CONSTANTS
    Clients,
    MaxEvents,      \* EventStore::max_events_, 100
    Ticks,          \* the length of a stream, 10
    MaxPosts        \* bound on the events stored

ASSUME ExampleAssumption ==
    /\ IsFiniteSet(Clients)
    /\ MaxEvents \in Nat \ {0}
    /\ Ticks \in Nat \ {0}
    /\ MaxPosts \in Nat

VARIABLES
    server,         \* which of the two this is
    backlog,        \* connections that wait to be accepted
    at,             \* where the thread is, and in whose session
    connected,      \* clients that have neither been answered nor hung up
    sent,           \* clients whose request has arrived, to be read or not
    events_,        \* EventStore::events_
    next_id_,       \* EventStore::next_id_
    acknowledged    \* history variable: the ids each client got as receivedId

store == <<events_, next_id_>>
vars == <<server, backlog, at, connected, sent, store, acknowledged>>

Accepting == [step |-> "accept"]

Init ==
    /\ server \in {"webhook", "sse"}
    /\ backlog = <<>>
    /\ at = Accepting
    /\ connected = {}
    /\ sent = {}
    /\ events_ = <<>>
    /\ next_id_ = 1
    /\ acknowledged = [c \in Clients |-> {}]

-----------------------------------------------------------------------------
(* Clients                                                                    *)

InSession(c) == at.step \in {"read", "write", "stream"} /\ at.client = c

Waiting(c) == \E k \in DOMAIN backlog : backlog[k] = c

Connect(c) ==
    /\ c \notin connected
    /\ ~Waiting(c)
    /\ ~InSession(c)
    /\ connected' = connected \cup {c}
    /\ backlog' = Append(backlog, c)
    /\ UNCHANGED <<server, at, sent, store, acknowledged>>

\* Nobody has to send what he connected for, or to read what he gets.
Send(c) ==
    /\ c \in connected \ sent
    /\ sent' = sent \cup {c}
    /\ UNCHANGED <<server, backlog, at, connected, store, acknowledged>>

TakeAnswer(c) ==
    /\ at.step = "write" /\ at.client = c /\ at.blocked
    /\ c \in connected
    /\ at' = [at EXCEPT !.blocked = FALSE]
    /\ UNCHANGED <<server, backlog, connected, sent, store, acknowledged>>

\* A request that arrived before can be read all the same.
HangUp(c) ==
    /\ c \in connected
    /\ connected' = connected \ {c}
    /\ UNCHANGED <<server, backlog, at, sent, store, acknowledged>>

-----------------------------------------------------------------------------
(* The loop of main() and DoSession                                           *)

Accept ==
    /\ at = Accepting
    /\ backlog # <<>>
    /\ at' = [step |-> "read", client |-> Head(backlog)]
    /\ backlog' = Tail(backlog)
    /\ UNCHANGED <<server, connected, sent, store, acknowledged>>

\* An accept that fails throws, and main() returns.
AcceptFails ==
    /\ at = Accepting
    /\ at' = [step |-> "ended"]
    /\ UNCHANGED <<server, backlog, connected, sent, store, acknowledged>>

\* The session returns, its socket is closed, and main() accepts again.
EndSession ==
    /\ at' = Accepting
    /\ connected' = connected \ {at.client}
    /\ sent' = sent \ {at.client}

\* The read has an error: the client is gone.
ReadFails ==
    /\ at.step = "read"
    /\ at.client \notin connected
    /\ EndSession
    /\ UNCHANGED <<server, backlog, store, acknowledged>>

\* The request is there.  A read waits for it without a timeout.
Read == at.step = "read" /\ at.client \in sent

\* The answer that is to be written: the id of an event, or 0.  If `blocked`,
\* it is larger than the buffers of the socket, and the write waits, without a
\* timeout, for the client to read.  Ids, ticks and errors always fit.
Answer(id, blocked) ==
    at' = [step |-> "write", client |-> at.client, id |-> id, blocked |-> blocked]

\* Slip: one event less is kept.
LastButOne(s) == IF Len(s) >= MaxEvents THEN Tail(s) ELSE s

\* The loop of pop_front in EventStore::Add; one event has been added.
Last(s) == IF Len(s) > MaxEvents THEN Tail(s) ELSE s

\* POST /webhooks/incoming, with the secret and valid JSON.
Incoming ==
    /\ Read
    /\ server = "webhook"
    /\ next_id_ <= MaxPosts
    /\ events_' = Last(Append(events_, [id |-> next_id_, from |-> at.client]))
    /\ next_id_' = next_id_ + 1
    /\ Answer(next_id_, FALSE)
    /\ UNCHANGED <<server, backlog, connected, sent, acknowledged>>

\* GET /webhooks/events, with as much as the clients have posted.
ListEvents ==
    /\ Read
    /\ server = "webhook"
    /\ \E blocked \in BOOLEAN : Answer(0, blocked)
    /\ UNCHANGED <<server, backlog, connected, sent, store, acknowledged>>

\* /health, and whatever is refused.
OtherRequest ==
    /\ Read
    /\ Answer(0, FALSE)
    /\ UNCHANGED <<server, backlog, connected, sent, store, acknowledged>>

\* GET /events.
StartStream ==
    /\ Read
    /\ server = "sse"
    /\ at' = [step |-> "stream", client |-> at.client, ticks |-> 0]
    /\ UNCHANGED <<server, backlog, connected, sent, store, acknowledged>>

\* The answer is written and the socket shut.  A client that hung up does not
\* get it, whether or not the write has an error.
WriteAnswer ==
    /\ at.step = "write"
    /\ at.blocked => at.client \notin connected
    /\ acknowledged' = IF at.id # 0 /\ at.client \in connected
                       THEN [acknowledged EXCEPT ![at.client] = @ \cup {at.id}]
                       ELSE acknowledged
    /\ EndSession
    /\ UNCHANGED <<server, backlog, store>>

WriteTick ==
    /\ at.step = "stream"
    /\ at.ticks < Ticks
    /\ at' = [at EXCEPT !.ticks = @ + 1]
    /\ UNCHANGED <<server, backlog, connected, sent, store, acknowledged>>

\* A write to a client that hung up has an error, at once or later.
WriteTickFails ==
    /\ at.step = "stream"
    /\ at.client \notin connected
    /\ EndSession
    /\ UNCHANGED <<server, backlog, store, acknowledged>>

\* Slip: the stream goes on for as long as the client listens.
NeverOver == FALSE

StreamIsOver == at.ticks = Ticks

EndStream ==
    /\ at.step = "stream"
    /\ StreamIsOver
    /\ EndSession
    /\ UNCHANGED <<server, backlog, store, acknowledged>>

ReadRequest == Incoming \/ ListEvents \/ OtherRequest \/ StartStream
Serve == Accept \/ ReadFails \/ ReadRequest \/ WriteAnswer \/ WriteTick \/ EndStream

Next ==
    \/ \E c \in Clients : Connect(c) \/ Send(c) \/ TakeAnswer(c) \/ HangUp(c)
    \/ Serve
    \/ AcceptFails \/ WriteTickFails

Spec == Init /\ [][Next]_vars

\* The thread runs whenever it is not blocked.  Of the clients nothing is
\* assumed: they may stay silent for ever, connected or not.
FairSpec == Spec /\ WF_vars(Serve)

-----------------------------------------------------------------------------
(* Properties *)

\* An event is listed, as the client that posted it sent it, if it is among the
\* last MaxEvents, and only then.  A client that got its id can rely on that,
\* and one that hung up before may find it stored all the same.
AcknowledgedEventsListed ==
    /\ Len(events_) <= MaxEvents
    /\ \A c \in Clients : \A i \in acknowledged[c] :
         (\E k \in DOMAIN events_ : events_[k] = [id |-> i, from |-> c])
           <=> next_id_ - i <= MaxEvents

\* The thread is blocked by the client whose session it is: by a request that
\* does not come (line 151), or by an answer that is not read (line 157).
WaitsForClient ==
    /\ at.step \in {"read", "write"}
    /\ at.client \in connected
    /\ at.step = "read" => at.client \notin sent
    /\ at.step = "write" => at.blocked

\* Whoever connects is answered, gives up, or sees the server end, unless one
\* client neither sends, nor reads, nor hangs up for ever.  That is all that
\* can hold the others back: not clients that are slow, again and again, not
\* those that come back, nor streams to clients that listen to the end.
EveryClientServed ==
    \A c \in Clients :
      \/ c \in connected ~> (c \notin connected \/ at.step = "ended")
      \/ <>[]WaitsForClient

=============================================================================
