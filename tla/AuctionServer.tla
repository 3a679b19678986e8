---------------------------- MODULE AuctionServer ----------------------------
(* The WebSocket front of the auction: class Server with its set of sessions, *)
(* class Session with its read loop and its queue of writes, and the threads  *)
(* that run their handlers (main.cpp).                                        *)
(*                                                                            *)
(* Handlers of one session never overlap: each session has a strand.  Those   *)
(* of different sessions do, as many as there are threads.  A request handler *)
(* takes several steps that others' steps fall between: the AuctionManager    *)
(* call, the copy of the set of sessions, one Deliver per session, its own    *)
(* Deliver.  The manager is reduced to the number of changes it has made so   *)
(* far (`version`): AuctionManager models the changes themselves.             *)
EXTENDS Integers, Sequences, FiniteSets

CONSTANTS
    Sessions,       \* the connections that may be made
    ThreadCounts,   \* the values `threads` may have in the configuration
    MaxVersion,     \* bound on the changes made
    MaxRequests     \* bound on the requests of each session

ASSUME ServerAssumption ==
    /\ IsFiniteSet(Sessions)
    /\ ThreadCounts \subseteq Nat \ {0}
    /\ MaxVersion \in Nat
    /\ MaxRequests \in Nat

VARIABLES
    threads,      \* how many threads run the io_context, read from cfg.toml
    version,      \* changes the AuctionManager has made
    sessions,     \* Server::sessions_, under sessions_mutex_
    phase,        \* where each session's read side is
    broken,       \* whether its connection has failed
    handler,      \* the request handler of each session, when one runs
    posted,       \* lambdas posted to the session's strand by QueueWrite
    write_queue,  \* Session::write_queue_
    writes,       \* async_write operations outstanding
    sent,         \* messages put on the wire
    received,     \* requests read
    joined        \* history variable: `version` when the session registered

readVars == <<phase, handler, received>>
writeVars == <<posted, write_queue, writes, sent>>
vars == <<threads, version, sessions, broken, joined, readVars, writeVars>>

Phases == {"none", "handshake", "reading", "handling", "closed"}
Steps == {"idle", "manage", "snapshot", "deliver", "items", "reply"}

Versions == 0..MaxVersion

\* What is sent: the event of a change, the response to a change (0 if it was
\* refused) and the tables get_state read, each at its own version.
Message == [kind : {"event", "response"}, ver : Versions]
             \cup [kind : {"state"}, users : Versions, items : Versions]

Event(v) == [kind |-> "event", ver |-> v]
Response(v) == [kind |-> "response", ver |-> v]
State(u, i) == [kind |-> "state", users |-> u, items |-> i]

NoHandler == [pc |-> "idle", ver |-> 0, todo |-> {}, reply |-> Response(0)]

Init ==
    /\ threads \in ThreadCounts
    /\ version = 0
    /\ sessions = {}
    /\ phase = [s \in Sessions |-> "none"]
    /\ broken = [s \in Sessions |-> FALSE]
    /\ handler = [s \in Sessions |-> NoHandler]
    /\ posted = [s \in Sessions |-> <<>>]
    /\ write_queue = [s \in Sessions |-> <<>>]
    /\ writes = [s \in Sessions |-> 0]
    /\ sent = [s \in Sessions |-> <<>>]
    /\ received = [s \in Sessions |-> 0]
    /\ joined = [s \in Sessions |-> 0]

-----------------------------------------------------------------------------
(* Threads and strands                                                        *)

Handling == {s \in Sessions : phase[s] = "handling"}

\* Slip: a thread per request.
AlwaysAThread == TRUE

\* A completion handler needs a thread that is not inside another one.
FreeThread == Cardinality(Handling) < threads

\* A handler of session s can start: a thread is free, the strand is not busy.
CanRun(s) == FreeThread /\ phase[s] # "handling"

-----------------------------------------------------------------------------
(* Connecting and disconnecting                                               *)

\* Server::OnAccept registers the session before its WebSocket handshake.
Accept(s) ==
    /\ phase[s] = "none"
    /\ FreeThread
    /\ sessions' = sessions \cup {s}
    /\ phase' = [phase EXCEPT ![s] = "handshake"]
    /\ joined' = [joined EXCEPT ![s] = version]
    /\ UNCHANGED <<threads, version, broken, handler, received, writeVars>>

\* Session::OnAccept.
HandshakeDone(s) ==
    /\ phase[s] = "handshake"
    /\ CanRun(s)
    /\ ~broken[s]
    /\ phase' = [phase EXCEPT ![s] = "reading"]
    /\ UNCHANGED <<threads, version, sessions, broken, joined, handler, received, writeVars>>

\* Slip: a session that fails stays registered.
StayRegistered(s) == sessions

Unregister(s) == sessions \ {s}

\* Session::OnAccept and OnRead with an error, a close or a dead connection.
ReadSideFails(s) ==
    /\ phase[s] \in {"handshake", "reading"}
    /\ CanRun(s)
    /\ sessions' = Unregister(s)
    /\ phase' = [phase EXCEPT ![s] = "closed"]
    /\ broken' = [broken EXCEPT ![s] = TRUE]
    /\ UNCHANGED <<threads, version, joined, handler, received, writeVars>>

-----------------------------------------------------------------------------
(* Requests: OnRead, HandleRequest and HandleAction                           *)

Enter(s, h) ==
    /\ phase[s] = "reading"
    /\ CanRun(s)
    /\ ~broken[s]
    /\ received[s] < MaxRequests
    /\ phase' = [phase EXCEPT ![s] = "handling"]
    /\ received' = [received EXCEPT ![s] = @ + 1]
    /\ handler' = [handler EXCEPT ![s] = h]
    /\ UNCHANGED <<threads, version, sessions, broken, joined, writeVars>>

\* A request that changes the auction, one that fails to parse or to validate,
\* and get_state, whose handler first copies the users.
ReadChange(s) == Enter(s, [NoHandler EXCEPT !.pc = "manage"])
ReadMalformed(s) == Enter(s, [NoHandler EXCEPT !.pc = "reply"])
ReadGetState(s) == Enter(s, [NoHandler EXCEPT !.pc = "items", !.ver = version])

At(s, pc) == phase[s] = "handling" /\ handler[s].pc = pc

\* The manager refuses the change: no broadcast, an error response.
Refuse(s) ==
    /\ At(s, "manage")
    /\ handler' = [handler EXCEPT ![s].pc = "reply"]
    /\ UNCHANGED <<threads, version, sessions, phase, broken, received, joined, writeVars>>

Change(s) ==
    /\ At(s, "manage")
    /\ version < MaxVersion
    /\ version' = version + 1
    /\ handler' = [handler EXCEPT ![s].pc = "snapshot", ![s].ver = version + 1,
                                  ![s].reply = Response(version + 1)]
    /\ UNCHANGED <<threads, sessions, phase, broken, received, joined, writeVars>>

\* Slip: only sessions waiting for a request are told.
IdleSessions == {t \in sessions : phase[t] = "reading"}

Recipients == sessions

\* Server::Broadcast copies sessions_ under its mutex, and lets go of it.
Snapshot(s) ==
    /\ At(s, "snapshot")
    /\ handler' = [handler EXCEPT ![s].pc = "deliver", ![s].todo = Recipients]
    /\ UNCHANGED <<threads, version, sessions, phase, broken, received, joined, writeVars>>

\* QueueWrite: net::post of the message to the receiver's strand.
Post(t, message) == posted' = [posted EXCEPT ![t] = Append(@, message)]

DeliverTo(s, t) ==
    /\ At(s, "deliver")
    /\ t \in handler[s].todo
    /\ Post(t, Event(handler[s].ver))
    /\ handler' = [handler EXCEPT ![s].todo = @ \ {t}]
    /\ UNCHANGED <<threads, version, sessions, phase, broken, received, joined,
                   write_queue, writes, sent>>

\* get_state's second look at the manager, after others may have changed it.
CopyItems(s) ==
    /\ At(s, "items")
    /\ handler' = [handler EXCEPT ![s].pc = "reply",
                                  ![s].reply = State(handler[s].ver, version)]
    /\ UNCHANGED <<threads, version, sessions, phase, broken, received, joined, writeVars>>

\* Slip: the response is delivered before the broadcast is over.
ReadyEarly(s) == At(s, "reply") \/ At(s, "deliver")

ReadyToReply(s) ==
    \/ At(s, "reply")
    \/ At(s, "deliver") /\ handler[s].todo = {}

\* OnRead delivers the response to its own session and reads on.
Reply(s) ==
    /\ ReadyToReply(s)
    /\ Post(s, handler[s].reply)
    /\ handler' = [handler EXCEPT ![s] = NoHandler]
    /\ phase' = [phase EXCEPT ![s] = "reading"]
    /\ UNCHANGED <<threads, version, sessions, broken, received, joined,
                   write_queue, writes, sent>>

-----------------------------------------------------------------------------
(* Writes: the posted lambda, DoWrite and OnWrite                             *)

\* Slip: every queued message starts a write of its own.
WriteAnyway(queue) == 1

\* Slip: only a queue that was not empty starts a write.
WriteIfBusy(queue) == IF queue = <<>> THEN 0 ELSE 1

\* Slip: whether the queue is empty is asked after the push: it never is.
AskAfterPush(queue) == 0

\* The posted lambda starts a write only if none can be under way.
WritesToStart(queue) == IF queue = <<>> THEN 1 ELSE 0

RunPosted(s) ==
    /\ posted[s] # <<>>
    /\ CanRun(s)
    /\ posted' = [posted EXCEPT ![s] = Tail(@)]
    /\ write_queue' = [write_queue EXCEPT ![s] = Append(@, Head(posted[s]))]
    /\ writes' = [writes EXCEPT ![s] = @ + WritesToStart(write_queue[s])]
    /\ UNCHANGED <<threads, version, sessions, broken, joined, readVars, sent>>

OnWrite(s) ==
    /\ writes[s] > 0
    /\ ~broken[s]
    /\ CanRun(s)
    /\ sent' = [sent EXCEPT ![s] = Append(@, Head(write_queue[s]))]
    /\ write_queue' = [write_queue EXCEPT ![s] = Tail(@)]
    /\ writes' = [writes EXCEPT ![s] = IF Len(write_queue[s]) > 1 THEN @ ELSE @ - 1]
    /\ UNCHANGED <<threads, version, sessions, broken, joined, readVars, posted>>

\* The message that failed stays at the head of the queue: nothing is written
\* to this connection any more.
OnWriteError(s) ==
    /\ writes[s] > 0
    /\ CanRun(s)
    /\ sessions' = Unregister(s)
    /\ broken' = [broken EXCEPT ![s] = TRUE]
    /\ writes' = [writes EXCEPT ![s] = @ - 1]
    /\ UNCHANGED <<threads, version, joined, readVars, posted, write_queue, sent>>

-----------------------------------------------------------------------------

ReadStep(s) ==
    \/ Refuse(s) \/ Change(s) \/ Snapshot(s) \/ CopyItems(s) \/ Reply(s)
    \/ \E t \in Sessions : DeliverTo(s, t)

WriteStep(s) == RunPosted(s) \/ OnWrite(s)

Next ==
    \E s \in Sessions :
      \/ Accept(s) \/ HandshakeDone(s) \/ ReadSideFails(s)
      \/ ReadChange(s) \/ ReadMalformed(s) \/ ReadGetState(s)
      \/ ReadStep(s)
      \/ WriteStep(s) \/ OnWriteError(s)

Spec == Init /\ [][Next]_vars

\* Running handlers proceed; posted lambdas and completed writes get a thread
\* again and again.  Clients owe nothing: they may send no request, or vanish.
FairSpec ==
    /\ Spec
    /\ \A s \in Sessions : WF_vars(ReadStep(s))
    /\ \A s \in Sessions : SF_vars(RunPosted(s))
    /\ \A s \in Sessions : SF_vars(OnWrite(s) \/ OnWriteError(s))

-----------------------------------------------------------------------------
(* Properties *)

\* Types; and the message an outstanding write refers to is still in the queue.
TypeOK ==
    /\ threads \in ThreadCounts
    /\ version \in Versions
    /\ sessions \subseteq Sessions
    /\ phase \in [Sessions -> Phases]
    /\ broken \in [Sessions -> BOOLEAN]
    /\ handler \in [Sessions -> [pc : Steps, ver : Versions,
                                 todo : SUBSET Sessions, reply : Message]]
    /\ posted \in [Sessions -> Seq(Message)]
    /\ write_queue \in [Sessions -> Seq(Message)]
    /\ writes \in [Sessions -> Nat]
    /\ \A s \in Sessions : writes[s] <= Len(write_queue[s])
    /\ sent \in [Sessions -> Seq(Message)]
    /\ received \in [Sessions -> Nat]
    /\ joined \in [Sessions -> Versions]

\* The queue drives exactly one write at a time: never two (Beast forbids it),
\* and on a live connection never none while a message waits.  There is no
\* `writing` flag: the posted lambda infers it from the queue (line 72).
OneWriteAtATime ==
    \A s \in Sessions :
      /\ writes[s] <= 1
      /\ ~broken[s] /\ write_queue[s] # <<>> => writes[s] = 1

\* sessions_ holds a session from its acceptance until its first failure, on
\* either side, and never again: no entry leaks, none is erased while in use.
LiveSessionsRegistered ==
    sessions = {s \in Sessions : phase[s] \notin {"none", "closed"} /\ ~broken[s]}

\* Everything delivered to a session, in order.
Log(s) == sent[s] \o write_queue[s] \o posted[s]

Pending(v) == \E s \in Sessions : phase[s] = "handling" /\ handler[s].ver = v

\* A connected client misses no change and is told of none twice: each change
\* made since its session registered is an event in its log as soon as the
\* request that made it is over, whatever connects and disconnects meanwhile.
NoChangeMissed ==
    \A s \in Sessions :
      LET Seen(v) == {k \in DOMAIN Log(s) : Log(s)[k] = Event(v)} IN
      \A v \in 1..version :
        /\ Cardinality(Seen(v)) <= 1
        /\ (s \in sessions /\ joined[s] < v /\ ~Pending(v)) => Seen(v) # {}

\* A client is told of its own change by the event first and the response next.
EventBeforeResponse ==
    \A s \in Sessions :
      \A k \in DOMAIN Log(s) :
        (Log(s)[k].kind = "response" /\ Log(s)[k].ver # 0 /\ ~broken[s]) =>
          \E j \in 1..(k - 1) : Log(s)[j] = Event(Log(s)[k].ver)

EventsInOrder(log) ==
    \A j, k \in DOMAIN log :
      (j < k /\ log[j].kind = "event" /\ log[k].kind = "event") =>
        log[j].ver < log[k].ver

SnapshotsAreFresh(log) ==
    \A j, k \in DOMAIN log :
      (j < k /\ log[j].kind = "event" /\ log[k].kind = "state") =>
        log[j].ver <= log[k].users

\* With one thread, what a client is told never goes back: events come in the
\* order of the changes, so the last one about an item tells its present state,
\* and a snapshot is not older than an event received before it.
ClientsDoNotGoBack ==
    threads = 1 =>
      \A s \in Sessions : EventsInOrder(Log(s)) /\ SnapshotsAreFresh(Log(s))

\* get_state answers with one state of the auction, the "полный снимок состояния"
\* of test.txt:28, although it locks the manager twice (session.cpp:255).
SnapshotIsOneState ==
    \A s \in Sessions :
      \A k \in DOMAIN Log(s) :
        Log(s)[k].kind = "state" => Log(s)[k].users = Log(s)[k].items

\* Every request read is answered on the wire, unless the connection fails:
\* posts, queue and write loop never lose a response or wait for each other.
Answers(s) == Cardinality({k \in DOMAIN sent[s] : sent[s][k].kind # "event"})

EveryRequestAnswered ==
    \A s \in Sessions : \A n \in 1..MaxRequests :
      received[s] >= n ~> (Answers(s) >= n \/ broken[s])

=============================================================================
