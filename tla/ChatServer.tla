----------------------------- MODULE ChatServer ------------------------------
(* The long-polling chat server: ChatManager behind cpp-httplib's ThreadPool  *)
(* (main.cpp:110).  A request waits in the pool's queue for a worker; the     *)
(* worker runs its handler to the end.  The poll handler keeps its worker     *)
(* while it waits in PollMessages, so enough polls leave no worker for the    *)
(* message they are waiting for, and only their timeouts free one.            *)
(*                                                                            *)
(* What a request asks is chosen when its handler runs: its client waits for  *)
(* the answer and learns nothing in between.                                  *)
EXTENDS ChatManager

CONSTANT PoolSize      \* 16 in main.cpp

ASSUME PoolAssumption == PoolSize \in Nat \ {0}

VARIABLES
    queue,     \* the pool's jobs: the clients whose requests wait for a worker
    busy       \* the clients whose requests have a worker

serverVars == <<chatVars, queue, busy>>

ServerInit == Init /\ queue = <<>> /\ busy = {}

InQueue(c) == \E k \in DOMAIN queue : queue[k] = c

Pending(c) == InQueue(c) \/ c \in busy

\* A client sends a request once it has the answer to the one before.
Submit(c) ==
    /\ ~Pending(c)
    /\ queue' = Append(queue, c)
    /\ UNCHANGED <<chatVars, busy>>

\* A worker takes the next job.
Take ==
    /\ queue # <<>>
    /\ Cardinality(busy) < PoolSize
    /\ busy' = busy \cup {Head(queue)}
    /\ queue' = Tail(queue)
    /\ UNCHANGED chatVars

\* The handlers that answer without waiting: POST /participants and /rooms,
\* POST and DELETE of a room's participants ...
ManageRooms(c) ==
    \/ CreateParticipant(c)
    \/ CreateRoom(c)
    \/ \E r \in RoomIds, p \in Clients :
         AddParticipantToRoom(c, r, p) \/ RemoveParticipantFromRoom(c, r, p)

\* ... POST and GET of its messages, and the poll that finds some.
PostOrRead(c) ==
    \/ \E r \in RoomIds : CreateMessage(c, r) \/ GetMessages(c, r)
    \/ \E r \in RoomIds, from \in FromTimes : PollAnswered(c, r, from)

\* A bad key or body, an unknown room or participant, a missing membership.
Refused == UNCHANGED chatVars

PollStarts(c) == \E r \in RoomIds, from \in FromTimes : PollWaits(c, r, from)

Serve(c) ==
    /\ c \in busy
    /\ Ready(c)
    /\ \/ (ManageRooms(c) \/ PostOrRead(c) \/ Refused) /\ busy' = busy \ {c}
       \/ PollStarts(c) /\ UNCHANGED busy
    /\ UNCHANGED queue

\* Slip: the worker is given back whenever the poll has looked.
ResumeOnce(c) == WakeUp(c) /\ busy' = busy \ {c} /\ UNCHANGED queue

\* The waiting poll looks again; when it returns the answer goes out.
Resume(c) ==
    /\ WakeUp(c)
    /\ busy' = IF call'[c].state = "none" THEN busy \ {c} ELSE busy
    /\ UNCHANGED queue

\* Slip: timeout=0 is taken to mean that the poll waits as long as it takes.
NoExpiry(c) == FALSE /\ UNCHANGED serverVars

\* A timeout below 1 counts as 1 and one above 60 as 60: every poll has one.
Expire(c) == Timeout(c) /\ UNCHANGED <<queue, busy>>

ServerNext ==
    \/ Take
    \/ \E c \in Clients :
         \/ Submit(c)
         \/ Serve(c)
         \/ Resume(c)
         \/ SpuriousWakeup(c) /\ UNCHANGED <<queue, busy>>
         \/ Expire(c)

\* Workers run, and time passes; nobody need ever send a request.
ServerSpec ==
    /\ ServerInit /\ [][ServerNext]_serverVars
    /\ WF_serverVars(Take)
    /\ \A c \in Clients : /\ WF_serverVars(Serve(c))
                          /\ WF_serverVars(Resume(c))
                          /\ WF_serverVars(Expire(c))

-----------------------------------------------------------------------------
(* Properties *)

\* Types; a worker is held by one request, and a poll that waits holds one.
ServerTypeOK ==
    /\ TypeOK
    /\ queue \in Seq(Clients)
    /\ busy \subseteq Clients
    /\ Cardinality(busy) <= PoolSize
    /\ \A c \in Clients : ~(InQueue(c) /\ c \in busy)
    /\ \A c \in Clients : ~Ready(c) => c \in busy

\* However many polls hold the workers, every request is answered at last: the
\* polls time out, if nothing else wakes them, and the pool is first in first
\* out.
EveryRequestAnswered == \A c \in Clients : Pending(c) ~> ~Pending(c)

=============================================================================
