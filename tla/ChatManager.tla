----------------------------- MODULE ChatManager -----------------------------
(* The core of the long-polling chat server, class Chat::ChatManager: a       *)
(* monitor with mutex_ and the condition variable cv_.                        *)
(*                                                                            *)
(* Every method holds mutex_ throughout and is one step, except PollMessages, *)
(* which waits on cv_: the poll checks, waits with the mutex released, is     *)
(* woken by CreateMessage's notify_all, spuriously or by its timeout, and     *)
(* looks again once it holds the mutex.  A call that returns an error changes *)
(* nothing.                                                                   *)
(*                                                                            *)
(* A client is a participant with one connection, which has at most one call  *)
(* in progress.  Following test.txt (step 8) it asks for the messages after   *)
(* the last one it received.                                                  *)
EXTENDS Integers, Sequences, FiniteSets

CONSTANTS
    Clients,       \* who may register as a participant
    MaxRooms,      \* bound on CreateRoom calls
    MaxMessages,   \* bound on the messages of all rooms
    Times,         \* what the system clock may read; it need not go forward
    FromTimes      \* the fromTs filters used, 0 for none

ASSUME ChatAssumption ==
    /\ MaxRooms \in Nat
    /\ MaxMessages \in Nat
    /\ Times \subseteq Nat \ {0}
    /\ FromTimes \subseteq Nat

VARIABLES
    participants,      \* participants_: the clients registered
    rooms,             \* rooms_: room id r is rooms[r]; ids count from 1
    next_message_id,   \* next_message_id_, shared by all rooms
    call,              \* each client's PollMessages call, if it is in one
    received,          \* the ids of the messages each client got from each room
    repeated,          \* history: a client was sent a message it had already
    leaks              \* history: see LeaksAtMostOneAnswer

store == <<participants, rooms, next_message_id>>
clientSide == <<received, repeated, leaks>>
chatVars == <<store, call, clientSide>>

RoomIds == 1..MaxRooms
MessageIds == 1..MaxMessages
PollStates == {"none", "waiting", "woken", "expired"}

Message == [id : MessageIds, created_at_ms : Times]
Room == [participants : SUBSET Clients, messages : Seq(Message)]
Call == [state : PollStates, room : RoomIds \cup {0},
         since_id : MessageIds \cup {0}, from_ts_ms : FromTimes \cup {0}]

NoCall == [state |-> "none", room |-> 0, since_id |-> 0, from_ts_ms |-> 0]

Init ==
    /\ participants = {}
    /\ rooms = <<>>
    /\ next_message_id = 1
    /\ call = [c \in Clients |-> NoCall]
    /\ received = [c \in Clients |-> [r \in RoomIds |-> {}]]
    /\ repeated = FALSE
    /\ leaks = [c \in Clients |-> [r \in RoomIds |-> 0]]

Ready(c) == call[c].state = "none"

-----------------------------------------------------------------------------
(* Participants and rooms                                                     *)

\* A key is random and 128 bits long: nobody else has it.
Authenticate(c) == c \in participants

CreateParticipant(c) ==
    /\ Ready(c)
    /\ c \notin participants
    /\ participants' = participants \cup {c}
    /\ UNCHANGED <<rooms, next_message_id, call, clientSide>>

CreateRoom(c) ==
    /\ Ready(c)
    /\ Authenticate(c)
    /\ Len(rooms) < MaxRooms
    /\ rooms' = Append(rooms, [participants |-> {c}, messages |-> <<>>])
    /\ UNCHANGED <<participants, next_message_id, call, clientSide>>

Member(c, r) == c \in rooms[r].participants

\* Slip: the requester's own membership is not looked at.
MayInviteAnyone(c, r, p) == p \in participants

MayInvite(c, r, p) == p \in participants /\ Member(c, r)

AddParticipantToRoom(c, r, p) ==
    /\ Ready(c)
    /\ Authenticate(c)
    /\ r \in DOMAIN rooms
    /\ MayInvite(c, r, p)
    /\ p \notin rooms[r].participants
    /\ rooms' = [rooms EXCEPT ![r].participants = @ \cup {p}]
    /\ leaks' = [leaks EXCEPT ![p][r] = 0]
    /\ UNCHANGED <<participants, next_message_id, call, received, repeated>>

\* Any member may remove any member, himself and the last one included.  Polls
\* the removed member is waiting in go on waiting.
RemoveParticipantFromRoom(c, r, p) ==
    /\ Ready(c)
    /\ Authenticate(c)
    /\ r \in DOMAIN rooms
    /\ Member(c, r)
    /\ p \in rooms[r].participants
    /\ rooms' = [rooms EXCEPT ![r].participants = @ \ {p}]
    /\ UNCHANGED <<participants, next_message_id, call, clientSide>>

-----------------------------------------------------------------------------
(* Messages                                                                   *)

\* Slip: notify_one, whoever it wakes.
NotifyOne ==
    \/ \E c \in Clients : /\ call[c].state = "waiting"
                          /\ call' = [call EXCEPT ![c].state = "woken"]
    \/ /\ \A c \in Clients : call[c].state # "waiting"
       /\ UNCHANGED call

\* cv_.notify_all: the pollers of every room wake up.
NotifyAll ==
    call' = [c \in Clients |->
               IF call[c].state = "waiting"
               THEN [call[c] EXCEPT !.state = "woken"]
               ELSE call[c]]

CreateMessage(c, r) ==
    /\ Ready(c)
    /\ Authenticate(c)
    /\ r \in DOMAIN rooms
    /\ Member(c, r)
    /\ next_message_id <= MaxMessages
    /\ \E now \in Times :
         rooms' = [rooms EXCEPT ![r].messages =
                     Append(@, [id |-> next_message_id, created_at_ms |-> now])]
    /\ next_message_id' = next_message_id + 1
    /\ NotifyAll
    /\ UNCHANGED <<participants, clientSide>>

\* Slip: the message the client knows is sent again.
AtOrAfter(message, since_id) == message.id >= since_id

After(message, since_id) == message.id > since_id

Matches(message, since_id, from_ts_ms) ==
    /\ After(message, since_id)
    /\ from_ts_ms > 0 => message.created_at_ms >= from_ts_ms

Available(r, since_id, from_ts_ms) ==
    \E k \in DOMAIN rooms[r].messages :
      Matches(rooms[r].messages[k], since_id, from_ts_ms)

\* The ids of the messages of an answer; they are in the room's order.
FilterMessages(r, since_id, from_ts_ms) ==
    {rooms[r].messages[k].id : k \in
       {n \in DOMAIN rooms[r].messages :
          Matches(rooms[r].messages[n], since_id, from_ts_ms)}}

\* The last message the client knows of a room, 0 for none.
LastId(c, r) ==
    IF received[c][r] = {} THEN 0
    ELSE CHOOSE i \in received[c][r] : \A j \in received[c][r] : j <= i

\* The client takes in an answer.  One that was filtered by time is looked at
\* and not counted as knowledge of the room.
Answer(c, r, since_id, from_ts_ms) ==
    LET ids == FilterMessages(r, since_id, from_ts_ms) IN
    /\ IF from_ts_ms = 0
       THEN /\ received' = [received EXCEPT ![c][r] = @ \cup ids]
            /\ repeated' = (repeated \/ ids \cap received[c][r] # {})
       ELSE UNCHANGED <<received, repeated>>
    /\ leaks' = IF ids # {} /\ ~Member(c, r)
                THEN [leaks EXCEPT ![c][r] = @ + 1]
                ELSE leaks

\* Slip: any participant may read any room.
MayReadAnyRoom(c, r) == r \in DOMAIN rooms

MayRead(c, r) == r \in DOMAIN rooms /\ Member(c, r)

GetMessages(c, r) ==
    /\ Ready(c)
    /\ Authenticate(c)
    /\ MayRead(c, r)
    /\ Answer(c, r, LastId(c, r), 0)
    /\ UNCHANGED <<store, call>>

-----------------------------------------------------------------------------
(* PollMessages                                                               *)

\* Something is there already: answered at once.
PollAnswered(c, r, from_ts_ms) ==
    /\ Ready(c)
    /\ Authenticate(c)
    /\ MayRead(c, r)
    /\ Available(r, LastId(c, r), from_ts_ms)
    /\ Answer(c, r, LastId(c, r), from_ts_ms)
    /\ UNCHANGED <<store, call>>

PollWaits(c, r, from_ts_ms) ==
    /\ Ready(c)
    /\ Authenticate(c)
    /\ MayRead(c, r)
    /\ ~Available(r, LastId(c, r), from_ts_ms)
    /\ call' = [call EXCEPT ![c] =
                  [state |-> "waiting", room |-> r, since_id |-> LastId(c, r),
                   from_ts_ms |-> from_ts_ms]]
    /\ UNCHANGED <<store, clientSide>>

SpuriousWakeup(c) ==
    /\ call[c].state = "waiting"
    /\ call' = [call EXCEPT ![c].state = "woken"]
    /\ UNCHANGED <<store, clientSide>>

\* The timeout, of 1 to 60 seconds.
Timeout(c) ==
    /\ call[c].state \in {"waiting", "woken"}
    /\ call' = [call EXCEPT ![c].state = "expired"]
    /\ UNCHANGED <<store, clientSide>>

Return(c) ==
    /\ Answer(c, call[c].room, call[c].since_id, call[c].from_ts_ms)
    /\ call' = [call EXCEPT ![c] = NoCall]
    /\ UNCHANGED store

CallAvailable(c) == Available(call[c].room, call[c].since_id, call[c].from_ts_ms)

\* Awake and holding the mutex again: the predicate of wait_for decides, unless
\* the time is over.  Membership is not looked at again.
WakeUp(c) ==
    \/ /\ call[c].state = "woken"
       /\ CallAvailable(c)
       /\ Return(c)
    \/ /\ call[c].state = "woken"
       /\ ~CallAvailable(c)
       /\ call' = [call EXCEPT ![c].state = "waiting"]
       /\ UNCHANGED <<store, clientSide>>
    \/ /\ call[c].state = "expired"
       /\ Return(c)

-----------------------------------------------------------------------------

Next ==
    \E c \in Clients :
      \/ CreateParticipant(c)
      \/ CreateRoom(c)
      \/ \E r \in RoomIds, p \in Clients :
           AddParticipantToRoom(c, r, p) \/ RemoveParticipantFromRoom(c, r, p)
      \/ \E r \in RoomIds : CreateMessage(c, r) \/ GetMessages(c, r)
      \/ \E r \in RoomIds, from \in FromTimes :
           PollAnswered(c, r, from) \/ PollWaits(c, r, from)
      \/ SpuriousWakeup(c) \/ Timeout(c) \/ WakeUp(c)

Spec == Init /\ [][Next]_chatVars

-----------------------------------------------------------------------------
(* Properties *)

\* Types; only registered clients are in rooms or wait, in rooms that exist.
TypeOK ==
    /\ participants \subseteq Clients
    /\ rooms \in Seq(Room)
    /\ Len(rooms) <= MaxRooms
    /\ next_message_id \in 1..(MaxMessages + 1)
    /\ call \in [Clients -> Call]
    /\ received \in [Clients -> [RoomIds -> SUBSET MessageIds]]
    /\ repeated \in BOOLEAN
    /\ leaks \in [Clients -> [RoomIds -> Nat]]
    /\ \A r \in DOMAIN rooms : rooms[r].participants \subseteq participants
    /\ \A c \in Clients : ~Ready(c) => call[c].room \in DOMAIN rooms

\* No wakeup is missed: a poll sleeps only while there is nothing for it.
NoMissedWakeup ==
    \A c \in Clients : call[c].state = "waiting" => ~CallAvailable(c)

\* Following the last known id, a client gets every message of a room once: no
\* message is skipped or repeated between one answer and the next request,
\* whoever posts meanwhile and whether polls wake, time out or return at once.
GapFree ==
    /\ ~repeated
    /\ \A c \in Clients : \A r \in DOMAIN rooms :
         LET m == rooms[r].messages IN
         \A j, k \in DOMAIN m :
           j < k /\ m[k].id \in received[c][r] => m[j].id \in received[c][r]

\* A client removed from a room gets at most one answer with messages of it
\* from then on: the poll it was waiting in when removed, which does not look
\* at membership again (lines 186-192).
LeaksAtMostOneAnswer == \A c \in Clients : \A r \in RoomIds : leaks[c][r] <= 1

\* A room whose last participant was removed can never be entered again.
OrphanedRoomsStayEmpty ==
    [][\A r \in DOMAIN rooms :
         rooms[r].participants = {} => rooms'[r] = rooms[r]]_chatVars

Log(room) == [members |-> room.participants,
              posted |-> {room.messages[k].id : k \in DOMAIN room.messages}]

\* What a client waits for, in a call of PollMessages.
Ticket(c) == IF Ready(c) THEN [room |-> 0, all |-> TRUE]
             ELSE [room |-> call[c].room, all |-> call[c].from_ts_ms = 0]

Logs == INSTANCE RoomLogs WITH
    logs <- [r \in DOMAIN rooms |-> Log(rooms[r])],
    known <- received,
    ticket <- [c \in Clients |-> Ticket(c)]

\* Without clocks, waiting and last ids, the manager keeps logs that members
\* read to the end: an answer to a client that follows a room, at once or after
\* a wait, brings it everything posted there, in one step with everything else
\* that happens to rooms, and who is not a member gets what it had asked for as
\* a member at most.
ImplementsRoomLogs == Logs!Spec

=============================================================================
