------------------------- MODULE ChatManagerProofs --------------------------
(* Theorems about ChatManager, and about the server that runs it in a pool of *)
(* workers, for every value of their constants.                               *)
EXTENDS ChatServer, DataLemmas

\* Ids rise within a room and stay below the counter all rooms share.
IdsRise ==
    \A r \in DOMAIN rooms : \A k \in DOMAIN rooms[r].messages :
      /\ rooms[r].messages[k].id < next_message_id
      /\ \A j \in DOMAIN rooms[r].messages :
           j < k => rooms[r].messages[j].id < rooms[r].messages[k].id

\* The ids of the first n messages of room r.
FirstIds(r, n) == {rooms[r].messages[k].id : k \in 1..n}

\* What a client has received of a room is a beginning of it.
ReceivedPrefix ==
    \A c \in Clients : \A r \in RoomIds :
      IF r \in DOMAIN rooms
      THEN \E n \in 0..Len(rooms[r].messages) : received[c][r] = FirstIds(r, n)
      ELSE received[c][r] = {}

\* A poll asks for what follows the last message its client knows.
SinceLast ==
    \A c \in Clients : ~Ready(c) => call[c].since_id = LastId(c, call[c].room)

\* The inductive invariant.
ChatInv == TypeOK /\ IdsRise /\ ReceivedPrefix /\ SinceLast /\ ~repeated

-----------------------------------------------------------------------------
(* Facts about states *)

\* The parts of a room.
LEMMA RoomFields ==
    ASSUME TypeOK, NEW r \in DOMAIN rooms
    PROVE  /\ r \in RoomIds
           /\ DOMAIN rooms = 1..Len(rooms)
           /\ Len(rooms) \in Nat
           /\ rooms[r] \in Room
           /\ rooms[r].messages \in Seq(Message)
           /\ rooms[r].participants \in SUBSET Clients
           /\ DOMAIN rooms[r].messages = 1..Len(rooms[r].messages)
           /\ Len(rooms[r].messages) \in Nat
           /\ \A k \in DOMAIN rooms[r].messages :
                /\ rooms[r].messages[k].id \in Nat \ {0}
                /\ rooms[r].messages[k].id \in MessageIds
<1>1. /\ rooms \in Seq(Room)
      /\ Len(rooms) \in Nat
      /\ DOMAIN rooms = 1..Len(rooms)
      /\ Len(rooms) <= MaxRooms
  BY LenProperties DEF TypeOK
<1>2. r \in RoomIds /\ rooms[r] \in Room
  BY <1>1, ElementOfSeq, ChatAssumption DEF RoomIds, ChatAssumption
<1>3. /\ rooms[r].messages \in Seq(Message)
      /\ rooms[r].participants \in SUBSET Clients
  BY <1>2 DEF Room
<1>4. /\ DOMAIN rooms[r].messages = 1..Len(rooms[r].messages)
      /\ Len(rooms[r].messages) \in Nat
      /\ \A k \in DOMAIN rooms[r].messages : rooms[r].messages[k] \in Message
  BY <1>3, LenProperties, ElementOfSeq
<1>5. \A m \in Message : m.id \in MessageIds /\ m.id \in Nat \ {0}
  BY ChatAssumption DEF Message, MessageIds, ChatAssumption
<1> QED
  BY <1>1, <1>2, <1>3, <1>4, <1>5

\* A client that has received the first n messages knows the n-th as the last.
LEMMA LastKnown ==
    ASSUME TypeOK, IdsRise, NEW c \in Clients, NEW r \in DOMAIN rooms,
           NEW n \in 0..Len(rooms[r].messages),
           received[c][r] = FirstIds(r, n)
    PROVE  LastId(c, r) = IF n = 0 THEN 0 ELSE rooms[r].messages[n].id
<1>0. /\ DOMAIN rooms[r].messages = 1..Len(rooms[r].messages)
      /\ Len(rooms[r].messages) \in Nat
      /\ \A k \in DOMAIN rooms[r].messages : rooms[r].messages[k].id \in Nat
  BY RoomFields
<1>1. CASE n = 0
  <2>1. received[c][r] = {}
    BY <1>1 DEF FirstIds
  <2> QED
    BY <1>1, <2>1 DEF LastId
<1>2. CASE n # 0
  <2> DEFINE last == rooms[r].messages[n].id
  <2>1. n \in 1..n /\ 1..n \subseteq DOMAIN rooms[r].messages
    BY <1>0, <1>2
  <2>2. last \in received[c][r]
    BY <2>1 DEF FirstIds
  <2>3. \A k \in 1..n : rooms[r].messages[k].id <= last
    <3>1. \A k \in 1..n : k = n \/ k < n
      BY <1>0
    <3>2. \A k \in 1..n : k < n => rooms[r].messages[k].id < last
      BY <2>1 DEF IdsRise
    <3>3. \A k \in 1..n : rooms[r].messages[k].id \in Nat
      BY <1>0, <2>1
    <3> QED
      BY <2>1, <3>1, <3>2, <3>3
  <2>4. \A i \in received[c][r] : i \in Nat /\ i <= last
    <3>1. \A k \in 1..n : rooms[r].messages[k].id \in Nat
      BY <1>0, <2>1
    <3>2. received[c][r] = {rooms[r].messages[k].id : k \in 1..n}
      BY DEF FirstIds
    <3> QED
      BY <2>3, <3>1, <3>2
  <2>5. \A i \in received[c][r] :
          (\A j \in received[c][r] : j <= i) => i = last
    BY <2>2, <2>4
  <2>6. LastId(c, r) = last
    BY <2>2, <2>4, <2>5 DEF LastId
  <2> QED
    BY <1>2, <2>6
<1> QED
  BY <1>1, <1>2

\* The last id a client knows is an id, or 0.
LEMMA LastIdType ==
    ASSUME ChatInv, NEW c \in Clients, NEW r \in DOMAIN rooms
    PROVE  LastId(c, r) \in MessageIds \cup {0}
<1>1. r \in RoomIds /\ DOMAIN rooms[r].messages = 1..Len(rooms[r].messages)
  BY RoomFields DEF ChatInv
<1>2. PICK n \in 0..Len(rooms[r].messages) : received[c][r] = FirstIds(r, n)
  BY <1>1 DEF ChatInv, ReceivedPrefix
<1>3. LastId(c, r) = IF n = 0 THEN 0 ELSE rooms[r].messages[n].id
  BY <1>2, LastKnown DEF ChatInv
<1>4. CASE n = 0
  BY <1>3, <1>4
<1>5. CASE n # 0
  <2>1. n \in DOMAIN rooms[r].messages
    BY <1>1, <1>5, RoomFields DEF ChatInv
  <2> QED
    BY <1>3, <1>5, <2>1, RoomFields DEF ChatInv
<1> QED
  BY <1>4, <1>5

\* An answer from the last known id on brings exactly the rest of the room.
LEMMA AnswerIsTheRest ==
    ASSUME ChatInv, NEW c \in Clients, NEW r \in DOMAIN rooms,
           NEW n \in 0..Len(rooms[r].messages),
           received[c][r] = FirstIds(r, n)
    PROVE  /\ FilterMessages(r, LastId(c, r), 0) \cap received[c][r] = {}
           /\ received[c][r] \cup FilterMessages(r, LastId(c, r), 0)
                = FirstIds(r, Len(rooms[r].messages))
<1> DEFINE m == rooms[r].messages
           last == LastId(c, r)
           later == {k \in DOMAIN m : Matches(m[k], last, 0)}
<1>0. /\ DOMAIN m = 1..Len(m)
      /\ Len(m) \in Nat
      /\ \A k \in DOMAIN m : m[k].id \in Nat \ {0}
  BY RoomFields DEF ChatInv
<1>1. last = IF n = 0 THEN 0 ELSE m[n].id
  BY LastKnown DEF ChatInv
<1>2. \A k \in DOMAIN m : Matches(m[k], last, 0) <=> k > n
  <2> SUFFICES ASSUME NEW k \in DOMAIN m
               PROVE  m[k].id > last <=> k > n
    BY DEF Matches, After
  <2>1. CASE n = 0
    BY <1>0, <1>1, <2>1
  <2>2. CASE n # 0
    <3>1. n \in DOMAIN m /\ last = m[n].id
      BY <1>0, <1>1, <2>2
    <3>2. \A i, j \in DOMAIN m : i < j => m[i].id < m[j].id
      BY DEF ChatInv, IdsRise
    <3> QED
      BY <1>0, <3>1, <3>2
  <2> QED
    BY <2>1, <2>2
<1>3. later = (n + 1)..Len(m)
  BY <1>0, <1>2
<1>4. FilterMessages(r, last, 0) = {m[k].id : k \in (n + 1)..Len(m)}
  BY <1>3 DEF FilterMessages
<1>5. \A j \in 1..n : \A k \in (n + 1)..Len(m) : m[j].id # m[k].id
  <2> SUFFICES ASSUME NEW j \in 1..n, NEW k \in (n + 1)..Len(m)
               PROVE  m[j].id # m[k].id
    OBVIOUS
  <2>1. j \in DOMAIN m /\ k \in DOMAIN m /\ j < k
    BY <1>0
  <2> QED
    BY <1>0, <2>1 DEF ChatInv, IdsRise
<1>6. (1..n) \cup ((n + 1)..Len(m)) = 1..Len(m)
  BY <1>0
<1> HIDE DEF m, last
<1> QED
  BY <1>4, <1>5, <1>6 DEF FirstIds, m, last

-----------------------------------------------------------------------------
(* Steps *)

\* What no step takes back: rooms stay, and so do the messages in them.
\* Only new messages have ids the counter has not passed.
SameMessages ==
    /\ DOMAIN rooms' = DOMAIN rooms
    /\ \A r \in DOMAIN rooms : rooms'[r].messages = rooms[r].messages

\* A step that moves no messages, and delivers none, keeps ids and knowledge.
LEMMA NoMessagesMove ==
    ASSUME ChatInv, SameMessages, TypeOK',
           UNCHANGED <<next_message_id, received, repeated>>
    PROVE  /\ (IdsRise /\ ReceivedPrefix /\ ~repeated)'
           /\ \A c \in Clients : \A r \in RoomIds : LastId(c, r)' = LastId(c, r)
<1>1. IdsRise'
  BY DEF ChatInv, SameMessages, IdsRise
<1>2. ReceivedPrefix'
  BY DEF ChatInv, SameMessages, ReceivedPrefix, FirstIds
<1>3. \A c \in Clients : \A r \in RoomIds : LastId(c, r)' = LastId(c, r)
  BY DEF LastId
<1> QED
  BY <1>1, <1>2, <1>3 DEF ChatInv

\* What TypeOK says of the rooms.
RoomsOK ==
    /\ rooms \in Seq(Room)
    /\ Len(rooms) <= MaxRooms
    /\ \A r \in DOMAIN rooms : rooms[r].participants \subseteq participants

\* Replacing a room by one with other participants, or with more messages.
LEMMA RoomExcept ==
    ASSUME TypeOK, NEW r \in DOMAIN rooms, NEW room \in Room,
           room.participants \subseteq participants,
           rooms' = [rooms EXCEPT ![r] = room], UNCHANGED participants
    PROVE  /\ RoomsOK'
           /\ DOMAIN rooms' = DOMAIN rooms
           /\ rooms'[r] = room
           /\ \A q \in DOMAIN rooms : q # r => rooms'[q] = rooms[q]
<1>1. /\ rooms' \in Seq(Room)
      /\ Len(rooms') = Len(rooms)
      /\ DOMAIN rooms' = DOMAIN rooms
      /\ rooms'[r] = room
      /\ \A q \in DOMAIN rooms : q # r => rooms'[q] = rooms[q]
  BY SeqExcept DEF TypeOK
<1>2. \A q \in DOMAIN rooms' : rooms'[q].participants \subseteq participants'
  BY <1>1 DEF TypeOK
<1> QED
  BY <1>1, <1>2 DEF TypeOK, RoomsOK

\* Inviting and removing: a room's participants change and nothing else of it.
LEMMA MembersChange ==
    ASSUME ChatInv, NEW r \in DOMAIN rooms, NEW P \in SUBSET participants,
           rooms' = [rooms EXCEPT ![r].participants = P], UNCHANGED participants
    PROVE  RoomsOK' /\ SameMessages
<1> DEFINE room == [rooms[r] EXCEPT !.participants = P]
<1>1. room \in Room /\ room.participants = P /\ room.messages = rooms[r].messages
  BY RoomFields DEF ChatInv, TypeOK, Room
<1>2. rooms' = [rooms EXCEPT ![r] = room]
  OBVIOUS
<1>3. /\ RoomsOK'
      /\ DOMAIN rooms' = DOMAIN rooms
      /\ rooms'[r] = room
      /\ \A q \in DOMAIN rooms : q # r => rooms'[q] = rooms[q]
  BY <1>1, <1>2, RoomExcept DEF ChatInv
<1> QED
  BY <1>1, <1>3 DEF SameMessages

\* A step that neither moves messages nor delivers any keeps the invariant if
\* it keeps the types and starts polls from the last known id.
LEMMA QuietStep ==
    ASSUME ChatInv, TypeOK', SameMessages,
           UNCHANGED <<next_message_id, received, repeated>>,
           \A c \in Clients :
             call'[c].state # "none" =>
               \/ /\ call[c].state # "none"
                  /\ call'[c].since_id = call[c].since_id
                  /\ call'[c].room = call[c].room
               \/ call'[c].since_id = LastId(c, call'[c].room)
    PROVE  ChatInv'
<1>1. /\ (IdsRise /\ ReceivedPrefix /\ ~repeated)'
      /\ \A c \in Clients : \A r \in RoomIds : LastId(c, r)' = LastId(c, r)
  BY NoMessagesMove
<1>2. ASSUME NEW c \in Clients, call'[c].state # "none"
      PROVE  (call[c].since_id = LastId(c, call[c].room))'
  <2>1. call'[c].since_id = LastId(c, call'[c].room)
    BY <1>2 DEF ChatInv, SinceLast, Ready
  <2> QED
    BY <2>1 DEF LastId
<1>3. SinceLast'
  BY <1>2 DEF SinceLast, Ready
<1> QED
  BY <1>1, <1>3 DEF ChatInv

\* An answer, at once or after waiting, from the last known id on.
LEMMA Delivery ==
    ASSUME ChatInv, NEW c \in Clients, NEW r \in DOMAIN rooms,
           NEW from \in FromTimes \cup {0},
           Answer(c, r, LastId(c, r), from), UNCHANGED store,
           call' \in [Clients -> Call], call'[c].state = "none",
           \A d \in Clients : d # c => call'[d] = call[d]
    PROVE  ChatInv'
<1> DEFINE ids == FilterMessages(r, LastId(c, r), from)
<1>0. r \in RoomIds /\ ids \subseteq MessageIds
  BY RoomFields DEF ChatInv, FilterMessages
<1>1. /\ received' \in [Clients -> [RoomIds -> SUBSET MessageIds]]
      /\ \A d \in Clients, q \in RoomIds :
           d # c \/ q # r => received'[d][q] = received[d][q]
      /\ \/ /\ from = 0
            /\ received'[c][r] = received[c][r] \cup ids
            /\ repeated' = (repeated \/ ids \cap received[c][r] # {})
         \/ UNCHANGED <<received, repeated>>
  <2>1. CASE from = 0
    <3>1. /\ received' = [received EXCEPT ![c][r] = @ \cup ids]
          /\ repeated' = (repeated \/ ids \cap received[c][r] # {})
      BY <2>1 DEF Answer
    <3> HIDE DEF ids
    <3> QED
      BY <1>0, <2>1, <3>1 DEF ChatInv, TypeOK
  <2>2. CASE from # 0
    BY <2>2 DEF Answer, ChatInv, TypeOK
  <2> QED
    BY <2>1, <2>2
<1>2. repeated' = FALSE /\ ReceivedPrefix'
  <2>1. PICK n \in 0..Len(rooms[r].messages) : received[c][r] = FirstIds(r, n)
    BY <1>0 DEF ChatInv, ReceivedPrefix
  <2>2. Len(rooms[r].messages) \in 0..Len(rooms[r].messages)
    BY RoomFields DEF ChatInv
  <2>3. CASE from = 0 /\ received'[c][r] = received[c][r] \cup ids
                      /\ repeated' = (repeated \/ ids \cap received[c][r] # {})
    <3>1. /\ ids \cap received[c][r] = {}
          /\ received'[c][r] = FirstIds(r, Len(rooms[r].messages))
      BY <2>1, <2>3, AnswerIsTheRest
    <3>2. repeated' = FALSE
      BY <2>3, <3>1 DEF ChatInv
    <3>3. ASSUME NEW d \in Clients, NEW q \in RoomIds
          PROVE  IF q \in DOMAIN rooms
                 THEN \E k \in 0..Len(rooms[q].messages) :
                        received'[d][q] = FirstIds(q, k)
                 ELSE received'[d][q] = {}
      <4>1. CASE d = c /\ q = r
        BY <2>2, <3>1, <4>1
      <4>2. CASE d # c \/ q # r
        BY <1>1, <4>2 DEF ChatInv, ReceivedPrefix
      <4> QED
        BY <4>1, <4>2
    <3>4. ReceivedPrefix'
      BY <3>3 DEF ReceivedPrefix, FirstIds, store
    <3> QED
      BY <3>2, <3>4
  <2>4. CASE UNCHANGED <<received, repeated>>
    BY SMTT(60), <2>4 DEF ReceivedPrefix, FirstIds, ChatInv, store
  <2> QED
    BY <1>1, <2>3, <2>4
<1>3. leaks' \in [Clients -> [RoomIds -> Nat]]
  <2> HIDE DEF ids
  <2>1. leaks' = [leaks EXCEPT ![c][r] = @ + 1] \/ leaks' = leaks
    BY DEF Answer
  <2>2. leaks \in [Clients -> [RoomIds -> Nat]] /\ leaks[c][r] + 1 \in Nat
    BY <1>0 DEF ChatInv, TypeOK
  <2>3. [leaks[c] EXCEPT ![r] = leaks[c][r] + 1] \in [RoomIds -> Nat]
    BY <2>2
  <2>4. [leaks EXCEPT ![c][r] = @ + 1]
          = [leaks EXCEPT ![c] = [leaks[c] EXCEPT ![r] = leaks[c][r] + 1]]
    OBVIOUS
  <2> QED
    BY <2>1, <2>2, <2>3, <2>4
<1>4. TypeOK'
  <2>1. \A d \in Clients : call'[d].state # "none" => call'[d].room \in DOMAIN rooms
    BY DEF ChatInv, TypeOK, Ready
  <2> QED
    BY <1>1, <1>2, <1>3, <2>1 DEF ChatInv, TypeOK, Ready, store
<1>5. SinceLast'
  <2>1. ASSUME NEW d \in Clients, call'[d].state # "none"
        PROVE  (call[d].since_id = LastId(d, call[d].room))'
    <3>1. d # c /\ call'[d] = call[d] /\ call[d].room \in DOMAIN rooms
      BY <2>1 DEF ChatInv, TypeOK, Ready
    <3>2. call[d].room \in RoomIds
      BY <3>1, RoomFields DEF ChatInv
    <3>3. received'[d][call[d].room] = received[d][call[d].room]
      BY <1>1, <3>1, <3>2
    <3>4. call[d].since_id = LastId(d, call[d].room)
      BY <2>1, <3>1 DEF ChatInv, SinceLast, Ready
    <3> QED
      BY <3>1, <3>3, <3>4 DEF LastId
  <2> QED
    BY <2>1 DEF SinceLast, Ready
<1>6. IdsRise'
  BY DEF ChatInv, IdsRise, store
<1> QED
  BY <1>2, <1>4, <1>5, <1>6 DEF ChatInv

\* A room is created empty.
LEMMA CreateRoomStep ==
    ASSUME ChatInv, NEW c \in Clients, CreateRoom(c)
    PROVE  ChatInv'
<1> DEFINE room == [participants |-> {c}, messages |-> <<>>]
<1>0. /\ rooms' = Append(rooms, room)
      /\ c \in participants
      /\ UNCHANGED <<participants, next_message_id, call, received, repeated, leaks>>
      /\ Len(rooms) < MaxRooms
  BY DEF CreateRoom, Authenticate, clientSide
<1>1. room \in Room /\ room.messages = <<>> /\ room.participants = {c}
  BY EmptySeq DEF Room
<1>2. /\ rooms' \in Seq(Room)
      /\ Len(rooms') = Len(rooms) + 1
      /\ DOMAIN rooms = 1..Len(rooms)
      /\ DOMAIN rooms' = 1..(Len(rooms) + 1)
      /\ rooms'[Len(rooms) + 1] = room
      /\ \A r \in DOMAIN rooms : rooms'[r] = rooms[r]
  <2> HIDE DEF room
  <2> QED
    BY <1>0, <1>1, SeqAppend DEF ChatInv, TypeOK
<1>3. Len(rooms) \in Nat /\ Len(rooms) + 1 <= MaxRooms
      /\ DOMAIN rooms' = DOMAIN rooms \cup {Len(rooms) + 1}
  BY <1>0, <1>2, LenProperties, ChatAssumption DEF ChatInv, TypeOK, ChatAssumption
<1>4. TypeOK'
  <2>1. \A r \in DOMAIN rooms' : rooms'[r].participants \subseteq participants
    BY <1>0, <1>1, <1>2, <1>3 DEF ChatInv, TypeOK
  <2>2. \A d \in Clients : call[d].state # "none" => call[d].room \in DOMAIN rooms'
    BY <1>3 DEF ChatInv, TypeOK, Ready
  <2> QED
    BY <1>0, <1>2, <1>3, <2>1, <2>2 DEF ChatInv, TypeOK, Ready
<1>5. IdsRise'
  <2>1. rooms'[Len(rooms) + 1].messages = <<>>
    BY <1>1, <1>2
  <2> QED
    BY <1>0, <1>2, <1>3, <2>1 DEF ChatInv, IdsRise
<1>6. ReceivedPrefix'
  <2>1. ASSUME NEW d \in Clients, NEW r \in RoomIds
        PROVE  IF r \in DOMAIN rooms'
               THEN \E n \in 0..Len(rooms'[r].messages) :
                      received[d][r] = {rooms'[r].messages[k].id : k \in 1..n}
               ELSE received[d][r] = {}
    <3>1. CASE r = Len(rooms) + 1
      <4>1. received[d][r] = {} /\ 0 \in 0..Len(rooms'[r].messages)
        BY <1>1, <1>2, <1>3, <2>1, <3>1, EmptySeq DEF ChatInv, ReceivedPrefix
      <4>2. {rooms'[r].messages[k].id : k \in 1..0} = {}
        OBVIOUS
      <4> QED
        BY <1>3, <3>1, <4>1, <4>2
    <3>2. CASE r # Len(rooms) + 1 /\ r \in DOMAIN rooms
      <4>1. rooms'[r].messages = rooms[r].messages /\ r \in DOMAIN rooms'
        BY <1>2, <1>3, <3>2
      <4>2. \E n \in 0..Len(rooms[r].messages) : received[d][r] = FirstIds(r, n)
        BY <2>1, <3>2 DEF ChatInv, ReceivedPrefix
      <4> QED
        BY <4>1, <4>2 DEF FirstIds
    <3>3. CASE r # Len(rooms) + 1 /\ r \notin DOMAIN rooms
      BY <1>3, <2>1, <3>3 DEF ChatInv, ReceivedPrefix
    <3> QED
      BY <3>1, <3>2, <3>3
  <2> QED
    BY <1>0, <2>1 DEF ReceivedPrefix, FirstIds
<1>7. SinceLast'
  BY <1>0 DEF ChatInv, SinceLast, LastId, Ready
<1> QED
  BY <1>0, <1>4, <1>5, <1>6, <1>7 DEF ChatInv

\* A message is added at the end of its room, with the next id.
LEMMA CreateMessageStep ==
    ASSUME ChatInv, NEW c \in Clients, NEW r \in RoomIds, CreateMessage(c, r)
    PROVE  ChatInv'
<1>0. /\ r \in DOMAIN rooms
      /\ next_message_id' = next_message_id + 1
      /\ next_message_id \in Nat \ {0}
      /\ next_message_id <= MaxMessages
      /\ UNCHANGED <<participants, received, repeated, leaks>>
  BY ChatAssumption DEF CreateMessage, clientSide, ChatInv, TypeOK, ChatAssumption
<1>1. PICK now \in Times :
        rooms' = [rooms EXCEPT ![r].messages =
                    Append(@, [id |-> next_message_id, created_at_ms |-> now])]
  BY DEF CreateMessage
<1> DEFINE m == rooms[r].messages
           new == [id |-> next_message_id, created_at_ms |-> now]
           room == [rooms[r] EXCEPT !.messages = Append(m, new)]
<1>2. new \in Message /\ new.id = next_message_id
  BY <1>0, ChatAssumption DEF Message, MessageIds, ChatAssumption
<1>3. /\ Append(m, new) \in Seq(Message)
      /\ Len(Append(m, new)) = Len(m) + 1
      /\ Len(m) \in Nat
      /\ DOMAIN m = 1..Len(m)
      /\ DOMAIN Append(m, new) = 1..(Len(m) + 1)
      /\ Append(m, new)[Len(m) + 1] = new
      /\ \A k \in DOMAIN m : Append(m, new)[k] = m[k]
  <2>1. m \in Seq(Message) /\ Len(m) \in Nat
    BY <1>0, RoomFields DEF ChatInv
  <2> HIDE DEF m, new
  <2> QED
    BY <1>2, <2>1, SeqAppend
<1>4. /\ room \in Room
      /\ room.messages = Append(m, new)
      /\ room.participants = rooms[r].participants
  <2>1. Append(m, new) \in Seq(Message)
    BY <1>3
  <2>2. rooms[r] \in Room
    BY <1>0, RoomFields DEF ChatInv
  <2> HIDE DEF m, new
  <2> QED
    BY <2>1, <2>2 DEF Room
<1>5. /\ RoomsOK'
      /\ DOMAIN rooms' = DOMAIN rooms
      /\ rooms'[r].messages = Append(m, new)
      /\ \A q \in DOMAIN rooms : q # r => rooms'[q].messages = rooms[q].messages
  <2>1. rooms' = [rooms EXCEPT ![r] = room]
    BY <1>1
  <2>2. room.participants \subseteq participants
    BY <1>0, <1>4 DEF ChatInv, TypeOK
  <2>3. TypeOK /\ participants' = participants
    BY <1>0 DEF ChatInv
  <2> HIDE DEF room
  <2>4. /\ RoomsOK'
        /\ DOMAIN rooms' = DOMAIN rooms
        /\ rooms'[r] = room
        /\ \A q \in DOMAIN rooms : q # r => rooms'[q] = rooms[q]
    BY <1>0, <1>4, <2>1, <2>2, <2>3, RoomExcept
  <2> QED
    BY <1>4, <2>4
<1> HIDE DEF room
<1>6. /\ call' \in [Clients -> Call]
      /\ \A d \in Clients :
           /\ call'[d].state # "none" <=> call[d].state # "none"
           /\ call'[d].room = call[d].room
           /\ call'[d].since_id = call[d].since_id
  <2>1. call \in [Clients -> Call]
    BY DEF ChatInv, TypeOK
  <2>2. call' = [d \in Clients |-> IF call[d].state = "waiting"
                                  THEN [call[d] EXCEPT !.state = "woken"]
                                  ELSE call[d]]
    BY DEF CreateMessage, NotifyAll
  <2> QED
    BY <2>1, <2>2 DEF Call, PollStates
<1>7. TypeOK'
  <2>1. \A d \in Clients : call'[d].state # "none" => call'[d].room \in DOMAIN rooms'
    BY <1>5, <1>6 DEF ChatInv, TypeOK, Ready
  <2>2. next_message_id' \in 1..(MaxMessages + 1)
    BY <1>0, ChatAssumption DEF ChatAssumption
  <2> QED
    BY <1>0, <1>5, <1>6, <2>1, <2>2 DEF ChatInv, TypeOK, RoomsOK, Ready
<1>8. IdsRise'
  <2> SUFFICES ASSUME NEW q \in DOMAIN rooms, NEW k \in DOMAIN rooms'[q].messages
               PROVE  /\ rooms'[q].messages[k].id < next_message_id + 1
                      /\ \A j \in DOMAIN rooms'[q].messages : j < k =>
                           rooms'[q].messages[j].id < rooms'[q].messages[k].id
    BY <1>0, <1>5 DEF IdsRise
  <2>1. CASE q = r
    <3>1. \A j \in DOMAIN m : m[j].id \in Nat /\ m[j].id < next_message_id
      BY <1>0, RoomFields DEF ChatInv, IdsRise
    <3>2. \A i, j \in DOMAIN m : i < j => m[i].id < m[j].id
      BY <1>0 DEF ChatInv, IdsRise
    <3>3. k \in 1..(Len(m) + 1)
      BY <1>3, <1>5, <2>1
    <3> DEFINE s == rooms'[q].messages
    <3>4. /\ k \in 1..(Len(m) + 1)
          /\ DOMAIN s = 1..(Len(m) + 1)
          /\ s[Len(m) + 1].id = next_message_id
          /\ \A j \in 1..Len(m) : s[j] = m[j]
      BY <1>2, <1>3, <1>5, <2>1, <3>3
    <3>5. /\ Len(m) \in Nat
          /\ \A j \in 1..Len(m) : m[j].id \in Nat /\ m[j].id < next_message_id
          /\ \A i, j \in 1..Len(m) : i < j => m[i].id < m[j].id
      BY <1>3, <3>1, <3>2
    <3> HIDE DEF m, s
    <3>6. CASE k = Len(m) + 1
      <4>1. \A j \in DOMAIN s : j < k => j \in 1..Len(m)
        BY <3>4, <3>5, <3>6
      <4> QED
        BY SMTT(60), <1>0, <3>4, <3>5, <3>6, <4>1 DEF s
    <3>7. CASE k # Len(m) + 1
      <4>1. k \in 1..Len(m) /\ \A j \in DOMAIN s : j < k => j \in 1..Len(m)
        BY <3>4, <3>5, <3>7
      <4>2. s[k].id < next_message_id + 1
        BY <1>0, <3>4, <3>5, <4>1
      <4>3. \A j \in DOMAIN s : j < k => s[j].id < s[k].id
        BY <3>4, <3>5, <4>1
      <4> QED
        BY <4>2, <4>3 DEF s
    <3> QED
      BY <3>6, <3>7
  <2>2. CASE q # r
    <3>1. rooms'[q].messages = rooms[q].messages
      BY <1>5, <2>2
    <3>2. rooms[q].messages[k].id \in Nat /\ rooms[q].messages[k].id < next_message_id
      BY <3>1, RoomFields DEF ChatInv, IdsRise
    <3> QED
      BY <1>0, <3>1, <3>2 DEF ChatInv, IdsRise
  <2> QED
    BY <2>1, <2>2
<1>9. ReceivedPrefix'
  <2>1. ASSUME NEW d \in Clients, NEW q \in RoomIds, q \in DOMAIN rooms
        PROVE  \E n \in 0..Len(rooms'[q].messages) :
                 received[d][q] = {rooms'[q].messages[k].id : k \in 1..n}
    <3>1. PICK n \in 0..Len(rooms[q].messages) : received[d][q] = FirstIds(q, n)
      BY <2>1 DEF ChatInv, ReceivedPrefix
    <3>2. CASE q = r
      <4>1. n \in 0..Len(rooms'[q].messages)
        BY <1>3, <1>5, <3>2
      <4>2. \A k \in 1..n : rooms'[q].messages[k] = rooms[q].messages[k]
        BY <1>3, <1>5, <3>2
      <4> QED
        <5>1. {rooms'[q].messages[k].id : k \in 1..n} = {rooms[q].messages[k].id : k \in 1..n}
          BY <4>2
        <5>2. received[d][q] = {rooms'[q].messages[k].id : k \in 1..n}
          BY <3>1, <5>1 DEF FirstIds
        <5> QED
          BY <4>1, <5>2
    <3>3. CASE q # r
      <4>1. rooms'[q].messages = rooms[q].messages
        BY <1>5, <2>1, <3>3
      <4>2. n \in 0..Len(rooms'[q].messages)
        BY <4>1
      <4>3. received[d][q] = {rooms'[q].messages[k].id : k \in 1..n}
        BY <3>1, <4>1 DEF FirstIds
      <4> QED
        BY <4>2, <4>3
    <3> QED
      BY <3>2, <3>3
  <2>2. ASSUME NEW d \in Clients, NEW q \in RoomIds, q \notin DOMAIN rooms
        PROVE  received[d][q] = {}
    BY <2>2 DEF ChatInv, ReceivedPrefix
  <2> QED
    BY SMTT(60), <1>0, <1>5, <2>1, <2>2 DEF ReceivedPrefix, FirstIds
<1>10. SinceLast'
  BY <1>0, <1>6 DEF ChatInv, SinceLast, LastId, Ready
<1> QED
  BY <1>0, <1>7, <1>8, <1>9, <1>10 DEF ChatInv

LEMMA CreateParticipantStep ==
    ASSUME ChatInv, NEW c \in Clients, CreateParticipant(c)
    PROVE  ChatInv'
<1>1. /\ participants \subseteq participants'
      /\ participants' \subseteq Clients
      /\ UNCHANGED <<rooms, next_message_id, call, received, repeated, leaks>>
  BY DEF CreateParticipant, clientSide, ChatInv, TypeOK
<1>2. TypeOK' /\ SameMessages
  BY <1>1 DEF ChatInv, TypeOK, SameMessages, Ready
<1>3. \A d \in Clients : call'[d] = call[d]
  BY <1>1
<1> QED
  BY <1>1, <1>2, <1>3, QuietStep

LEMMA MembershipStep ==
    ASSUME ChatInv, NEW c \in Clients, NEW r \in RoomIds, NEW p \in Clients,
           AddParticipantToRoom(c, r, p) \/ RemoveParticipantFromRoom(c, r, p)
    PROVE  ChatInv'
<1>1. /\ r \in DOMAIN rooms
      /\ UNCHANGED <<participants, next_message_id, call, received, repeated>>
  BY DEF AddParticipantToRoom, RemoveParticipantFromRoom, clientSide
<1>2. /\ rooms[r].participants \cup {p} \subseteq participants
         \/ ~AddParticipantToRoom(c, r, p)
      /\ rooms[r].participants \ {p} \subseteq participants
  BY <1>1 DEF AddParticipantToRoom, MayInvite, ChatInv, TypeOK
<1>3. \E P \in SUBSET participants : rooms' = [rooms EXCEPT ![r].participants = P]
  BY <1>2 DEF AddParticipantToRoom, RemoveParticipantFromRoom
<1>4. RoomsOK' /\ SameMessages
  BY <1>1, <1>3, MembersChange
<1>5. leaks' \in [Clients -> [RoomIds -> Nat]]
  <2>1. leaks \in [Clients -> [RoomIds -> Nat]]
    BY DEF ChatInv, TypeOK
  <2>2. leaks' = leaks \/ leaks' = [leaks EXCEPT ![p][r] = 0]
    BY DEF AddParticipantToRoom, RemoveParticipantFromRoom, clientSide
  <2>3. [leaks EXCEPT ![p][r] = 0] \in [Clients -> [RoomIds -> Nat]]
    BY <2>1
  <2> QED
    BY <2>1, <2>2, <2>3
<1>6. TypeOK'
  BY <1>1, <1>4, <1>5 DEF ChatInv, TypeOK, RoomsOK, SameMessages, Ready
<1>7. \A d \in Clients : call'[d] = call[d]
  BY <1>1
<1> QED
  BY <1>1, <1>4, <1>6, <1>7, QuietStep

LEMMA ReadStep ==
    ASSUME ChatInv, NEW c \in Clients, NEW r \in RoomIds,
           GetMessages(c, r) \/ \E from \in FromTimes : PollAnswered(c, r, from)
    PROVE  ChatInv'
<1>1. PICK from \in FromTimes \cup {0} : Answer(c, r, LastId(c, r), from)
  BY DEF GetMessages, PollAnswered
<1>2. /\ r \in DOMAIN rooms
      /\ Ready(c)
      /\ UNCHANGED <<store, call>>
  BY DEF GetMessages, PollAnswered, MayRead
<1>3. /\ call' \in [Clients -> Call]
      /\ call'[c].state = "none"
      /\ \A d \in Clients : d # c => call'[d] = call[d]
  BY <1>2 DEF ChatInv, TypeOK, Ready
<1> QED
  BY <1>1, <1>2, <1>3, Delivery

LEMMA PollWaitsStep ==
    ASSUME ChatInv, NEW c \in Clients, NEW r \in RoomIds, NEW from \in FromTimes,
           PollWaits(c, r, from)
    PROVE  ChatInv'
<1> DEFINE new == [state |-> "waiting", room |-> r, since_id |-> LastId(c, r),
                   from_ts_ms |-> from]
<1>1. /\ r \in DOMAIN rooms
      /\ call' = [call EXCEPT ![c] = new]
      /\ UNCHANGED <<participants, rooms, next_message_id, received, repeated, leaks>>
  BY DEF PollWaits, MayRead, store, clientSide
<1>2. new \in Call
  <2>1. LastId(c, r) \in MessageIds \cup {0}
    BY <1>1, LastIdType
  <2> QED
    BY <2>1 DEF Call, PollStates
<1>3. call' \in [Clients -> Call] /\ call'[c] = new
      /\ \A d \in Clients : d # c => call'[d] = call[d]
  <2> HIDE DEF new
  <2> QED
    BY <1>1, <1>2 DEF ChatInv, TypeOK
<1>4. \A d \in Clients : call'[d].state # "none" => call'[d].room \in DOMAIN rooms
  BY <1>1, <1>3 DEF ChatInv, TypeOK, Ready
<1>5. TypeOK' /\ SameMessages
  <2> HIDE DEF new
  <2> QED
    BY <1>1, <1>3, <1>4 DEF ChatInv, TypeOK, SameMessages, Ready
<1>6. \A d \in Clients :
        call'[d].state # "none" =>
          \/ /\ call[d].state # "none"
             /\ call'[d].since_id = call[d].since_id
             /\ call'[d].room = call[d].room
          \/ call'[d].since_id = LastId(d, call'[d].room)
  <2>1. call'[c].since_id = LastId(c, call'[c].room)
    BY <1>3
  <2> QED
    BY <1>3, <2>1
<1> QED
  BY <1>1, <1>5, <1>6, QuietStep

\* A waiting poll is woken, expires, or finds nothing and waits on.
LEMMA PollStateStep ==
    ASSUME ChatInv, NEW c \in Clients, ~Ready(c),
           NEW s \in PollStates, s # "none",
           call' = [call EXCEPT ![c].state = s],
           UNCHANGED <<store, clientSide>>
    PROVE  ChatInv'
<1>1. /\ call' \in [Clients -> Call]
      /\ \A d \in Clients :
           /\ call'[d].state # "none" <=> call[d].state # "none"
           /\ call'[d].room = call[d].room
           /\ call'[d].since_id = call[d].since_id
  BY DEF ChatInv, TypeOK, Call, Ready
<1>2. TypeOK' /\ SameMessages
  BY <1>1 DEF ChatInv, TypeOK, SameMessages, Ready, store, clientSide
<1> QED
  BY <1>1, <1>2, QuietStep DEF store, clientSide

LEMMA ReturnStep ==
    ASSUME ChatInv, NEW c \in Clients, ~Ready(c), Return(c)
    PROVE  ChatInv'
<1>1. /\ call[c].room \in DOMAIN rooms
      /\ call[c].from_ts_ms \in FromTimes \cup {0}
      /\ call[c].since_id = LastId(c, call[c].room)
  BY DEF ChatInv, TypeOK, SinceLast, Call
<1>2. NoCall \in Call /\ NoCall.state = "none"
  BY DEF NoCall, Call, PollStates
<1>3. /\ call' \in [Clients -> Call]
      /\ call'[c].state = "none"
      /\ \A d \in Clients : d # c => call'[d] = call[d]
  BY <1>2 DEF Return, ChatInv, TypeOK
<1> QED
  BY <1>1, <1>3, Delivery DEF Return

LEMMA WakeUpStep ==
    ASSUME ChatInv, NEW c \in Clients, WakeUp(c)
    PROVE  ChatInv'
<1>1. ~Ready(c)
  BY DEF WakeUp, Ready
<1>2. CASE Return(c)
  BY <1>1, <1>2, ReturnStep
<1>3. CASE ~Return(c)
  BY <1>1, <1>3, PollStateStep DEF WakeUp, PollStates
<1> QED
  BY <1>2, <1>3

-----------------------------------------------------------------------------
(* Theorems *)

LEMMA ChatInvInit == Init => ChatInv
<1> SUFFICES ASSUME Init PROVE ChatInv
  OBVIOUS
<1>1. rooms = <<>> /\ rooms \in Seq(Room) /\ Len(rooms) = 0 /\ DOMAIN rooms = {}
  BY EmptySeq DEF Init
<1>2. NoCall \in Call /\ NoCall.state = "none"
  BY DEF NoCall, Call, PollStates
<1>3. TypeOK
  <2>1. call \in [Clients -> Call] /\ \A c \in Clients : Ready(c)
    BY <1>2 DEF Init, Ready
  <2>2. /\ next_message_id \in 1..(MaxMessages + 1)
        /\ Len(rooms) <= MaxRooms
        /\ participants \subseteq Clients
    BY <1>1, ChatAssumption DEF Init, ChatAssumption
  <2>3. /\ received \in [Clients -> [RoomIds -> SUBSET MessageIds]]
        /\ leaks \in [Clients -> [RoomIds -> Nat]]
        /\ repeated \in BOOLEAN
    BY DEF Init
  <2> QED
    BY <1>1, <2>1, <2>2, <2>3 DEF TypeOK
<1>4. IdsRise /\ ReceivedPrefix /\ SinceLast
  BY <1>1, <1>2 DEF Init, IdsRise, ReceivedPrefix, SinceLast, Ready
<1> QED
  BY <1>3, <1>4 DEF Init, ChatInv

LEMMA ChatInvStep == ChatInv /\ [Next]_chatVars => ChatInv'
<1> SUFFICES ASSUME ChatInv, [Next]_chatVars PROVE ChatInv'
  OBVIOUS
<1>1. CASE UNCHANGED chatVars
  <2>1. SameMessages /\ TypeOK' /\ (\A d \in Clients : call'[d] = call[d])
    BY <1>1 DEF chatVars, store, clientSide, ChatInv, TypeOK, SameMessages, Ready
  <2> QED
    BY <1>1, <2>1, QuietStep DEF chatVars, store, clientSide
<1>2. ASSUME NEW c \in Clients, CreateParticipant(c) PROVE ChatInv'
  BY <1>2, CreateParticipantStep
<1>3. ASSUME NEW c \in Clients, CreateRoom(c) PROVE ChatInv'
  BY <1>3, CreateRoomStep
<1>4. ASSUME NEW c \in Clients, NEW r \in RoomIds, NEW p \in Clients,
             AddParticipantToRoom(c, r, p) \/ RemoveParticipantFromRoom(c, r, p)
      PROVE  ChatInv'
  BY <1>4, MembershipStep
<1>5. ASSUME NEW c \in Clients, NEW r \in RoomIds, CreateMessage(c, r)
      PROVE  ChatInv'
  BY <1>5, CreateMessageStep
<1>6. ASSUME NEW c \in Clients, NEW r \in RoomIds,
             GetMessages(c, r) \/ \E from \in FromTimes : PollAnswered(c, r, from)
      PROVE  ChatInv'
  BY <1>6, ReadStep
<1>7. ASSUME NEW c \in Clients, NEW r \in RoomIds, NEW from \in FromTimes,
             PollWaits(c, r, from)
      PROVE  ChatInv'
  BY <1>7, PollWaitsStep
<1>8. ASSUME NEW c \in Clients, SpuriousWakeup(c) \/ Timeout(c)
      PROVE  ChatInv'
  BY <1>8, PollStateStep DEF SpuriousWakeup, Timeout, Ready, PollStates
<1>9. ASSUME NEW c \in Clients, WakeUp(c) PROVE ChatInv'
  BY <1>9, WakeUpStep
<1> QED
  BY <1>1, <1>2, <1>3, <1>4, <1>5, <1>6, <1>7, <1>8, <1>9 DEF Next

\* The invariant holds in every reachable state.
THEOREM ChatInvariant == Spec => []ChatInv
  BY ChatInvInit, ChatInvStep, PTL DEF Spec

\* Every reachable state of the manager is well formed; in particular only
\* registered clients are in rooms and polls wait on rooms that exist.
THEOREM TypeCorrect == Spec => []TypeOK
<1>1. ChatInv => TypeOK
  BY DEF ChatInv
<1> QED
  BY <1>1, ChatInvariant, PTL

\* Following the last known id, no client ever misses a message or gets one
\* twice, for any number of clients, rooms and messages and whatever the
\* clock does.
THEOREM NothingMissedOrRepeated == Spec => []GapFree
<1>1. ChatInv => GapFree
  <2> SUFFICES ASSUME ChatInv, NEW c \in Clients, NEW r \in DOMAIN rooms,
                      NEW j \in DOMAIN rooms[r].messages,
                      NEW k \in DOMAIN rooms[r].messages, j < k,
                      rooms[r].messages[k].id \in received[c][r]
               PROVE  rooms[r].messages[j].id \in received[c][r]
    BY DEF GapFree, ChatInv
  <2>1. /\ r \in RoomIds
        /\ DOMAIN rooms[r].messages = 1..Len(rooms[r].messages)
        /\ Len(rooms[r].messages) \in Nat
        /\ \A i \in DOMAIN rooms[r].messages : rooms[r].messages[i].id \in Nat
    BY RoomFields DEF ChatInv
  <2>2. PICK n \in 0..Len(rooms[r].messages) : received[c][r] = FirstIds(r, n)
    BY <2>1 DEF ChatInv, ReceivedPrefix
  <2>3. PICK i \in 1..n : rooms[r].messages[k].id = rooms[r].messages[i].id
    BY <2>2 DEF FirstIds
  <2>4. i \in DOMAIN rooms[r].messages
    BY <2>1
  <2>5. k = i
    BY <2>1, <2>3, <2>4 DEF ChatInv, IdsRise
  <2>6. j \in 1..n
    BY <2>1, <2>5
  <2> QED
    BY <2>2, <2>6 DEF FirstIds
<1> QED
  BY <1>1, ChatInvariant, PTL

\* A poll is never asleep with something to deliver.
THEOREM PollsDoNotOversleep == Spec => []NoMissedWakeup
<1>1. Init => NoMissedWakeup
  BY DEF Init, NoMissedWakeup, NoCall
<1>2. ChatInv /\ NoMissedWakeup /\ [Next]_chatVars => NoMissedWakeup'
  <2> SUFFICES ASSUME ChatInv, NoMissedWakeup, [Next]_chatVars,
                      NEW d \in Clients, call'[d].state = "waiting"
               PROVE  ~CallAvailable(d)'
    BY DEF NoMissedWakeup
  <2> DEFINE MessagesStay ==
               \A r \in DOMAIN rooms : rooms'[r].messages = rooms[r].messages
             NothingFor(p) == /\ p.room \in DOMAIN rooms
                              /\ ~Available(p.room, p.since_id, p.from_ts_ms)
  <2>1. SUFFICES MessagesStay /\ NothingFor(call'[d])
    BY DEF CallAvailable, Available
  <2>2. call[d].state = "waiting" => NothingFor(call[d])
    BY DEF ChatInv, TypeOK, Ready, NoMissedWakeup, CallAvailable
  <2>3. UNCHANGED rooms => MessagesStay
    OBVIOUS
  <2>4. CASE UNCHANGED chatVars
    BY <2>2, <2>3, <2>4 DEF chatVars, store
  <2>5. ASSUME NEW c \in Clients, CreateParticipant(c)
        PROVE  MessagesStay /\ NothingFor(call'[d])
    BY <2>2, <2>3, <2>5 DEF CreateParticipant
  <2>6. ASSUME NEW c \in Clients, CreateRoom(c)
        PROVE  MessagesStay /\ NothingFor(call'[d])
    <3> DEFINE room == [participants |-> {c}, messages |-> <<>>]
    <3>1. rooms' = Append(rooms, room) /\ call' = call
      BY <2>6 DEF CreateRoom
    <3>2. room \in Room /\ rooms \in Seq(Room)
      BY EmptySeq, <2>6 DEF Room, ChatInv, TypeOK
    <3> HIDE DEF room
    <3>3. \A r \in DOMAIN rooms : rooms'[r] = rooms[r]
      BY <3>1, <3>2, SeqAppend
    <3> QED
      BY <2>2, <3>1, <3>3
  <2>7. ASSUME NEW c \in Clients, NEW r \in RoomIds, NEW p \in Clients,
               AddParticipantToRoom(c, r, p) \/ RemoveParticipantFromRoom(c, r, p)
        PROVE  MessagesStay /\ NothingFor(call'[d])
    <3>1. /\ call' = call
          /\ \E P : rooms' = [rooms EXCEPT ![r].participants = P]
      BY <2>7 DEF AddParticipantToRoom, RemoveParticipantFromRoom
    <3>2. MessagesStay
      <4>1. PICK P : rooms' = [rooms EXCEPT ![r].participants = P]
        BY <3>1
      <4>2. \A q \in DOMAIN rooms : rooms[q] \in Room
        BY RoomFields DEF ChatInv
      <4> QED
        BY <4>1, <4>2 DEF Room
    <3> QED
      BY <2>2, <3>1, <3>2
  <2>8. ASSUME NEW c \in Clients, NEW r \in RoomIds, CreateMessage(c, r)
        PROVE  FALSE
    BY <2>8 DEF CreateMessage, NotifyAll, ChatInv, TypeOK, Call
  <2>9. ASSUME NEW c \in Clients, NEW r \in RoomIds,
               GetMessages(c, r) \/ \E from \in FromTimes : PollAnswered(c, r, from)
        PROVE  MessagesStay /\ NothingFor(call'[d])
    BY <2>2, <2>3, <2>9 DEF GetMessages, PollAnswered, store
  <2>10. ASSUME NEW c \in Clients, NEW r \in RoomIds, NEW from \in FromTimes,
                PollWaits(c, r, from)
         PROVE  MessagesStay /\ NothingFor(call'[d])
    <3>1. /\ r \in DOMAIN rooms
          /\ ~Available(r, LastId(c, r), from)
          /\ UNCHANGED rooms
          /\ call' = [call EXCEPT ![c] =
                        [state |-> "waiting", room |-> r,
                         since_id |-> LastId(c, r), from_ts_ms |-> from]]
      BY <2>10 DEF PollWaits, MayRead, store
    <3>2. CASE d = c
      BY <2>3, <3>1, <3>2 DEF ChatInv, TypeOK
    <3>3. CASE d # c
      BY <2>2, <2>3, <3>1, <3>3 DEF ChatInv, TypeOK
    <3> QED
      BY <3>2, <3>3
  <2>11. ASSUME NEW c \in Clients, SpuriousWakeup(c) \/ Timeout(c)
         PROVE  MessagesStay /\ NothingFor(call'[d])
    <3>1. /\ UNCHANGED rooms
          /\ \E s \in {"woken", "expired"} : call' = [call EXCEPT ![c].state = s]
      BY <2>11 DEF SpuriousWakeup, Timeout, store
    <3>2. call'[d] = call[d]
      BY <3>1 DEF ChatInv, TypeOK, Call
    <3> QED
      BY <2>2, <2>3, <3>1, <3>2
  <2>12. ASSUME NEW c \in Clients, WakeUp(c)
         PROVE  MessagesStay /\ NothingFor(call'[d])
    <3>1. CASE Return(c)
      <4>1. UNCHANGED rooms /\ call' = [call EXCEPT ![c] = NoCall]
        BY <3>1 DEF Return, store
      <4>2. call'[d] = call[d]
        BY <4>1 DEF ChatInv, TypeOK, NoCall
      <4> QED
        BY <2>2, <2>3, <4>1, <4>2
    <3>2. CASE ~Return(c)
      <4>1. /\ UNCHANGED rooms
            /\ call[c].state = "woken" /\ ~CallAvailable(c)
            /\ call' = [call EXCEPT ![c].state = "waiting"]
        BY <2>12, <3>2 DEF WakeUp, store
      <4>2. CASE d = c
        <5>1. /\ call'[d].room = call[d].room
              /\ call'[d].since_id = call[d].since_id
              /\ call'[d].from_ts_ms = call[d].from_ts_ms
          BY <4>1 DEF ChatInv, TypeOK, Call
        <5>2. call[d].room \in DOMAIN rooms
          BY <4>1, <4>2 DEF ChatInv, TypeOK, Ready
        <5> QED
          BY <2>3, <4>1, <4>2, <5>1, <5>2 DEF CallAvailable
      <4>3. CASE d # c
        BY <2>2, <2>3, <4>1, <4>3 DEF ChatInv, TypeOK
      <4> QED
        BY <4>2, <4>3
    <3> QED
      BY <3>1, <3>2
  <2> HIDE DEF MessagesStay, NothingFor
  <2> QED
    BY <2>4, <2>5, <2>6, <2>7, <2>8, <2>9, <2>10, <2>11, <2>12 DEF Next
<1> QED
  BY <1>1, <1>2, ChatInvariant, PTL DEF Spec

\* A client that got a message of a room after its removal is still out of the
\* room, and no poll of its is waiting there.
LeakInv ==
    \A c \in Clients : \A r \in RoomIds :
      leaks[c][r] # 0 =>
        /\ leaks[c][r] = 1
        /\ r \in DOMAIN rooms
        /\ c \notin rooms[r].participants
        /\ ~(call[c].state # "none" /\ call[c].room = r)

\* Who is removed from a room gets at most one more answer with messages of it.
THEOREM RemovalTakesEffect == Spec => []LeaksAtMostOneAnswer
<1>1. Init => LeakInv
  BY DEF Init, LeakInv
<1>2. ChatInv /\ LeakInv /\ [Next]_chatVars => LeakInv'
  <2> SUFFICES ASSUME ChatInv, LeakInv, [Next]_chatVars,
                      NEW d \in Clients, NEW q \in RoomIds, leaks'[d][q] # 0
               PROVE  /\ leaks'[d][q] = 1
                      /\ q \in DOMAIN rooms'
                      /\ d \notin rooms'[q].participants
                      /\ ~(call'[d].state # "none" /\ call'[d].room = q)
    BY DEF LeakInv
  <2> DEFINE Goal == /\ leaks'[d][q] = 1
                     /\ q \in DOMAIN rooms'
                     /\ d \notin rooms'[q].participants
                     /\ ~(call'[d].state # "none" /\ call'[d].room = q)
  <2>0. /\ leaks \in [Clients -> [RoomIds -> Nat]]
        /\ call \in [Clients -> Call]
        /\ \A r \in DOMAIN rooms : rooms[r] \in Room
    BY RoomFields DEF ChatInv, TypeOK
  <2>1. leaks[d][q] # 0 =>
          /\ leaks[d][q] = 1
          /\ q \in DOMAIN rooms
          /\ d \notin rooms[q].participants
          /\ ~(call[d].state # "none" /\ call[d].room = q)
    BY DEF LeakInv
  <2>2. CASE UNCHANGED chatVars
    BY <2>1, <2>2 DEF chatVars, store, clientSide
  <2>3. ASSUME NEW c \in Clients, CreateParticipant(c) PROVE Goal
    BY <2>1, <2>3 DEF CreateParticipant, clientSide
  <2>4. ASSUME NEW c \in Clients, CreateRoom(c) PROVE Goal
    <3> DEFINE room == [participants |-> {c}, messages |-> <<>>]
    <3>1. rooms' = Append(rooms, room) /\ UNCHANGED <<call, leaks>>
      BY <2>4 DEF CreateRoom, clientSide
    <3>2. room \in Room /\ rooms \in Seq(Room)
      BY EmptySeq, <2>4 DEF Room, ChatInv, TypeOK
    <3> HIDE DEF room
    <3>3. \A r \in DOMAIN rooms : r \in DOMAIN rooms' /\ rooms'[r] = rooms[r]
      BY <3>1, <3>2, SeqAppend, LenProperties
    <3> QED
      BY <2>1, <3>1, <3>3
  <2>5. ASSUME NEW c \in Clients, NEW r \in RoomIds, NEW p \in Clients,
               AddParticipantToRoom(c, r, p)
        PROVE  Goal
    <3>1. /\ rooms' = [rooms EXCEPT ![r].participants = @ \cup {p}]
          /\ leaks' = [leaks EXCEPT ![p][r] = 0]
          /\ call' = call
      BY <2>5 DEF AddParticipantToRoom
    <3>2. ~(d = p /\ q = r) /\ leaks'[d][q] = leaks[d][q]
      BY <2>0, <3>1
    <3>3. \A s \in DOMAIN rooms :
            /\ s \in DOMAIN rooms'
            /\ d \in rooms'[s].participants =>
                 d \in rooms[s].participants \/ (d = p /\ s = r)
      BY <2>0, <3>1 DEF Room
    <3> QED
      BY <2>1, <3>1, <3>2, <3>3
  <2>6. ASSUME NEW c \in Clients, NEW r \in RoomIds, NEW p \in Clients,
               RemoveParticipantFromRoom(c, r, p)
        PROVE  Goal
    <3>1. /\ rooms' = [rooms EXCEPT ![r].participants = @ \ {p}]
          /\ UNCHANGED <<leaks, call>>
      BY <2>6 DEF RemoveParticipantFromRoom, clientSide
    <3>2. \A s \in DOMAIN rooms :
            s \in DOMAIN rooms' /\ rooms'[s].participants \subseteq rooms[s].participants
      BY <2>0, <3>1 DEF Room
    <3> QED
      BY <2>1, <3>1, <3>2
  <2>7. ASSUME NEW c \in Clients, NEW r \in RoomIds, CreateMessage(c, r)
        PROVE  Goal
    <3>1. /\ \E M : rooms' = [rooms EXCEPT ![r].messages = M]
          /\ leaks' = leaks
      BY <2>7 DEF CreateMessage, clientSide
    <3>2. \A s \in DOMAIN rooms :
            s \in DOMAIN rooms' /\ rooms'[s].participants = rooms[s].participants
      <4>1. PICK M : rooms' = [rooms EXCEPT ![r].messages = M]
        BY <3>1
      <4> QED
        BY <2>0, <4>1 DEF Room
    <3>3. /\ call'[d].room = call[d].room
          /\ call'[d].state # "none" <=> call[d].state # "none"
      BY <2>0, <2>7 DEF CreateMessage, NotifyAll, Call
    <3> QED
      BY <2>1, <3>1, <3>2, <3>3
  <2>8. ASSUME NEW c \in Clients, NEW r \in RoomIds,
               GetMessages(c, r) \/ \E from \in FromTimes : PollAnswered(c, r, from)
        PROVE  Goal
    <3>1. PICK from : Answer(c, r, LastId(c, r), from) /\ Member(c, r)
      BY <2>8 DEF GetMessages, PollAnswered, MayRead
    <3>2. UNCHANGED <<rooms, call>>
      BY <2>8 DEF GetMessages, PollAnswered, store
    <3>3. leaks' = leaks
      BY <3>1 DEF Answer
    <3> QED
      BY <2>1, <3>2, <3>3
  <2>9. ASSUME NEW c \in Clients, NEW r \in RoomIds, NEW from \in FromTimes,
               PollWaits(c, r, from)
        PROVE  Goal
    <3>1. /\ c \in rooms[r].participants
          /\ UNCHANGED <<rooms, leaks>>
          /\ call' = [call EXCEPT ![c] =
                        [state |-> "waiting", room |-> r,
                         since_id |-> LastId(c, r), from_ts_ms |-> from]]
      BY <2>9 DEF PollWaits, MayRead, Member, store, clientSide
    <3>2. CASE d = c
      BY <2>0, <2>1, <3>1, <3>2
    <3>3. CASE d # c
      BY <2>0, <2>1, <3>1, <3>3
    <3> QED
      BY <3>2, <3>3
  <2>10. ASSUME NEW c \in Clients, NEW s \in PollStates,
                call[c].state # "none",
                call' = [call EXCEPT ![c].state = s], UNCHANGED <<rooms, leaks>>
         PROVE  Goal
    <3>1. /\ call'[d].room = call[d].room
          /\ call'[d].state # "none" => call[d].state # "none"
      BY <2>0, <2>10 DEF Call
    <3> QED
      BY <2>1, <2>10, <3>1
  <2>11. ASSUME NEW c \in Clients, Return(c), call[c].state # "none"
         PROVE  Goal
    <3>1. /\ Answer(c, call[c].room, call[c].since_id, call[c].from_ts_ms)
          /\ call' = [call EXCEPT ![c] = NoCall]
          /\ UNCHANGED rooms
      BY <2>11 DEF Return, store
    <3>2. call[c].room \in DOMAIN rooms /\ call[c].room \in RoomIds
      BY <2>11, RoomFields DEF ChatInv, TypeOK, Ready
    <3>3. CASE d = c /\ q = call[c].room
      <4>1. leaks[c][q] = 0
        BY <2>1, <2>11, <3>3
      <4>2. leaks' # leaks
        BY <3>3, <4>1
      <4>3. ~Member(c, q) /\ leaks' = [leaks EXCEPT ![c][q] = @ + 1]
        BY <3>1, <3>3, <4>2 DEF Answer
      <4>4. leaks'[c][q] = 1
        BY <2>0, <4>1, <4>3
      <4>5. call'[c].state = "none"
        BY <2>0, <3>1 DEF NoCall
      <4> QED
        BY <3>1, <3>2, <3>3, <4>3, <4>4, <4>5 DEF Member
    <3>4. CASE ~(d = c /\ q = call[c].room)
      <4>1. leaks' = leaks \/ leaks' = [leaks EXCEPT ![c][call[c].room] = @ + 1]
        BY <3>1 DEF Answer
      <4>2. leaks'[d][q] = leaks[d][q]
        BY <2>0, <3>2, <3>4, <4>1
      <4>3. call'[d] = call[d] \/ call'[d].state = "none"
        BY <2>0, <3>1 DEF NoCall
      <4> QED
        BY <2>1, <3>1, <4>2, <4>3
    <3> QED
      BY <3>3, <3>4
  <2>12. ASSUME NEW c \in Clients, SpuriousWakeup(c) \/ Timeout(c) \/ WakeUp(c)
         PROVE  Goal
    <3>1. call[c].state # "none"
      BY <2>12 DEF SpuriousWakeup, Timeout, WakeUp
    <3>2. \/ Return(c)
          \/ /\ \E s \in PollStates : call' = [call EXCEPT ![c].state = s]
             /\ UNCHANGED <<rooms, leaks>>
      BY <2>12 DEF SpuriousWakeup, Timeout, WakeUp, PollStates, store, clientSide
    <3> HIDE DEF Goal
    <3> QED
      BY <2>10, <2>11, <3>1, <3>2
  <2> QED
    BY <2>2, <2>3, <2>4, <2>5, <2>6, <2>7, <2>8, <2>9, <2>12 DEF Next
<1>3. ChatInv /\ LeakInv => LeaksAtMostOneAnswer
  <2> SUFFICES ASSUME ChatInv, LeakInv, NEW c \in Clients, NEW r \in RoomIds
               PROVE  leaks[c][r] <= 1
    BY DEF LeaksAtMostOneAnswer
  <2>1. leaks[c][r] \in Nat
    BY DEF ChatInv, TypeOK
  <2> QED
    BY <2>1 DEF LeakInv
<1> QED
  BY <1>1, <1>2, <1>3, ChatInvariant, PTL DEF Spec

\* Once the last participant has left a room, nothing in it ever changes again.
THEOREM OrphanedRoomsAreLost == Spec => OrphanedRoomsStayEmpty
<1> DEFINE Kept == \A r \in DOMAIN rooms :
                     rooms[r].participants = {} => rooms'[r] = rooms[r]
<1>1. TypeOK /\ [Next]_chatVars => [Kept]_chatVars
  <2> SUFFICES ASSUME TypeOK, [Next]_chatVars, NEW q \in DOMAIN rooms,
                      rooms[q].participants = {}
               PROVE  rooms'[q] = rooms[q]
    OBVIOUS
  <2>1. CASE UNCHANGED rooms
    BY <2>1
  <2>2. ASSUME NEW c \in Clients, CreateRoom(c) PROVE rooms'[q] = rooms[q]
    <3> DEFINE room == [participants |-> {c}, messages |-> <<>>]
    <3>1. rooms' = Append(rooms, room)
      BY <2>2 DEF CreateRoom
    <3>2. room \in Room /\ rooms \in Seq(Room)
      BY EmptySeq DEF Room, TypeOK
    <3> HIDE DEF room
    <3> QED
      BY <3>1, <3>2, SeqAppend
  <2>3. ASSUME NEW c \in Clients, NEW r \in RoomIds, NEW p \in Clients,
               \/ AddParticipantToRoom(c, r, p)
               \/ RemoveParticipantFromRoom(c, r, p)
               \/ CreateMessage(c, r)
        PROVE  rooms'[q] = rooms[q]
    <3>1. r # q
      BY <2>3 DEF AddParticipantToRoom, RemoveParticipantFromRoom, CreateMessage,
                  MayInvite, Member
    <3>2. \E new : rooms' = [rooms EXCEPT ![r] = new]
      BY <2>3 DEF AddParticipantToRoom, RemoveParticipantFromRoom, CreateMessage
    <3> QED
      BY <3>1, <3>2
  <2> QED
    BY <2>1, <2>2, <2>3
       DEF Next, chatVars, store, CreateParticipant, GetMessages, PollAnswered,
           PollWaits, SpuriousWakeup, Timeout, WakeUp, Return
<1> QED
  BY <1>1, TypeCorrect, PTL DEF Spec, OrphanedRoomsStayEmpty

-----------------------------------------------------------------------------
(* The abstract specification *)

\* The abstract logs and tickets of a state.
LogsNow == [r \in DOMAIN rooms |-> Log(rooms[r])]
TicketsNow == [c \in Clients |-> Ticket(c)]

\* The log of a room.
LEMMA LogFields ==
    ASSUME NEW r \in DOMAIN rooms
    PROVE  /\ DOMAIN LogsNow = DOMAIN rooms
           /\ LogsNow[r] = Log(rooms[r])
           /\ LogsNow[r].members = rooms[r].participants
           /\ LogsNow[r].posted = {rooms[r].messages[k].id :
                                     k \in DOMAIN rooms[r].messages}
BY DEF LogsNow, Log

\* A step that changes one room changes its log and no other.
LEMMA OneLogChanges ==
    ASSUME NEW r \in DOMAIN rooms, NEW room,
           rooms' = [rooms EXCEPT ![r] = room]
    PROVE  LogsNow' = [LogsNow EXCEPT ![r] = Log(room)]
<1>1. /\ DOMAIN rooms' = DOMAIN rooms
      /\ rooms'[r] = room
      /\ \A q \in DOMAIN rooms : q # r => rooms'[q] = rooms[q]
  OBVIOUS
<1>2. LogsNow' = [q \in DOMAIN rooms |-> Log(rooms'[q])]
  BY <1>1 DEF LogsNow
<1>3. \A q \in DOMAIN rooms :
        Log(rooms'[q]) = IF q = r THEN Log(room) ELSE Log(rooms[q])
  BY <1>1
<1> QED
  BY <1>2, <1>3 DEF LogsNow

\* Who is not in a poll before and after keeps its ticket, and so does who goes
\* on waiting.
LEMMA SameTickets ==
    ASSUME \A c \in Clients :
             /\ Ready(c)' <=> Ready(c)
             /\ call'[c].room = call[c].room
             /\ call'[c].from_ts_ms = call[c].from_ts_ms
    PROVE  TicketsNow' = TicketsNow
<1>1. \A c \in Clients : Ticket(c)' = Ticket(c)
  BY DEF Ticket
<1> QED
  BY <1>1 DEF TicketsNow

\* A stutter of the abstract specification, said of the abstract state.
LEMMA LogsStutter ==
    ASSUME LogsNow' = LogsNow, received' = received, TicketsNow' = TicketsNow
    PROVE  UNCHANGED Logs!logVars
BY DEF Logs!logVars, LogsNow, TicketsNow

LEMMA OpenStep ==
    ASSUME ChatInv, NEW c \in Clients, CreateRoom(c)
    PROVE  Logs!Open(c)
<1> DEFINE room == [participants |-> {c}, messages |-> <<>>]
           n == Len(rooms)
           log == [members |-> {c}, posted |-> {}]
           Grown == Append(LogsNow, log)
<1>1. /\ rooms' = Append(rooms, room)
      /\ UNCHANGED <<call, received>>
      /\ n < MaxRooms
  BY DEF CreateRoom, clientSide
<1>2. room \in Room /\ Log(room) = log
  <2>1. /\ room \in Room
        /\ room.participants = {c}
        /\ room.messages = <<>>
    BY EmptySeq DEF Room
  <2>2. \A s : s = <<>> => {s[k].id : k \in DOMAIN s} = {}
    BY EmptySeq
  <2> HIDE DEF room
  <2> QED
    BY <2>1, <2>2 DEF Log
<1>3. rooms \in Seq(Room) /\ n \in Nat
  BY LenProperties DEF ChatInv, TypeOK
<1> HIDE DEF room, log
<1>4. /\ DOMAIN rooms = 1..n
      /\ DOMAIN rooms' = 1..(n + 1)
      /\ rooms'[n + 1] = room
      /\ \A r \in DOMAIN rooms : rooms'[r] = rooms[r]
  BY <1>1, <1>2, <1>3, SeqAppend
<1> DEFINE AllLogs == {Log(x) : x \in Room}
<1>5. /\ LogsNow \in Seq(AllLogs)
      /\ Len(LogsNow) = n
      /\ log \in AllLogs
  <2>1. LogsNow \in [1..n -> AllLogs]
    BY <1>3, <1>4, ElementOfSeq DEF LogsNow
  <2>2. LogsNow \in Seq(AllLogs)
    BY <1>3, <2>1, SeqDef
  <2>3. Len(LogsNow) = n
    BY <1>3, <2>1, <2>2, LenProperties
  <2> QED
    BY <1>2, <2>2, <2>3
<1> HIDE DEF AllLogs
<1>6. /\ Grown \in Seq(AllLogs)
      /\ Len(Grown) = n + 1
      /\ Grown[n + 1] = log
      /\ \A r \in 1..n : Grown[r] = LogsNow[r]
  BY <1>5, SeqAppend, LenProperties
<1>7. LogsNow' = Grown
  <2>1. Grown = [r \in 1..(n + 1) |-> Grown[r]]
    BY <1>6, LenProperties
  <2>2. LogsNow' = [r \in 1..(n + 1) |-> Log(rooms'[r])]
    BY <1>4 DEF LogsNow
  <2>3. \A r \in 1..(n + 1) : Log(rooms'[r]) = Grown[r]
    <3>1. \A r \in 1..n : Log(rooms'[r]) = LogsNow[r]
      BY <1>4 DEF LogsNow
    <3>2. \A r \in 1..(n + 1) : r = n + 1 \/ r \in 1..n
      BY <1>3
    <3> QED
      BY <1>2, <1>4, <1>6, <3>1, <3>2
  <2> QED
    BY <2>1, <2>2, <2>3
<1>8. TicketsNow' = TicketsNow
  BY <1>1, SameTickets DEF Ready
<1> QED
  BY <1>1, <1>5, <1>7, <1>8 DEF Logs!Open, LogsNow, TicketsNow, log

LEMMA InviteOrRemoveStep ==
    ASSUME ChatInv, NEW c \in Clients, NEW r \in DOMAIN rooms, NEW p \in Clients,
           AddParticipantToRoom(c, r, p) \/ RemoveParticipantFromRoom(c, r, p)
    PROVE  Logs!Invite(c, r, p) \/ Logs!Remove(c, r, p)
<1>1. /\ c \in LogsNow[r].members
      /\ received' = received
      /\ call' = call
  BY LogFields DEF AddParticipantToRoom, RemoveParticipantFromRoom, MayInvite,
                   Member, clientSide
<1>2. TicketsNow' = TicketsNow
  BY <1>1, SameTickets DEF Ready
<1>3. ASSUME NEW P, rooms' = [rooms EXCEPT ![r].participants = P]
      PROVE  LogsNow' = [LogsNow EXCEPT ![r].members = P]
  <2> DEFINE room == [rooms[r] EXCEPT !.participants = P]
  <2>1. rooms' = [rooms EXCEPT ![r] = room]
    BY <1>3
  <2>2. Log(room) = [LogsNow[r] EXCEPT !.members = P]
    <3>1. room.participants = P /\ room.messages = rooms[r].messages
      BY RoomFields DEF ChatInv, Room
    <3> DEFINE posted == {rooms[r].messages[k].id : k \in DOMAIN rooms[r].messages}
    <3>2. Log(room) = [members |-> P, posted |-> posted]
      <4> HIDE DEF room
      <4> QED
        BY <3>1 DEF Log
    <3>3. LogsNow[r] = [members |-> rooms[r].participants, posted |-> posted]
      BY LogFields DEF Log
    <3> HIDE DEF room, posted
    <3> QED
      BY <3>2, <3>3
  <2> HIDE DEF room
  <2>3. LogsNow' = [LogsNow EXCEPT ![r] = Log(room)]
    BY <2>1, OneLogChanges
  <2> QED
    BY <2>2, <2>3
<1>4. CASE AddParticipantToRoom(c, r, p)
  <2>1. LogsNow' = [LogsNow EXCEPT ![r].members = @ \cup {p}]
    BY <1>3, <1>4, LogFields DEF AddParticipantToRoom
  <2> QED
    BY <1>1, <1>2, <2>1 DEF Logs!Invite, Logs!Member, LogsNow, TicketsNow
<1>5. CASE RemoveParticipantFromRoom(c, r, p)
  <2>1. LogsNow' = [LogsNow EXCEPT ![r].members = @ \ {p}]
    BY <1>3, <1>5, LogFields DEF RemoveParticipantFromRoom
  <2> QED
    BY <1>1, <1>2, <2>1 DEF Logs!Remove, Logs!Member, LogsNow, TicketsNow
<1> QED
  BY <1>4, <1>5

LEMMA PostStep ==
    ASSUME ChatInv, NEW c \in Clients, NEW r \in DOMAIN rooms, CreateMessage(c, r)
    PROVE  Logs!Post(c, r)
<1> DEFINE i == next_message_id
           m == rooms[r].messages
<1>1. /\ c \in LogsNow[r].members
      /\ received' = received
      /\ i <= MaxMessages
      /\ NotifyAll
  BY LogFields DEF CreateMessage, Member, clientSide
<1>2. i \in 1..MaxMessages
  BY <1>1, ChatAssumption DEF ChatInv, TypeOK, ChatAssumption
<1>3. \A q \in DOMAIN rooms : \A j \in LogsNow[q].posted : j < i
  BY LogFields DEF ChatInv, IdsRise
<1>4. TicketsNow' = TicketsNow
  <2>1. \A d \in Clients :
          /\ Ready(d)' <=> Ready(d)
          /\ call'[d].room = call[d].room
          /\ call'[d].from_ts_ms = call[d].from_ts_ms
    BY <1>1 DEF NotifyAll, ChatInv, TypeOK, Ready, Call
  <2> QED
    BY <2>1, SameTickets
<1>5. LogsNow' = [LogsNow EXCEPT ![r].posted = @ \cup {i}]
  <2>1. PICK now \in Times :
          rooms' = [rooms EXCEPT ![r].messages =
                      Append(@, [id |-> i, created_at_ms |-> now])]
    BY DEF CreateMessage
  <2> DEFINE new == [id |-> i, created_at_ms |-> now]
             longer == Append(m, new)
             room == [rooms[r] EXCEPT !.messages = longer]
  <2>2. /\ m \in Seq(Message)
        /\ Len(m) \in Nat
        /\ new \in Message
        /\ new.id = i
    BY <1>2, RoomFields DEF ChatInv, Message, MessageIds
  <2> HIDE DEF m, new
  <2>3. /\ DOMAIN m = 1..Len(m)
        /\ DOMAIN longer = 1..(Len(m) + 1)
        /\ longer[Len(m) + 1] = new
        /\ \A k \in DOMAIN m : longer[k] = m[k]
    BY <2>2, SeqAppend
  <2>4. {longer[k].id : k \in DOMAIN longer} = {m[k].id : k \in DOMAIN m} \cup {i}
    <3>1. \A k \in DOMAIN longer : k = Len(m) + 1 \/ k \in DOMAIN m
      BY <2>2, <2>3
    <3>2. DOMAIN m \subseteq DOMAIN longer /\ Len(m) + 1 \in DOMAIN longer
      BY <2>2, <2>3
    <3> HIDE DEF longer
    <3> QED
      BY <2>2, <2>3, <3>1, <3>2
  <2> HIDE DEF longer
  <2>5. rooms' = [rooms EXCEPT ![r] = room]
    BY <2>1 DEF longer, new, m
  <2>6. Log(room) = [LogsNow[r] EXCEPT !.posted = @ \cup {i}]
    <3>1. room.participants = rooms[r].participants /\ room.messages = longer
      BY RoomFields DEF ChatInv, Room
    <3> DEFINE posted == {m[k].id : k \in DOMAIN m}
    <3>2. LogsNow[r] = [members |-> rooms[r].participants, posted |-> posted]
      BY LogFields DEF Log, m
    <3>3. Log(room) = [members |-> rooms[r].participants, posted |-> posted \cup {i}]
      <4> HIDE DEF room
      <4> QED
        BY <2>4, <3>1 DEF Log
    <3> HIDE DEF room, posted, i
    <3> QED
      BY <3>2, <3>3
  <2> HIDE DEF room
  <2>7. LogsNow' = [LogsNow EXCEPT ![r] = Log(room)]
    BY <2>5, OneLogChanges
  <2> QED
    BY <2>6, <2>7
<1> HIDE DEF i
<1> QED
  BY <1>1, <1>2, <1>3, <1>4, <1>5
     DEF Logs!Post, Logs!Member, LogsNow, TicketsNow

\* An answer from the last known id on brings a client up to date.
LEMMA AnswerCatchesUp ==
    ASSUME ChatInv, NEW c \in Clients, NEW r \in DOMAIN rooms,
           Answer(c, r, LastId(c, r), 0)
    PROVE  Logs!CatchUp(c, r)
<1>1. r \in RoomIds /\ DOMAIN rooms[r].messages = 1..Len(rooms[r].messages)
  BY RoomFields DEF ChatInv
<1>2. PICK n \in 0..Len(rooms[r].messages) : received[c][r] = FirstIds(r, n)
  BY <1>1 DEF ChatInv, ReceivedPrefix
<1>3. received[c][r] \cup FilterMessages(r, LastId(c, r), 0)
        = FirstIds(r, Len(rooms[r].messages))
  BY <1>2, AnswerIsTheRest
<1>4. FirstIds(r, Len(rooms[r].messages)) = LogsNow[r].posted
  BY <1>1, LogFields DEF FirstIds
<1>5. received' = [received EXCEPT ![c][r] = @ \cup FilterMessages(r, LastId(c, r), 0)]
  BY DEF Answer
<1>6. received' = [received EXCEPT ![c][r] = LogsNow[r].posted]
  BY <1>3, <1>4, <1>5
<1> QED
  BY <1>6 DEF Logs!CatchUp, LogsNow

\* A client with no poll has no ticket, and one with a poll has one.
LEMMA TicketOfPoll ==
    ASSUME ChatInv, NEW c \in Clients
    PROVE  /\ TicketsNow[c] = Ticket(c)
           /\ Ready(c) <=> TicketsNow[c] = Logs!NoTicket
           /\ ~Ready(c) => /\ TicketsNow[c].room = call[c].room
                           /\ TicketsNow[c].all <=> call[c].from_ts_ms = 0
<1>1. TicketsNow[c] = Ticket(c)
  BY DEF TicketsNow
<1>2. ~Ready(c) => call[c].room \in RoomIds /\ call[c].room # 0
  <2>1. ~Ready(c) => call[c].room \in DOMAIN rooms
    BY DEF ChatInv, TypeOK
  <2>2. ~Ready(c) => call[c].room \in RoomIds
    BY <2>1, RoomFields DEF ChatInv
  <2> QED
    BY <2>2, ChatAssumption DEF RoomIds, ChatAssumption
<1>3. CASE Ready(c)
  BY <1>1, <1>3 DEF Ticket, Logs!NoTicket
<1>4. CASE ~Ready(c)
  <2> DEFINE all == call[c].from_ts_ms = 0
  <2>1. TicketsNow[c] = [room |-> call[c].room, all |-> all]
    BY <1>1, <1>4 DEF Ticket
  <2> HIDE DEF all
  <2>2. TicketsNow[c].room = call[c].room /\ TicketsNow[c].all = all
    BY <2>1
  <2>3. TicketsNow[c] # Logs!NoTicket
    BY <1>2, <1>4, <2>2 DEF Logs!NoTicket
  <2> QED
    BY Zenon, <1>1, <1>4, <2>2, <2>3 DEF all
<1> QED
  BY <1>3, <1>4

LEMMA ReadOrLookStep ==
    ASSUME ChatInv, NEW c \in Clients, NEW r \in DOMAIN rooms,
           GetMessages(c, r) \/ \E from \in FromTimes : PollAnswered(c, r, from)
    PROVE  Logs!Read(c, r) \/ UNCHANGED Logs!logVars
<1>1. PICK from : Answer(c, r, LastId(c, r), from)
  BY DEF GetMessages, PollAnswered
<1>2. /\ c \in LogsNow[r].members
      /\ TicketsNow[c] = Logs!NoTicket
      /\ rooms' = rooms /\ call' = call
  BY LogFields, TicketOfPoll DEF GetMessages, PollAnswered, MayRead, Member, store
<1>3. LogsNow' = LogsNow /\ TicketsNow' = TicketsNow
  <2>1. LogsNow' = LogsNow
    BY <1>2 DEF LogsNow
  <2>2. TicketsNow' = TicketsNow
    BY <1>2, SameTickets DEF Ready
  <2> QED
    BY <2>1, <2>2
<1>4. CASE from = 0
  <2>1. Logs!CatchUp(c, r)
    BY <1>1, <1>4, AnswerCatchesUp
  <2> QED
    BY <1>2, <1>3, <2>1 DEF Logs!Read, Logs!Member, LogsNow, TicketsNow
<1>5. CASE from # 0
  <2>1. received' = received
    BY <1>1, <1>5 DEF Answer
  <2> QED
    BY <1>3, <2>1, LogsStutter
<1> QED
  BY <1>4, <1>5

LEMMA TakeTicketStep ==
    ASSUME ChatInv, NEW c \in Clients, NEW r \in DOMAIN rooms, NEW from \in FromTimes,
           PollWaits(c, r, from)
    PROVE  Logs!TakeTicket(c, r)
<1> DEFINE new == [state |-> "waiting", room |-> r, since_id |-> LastId(c, r),
                   from_ts_ms |-> from]
           t == [room |-> r, all |-> from = 0]
<1>1. /\ c \in LogsNow[r].members
      /\ TicketsNow[c] = Logs!NoTicket
      /\ call' = [call EXCEPT ![c] = new]
      /\ rooms' = rooms /\ received' = received
  BY LogFields, TicketOfPoll
     DEF PollWaits, MayRead, Member, store, clientSide
<1>2. LogsNow' = LogsNow
  BY <1>1 DEF LogsNow
<1>3. TicketsNow' = [TicketsNow EXCEPT ![c] = t]
  <2>1. call \in [Clients -> Call]
    BY DEF ChatInv, TypeOK
  <2>2. new.state = "waiting" /\ new.room = r /\ new.from_ts_ms = from
    OBVIOUS
  <2> HIDE DEF new
  <2>3. call'[c] = new /\ \A d \in Clients : d # c => call'[d] = call[d]
    BY <1>1, <2>1
  <2>4. \A d \in Clients : Ticket(d)' = IF d = c THEN t ELSE Ticket(d)
    BY <2>2, <2>3 DEF Ticket, Ready
  <2> HIDE DEF t
  <2> QED
    BY <2>4 DEF TicketsNow
<1>4. (from = 0) \in BOOLEAN
  OBVIOUS
<1>5. \E all \in BOOLEAN : TicketsNow' = [TicketsNow EXCEPT ![c] = [room |-> r, all |-> all]]
  BY <1>3, <1>4
<1> QED
  BY <1>1, <1>2, <1>5 DEF Logs!TakeTicket, Logs!Member, LogsNow, TicketsNow

LEMMA RedeemStep ==
    ASSUME ChatInv, NEW c \in Clients, ~Ready(c), Return(c)
    PROVE  Logs!Redeem(c)
<1> DEFINE r == call[c].room
           from == call[c].from_ts_ms
<1>1. /\ r \in DOMAIN rooms
      /\ Answer(c, r, LastId(c, r), from)
      /\ call' = [call EXCEPT ![c] = NoCall]
      /\ rooms' = rooms
  BY DEF Return, ChatInv, TypeOK, SinceLast, store
<1>2. /\ TicketsNow[c] # Logs!NoTicket
      /\ TicketsNow[c].room = r
      /\ TicketsNow[c].all <=> from = 0
  BY TicketOfPoll
<1>3. LogsNow' = LogsNow
  BY <1>1 DEF LogsNow
<1>4. TicketsNow' = [TicketsNow EXCEPT ![c] = Logs!NoTicket]
  <2>1. call'[c] = NoCall /\ \A d \in Clients : d # c => call'[d] = call[d]
    BY <1>1 DEF ChatInv, TypeOK
  <2>2. \A d \in Clients :
          Ticket(d)' = IF d = c THEN Logs!NoTicket ELSE Ticket(d)
    BY <2>1 DEF Ticket, Ready, NoCall, Logs!NoTicket
  <2> QED
    BY <2>2 DEF TicketsNow
<1>5. IF TicketsNow[c].all THEN Logs!CatchUp(c, TicketsNow[c].room)
                           ELSE received' = received
  <2>1. CASE from = 0
    BY <1>1, <1>2, <2>1, AnswerCatchesUp
  <2>2. CASE from # 0
    BY <1>1, <1>2, <2>2 DEF Answer
  <2> QED
    BY <2>1, <2>2
<1> QED
  BY <1>2, <1>3, <1>4, <1>5 DEF Logs!Redeem, LogsNow, TicketsNow

\* Waking up, running out of time and waiting on are no steps of the logs.
LEMMA WaitingStutters ==
    ASSUME ChatInv, NEW c \in Clients, ~Ready(c),
           NEW s \in PollStates, s # "none",
           call' = [call EXCEPT ![c].state = s],
           UNCHANGED <<store, clientSide>>
    PROVE  UNCHANGED Logs!logVars
<1>1. LogsNow' = LogsNow /\ received' = received
  BY DEF LogsNow, store, clientSide
<1>2. \A d \in Clients :
        /\ Ready(d)' <=> Ready(d)
        /\ call'[d].room = call[d].room
        /\ call'[d].from_ts_ms = call[d].from_ts_ms
  BY DEF ChatInv, TypeOK, Call, Ready
<1>3. TicketsNow' = TicketsNow
  BY <1>2, SameTickets
<1> QED
  BY <1>1, <1>3, LogsStutter

\* The manager starts with no rooms and nobody waiting.
LEMMA LogsInit == Init => Logs!Init
<1> SUFFICES ASSUME Init PROVE Logs!Init
  OBVIOUS
<1>1. LogsNow = <<>>
  <2>1. rooms = <<>> /\ DOMAIN rooms = {}
    BY EmptySeq DEF Init
  <2> QED
    BY <2>1 DEF LogsNow
<1>2. TicketsNow = [c \in Clients |-> Logs!NoTicket]
  BY DEF TicketsNow, Ticket, Ready, Init, NoCall, Logs!NoTicket
<1>3. received = [c \in Clients |-> [r \in 1..MaxRooms |-> {}]]
  BY DEF Init, RoomIds
<1> QED
  BY <1>1, <1>2, <1>3 DEF Logs!Init, LogsNow, TicketsNow

LEMMA LogsStep == ChatInv /\ [Next]_chatVars => [Logs!Next]_(Logs!logVars)
<1> SUFFICES ASSUME ChatInv, [Next]_chatVars
             PROVE  Logs!Next \/ UNCHANGED Logs!logVars
  OBVIOUS
<1> DEFINE Goal == Logs!Next \/ UNCHANGED Logs!logVars
<1>0. DOMAIN LogsNow = DOMAIN rooms
  BY DEF LogsNow
<1>1. CASE UNCHANGED chatVars \/ \E c \in Clients : CreateParticipant(c)
  <2>1. rooms' = rooms /\ call' = call /\ received' = received
    BY <1>1 DEF chatVars, store, clientSide, CreateParticipant
  <2>2. LogsNow' = LogsNow
    BY <2>1 DEF LogsNow
  <2>3. TicketsNow' = TicketsNow
    BY <2>1, SameTickets DEF Ready
  <2> QED
    BY <2>1, <2>2, <2>3, LogsStutter
<1>2. ASSUME NEW c \in Clients, CreateRoom(c) PROVE Goal
  BY <1>2, OpenStep DEF Logs!Next
<1>3. ASSUME NEW c \in Clients, NEW r \in RoomIds, NEW p \in Clients,
             AddParticipantToRoom(c, r, p) \/ RemoveParticipantFromRoom(c, r, p)
      PROVE  Goal
  <2>1. r \in DOMAIN rooms
    BY <1>3 DEF AddParticipantToRoom, RemoveParticipantFromRoom
  <2>2. Logs!Invite(c, r, p) \/ Logs!Remove(c, r, p)
    BY <1>3, <2>1, InviteOrRemoveStep
  <2> QED
    BY <1>0, <2>1, <2>2 DEF Logs!Next, LogsNow
<1>4. ASSUME NEW c \in Clients, NEW r \in RoomIds, CreateMessage(c, r) PROVE Goal
  <2>1. r \in DOMAIN rooms
    BY <1>4 DEF CreateMessage
  <2>2. Logs!Post(c, r)
    BY <1>4, <2>1, PostStep
  <2> QED
    BY <1>0, <2>1, <2>2 DEF Logs!Next, LogsNow
<1>5. ASSUME NEW c \in Clients, NEW r \in RoomIds,
             GetMessages(c, r) \/ \E from \in FromTimes : PollAnswered(c, r, from)
      PROVE  Goal
  <2>1. r \in DOMAIN rooms
    BY <1>5 DEF GetMessages, PollAnswered, MayRead
  <2>2. Logs!Read(c, r) \/ UNCHANGED Logs!logVars
    BY <1>5, <2>1, ReadOrLookStep
  <2> QED
    BY <1>0, <2>1, <2>2 DEF Logs!Next, LogsNow
<1>6. ASSUME NEW c \in Clients, NEW r \in RoomIds, NEW from \in FromTimes,
             PollWaits(c, r, from)
      PROVE  Goal
  <2>1. r \in DOMAIN rooms
    BY <1>6 DEF PollWaits, MayRead
  <2>2. Logs!TakeTicket(c, r)
    BY <1>6, <2>1, TakeTicketStep
  <2> QED
    BY <1>0, <2>1, <2>2 DEF Logs!Next, LogsNow
<1>7. ASSUME NEW c \in Clients, SpuriousWakeup(c) \/ Timeout(c) \/ WakeUp(c)
      PROVE  Goal
  <2>1. ~Ready(c)
    BY <1>7 DEF SpuriousWakeup, Timeout, WakeUp, Ready
  <2>2. CASE Return(c)
    BY <2>1, <2>2, RedeemStep DEF Logs!Next
  <2>3. CASE ~Return(c)
    <3>1. /\ \E s \in PollStates : s # "none" /\ call' = [call EXCEPT ![c].state = s]
          /\ UNCHANGED <<store, clientSide>>
      BY <1>7, <2>3 DEF SpuriousWakeup, Timeout, WakeUp, PollStates
    <3> QED
      BY <2>1, <3>1, WaitingStutters
  <2> QED
    BY <2>2, <2>3
<1> HIDE DEF Goal
<1>8. Goal
  BY <1>1, <1>2, <1>3, <1>4, <1>5, <1>6, <1>7 DEF Next, Goal
<1> QED
  BY <1>8 DEF Goal

\* The manager implements the logs: for clients, rooms and messages of every
\* number, whatever the clock says and whenever polls wake, an answer to one who
\* follows a room takes him to the end of its log in one step, and only members
\* and those who asked as members get one.
THEOREM ManagerImplementsRoomLogs == Spec => ImplementsRoomLogs
<1> QED
  BY LogsInit, LogsStep, ChatInvariant, PTL DEF Spec, ImplementsRoomLogs, Logs!Spec

-----------------------------------------------------------------------------
(* The server: the manager behind a pool of workers *)

\* A client waits once in the pool's queue.
QueuedOnce == \A j, k \in DOMAIN queue : queue[j] = queue[k] => j = k

\* What holds of the pool: ServerTypeOK without the manager's part, and what
\* makes it inductive.
PoolInv ==
    /\ queue \in Seq(Clients)
    /\ busy \subseteq Clients
    /\ IsFiniteSet(busy)
    /\ Cardinality(busy) <= PoolSize
    /\ \A c \in Clients : ~(InQueue(c) /\ c \in busy)
    /\ \A c \in Clients : ~Ready(c) => c \in busy
    /\ QueuedOnce

\* Whatever a worker does is a step of the manager or leaves it alone.
LEMMA ServerStepIsManagerStep == [ServerNext]_serverVars => [Next]_chatVars
  BY DEF ServerNext, serverVars, Next, Take, Submit, Serve, ManageRooms, PostOrRead,
         PollStarts, Refused, Resume, Expire

\* The handlers that answer at once start no poll and end none.
LEMMA AnsweringKeepsPolls ==
    ASSUME TypeOK, NEW c \in Clients, ManageRooms(c) \/ PostOrRead(c) \/ Refused
    PROVE  \A d \in Clients : Ready(d)' <=> Ready(d)
<1>1. CASE UNCHANGED call
  BY <1>1 DEF Ready
<1>2. CASE NotifyAll
  BY <1>2 DEF NotifyAll, Ready, TypeOK, Call
<1> QED
  BY <1>1, <1>2 DEF ManageRooms, PostOrRead, Refused, CreateParticipant, CreateRoom,
       AddParticipantToRoom, RemoveParticipantFromRoom, CreateMessage, GetMessages,
       PollAnswered, chatVars

\* A worker given back is one worker fewer in use.
LEMMA WorkerGivenBack ==
    ASSUME PoolInv, NEW c \in Clients, UNCHANGED queue,
           busy' = busy \ {c} \/ busy' = busy,
           \A d \in Clients : ~Ready(d)' => d \in busy'
    PROVE  PoolInv'
<1>1. /\ busy' \subseteq busy
      /\ IsFiniteSet(busy')
      /\ Cardinality(busy') <= Cardinality(busy)
      /\ Cardinality(busy') \in Nat /\ Cardinality(busy) \in Nat
  BY FS_Subset, FS_CardinalityType DEF PoolInv
<1> QED
  BY <1>1, PoolAssumption DEF PoolInv, QueuedOnce, InQueue

LEMMA SubmitPool ==
    ASSUME PoolInv, NEW c \in Clients, Submit(c)
    PROVE  PoolInv'
<1>1. /\ queue' = Append(queue, c)
      /\ UNCHANGED <<call, busy>>
      /\ c \notin busy /\ \A k \in DOMAIN queue : queue[k] # c
  BY DEF Submit, Pending, InQueue, chatVars
<1>2. queue \in Seq(Clients) /\ Len(queue) \in Nat
  BY LenProperties DEF PoolInv
<1>3. /\ queue' \in Seq(Clients)
      /\ DOMAIN queue = 1..Len(queue)
      /\ DOMAIN queue' = 1..(Len(queue) + 1)
      /\ queue'[Len(queue) + 1] = c
      /\ \A j \in DOMAIN queue : queue'[j] = queue[j]
  BY <1>1, <1>2, SeqAppend
<1>4. \A j \in DOMAIN queue' : j \in DOMAIN queue \/ j = Len(queue) + 1
  BY <1>2, <1>3
<1>5. \A d \in Clients : ~(InQueue(d)' /\ d \in busy')
  BY <1>1, <1>3, <1>4 DEF PoolInv, InQueue
<1>6. QueuedOnce'
  BY <1>1, <1>3, <1>4 DEF PoolInv, QueuedOnce
<1> QED
  BY <1>1, <1>3, <1>5, <1>6 DEF PoolInv, Ready

LEMMA TakePool ==
    ASSUME PoolInv, Take
    PROVE  PoolInv'
<1> DEFINE n == Len(queue)
           h == Head(queue)
<1>1. /\ queue # <<>>
      /\ Cardinality(busy) < PoolSize
      /\ busy' = busy \cup {h}
      /\ queue' = Tail(queue)
      /\ call' = call
  BY DEF Take, chatVars
<1>2. /\ queue \in Seq(Clients)
      /\ n \in Nat \ {0}
      /\ DOMAIN queue = 1..n
  BY <1>1, EmptySeq, LenProperties DEF PoolInv
<1>3. /\ h \in Clients /\ h = queue[1]
      /\ queue' \in Seq(Clients)
      /\ Len(queue') = n - 1
      /\ \A i \in 1..(n - 1) : queue'[i] = queue[i + 1]
  BY <1>1, <1>2, HeadTailProperties
<1>4. DOMAIN queue' = 1..(n - 1)
  BY <1>3, LenProperties
<1> HIDE DEF n, h
<1>5. \A i \in DOMAIN queue' : i + 1 \in DOMAIN queue /\ queue'[i] = queue[i + 1]
  BY <1>2, <1>3, <1>4
<1>6. \A i \in DOMAIN queue' : queue'[i] # h
  <2> SUFFICES ASSUME NEW i \in DOMAIN queue', queue'[i] = h PROVE FALSE
    OBVIOUS
  <2>1. 1 \in DOMAIN queue /\ i \in Nat /\ i + 1 # 1
    BY <1>2, <1>4
  <2> QED
    BY <1>3, <1>5, <2>1 DEF PoolInv, QueuedOnce
<1>7. \A d \in Clients : ~(InQueue(d)' /\ d \in busy')
  BY <1>1, <1>5, <1>6 DEF PoolInv, InQueue
<1>8. QueuedOnce'
  <2> SUFFICES ASSUME NEW j \in DOMAIN queue', NEW k \in DOMAIN queue',
                      queue'[j] = queue'[k]
               PROVE  j = k
    BY DEF QueuedOnce
  <2>1. j + 1 = k + 1
    BY <1>5 DEF PoolInv, QueuedOnce
  <2> QED
    BY <2>1, <1>2, <1>4
<1>9. IsFiniteSet(busy') /\ Cardinality(busy') <= PoolSize
  <2>1. /\ IsFiniteSet(busy \cup {h})
        /\ Cardinality(busy \cup {h}) =
             IF h \in busy THEN Cardinality(busy) ELSE Cardinality(busy) + 1
        /\ Cardinality(busy) \in Nat
    BY FS_AddElement, FS_CardinalityType DEF PoolInv
  <2> QED
    BY <1>1, <2>1, PoolAssumption
<1> QED
  BY <1>1, <1>3, <1>7, <1>8, <1>9 DEF PoolInv, Ready

LEMMA PoolInvStep == TypeOK /\ PoolInv /\ [ServerNext]_serverVars => PoolInv'
<1> SUFFICES ASSUME TypeOK, PoolInv, [ServerNext]_serverVars PROVE PoolInv'
  OBVIOUS
<1>0. /\ call \in [Clients -> Call]
      /\ \A d \in Clients : ~Ready(d) => d \in busy
  BY DEF TypeOK, PoolInv
<1>1. CASE UNCHANGED serverVars
  BY <1>1 DEF serverVars, chatVars, PoolInv, QueuedOnce, InQueue, Ready
<1>2. CASE Take
  BY <1>2, TakePool
<1>3. ASSUME NEW c \in Clients, Submit(c) PROVE PoolInv'
  BY <1>3, SubmitPool
<1>4. ASSUME NEW c \in Clients, Serve(c) PROVE PoolInv'
  <2>1. CASE (ManageRooms(c) \/ PostOrRead(c) \/ Refused) /\ busy' = busy \ {c}
    <3>1. \A d \in Clients : Ready(d)' <=> Ready(d)
      BY <2>1, AnsweringKeepsPolls
    <3>2. \A d \in Clients : ~Ready(d)' => d \in busy'
      BY <1>0, <1>4, <2>1, <3>1 DEF Serve
    <3> QED
      BY <1>4, <2>1, <3>2, WorkerGivenBack DEF Serve
  <2>2. CASE PollStarts(c) /\ UNCHANGED busy
    <3>1. \A d \in Clients : d # c => call'[d] = call[d]
      BY <1>0, <2>2 DEF PollStarts, PollWaits
    <3>2. \A d \in Clients : ~Ready(d)' => d \in busy'
      BY <1>0, <1>4, <2>2, <3>1 DEF Serve, Ready
    <3> QED
      BY <1>4, <2>2, <3>2, WorkerGivenBack DEF Serve
  <2> QED
    BY <1>4, <2>1, <2>2 DEF Serve
<1>5. ASSUME NEW c \in Clients,
             Resume(c) \/ ((SpuriousWakeup(c) \/ Timeout(c)) /\ UNCHANGED <<queue, busy>>)
      PROVE  PoolInv'
  <2>1. /\ ~Ready(c)
        /\ \A d \in Clients : d # c => call'[d] = call[d]
    BY <1>0, <1>5 DEF Resume, WakeUp, Return, SpuriousWakeup, Timeout, Ready
  <2>2. \/ busy' = busy
        \/ call'[c].state = "none" /\ busy' = busy \ {c}
    BY <1>5 DEF Resume
  <2>3. \A d \in Clients : ~Ready(d)' => d \in busy'
    BY <1>0, <2>1, <2>2 DEF Ready
  <2> QED
    BY <1>5, <2>2, <2>3, WorkerGivenBack DEF Resume
<1> QED
  BY <1>1, <1>2, <1>3, <1>4, <1>5 DEF ServerNext, Expire

\* The server implements the manager: whatever the pool does with the requests,
\* in whatever order, the manager sees one of its own behaviours.
THEOREM ServerImplementsManager == ServerSpec => Spec
<1>1. ServerInit => Init
  BY DEF ServerInit
<1> QED
  BY <1>1, ServerStepIsManagerStep, PTL DEF ServerSpec, Spec

\* A worker is held by one request, no more workers are in use than there are,
\* and a poll that waits holds one, for pools and crowds of every size.
THEOREM WorkersAreHeld == ServerSpec => []ServerTypeOK
<1>1. ServerInit => PoolInv
  <2> SUFFICES ASSUME ServerInit PROVE PoolInv
    OBVIOUS
  <2>1. queue \in Seq(Clients) /\ DOMAIN queue = {}
    BY EmptySeq DEF ServerInit
  <2>2. busy = {} /\ IsFiniteSet(busy) /\ Cardinality(busy) = 0
    BY FS_EmptySet DEF ServerInit
  <2>3. \A c \in Clients : Ready(c)
    BY DEF ServerInit, Init, Ready, NoCall
  <2> QED
    BY <2>1, <2>2, <2>3, PoolAssumption DEF PoolInv, QueuedOnce, InQueue
<1>2. ServerSpec => []TypeOK
  BY ServerImplementsManager, TypeCorrect, PTL
<1>3. TypeOK /\ PoolInv => ServerTypeOK
  BY DEF PoolInv, ServerTypeOK
<1> QED
  BY <1>1, <1>2, <1>3, PoolInvStep, PTL DEF ServerSpec

=============================================================================
