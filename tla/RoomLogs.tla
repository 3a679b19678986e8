------------------------------- MODULE RoomLogs -------------------------------
(* What the chat core promises: rooms with a log of messages each, of which a *)
(* member gets all there is whenever it gets anything.  There are no clocks,  *)
(* no threads that wait and no last ids here; when messages are handed over   *)
(* is left open.  ChatManager implements this specification.                  *)
EXTENDS Integers, Sequences

CONSTANTS
    Clients,       \* who may be a member
    MaxRooms,      \* bound on the rooms
    MaxMessages    \* bound on the messages of all rooms

VARIABLES
    logs,      \* each room's members, and the ids of what was posted in it
    known,     \* the ids each client got from each room
    ticket     \* what each client has asked for and waits to get

logVars == <<logs, known, ticket>>

\* `all` is FALSE for one who only wants to look at recent messages.
NoTicket == [room |-> 0, all |-> TRUE]

Init ==
    /\ logs = <<>>
    /\ known = [c \in Clients |-> [r \in 1..MaxRooms |-> {}]]
    /\ ticket = [c \in Clients |-> NoTicket]

Member(c, r) == c \in logs[r].members

Open(c) ==
    /\ Len(logs) < MaxRooms
    /\ logs' = Append(logs, [members |-> {c}, posted |-> {}])
    /\ UNCHANGED <<known, ticket>>

\* Members decide who is one.  A room that has none is closed for ever.
Invite(c, r, p) ==
    /\ Member(c, r)
    /\ logs' = [logs EXCEPT ![r].members = @ \cup {p}]
    /\ UNCHANGED <<known, ticket>>

Remove(c, r, p) ==
    /\ Member(c, r)
    /\ logs' = [logs EXCEPT ![r].members = @ \ {p}]
    /\ UNCHANGED <<known, ticket>>

\* Ids rise through all the rooms.
Post(c, r) ==
    /\ Member(c, r)
    /\ \E i \in 1..MaxMessages :
         /\ \A q \in DOMAIN logs : \A j \in logs[q].posted : j < i
         /\ logs' = [logs EXCEPT ![r].posted = @ \cup {i}]
    /\ UNCHANGED <<known, ticket>>

CatchUp(c, r) == known' = [known EXCEPT ![c][r] = logs[r].posted]

Read(c, r) ==
    /\ ticket[c] = NoTicket
    /\ Member(c, r)
    /\ CatchUp(c, r)
    /\ UNCHANGED <<logs, ticket>>

\* Only a member gets a ticket, and it is good for one answer, at any time.
TakeTicket(c, r) ==
    /\ ticket[c] = NoTicket
    /\ Member(c, r)
    /\ \E all \in BOOLEAN : ticket' = [ticket EXCEPT ![c] = [room |-> r, all |-> all]]
    /\ UNCHANGED <<logs, known>>

Redeem(c) ==
    /\ ticket[c] # NoTicket
    /\ IF ticket[c].all THEN CatchUp(c, ticket[c].room) ELSE UNCHANGED known
    /\ ticket' = [ticket EXCEPT ![c] = NoTicket]
    /\ UNCHANGED logs

Next ==
    \E c \in Clients :
      \/ Open(c)
      \/ \E r \in DOMAIN logs :
           \/ Post(c, r) \/ Read(c, r) \/ TakeTicket(c, r)
           \/ \E p \in Clients : Invite(c, r, p) \/ Remove(c, r, p)
      \/ Redeem(c)

Spec == Init /\ [][Next]_logVars

=============================================================================
