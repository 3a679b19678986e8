----------------------------- MODULE SecretServer -----------------------------
(* The JSON-RPC server: SecretDataManager behind WebSocket sessions that read *)
(* a message, answer it and read the next.  A message may be a batch, whose   *)
(* requests are processed one after the other, each in a critical section of  *)
(* its own, while the sessions on other threads process theirs.               *)
(*                                                                            *)
(* What a request asks is chosen when it is processed.  It states its access  *)
(* level as a string: there are no accounts.  The schemas of the methods name *)
(* three strings, but nothing looks at the schemas, and any other string is   *)
(* taken for the lowest level.  The methods are registered before the server  *)
(* runs, so looking one up is not a step.                                     *)
EXTENDS Integers, FiniteSets

CONSTANTS
    Clients,        \* those who may connect
    DataIds,        \* the ids of secrets
    Threads,        \* how many threads run the io_context
    MaxBatch,       \* bound on the requests of a message
    MaxMessages     \* bound on the messages of a client

ASSUME SecretAssumption ==
    /\ IsFiniteSet(Clients)
    /\ Threads \in Nat \ {0}
    /\ {MaxBatch, MaxMessages} \subseteq Nat

VARIABLES
    data_store_,    \* SecretDataManager::data_store_
    accepted,       \* history variable: the adds that were accepted and whose
                    \* secret no one has deleted since
    disclosed,      \* history variable: what was told of secrets, and to whom,
                    \* in answer to the request processed last
    owns,           \* history variable: the ids under which the answer in the
                    \* making tells each client that its secret is
    known,          \* history variable: those of which answers have reached it
    session,        \* where the session of each client is
    todo,           \* the requests of its message that are not processed yet
    received        \* messages read from each client

vars == <<data_store_, accepted, disclosed, owns, known, session, todo, received>>

AccessLevel == {"user", "admin", "superAdmin"}

\* The order of the enumeration.
Rank(level) == CASE level = "user" -> 0
                 [] level = "admin" -> 1
                 [] level = "superAdmin" -> 2

\* What clients may send as their level; "other" stands for all other strings.
LevelString == AccessLevel \cup {"other"}

\* Slip: what is not one of the first two levels is taken for the third.
OtherIsHighest(said) == IF said \in {"user", "admin"} THEN said ELSE "superAdmin"

stringToAccessLevel(said) ==
    IF said \in {"superAdmin", "admin"} THEN said ELSE "user"

HasPermission(level, required) == Rank(level) >= Rank(required)

\* A secret is told apart by who added it.
Secret == [min_access_level : AccessLevel, data : Clients]

\* What a client said that is told of a secret, what the one said that added
\* it, and whether it is what he added.
Disclosure == [to : LevelString, from : LevelString, genuine : BOOLEAN]

States == {"none", "handshake", "reading", "handling", "writing"}

Init ==
    /\ data_store_ = <<>>
    /\ accepted = <<>>
    /\ disclosed = {}
    /\ owns = [c \in Clients |-> {}]
    /\ known = [c \in Clients |-> {}]
    /\ session = [c \in Clients |-> "none"]
    /\ todo = [c \in Clients |-> 0]
    /\ received = [c \in Clients |-> 0]

-----------------------------------------------------------------------------
(* SecretDataManager: one critical section for each request                   *)

manager == <<data_store_, accepted, owns, known>>

TellNothing == disclosed' = {}

With(store, i, secret) == [j \in DOMAIN store \cup {i} |->
                             IF j = i THEN secret ELSE store[j]]

Without(store, i) == [j \in DOMAIN store \ {i} |-> store[j]]

\* Slip: the secret is stored although the id is taken.
StoreInAnyCase(store, i, secret) == With(store, i, secret)

\* handleAddData leaves an id that is taken alone, and answers with an error.
StoreNew(store, i, secret) ==
    IF i \in DOMAIN store THEN store ELSE With(store, i, secret)

\* The answer tells c that its own secrets are under ids.
TellOwner(c, ids) == owns' = [owns EXCEPT ![c] = @ \cup ids]

\* "add": the level needed is that of the client who adds.
AddData(c, i, said) ==
    LET level == stringToAccessLevel(said) IN
    /\ data_store_' = StoreNew(data_store_, i, [min_access_level |-> level, data |-> c])
    /\ accepted' = IF i \in DOMAIN data_store_ THEN accepted
                   ELSE With(accepted, i, [said |-> said, data |-> c])
    /\ TellOwner(c, {i} \ DOMAIN data_store_)
    /\ TellNothing
    /\ UNCHANGED known

\* The ids whose secrets a level is given.
Readable(level) ==
    {i \in DOMAIN data_store_ :
       HasPermission(level, data_store_[i].min_access_level)}

\* What a client that said `said` is told of the secrets of ids.
Disclose(said, ids) ==
    /\ disclosed' = {[to |-> said, from |-> accepted[i].said,
                      genuine |-> data_store_[i].data = accepted[i].data] : i \in ids}
    /\ UNCHANGED <<data_store_, accepted, known>>

\* "get".  A missing id and a missing permission are errors.  A client that does
\* not know what became of its add finds its own secret, or another's.
GetData(c, i, said) ==
    LET found == Readable(stringToAccessLevel(said)) \cap {i} IN
    /\ Disclose(said, found)
    /\ TellOwner(c, {j \in found : data_store_[j].data = c})

\* "delete".  Anything else than a superAdmin, or a missing id, is an error.
\* Nobody's secret is under that id any more, whether he hears of it or not.
DeleteData(i, said) ==
    /\ stringToAccessLevel(said) = "superAdmin"
    /\ data_store_' = Without(data_store_, i)
    /\ accepted' = Without(accepted, i)
    /\ owns' = [c \in Clients |-> owns[c] \ {i}]
    /\ known' = [c \in Clients |-> known[c] \ {i}]
    /\ TellNothing

\* listSecretData tells the ids.
ListSecretData(said) ==
    /\ Disclose(said, Readable(stringToAccessLevel(said)))
    /\ UNCHANGED owns

\* getSecretDataStats, which tells numbers only, and whatever is refused: an
\* invalid request, an unknown method, a missing field.
NothingToTell == TellNothing /\ UNCHANGED manager

\* The answer to c's message has reached it, or is lost.
Forget(c) ==
    /\ TellNothing
    /\ owns' = [owns EXCEPT ![c] = {}]
    /\ UNCHANGED <<data_store_, accepted>>

-----------------------------------------------------------------------------
(* Sessions                                                                   *)

Handling == {c \in Clients : session[c] = "handling"}

\* A completion handler needs a thread that is not inside another one.
FreeThread == Cardinality(Handling) < Threads

Goto(c, state) == session' = [session EXCEPT ![c] = state]

\* Server::onAccept, and a client whose session ended connects anew.
Connect(c) ==
    /\ session[c] = "none"
    /\ FreeThread
    /\ Goto(c, "handshake")
    /\ NothingToTell
    /\ UNCHANGED <<todo, received>>

\* Session::onAccept.
HandshakeDone(c) ==
    /\ session[c] = "handshake"
    /\ FreeThread
    /\ Goto(c, "reading")
    /\ NothingToTell
    /\ UNCHANGED <<todo, received>>

\* Where the session goes when n requests of its message are left.
AfterRequest(n) == IF n = 0 THEN "writing" ELSE "handling"

\* Session::onRead of a message of n requests: an object is one, a batch any
\* number.  One that does not parse holds none: it gets an error at once.
ReadMessage(c, n) ==
    /\ session[c] = "reading"
    /\ FreeThread
    /\ received[c] < MaxMessages
    /\ received' = [received EXCEPT ![c] = @ + 1]
    /\ todo' = [todo EXCEPT ![c] = n]
    /\ Goto(c, AfterRequest(n))
    /\ NothingToTell

\* processRequest.  Every exception becomes an answer: the batch goes on.
ProcessRequest(c) ==
    /\ session[c] = "handling"
    /\ todo[c] > 0
    /\ \/ \E i \in DataIds, said \in LevelString :
            AddData(c, i, said) \/ GetData(c, i, said) \/ DeleteData(i, said)
       \/ \E said \in LevelString : ListSecretData(said)
       \/ NothingToTell
    /\ todo' = [todo EXCEPT ![c] = @ - 1]
    /\ Goto(c, AfterRequest(todo[c] - 1))
    /\ UNCHANGED received

\* Session::onWrite: the answer is out, and the next message is read.
WriteDone(c) ==
    /\ session[c] = "writing"
    /\ FreeThread
    /\ known' = [known EXCEPT ![c] = @ \cup owns[c]]
    /\ Forget(c)
    /\ Goto(c, "reading")
    /\ UNCHANGED <<todo, received>>

\* An accept, a read or a write that fails ends the session.  If it was the
\* write, the client does not know what became of its requests; it may send
\* them again.
Fail(c) ==
    /\ session[c] \in {"handshake", "reading", "writing"}
    /\ FreeThread
    /\ Forget(c)
    /\ Goto(c, "none")
    /\ UNCHANGED <<known, todo, received>>

Next ==
    \E c \in Clients :
      \/ Connect(c) \/ HandshakeDone(c)
      \/ \E n \in 0..MaxBatch : ReadMessage(c, n)
      \/ ProcessRequest(c)
      \/ WriteDone(c)
      \/ Fail(c)

Spec == Init /\ [][Next]_vars

-----------------------------------------------------------------------------
(* Properties *)

\* The store holds just what was accepted, whoever raced to add it and however
\* often a client that never saw its answer tried again: no add replaces a
\* secret, or its level, and none that was accepted is lost (lines 200-217).
AcceptedAddsStand ==
    /\ DOMAIN data_store_ = DOMAIN accepted
    /\ \A i \in DOMAIN accepted :
         data_store_[i] = [min_access_level |-> stringToAccessLevel(accepted[i].said),
                           data |-> accepted[i].data]

\* A client that was told that its secret is under an id, because an add was
\* answered or because it read it back when the answer to the add was lost, can
\* rely on that until someone deletes it, whoever adds under that id meanwhile.
KnownSecretsStand ==
    \A c \in Clients : \A i \in known[c] :
      i \in DOMAIN data_store_ /\ data_store_[i].data = c

\* Types; no more messages are processed at a time than there are threads, and
\* each of them has a request left; and the two agreements above.
SecretTypeOK ==
    /\ DOMAIN accepted \subseteq DataIds
    /\ data_store_ \in [DOMAIN data_store_ -> Secret]
    /\ accepted \in [DOMAIN accepted -> [said : LevelString, data : Clients]]
    /\ disclosed \subseteq Disclosure
    /\ {owns, known} \subseteq [Clients -> SUBSET DataIds]
    /\ session \in [Clients -> States]
    /\ todo \in [Clients -> 0..MaxBatch]
    /\ received \in [Clients -> 0..MaxMessages]
    /\ Cardinality(Handling) <= Threads
    /\ \A c \in Handling : todo[c] > 0
    /\ AcceptedAddsStand
    /\ KnownSecretsStand

\* Who may be told of a secret, by what he said and what was said when it was
\* added.  A string that the schemas do not know (lines 36 and 76) is not
\* refused: it opens no more than "user" does, and protects no more.
MayBeTold(to, from) ==
    CASE from = "superAdmin" -> to = "superAdmin"
      [] from = "admin"      -> to \in {"admin", "superAdmin"}
      [] OTHER               -> TRUE

\* What a client is told, by "get" or by the list, is what was accepted under
\* that id, and not above what the strings allow that it and the one who added
\* it sent: no deletion, second add or unknown level in between opens more.
SecretsFlowUp ==
    \A d \in disclosed : d.genuine /\ MayBeTold(d.to, d.from)

=============================================================================
