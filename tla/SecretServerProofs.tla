-------------------------- MODULE SecretServerProofs --------------------------
(* Proofs about the JSON-RPC server, for any number of clients, of secrets    *)
(* and of threads, and batches of any length.                                 *)
EXTENDS SecretServer, FiniteSetTheorems, TLAPS

\* What the answer in the making will tell is true now, unless a delete
\* comes in between.
OwnersRight ==
    \A c \in Clients : \A i \in owns[c] :
      i \in DOMAIN data_store_ /\ data_store_[i].data = c

SecretInv == SecretTypeOK /\ SecretsFlowUp /\ OwnersRight

-----------------------------------------------------------------------------
(* The store *)

\* A function from some of the ids to secrets, and one to what was accepted.
Store(s) == DOMAIN s \subseteq DataIds /\ s \in [DOMAIN s -> Secret]

Accepted == [said : LevelString, data : Clients]

Record(s) == DOMAIN s \subseteq DataIds /\ s \in [DOMAIN s -> Accepted]

\* A secret as it is stored for an add that was accepted.
Stored(add) == [min_access_level |-> stringToAccessLevel(add.said), data |-> add.data]

\* The store is what was accepted.
TablesOK == Store(data_store_) /\ Record(accepted) /\ AcceptedAddsStand

OwnersOK ==
    /\ owns \in [Clients -> SUBSET DataIds]
    /\ known \in [Clients -> SUBSET DataIds]
    /\ OwnersRight
    /\ KnownSecretsStand

ToldOK == disclosed \subseteq Disclosure /\ SecretsFlowUp

LEMMA LevelsAreThree ==
    ASSUME NEW said \in LevelString
    PROVE  stringToAccessLevel(said) \in AccessLevel
  BY DEF LevelString, AccessLevel, stringToAccessLevel

\* The comparison of ranks gives what the strings allow.
LEMMA RanksRespectStrings ==
    ASSUME NEW to \in LevelString, NEW from \in LevelString,
           HasPermission(stringToAccessLevel(to), stringToAccessLevel(from))
    PROVE  MayBeTold(to, from)
  <1>1. CASE from = "superAdmin"
    <2>1. stringToAccessLevel(from) = "superAdmin" /\ stringToAccessLevel(to) \in AccessLevel
      BY <1>1, LevelsAreThree DEF stringToAccessLevel
    <2>2. stringToAccessLevel(to) = "superAdmin"
      BY <2>1 DEF HasPermission, Rank, AccessLevel
    <2>3. to = "superAdmin"
      BY <2>2 DEF stringToAccessLevel
    <2> QED
      BY <1>1, <2>3 DEF MayBeTold
  <1>2. CASE from = "admin"
    <2>1. stringToAccessLevel(from) = "admin" /\ stringToAccessLevel(to) \in AccessLevel
      BY <1>2, LevelsAreThree DEF stringToAccessLevel
    <2>2. stringToAccessLevel(to) \in {"admin", "superAdmin"}
      BY <2>1 DEF HasPermission, Rank, AccessLevel
    <2>3. to \in {"admin", "superAdmin"}
      BY <2>2 DEF stringToAccessLevel
    <2> QED
      BY <1>2, <2>3 DEF MayBeTold
  <1>3. CASE from \notin {"admin", "superAdmin"}
    BY <1>3 DEF MayBeTold
  <1> QED
    BY <1>1, <1>2, <1>3

LEMMA WithIsStore ==
    ASSUME NEW s, Store(s), NEW i \in DataIds, NEW secret \in Secret
    PROVE  Store(With(s, i, secret))
  BY DEF Store, With

LEMMA WithIsRecord ==
    ASSUME NEW s, Record(s), NEW i \in DataIds, NEW add \in Accepted
    PROVE  Record(With(s, i, add))
  BY DEF Record, With

LEMMA WithoutIsStore ==
    ASSUME NEW s, Store(s), NEW i
    PROVE  Store(Without(s, i))
  BY DEF Store, Without

LEMMA WithoutIsRecord ==
    ASSUME NEW s, Record(s), NEW i
    PROVE  Record(Without(s, i))
  BY DEF Record, Without

\* "add", under an id that is taken or not.
LEMMA AddHolds ==
    ASSUME TablesOK, OwnersOK, NEW c \in Clients, NEW i \in DataIds,
           NEW said \in LevelString, AddData(c, i, said)
    PROVE  TablesOK' /\ OwnersOK' /\ ToldOK'
  <1> DEFINE add == [said |-> said, data |-> c]
  <1>1. add \in Accepted /\ Stored(add) \in Secret
    BY LevelsAreThree DEF Accepted, Stored, Secret
  <1>2. /\ known' = known /\ disclosed' = {}
        /\ owns' = [owns EXCEPT ![c] = @ \cup ({i} \ DOMAIN data_store_)]
    BY DEF AddData, TellOwner, TellNothing
  <1>3. ToldOK'
    BY <1>2 DEF ToldOK, SecretsFlowUp
  <1>4. CASE i \in DOMAIN data_store_
    <2>1. data_store_' = data_store_ /\ accepted' = accepted /\ owns' = owns
      BY <1>2, <1>4 DEF AddData, StoreNew, OwnersOK
    <2> QED
      BY <1>2, <1>3, <2>1
         DEF TablesOK, AcceptedAddsStand, OwnersOK, OwnersRight, KnownSecretsStand
  <1>5. CASE i \notin DOMAIN data_store_
    <2>1. /\ data_store_' = With(data_store_, i, Stored(add))
          /\ accepted' = With(accepted, i, add)
      BY <1>5 DEF AddData, StoreNew, Stored
    <2>2. owns' = [owns EXCEPT ![c] = @ \cup {i}]
      BY <1>2, <1>5
    <2> HIDE DEF add
    <2>3. Store(data_store_') /\ Record(accepted')
      BY <1>1, <2>1, WithIsStore, WithIsRecord DEF TablesOK
    <2>4. /\ DOMAIN data_store_' = DOMAIN data_store_ \cup {i}
          /\ DOMAIN accepted' = DOMAIN accepted \cup {i}
          /\ data_store_'[i] = Stored(add) /\ accepted'[i] = add
          /\ \A j \in DOMAIN data_store_ : j # i /\ data_store_'[j] = data_store_[j]
          /\ \A j \in DOMAIN accepted : j # i => accepted'[j] = accepted[j]
      BY <1>5, <2>1 DEF With
    <2>5. AcceptedAddsStand'
      BY <2>4 DEF TablesOK, AcceptedAddsStand, Stored
    <2>6. data_store_'[i].data = c
      BY <2>4 DEF Stored, add
    <2>7. OwnersRight'
      <3> SUFFICES ASSUME NEW d \in Clients, NEW j \in owns'[d]
                   PROVE  j \in DOMAIN data_store_' /\ data_store_'[j].data = d
        BY DEF OwnersRight
      <3>1. j \in owns[d] \/ (d = c /\ j = i)
        BY <2>2 DEF OwnersOK
      <3> QED
        BY <2>4, <2>6, <3>1 DEF OwnersOK, OwnersRight
    <2>8. KnownSecretsStand'
      BY <1>2, <2>4 DEF OwnersOK, KnownSecretsStand
    <2>9. owns' \in [Clients -> SUBSET DataIds] /\ known' \in [Clients -> SUBSET DataIds]
      BY <1>2, <2>2 DEF OwnersOK
    <2> QED
      BY <1>3, <2>3, <2>5, <2>7, <2>8, <2>9 DEF TablesOK, OwnersOK
  <1> QED
    BY <1>4, <1>5

\* What is told of ids that the string a client sent gives him is genuine, and
\* no more than strings allow.
LEMMA DiscloseHolds ==
    ASSUME TablesOK, NEW said \in LevelString,
           NEW ids, ids \subseteq Readable(stringToAccessLevel(said)), Disclose(said, ids)
    PROVE  ToldOK'
  <1> SUFFICES ASSUME NEW d \in disclosed'
               PROVE  d \in Disclosure /\ d.genuine /\ MayBeTold(d.to, d.from)
    BY DEF ToldOK, SecretsFlowUp
  <1>1. PICK i \in ids :
          d = [to |-> said, from |-> accepted[i].said,
               genuine |-> data_store_[i].data = accepted[i].data]
    BY DEF Disclose
  <1>2. /\ i \in DOMAIN accepted /\ accepted[i].said \in LevelString
        /\ data_store_[i].min_access_level = stringToAccessLevel(accepted[i].said)
        /\ data_store_[i].data = accepted[i].data
    BY DEF Readable, TablesOK, AcceptedAddsStand, Record, Accepted
  <1>3. HasPermission(stringToAccessLevel(said), stringToAccessLevel(accepted[i].said))
    BY <1>2 DEF Readable
  <1>4. MayBeTold(said, accepted[i].said)
    BY <1>2, <1>3, RanksRespectStrings
  <1>5. (data_store_[i].data = accepted[i].data) = TRUE
    BY <1>2
  <1>6. d = [to |-> said, from |-> accepted[i].said, genuine |-> TRUE]
    BY <1>1, <1>5
  <1> QED
    BY <1>2, <1>4, <1>6 DEF Disclosure

\* "get" and the list.
LEMMA TellHolds ==
    ASSUME TablesOK, OwnersOK, NEW c \in Clients, NEW said \in LevelString,
           NEW ids, ids \subseteq Readable(stringToAccessLevel(said)), Disclose(said, ids),
           NEW own, own \subseteq {j \in ids : data_store_[j].data = c}, TellOwner(c, own)
    PROVE  TablesOK' /\ OwnersOK' /\ ToldOK'
  <1>1. UNCHANGED <<data_store_, accepted, known>> /\ owns' = [owns EXCEPT ![c] = @ \cup own]
    BY DEF Disclose, TellOwner
  <1>2. TablesOK'
    BY <1>1 DEF TablesOK, AcceptedAddsStand
  <1>3. \A j \in own : j \in DataIds /\ j \in DOMAIN data_store_ /\ data_store_[j].data = c
    BY DEF Readable, TablesOK, Store
  <1>4. owns' \in [Clients -> SUBSET DataIds]
    BY <1>1, <1>3 DEF OwnersOK
  <1>5. OwnersRight'
    <2> SUFFICES ASSUME NEW d \in Clients, NEW j \in owns'[d]
                 PROVE  j \in DOMAIN data_store_ /\ data_store_[j].data = d
      BY <1>1 DEF OwnersRight
    <2>1. j \in owns[d] \/ (d = c /\ j \in own)
      BY <1>1 DEF OwnersOK
    <2> QED
      BY <1>3, <2>1 DEF OwnersOK, OwnersRight
  <1>6. OwnersOK'
    BY <1>1, <1>4, <1>5 DEF OwnersOK, KnownSecretsStand
  <1> QED
    BY <1>2, <1>6, DiscloseHolds

\* "delete", of an id that is there or not.
LEMMA DeleteHolds ==
    ASSUME TablesOK, OwnersOK, NEW i \in DataIds, NEW said \in LevelString,
           DeleteData(i, said)
    PROVE  TablesOK' /\ OwnersOK' /\ ToldOK'
  <1>1. /\ data_store_' = Without(data_store_, i) /\ accepted' = Without(accepted, i)
        /\ owns' = [c \in Clients |-> owns[c] \ {i}]
        /\ known' = [c \in Clients |-> known[c] \ {i}]
        /\ disclosed' = {}
    BY DEF DeleteData, TellNothing
  <1>2. Store(data_store_') /\ Record(accepted')
    BY <1>1, WithoutIsStore, WithoutIsRecord DEF TablesOK
  <1>3. /\ DOMAIN data_store_' = DOMAIN data_store_ \ {i}
        /\ DOMAIN accepted' = DOMAIN accepted \ {i}
        /\ \A j \in DOMAIN data_store_ \ {i} : data_store_'[j] = data_store_[j]
        /\ \A j \in DOMAIN accepted \ {i} : accepted'[j] = accepted[j]
    BY <1>1 DEF Without
  <1>4. AcceptedAddsStand'
    BY <1>3 DEF TablesOK, AcceptedAddsStand
  <1>5. /\ owns' \in [Clients -> SUBSET DataIds] /\ known' \in [Clients -> SUBSET DataIds]
        /\ \A c \in Clients : owns'[c] = owns[c] \ {i} /\ known'[c] = known[c] \ {i}
    BY <1>1 DEF OwnersOK
  <1>6. OwnersRight' /\ KnownSecretsStand'
    BY <1>3, <1>5 DEF OwnersOK, OwnersRight, KnownSecretsStand
  <1>7. ToldOK'
    BY <1>1 DEF ToldOK, SecretsFlowUp
  <1> QED
    BY <1>2, <1>4, <1>5, <1>6, <1>7 DEF TablesOK, OwnersOK

\* Telling nothing: the requests that do, and most steps of sessions.
LEMMA NothingHolds ==
    ASSUME TablesOK, OwnersOK, TellNothing, UNCHANGED <<data_store_, accepted>>,
           \/ UNCHANGED <<owns, known>>
           \/ \E c \in Clients : /\ owns' = [owns EXCEPT ![c] = {}]
                                 /\ known' = known \/ known' = [known EXCEPT ![c] = @ \cup owns[c]]
    PROVE  TablesOK' /\ OwnersOK' /\ ToldOK'
  <1>1. TablesOK'
    BY DEF TablesOK, AcceptedAddsStand
  <1>2. ToldOK'
    BY DEF TellNothing, ToldOK, SecretsFlowUp
  <1>3. /\ owns' \in [Clients -> SUBSET DataIds] /\ known' \in [Clients -> SUBSET DataIds]
        /\ \A d \in Clients : owns'[d] \subseteq owns[d] /\ known'[d] \subseteq known[d] \cup owns[d]
    <2>1. CASE UNCHANGED <<owns, known>>
      BY <2>1 DEF OwnersOK
    <2>2. ASSUME NEW c \in Clients, owns' = [owns EXCEPT ![c] = {}],
                 known' = known \/ known' = [known EXCEPT ![c] = @ \cup owns[c]]
          PROVE  /\ owns' \in [Clients -> SUBSET DataIds]
                 /\ known' \in [Clients -> SUBSET DataIds]
                 /\ \A d \in Clients :
                      owns'[d] \subseteq owns[d] /\ known'[d] \subseteq known[d] \cup owns[d]
      BY <2>2 DEF OwnersOK
    <2> QED
      BY <2>1, <2>2
  <1>4. OwnersRight' /\ KnownSecretsStand'
    BY <1>3 DEF OwnersOK, OwnersRight, KnownSecretsStand
  <1> QED
    BY <1>1, <1>2, <1>3, <1>4 DEF OwnersOK

\* A request of any kind.
LEMMA RequestHolds ==
    ASSUME TablesOK, OwnersOK, NEW c \in Clients,
           \/ \E i \in DataIds, said \in LevelString :
                AddData(c, i, said) \/ GetData(c, i, said) \/ DeleteData(i, said)
           \/ \E said \in LevelString : ListSecretData(said)
           \/ NothingToTell
    PROVE  TablesOK' /\ OwnersOK' /\ ToldOK'
  <1>1. ASSUME NEW i \in DataIds, NEW said \in LevelString, GetData(c, i, said)
        PROVE  TablesOK' /\ OwnersOK' /\ ToldOK'
    <2> DEFINE found == Readable(stringToAccessLevel(said)) \cap {i}
    <2>1. Disclose(said, found) /\ TellOwner(c, {j \in found : data_store_[j].data = c})
      BY <1>1 DEF GetData
    <2>2. found \subseteq Readable(stringToAccessLevel(said))
      OBVIOUS
    <2> HIDE DEF found
    <2> QED
      BY <2>1, <2>2, TellHolds
  <1>2. ASSUME NEW said \in LevelString, ListSecretData(said)
        PROVE  TablesOK' /\ OwnersOK' /\ ToldOK'
    <2> DEFINE ids == Readable(stringToAccessLevel(said))
    <2>1. Disclose(said, ids) /\ owns' = owns
      BY <1>2 DEF ListSecretData
    <2>2. TellOwner(c, {})
      BY <2>1 DEF TellOwner, OwnersOK
    <2> HIDE DEF ids
    <2>3. ids \subseteq Readable(stringToAccessLevel(said))
      BY DEF ids
    <2>4. {} \subseteq {j \in ids : data_store_[j].data = c}
      OBVIOUS
    <2> QED
      BY <2>1, <2>2, <2>3, <2>4, TellHolds
  <1>3. CASE NothingToTell
    BY <1>3, NothingHolds DEF NothingToTell, manager
  <1> QED
    BY <1>1, <1>2, <1>3, AddHolds, DeleteHolds

-----------------------------------------------------------------------------
(* The sessions *)

SessionsTypeOK ==
    /\ session \in [Clients -> States]
    /\ todo \in [Clients -> 0..MaxBatch]
    /\ received \in [Clients -> 0..MaxMessages]
    /\ Cardinality(Handling) <= Threads
    /\ \A c \in Handling : todo[c] > 0

LEMMA HandlingFinite ==
    IsFiniteSet(Handling) /\ Cardinality(Handling) \in Nat /\ Handling \subseteq Clients
  <1>1. Handling \subseteq Clients
    BY DEF Handling
  <1> QED
    BY <1>1, SecretAssumption, FS_Subset, FS_CardinalityType

\* A session that goes on, when a thread is free or it had one, leaves no more
\* threads busy than there are.
LEMMA SessionHolds ==
    ASSUME SessionsTypeOK, NEW c \in Clients, NEW state \in States,
           Goto(c, state), FreeThread \/ session[c] = "handling",
           NEW n \in 0..MaxBatch, todo' = [todo EXCEPT ![c] = n],
           state = "handling" => n > 0,
           NEW r \in 0..MaxMessages, received' = [received EXCEPT ![c] = r]
    PROVE  SessionsTypeOK'
  <1>1. /\ session' \in [Clients -> States] /\ session'[c] = state
        /\ \A d \in Clients \ {c} : session'[d] = session[d]
    BY DEF SessionsTypeOK, Goto
  <1>2. /\ todo' \in [Clients -> 0..MaxBatch] /\ received' \in [Clients -> 0..MaxMessages]
        /\ todo'[c] = n /\ \A d \in Clients \ {c} : todo'[d] = todo[d]
    BY DEF SessionsTypeOK
  <1>3. \A d \in Handling' : todo'[d] > 0
    BY <1>1, <1>2 DEF SessionsTypeOK, Handling
  <1>4. Handling' \subseteq Handling \cup {c}
    BY <1>1 DEF Handling
  <1>5. Threads \in Nat /\ IsFiniteSet(Handling) /\ Cardinality(Handling) \in Nat
    BY SecretAssumption, HandlingFinite
  <1>6. /\ IsFiniteSet(Handling \cup {c})
        /\ Cardinality(Handling \cup {c})
             = IF c \in Handling THEN Cardinality(Handling) ELSE Cardinality(Handling) + 1
    BY <1>5, FS_AddElement
  <1>7. Cardinality(Handling') <= Cardinality(Handling \cup {c}) /\ Cardinality(Handling') \in Nat
    BY <1>4, <1>6, FS_Subset, FS_CardinalityType
  <1>8. Cardinality(Handling \cup {c}) <= Threads
    <2>1. CASE c \in Handling
      BY <1>5, <1>6, <2>1 DEF SessionsTypeOK
    <2>2. CASE c \notin Handling
      <3>1. FreeThread
        BY <2>2 DEF Handling
      <3> QED
        BY <1>5, <1>6, <2>2, <3>1 DEF FreeThread
    <2> QED
      BY <2>1, <2>2
  <1>9. Cardinality(Handling') <= Threads
    BY <1>5, <1>6, <1>7, <1>8, FS_CardinalityType
  <1> QED
    BY <1>1, <1>2, <1>3, <1>9 DEF SessionsTypeOK

-----------------------------------------------------------------------------
(* The invariant *)

LEMMA InvParts == SecretInv <=> TablesOK /\ OwnersOK /\ ToldOK /\ SessionsTypeOK
  BY DEF SecretInv, SecretTypeOK, TablesOK, OwnersOK, ToldOK, SessionsTypeOK, Store, Record,
         Accepted, AcceptedAddsStand

LEMMA InvPartsNext == SecretInv' <=> TablesOK' /\ OwnersOK' /\ ToldOK' /\ SessionsTypeOK'
  BY DEF SecretInv, SecretTypeOK, TablesOK, OwnersOK, ToldOK, SessionsTypeOK, Store, Record,
         Accepted, AcceptedAddsStand, Handling

LEMMA InitHolds == Init => SecretInv
  <1> SUFFICES ASSUME Init PROVE SecretInv
    OBVIOUS
  <1>1. /\ DOMAIN data_store_ = {} /\ data_store_ \in [{} -> Secret]
        /\ DOMAIN accepted = {} /\ accepted \in [{} -> Accepted]
    <2>1. <<>> \in [{} -> Secret] /\ <<>> \in [{} -> Accepted]
      OBVIOUS
    <2> QED
      BY <2>1 DEF Init
  <1>2. TablesOK /\ OwnersOK /\ ToldOK
    BY <1>1 DEF Init, TablesOK, Store, Record, AcceptedAddsStand, OwnersOK, OwnersRight,
                KnownSecretsStand, ToldOK, SecretsFlowUp
  <1>3. Handling = {}
    BY DEF Init, Handling
  <1>4. Cardinality(Handling) = 0
    BY <1>3, FS_EmptySet
  <1>5. SessionsTypeOK
    BY <1>3, <1>4, SecretAssumption DEF Init, SessionsTypeOK, States
  <1> QED
    BY <1>2, <1>5, InvParts

LEMMA StepHolds == SecretInv /\ [Next]_vars => SecretInv'
  <1> SUFFICES ASSUME SecretInv, [Next]_vars
               PROVE  SecretInv'
    OBVIOUS
  <1>1. TablesOK /\ OwnersOK /\ ToldOK /\ SessionsTypeOK
    BY InvParts
  <1>2. /\ todo \in [Clients -> 0..MaxBatch] /\ received \in [Clients -> 0..MaxMessages]
        /\ MaxBatch \in Nat /\ MaxMessages \in Nat
    BY <1>1, SecretAssumption DEF SessionsTypeOK
  <1>3. ASSUME NothingToTell
        PROVE  TablesOK' /\ OwnersOK' /\ ToldOK'
    BY <1>1, <1>3, NothingHolds DEF NothingToTell, manager
  <1>4. CASE UNCHANGED vars
    <2>1. SessionsTypeOK'
      BY <1>1, <1>4 DEF vars, SessionsTypeOK, Handling
    <2>2. TablesOK' /\ OwnersOK' /\ ToldOK'
      BY <1>1, <1>4 DEF vars, TablesOK, AcceptedAddsStand, OwnersOK, OwnersRight,
                        KnownSecretsStand, ToldOK, SecretsFlowUp
    <2> QED
      BY <2>1, <2>2, InvPartsNext
  <1>5. ASSUME NEW c \in Clients,
               Connect(c) \/ HandshakeDone(c) \/ WriteDone(c) \/ Fail(c)
        PROVE  SecretInv'
    <2>1. PICK state \in States :
            /\ state # "handling" /\ Goto(c, state) /\ FreeThread
            /\ UNCHANGED <<todo, received>>
      BY <1>5 DEF Connect, HandshakeDone, WriteDone, Fail, States
    <2>2. todo' = [todo EXCEPT ![c] = todo[c]] /\ received' = [received EXCEPT ![c] = received[c]]
      BY <1>2, <2>1
    <2>3. todo[c] \in 0..MaxBatch /\ received[c] \in 0..MaxMessages
      BY <1>2
    <2>4. SessionsTypeOK'
      BY <1>1, <2>1, <2>2, <2>3, SessionHolds
    <2>5. CASE Connect(c) \/ HandshakeDone(c)
      BY <1>3, <2>4, <2>5, InvPartsNext DEF Connect, HandshakeDone
    <2>6. CASE WriteDone(c) \/ Fail(c)
      <3>1. /\ TellNothing /\ UNCHANGED <<data_store_, accepted>>
            /\ owns' = [owns EXCEPT ![c] = {}]
            /\ known' = known \/ known' = [known EXCEPT ![c] = @ \cup owns[c]]
        BY <2>6 DEF WriteDone, Fail, Forget
      <3>2. TablesOK' /\ OwnersOK' /\ ToldOK'
        BY <1>1, <3>1, NothingHolds
      <3> QED
        BY <2>4, <3>2, InvPartsNext
    <2> QED
      BY <1>5, <2>5, <2>6
  <1>6. ASSUME NEW c \in Clients, NEW n \in 0..MaxBatch, ReadMessage(c, n)
        PROVE  SecretInv'
    <2> DEFINE r == received[c] + 1
    <2>1. /\ Goto(c, AfterRequest(n)) /\ FreeThread /\ todo' = [todo EXCEPT ![c] = n]
          /\ received' = [received EXCEPT ![c] = r] /\ received[c] < MaxMessages
          /\ NothingToTell
      BY <1>6 DEF ReadMessage
    <2>2. r \in 0..MaxMessages
      BY <1>2, <2>1
    <2>3. AfterRequest(n) \in States /\ (AfterRequest(n) = "handling" => n > 0)
      BY <1>2 DEF AfterRequest, States
    <2> HIDE DEF r
    <2>4. SessionsTypeOK'
      BY <1>1, <2>1, <2>2, <2>3, SessionHolds
    <2> QED
      BY <1>3, <2>1, <2>4, InvPartsNext
  <1>7. ASSUME NEW c \in Clients, ProcessRequest(c)
        PROVE  SecretInv'
    <2> DEFINE n == todo[c] - 1
    <2>1. /\ Goto(c, AfterRequest(n)) /\ session[c] = "handling" /\ todo[c] > 0
          /\ todo' = [todo EXCEPT ![c] = n] /\ received' = received
      BY <1>7 DEF ProcessRequest
    <2>2. n \in 0..MaxBatch
      BY <1>2, <2>1
    <2>3. AfterRequest(n) \in States /\ (AfterRequest(n) = "handling" => n > 0)
      <3> HIDE DEF n
      <3> QED
        BY <1>2, <2>2 DEF AfterRequest, States
    <2>4. received' = [received EXCEPT ![c] = received[c]] /\ received[c] \in 0..MaxMessages
      BY <1>2, <2>1
    <2> HIDE DEF n
    <2>5. SessionsTypeOK'
      BY <1>1, <2>1, <2>2, <2>3, <2>4, SessionHolds
    <2>6. TablesOK' /\ OwnersOK' /\ ToldOK'
      BY <1>1, <1>7, RequestHolds DEF ProcessRequest
    <2> QED
      BY <2>5, <2>6, InvPartsNext
  <1> QED
    BY <1>4, <1>5, <1>6, <1>7 DEF Next

LEMMA InvariantHolds == Spec => []SecretInv
  BY InitHolds, StepHolds, PTL DEF Spec

-----------------------------------------------------------------------------
(* Theorems *)

\* The store is what was accepted: whichever sessions race to add, and however
\* often one tries again, no accepted add is overwritten or lost; what answers
\* that arrived told clients of their own secrets stays true until a delete; and
\* no more messages are processed at a time than threads run the io_context.
THEOREM StoreIsWhatWasAccepted == Spec => []SecretTypeOK
  <1>1. SecretInv => SecretTypeOK
    BY DEF SecretInv
  <1> QED
    BY <1>1, InvariantHolds, PTL

\* Nothing that "get" or the list tells is other than what was accepted under
\* that id, or is told to one whose string does not allow it: whatever strings
\* clients send, those that the schemas do not know included, which are not
\* refused and open as much as "user" does, and protect as little.
THEOREM NothingFlowsDown == Spec => []SecretsFlowUp
  <1>1. SecretInv => SecretsFlowUp
    BY DEF SecretInv
  <1> QED
    BY <1>1, InvariantHolds, PTL

=============================================================================
