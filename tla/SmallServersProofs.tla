-------------------------- MODULE SmallServersProofs --------------------------
(* Proofs about the SOAP task server, for any number of connections and tasks, *)
(* and, after them, about the webhook example server, for event stores of any *)
(* size.                                                                      *)
(*                                                                            *)
(* The argument about the file of tasks: while the process saves, the table   *)
(* stands still, the count written is that of the table, and the entries      *)
(* written are entries of it.  A part of a finite table that is as large as   *)
(* the table is the table.                                                    *)
(*                                                                            *)
(* The argument about the events: those in the store are the last ones, with  *)
(* consecutive ids, so that an id tells whether its event is listed, and at   *)
(* which place.                                                               *)
EXTENDS TaskServer, ExampleServers, FiniteSetTheorems, SequenceTheorems, TLAPS

PartOf(part, table) ==
    /\ DOMAIN part \subseteq DOMAIN table
    /\ \A k \in DOMAIN part : part[k] = table[k]

SaveInProgress ==
    proc = "saving" =>
      /\ last_saved = tasks
      /\ file.count = Unwritten \/ file.count = Cardinality(DOMAIN tasks)
      /\ PartOf(file.table, tasks)

FileAtRest == proc # "saving" /\ Whole(file) => file.table = last_saved

TaskInv == TaskTypeOK /\ SaveInProgress /\ FileAtRest

-----------------------------------------------------------------------------
(* Tables *)

\* A table is a function from some of the task ids to tasks.
LEMMA TableForm ==
    ASSUME NEW table
    PROVE  table \in Table <=> /\ DOMAIN table \subseteq TaskIds
                               /\ table \in [DOMAIN table -> Task]
  <1>1. ASSUME table \in Table
        PROVE  DOMAIN table \subseteq TaskIds /\ table \in [DOMAIN table -> Task]
    <2>1. PICK ids \in SUBSET TaskIds : table \in [ids -> Task]
      BY <1>1 DEF Table
    <2>2. DOMAIN table = ids
      BY <2>1
    <2> QED
      BY <2>1, <2>2
  <1>2. ASSUME DOMAIN table \subseteq TaskIds, table \in [DOMAIN table -> Task]
        PROVE  table \in Table
    BY <1>2 DEF Table
  <1> QED
    BY <1>1, <1>2

\* The table without tasks is one.
LEMMA EmptyIsTable == Empty \in Table
  <1>1. DOMAIN Empty = {} /\ Empty \in [DOMAIN Empty -> Task]
    BY DEF Empty
  <1> QED
    BY <1>1, TableForm

\* Storing a task gives a table again.
LEMMA WithIsTable ==
    ASSUME tasks \in Table, NEW id \in TaskIds, NEW task \in Task
    PROVE  /\ With(id, task) \in Table
           /\ DOMAIN With(id, task) = DOMAIN tasks \cup {id}
  <1>1. DOMAIN tasks \subseteq TaskIds /\ tasks \in [DOMAIN tasks -> Task]
    BY TableForm
  <1>2. DOMAIN With(id, task) = DOMAIN tasks \cup {id}
    BY DEF With
  <1>3. With(id, task) \in [DOMAIN With(id, task) -> Task]
    BY <1>1, <1>2 DEF With
  <1> QED
    BY <1>1, <1>2, <1>3, TableForm

\* A part of a table with as many entries is the table.
LEMMA WholePart ==
    ASSUME NEW part \in Table, NEW table \in Table, PartOf(part, table),
           Cardinality(DOMAIN part) = Cardinality(DOMAIN table)
    PROVE  part = table
  <1>1. /\ DOMAIN part \subseteq DOMAIN table
        /\ DOMAIN table \subseteq TaskIds
        /\ part = [k \in DOMAIN part |-> part[k]]
        /\ table = [k \in DOMAIN table |-> table[k]]
    BY TableForm DEF PartOf
  <1>2. IsFiniteSet(DOMAIN table)
    BY <1>1, TaskAssumption, FS_Subset
  <1>3. DOMAIN part = DOMAIN table
    BY <1>1, <1>2, FS_Subset
  <1> QED
    BY <1>1, <1>3 DEF PartOf

\* The number of a table's entries is a number, and not the mark of a file
\* whose count is not written.
LEMMA CountOfTable ==
    ASSUME NEW table \in Table
    PROVE  Cardinality(DOMAIN table) \in Nat
  <1>1. IsFiniteSet(DOMAIN table)
    BY TableForm, TaskAssumption, FS_Subset
  <1> QED
    BY <1>1, FS_CardinalityType

-----------------------------------------------------------------------------
(* The invariant *)

\* The first start, without a file.
LEMMA TaskInvInit == TaskInit => TaskInv
  <1> SUFFICES ASSUME TaskInit PROVE TaskInv
    OBVIOUS
  <1>1. TaskTypeOK
    BY EmptyIsTable DEF TaskInit, TaskTypeOK
  <1>2. SaveInProgress /\ FileAtRest
    BY DEF TaskInit, SaveInProgress, FileAtRest
  <1> QED
    BY <1>1, <1>2 DEF TaskInv

\* An update that was looked up is one that can be stored.
LEMMA LookUpType ==
    ASSUME TaskTypeOK, NEW c \in Connections, NEW id \in TaskIds, NEW given \in Request,
           LookUpExisting(c, id, given)
    PROVE  call' \in [Connections -> UpdateCall \cup {NoCall}]
  <1>1. tasks[id] \in Task
    BY TableForm DEF TaskTypeOK, LookUpExisting
  <1>2. Merge(tasks[id], given) \in Task
    BY <1>1 DEF Merge, Task, Request
  <1>3. [id |-> id, given |-> given, task |-> Merge(tasks[id], given)] \in UpdateCall
    BY <1>2 DEF UpdateCall
  <1> QED
    BY <1>3 DEF LookUpExisting, TaskTypeOK

\* What requests do: the process runs, the file is left alone, and tasks stay
\* a table.
LEMMA HandleStep ==
    ASSUME TaskTypeOK, NEW c \in Connections, Handle(c)
    PROVE  /\ proc = "up"
           /\ UNCHANGED <<proc, file, last_saved>>
           /\ tasks' \in Table
           /\ call' \in [Connections -> UpdateCall \cup {NoCall}]
  <1> USE DEF MutexFree
  <1>1. CASE UpdateTask(c)
    <2>1. call[c] \in UpdateCall
      BY <1>1 DEF UpdateTask, TaskTypeOK
    <2>2. StoreExisting(call[c].id, call[c].task) \in Table
      BY <2>1, WithIsTable DEF StoreExisting, UpdateCall, TaskTypeOK
    <2> QED
      BY <1>1, <2>2 DEF UpdateTask, TaskTypeOK
  <1>2. ASSUME NEW id \in TaskIds, HandleDeleteTask(c, id)
        PROVE  tasks' \in Table
    <2>1. DOMAIN tasks' = DOMAIN tasks \ {id}
      BY <1>2 DEF HandleDeleteTask
    <2>2. tasks' \in [DOMAIN tasks' -> Task]
      BY <1>2, TableForm DEF HandleDeleteTask, TaskTypeOK
    <2>3. DOMAIN tasks \subseteq TaskIds
      BY TableForm DEF TaskTypeOK
    <2>4. DOMAIN tasks' \subseteq TaskIds
      BY <2>1, <2>3
    <2> QED
      BY <2>2, <2>4, TableForm
  <1>3. ASSUME NEW id \in TaskIds, NEW task \in Task, HandleCreateTask(c, id, task)
        PROVE  tasks' \in Table
    BY <1>3, WithIsTable DEF HandleCreateTask, TaskTypeOK
  <1>4. ASSUME NEW id \in TaskIds, NEW given \in Request, LookUpExisting(c, id, given)
        PROVE  /\ tasks' \in Table
               /\ call' \in [Connections -> UpdateCall \cup {NoCall}]
    BY <1>4, LookUpType DEF LookUpExisting, TaskTypeOK
  <1> QED
    BY <1>1, <1>2, <1>3, <1>4
       DEF Handle, HandleDeleteTask, HandleCreateTask, LookUpExisting, TaskTypeOK

\* Writing an entry keeps the file a part of the table.
LEMMA WriteEntryStep ==
    ASSUME TaskInv, NEW id \in TaskIds, WriteEntry(id)
    PROVE  /\ file'.count = file.count
           /\ file'.table \in Table
           /\ PartOf(file'.table, tasks)
  <1>1. PartOf(file.table, tasks)
    BY DEF TaskInv, SaveInProgress, WriteEntry
  <1>2. /\ file'.count = file.count
        /\ file'.table = [k \in DOMAIN file.table \cup {id} |-> tasks[k]]
    BY DEF WriteEntry, TaskInv, TaskTypeOK
  <1>3. id \in DOMAIN tasks
    BY DEF WriteEntry
  <1>4. DOMAIN tasks \subseteq TaskIds /\ tasks \in [DOMAIN tasks -> Task]
    BY TableForm DEF TaskInv, TaskTypeOK
  <1>5. PartOf(file'.table, tasks)
    BY <1>1, <1>2, <1>3 DEF PartOf
  <1>6. DOMAIN file'.table \subseteq TaskIds
    BY <1>4, <1>5 DEF PartOf
  <1>7. file'.table \in [DOMAIN file'.table -> Task]
    BY <1>1, <1>2, <1>3, <1>4 DEF PartOf
  <1> QED
    BY <1>2, <1>5, <1>6, <1>7, TableForm

\* Going down leaves no task and no call.
LEMMA ExitType ==
    ASSUME Exit
    PROVE  /\ proc' = "down"
           /\ tasks' \in Table
           /\ call' \in [Connections -> UpdateCall \cup {NoCall}]
           /\ \A c \in Connections : call'[c] = NoCall
  BY EmptyIsTable DEF Exit

\* While the process saves, a file with as many entries as it counts is the
\* table.
LEMMA SavedFile ==
    ASSUME TaskInv, proc = "saving", Whole(file)
    PROVE  file.table = tasks
  <1>1. /\ file.table \in Table
        /\ tasks \in Table
        /\ PartOf(file.table, tasks)
        /\ file.count = Unwritten \/ file.count = Cardinality(DOMAIN tasks)
    BY DEF TaskInv, TaskTypeOK, SaveInProgress
  <1>2. Cardinality(DOMAIN file.table) \in Nat
    BY <1>1, CountOfTable
  <1>3. Cardinality(DOMAIN file.table) = Cardinality(DOMAIN tasks)
    BY <1>1, <1>2 DEF Whole, Unwritten
  <1> QED
    BY <1>1, <1>3, WholePart

\* The inductive step, one case per action.
LEMMA TaskInvStep == TaskInv /\ [TaskNext]_taskVars => TaskInv'
  <1> SUFFICES ASSUME TaskInv, [TaskNext]_taskVars PROVE TaskInv'
    OBVIOUS
  <1> TaskTypeOK /\ SaveInProgress /\ FileAtRest
    BY DEF TaskInv
  <1>1. ASSUME NEW c \in Connections, Handle(c) PROVE TaskInv'
    <2>1. /\ proc = "up" /\ UNCHANGED <<proc, file, last_saved>>
          /\ tasks' \in Table
          /\ call' \in [Connections -> UpdateCall \cup {NoCall}]
      BY <1>1, HandleStep
    <2>2. TaskTypeOK'
      BY <2>1 DEF TaskTypeOK
    <2>3. SaveInProgress' /\ FileAtRest'
      BY <2>1 DEF SaveInProgress, FileAtRest, Whole
    <2> QED
      BY <2>2, <2>3 DEF TaskInv
  <1>2. CASE LoadFromFile
    BY <1>2 DEF LoadFromFile, TaskInv, TaskTypeOK, SaveInProgress, FileAtRest, Whole
  <1>3. CASE LoadTornFile
    BY <1>3 DEF LoadTornFile, TaskInv, TaskTypeOK, SaveInProgress, FileAtRest, Whole
  <1>4. CASE Stop
    <2>1. /\ proc' = "saving" /\ file' = Truncated /\ last_saved' = tasks
          /\ tasks' = tasks /\ call' = call /\ proc = "up"
      BY <1>4 DEF Stop
    <2>2. PartOf(Empty, tasks)
      BY DEF PartOf, Empty
    <2>3. TaskTypeOK'
      BY <2>1, EmptyIsTable DEF TaskTypeOK, Truncated
    <2>4. SaveInProgress' /\ FileAtRest'
      BY <2>1, <2>2 DEF SaveInProgress, FileAtRest, Truncated
    <2> QED
      BY <2>3, <2>4 DEF TaskInv
  <1>5. CASE WriteCount
    <2>1. /\ file'.count = Cardinality(DOMAIN tasks)
          /\ file'.table = file.table
          /\ proc = "saving" /\ UNCHANGED <<proc, tasks, call, last_saved>>
      BY <1>5 DEF WriteCount, TaskTypeOK
    <2>2. Cardinality(DOMAIN tasks) \in Nat
      BY CountOfTable DEF TaskTypeOK
    <2>3. TaskTypeOK'
      BY <2>1, <2>2 DEF TaskTypeOK
    <2>4. SaveInProgress' /\ FileAtRest'
      BY <2>1 DEF SaveInProgress, FileAtRest
    <2> QED
      BY <2>3, <2>4 DEF TaskInv
  <1>6. ASSUME NEW id \in TaskIds, WriteEntry(id) PROVE TaskInv'
    <2>1. /\ file'.count = file.count /\ file'.table \in Table
          /\ PartOf(file'.table, tasks)
      BY <1>6, WriteEntryStep
    <2>2. proc = "saving" /\ UNCHANGED <<proc, tasks, call, last_saved>>
      BY <1>6 DEF WriteEntry
    <2>3. TaskTypeOK'
      BY <2>1, <2>2 DEF TaskTypeOK
    <2>4. SaveInProgress' /\ FileAtRest'
      BY <2>1, <2>2 DEF SaveInProgress, FileAtRest
    <2> QED
      BY <2>3, <2>4 DEF TaskInv
  <1>7. CASE Exit /\ UNCHANGED <<file, last_saved>>
    <2>1. TaskTypeOK'
      BY <1>7, ExitType DEF TaskTypeOK
    <2>2. Whole(file) => file.table = last_saved
      BY SavedFile DEF SaveInProgress, FileAtRest
    <2>3. SaveInProgress' /\ FileAtRest'
      BY <1>7, <2>2 DEF Exit, SaveInProgress, FileAtRest, Whole
    <2> QED
      BY <2>1, <2>3 DEF TaskInv
  <1>8. CASE UNCHANGED taskVars
    BY <1>8 DEF taskVars, TaskInv, TaskTypeOK, SaveInProgress, FileAtRest, Whole
  <1> QED
    BY <1>1, <1>2, <1>3, <1>4, <1>5, <1>6, <1>7, <1>8
       DEF TaskNext, SaveToFile, CloseFile, Crash

-----------------------------------------------------------------------------
(* The theorems *)

\* The inductive invariant holds throughout.
THEOREM TaskInvariant == TaskSpec => []TaskInv
  BY TaskInvInit, TaskInvStep, PTL DEF TaskSpec

\* Tables and calls keep their types, and no call outlives its process.
THEOREM TaskTypeCorrect == TaskSpec => []TaskTypeOK
  BY TaskInvariant, PTL DEF TaskInv

\* A file that loads cleanly is the table at the last stop, whatever crashed.
THEOREM CrashesDoNotPassForSaves == TaskSpec => []LoadsLastSave
  <1>1. TaskInv => LoadsLastSave
    BY DEF TaskInv, FileAtRest, LoadsLastSave
  <1> QED
    BY <1>1, TaskInvariant, PTL

\* A save that comes to its end leaves a file that loads as the table saved.
THEOREM SavesLoadBack == TaskSpec => SavesAreWhole
  <1>1. ASSUME TaskInv, CloseFile
        PROVE  Whole(file) /\ file.table = tasks
    <2>1. /\ proc = "saving"
          /\ file.count = Cardinality(DOMAIN tasks)
          /\ DOMAIN tasks \subseteq DOMAIN file.table
      BY <1>1 DEF CloseFile, TaskInv, SaveInProgress
    <2>2. DOMAIN file.table = DOMAIN tasks
      BY <1>1, <2>1 DEF TaskInv, SaveInProgress, PartOf
    <2>3. Whole(file)
      BY <2>1, <2>2 DEF Whole
    <2> QED
      BY <1>1, <2>1, <2>3, SavedFile
  <1> QED
    BY <1>1, TaskInvariant, PTL DEF SavesAreWhole

\* No update brings a deleted task back.
THEOREM UpdatesDoNotRevive == TaskSpec => DeletedStaysDeleted
  <1> DEFINE Kept == \A c \in Connections : call[c] # NoCall /\ call'[c] = NoCall =>
                       DOMAIN tasks' \subseteq DOMAIN tasks
  <1>1. ASSUME TaskTypeOK, TaskNext PROVE Kept
    <2> SUFFICES ASSUME NEW c \in Connections, call[c] # NoCall, call'[c] = NoCall
                 PROVE  DOMAIN tasks' \subseteq DOMAIN tasks
      OBVIOUS
    <2>1. ASSUME NEW d \in Connections, UpdateTask(d)
          PROVE  DOMAIN tasks' \subseteq DOMAIN tasks
      <3>1. call[d] \in UpdateCall
        BY <1>1, <2>1 DEF UpdateTask, TaskTypeOK
      <3>2. tasks' = StoreExisting(call[d].id, call[d].task)
        BY <2>1 DEF UpdateTask
      <3>3. call[d].id \in TaskIds /\ call[d].task \in Task /\ tasks \in Table
        BY <1>1, <3>1 DEF UpdateCall, TaskTypeOK
      <3>4. DOMAIN With(call[d].id, call[d].task) = DOMAIN tasks \cup {call[d].id}
        BY <3>3, WithIsTable
      <3> QED
        BY <3>2, <3>4 DEF StoreExisting
    <2>2. ASSUME NEW d \in Connections, NEW id \in TaskIds, NEW given \in Request,
                 LookUpExisting(d, id, given)
          PROVE  FALSE
      <3>1. c # d
        BY <2>2 DEF LookUpExisting
      <3> QED
        BY <1>1, <2>2, <3>1 DEF LookUpExisting, TaskTypeOK
    <2>3. ASSUME Exit PROVE DOMAIN tasks' \subseteq DOMAIN tasks
      BY <2>3 DEF Exit, Empty
    <2>4. ASSUME UNCHANGED call PROVE FALSE
      BY <2>4
    <2> QED
      BY <1>1, <2>1, <2>2, <2>3, <2>4
         DEF TaskNext, Handle, HandleCreateTask, HandleDeleteTask, LoadFromFile,
             LoadTornFile, Stop, SaveToFile, WriteCount, WriteEntry, CloseFile, Crash
  <1>2. TaskTypeOK /\ [TaskNext]_taskVars => [Kept]_taskVars
    BY <1>1
  <1> QED
    BY <1>2, TaskTypeCorrect, PTL DEF TaskSpec, DeletedStaysDeleted

-----------------------------------------------------------------------------
(* The webhook example server *)

Event == [id : Nat, from : Clients]

Places ==
    {Accepting, [step |-> "ended"]}
      \cup [step : {"read"}, client : Clients]
      \cup [step : {"write"}, client : Clients, id : Nat, blocked : BOOLEAN]
      \cup [step : {"stream"}, client : Clients, ticks : Nat]

\* The last events, MaxEvents of them if there are as many, in order.
LastOnes(list, next) ==
    /\ next \in Nat \ {0}
    /\ list \in Seq(Event)
    /\ Len(list) = IF next - 1 < MaxEvents THEN next - 1 ELSE MaxEvents
    /\ \A k \in 1..Len(list) : list[k].id = (next - 1 - Len(list)) + k

\* An id that was given to an event of client c.
GivenTo(list, next, i, c) ==
    /\ i \in 1..(next - 1)
    /\ \A k \in 1..Len(list) : list[k].id = i => list[k].from = c

StoreInv ==
    /\ LastOnes(events_, next_id_)
    /\ \A c \in Clients : \A i \in acknowledged[c] : GivenTo(events_, next_id_, i, c)
    /\ (at.step = "write" /\ at.id # 0) => GivenTo(events_, next_id_, at.id, at.client)

ExamplesInv ==
    /\ backlog \in Seq(Clients)
    /\ at \in Places
    /\ acknowledged \in [Clients -> SUBSET Nat]
    /\ StoreInv

\* What EventStore::Add does to the list.
LEMMA AddKeepsLast ==
    ASSUME MaxEvents \in Nat \ {0}, NEW list, NEW next, LastOnes(list, next), NEW e \in Event,
           e.id = next, NEW more, more = Last(Append(list, e))
    PROVE  /\ LastOnes(more, next + 1)
           /\ \A c \in Clients : \A i : GivenTo(list, next, i, c) => GivenTo(more, next + 1, i, c)
           /\ GivenTo(more, next + 1, next, e.from)
  <1> DEFINE n == Len(list)
             long == Append(list, e)
  <1>1. /\ next \in Nat \ {0} /\ list \in Seq(Event) /\ n \in Nat
        /\ n = IF next - 1 < MaxEvents THEN next - 1 ELSE MaxEvents
        /\ \A k \in 1..n : list[k].id = (next - 1 - n) + k
    BY LenProperties DEF LastOnes
  <1>2. /\ long \in Seq(Event) /\ Len(long) = n + 1
        /\ \A k \in 1..n : long[k] = list[k]
        /\ long[n + 1] = e
    BY <1>1, AppendProperties
  <1>3. /\ Len(Tail(long)) = n /\ Tail(long) \in Seq(Event)
        /\ \A k \in 1..n : Tail(long)[k] = long[k + 1]
    <2> HIDE DEF long, n
    <2>1. long \in Seq(Event) /\ Len(long) = n + 1 /\ n \in Nat
      BY <1>1, <1>2
    <2>2. long # << >>
      BY <2>1, EmptySeq
    <2>3. /\ Tail(long) \in Seq(Event)
          /\ Len(Tail(long)) = Len(long) - 1
          /\ \A k \in 1..Len(Tail(long)) : Tail(long)[k] = long[k + 1]
      BY <2>1, <2>2, HeadTailProperties
    <2> QED
      BY <2>1, <2>3
  <1> HIDE DEF long, n
  <1>4. \A k \in 1..(n + 1) : /\ long[k].id = (next - 1 - n) + k
                              /\ long[k] = e \/ \E l \in 1..n : long[k] = list[l]
    <2>1. long[n + 1].id = (next - 1 - n) + (n + 1)
      BY <1>1, <1>2
    <2>2. \A k \in 1..(n + 1) : k = n + 1 \/ k \in 1..n
      BY <1>1
    <2>3. \A k \in 1..n : long[k].id = (next - 1 - n) + k
      BY <1>1, <1>2
    <2>4. \A k \in 1..(n + 1) : long[k].id = (next - 1 - n) + k
      BY <2>1, <2>2, <2>3
    <2>5. \A k \in 1..(n + 1) : long[k] = e \/ \E l \in 1..n : long[k] = list[l]
      BY <1>2, <2>2
    <2> QED
      BY <2>4, <2>5
  <1>5. PICK M : M = Len(more)
    OBVIOUS
  <1>6. /\ more \in Seq(Event) /\ M \in Nat
        /\ M = IF next < MaxEvents THEN next ELSE MaxEvents
        /\ \A k \in 1..M : /\ more[k].id = (next - M) + k
                           /\ more[k] = e \/ \E l \in 1..n : more[k] = list[l]
    <2>1. CASE n < MaxEvents
      <3>1. more = long /\ n = next - 1
        BY <1>1, <1>2, <2>1 DEF Last, long
      <3>2. M = n + 1 /\ M = IF next < MaxEvents THEN next ELSE MaxEvents
        BY <1>1, <1>2, <1>5, <2>1, <3>1
      <3>3. \A k \in 1..M : k \in 1..(n + 1) /\ (next - 1 - n) + k = (next - M) + k
        BY <1>1, <3>2
      <3> QED
        BY <1>1, <1>2, <1>4, <3>1, <3>2, <3>3
    <2>2. CASE ~(n < MaxEvents)
      <3>1. more = Tail(long) /\ n = MaxEvents /\ next - 1 >= MaxEvents
        BY <1>1, <1>2, <2>2 DEF Last, long
      <3>2. M = n /\ M = IF next < MaxEvents THEN next ELSE MaxEvents
        BY <1>1, <1>3, <1>5, <3>1
      <3>3. \A k \in 1..M : k + 1 \in 1..(n + 1) /\ more[k] = long[k + 1]
        BY <1>1, <1>3, <3>1, <3>2
      <3>4. \A k \in 1..M : (next - 1 - n) + (k + 1) = (next - M) + k
        BY <1>1, <3>2
      <3> QED
        BY <1>1, <1>3, <1>4, <3>1, <3>2, <3>3, <3>4
    <2> QED
      BY <2>1, <2>2
  <1>7. LastOnes(more, next + 1)
    BY <1>1, <1>5, <1>6 DEF LastOnes
  <1>8. ASSUME NEW c \in Clients, NEW i, GivenTo(list, next, i, c)
        PROVE  GivenTo(more, next + 1, i, c)
    <2>1. i \in 1..((next + 1) - 1) /\ i # next
      BY <1>1, <1>8 DEF GivenTo
    <2>2. ASSUME NEW k \in 1..M, more[k].id = i PROVE more[k].from = c
      <3>1. more[k] # e
        BY <2>1, <2>2
      <3>2. PICK l \in 1..n : more[k] = list[l]
        BY <1>6, <3>1
      <3> QED
        BY <1>8, <2>2, <3>2 DEF GivenTo, n
    <2> QED
      BY <1>5, <2>1, <2>2 DEF GivenTo
  <1>9. GivenTo(more, next + 1, next, e.from)
    <2>1. \A l \in 1..n : list[l].id # next
      BY <1>1
    <2>2. next \in 1..((next + 1) - 1)
      BY <1>1
    <2>3. ASSUME NEW k \in 1..M, more[k].id = next PROVE more[k] = e
      BY <1>6, <2>1, <2>3
    <2> QED
      BY <1>5, <2>2, <2>3 DEF GivenTo
  <1> QED
    BY <1>7, <1>8, <1>9

LEMMA ExamplesStart ==
    ASSUME Init
    PROVE  ExamplesInv
  BY EmptySeq, ExampleAssumption
     DEF Init, ExampleAssumption, Accepting, ExamplesInv, StoreInv, LastOnes, Places

LEMMA IncomingHolds ==
    ASSUME ExamplesInv, Incoming
    PROVE  ExamplesInv'
  <1>1. MaxEvents \in Nat \ {0}
    BY ExampleAssumption DEF ExampleAssumption
  <1>2. /\ at.client \in Clients /\ at.step = "read"
        /\ at' = [step |-> "write", client |-> at.client, id |-> next_id_, blocked |-> FALSE]
        /\ next_id_' = next_id_ + 1 /\ UNCHANGED <<backlog, acknowledged>>
    BY DEF Incoming, Read, Answer, ExamplesInv, Places, Accepting
  <1>3. PICK e : e = [id |-> next_id_, from |-> at.client]
    OBVIOUS
  <1>4. next_id_ \in Nat \ {0} /\ LastOnes(events_, next_id_)
    BY DEF ExamplesInv, StoreInv, LastOnes
  <1>5. e \in Event /\ e.id = next_id_ /\ e.from = at.client
    BY <1>2, <1>3, <1>4 DEF Event
  <1>6. events_' = Last(Append(events_, e))
    BY <1>3 DEF Incoming
  <1>7. PICK more : more = events_'
    OBVIOUS
  <1>8. more = Last(Append(events_, e))
    BY <1>6, <1>7
  <1>9. /\ LastOnes(more, next_id_ + 1)
        /\ \A c \in Clients : \A i : GivenTo(events_, next_id_, i, c) => GivenTo(more, next_id_ + 1, i, c)
        /\ GivenTo(more, next_id_ + 1, next_id_, e.from)
    BY <1>1, <1>4, <1>5, <1>8, AddKeepsLast
  <1>10. StoreInv'
    BY <1>2, <1>5, <1>7, <1>9 DEF ExamplesInv, StoreInv
  <1>11. at' \in Places
    BY <1>2, <1>4 DEF Places
  <1> QED
    BY <1>2, <1>10, <1>11 DEF ExamplesInv

LEMMA WriteAnswerHolds ==
    ASSUME ExamplesInv, WriteAnswer
    PROVE  ExamplesInv'
  <1>1. /\ at.step = "write" /\ at.client \in Clients /\ at.id \in Nat
        /\ at' = Accepting /\ UNCHANGED <<backlog, events_, next_id_>>
    BY DEF WriteAnswer, EndSession, ExamplesInv, Places, Accepting, store
  <1>2. /\ acknowledged' \in [Clients -> SUBSET Nat]
        /\ \A c \in Clients : \A i \in acknowledged'[c] :
             i \in acknowledged[c] \/ (c = at.client /\ i = at.id /\ at.id # 0)
    BY <1>1 DEF WriteAnswer, ExamplesInv
  <1>3. StoreInv'
    BY <1>1, <1>2 DEF ExamplesInv, StoreInv, Accepting
  <1> QED
    BY <1>1, <1>2, <1>3 DEF ExamplesInv, Places

\* The id that an answer carries, if it does, was carried before.
NoNewId ==
    at'.step = "write" =>
      \/ at'.id = 0
      \/ at.step = "write" /\ at'.id = at.id /\ at'.client = at.client

\* The other steps leave the store and what was acknowledged alone.
LEMMA QuietHolds ==
    ASSUME ExamplesInv, UNCHANGED <<events_, next_id_, acknowledged>>, at' \in Places,
           backlog' \in Seq(Clients), NoNewId
    PROVE  ExamplesInv'
  BY DEF ExamplesInv, StoreInv, NoNewId

LEMMA ExamplesStep ==
    ASSUME ExamplesInv, [Next]_vars
    PROVE  ExamplesInv'
  <1>0. at \in Places /\ backlog \in Seq(Clients)
    BY DEF ExamplesInv
  <1>1. CASE UNCHANGED vars
    BY <1>0, <1>1, QuietHolds DEF NoNewId, vars, store
  <1>2. ASSUME NEW c \in Clients, Connect(c) \/ Send(c) \/ HangUp(c)
        PROVE  ExamplesInv'
    <2>1. UNCHANGED <<events_, next_id_, acknowledged, at>>
      BY <1>2 DEF Connect, Send, HangUp, store
    <2>2. backlog' \in Seq(Clients)
      BY <1>0, <1>2, AppendProperties DEF Connect, Send, HangUp
    <2> QED
      BY <1>0, <2>1, <2>2, QuietHolds DEF NoNewId
  <1>3. CASE Accept
    <2>1. Head(backlog) \in Clients /\ Tail(backlog) \in Seq(Clients)
      BY <1>0, <1>3, HeadTailProperties DEF Accept
    <2>2. /\ UNCHANGED <<events_, next_id_, acknowledged>> /\ backlog' = Tail(backlog)
          /\ at' = [step |-> "read", client |-> Head(backlog)]
      BY <1>3 DEF Accept, store
    <2>3. at' \in Places /\ at'.step # "write"
      BY <2>1, <2>2 DEF Places
    <2> QED
      BY <2>1, <2>2, <2>3, QuietHolds DEF NoNewId
  <1>4. CASE Incoming
    BY <1>4, IncomingHolds
  <1>5. CASE WriteAnswer
    BY <1>5, WriteAnswerHolds
  <1>6. CASE ReadFails \/ EndStream \/ WriteTickFails \/ AcceptFails
    <2>1. /\ UNCHANGED <<events_, next_id_, acknowledged, backlog>>
          /\ at' = Accepting \/ at' = [step |-> "ended"]
      BY <1>6 DEF ReadFails, EndStream, WriteTickFails, AcceptFails, EndSession, store
    <2>2. at' \in Places /\ at'.step # "write"
      BY <2>1 DEF Places, Accepting
    <2> QED
      BY <1>0, <2>1, <2>2, QuietHolds DEF NoNewId
  <1>7. CASE ListEvents \/ OtherRequest
    <2>1. UNCHANGED <<events_, next_id_, acknowledged, backlog>>
      BY <1>7 DEF ListEvents, OtherRequest, store
    <2>2. at.step = "read"
      BY <1>7 DEF ListEvents, OtherRequest, Read
    <2>3. at.client \in Clients
      BY <1>0, <2>2 DEF Places, Accepting
    <2>4. PICK b \in BOOLEAN : Answer(0, b)
      BY <1>7 DEF ListEvents, OtherRequest
    <2>5. at' \in Places /\ at'.id = 0
      BY <2>3, <2>4 DEF Answer, Places
    <2>6. backlog' \in Seq(Clients)
      BY <1>0, <2>1
    <2> QED
      BY <2>1, <2>5, <2>6, QuietHolds DEF NoNewId
  <1>8. CASE StartStream \/ WriteTick
    <2>1. /\ UNCHANGED <<events_, next_id_, acknowledged, backlog>> /\ at.client \in Clients
          /\ \E k \in Nat : at' = [step |-> "stream", client |-> at.client, ticks |-> k]
      BY <1>0, <1>8 DEF StartStream, WriteTick, Read, store, Places, Accepting
    <2>2. at' \in Places /\ at'.step # "write"
      BY <2>1 DEF Places
    <2> QED
      BY <1>0, <2>1, <2>2, QuietHolds DEF NoNewId
  <1>9. ASSUME NEW c \in Clients, TakeAnswer(c) PROVE ExamplesInv'
    <2>1. /\ UNCHANGED <<events_, next_id_, acknowledged, backlog>>
          /\ at.step = "write" /\ at' = [at EXCEPT !.blocked = FALSE]
      BY <1>9 DEF TakeAnswer, store
    <2>2. at \in [step : {"write"}, client : Clients, id : Nat, blocked : BOOLEAN]
      BY <1>0, <2>1 DEF Places, Accepting
    <2>3. at' \in Places /\ at'.id = at.id /\ at'.client = at.client
      BY <2>1, <2>2 DEF Places
    <2> QED
      BY <1>0, <2>1, <2>3, QuietHolds DEF NoNewId
  <1> QED
    BY <1>1, <1>2, <1>3, <1>4, <1>5, <1>6, <1>7, <1>8, <1>9
       DEF Next, Serve, ReadRequest

LEMMA ListedById ==
    ASSUME ExamplesInv
    PROVE  AcknowledgedEventsListed
  <1>1. /\ MaxEvents \in Nat \ {0} /\ next_id_ \in Nat \ {0} /\ Len(events_) \in Nat
        /\ DOMAIN events_ = 1..Len(events_)
        /\ Len(events_) = IF next_id_ - 1 < MaxEvents THEN next_id_ - 1 ELSE MaxEvents
        /\ \A k \in 1..Len(events_) : /\ events_[k] \in Event
                                      /\ events_[k].id = (next_id_ - 1 - Len(events_)) + k
    BY LenProperties, ElementOfSeq, ExampleAssumption
       DEF ExampleAssumption, ExamplesInv, StoreInv, LastOnes
  <1>2. Len(events_) <= MaxEvents
    BY <1>1
  <1>3. ASSUME NEW c \in Clients, NEW i \in acknowledged[c]
        PROVE  (\E k \in DOMAIN events_ : events_[k] = [id |-> i, from |-> c])
                 <=> next_id_ - i <= MaxEvents
    <2>1. /\ i \in 1..(next_id_ - 1)
          /\ \A k \in 1..Len(events_) : events_[k].id = i => events_[k].from = c
      BY <1>3 DEF ExamplesInv, StoreInv, GivenTo
    <2>2. ASSUME next_id_ - i <= MaxEvents
          PROVE  \E k \in DOMAIN events_ : events_[k] = [id |-> i, from |-> c]
      <3>1. PICK k \in Int : k = i - (next_id_ - 1 - Len(events_))
        BY <1>1, <2>1
      <3>2. k \in 1..Len(events_)
        BY <1>1, <2>1, <2>2, <3>1
      <3>3. events_[k].id = i /\ events_[k].from = c /\ events_[k] \in Event
        BY <1>1, <2>1, <3>1, <3>2
      <3> QED
        BY <1>1, <3>2, <3>3 DEF Event
    <2>3. ASSUME NEW k \in DOMAIN events_, events_[k] = [id |-> i, from |-> c]
          PROVE  next_id_ - i <= MaxEvents
      <3>1. i = (next_id_ - 1 - Len(events_)) + k /\ k \in 1..Len(events_)
        BY <1>1, <2>3
      <3> QED
        BY <1>1, <1>2, <2>1, <3>1
    <2> QED
      BY <2>2, <2>3
  <1> QED
    BY <1>2, <1>3 DEF AcknowledgedEventsListed

\* An event whose id a client got is listed for as long as it is among the last
\* of them, and only then, for stores of every size and any number of clients,
\* whoever hangs up meanwhile (EventStore, HandleRequest).
THEOREM AcknowledgedAreListed == Spec => []AcknowledgedEventsListed
  <1>1. Init => ExamplesInv
    BY ExamplesStart
  <1>2. ExamplesInv /\ [Next]_vars => ExamplesInv'
    BY ExamplesStep
  <1>3. ExamplesInv => AcknowledgedEventsListed
    BY ListedById
  <1> QED
    BY <1>1, <1>2, <1>3, PTL DEF Spec

=============================================================================
