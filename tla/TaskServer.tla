----------------------------- MODULE TaskServer ------------------------------
(* The SOAP task server: SOAPServer's handlers over TaskManager, and the file *)
(* the tasks are kept in while the process is down.                           *)
(*                                                                            *)
(* Every connection has a thread of its own, so handlers of different clients *)
(* overlap.  A TaskManager method holds tasksMutex and is one step, except    *)
(* SaveToFile, which a crash can interrupt: the destructor writes the file    *)
(* entry by entry, with the mutex held.  A request that is refused, and       *)
(* GetTask, change nothing.  Detached threads may still call the manager      *)
(* while it is destroyed; the file is closed by then, so whatever they do     *)
(* ends with the process.                                                     *)
EXTENDS Integers, FiniteSets

CONSTANTS
    Connections, \* each has a thread of its own
    TaskIds,     \* the task ids clients use
    Fields,      \* Title, Description and Status, or some of them
    Values       \* what the fields may hold

ASSUME TaskAssumption == IsFiniteSet(TaskIds)

VARIABLES
    proc,        \* the server process: "down", "up", or "saving" on its way down
    tasks,       \* TaskManager::tasks, from ids in use to tasks
    call,        \* each client's UpdateTask request between its two steps
    file,        \* the data file: the count and the entries written after it
    last_saved   \* history variable: the table when the last save began

taskVars == <<proc, tasks, call, file, last_saved>>

Task == [Fields -> Values]
Table == UNION {[ids -> Task] : ids \in SUBSET TaskIds}
Empty == [id \in {} |-> 0]

\* A field left out of an UpdateTask request, or left empty.
NotGiven == "not given"
Request == [Fields -> Values \cup {NotGiven}]

NoCall == [id |-> "none"]
UpdateCall == [id : TaskIds, given : Request, task : Task]

Unwritten == -1
Truncated == [count |-> Unwritten, table |-> Empty]

TaskInit ==
    /\ proc = "down"
    /\ tasks = Empty
    /\ call = [c \in Connections |-> NoCall]
    /\ file = [count |-> 0, table |-> Empty]     \* or no file: both load as none
    /\ last_saved = Empty

-----------------------------------------------------------------------------
(* Requests                                                                   *)

\* Slip: SaveToFile without the lock.
SavingUnlocked == proc \in {"up", "saving"}

\* The manager exists and SaveToFile does not hold tasksMutex.
MutexFree == proc = "up"

With(id, task) == [k \in DOMAIN tasks \cup {id} |-> IF k = id THEN task ELSE tasks[k]]

HandleCreateTask(c, id, task) ==
    /\ MutexFree
    /\ call[c] = NoCall
    /\ id \notin DOMAIN tasks
    /\ tasks' = With(id, task)
    /\ UNCHANGED <<proc, call, file, last_saved>>

\* Slip: what was left out is stored as it came.
AsGiven(existing, given) == given

\* The fields given, and the ones the task had when it was looked up.
Merge(existing, given) ==
    [f \in Fields |-> IF given[f] = NotGiven THEN existing[f] ELSE given[f]]

\* HandleUpdateTask looks the task up ...
LookUpExisting(c, id, given) ==
    /\ MutexFree
    /\ call[c] = NoCall
    /\ id \in DOMAIN tasks
    /\ call' = [call EXCEPT ![c] = [id |-> id, given |-> given,
                                    task |-> Merge(tasks[id], given)]]
    /\ UNCHANGED <<proc, tasks, file, last_saved>>

\* Slip: tasks[id] = task, whether it is there or not.
StoreAnyway(id, task) == With(id, task)

StoreExisting(id, task) == IF id \in DOMAIN tasks THEN With(id, task) ELSE tasks

\* ... and stores what it made of it, unless the task is gone.
UpdateTask(c) ==
    /\ MutexFree
    /\ call[c] # NoCall
    /\ tasks' = StoreExisting(call[c].id, call[c].task)
    /\ call' = [call EXCEPT ![c] = NoCall]
    /\ UNCHANGED <<proc, file, last_saved>>

HandleDeleteTask(c, id) ==
    /\ MutexFree
    /\ call[c] = NoCall
    /\ id \in DOMAIN tasks
    /\ tasks' = [k \in DOMAIN tasks \ {id} |-> tasks[k]]
    /\ UNCHANGED <<proc, call, file, last_saved>>

-----------------------------------------------------------------------------
(* The process and its file                                                   *)

\* Slip: the entries are read to the end of the file, not counted.
ReadToTheEnd(f) == f.count # Unwritten

\* The entries counted in the file are all there.
Whole(f) == f.count = Cardinality(DOMAIN f.table)

LoadFromFile ==
    /\ proc = "down"
    /\ Whole(file)
    /\ proc' = "up"
    /\ tasks' = file.table
    /\ UNCHANGED <<call, file, last_saved>>

\* Reads fail unnoticed, and the count, the lengths and the buffers are used as
\* they happen to be: the process dies and stays down, or comes up with what
\* was written and entries that never were.
LoadTornFile ==
    /\ proc = "down"
    /\ ~Whole(file)
    /\ \/ UNCHANGED <<proc, tasks>>
       \/ /\ \E table \in Table :
               DOMAIN file.table \subseteq DOMAIN table /\ tasks' = table
          /\ proc' = "up"
    /\ UNCHANGED <<call, file, last_saved>>

\* SIGINT or SIGTERM: main returns, the destructor saves; the open truncates.
Stop ==
    /\ proc = "up"
    /\ proc' = "saving"
    /\ file' = Truncated
    /\ last_saved' = tasks
    /\ UNCHANGED <<tasks, call>>

WriteCount ==
    /\ proc = "saving"
    /\ file.count = Unwritten
    /\ file' = [file EXCEPT !.count = Cardinality(DOMAIN tasks)]
    /\ UNCHANGED <<proc, tasks, call, last_saved>>

WriteEntry(id) ==
    /\ proc = "saving"
    /\ file.count # Unwritten
    /\ id \in DOMAIN tasks \ DOMAIN file.table
    /\ file' = [file EXCEPT !.table = [k \in DOMAIN @ \cup {id} |-> tasks[k]]]
    /\ UNCHANGED <<proc, tasks, call, last_saved>>

\* The process is gone, with what it had in memory.
Exit ==
    /\ proc' = "down"
    /\ tasks' = Empty
    /\ call' = [c \in Connections |-> NoCall]

CloseFile ==
    /\ proc = "saving"
    /\ file.count # Unwritten
    /\ DOMAIN tasks \subseteq DOMAIN file.table
    /\ Exit
    /\ UNCHANGED <<file, last_saved>>

\* Killed at any moment; or the file cannot be opened for writing.
Crash ==
    /\ proc # "down"
    /\ Exit
    /\ UNCHANGED <<file, last_saved>>

-----------------------------------------------------------------------------

Handle(c) ==
    \/ UpdateTask(c)
    \/ \E id \in TaskIds :
         \/ HandleDeleteTask(c, id)
         \/ \E task \in Task : HandleCreateTask(c, id, task)
         \/ \E given \in Request : LookUpExisting(c, id, given)

SaveToFile ==
    \/ WriteCount
    \/ \E id \in TaskIds : WriteEntry(id)
    \/ CloseFile

TaskNext ==
    \/ \E c \in Connections : Handle(c)
    \/ LoadFromFile
    \/ LoadTornFile
    \/ Stop
    \/ SaveToFile
    \/ Crash

TaskSpec == TaskInit /\ [][TaskNext]_taskVars

-----------------------------------------------------------------------------
(* Properties *)

\* Types; an update in progress is one of a running process.
TaskTypeOK ==
    /\ proc \in {"down", "up", "saving"}
    /\ tasks \in Table
    /\ last_saved \in Table
    /\ file.count \in Nat \cup {Unwritten}
    /\ file.table \in Table
    /\ call \in [Connections -> UpdateCall \cup {NoCall}]
    /\ proc = "down" => \A c \in Connections : call[c] = NoCall

\* A save that is not interrupted leaves a file that loads as the table it
\* saved, although connections are served until the process ends: the count
\* written first is that of the entries written after it.
SavesAreWhole ==
    [][CloseFile => Whole(file) /\ file.table = tasks]_taskVars

\* Whatever crashed in between, a file that loads cleanly holds the tasks there
\* were when the process was last told to stop: a save that was interrupted, or
\* that requests got into, does not pass for one.
LoadsLastSave == proc = "down" /\ Whole(file) => file.table = last_saved

\* An update never brings back a task that was deleted after the update looked
\* it up.
DeletedStaysDeleted ==
    [][\A c \in Connections :
         call[c] # NoCall /\ call'[c] = NoCall =>
           DOMAIN tasks' \subseteq DOMAIN tasks]_taskVars

\* An update keeps the fields it was not given as they are: "Если title не
\* указан, используем существующий" (soap_server.cpp:295).
UpdateKeepsFieldsNotGiven ==
    [][\A c \in Connections, f \in Fields :
         (UpdateTask(c) /\ call[c].id \in DOMAIN tasks
            /\ call[c].given[f] = NotGiven) =>
           tasks'[call[c].id][f] = tasks[call[c].id][f]]_taskVars

=============================================================================
