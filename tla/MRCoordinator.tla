--------------------------- MODULE MRCoordinator ---------------------------
(***************************************************************************)
(* The MapReduce master of src/unnamed/part_000 (package mr, master.go).   *)
(*                                                                         *)
(* All handlers run under the package-global mutex `mu`, so each handler   *)
(* body is one atomic step.  TaskCompleted does NOT merge the result       *)
(* itself: it marks the record Completed and spawns the goroutine          *)
(* processTaskResult, which takes `mu` again later.  The pending           *)
(* goroutines are the bag `pending`; each runs as a step of its own.       *)
(*                                                                         *)
(* TaskQueue is a buffered channel of capacity max(nReduce, len(files));   *)
(* every send happens while `mu` is held and the only receiver            *)
(* (AssignTask) needs `mu`, so a send on a full channel blocks the master  *)
(* forever: `hung`.  A lookup of a missing TaskMeta key dereferences nil   *)
(* inside an RPC goroutine and kills the master process: `panicked`.       *)
(***************************************************************************)
EXTENDS Naturals, Sequences, FiniteSets, SequencesExt, BagsExt

CONSTANTS NFiles,    \* len(files): number of input files, one Map task each
          NReduce    \* nReduce: number of buckets, one Reduce task each

ASSUME NFiles \in Nat /\ NReduce \in Nat \ {0}

MapIds    == 0 .. NFiles - 1
ReduceIds == 0 .. NReduce - 1

\* The intermediate file mr-<mapId>-<reduceId>.
File == MapIds \X ReduceIds

\* MakeMaster: make(chan *Task, max(nReduce, len(files))).
Capacity == IF NReduce > NFiles THEN NReduce ELSE NFiles

\* Task.TaskState values and MasterTaskState values.
Phases   == {"Map", "Reduce", "Exit"}
Statuses == {"Idle", "InProgress", "Completed"}

\* A Task: its phase, its Id and its InterMediates (the files a Reduce
\* task reads, or the files a finished Map task reports).  Input and
\* NReducer are determined by Id and NReduce and are left out.
Task == [phase : Phases \cup {"Wait"}, id : Nat, inter : Seq(File)]

MapTask(i) == [phase |-> "Map", id |-> i, inter |-> <<>>]
WaitTask   == [phase |-> "Wait", id |-> 0, inter |-> <<>>]
ExitTask   == [phase |-> "Exit", id |-> 0, inter |-> <<>>]

VARIABLES queue,     \* Master.TaskQueue, oldest first
          meta,      \* Master.TaskMeta: id -> [status, task] (TaskPtr)
          order,     \* ids InProgress, by StartTime, oldest first
          phase,     \* Master.Phase
          inter,     \* Master.InterMediates: reduceId -> Seq(File)
          pending,   \* bag of tasks whose processTaskResult has not run
          sweeping,  \* the catchTimeOut goroutine has not returned
          hung,      \* a send on the full TaskQueue blocks with mu held
          panicked   \* the master died of a nil TaskMeta dereference

coordVars == <<queue, meta, order, phase, inter, pending, sweeping, hung,
               panicked>>

Halted == hung \/ panicked

Done == phase = "Exit"

\* createMapTask, run by MakeMaster: one Idle record and one queued task
\* per input file, in file order.
CreateMapTask ==
    /\ queue = [k \in 1 .. NFiles |-> MapTask(k - 1)]
    /\ meta  = [i \in MapIds |-> [status |-> "Idle", task |-> MapTask(i)]]

CoordInit ==
    /\ CreateMapTask
    /\ order    = <<>>
    /\ phase    = "Map"
    /\ inter    = [r \in ReduceIds |-> <<>>]
    /\ pending  = EmptyBag
    /\ sweeping = TRUE
    /\ hung     = FALSE
    /\ panicked = FALSE

\* allTaskDone: every record of the current TaskMeta is Completed.
AllTaskDone(m) == \A i \in DOMAIN m : m[i].status = "Completed"

\* The Reduce task createReduceTask builds for bucket r.
ReduceTask(r, buckets) == [phase |-> "Reduce", id |-> r, inter |-> buckets[r]]

\* Mutant of createReduceTask: TaskMeta is not refreshed, so the Map
\* records whose ids are not Reduce ids survive into the Reduce phase.
CreateReduceTaskKeepsMeta(buckets) ==
    IF Len(queue) + NReduce <= Capacity
    THEN /\ queue' = queue \o [k \in 1 .. NReduce |-> ReduceTask(k - 1, buckets)]
         /\ meta'  = [i \in DOMAIN meta \cup ReduceIds |->
                        IF i \in ReduceIds
                        THEN [status |-> "Idle", task |-> ReduceTask(i, buckets)]
                        ELSE meta[i]]
         /\ order' = <<>>
         /\ UNCHANGED hung
    ELSE /\ hung' = TRUE
         /\ UNCHANGED <<queue, meta, order>>

\* Mutant of createReduceTask: the records are built but the tasks are
\* never sent on TaskQueue.
CreateReduceTaskNoPush(buckets) ==
    /\ meta'  = [r \in ReduceIds |-> [status |-> "Idle",
                                      task   |-> ReduceTask(r, buckets)]]
    /\ order' = <<>>
    /\ UNCHANGED <<queue, hung>>

\* createReduceTask: a fresh TaskMeta, and one task per bucket pushed in
\* bucket order.  A push that finds the channel full blocks for ever.
CreateReduceTask(buckets) ==
    IF Len(queue) + NReduce <= Capacity
    THEN /\ queue' = queue \o [k \in 1 .. NReduce |-> ReduceTask(k - 1, buckets)]
         /\ meta'  = [r \in ReduceIds |-> [status |-> "Idle",
                                           task   |-> ReduceTask(r, buckets)]]
         /\ order' = <<>>
         /\ UNCHANGED hung
    ELSE /\ hung' = TRUE
         /\ UNCHANGED <<queue, meta, order>>

(***************************************************************************)
(* AssignTask.  The reply is Head(queue) when the queue is non-empty,      *)
(* else an Exit or Wait pseudo-task.  The popped task's Id is looked up    *)
(* in the current TaskMeta whatever the task's phase.                      *)
(***************************************************************************)
AssignReply ==
    IF queue # <<>> THEN Head(queue)
    ELSE IF phase = "Exit" THEN ExitTask ELSE WaitTask

AssignTask ==
    /\ ~Halted
    /\ \/ /\ queue # <<>>
          /\ Head(queue).id \in DOMAIN meta
          /\ LET i == Head(queue).id
             IN /\ queue' = Tail(queue)
                /\ meta'  = [meta EXCEPT ![i].status = "InProgress"]
                /\ order' = Append(Remove(order, i), i)
          /\ UNCHANGED <<phase, inter, pending, sweeping, hung, panicked>>
       \/ /\ queue # <<>>
          /\ Head(queue).id \notin DOMAIN meta
          /\ panicked' = TRUE
          /\ UNCHANGED <<queue, meta, order, phase, inter, pending, sweeping, hung>>
       \/ /\ queue = <<>>
          /\ UNCHANGED coordVars

\* AssignTask kills the master: the popped task's Id has no TaskMeta entry.
AssignPanics == queue # <<>> /\ Head(queue).id \notin DOMAIN meta

(***************************************************************************)
(* TaskCompleted: ignore a report of another phase or of a record already *)
(* Completed; otherwise mark it Completed and spawn processTaskResult.     *)
(* A report whose phase matches always has its Id in TaskMeta.             *)
(***************************************************************************)
TaskCompleted(t) ==
    /\ ~Halted
    /\ \/ /\ t.phase # phase
          /\ UNCHANGED coordVars
       \/ /\ t.phase = phase
          /\ meta[t.id].status = "Completed"
          /\ UNCHANGED coordVars
       \/ /\ t.phase = phase
          /\ meta[t.id].status # "Completed"
          /\ meta'    = [meta EXCEPT ![t.id].status = "Completed"]
          /\ order'   = Remove(order, t.id)
          /\ pending' = BagAdd(pending, t)
          /\ UNCHANGED <<queue, phase, inter, sweeping, hung, panicked>>

(***************************************************************************)
(* processTaskResult, run by a goroutine once it gets `mu`.  A Map result  *)
(* is appended bucket by bucket; then, if every record of the CURRENT      *)
(* TaskMeta is Completed, the next phase starts.  The task's own phase,    *)
(* not the master's, selects the branch.                                   *)
(***************************************************************************)
Merge(buckets, t) ==
    [r \in ReduceIds |-> IF r < Len(t.inter) THEN Append(buckets[r], t.inter[r + 1])
                                            ELSE buckets[r]]

ProcessMapResult(t) ==
    /\ ~Halted
    /\ t \in BagToSet(pending)
    /\ t.phase = "Map"
    /\ pending' = BagRemove(pending, t)
    /\ inter'   = Merge(inter, t)
    /\ IF AllTaskDone(meta)
       THEN /\ CreateReduceTask(Merge(inter, t))
            \* m.Phase = Reduce runs only if createReduceTask returns.
            /\ phase' = IF hung' THEN phase ELSE "Reduce"
       ELSE UNCHANGED <<queue, meta, order, phase, hung>>
    /\ UNCHANGED <<sweeping, panicked>>

ProcessReduceResult(t) ==
    /\ ~Halted
    /\ t \in BagToSet(pending)
    /\ t.phase = "Reduce"
    /\ pending' = BagRemove(pending, t)
    /\ phase'   = IF AllTaskDone(meta) THEN "Exit" ELSE phase
    /\ UNCHANGED <<queue, meta, order, inter, sweeping, hung, panicked>>

(***************************************************************************)
(* catchTimeOut: one iteration of the loop.  Ages only grow, so the        *)
(* records older than the threshold are the k oldest InProgress ones.      *)
(* They are visited in Go's random map order: each is pushed back and set  *)
(* Idle.  A push on a full channel would block with mu held; the property  *)
(* SweepHasRoom of MapReduce shows the channel always has room for them.   *)
(***************************************************************************)
CatchTimeOutReturn ==
    /\ ~Halted
    /\ sweeping
    /\ phase = "Exit"
    /\ sweeping' = FALSE
    /\ UNCHANGED <<queue, meta, order, phase, inter, pending, hung, panicked>>

\* Mutant of catchTimeOut: the stale task is pushed back but its record
\* is not reset to Idle (it stays InProgress with its old StartTime).
CatchTimeOutNoReset(k) ==
    /\ ~Halted
    /\ sweeping
    /\ phase # "Exit"
    /\ k \in 1 .. Len(order)
    /\ LET stale == ToSet(SubSeq(order, 1, k))
       IN \E visit \in SetToSeqs(stale) :
            queue' = queue \o [j \in 1 .. k |-> meta[visit[j]].task]
    /\ UNCHANGED <<meta, order, phase, inter, pending, sweeping, hung, panicked>>

CatchTimeOut(k) ==
    /\ ~Halted
    /\ sweeping
    /\ phase # "Exit"
    /\ k \in 1 .. Len(order)
    /\ LET stale == ToSet(SubSeq(order, 1, k))
       IN \E visit \in SetToSeqs(stale) :
            /\ queue' = queue \o [j \in 1 .. k |-> meta[visit[j]].task]
            /\ meta'  = [i \in DOMAIN meta |->
                           IF i \in stale THEN [meta[i] EXCEPT !.status = "Idle"]
                                          ELSE meta[i]]
            /\ order' = SubSeq(order, k + 1, Len(order))
    /\ UNCHANGED <<phase, inter, pending, sweeping, hung, panicked>>

=============================================================================
