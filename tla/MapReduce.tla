----------------------------- MODULE MapReduce -----------------------------
(***************************************************************************)
(* The master of MRCoordinator composed with the worker processes of      *)
(* src/unnamed/part_001 (package mr, worker.go) and the local disk they    *)
(* share.  A worker's RPC call is synchronous, so AssignTask and           *)
(* TaskCompleted are joint steps of one worker and the master.             *)
(*                                                                         *)
(* Data is abstracted to provenance: an intermediate file is named by its  *)
(* (mapId, reduceId) and always has the same content (ihash and mapf are   *)
(* deterministic); an output file mr-out-r is represented by the sequence  *)
(* of intermediate files its reducer read, which fixes its content.        *)
(***************************************************************************)
EXTENDS MRCoordinator

CONSTANTS Workers,      \* the worker processes (model values)
          MaxCrashes,   \* bound on worker process deaths
          MaxReclaims,  \* bound on catchTimeOut sweeps that find stale tasks
          NoFile        \* model value: mr-out-<id> does not exist yet

ASSUME Workers # {} /\ MaxCrashes \in Nat /\ MaxReclaims \in Nat

VARIABLES wstate,    \* worker -> [pc, task]: where its Worker loop is
          files,     \* intermediate files renamed into place on disk
          out,       \* reduceId -> contents of mr-out-<id>, or NoFile
          crashes,   \* number of worker deaths so far
          reclaims   \* number of sweeps that reclaimed something so far

workerVars == <<wstate, files, out, crashes, reclaims>>
vars == <<coordVars, workerVars>>

\* "idle": about to call AssignTask; "wait": sleeping after a Wait reply;
\* "map"/"reduce": running the task; "report": about to call
\* TaskCompleted; "exited": returned after an Exit reply; "dead": gone.
PCs == {"idle", "wait", "map", "reduce", "report", "exited", "dead"}

Init ==
    /\ CoordInit
    /\ wstate   = [w \in Workers |-> [pc |-> "idle", task |-> WaitTask]]
    /\ files    = {}
    /\ out      = [r \in ReduceIds |-> NoFile]
    /\ crashes  = 0
    /\ reclaims = 0

\* The loop branch Worker takes on the reply of getTaskFromMaster.
PcFor(t) == CASE t.phase = "Map"    -> "map"
              [] t.phase = "Reduce" -> "reduce"
              [] t.phase = "Wait"   -> "wait"
              [] t.phase = "Exit"   -> "exited"

(***************************************************************************)
(* getTaskFromMaster.  If the master dies inside the call, the call        *)
(* fails, the zero Task is a Map task with Input "" and mapper's ReadFile  *)
(* log.Fatal-s: the worker dies.                                           *)
(***************************************************************************)
GetTaskFromMaster(w) ==
    /\ wstate[w].pc = "idle"
    /\ AssignTask
    /\ wstate' = [wstate EXCEPT ![w] =
                    IF AssignPanics THEN [pc |-> "dead", task |-> WaitTask]
                    ELSE [pc |-> PcFor(AssignReply), task |-> AssignReply]]
    /\ UNCHANGED <<files, out, crashes, reclaims>>

\* case Wait: time.Sleep, then the loop calls AssignTask again.
Sleep(w) ==
    /\ wstate[w].pc = "wait"
    /\ wstate' = [wstate EXCEPT ![w].pc = "idle"]
    /\ UNCHANGED <<coordVars, files, out, crashes, reclaims>>

\* writeToLocalFile: the temp file is renamed to mr-<MapId>-<reduceId>;
\* the path returned names that file.
WriteToLocalFile(mapId, reduceId) == <<mapId, reduceId>>

\* readFromLocalFile succeeds only if every listed file can be opened.
ReadFromLocalFile(fs) == ToSet(fs) \subseteq files

\* Mutant of mapper: the temp files are never renamed to mr-<Id>-<i>.
MapperNoRename(w) ==
    LET t == wstate[w].task
    IN /\ wstate[w].pc = "map"
       /\ wstate' = [wstate EXCEPT ![w] =
                       [pc |-> "report",
                        task |-> [t EXCEPT !.inter =
                                    [k \in 1 .. NReduce |-> <<t.id, k - 1>>]]]]
       /\ UNCHANGED <<coordVars, files, out, crashes, reclaims>>

\* mapper: partition by ihash(key) % NReducer and writeToLocalFile every
\* bucket, temp file then rename to mr-<Id>-<i>; the task now carries the
\* R paths in bucket order.
Mapper(w) ==
    LET t == wstate[w].task
    IN /\ wstate[w].pc = "map"
       /\ files'  = files \cup {WriteToLocalFile(t.id, r) : r \in ReduceIds}
       /\ wstate' = [wstate EXCEPT ![w] =
                       [pc |-> "report",
                        task |-> [t EXCEPT !.inter =
                                    [k \in 1 .. NReduce |-> WriteToLocalFile(t.id, k - 1)]]]]
       /\ UNCHANGED <<coordVars, out, crashes, reclaims>>

\* reducer: readFromLocalFile every listed file (a missing one would be
\* log.Fatal), sort, group, reducef, and rename the temp file to
\* mr-out-<Id>.  The output is fixed by the files read.
Reducer(w) ==
    LET t == wstate[w].task
    IN /\ wstate[w].pc = "reduce"
       /\ ReadFromLocalFile(t.inter)
       /\ out'    = [out EXCEPT ![t.id] = t.inter]
       /\ wstate' = [wstate EXCEPT ![w].pc = "report"]
       /\ UNCHANGED <<coordVars, files, crashes, reclaims>>

\* taskCompleted: the synchronous TaskCompleted call, then the loop.
ReportTask(w) ==
    /\ wstate[w].pc = "report"
    /\ TaskCompleted(wstate[w].task)
    /\ wstate' = [wstate EXCEPT ![w].pc = "idle"]
    /\ UNCHANGED <<files, out, crashes, reclaims>>

\* call: once the master process is gone, rpc.DialHTTP fails and the
\* worker calls os.Exit(0).
CallFails(w) ==
    /\ panicked
    /\ wstate[w].pc \in {"idle", "report"}
    /\ wstate' = [wstate EXCEPT ![w].pc = "dead"]
    /\ UNCHANGED <<coordVars, files, out, crashes, reclaims>>

\* A worker process dies (or hangs for good) at any point of its loop.
WorkerCrash(w) ==
    /\ wstate[w].pc \notin {"exited", "dead"}
    /\ crashes < MaxCrashes
    /\ wstate'  = [wstate EXCEPT ![w].pc = "dead"]
    /\ crashes' = crashes + 1
    /\ UNCHANGED <<coordVars, files, out, reclaims>>

ProcessTaskResult ==
    \E t \in BagToSet(pending) :
        \/ ProcessMapResult(t)
        \/ ProcessReduceResult(t)

\* A catchTimeOut iteration that finds stale tasks: the environment lets
\* at most MaxReclaims such sweeps happen (a worker slower than 10s).
Reclaim ==
    /\ reclaims < MaxReclaims
    /\ \E k \in 1 .. Len(order) : CatchTimeOut(k)
    /\ reclaims' = reclaims + 1
    /\ UNCHANGED <<wstate, files, out, crashes>>

MasterStep ==
    /\ \/ ProcessTaskResult
       \/ CatchTimeOutReturn
    /\ UNCHANGED workerVars

Next ==
    \/ MasterStep
    \/ Reclaim
    \/ \E w \in Workers :
          \/ GetTaskFromMaster(w)
          \/ Sleep(w)
          \/ Mapper(w)
          \/ Reducer(w)
          \/ ReportTask(w)
          \/ CallFails(w)
          \/ WorkerCrash(w)

Fairness ==
    /\ WF_vars(MasterStep)
    /\ \A w \in Workers :
          WF_vars(GetTaskFromMaster(w) \/ Sleep(w) \/ Mapper(w) \/ Reducer(w)
                  \/ ReportTask(w) \/ CallFails(w))

Spec     == Init /\ [][Next]_vars
FairSpec == Spec /\ Fairness


-----------------------------------------------------------------------------
(* Properties *)

TypeOK ==
    /\ queue \in Seq(Task) /\ Len(queue) <= Capacity
    /\ phase \in Phases
    /\ DOMAIN meta = IF phase = "Map" THEN MapIds ELSE ReduceIds
    /\ \A i \in DOMAIN meta : /\ meta[i].status \in Statuses
                              /\ meta[i].task \in Task
                              /\ meta[i].task.id = i
    /\ ToSet(order) = {i \in DOMAIN meta : meta[i].status = "InProgress"}
    /\ Len(order) = Cardinality(ToSet(order))
    /\ inter \in [ReduceIds -> Seq(File)]
    /\ IsABag(pending) /\ BagToSet(pending) \subseteq Task
    /\ {sweeping, hung, panicked} \subseteq BOOLEAN
    /\ wstate \in [Workers -> [pc : PCs, task : Task]]
    /\ files \subseteq File
    /\ out \in [ReduceIds -> Seq(File) \cup {NoFile}]
    /\ crashes \in 0 .. MaxCrashes /\ reclaims \in 0 .. MaxReclaims

\* The files a Map task must have renamed into place before reporting.
MapOutputs(i) == {<<i, r>> : r \in ReduceIds}

(***************************************************************************)
(* Whatever the master has accepted stands on disk: a Completed Map record *)
(* has all R of its intermediate files renamed into place, a Completed     *)
(* Reduce record has its mr-out file, and every file listed in an          *)
(* InterMediates bucket or in a Reduce task that is queued or held by a    *)
(* worker exists, so readFromLocalFile never log.Fatal-s.  It relates the  *)
(* master's bookkeeping to the workers' earlier disk writes across         *)
(* reclaims, duplicate executions and crashes.                             *)
(***************************************************************************)
ResultsOnDisk ==
    /\ \A i \in DOMAIN meta :
          meta[i].status = "Completed" =>
             IF phase = "Map" THEN MapOutputs(i) \subseteq files
                              ELSE out[i] # NoFile
    /\ \A r \in ReduceIds : ToSet(inter[r]) \subseteq files
    /\ \A k \in 1 .. Len(queue) : ToSet(queue[k].inter) \subseteq files
    /\ \A w \in Workers : wstate[w].pc = "reduce" =>
                             ToSet(wstate[w].task.inter) \subseteq files

(***************************************************************************)
(* The tasks queued plus the records InProgress never exceed the channel's *)
(* capacity, so the sends of a catchTimeOut sweep (one per InProgress      *)
(* record it reclaims) never block while mu is held.  It holds because    *)
(* each record is either queued once or InProgress, and a stale task       *)
(* popped in the Reduce phase only trades a queued slot for an InProgress  *)
(* one; it rests on AssignTask popping, the sweep resetting to Idle and    *)
(* TaskCompleted retiring the record.                                      *)
(***************************************************************************)
SweepHasRoom == Len(queue) + Len(order) <= Capacity

(***************************************************************************)
(* The master implements MRJob (spec sections 3 and 4.1): its phase is the *)
(* job's phase and the Completed records of the current TaskMeta are the   *)
(* job's completed tasks.  So Completed is terminal, no phase is skipped,  *)
(* and Map -> Reduce fires exactly once, when every Map record is          *)
(* Completed, building fresh Reduce records; whatever the order of the     *)
(* reports and of the processTaskResult goroutines that take mu later.     *)
(***************************************************************************)
Job == INSTANCE MRJob WITH
           done <- {i \in DOMAIN meta : meta[i].status = "Completed"}

ImplementsJob == Job!Spec

(***************************************************************************)
(* With workers that keep calling and goroutines that eventually get mu,  *)
(* Done() eventually returns true.                                         *)
(***************************************************************************)
Termination == <>Done

(***************************************************************************)
(* When Done() returns true, mr-out-r holds, for every bucket r, the       *)
(* contribution of every Map task exactly once: every key is reduced over *)
(* all of its values (spec section 8, Correctness).                        *)
(***************************************************************************)
ExactBucket(s, r) == Len(s) = NFiles /\ ToSet(s) = {<<m, r>> : m \in MapIds}

OutputCorrectAtDone ==
    Done => \A r \in ReduceIds : out[r] # NoFile /\ ExactBucket(out[r], r)

(***************************************************************************)
(* A Map task's files are appended to the InterMediates matrix only on its *)
(* first accepted report: no bucket lists a file twice (spec section 3).   *)
(***************************************************************************)
MergeAtMostOnce ==
    \A r \in ReduceIds : Len(inter[r]) = Cardinality(ToSet(inter[r]))

(***************************************************************************)
(* The master keeps serving: no send on TaskQueue blocks while mu is held  *)
(* (spec section 9: queue growth must not block producers), and AssignTask *)
(* never dereferences a missing TaskMeta entry, which would kill the       *)
(* master process.  Both follow the stale Map tasks a reclaim leaves       *)
(* queued when the Reduce phase starts.                                    *)
(***************************************************************************)
MasterServes == ~hung /\ ~panicked

=============================================================================
