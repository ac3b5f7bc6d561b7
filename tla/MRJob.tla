------------------------------- MODULE MRJob -------------------------------
(***************************************************************************)
(* What the MapReduce master promises about its job, as the comments of    *)
(* master.go (src/unnamed/part_000) describe it: the job runs a Map phase, *)
(* then a Reduce phase, then exits; a task of the current phase is         *)
(* completed at most once and stays completed; a phase ends only when all  *)
(* of its tasks are completed.  Task identities are the ids of TaskMeta,   *)
(* one per input file in the Map phase and one per bucket in the Reduce    *)
(* phase.  MRCoordinator and MapReduce are shown to implement it.          *)
(***************************************************************************)
EXTENDS Naturals

CONSTANTS NFiles, NReduce

VARIABLES phase,   \* "Map", "Reduce" or "Exit"
          done     \* the tasks of the current phase that are completed

jobVars == <<phase, done>>

TasksOf(ph) == IF ph = "Map" THEN 0 .. NFiles - 1 ELSE 0 .. NReduce - 1

NextPhase == [Map |-> "Reduce", Reduce |-> "Exit"]

Init ==
    /\ phase = "Map"
    /\ done  = {}

\* A task of the current phase is completed.
Complete(i) ==
    /\ phase # "Exit"
    /\ i \in TasksOf(phase) \ done
    /\ done' = done \cup {i}
    /\ UNCHANGED phase

\* Once every task of the phase is completed, the next phase starts; the
\* Reduce tasks start not completed, and the Exit phase keeps the Reduce
\* tasks completed.
Advance ==
    /\ phase # "Exit"
    /\ done = TasksOf(phase)
    /\ phase' = NextPhase[phase]
    /\ done'  = IF phase' = "Reduce" THEN {} ELSE done

Next == (\E i \in TasksOf(phase) : Complete(i)) \/ Advance

Spec == Init /\ [][Next]_jobVars

=============================================================================
