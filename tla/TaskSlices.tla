----------------------------- MODULE TaskSlices -----------------------------
(***************************************************************************)
(* How run.py divides the tasks that have no result yet among the workers  *)
(* of one launch: contiguous slices, the first `extra` workers take one    *)
(* task more.  n is len(all_tasks_test); tasks are counted from 1, so the  *)
(* slice all_tasks_test[start_index:end_index] is start + 1 .. end.        *)
(***************************************************************************)
EXTENDS Integers

CONSTANT NumWorkers   \* --num_workers

ASSUME WorkerAssumption == NumWorkers \in Nat \ {0}

Workers == 0 .. NumWorkers - 1

TasksPerWorker(n) == n \div NumWorkers

Extra(n) == n % NumWorkers

StartIndex(w, n) ==
  w * TasksPerWorker(n) + (IF w < Extra(n) THEN w ELSE Extra(n))

\* (Mutant: nobody takes the remainder of the division.)
EndIndexNoExtra(w, n) == StartIndex(w, n) + TasksPerWorker(n)

\* (Mutant: a worker too many takes one task more.)
EndIndexExtraIncluded(w, n) ==
  LET end == StartIndex(w, n) + TasksPerWorker(n) + (IF w <= Extra(n) THEN 1 ELSE 0)
  IN  IF end > n THEN n ELSE end

EndIndex(w, n) ==
  StartIndex(w, n) + TasksPerWorker(n) + (IF w < Extra(n) THEN 1 ELSE 0)
=============================================================================
