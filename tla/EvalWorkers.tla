---------------------------- MODULE EvalWorkers -----------------------------
(***************************************************************************)
(* The benchmark run: the shell script starts NumWorkers processes run.py  *)
(* at once and waits for them.  They share no memory; each one lists for   *)
(* itself the tasks that have no result.txt, takes its slice of ITS list,  *)
(* and runs it in order.  The script can be launched again: the results    *)
(* that are there are skipped.                                             *)
(***************************************************************************)
EXTENDS TaskSlices, Sequences, Functions

CONSTANTS NumTasks,     \* tasks of the meta file, in its order
          MaxFailures   \* bound: failures in a behaviour

ASSUME EvalAssumption == NumTasks \in Nat \ {0} /\ MaxFailures \in Nat

Tasks == 1 .. NumTasks

VARIABLES
  done,      \* the tasks whose directory holds a result.txt
  stage,     \* stage[w]: listing, working or ended
  seen,      \* seen[w]: tasks looked at while listing
  listed,    \* listed[w]: all_tasks_test
  next,      \* next[w]: position in listed[w] of the task w is running
  failures,  \* failures so far
  clean      \* nothing has failed since the launch

vars == <<done, stage, seen, listed, next, failures, clean>>

Init ==
  /\ done \in SUBSET Tasks
  /\ stage = [w \in Workers |-> "listing"]
  /\ seen = [w \in Workers |-> 0]
  /\ listed = [w \in Workers |-> <<>>]
  /\ next = [w \in Workers |-> 0]
  /\ failures = 0
  /\ clean = TRUE

-----------------------------------------------------------------------------

End(w) == EndIndex(w, Len(listed[w]))

Running(w) == stage[w] = "working" /\ next[w] <= End(w)

Current(w) == listed[w][next[w]]

\* (Mutant: the task's directory is looked for, not the result in it.)
LookAtDirectory(w) ==
  /\ stage[w] = "listing" /\ seen[w] < NumTasks
  /\ seen' = [seen EXCEPT ![w] = @ + 1]
  /\ LET begun == done \cup {Current(v) : v \in {u \in Workers : Running(u)}}
     IN  listed' = IF seen[w] + 1 \in begun THEN listed
                   ELSE [listed EXCEPT ![w] = Append(@, seen[w] + 1)]
  /\ UNCHANGED <<done, stage, next, failures, clean>>

\* One turn of the listing loop: os.path.exists(result.txt).
LookAt(w) ==
  /\ stage[w] = "listing" /\ seen[w] < NumTasks
  /\ seen' = [seen EXCEPT ![w] = @ + 1]
  /\ listed' = IF seen[w] + 1 \in done THEN listed
               ELSE [listed EXCEPT ![w] = Append(@, seen[w] + 1)]
  /\ UNCHANGED <<done, stage, next, failures, clean>>

TakeSlice(w) ==
  /\ stage[w] = "listing" /\ seen[w] = NumTasks
  /\ next' = [next EXCEPT ![w] = StartIndex(w, Len(listed[w])) + 1]
  /\ stage' = [stage EXCEPT ![w] = "working"]
  /\ UNCHANGED <<done, seen, listed, failures, clean>>

\* run_single_example comes to its end and writes result.txt.
Finish(w) ==
  /\ Running(w)
  /\ done' = done \cup {Current(w)}
  /\ next' = [next EXCEPT ![w] = @ + 1]
  /\ UNCHANGED <<stage, seen, listed, failures, clean>>

Failing ==
  /\ failures < MaxFailures
  /\ failures' = failures + 1
  /\ clean' = FALSE

\* `except Exception` logs what run_single_example raised and goes on.
TaskError(w) ==
  /\ Running(w)
  /\ Failing
  /\ next' = [next EXCEPT ![w] = @ + 1]
  /\ UNCHANGED <<done, stage, seen, listed>>

\* The exit(0) of the environment (no screenshot, no code file, no answer of
\* the script) is no Exception: the worker ends with its whole slice.
Exit(w) ==
  /\ Running(w)
  /\ Failing
  /\ stage' = [stage EXCEPT ![w] = "ended"]
  /\ UNCHANGED <<done, seen, listed, next>>

Ended(w) ==
  /\ stage[w] = "working" /\ next[w] > End(w)
  /\ stage' = [stage EXCEPT ![w] = "ended"]
  /\ UNCHANGED <<done, seen, listed, next, failures, clean>>

\* The script's `wait` is over and somebody launches it again.
Relaunch ==
  /\ \A w \in Workers : stage[w] = "ended"
  /\ done # Tasks
  /\ stage' = [w \in Workers |-> "listing"]
  /\ seen' = [w \in Workers |-> 0]
  /\ listed' = [w \in Workers |-> <<>>]
  /\ next' = [w \in Workers |-> 0]
  /\ clean' = TRUE
  /\ UNCHANGED <<done, failures>>

Worker(w) ==
  \/ LookAt(w)
  \/ TakeSlice(w)
  \/ Finish(w)
  \/ TaskError(w)
  \/ Exit(w)
  \/ Ended(w)

Next == Relaunch \/ \E w \in Workers : Worker(w)

Spec == Init /\ [][Next]_vars

\* The processes run, and the script is launched again while results lack.
Fairness == WF_vars(Relaunch) /\ \A w \in Workers : WF_vars(Worker(w))

FairSpec == Spec /\ Fairness

-----------------------------------------------------------------------------

TypeOK ==
  /\ done \subseteq Tasks
  /\ stage \in [Workers -> {"listing", "working", "ended"}]
  /\ seen \in [Workers -> 0 .. NumTasks]
  /\ listed \in [Workers -> Seq(Tasks)]
  /\ next \in [Workers -> 0 .. NumTasks + 1]
  /\ failures \in 0 .. MaxFailures
  /\ clean \in BOOLEAN

\* What w has still to do.
Pending(w) ==
  IF stage[w] = "working" THEN {listed[w][i] : i \in next[w] .. End(w)} ELSE {}

(***************************************************************************)
(* Workers that listed the same tasks have none in common, whatever they   *)
(* have done since.                                                        *)
(***************************************************************************)
SameListNoOverlap ==
  \A v, w \in Workers :
    v # w /\ listed[v] = listed[w] => Pending(v) \cap Pending(w) = {}

(***************************************************************************)
(* What has no result is on every list that is complete: no worker can     *)
(* take an unfinished task for a finished one.                             *)
(***************************************************************************)
NothingOverlooked ==
  \A w \in Workers : stage[w] # "listing" => Tasks \ done \subseteq Range(listed[w])

(***************************************************************************)
(* A launch in which nothing failed, and whose workers all listed the same *)
(* tasks, leaves no task without a result.                                 *)
(***************************************************************************)
LaunchComplete ==
  /\ clean
  /\ \A w \in Workers : stage[w] = "ended"
  /\ \A v, w \in Workers : listed[v] = listed[w]
  => done = Tasks

(***************************************************************************)
(* Whatever the workers saw, launching again is enough: with finitely many *)
(* failures every task has a result in the end.                            *)
(***************************************************************************)
AllScored == <>(done = Tasks)

(***************************************************************************)
(* "distribute tasks among workers": no task is run by two workers at the  *)
(* same time.  Each worker slices the list it made itself, and the lists   *)
(* differ when a result appears between two listings.                      *)
(***************************************************************************)
OneWorkerPerTask ==
  \A v, w \in Workers : v # w /\ Running(v) /\ Running(w) => Current(v) # Current(w)
=============================================================================
