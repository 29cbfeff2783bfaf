------------------------------ MODULE TaskRun -------------------------------
(***************************************************************************)
(* One task of the benchmark over several launches: run_single_example     *)
(* appends its records to traj.jsonl and writes result.txt, run.py appends *)
(* the errors, and get_index.py reads the file.  run.py looks for          *)
(* result.txt only when it makes its list, so workers whose slices share   *)
(* the task (the run workers_skew shows how) run it one after the other or *)
(* at the same time, into the same file.  An append is one write to a file *)
(* opened for appending: the lines of two processes do not mix.  A process *)
(* can end at any point; one that ends while it appends (a full disk, a    *)
(* host that goes down) can leave a line without its newline, onto which   *)
(* the next append goes.                                                   *)
(***************************************************************************)
EXTENDS Integers, Sequences, SequencesExt

CONSTANTS Runners,    \* worker processes that can have the task in their slice
          MaxSteps,   \* --max_steps
          MaxRuns,    \* bound: runs of the task
          MaxTorn     \* bound: appends that are cut off

ASSUME RunAssumption ==
  MaxSteps \in Nat \ {0} /\ MaxRuns \in Nat \ {0} /\ MaxTorn \in Nat

VARIABLES
  pc,          \* what each process does next with the task
  run,         \* which run of the task it makes
  step,        \* its step_idx
  count,       \* its step_count
  runs,        \* runs of the task so far
  traj,        \* the lines of traj.jsonl
  open,        \* the last line lacks its newline
  result,      \* result.txt exists
  completed,   \* runs that wrote their evaluation record
  overlapped,  \* runs under way at the same time as another
  torn         \* appends cut off so far

vars == <<pc, run, step, count, runs, traj, open, result, completed, overlapped, torn>>

local == <<run, step, count>>

history == <<runs, overlapped>>

Init ==
  /\ pc = [w \in Runners |-> "idle"]
  /\ run = [w \in Runners |-> 0]
  /\ step = [w \in Runners |-> 1] /\ count = [w \in Runners |-> 0]
  /\ runs = 0
  /\ traj = <<>> /\ open = FALSE
  /\ result = FALSE /\ completed = {} /\ overlapped = {}
  /\ torn = 0

-----------------------------------------------------------------------------

Goes(w, p) == pc' = [pc EXCEPT ![w] = p]

\* run_single_example is left, and its variables with it.
Ends(w) ==
  /\ Goes(w, "idle")
  /\ run' = [run EXCEPT ![w] = 0]
  /\ step' = [step EXCEPT ![w] = 1] /\ count' = [count EXCEPT ![w] = 0]

UnderWay(w) == pc[w] \notin {"idle", "listed"}

Beside(w) == {v \in Runners \ {w} : UnderWay(v)}

Line(w, kind, n) == [kind |-> kind, run |-> run[w], n |-> n]

\* Two records on one line, or half a record: json.loads raises.
Broken == [kind |-> "broken", run |-> 0, n |-> 0]

\* f.write(json.dumps(...) + newline)
AppendLine(line) ==
  /\ traj' = IF open THEN Append(Front(traj), Broken) ELSE Append(traj, line)
  /\ open' = FALSE

\* A launch makes its list of the tasks that have no result.txt.
List(w) ==
  /\ pc[w] = "idle" /\ ~ result
  /\ Goes(w, "listed")
  /\ UNCHANGED <<local, history, traj, open, result, completed, torn>>

\* The worker comes to the task, whatever has become of it since: agent.reset,
\* env.reset.
Start(w) ==
  /\ pc[w] = "listed" /\ runs < MaxRuns
  /\ Goes(w, "init")
  /\ runs' = runs + 1
  /\ run' = [run EXCEPT ![w] = runs + 1]
  /\ step' = [step EXCEPT ![w] = 1] /\ count' = [count EXCEPT ![w] = 0]
  /\ overlapped' = overlapped \cup UNION {{run[v], runs + 1} : v \in Beside(w)}
  /\ UNCHANGED <<traj, open, result, completed, torn>>

WriteInit(w) ==
  /\ pc[w] = "init"
  /\ AppendLine(Line(w, "init", 0))
  /\ Goes(w, "step")
  /\ UNCHANGED <<local, history, result, completed, torn>>

\* (Mutant: one step too many.)
LoopEndsLate(s) == s > MaxSteps + 1

\* while step_idx <= max_steps
LoopEnds(s) == s > MaxSteps

\* A step whose terminated is TRUE is known by its record.
StepLine(w, terminated) == Line(w, IF terminated THEN "stop" ELSE "step", step[w])

\* (Mutant: the step is counted before the loop is left.)
StepCountsAll(w) ==
  /\ pc[w] = "step"
  /\ \E terminated \in BOOLEAN :
       /\ AppendLine(StepLine(w, terminated))
       /\ count' = [count EXCEPT ![w] = @ + 1]
       /\ step' = IF terminated THEN step ELSE [step EXCEPT ![w] = @ + 1]
       /\ Goes(w, IF terminated \/ LoopEnds(step'[w]) THEN "evaluate" ELSE "step")
  /\ UNCHANGED <<run, history, result, completed, torn>>

\* The agent answers, the environment steps, the step's record is appended.
\* DONE and FAIL leave the loop before the counters are increased.
Step(w) ==
  /\ pc[w] = "step"
  /\ \E terminated \in BOOLEAN :
       /\ AppendLine(StepLine(w, terminated))
       /\ IF terminated THEN UNCHANGED <<step, count>>
          ELSE step' = [step EXCEPT ![w] = @ + 1] /\ count' = [count EXCEPT ![w] = @ + 1]
       /\ Goes(w, IF terminated \/ LoopEnds(step'[w]) THEN "evaluate" ELSE "step")
  /\ UNCHANGED <<run, history, result, completed, torn>>

\* (Mutant: result.txt is forgotten.)
EvaluateOnly(w) ==
  /\ pc[w] = "evaluate" /\ Goes(w, "record")
  /\ UNCHANGED <<local, history, traj, open, result, completed, torn>>

Evaluate(w) ==
  /\ pc[w] = "evaluate" /\ Goes(w, "result")
  /\ UNCHANGED <<local, history, traj, open, result, completed, torn>>

WriteResult(w) ==
  /\ pc[w] = "result" /\ Goes(w, "record")
  /\ result' = TRUE
  /\ UNCHANGED <<local, history, traj, open, completed, torn>>

\* The evaluation record holds steps_total; it comes after result.txt.
WriteRecord(w) ==
  /\ pc[w] = "record" /\ Ends(w)
  /\ AppendLine(Line(w, "eval", count[w]))
  /\ completed' = completed \cup {run[w]}
  /\ UNCHANGED <<history, result, torn>>

\* Anything raised is caught by run.py and appended.
Raise(w) ==
  /\ UnderWay(w) /\ Ends(w)
  /\ AppendLine(Line(w, "error", 0))
  /\ UNCHANGED <<history, result, completed, torn>>

\* exit(0) of the environment or of the agent, or the process is killed.
Exit(w) ==
  /\ pc[w] # "idle" /\ Ends(w)
  /\ UNCHANGED <<history, traj, open, result, completed, torn>>

\* What the process may be appending.
Appending(w) ==
  {Line(w, "error", 0)} \cup
  {line \in {Line(w, "init", 0)} : pc[w] = "init"} \cup
  {line \in {StepLine(w, FALSE), StepLine(w, TRUE)} : pc[w] = "step"} \cup
  {line \in {Line(w, "eval", count[w])} : pc[w] = "record"}

\* The process ends while it appends a line: half of it is there, or all of
\* it but the newline.
CutOff(w) ==
  /\ UnderWay(w) /\ torn < MaxTorn
  /\ torn' = torn + 1
  /\ traj' \in IF open THEN {Append(Front(traj), Broken)}
               ELSE {Append(traj, line) : line \in Appending(w) \cup {Broken}}
  /\ open' = TRUE
  /\ Ends(w)
  /\ UNCHANGED <<history, result, completed>>

Moves(w) == \/ List(w) \/ Start(w) \/ WriteInit(w) \/ Step(w)
            \/ Evaluate(w) \/ WriteResult(w) \/ WriteRecord(w)
            \/ Raise(w) \/ Exit(w) \/ CutOff(w)

Next == \E w \in Runners : Moves(w)

Spec == Init /\ [][Next]_vars

-----------------------------------------------------------------------------
(***************************************************************************)
(* get_index.py                                                            *)
(***************************************************************************)

Parses == \A i \in DOMAIN traj : traj[i].kind # "broken"

\* (Mutant: the file is taken as it is.)
AllRuns == traj

\* (Mutant: the first run's records are kept.)
FirstRun == SelectSeq(traj, LAMBDA line : line.run = traj[1].run)

\* parse_traj_jsonl: every line with init_timestamp starts again.
LatestRun ==
  LET inits == {i \in DOMAIN traj : traj[i].kind = "init"}
  IN  IF inits = {} THEN traj
      ELSE SubSeq(traj, CHOOSE i \in inits : \A j \in inits : j <= i, Len(traj))

\* main() counts the task: the last record has a result, and there are steps
\* between it and the first.
Counted ==
  /\ traj # <<>>
  /\ Parses
  /\ Last(LatestRun).kind = "eval"
  /\ Len(LatestRun) > 2

\* The run that is counted was alone with the task.
CountedAlone == Counted /\ Last(LatestRun).run \notin overlapped

-----------------------------------------------------------------------------

Lines == [kind : {"init", "step", "stop", "eval", "error", "broken"},
          run : 0 .. MaxRuns, n : 0 .. MaxSteps]

TypeOK ==
  /\ pc \in [Runners -> {"idle", "listed", "init", "step", "evaluate", "result", "record"}]
  /\ run \in [Runners -> 0 .. MaxRuns]
  /\ step \in [Runners -> 1 .. MaxSteps + 1]
  /\ count \in [Runners -> 0 .. MaxSteps]
  /\ runs \in 0 .. MaxRuns
  /\ traj \in Seq(Lines)
  /\ open \in BOOLEAN
  /\ result \in BOOLEAN
  /\ completed \subseteq 1 .. runs
  /\ overlapped \subseteq 1 .. runs
  /\ torn \in 0 .. MaxTorn

(***************************************************************************)
(* What is counted of a task is one run from its first record to its last, *)
(* whatever earlier runs left in the file, wherever they ended, and even   *)
(* when it was listed before they did; provided that no other run of the   *)
(* task was under way at the same time.  Two runs that overlap append      *)
(* between each other's lines, and nothing in the code keeps them apart.   *)
(***************************************************************************)
CountedIsOneRun ==
  CountedAlone =>
    /\ \A i \in DOMAIN LatestRun : LatestRun[i].run = Last(LatestRun).run
    /\ Head(LatestRun).kind = "init"
    /\ \A i \in 2 .. Len(LatestRun) - 1 :
         /\ LatestRun[i].n = i - 1
         /\ \/ LatestRun[i].kind = "step"
            \/ LatestRun[i].kind = "stop" /\ i = Len(LatestRun) - 1

(***************************************************************************)
(* A task that is counted has its result.txt, runs that overlap or not: no *)
(* launch after that has it in its list.                                   *)
(***************************************************************************)
CountedIsFinal == Counted => result

(***************************************************************************)
(* steps_total against the records, of a run that was alone: it is the     *)
(* number of steps, less the one that said DONE or FAIL.                   *)
(***************************************************************************)
StepsTotal ==
  CountedAlone =>
    Len(LatestRun) - 2 =
      Last(LatestRun).n + (IF LatestRun[Len(LatestRun) - 1].kind = "stop" THEN 1 ELSE 0)

(***************************************************************************)
(* The latest run is counted once it came to its end, if no other run was  *)
(* under way at the same time and no line was cut off.  A run that is not  *)
(* the latest can be lost: a worker that listed the task before it ended   *)
(* starts again, and what it writes is read in its place.                  *)
(***************************************************************************)
LatestAloneCounted ==
  runs \in completed \ overlapped /\ torn = 0 => Counted /\ Last(LatestRun).run = runs
=============================================================================
