# A verification development for ComAct

ComAct trains and evaluates agents that write Python scripts for CAD programs.
The scripts run on Windows virtual machines behind a small HTTP server.  This
directory holds TLA+ modules for the program's own logic, configurations for
TLC, and proofs for TLAPS.

* `test/` is the benchmark harness: `run.py`, `lib_run_single.py`, `myenv.py`,
  `agent.py`, `get_index*.py`, and the retrieval of API descriptions in
  `LightRAG/pipeline.py`.
* `train/ms-swift/examples/train/grpo/plugin/my_com/` is the training plugin:
  `mycom_env.py` (machines, queue, HTTP controller) and `com_grpo_plugin.py`
  (multi-turn scheduler and reward).  It is driven by the GRPO trainer of a
  vendored ms-swift, of which the rollout loop is part of the system.

Paths below leave out the `my_com` directory and `swift/` where they are clear.

## 1. Inventory

| component | state | operations | talks to |
|---|---|---|---|
| machine slices and queue (`mycom_env.py` 521-550) | `mycom_envs`, `mycom_env_queue` of each process | filled at import; get, put | scheduler, reward |
| rollout loop (`rollout_mixin.py` 751-930) and scheduler (`com_grpo_plugin.py` 46-138) | `current_turn`, `index_to_infer`, requests with `env_id` and messages | check_finished, step, the collective of each turn | queue, machines, the other processes |
| reward threads (`com_grpo_plugin.py` 150-230) | one thread per sample | search the mark, evaluate, put the machine back | dialogue text, queue, local files |
| controller (`mycom_env.py` 259-518) | files of the machine | clear files, create_file in chunks, execute with retries, get_file, screenshot | HTTP server |
| reward formulas (`mycom_env.py` 148-257, `eval_cd*.py`) | local copies `<id>_gen.stl`; the generator of numpy | write, load, seed, sample, compare, the piecewise reward | files shared by all processes, a generator shared by the threads of one |
| task distribution (`run.py` 343-420, `run_*.sh`) | each process's list; `result.txt` files | list, slice, run, launch again | only the file system |
| one task (`lib_run_single.py` 68-347) | counters, `traj.jsonl`, `result.txt` | init record, steps, evaluation, result, record | agent, environment, files |
| aggregation (`get_index.py`, `get_index_multi_tasks.py`) | none | parse, count, average | `traj.jsonl` |
| test environment (`myenv.py`) | files of the machine | reset, step, exit(0) on failures | HTTP server |
| agent (`agent.py`) | three parallel histories | predict, reset | LLM server |
| retrieval (`LightRAG/pipeline.py`) | embedding cache, result files, the shared list `expected_interfaces` | concurrent searches | LLM server, files |
| asynchronous generation (`rollout_mixin.py` 365-388, 932-994, 1448-1511; `grpo_trainer.py` 1856-1872) | train and eval queues, the executor, `_last_loaded_step`, `eval_flag` | prefetch, submit, done callback, get, synchronise the weights | rollout server |
| rollout server (`pipelines/infer/rollout.py`, `vllm_client.py`) | pipes, the weights and the prefix cache of each worker process | update, reset, infer | trainer, worker processes |

What makes them correct, and what is hard about it:

* **Queue, rollout and reward.**  A machine belongs to one dialogue from the
  moment `step()` takes it until the reward of that dialogue is computed, and
  then it must come back, exactly once.  Taking and returning are far apart: in
  other modules, other threads, and linked only by the text `[ENV_ID:n]` inside
  the dialogue.  `queue.get()` has no timeout, the processes meet in a
  collective on every turn, and a machine that is lost stays lost for the whole
  training.
* **Reward files.**  What is scored is a local copy named by the task id, in a
  directory shared by the threads of all processes.  Group sampling evaluates
  several dialogues of one task at the same time.  A script that was given up
  after 120 s still exports, on a machine that was cleaned meanwhile.
* **Distribution.**  The workers share no memory and each slices a list that it
  made by looking at the disk; failures end a task (an exception) or a whole
  worker (`exit(0)`), and the launch is repeated by hand.
* **Records.**  Several runs of a task append to one `traj.jsonl`;
  `result.txt` decides whether a task is run again, the last records decide
  whether it is counted, and a process can end between the two or inside a line.
  Two workers that have the task in their slices append at the same time.
* **Scripts on a machine.**  One file `pycodes.py` per machine, sent in chunks,
  run by a request that waits for its end.  A request that fails for the client
  may have succeeded, or may still succeed, on the machine; the training side
  ignores failures and retries after a timeout, the tests have no timeout and
  stop the process.
* **Agent.**  Three histories that must stay aligned over calls that fail in
  the middle, and over tasks, since one agent serves a whole slice.
* **Retrieval.**  Coroutines that share one mutable list; files on disk that
  decide what a later launch does again.
* **Asynchronous generation.**  Two threads, two queues, weights that may be sent
  only between two rollouts, and worker processes that obey a pipe each without
  acknowledging an update.

`PROJECT.json` lists the hazards line by line, with the properties that would
catch each one going wrong.

## 2. The modules

```
VMSlices ─────────┐
                  ├─ ColocateRollout ── ColocateRolloutProofs
VMLease (abstract)┘        (refines VMLease)
RewardFiles (abstract) ── RewardScores ── RewardFilesProofs
                           (implements RewardFiles)
RemoteScript ── RemoteScriptProofs
TaskSlices ── EvalWorkers ── EvalWorkersProofs
TaskRun ──────┐
AgentHistory ─┴─ TestTask ── TestTaskProofs
RagPipeline ── RagPipelineProofs
RolloutServer ───────┐
                     ├─ AsyncRollout ── AsyncRolloutProofs
Generator (abstract)─┘        (refines Generator)
RolloutServer ── RolloutServerProofs ── AsyncRolloutProofs
```

The `MC...` modules are what TLC runs.  A definition that is commented
"(Mutant: ...)" is not part of a specification: it is a plausible bug of the
definition below it, and the property it belongs to must notice it.

### VMSlices

The arithmetic of `mycom_env.py` 524-549: process `r` of `WorldSize` takes the
machines `StartIdx(r) .. EndIdx(r) - 1`, the last process also the remainder.

### ColocateRollout

One generation step after another, on every process.

| TLA+ | code |
|---|---|
| `phase`, `turn`, `active`, `pending` | where a process is in `_colocate_multi_turn_infer`; `current_turn`; `index_to_infer`; the dialogues this turn's loop has still to step |
| `queue`, `env` | `mycom_env_queue`, `data_dict['env_id']` |
| `seal` | the id that the reward's backward search would find now |
| `echo` | the first id that the latest completion itself contains |
| `GatherHasData` | `gather_object([has_local_data])` and the test of `any` |
| `Respond` | appending the completions and deciding who stops |
| `AcquireStep`, `ContinueStep` | `COMMultiTurnScheduler.step` on turn 1 and later |
| `NextTurn` | `current_turn += 1` and the next rollout |
| `SearchSeal`, `ReturnVM` | the search of `_evaluate_single`; its evaluation and `finally` |
| `RewardsDone`, `NextBatch` | the executor's with-block; gathering the rewards, the update, new dialogues |

The messages of a dialogue are abstracted to `seal` and `echo`, since the
search reads nothing else of them: it takes the first mark of the last
assistant message that has one, and `step()` puts its mark at the end.  A
completion may contain a mark: the dialogue's own (the model sees it in its
context), or one of `ForeignIds`.  An evaluation that raises and one that does
not are one action, because the `finally` clause makes no difference between
them.

`VMLease` says what the queue promises: a machine is free or leased to one
dialogue, a dialogue leases at most one machine and only from the slice of its
process, and a lease ends by being returned.  `ImplementsLease` maps each
machine to the dialogue that holds it.

### RewardFiles

One generation step of all processes, from `reset` to the rewards, seen from
the files: what the machine's download directory holds (`vm`), what `get_file`
returned (`got`), the shared local copies (`file`), and from whose model the
reward is computed (`reward`).  `CleanUp` may fail without anybody noticing, as
`clean_up_files` does, and a script that the client gave up after 120 s goes on:
`left` is what such scripts, of this dialogue (`RunCodes`) or of an earlier one,
may still export, and `LateExport` does it, before the download or during it
(`Fetch` then may return a part).  What `CopyRaises` stands for is outside the
`try` of the evaluation, but inside that of `_evaluate_single`.  `open(..., 'wb')`, `write` and the load are separate
actions, since nothing orders those of different threads.  Each handle writes
from its own offset 0, so a second write over a longer first one leaves a
mixture (`Mixed`), and a load during a write may see a part.  A comparison
gives a reward for what was loaded, or raises (`Failed`, 0.0).  `Reused`, `Slow`
and `Copied` say which machines had an earlier dialogue of the same task, which
dialogues have scripts that may pass the 120 s, and which tasks have a local copy
from an earlier generation step.

### RewardScores

The same generation step down to the number that is returned.  `Seed` and
`Draw` are the two halves of `stl2pc`, which other threads of the process can
get between: the generator of numpy belongs to the process (`rng[ProcOf[d]]`
counts the samples since it was seeded, and `givenAt`, `ownAt` remember where
the two samples of a comparison started).  `Compare` draws a distance from
`Distances`: zero if the loaded model is exactly the given one and both samples
are the same points, anything otherwise.  `SolidReward` is the linear piece
between the thresholds, in hundredths; `SketchReward` has no such piece, because
`math` is imported by neither `mycom_env.py` nor the modules it takes everything
from, so the branch raises `NameError`, which the `except` clause makes 0.0.  The
comment beside it (`mycom_env.py:244`) says "linearly from 1.0 down to 0.01": the
code disagrees with it, and the model follows the code.  A file that cannot be
read raises for a solid; for a sketch `dxf2pc` gives zeros, which are compared
(`AfterLoading`).  `ScoresSpec` implements `RewardFiles`: its theorems carry over.

### RemoteScript

One dialogue and its machine over HTTP.

| TLA+ | code |
|---|---|
| `client` | the harness: the training side (`mycom_env.py`, 120 s timeout, 5 attempts, failures ignored) or the tests (`myenv.py`, no timeout, 3 attempts, `exit(0)` on failure) |
| `SendChunk`, `TransferFails` | the loop of `create_file`; `_send_b64_chunk` that returns False |
| `Post`, `PostFails`, `AnswerLost`, `TimeOut`, `NextAttempt` | the loop of `execute_python_command` |
| `OnFailure` | what a `None` leads to |
| `script`, `late`, `copies`, `model` | the machine: `pycodes.py`, chunk requests not handled yet, running processes, the exported model |
| `CopyEnds`, `LateChunk` | the machine goes on, whether the client waits or not |

The machine's server is not in the repository: what it does is taken from how
the two harnesses use it.  Every initial state with or without leftovers of an
earlier dialogue is included (script 0).

`mycom_env.py` as committed does not parse: `start_recording` at line 449 is
indented one level too far and its body is not.  The models read the file as the
class it is meant to be; that method is used by nobody.

### TaskSlices and EvalWorkers

`TaskSlices` is the arithmetic of `run.py` 395-404.  In `EvalWorkers` every
worker lists (`LookAt`, one `os.path.exists` at a time), slices, and runs its
tasks in order.  A task ends with a result (`Finish`), with an exception that
`run.py` catches (`TaskError`), or with the whole worker, by `exit(0)`, which is
no `Exception` (`Exit`).  `Relaunch` is the script started again after its
`wait`.  The grouping of a slice by domain is left out: one domain per launch is
what the scripts use, and the order is the same.

### TaskRun

One task over several runs.  `run_single_example` appends its init record
(`WriteInit`), a record per step (`Step`), evaluates, writes `result.txt`
(`WriteResult`) and appends the evaluation (`WriteRecord`).  `Runners` are the
workers that have the task in their slices: `workers_skew` shows how there can be
two, and nothing locks the task.  `List` is the only look at `result.txt`; the
worker may come to the task (`Start`) much later, when another one runs it or is
done with it.  `overlapped` remembers the runs that were under way at the same
time as another.  Each append is one write to a file opened for appending, so the
lines of two processes do not mix, but their order is free.  `Raise` is the error record of
`run.py`; `Exit` a process that ends between two appends; `CutOff` one that
ends inside an append, after which the next append continues the unfinished
line.  `LatestRun` is `parse_traj_jsonl`, `Counted` the conditions under which
`get_index.py` counts a task.

### AgentHistory and TestTask

`AgentHistory` is the agent: `predict` appends the observation (`Ask`), calls the
model, and appends the answer when it comes (`Answer`).  `past_actions` and
`past_thoughts` are appended to together, after everything that can raise, and
are one history here.  An observation is known by its run and step, so that a
property can say whose it is.  `TestTask` composes the agent with `TaskRun`:
`Act` is the step of the environment and its record, `Fail` an exception that
`run.py` catches while the agent object stays, `Die` an end of the process that
takes the agent with it.  The agent followed is that of the process `Me`; the
other workers (`Others`) share only the file with it.

### RagPipeline

The searches of one process as coroutines: they interleave at `await` only, so
`Merge` and `Save` of one task hold the event loop (`LoopFree`) from the last
answer to the written file.  `list` is `expected_interfaces`, one object for all
searches.  A launch can end early, by a failed extraction that `gather` hands on,
or by being killed, also in the middle of a file (`Torn`); the next launch skips
every path that exists.

### RolloutServer and AsyncRollout

`RolloutServer` is the server: handlers without an `await` hold its event loop
until they are done (`serving`), worker processes obey their pipes in order, an
update is answered by nobody, and its tensors come in a broadcast with a barrier
between the trainer and all workers, after which each worker loads them by
itself.  A method that raises is logged, and its answer is `None`: the methods of
the workers in `Flaky` may raise whenever they run.  An update may raise before
its broadcast (`LeavesUpdate`: no communicator, no memory for the tensor); then
that worker goes on with its pipe, and the trainer and the other workers wait for
it.  Outputs carry
the request and the weights they were computed from (`used`: the current ones and
those of the cached prefixes).

`AsyncRollout` is the trainer's main process on top of it: the main thread
(`Main`: synchronise, prefetch, submit, get, train, evaluate; an evaluation may
follow any optimiser step) and the executor's
only thread (`Thread`) with its done callback.  The round of a batch counts the
batches asked for in its mode; 0 is the prefetched one.

`Generator` is what the trainer may take this for: one generator with one set of
weights.  `Synchronise` replaces them as a whole, and only while nothing is asked
for; `Generate` answers the first batch that was asked for, from these weights;
`AskFor` is possible when the rounds before the latest one are taken; a batch is
lost only if a rollout failed.  `ImplementsGenerator` maps its variables to
`_last_loaded_step`, the kinds of failures, the rounds, the executor's tasks and
the two queues; what the pipes and workers do in between is hidden.

## 3. The runs

| run | bounds | question | outcome |
|---|---|---|---|
| `rollout` | 2 processes, 4 machines, 2 dialogues each, 3 turns | exclusivity, no loss, the mark, termination, refinement | holds |
| `rollout_shortage` | 3 machines | does every generation step end when a slice is smaller than the batch? | violated |
| `rollout_echo` | completions may write ids 1 and 2 | is the machine exclusive whatever the model writes? | violated |
| `rewards` | 3 dialogues, 2 of one task, on 2 processes; 1 reused machine, 1 slow script; 3 distances | whose model is scored, and with which reward | holds |
| `rewards_shared` | same | is a dialogue only ever scored for its own model? | violated |
| `workers` | 2 workers, 5 tasks, 2 failures | slices, listing, completeness, all scored in the end | holds |
| `workers_skew` | 3 workers, 3 tasks | is a task run by one worker at a time? | violated |
| `taskrun` | 2 workers, 3 steps, 2 runs, 1 cut append, windows of 0, 1 and 2 | what is counted; what the agent is shown | holds |
| `script` | 2 steps of 2 chunks, 2 attempts, both clients | whose script ran, whose output is shown, which model stays, whether an endless script is got over | holds |
| `retrieval` | 3 tasks, 2 at a time, 2 queries, 3 APIs, 1 early end | what each file holds; is every file written in the end? | holds |
| `retrieval_shared` | same | has a file only what was matched for its task? | violated |
| `server` | 2 workers, 2 parts, 3 rounds of 1 step, 2 evaluations of 2 batches, 1 worker that may raise | order, one model per batch, one batch behind, no wait for ever, refinement | holds |

Why the bounds are enough to see the cases: two processes and two dialogues give
every interleaving of a process that is done with one that is not, of a thread
that returns a machine with one that is still searching, and batch after batch
permutes the queues (the runs have no bound on generation steps; the state space
is finite).  Three turns separate the first, a middle and the last turn.  Three
dialogues give a pair with a common file and one without, and a pair of threads in
one process; three distances are below, between and above the thresholds (the
thresholds themselves are in `OrderOfRewards`, for all values).  A machine that
is not reused starts empty, and a script that does not pass 120 s leaves nothing:
one of each is enough to meet each dialogue with and without.
Five tasks for two workers leave a remainder, before and after any subset of
results.  Two runs of a task are an earlier and a later one, or two that overlap; a third
would only be another earlier one, since the file is read from its last init
record on (with three TLC does not end in reasonable time, and the theorems say
it for every number).  Two chunks separate the first ('w') from the others ('a'), two
attempts the first from a retry, two steps a script from its successor.  In
`retrieval` two of the tasks can match the same API and one waits for the
semaphore.  In `server` three requests over two workers make uneven chunks and
one request leaves a worker with the placeholder; three rounds are one
prefetched, one in between and one after an evaluation; one worker that raises
against one that does not is what makes the two differ.  The named bounds are
`MaxRuns`, `MaxTorn`, `MaxBreaks`, `MaxQueries`, `MaxGenerations`, `MaxEvals`, in
`EvalWorkers` `MaxFailures` and in `AsyncRollout` `MaxSteps` (per round); `Flaky`,
`Slow`, `Reused` and `Copied` limit where failures and leftovers are tried.
Everything else is a parameter of the program.

The five violations:

* **Too few machines** (`rollout_shortage`).  "Iteratively rolls out turns until
  all dialogues are finished" does not hold when a slice has fewer machines than
  the batch has dialogues: `step()` blocks on the thread that would have to go on
  for a machine to come back, and the other processes wait for it in the
  collective.  The training script of the repository (64 machines, 8 processes,
  8 dialogues per generation step) is exactly at the limit; every machine that
  is removed from `alive_vms.json` crosses it.
* **A mark in the model's answer** (`rollout_echo`).  "Found the actual stamped
  ID" holds only if the completion contains no other `[ENV_ID:n]`.
* **Shared local copies** (`rewards_shared`).  The samples of a group are not
  "independent": one may be rewarded for the model of another.
* **Different lists** (`workers_skew`).  Two workers can run the same task.
* **A shared list** (`retrieval_shared`).  The file of a task names APIs that
  were matched for others: all searches append to the one list.  What does hold
  is that a file has everything of its own (`OwnMatchesSaved`), nothing twice,
  and nothing of a search that did not come to its end (`ForeignIsSaved`).

One more disagreement was met that has no run of its own: the comment at
`mycom_env.py:244` promises a graded reward for sketches, where the code gives 0.0
(see `RewardScores` above).  `CloserNeverWorse` holds either way.

Some properties carry a condition that marks where the code stops protecting
them.

* `QuietUnlessLost` and `NoOlderModel`: no answer of `/execute` was lost.  After a
  timeout the first copy of a script goes on and may export over its successor's
  result, in a later dialogue too: `OldOnlyFromMachine` therefore names two ways to
  an old model, a machine that was not cleaned and a script that still ran there.
* `ExactRewardedAlone`: no other solid is compared in the process.  Otherwise two
  samples of one surface differ.
* `CountedIsOneRun`, `StepsTotal` and `LatestAloneCounted`: the run in question did
  not overlap with another run of the task.  Nothing in the code sees to that:
  `run.py:390` looks for `result.txt` when the list is made, and `workers_skew` shows
  two workers with one task.  The records of two runs that overlap are between each
  other, and what is counted can be a part of each; `CountedIsFinal` holds for them
  too.  A run that is complete but not the latest can be lost: a worker that had
  listed the task before starts again, and what it writes is read instead.
* `LatestAloneCounted`: no line of `traj.jsonl` was cut off.  After one, a complete
  re-run is never counted and never repeated, because `json.loads` raises on the
  broken line before a later `init_timestamp` can start again.  Likewise a process
  that ends between `result.txt` and the evaluation record leaves a task that is
  never counted and never repeated; no property excludes it, since the code does
  not.
* `OneModelPerBatch`: no worker failed to load or to reset, which the server tells
  nobody.
* `OneBehind`: no rollout failed, after which the queue is one batch shorter for
  good.  What it states of evaluation is a staleness that the code has by design.
* `GoesOn`: no rollout failed, and no update raised before its broadcast, after
  which the trainer waits in the broadcast or the barrier.
* `TestsRunWhatArrived` is about the tests only; the training side runs half a
  script.

### Fairness

* `ColocateRollout!Fairness`: the main thread of every process, every reward
  thread and a collective that everybody has entered go on (weak fairness).
  This is the operating system's scheduling, NCCL, and a machine server that
  answers: the requests either have a timeout or are assumed to be answered.
  Nothing is assumed of a thread that blocks in `queue.get()`; that it is not
  blocked is what `NeverStarved` is about.
* `EvalWorkers!Fairness`: processes run, and somebody launches the script again
  while results lack, as the authors' skipping of existing results intends.
  Failures are finitely many (`MaxFailures`); without that no result is certain.
* `RemoteScript!Fairness`: the client posts what it has to, and the timeout of
  `/execute` fires (`Post`, `PostFails`, `TimeOut`).  Nothing is assumed of the
  machine: a script may never end, and the requests at `mycom_env.py:302`, 336, 351
  and 435, which have no timeout, may never be answered.  So the claim is
  only `ScriptsGotOver`: a client with a timeout does not stay at the running of a
  script.  That it then gets its screenshot is not claimed, and for the tests,
  which have no timeout at all, nothing is.
* `RagPipeline!Fairness`: the event loop runs what can run, the calls to the
  models are answered or give up, and the script is started again while a task
  has no file.  Launches that end early are finitely many (`MaxBreaks`).
* `AsyncRollout!Fairness`: both threads and the workers run.  A worker's method
  returns or raises (a raising update is not assumed, `LeavesUpdate` has no
  fairness); nothing is assumed of a thread that waits for a queue or in a
  broadcast.
* `RewardFiles`, `RewardScores`, `TaskRun` and `TestTask` have safety properties
  only.

Deadlock checking is on for `rollout`.  It is off where the program stops: when
all rewards are there, when all tasks have results or files, when a task has its
`result.txt`, when a dialogue is over, when the last round is trained on; and in
the runs that look for one violation.

## 4. The proofs

All theorems hold for every value of the constants that satisfies the named
assumptions of the modules.

* The first parts of `ColocateRolloutProofs` and `EvalWorkersProofs`: the slices are
  disjoint and cover everything, for every number of machines, processes, tasks and workers.  The
  provers do linear arithmetic; the products are handled by stating monotonicity
  of multiplication once, as a fact about natural numbers.
* `ColocateRolloutProofs` goes on with the rollout.  `TypeCorrect` holds without further assumption.  It
  is not a formality: that `turn` stays below `MaxTurns + 2` depends on the
  collective keeping the processes within one turn of each other (`Lockstep`),
  so the inductive invariant is `TurnInv`.  The others assume
  `ForeignIds = {}`, i.e. completions contain no id but their own.
  - `Exclusive`, `NothingLost`, `SealSound` rest on `LeaseInv`.  None of them is
    inductive alone: that `ReturnVM` gives back the machine that was taken
    needs `SealIsEnv` in every phase; that `AcquireStep` overwrites no lease
    needs that a dialogue has none on turn 1 (`PhaseFacts`); that two processes
    never share a machine needs `SlicesDisjoint`.
  - `EnoughVMs`: if a slice has at least `BatchSize` machines, `NeverStarved`.
    By `NothingLost`, with an empty queue every machine of the slice is held by
    a dialogue; the dialogue that is about to take one holds none; so the
    machines map injectively into fewer than `BatchSize` dialogues.
  - `Refinement`: initial states map to the initial state of `VMLease`, every
    step to `Acquire`, `Release` or a stutter.  `HolderUnique` makes the
    `CHOOSE` in the mapping harmless.
* `RewardFilesProofs`.  `ScoresImplementFiles` shows every step of `RewardScores`
  to be a step of `RewardFiles` or a stutter.  `TaskOfTheModel`, `OldModels` and
  `OwnMachine` are proved for `RewardFiles`, from `FileInv`, which says what a
  copy can hold while a thread is between `open` and the load, and that an old model
  in a download or a copy has a machine it can come from (`MayBeStale`), and carried
  over.  `ExactFullReward`, `OrderOfRewards` and `ScoresTypeCorrect` rest on `ScoreInv`: a score is the reward of the distance, and both samples of
  a solid that is alone in its process start at the seed.  That rewards fall with
  the distance is arithmetic on the linear piece, for every pair of thresholds.
* `RemoteScriptProofs`, for every number of steps, chunks and attempts and every
  kind of client.  `ScriptInv` says which processes can run and what is in
  `pycodes.py` at each point of a step: `StepOrder` (nothing is of a later step),
  `OnlyAwaitedRuns`, `FileFollowsTransfer`, `TestsArrive`.  `OutputOfOwnScript`
  alone is not inductive: a process keeps the script it was started with, so the
  invariant has to speak of the running ones.  `ModelsInOrder` is a property of
  steps, from the same invariant.
* `EvalWorkersProofs`, for every number of tasks and workers: `ListsApart`,
  `ListsComplete` and `LaunchDoesAll`.  `WorkersInv` says what a list holds while
  it is made and that a worker has finished what its slice has left behind;
  `LaunchDoesAll` then needs `SlicesLeaveNothingOut`, `ListsApart`
  `SlicesNeverOverlap`.
* `RagPipelineProofs`, for every number of tasks, queries and coroutines:
  `OwnInFile`, `EachOnce`, `OthersAreSaved`.  `RagInv` says that the list has no
  duplicates and consists of what is expected, what finished tasks matched and
  what the one coroutine that holds the event loop has appended so far.

* `TestTaskProofs`, for every number of workers with the task, of steps, runs and
  torn lines, and every length of the agent's memory.  A run under way that is not
  the latest overlaps with the latest.  From there `RunInv` says that from its first
  record on a run that overlaps with none owns the end of the file, as long as the
  file parses (`RunningFacts`), and that an evaluation record at the end of the
  file belongs to a run whose result exists, and, if that run was alone, comes after
  all its other records (`EvalFacts`); of the latest run, if it came to its end
  alone, the file has that record at its end (`CompletedFacts`).  Without the second part the first is not enough: what
  is counted is looked at when no run is under way.  `OneRunCounted`, `CountedStays`,
  `StepsAddUp` and `FinishedIsCounted` follow; that `get_index.py` finds the first
  record of that run needs that there is a last `init` line (`LargestIn`, from the
  well-foundedness of the natural numbers).  `TaskInv` adds what the histories hold
  in each phase of `predict()` (`HistoryFacts`), from which `HistoriesAlwaysAgree`
  and `ModelSeesStory` follow, whatever the other workers write.
* `AsyncRolloutProofs`: `RoundsOneBehind`, for every number of workers, parameter
  groups, rounds and evaluations, with any set of workers that raise, any number of
  times.  `AsyncInv` bounds what can be pending
  in each mode (`QueueFacts`), says what is pending while no rollout has failed
  (`Complete`) and when evaluation has a batch (`ModeFacts`).  That a rollout is
  missing only if a worker raised is a fact about the server (`ServerFacts`): a
  worker has one request or one answer, and only while a handler waits for it, so
  no answer is taken for another's.  `BatchesInOrder` and `BatchesOfOneModel` say
  that a batch is answered in the order of its requests and from the weights of
  its step.  Their invariant is `OutputsInv`:
  - `ServingFacts`: what is served is what the thread that waits has asked for;
  - `SyncFacts`: while the weights are sent, no rollout is under way and the
    executor has nothing to do.  Nothing in `_move_model_to_vllm` locks the
    server: it follows from waiting for the queue and from `QueueFacts`;
  - `Weights`: during a synchronisation a part that was sent is loaded, in the
    worker's hands or still in its pipe (`Updating`), since an update is not
    answered; outside of one, a worker has all parts of the step loaded last
    and no cached prefix of others (`Settled`).  What leads from one to the
    other is `reset_prefix_cache`, the only command of a synchronisation that is
    answered: it comes last in the pipe, so its answer also means that all
    updates before it were obeyed;
  - `Results`: every batch on a queue is in order, and of one model if nothing
    failed.
  All of these are conditional on no failed load or reset where they must be, and
  failures never go away.
  `OneGenerator` is the refinement.  Every step of the threads and workers is a
  step of `Generator` or leaves it alone.  It needs all parts of `OutputsInv`:
  `SyncFacts` for `Synchronise`, `QueueFacts` for `AskFor`, `ModeFacts` for
  `GenerateNow` (a prefetch finds nothing pending), `Weights` and `InferFacts` for
  the outputs that are put, and `StepFacts`, that the weights only get newer.
  `WaitsAreServed` is what of `GoesOn` is a safety property.  `NoWaitInVain` names
  each wait and what it is for: a queue has its batch or the executor the task
  that brings it (`Complete`); every answer finds each worker at the command in
  question, whatever failed (`PipeShapes`); and so do the broadcast and the barrier,
  unless an update has raised before it: such a worker has left, and the others
  wait.  That the threads then run is the fairness, which stays with TLC.
* `RolloutServerProofs`: what the proofs above need of the server alone.  `InferFacts`
  says of the commands in the pipes and of the answers on their way which requests
  they are for.  `OutputsFollow` is the fact about joining: if every worker answers
  its chunk in order, the joined outputs follow the requests.  It rests on
  `FlattenJoins` (what `FlattenSeq`, a fold, gives for lists of lists, by the
  well-foundedness of the natural numbers on the set of prefixes for which it
  holds) and on `ChunksChain` (`chunk_list` deals every request once and in order,
  for every number of workers).

The theorems about the server assume `NoneIsNoList`, which is true of Python and
cannot be said of an arbitrary constant otherwise.

Model-checked only: liveness (`DialoguesFinish`, `VMsComeBack`, `AllScored`,
`ScriptsGotOver`, `AllWritten`, `GoesOn`).  Liveness under fairness is beyond the
installed provers.  Every safety property of a run that holds is proved.  The
inductive invariants were also evaluated by TLC on the runs' instances before
they were proved.

## 5. What is not modelled, and why

* Tokens, masks, log-probabilities, point clouds and the distances between them:
  numerical code; no property here tells their values apart.
* The embeddings of the retrieval and the search in them: a query is answered
  with any API that its task can match.  The cached index is compared with the
  library by its length only, which no model here covers.
* Dynamic sampling of ms-swift, which the repository's training script does not
  use: a second batch would be rolled out after the rewards of the first, which
  is a `NextBatch` to the queue.
* In asynchronous generation the other training processes (they follow the main
  one through collectives), a client with several servers, adapters instead of
  full weights, the AsyncEngine's worker, and a server with its own multi-turn
  scheduler, for which the rollout thread would enter a collective.
* Screenshots as images, window handling, recording, prompts, logging.
* The time limits that NCCL and the process group of the weights set by themselves:
  a broadcast that waits does so for ever in the model.
* Exceptions of `reset()` and `step()` on a machine during training: they end the
  process (nothing catches them), so no further state follows.
* The averages and tables of `get_index*.py`: arithmetic over counted tasks.
* What the machine's server does inside is external; it is modelled from how
  the harnesses use it (`RemoteScript`).
* The rest of ms-swift (models, templates, SFT, Megatron, datasets, the command
  line): nearly all of the source lines, a third-party framework that the
  repository carries, with some debug output added, and configures by one script.
  Modelling it would say nothing about this program.

## 6. Plan

Done: the queue, the rollout and the rewards with their proofs; the reward files
and formulas with theirs; scripts on a machine, for both harnesses, with their
proofs; the distribution of tasks with proofs of its arithmetic and of what a
launch does; one task's records composed with the agent, with proofs; the
retrieval with its proofs; asynchronous generation over the rollout server, with
the proofs of which batch a round takes, from which weights it comes, and that
the whole implements one generator.

Next, in this order:

1. An abstract specification of one task's record (a task has one counted run)
   that `TaskRun` implements.
2. All training processes in `AsyncRollout`, with their collectives.
