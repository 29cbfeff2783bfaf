---------------------------- MODULE AsyncRollout ----------------------------
(***************************************************************************)
(* Asynchronous generation of ms-swift (async_generate) over the rollout   *)
(* server: a thread generates the batch of the next round while the main   *)
(* thread trains on the one before it (swift/rlhf_trainers, rollout_mixin  *)
(* and grpo_trainer, through vllm_client).  Training and evaluation have a *)
(* queue each.                                                             *)
(*                                                                         *)
(* The main process of the training is modelled.  The other processes get  *)
(* empty results at once and follow it through the collectives.            *)
(***************************************************************************)
EXTENDS RolloutServer

CONSTANTS Size,            \* Size[m]: requests of a batch in mode m
          EvalBatches,     \* batches of the evaluation set
          MaxGenerations,  \* bound: rounds of training
          MaxEvals,        \* bound: evaluations
          MaxSteps         \* bound: optimiser steps per round

Modes == {"train", "eval"}

ASSUME AsyncAssumption ==
  /\ Size \in [Modes -> Nat \ {0}] /\ EvalBatches \in Nat \ {0}
  /\ {MaxGenerations, MaxEvals, MaxSteps} \subseteq Nat

VARIABLES
  pc,          \* where the main thread is
  mode,        \* "eval" while control.should_evaluate
  goal,        \* what the synchronisation is done for
  part,        \* the parameter group it is at
  step,        \* state.global_step
  loadedStep,  \* _last_loaded_step
  batch,       \* batch[m]: rounds asked for in mode m; 0 is the prefetched one
  left,        \* batches the evaluation has left
  evals,       \* evaluations so far
  evalFlag,    \* eval_flag
  queue,       \* train_queue and eval_queue
  tasks,       \* tasks of the executor, whose only thread runs the first one
  got          \* the batch that was taken last

trainer == <<pc, mode, goal, part, step, loadedStep, batch, left, evals, evalFlag, queue, tasks, got>>
vars == <<server, trainer>>

Nothing == [mode |-> "none"]
NewTask == [mode |-> mode, round |-> batch[mode], step |-> step]
Requests(task) == [i \in 1 .. Size[task.mode] |-> <<task.mode, task.round, i>>]
Cache(task) == [task |-> task, results |-> Outputs]

Init ==
  /\ ServerInit
  /\ pc = "prefetch" /\ mode = "train" /\ goal = "prefetch" /\ part = 1
  /\ step = 0 /\ loadedStep = -1
  /\ batch = [m \in Modes |-> 0] /\ left = 0 /\ evals = 0 /\ evalFlag = FALSE
  /\ queue = [m \in Modes |-> <<>>] /\ tasks = <<>> /\ got = Nothing

-----------------------------------------------------------------------------
\* Synchronising the weights.

\* (Mutant: _move_model_to_vllm does not wait for the rollout.)
NoWait == TRUE

\* _wait_queue: the rollout of this mode has come in.
WaitQueue == queue[mode] # <<>>

\* The weights are older than the step: _prefetch synchronises at once,
\* _fast_infer when the rollout has come in.
StartSync ==
  /\ pc \in {"prefetch", "generate"} /\ step # loadedStep
  /\ pc = "generate" => WaitQueue
  /\ goal' = pc /\ pc' = "update" /\ part' = 1
  /\ UNCHANGED <<server, mode, step, loadedStep, batch, left, evals, evalFlag, queue, tasks, got>>

\* vllm_client.update_...: the request.
UpdatePart ==
  /\ pc = "update" /\ PostUpdate(part, step)
  /\ pc' = "broadcast"
  /\ UNCHANGED <<mode, goal, part, step, loadedStep, batch, left, evals, evalFlag, queue, tasks, got>>

\* vllm_client.update_...: the broadcast and the barrier.
BroadcastPart ==
  /\ pc = "broadcast" /\ Broadcast
  /\ part' = IF part < NumParts THEN part + 1 ELSE part
  /\ pc' = IF part < NumParts THEN "update" ELSE "reset"
  /\ UNCHANGED <<mode, goal, step, loadedStep, batch, left, evals, evalFlag, queue, tasks, got>>

\* vllm_client.reset_prefix_cache, whose answer says nothing of a failure.
Reset ==
  /\ pc = "reset" /\ PostReset("main")
  /\ pc' = "resetting"
  /\ UNCHANGED <<mode, goal, part, step, loadedStep, batch, left, evals, evalFlag, queue, tasks, got>>

SyncEnds ==
  /\ pc = "resetting" /\ Answered("reset", "main") /\ Respond
  /\ loadedStep' = step /\ pc' = goal
  /\ UNCHANGED <<mode, goal, part, step, batch, left, evals, evalFlag, queue, tasks, got>>

-----------------------------------------------------------------------------
\* _prefetch: the main thread generates the first batch itself.
Prefetch ==
  /\ pc = "prefetch" /\ step = loadedStep
  /\ PostInfer("main", Requests(NewTask))
  /\ pc' = "prefetching"
  /\ UNCHANGED <<mode, goal, part, step, loadedStep, batch, left, evals, evalFlag, queue, tasks, got>>

Prefetched ==
  /\ pc = "prefetching" /\ Answered("infer", "main") /\ ~ InferRaised /\ Respond
  /\ queue' = [queue EXCEPT ![mode] = Append(@, Cache(NewTask))]
  /\ pc' = IF mode = "train" THEN "trainwait" ELSE "generate"
  /\ UNCHANGED <<mode, goal, part, step, loadedStep, batch, left, evals, evalFlag, tasks, got>>

\* The exception of the client ends the training.
PrefetchFails ==
  /\ pc = "prefetching" /\ Answered("infer", "main") /\ InferRaised /\ Respond
  /\ pc' = "failed"
  /\ UNCHANGED <<mode, goal, part, step, loadedStep, batch, left, evals, evalFlag, queue, tasks, got>>

\* async_generate_rollout: the next batch is given to the executor.
Submit ==
  /\ pc = "generate" /\ step = loadedStep
  /\ batch' = [batch EXCEPT ![mode] = @ + 1]
  /\ tasks' = Append(tasks, [NewTask EXCEPT !.round = @ + 1])
  /\ pc' = "get"
  /\ UNCHANGED <<server, mode, goal, part, step, loadedStep, left, evals, evalFlag, queue, got>>

\* _queue.get(), and the batch is trained on or evaluated.
Get ==
  /\ pc = "get" /\ queue[mode] # <<>>
  /\ got' = Head(queue[mode])
  /\ queue' = [queue EXCEPT ![mode] = Tail(@)]
  /\ pc' = IF mode = "train" THEN "step" ELSE "evaluated"
  /\ UNCHANGED <<server, mode, goal, part, step, loadedStep, batch, left, evals, evalFlag, tasks>>

-----------------------------------------------------------------------------
\* The executor's thread.

Ask ==
  /\ tasks # <<>>
  /\ PostInfer("thread", Requests(Head(tasks)))
  /\ UNCHANGED trainer

\* (Mutant: the callback looks the queue up when it runs.)
RolloutDoneNow ==
  /\ Answered("infer", "thread") /\ ~ InferRaised /\ Respond
  /\ queue' = [queue EXCEPT ![mode] = Append(@, Cache(Head(tasks)))]
  /\ tasks' = Tail(tasks)
  /\ UNCHANGED <<pc, mode, goal, part, step, loadedStep, batch, left, evals, evalFlag, got>>

\* The done callback puts the batch on the queue of when it was asked for.
RolloutDone ==
  /\ Answered("infer", "thread") /\ ~ InferRaised /\ Respond
  /\ queue' = [queue EXCEPT ![Head(tasks).mode] = Append(@, Cache(Head(tasks)))]
  /\ tasks' = Tail(tasks)
  /\ UNCHANGED <<pc, mode, goal, part, step, loadedStep, batch, left, evals, evalFlag, got>>

\* A rollout that raised is logged by the callback, and nothing is put.
RolloutFails ==
  /\ Answered("infer", "thread") /\ InferRaised /\ Respond
  /\ tasks' = Tail(tasks)
  /\ UNCHANGED <<pc, mode, goal, part, step, loadedStep, batch, left, evals, evalFlag, queue, got>>

-----------------------------------------------------------------------------
\* The loop of the trainer.

\* training_step waits until the last rollout of an evaluation is in.
TrainingStep ==
  /\ pc = "trainwait" /\ batch["train"] < MaxGenerations
  /\ evalFlag => queue["eval"] # <<>>
  /\ pc' = "generate"
  /\ UNCHANGED <<server, mode, goal, part, step, loadedStep, batch, left, evals, evalFlag, queue, tasks, got>>

\* A training_step on the batch of the round, the first one or a later one that
\* uses it again: at the end of an accumulation it is an optimiser step, after
\* which an evaluation may be due.
OptimiserStep ==
  /\ \/ pc = "step"
     \/ pc = "trainwait" /\ batch["train"] > 0 /\ (evalFlag => queue["eval"] # <<>>)
  /\ step' \in {step, step + 1} /\ step' <= MaxSteps * batch["train"]
  /\ \/ /\ pc' = "trainwait" /\ UNCHANGED <<mode, evals>>
     \/ /\ step' # step /\ evals < MaxEvals /\ evals' = evals + 1
        /\ mode' = "eval" /\ pc' = "evalwait"
  /\ UNCHANGED <<server, goal, part, loadedStep, batch, left, evalFlag, queue, tasks, got>>

\* (Mutant: evaluation_loop does not prefetch.)
EvaluateNoPrefetch ==
  /\ pc = "evalwait" /\ queue["train"] # <<>>
  /\ pc' = "generate"
  /\ left' = EvalBatches
  /\ UNCHANGED <<server, mode, goal, part, step, loadedStep, batch, evals, evalFlag, queue, tasks, got>>

\* (Mutant: evaluation_loop prefetches although a batch is left.)
EvaluatePrefetches ==
  /\ pc = "evalwait" /\ queue["train"] # <<>>
  /\ pc' = "prefetch"
  /\ left' = EvalBatches
  /\ UNCHANGED <<server, mode, goal, part, step, loadedStep, batch, evals, evalFlag, queue, tasks, got>>

\* evaluation_loop waits for the rollout of the training, and prefetches
\* unless a batch is left.
Evaluate ==
  /\ pc = "evalwait" /\ queue["train"] # <<>>
  /\ pc' = IF queue["eval"] = <<>> THEN "prefetch" ELSE "generate"
  /\ left' = EvalBatches
  /\ UNCHANGED <<server, mode, goal, part, step, loadedStep, batch, evals, evalFlag, queue, tasks, got>>

Evaluated ==
  /\ pc = "evaluated"
  /\ left' = left - 1
  /\ \/ left > 1 /\ pc' = "generate" /\ UNCHANGED <<evalFlag, mode>>
     \/ left = 1 /\ evalFlag' = TRUE /\ mode' = "train" /\ pc' = "trainwait"
  /\ UNCHANGED <<server, goal, part, step, loadedStep, batch, evals, queue, tasks, got>>

Main ==
  \/ StartSync \/ UpdatePart \/ BroadcastPart \/ Reset \/ SyncEnds
  \/ Prefetch \/ Prefetched \/ PrefetchFails \/ Submit \/ Get
  \/ TrainingStep \/ OptimiserStep \/ Evaluate \/ Evaluated

Thread == Ask \/ RolloutDone \/ RolloutFails

Next ==
  \/ Main \/ Thread
  \/ \E w \in Workers : (Worker(w) \/ LeavesUpdate(w)) /\ UNCHANGED trainer

\* Both threads and the workers run; a worker's method returns or raises.
Fairness ==
  /\ WF_vars(Main) /\ WF_vars(Thread)
  /\ \A w \in Workers : WF_vars(Worker(w) /\ UNCHANGED trainer)

Spec == Init /\ [][Next]_vars /\ Fairness

-----------------------------------------------------------------------------
Batches == ToSet(queue["train"]) \cup ToSet(queue["eval"]) \cup ({got} \ {Nothing})

\* A batch has one output for each of its requests, in their order, however
\* many workers they were dealt to and whatever the placeholders brought.
OutputsInOrder ==
  \A b \in Batches :
    [i \in DOMAIN b.results |-> b.results[i].request] = Requests(b.task)

\* All outputs of a batch come from one set of weights, those of the step in
\* which it was asked for: no part of a synchronisation and no cached prefix
\* gets between them, unless a worker failed to load or to reset (which
\* nobody is told).
OneModelPerBatch ==
  failures \cap {"load", "reset"} = {} =>
    \A b \in Batches : \A i \in DOMAIN b.results :
      b.results[i].used = {[p \in Parts |-> b.task.step]}

\* Each mode is exactly one batch behind, and takes none of the other mode:
\* training takes what its previous round asked for.  (Evaluation does the
\* same, so its first batch is the last one of the evaluation before.)  A
\* rollout that failed is skipped: from then on a round takes its own batch.
OneBehind ==
  pc \in {"step", "evaluated"} =>
    /\ got.task.mode = mode
    /\ got.task.round = batch[mode] - 1 \/ (got.task.round = batch[mode] /\ "infer" \in failures)

\* To the trainer, executor, queues, pipes and workers are one generator with
\* one set of weights: no thread sees a synchronisation that is half done, or
\* a batch of other weights, out of its turn or of rounds not taken yet.
Generating == INSTANCE Generator WITH
  weights <- loadedStep, failed <- failures, round <- batch, asked <- tasks, ready <- queue

ImplementsGenerator == Generating!Spec

\* While no rollout failed and every worker joined every update, training goes
\* on to its last round: no wait for a queue is for ever, in training, in
\* evaluation or between them.
GoesOn == <>(batch["train"] = MaxGenerations \/ failures \cap {"infer", "join"} # {})
=============================================================================
