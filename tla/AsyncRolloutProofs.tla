------------------------- MODULE AsyncRolloutProofs -------------------------
(***************************************************************************)
(* Asynchronous generation, for every number of workers, of parameter      *)
(* groups, of rounds, evaluations and failures: which batch a round takes, *)
(* which weights and which outputs it has, that the whole implements one   *)
(* generator, and that no wait is in vain.                                 *)
(***************************************************************************)
EXTENDS AsyncRollout, RolloutServerProofs

\* The executor's request is for its first task.
Asking == serving # Idle /\ serving.client = "thread" => tasks # <<>>

TypeFacts ==
  /\ mode \in Modes /\ goal \in {"prefetch", "generate"}
  /\ batch \in [Modes -> Int]
  /\ queue = [m \in Modes |-> queue[m]]
  /\ \A m \in Modes : IsSeq(queue[m])
  /\ IsSeq(tasks)
  /\ \A i \in DOMAIN tasks : tasks[i].mode \in Modes /\ tasks[i].round \in Int
  /\ \A m \in Modes : \A i \in DOMAIN queue[m] :
       queue[m][i].task.mode = m /\ queue[m][i].task.round \in Int

\* A worker obeys, or leaves an update.
Obeys == \E w \in Workers : Worker(w) /\ UNCHANGED trainer
Leaves == \E w \in Workers : LeavesUpdate(w) /\ UNCHANGED trainer

\* What can be pending in mode m: the batch that was asked for last, and the
\* one before it between Submit and Get.
Rounds(m) == {batch[m]} \cup {r \in {batch[m] - 1} : pc = "get" /\ mode = m}

\* Queue and tasks hold the pending batches of a mode in the order of their rounds.
QueueFacts ==
  \A m \in Modes :
    /\ \A i \in DOMAIN queue[m] : queue[m][i].task.round \in Rounds(m)
    /\ \A i, j \in DOMAIN queue[m] : i < j => queue[m][i].task.round < queue[m][j].task.round
    /\ \A i \in DOMAIN tasks : tasks[i].mode = m =>
         /\ tasks[i].round \in Rounds(m)
         /\ \A j \in DOMAIN queue[m] : queue[m][j].task.round < tasks[i].round
         /\ \A j \in DOMAIN tasks : i < j /\ tasks[j].mode = m => tasks[i].round < tasks[j].round

Pending(m, r) ==
  \/ \E i \in DOMAIN queue[m] : queue[m][i].task.round = r
  \/ \E i \in DOMAIN tasks : tasks[i].mode = m /\ tasks[i].round = r

NonePending(m) == queue[m] = <<>> /\ \A i \in DOMAIN tasks : tasks[i].mode # m

Prefetching ==
  \/ pc \in {"prefetch", "prefetching", "failed"}
  \/ pc \in {"update", "broadcast", "reset", "resetting"} /\ goal = "prefetch"

\* Evaluation has a batch pending from its first prefetch on.
ModeFacts ==
  /\ mode = "train" /\ evalFlag /\ pc # "trainwait" => queue["eval"] # <<>>
  /\ mode = "train" /\ ~ evalFlag => NonePending("eval")
  /\ pc = "evalwait" => /\ mode = "eval"
                        /\ evalFlag => queue["eval"] # <<>>
                        /\ ~ evalFlag => NonePending("eval")
  /\ pc \in {"trainwait", "step"} => mode = "train"
  /\ pc = "evaluated" => mode = "eval"
  /\ Prefetching => NonePending(mode)

\* Which batches are pending as long as no rollout failed.
Complete ==
  "infer" \notin failures =>
    /\ pc = "get" => Pending(mode, batch[mode] - 1)
    /\ ~ Prefetching /\ pc # "evalwait" => Pending(mode, batch[mode])
    /\ mode = "eval" => Pending("train", batch["train"])
    /\ evalFlag /\ (mode = "train" \/ pc = "evalwait") => Pending("eval", batch["eval"])

AsyncInv ==
  ServerFacts /\ Asking /\ TypeFacts /\ QueueFacts /\ ModeFacts /\ Complete /\ OneBehind

-----------------------------------------------------------------------------
\* Nothing is asked for, put or taken.
Quiet == UNCHANGED <<batch, queue, tasks>>

LEMMA QuietFacts ==
  ASSUME Quiet
  PROVE  /\ \A m, r : Pending(m, r)' = Pending(m, r)
         /\ \A m : NonePending(m)' = NonePending(m)
BY DEF Quiet, Pending, NonePending

LEMMA QuietKeeps ==
  ASSUME TypeFacts, QueueFacts, Quiet, mode' \in Modes, goal' \in {"prefetch", "generate"},
         (pc # "get" /\ pc' # "get") \/ UNCHANGED <<pc, mode>>
  PROVE  TypeFacts' /\ QueueFacts'
<1>1. \A m \in Modes : Rounds(m)' = Rounds(m)
  BY DEF Quiet, Rounds
<1>2. TypeFacts'
  BY DEF Quiet, TypeFacts, Modes, IsSeq
<1>3. QueueFacts'
  BY <1>1 DEF Quiet, QueueFacts, Modes
<1> QED  BY <1>2, <1>3

\* The steps of the server and of the executor that leave the trainer alone.
LEMMA OthersKeep ==
  ASSUME TypeFacts, QueueFacts, ModeFacts, Complete, OneBehind,
         UNCHANGED trainer, failures \subseteq failures'
  PROVE  TypeFacts' /\ QueueFacts' /\ ModeFacts' /\ Complete' /\ OneBehind'
<1>1. /\ Quiet
      /\ UNCHANGED <<pc, mode, goal, evalFlag, batch, queue, tasks, got>>
  BY DEF trainer, Quiet
<1>2. TypeFacts' /\ QueueFacts'
  <2>1. mode' \in Modes /\ goal' \in {"prefetch", "generate"}
    BY <1>1 DEF TypeFacts
  <2> QED  BY <1>1, <2>1, QuietKeeps
<1>3. ModeFacts'
  BY <1>1, QuietFacts DEF ModeFacts, Prefetching
<1>4. Complete'
  BY <1>1, QuietFacts DEF Complete, Prefetching
<1>5. OneBehind'
  BY <1>1 DEF OneBehind
<1> QED  BY <1>2, <1>3, <1>4, <1>5

\* The main thread's steps that leave queues and tasks alone.
QuietMain ==
  \/ StartSync \/ UpdatePart \/ BroadcastPart \/ Reset \/ SyncEnds
  \/ Prefetch \/ PrefetchFails \/ TrainingStep \/ OptimiserStep \/ Evaluate \/ Evaluated

LEMMA QuietMainFacts ==
  ASSUME TypeFacts, QuietMain
  PROVE  /\ Quiet /\ UNCHANGED got /\ pc # "get" /\ pc' # "get"
         /\ mode' \in Modes /\ goal' \in {"prefetch", "generate"}
<1>1. mode \in Modes /\ goal \in {"prefetch", "generate"} /\ {"train", "eval"} \subseteq Modes
  BY DEF TypeFacts, Modes
<1>2. CASE StartSync
  BY <1>1, <1>2 DEF StartSync, Quiet
<1>3. CASE UpdatePart \/ BroadcastPart \/ Reset \/ SyncEnds
  BY <1>1, <1>3 DEF UpdatePart, BroadcastPart, Reset, SyncEnds, Quiet
<1>4. CASE Prefetch \/ PrefetchFails \/ TrainingStep
  BY <1>1, <1>4 DEF Prefetch, PrefetchFails, TrainingStep, Quiet
<1>5. CASE OptimiserStep
  BY <1>1, <1>5 DEF OptimiserStep, Quiet
<1>6. CASE Evaluate
  BY <1>1, <1>6 DEF Evaluate, Quiet
<1>7. CASE Evaluated
  BY <1>1, <1>7 DEF Evaluated, Quiet
<1> QED  BY <1>2, <1>3, <1>4, <1>5, <1>6, <1>7 DEF QuietMain

LEMMA QuietMainModes ==
  ASSUME TypeFacts, ModeFacts, QuietMain
  PROVE  ModeFacts'
<1>1. Quiet /\ (\A m : NonePending(m)' = NonePending(m)) /\ queue' = queue
  BY QuietMainFacts, QuietFacts DEF Quiet
<1>2. CASE StartSync
  BY <1>1, <1>2 DEF StartSync, ModeFacts, Prefetching
<1>3. CASE UpdatePart \/ BroadcastPart \/ Reset
  BY <1>1, <1>3 DEF UpdatePart, BroadcastPart, Reset, ModeFacts, Prefetching
<1>4. CASE SyncEnds
  BY <1>1, <1>4 DEF SyncEnds, ModeFacts, Prefetching, TypeFacts
<1>5. CASE Prefetch \/ PrefetchFails
  BY <1>1, <1>5 DEF Prefetch, PrefetchFails, ModeFacts, Prefetching
<1>6. CASE TrainingStep
  BY <1>1, <1>6 DEF TrainingStep, ModeFacts, Prefetching
<1>7. CASE OptimiserStep
  BY <1>1, <1>7 DEF OptimiserStep, ModeFacts, Prefetching
<1>8. CASE Evaluate
  BY <1>1, <1>8 DEF Evaluate, ModeFacts, Prefetching
<1>9. CASE Evaluated
  BY <1>1, <1>9 DEF Evaluated, ModeFacts, Prefetching
<1> QED  BY <1>2, <1>3, <1>4, <1>5, <1>6, <1>7, <1>8, <1>9 DEF QuietMain

LEMMA QuietMainComplete ==
  ASSUME TypeFacts, QueueFacts, ModeFacts, Complete, QuietMain, failures \subseteq failures'
  PROVE  Complete'
<1> SUFFICES ASSUME "infer" \notin failures' PROVE Complete'
  BY DEF Complete
<1>1. /\ \A m, r : Pending(m, r)' = Pending(m, r)
      /\ batch' = batch /\ queue' = queue /\ "infer" \notin failures
      /\ pc # "get" /\ pc' # "get"
  BY QuietMainFacts, QuietFacts DEF Quiet
<1>2. CASE StartSync
  BY <1>1, <1>2 DEF StartSync, Complete, Prefetching
<1>3. CASE UpdatePart \/ BroadcastPart \/ Reset
  BY <1>1, <1>3 DEF UpdatePart, BroadcastPart, Reset, Complete, Prefetching
<1>4. CASE SyncEnds
  BY <1>1, <1>4 DEF SyncEnds, Complete, Prefetching, TypeFacts
<1>5. CASE Prefetch \/ PrefetchFails
  BY <1>1, <1>5 DEF Prefetch, PrefetchFails, Complete, Prefetching
<1>6. CASE TrainingStep
  BY <1>1, <1>6 DEF TrainingStep, Complete, Prefetching
<1>7. CASE OptimiserStep
  BY <1>1, <1>7 DEF OptimiserStep, Complete, Prefetching, ModeFacts
<1>8. CASE Evaluate
  <2>1. /\ mode = "eval" /\ mode' = mode /\ evalFlag' = evalFlag
        /\ pc' \in {"prefetch", "generate"}
        /\ pc' = "generate" => queue["eval"] # <<>>
    BY <1>8 DEF Evaluate, ModeFacts
  <2>2. ASSUME queue["eval"] # <<>>
        PROVE  Pending("eval", batch["eval"])
    <3>1. "eval" \in Modes /\ IsSeq(queue["eval"])
      BY DEF TypeFacts, Modes
    <3>2. 1 \in DOMAIN queue["eval"]
      BY <2>2, <3>1, SeqTail
    <3>3. queue["eval"][1].task.round = batch["eval"]
      BY <3>1, <3>2, <1>8 DEF QueueFacts, Rounds, Evaluate
    <3> QED  BY <3>2, <3>3 DEF Pending
  <2>3. Pending("train", batch["train"])'
    BY <1>1, <2>1 DEF Complete
  <2>4. pc' = "generate" => Pending("eval", batch["eval"])'
    BY <1>1, <2>1, <2>2
  <2> QED  BY <2>1, <2>3, <2>4 DEF Complete, Prefetching
<1>9. CASE Evaluated
  BY <1>1, <1>9 DEF Evaluated, Complete, Prefetching, ModeFacts
<1> QED  BY <1>2, <1>3, <1>4, <1>5, <1>6, <1>7, <1>8, <1>9 DEF QuietMain

LEMMA QuietMainBehind ==
  ASSUME TypeFacts, QuietMain
  PROVE  OneBehind'
BY DEF QuietMain, OneBehind, StartSync, UpdatePart, BroadcastPart, Reset, SyncEnds, Prefetch,
       PrefetchFails, TrainingStep, OptimiserStep, Evaluate, Evaluated, TypeFacts

-----------------------------------------------------------------------------
\* The first c tasks are over: none of them, or one.
Dropped(c) ==
  /\ IsSeq(tasks')
  /\ \A i \in DOMAIN tasks' : i \in Int /\ i + c \in DOMAIN tasks /\ tasks'[i] = tasks[i + c]

LEMMA DropTask ==
  ASSUME IsSeq(tasks)
  PROVE  /\ tasks' = tasks => Dropped(0)
         /\ tasks # <<>> /\ tasks' = Tail(tasks) =>
              /\ Dropped(1)
              /\ Head(tasks) = tasks[1] /\ 1 \in DOMAIN tasks
              /\ \A i \in DOMAIN tasks : i = 1 \/ (i - 1 \in DOMAIN tasks' /\ tasks'[i - 1] = tasks[i])
<1>1. DOMAIN tasks = 1 .. Len(tasks) /\ Len(tasks) \in Nat
  BY SeqAppend
<1>2. ASSUME tasks' = tasks
      PROVE  Dropped(0)
  BY <1>1, <1>2 DEF Dropped, IsSeq
<1>3. ASSUME tasks # <<>>, tasks' = Tail(tasks)
      PROVE  /\ Dropped(1)
             /\ Head(tasks) = tasks[1] /\ 1 \in DOMAIN tasks
             /\ \A i \in DOMAIN tasks : i = 1 \/ (i - 1 \in DOMAIN tasks' /\ tasks'[i - 1] = tasks[i])
  <2>1. /\ IsSeq(tasks') /\ Len(tasks) \in Nat \ {0} /\ Head(tasks) = tasks[1]
        /\ DOMAIN tasks' = 1 .. Len(tasks) - 1
        /\ \A i \in 1 .. Len(tasks) - 1 : tasks'[i] = tasks[i + 1]
    BY <1>3, SeqTail
  <2>2. Dropped(1)
    BY <1>1, <2>1 DEF Dropped
  <2>3. \A i \in DOMAIN tasks : i = 1 \/ (i - 1 \in DOMAIN tasks' /\ tasks'[i - 1] = tasks[i])
    BY <1>1, <2>1
  <2> QED  BY <1>1, <2>1, <2>2, <2>3
<1> QED  BY <1>2, <1>3

\* A batch is put at the end of a queue, before the tasks that are left.
LEMMA PutKeeps ==
  ASSUME TypeFacts, QueueFacts, NEW m0 \in Modes, NEW e, NEW c \in {0, 1}, Dropped(c),
         e.task.mode = m0, e.task.round \in Rounds(m0),
         queue' = [queue EXCEPT ![m0] = Append(@, e)],
         UNCHANGED batch, \A m \in Modes : Rounds(m)' = Rounds(m),
         mode' \in Modes, goal' \in {"prefetch", "generate"},
         \A j \in DOMAIN queue[m0] : queue[m0][j].task.round < e.task.round,
         \A i \in DOMAIN tasks' : tasks'[i].mode = m0 => e.task.round < tasks'[i].round
  PROVE  /\ TypeFacts' /\ QueueFacts'
         /\ queue'[m0] # <<>> /\ \A m \in Modes \ {m0} : queue'[m] = queue[m]
         /\ \E j \in DOMAIN queue'[m0] : queue'[m0][j].task.round = e.task.round
         /\ \A m \in Modes : \A j \in DOMAIN queue[m] :
              j \in DOMAIN queue'[m] /\ queue'[m][j] = queue[m][j]
<1> DEFINE q == queue[m0]
           n == Len(q)
<1>1. /\ \A m \in Modes : IsSeq(queue[m]) /\ DOMAIN queue = Modes
  BY DEF TypeFacts
<1>2. /\ IsSeq(queue'[m0]) /\ n \in Nat /\ DOMAIN q = 1 .. n
      /\ DOMAIN queue'[m0] = 1 .. n + 1
      /\ \A i \in 1 .. n : queue'[m0][i] = q[i]
      /\ queue'[m0][n + 1] = e
      /\ queue'[m0] # <<>>
  <2>1. queue'[m0] = Append(q, e) /\ IsSeq(q)
    BY <1>1
  <2> HIDE DEF q
  <2>2. /\ IsSeq(Append(q, e)) /\ Len(q) \in Nat /\ DOMAIN q = 1 .. Len(q)
        /\ DOMAIN Append(q, e) = 1 .. Len(q) + 1
        /\ \A i \in 1 .. Len(q) : Append(q, e)[i] = q[i]
        /\ Append(q, e)[Len(q) + 1] = e /\ Append(q, e) # <<>>
    BY <2>1, SeqAppend
  <2> QED  BY <2>1, <2>2
<1>3. \A m \in Modes \ {m0} : queue'[m] = queue[m]
  BY <1>1
<1>4. \A m \in Modes : \A j \in DOMAIN queue[m] :
        j \in DOMAIN queue'[m] /\ queue'[m][j] = queue[m][j]
  BY <1>2, <1>3
<1>5. \A m \in Modes : \A j \in DOMAIN queue'[m] :
        \/ j \in DOMAIN queue[m] /\ queue'[m][j] = queue[m][j]
        \/ m = m0 /\ j = n + 1 /\ queue'[m][j] = e
  BY <1>2, <1>3
<1>6. e.task.round \in Int
  BY DEF TypeFacts, Rounds
<1>7. TypeFacts'
  <2>1. queue' = [m \in Modes |-> queue'[m]] /\ \A m \in Modes : IsSeq(queue'[m])
    BY <1>1, <1>2, <1>3
  <2>2. \A m \in Modes : \A i \in DOMAIN queue'[m] :
          queue'[m][i].task.mode = m /\ queue'[m][i].task.round \in Int
    BY <1>5, <1>6 DEF TypeFacts
  <2>3. \A i \in DOMAIN tasks' : tasks'[i].mode \in Modes /\ tasks'[i].round \in Int
    BY DEF TypeFacts, Dropped
  <2>4. IsSeq(tasks)' /\ \A m \in Modes : IsSeq(queue[m])'
    BY <2>1 DEF Dropped, IsSeq
  <2>5. Modes' = Modes
    BY DEF Modes
  <2> QED  BY <2>1, <2>2, <2>3, <2>4, <2>5 DEF TypeFacts
<1>8. QueueFacts'
  <2> SUFFICES ASSUME NEW m \in Modes
               PROVE  /\ \A i \in DOMAIN queue'[m] : queue'[m][i].task.round \in Rounds(m)
                      /\ \A i, j \in DOMAIN queue'[m] : i < j =>
                           queue'[m][i].task.round < queue'[m][j].task.round
                      /\ \A i \in DOMAIN tasks' : tasks'[i].mode = m =>
                           /\ tasks'[i].round \in Rounds(m)
                           /\ \A j \in DOMAIN queue'[m] :
                                queue'[m][j].task.round < tasks'[i].round
                           /\ \A j \in DOMAIN tasks' : i < j /\ tasks'[j].mode = m =>
                                tasks'[i].round < tasks'[j].round
    BY DEF QueueFacts, Modes
  <2>1. \A i \in DOMAIN queue'[m] : queue'[m][i].task.round \in Rounds(m)
    BY <1>5 DEF QueueFacts
  <2>2. ASSUME NEW i \in DOMAIN queue'[m], NEW j \in DOMAIN queue'[m], i < j
        PROVE  queue'[m][i].task.round < queue'[m][j].task.round
    <3>1. CASE j \in DOMAIN queue[m] /\ queue'[m][j] = queue[m][j]
      <4>1. i \in DOMAIN queue[m] /\ queue'[m][i] = queue[m][i]
        BY <1>2, <1>5, <2>2, <3>1
      <4> QED  BY <2>2, <3>1, <4>1 DEF QueueFacts
    <3>2. CASE m = m0 /\ j = n + 1 /\ queue'[m][j] = e
      <4>1. i \in DOMAIN queue[m] /\ queue'[m][i] = queue[m][i]
        BY <1>2, <1>5, <2>2, <3>2
      <4> QED  BY <3>2, <4>1
    <3> QED  BY <1>5, <3>1, <3>2
  <2>3. ASSUME NEW i \in DOMAIN tasks', tasks'[i].mode = m
        PROVE  /\ tasks'[i].round \in Rounds(m)
               /\ \A j \in DOMAIN queue'[m] : queue'[m][j].task.round < tasks'[i].round
               /\ \A j \in DOMAIN tasks' : i < j /\ tasks'[j].mode = m =>
                    tasks'[i].round < tasks'[j].round
    <3>1. /\ i + c \in DOMAIN tasks /\ tasks'[i] = tasks[i + c] /\ tasks[i + c].mode = m
          /\ i \in Int
      BY <2>3 DEF Dropped
    <3>2. \A j \in DOMAIN tasks' : i < j => i + c < j + c
      BY <3>1 DEF Dropped
    <3>3. \A j \in DOMAIN tasks' : i < j /\ tasks'[j].mode = m => tasks'[i].round < tasks'[j].round
      BY <3>1, <3>2 DEF Dropped, QueueFacts
    <3>4. \A j \in DOMAIN queue'[m] : queue'[m][j].task.round < tasks'[i].round
      BY <1>5, <2>3, <3>1 DEF QueueFacts
    <3>5. tasks'[i].round \in Rounds(m)
      BY <3>1 DEF QueueFacts
    <3> QED  BY <3>3, <3>4, <3>5
  <2> QED  BY <2>1, <2>2, <2>3
<1>9. \E j \in DOMAIN queue'[m0] : queue'[m0][j].task.round = e.task.round
  <2>1. n + 1 \in DOMAIN queue'[m0]
    BY <1>2
  <2> QED  BY <1>2, <2>1
<1> QED  BY <1>2, <1>3, <1>4, <1>7, <1>8, <1>9

LEMMA PrefetchedKeeps ==
  ASSUME TypeFacts, QueueFacts, ModeFacts, Complete, Prefetched
  PROVE  TypeFacts' /\ QueueFacts' /\ ModeFacts' /\ Complete' /\ OneBehind'
<1> DEFINE e == Cache(NewTask)
<1>1. /\ pc = "prefetching" /\ pc' = (IF mode = "train" THEN "trainwait" ELSE "generate")
      /\ queue' = [queue EXCEPT ![mode] = Append(@, e)]
      /\ UNCHANGED <<mode, goal, batch, evalFlag, tasks, failures>>
  BY DEF Prefetched, Respond
<1>2. e.task.mode = mode /\ e.task.round = batch[mode]
  BY DEF Cache, NewTask
<1>3. /\ mode \in Modes /\ goal \in {"prefetch", "generate"} /\ IsSeq(tasks)
      /\ Modes = {"train", "eval"}
  BY DEF TypeFacts, Modes
<1>4. queue[mode] = <<>> /\ \A i \in DOMAIN tasks : tasks[i].mode # mode
  BY <1>1 DEF ModeFacts, Prefetching, NonePending
<1>5. Dropped(0)
  BY <1>1, <1>3, DropTask
<1>6. /\ \A m \in Modes : Rounds(m)' = Rounds(m)
      /\ batch[mode] \in Rounds(mode)
  BY <1>1 DEF Rounds
<1> HIDE DEF e
<1>7. /\ TypeFacts' /\ QueueFacts'
      /\ queue'[mode] # <<>> /\ \A m \in Modes \ {mode} : queue'[m] = queue[m]
      /\ \E j \in DOMAIN queue'[mode] : queue'[mode][j].task.round = batch[mode]
      /\ \A m \in Modes : \A j \in DOMAIN queue[m] :
           j \in DOMAIN queue'[m] /\ queue'[m][j] = queue[m][j]
  <2>1. \A j \in DOMAIN queue[mode] : queue[mode][j].task.round < e.task.round
    BY <1>4, EmptyIsSeq
  <2>2. \A i \in DOMAIN tasks' : tasks'[i].mode = mode => e.task.round < tasks'[i].round
    BY <1>1, <1>4
  <2>3. mode' \in Modes /\ goal' \in {"prefetch", "generate"} /\ e.task.round \in Rounds(mode)
    BY <1>1, <1>2, <1>3, <1>6
  <2>4. UNCHANGED batch /\ queue' = [queue EXCEPT ![mode] = Append(@, e)] /\ 0 \in {0, 1}
    BY <1>1
  <2>5. /\ TypeFacts' /\ QueueFacts'
        /\ queue'[mode] # <<>> /\ \A m \in Modes \ {mode} : queue'[m] = queue[m]
        /\ \E j \in DOMAIN queue'[mode] : queue'[mode][j].task.round = e.task.round
        /\ \A m \in Modes : \A j \in DOMAIN queue[m] :
             j \in DOMAIN queue'[m] /\ queue'[m][j] = queue[m][j]
    BY <1>2, <1>3, <1>5, <1>6, <2>1, <2>2, <2>3, <2>4, PutKeeps
  <2> QED  BY <1>2, <2>5
<1>8. ModeFacts'
  BY <1>1, <1>3, <1>7 DEF ModeFacts, Prefetching, NonePending
<1>9. Complete'
  <2>1. Pending(mode, batch[mode])'
    BY <1>1, <1>7 DEF Pending
  <2>2. mode = "eval" /\ "infer" \notin failures => Pending("train", batch["train"])'
    BY <1>1, <1>3, <1>7 DEF Complete, Pending
  <2>3. /\ evalFlag /\ mode = "train" /\ "infer" \notin failures =>
             Pending("eval", batch["eval"])'
    BY <1>1, <1>3, <1>7 DEF Complete, Pending
  <2> QED  BY <1>1, <2>1, <2>2, <2>3 DEF Complete
<1>10. OneBehind'
  BY <1>1 DEF OneBehind
<1> QED  BY <1>7, <1>8, <1>9, <1>10

LEMMA SubmitKeeps ==
  ASSUME TypeFacts, QueueFacts, ModeFacts, Complete, Submit
  PROVE  TypeFacts' /\ QueueFacts' /\ ModeFacts' /\ Complete' /\ OneBehind'
<1> DEFINE t == [NewTask EXCEPT !.round = @ + 1]
<1>1. /\ pc = "generate" /\ pc' = "get"
      /\ batch' = [batch EXCEPT ![mode] = @ + 1]
      /\ tasks' = Append(tasks, t)
      /\ UNCHANGED <<mode, goal, evalFlag, queue, failures>>
  BY DEF Submit, server
<1>2. /\ mode \in Modes /\ goal \in {"prefetch", "generate"} /\ IsSeq(tasks)
      /\ batch \in [Modes -> Int] /\ Modes = {"train", "eval"}
  BY DEF TypeFacts, Modes
<1>3. t.mode = mode /\ t.round = batch[mode] + 1
  BY DEF NewTask
<1> HIDE DEF t
<1>4. /\ IsSeq(tasks') /\ Len(tasks) \in Nat /\ DOMAIN tasks = 1 .. Len(tasks)
      /\ DOMAIN tasks' = 1 .. Len(tasks) + 1
      /\ \A i \in 1 .. Len(tasks) : tasks'[i] = tasks[i]
      /\ tasks'[Len(tasks) + 1] = t
  BY <1>1, <1>2, SeqAppend
<1>5. /\ batch' \in [Modes -> Int] /\ batch'[mode] = batch[mode] + 1
      /\ \A m \in Modes \ {mode} : batch'[m] = batch[m]
  BY <1>1, <1>2
<1>6. /\ \A m \in Modes : Rounds(m) = {batch[m]}
      /\ \A m \in Modes : batch[m] \in Rounds(m)'
      /\ \A m \in Modes : m = mode => batch[m] + 1 \in Rounds(m)'
  <2>1. \A m \in Modes : Rounds(m) = {batch[m]}
    BY <1>1 DEF Rounds
  <2>2. ASSUME NEW m \in Modes, m = mode
        PROVE  batch[m] \in Rounds(m)' /\ batch[m] + 1 \in Rounds(m)'
    <3>1. batch'[m] = batch[m] + 1 /\ batch'[m] - 1 = batch[m]
      BY <1>2, <1>5, <2>2
    <3> QED  BY <1>1, <2>2, <3>1 DEF Rounds
  <2>3. ASSUME NEW m \in Modes, m # mode
        PROVE  batch[m] \in Rounds(m)'
    BY <1>5, <2>3 DEF Rounds
  <2> QED  BY <2>1, <2>2, <2>3
<1>7. TypeFacts'
  <2>1. \A i \in DOMAIN tasks' : tasks'[i].mode \in Modes /\ tasks'[i].round \in Int
    <3>1. t.mode \in Modes /\ t.round \in Int
      BY <1>2, <1>3
    <3> QED  BY <1>4, <3>1 DEF TypeFacts
  <2>2. IsSeq(tasks)'
    BY <1>4 DEF IsSeq
  <2>3. (\A m \in Modes : IsSeq(queue[m]))' /\ (queue = [m \in Modes |-> queue[m]])'
    BY <1>1 DEF TypeFacts, IsSeq, Modes
  <2>4. Modes' = Modes
    BY DEF Modes
  <2> QED  BY <1>1, <1>2, <1>5, <2>1, <2>2, <2>3, <2>4 DEF TypeFacts
<1>8. QueueFacts'
  <2> SUFFICES ASSUME NEW m \in Modes
               PROVE  /\ \A i \in DOMAIN queue[m] : queue[m][i].task.round \in Rounds(m)'
                      /\ \A i, j \in DOMAIN queue[m] : i < j =>
                           queue[m][i].task.round < queue[m][j].task.round
                      /\ \A i \in DOMAIN tasks' : tasks'[i].mode = m =>
                           /\ tasks'[i].round \in Rounds(m)'
                           /\ \A j \in DOMAIN queue[m] : queue[m][j].task.round < tasks'[i].round
                           /\ \A j \in DOMAIN tasks' : i < j /\ tasks'[j].mode = m =>
                                tasks'[i].round < tasks'[j].round
    BY <1>1 DEF QueueFacts, Modes
  <2>1. batch[m] \in Rounds(m)' /\ batch[m] \in Int /\ batch[m] < batch[m] + 1
    BY <1>2, <1>6
  <2>2. \A i \in DOMAIN queue[m] : queue[m][i].task.round = batch[m]
    BY <1>6 DEF QueueFacts
  <2>3. \A i \in DOMAIN tasks : tasks[i].mode = m => tasks[i].round = batch[m]
    BY <1>6 DEF QueueFacts
  <2>4. \A i, j \in DOMAIN queue[m] : i < j => queue[m][i].task.round < queue[m][j].task.round
    BY DEF QueueFacts
  <2>5. ASSUME NEW i \in DOMAIN tasks', tasks'[i].mode = m
        PROVE  /\ tasks'[i].round \in Rounds(m)'
               /\ \A j \in DOMAIN queue[m] : queue[m][j].task.round < tasks'[i].round
               /\ \A j \in DOMAIN tasks' : i < j /\ tasks'[j].mode = m =>
                    tasks'[i].round < tasks'[j].round
    <3>1. CASE i \in DOMAIN tasks
      <4>1. tasks'[i] = tasks[i] /\ tasks[i].round = batch[m]
        BY <1>4, <2>3, <2>5, <3>1
      <4>2. \A j \in DOMAIN queue[m] : queue[m][j].task.round < tasks'[i].round
        BY <2>5, <3>1, <4>1 DEF QueueFacts
      <4>3. ASSUME NEW j \in DOMAIN tasks', i < j, tasks'[j].mode = m
            PROVE  tasks'[i].round < tasks'[j].round
        <5>1. CASE j \in DOMAIN tasks
          BY <1>4, <2>5, <3>1, <4>3, <5>1 DEF QueueFacts
        <5>2. CASE j = Len(tasks) + 1
          BY <1>3, <1>4, <2>1, <4>1, <4>3, <5>2
        <5> QED  BY <1>4, <5>1, <5>2
      <4> QED  BY <2>1, <4>1, <4>2, <4>3
    <3>2. CASE i = Len(tasks) + 1
      <4>1. tasks'[i] = t /\ m = mode /\ t.round = batch[m] + 1
        BY <1>3, <1>4, <2>5, <3>2
      <4>2. \A j \in DOMAIN tasks' : ~ (i < j)
        BY <1>4, <3>2
      <4> QED  BY <1>6, <2>1, <2>2, <4>1, <4>2
    <3> QED  BY <1>4, <3>1, <3>2
  <2> QED  BY <2>1, <2>2, <2>4, <2>5
<1>9. ModeFacts'
  <2>1. \A m \in Modes \ {mode} : NonePending(m) => NonePending(m)'
    BY <1>1, <1>3, <1>4 DEF NonePending
  <2>2. ~ Prefetching'
    BY <1>1 DEF Prefetching
  <2> QED  BY <1>1, <1>2, <2>1, <2>2 DEF ModeFacts
<1>10. Complete'
  <2>1. \A m \in Modes, r \in Int : Pending(m, r) => Pending(m, r)'
    BY <1>1, <1>4 DEF Pending
  <2>2. Pending(mode, batch[mode])'
    <3>1. Len(tasks) + 1 \in DOMAIN tasks' /\ tasks'[Len(tasks) + 1].mode = mode'
          /\ tasks'[Len(tasks) + 1].round = batch'[mode']
      BY <1>1, <1>3, <1>4, <1>5
    <3> QED  BY <3>1 DEF Pending
  <2>3. "infer" \notin failures => Pending(mode, batch[mode] - 1)'
    <3>1. "infer" \notin failures => Pending(mode, batch[mode])
      BY <1>1 DEF Complete, Prefetching
    <3>2. batch'[mode] - 1 = batch[mode] /\ batch[mode] \in Int
      BY <1>2, <1>5
    <3> QED  BY <1>1, <1>2, <2>1, <3>1, <3>2
  <2>4. \A m \in Modes \ {mode} : batch'[m] = batch[m] /\ batch[m] \in Int
    BY <1>2, <1>5
  <2>5. mode = "eval" /\ "infer" \notin failures => Pending("train", batch["train"])'
    BY <1>2, <2>1, <2>4 DEF Complete
  <2>6. evalFlag /\ mode = "train" /\ "infer" \notin failures => Pending("eval", batch["eval"])'
    BY <1>2, <2>1, <2>4 DEF Complete
  <2> QED  BY <1>1, <2>2, <2>3, <2>5, <2>6 DEF Complete
<1>11. OneBehind'
  BY <1>1 DEF OneBehind
<1> QED  BY <1>7, <1>8, <1>9, <1>10, <1>11

LEMMA GetKeeps ==
  ASSUME TypeFacts, QueueFacts, ModeFacts, Complete, Get
  PROVE  TypeFacts' /\ QueueFacts' /\ ModeFacts' /\ Complete' /\ OneBehind'
<1> DEFINE q == queue[mode]
           b == batch[mode]
<1>1. /\ pc = "get" /\ q # <<>> /\ got' = Head(q)
      /\ queue' = [queue EXCEPT ![mode] = Tail(@)]
      /\ pc' = (IF mode = "train" THEN "step" ELSE "evaluated")
      /\ UNCHANGED <<mode, goal, batch, evalFlag, tasks, failures>>
  BY DEF Get, server
<1>2. /\ mode \in Modes /\ goal \in {"prefetch", "generate"} /\ b \in Int
      /\ DOMAIN queue = Modes /\ Modes = {"train", "eval"}
      /\ IsSeq(q)
  BY DEF TypeFacts, Modes
<1>3. /\ IsSeq(queue'[mode]) /\ Len(q) \in Nat \ {0} /\ DOMAIN q = 1 .. Len(q)
      /\ DOMAIN queue'[mode] = 1 .. Len(q) - 1
      /\ \A i \in 1 .. Len(q) - 1 : queue'[mode][i] = q[i + 1]
      /\ got' = q[1] /\ 1 \in DOMAIN q
  <2>1. queue'[mode] = Tail(q)
    BY <1>1, <1>2
  <2> HIDE DEF q
  <2>2. /\ IsSeq(Tail(q)) /\ Len(q) \in Nat \ {0} /\ DOMAIN q = 1 .. Len(q)
        /\ DOMAIN Tail(q) = 1 .. Len(q) - 1
        /\ \A i \in 1 .. Len(q) - 1 : Tail(q)[i] = q[i + 1]
        /\ Head(q) = q[1]
    BY <1>1, <1>2, SeqTail
  <2>3. IsSeq(queue'[mode])
    BY <2>1, <2>2
  <2>4. DOMAIN queue'[mode] = 1 .. Len(q) - 1
        /\ \A i \in 1 .. Len(q) - 1 : queue'[mode][i] = q[i + 1]
    BY <2>1, <2>2
  <2>5. got' = q[1] /\ 1 \in DOMAIN q
    BY <1>1, <2>2
  <2> QED  BY <2>2, <2>3, <2>4, <2>5
<1>4. \A m \in Modes \ {mode} : queue'[m] = queue[m]
  BY <1>1, <1>2
<1>5. /\ \A m \in Modes : Rounds(m)' = {batch[m]}
      /\ \A m \in Modes \ {mode} : Rounds(m) = {batch[m]}
      /\ Rounds(mode) = {b, b - 1}
  BY <1>1 DEF Rounds
<1>6. /\ \A i \in DOMAIN q : q[i].task.round \in {b, b - 1} /\ q[i].task.mode = mode
      /\ \A i, j \in DOMAIN q : i < j => q[i].task.round < q[j].task.round
      /\ \A i \in DOMAIN tasks : tasks[i].mode = mode =>
           tasks[i].round \in {b, b - 1} /\ \A j \in DOMAIN q : q[j].task.round < tasks[i].round
  BY <1>2, <1>5 DEF QueueFacts, TypeFacts
<1>7. /\ \A i \in DOMAIN q : i = 1 \/ q[i].task.round = b
      /\ \A i \in DOMAIN tasks : tasks[i].mode = mode => tasks[i].round = b
  <2>1. q[1].task.round \in {b, b - 1}
    BY <1>3, <1>6
  <2>2. ASSUME NEW i \in DOMAIN q, i # 1
        PROVE  q[i].task.round = b
    <3>1. 1 < i
      BY <1>3, <2>2
    <3>2. q[1].task.round < q[i].task.round
      BY <1>3, <1>6, <3>1
    <3>3. q[i].task.round \in {b, b - 1}
      BY <1>6
    <3> HIDE DEF q, b
    <3> QED  BY <1>2, <2>1, <3>2, <3>3
  <2>3. ASSUME NEW i \in DOMAIN tasks, tasks[i].mode = mode
        PROVE  tasks[i].round = b
    <3>1. q[1].task.round < tasks[i].round /\ tasks[i].round \in {b, b - 1}
      BY <1>3, <1>6, <2>3
    <3> HIDE DEF q, b
    <3> QED  BY <1>2, <2>1, <3>1
  <2> QED  BY <2>2, <2>3
<1>8. \A i \in DOMAIN queue'[mode] : i \in Int /\ i + 1 \in DOMAIN q /\ i + 1 # 1 /\ queue'[mode][i] = q[i + 1]
  BY <1>3
<1>9. TypeFacts'
  <2>1. queue' = [m \in Modes |-> queue'[m]] /\ \A m \in Modes : IsSeq(queue'[m])
    BY <1>1, <1>2, <1>3, <1>4 DEF TypeFacts
  <2>2. \A m \in Modes : \A i \in DOMAIN queue'[m] :
          queue'[m][i].task.mode = m /\ queue'[m][i].task.round \in Int
    BY <1>4, <1>8 DEF TypeFacts
  <2>3. IsSeq(tasks)' /\ \A m \in Modes : IsSeq(queue[m])'
    <3>1. IsSeq(tasks)'
      BY <1>1 DEF TypeFacts, IsSeq
    <3>2. \A m \in Modes : IsSeq(queue[m])'
      BY <2>1 DEF IsSeq
    <3> QED  BY <3>1, <3>2
  <2>4. Modes' = Modes
    BY DEF Modes
  <2> QED  BY <1>1, <2>1, <2>2, <2>3, <2>4 DEF TypeFacts
<1>10. QueueFacts'
  <2> SUFFICES ASSUME NEW m \in Modes
               PROVE  /\ \A i \in DOMAIN queue'[m] : queue'[m][i].task.round = batch[m]
                      /\ \A i, j \in DOMAIN queue'[m] : i < j =>
                           queue'[m][i].task.round < queue'[m][j].task.round
                      /\ \A i \in DOMAIN tasks : tasks[i].mode = m =>
                           /\ tasks[i].round = batch[m]
                           /\ \A j \in DOMAIN queue'[m] : queue'[m][j].task.round < tasks[i].round
                           /\ \A j \in DOMAIN tasks : i < j /\ tasks[j].mode = m =>
                                tasks[i].round < tasks[j].round
    BY <1>1, <1>5 DEF QueueFacts, Modes
  <2>1. CASE m # mode
    <3>1. queue'[m] = queue[m] /\ Rounds(m) = {batch[m]}
      BY <1>4, <1>5, <2>1
    <3> QED  BY <3>1 DEF QueueFacts
  <2>2. CASE m = mode
    <3>1. \A i \in DOMAIN queue'[m] : queue'[m][i].task.round = batch[m]
      BY <1>7, <1>8, <2>2
    <3>2. \A i, j \in DOMAIN queue'[m] : i < j => queue'[m][i].task.round < queue'[m][j].task.round
      <4>1. \A i, j \in DOMAIN queue'[m] : i < j => i + 1 < j + 1
        BY <1>8, <2>2
      <4> QED  BY <1>6, <1>8, <2>2, <4>1
    <3>3. \A i \in DOMAIN tasks : tasks[i].mode = m =>
            \A j \in DOMAIN queue'[m] : queue'[m][j].task.round < tasks[i].round
      BY <1>6, <1>8, <2>2
    <3>4. \A i, j \in DOMAIN tasks : tasks[i].mode = m /\ i < j /\ tasks[j].mode = m =>
            tasks[i].round < tasks[j].round
      BY DEF QueueFacts
    <3> QED  BY <1>7, <2>2, <3>1, <3>2, <3>3, <3>4
  <2> QED  BY <2>1, <2>2
<1>11. "infer" \notin failures => q[1].task.round = b - 1
  <2> SUFFICES ASSUME "infer" \notin failures, q[1].task.round # b - 1 PROVE FALSE
    OBVIOUS
  <2>1. q[1].task.round = b
    BY <1>3, <1>6
  <2>2. Pending(mode, b - 1)
    BY <1>1 DEF Complete
  <2>3. b # b - 1
    <3> HIDE DEF b
    <3> QED  BY <1>2
  <2> QED  BY <1>7, <2>1, <2>2, <2>3 DEF Pending
<1>12. \A m \in Modes : \A r : Pending(m, r) =>
         Pending(m, r)' \/ (m = mode /\ r = q[1].task.round)
  <2>1. \A i \in DOMAIN q : i = 1 \/ (i - 1 \in DOMAIN queue'[mode] /\ queue'[mode][i - 1] = q[i])
    BY <1>3
  <2>2. ASSUME NEW m \in Modes, NEW r, Pending(m, r), m # mode
        PROVE  Pending(m, r)'
    <3>1. queue'[m] = queue[m] /\ tasks' = tasks
      BY <1>1, <1>4, <2>2
    <3> QED  BY <2>2, <3>1 DEF Pending
  <2>3. ASSUME NEW r, Pending(mode, r), r # q[1].task.round
        PROVE  \/ \E i \in DOMAIN queue'[mode] : queue'[mode][i].task.round = r
               \/ \E i \in DOMAIN tasks : tasks[i].mode = mode /\ tasks[i].round = r
    BY <2>1, <2>3 DEF Pending
  <2>4. ASSUME NEW m \in Modes, NEW r, Pending(m, r), m = mode, r # q[1].task.round
        PROVE  Pending(m, r)'
    <3>1. tasks' = tasks
      BY <1>1
    <3> QED  BY <2>3, <2>4, <3>1 DEF Pending
  <2> QED  BY <2>2, <2>4
<1>13. ModeFacts'
  BY <1>1, <1>2, <1>4 DEF ModeFacts, Prefetching, NonePending
<1>14. Complete'
  <2> SUFFICES ASSUME "infer" \notin failures PROVE Complete'
    BY <1>1 DEF Complete
  <2>1. Pending(mode, b) /\ (mode = "eval" => Pending("train", batch["train"]))
        /\ (evalFlag /\ mode = "train" => Pending("eval", batch["eval"]))
    BY <1>1 DEF Complete, Prefetching
  <2>2. b # q[1].task.round
    <3> HIDE DEF b, q
    <3> QED  BY <1>2, <1>11
  <2>3. Pending(mode, batch[mode])'
    BY <1>1, <1>2, <1>12, <2>1, <2>2
  <2>4. mode = "eval" => Pending("train", batch["train"])'
    BY <1>1, <1>2, <1>12, <2>1
  <2>5. evalFlag /\ mode = "train" => Pending("eval", batch["eval"])'
    BY <1>1, <1>2, <1>12, <2>1
  <2> QED  BY <1>1, <2>3, <2>4, <2>5 DEF Complete
<1>15. OneBehind'
  <2>1. got'.task.mode = mode /\ got'.task.round \in {b, b - 1}
    BY <1>3, <1>6
  <2> QED  BY <1>1, <1>3, <1>11, <2>1 DEF OneBehind
<1> QED  BY <1>9, <1>10, <1>13, <1>14, <1>15

LEMMA RolloutDoneKeeps ==
  ASSUME TypeFacts, QueueFacts, ModeFacts, Complete, OneBehind, tasks # <<>>, RolloutDone
  PROVE  TypeFacts' /\ QueueFacts' /\ ModeFacts' /\ Complete' /\ OneBehind'
<1> DEFINE t == Head(tasks)
           e == Cache(t)
<1>1. /\ queue' = [queue EXCEPT ![t.mode] = Append(@, e)]
      /\ tasks' = Tail(tasks)
      /\ UNCHANGED <<pc, mode, goal, batch, evalFlag, got, failures>>
  BY DEF RolloutDone, Respond
<1>2. e.task = t
  BY DEF Cache
<1>3. /\ mode \in Modes /\ goal \in {"prefetch", "generate"} /\ IsSeq(tasks)
      /\ Modes = {"train", "eval"}
  BY DEF TypeFacts, Modes
<1>4. /\ Dropped(1) /\ t = tasks[1] /\ 1 \in DOMAIN tasks
      /\ \A i \in DOMAIN tasks : i = 1 \/ (i - 1 \in DOMAIN tasks' /\ tasks'[i - 1] = tasks[i])
  BY <1>1, <1>3, DropTask
<1>5. t.mode \in Modes /\ t.round \in Rounds(t.mode)
  <2>1. tasks[1].mode \in Modes
    BY <1>4 DEF TypeFacts
  <2>2. tasks[1].round \in Rounds(tasks[1].mode)
    BY <1>4, <2>1 DEF QueueFacts
  <2> QED  BY <1>4, <2>1, <2>2
<1>6. \A m \in Modes : Rounds(m)' = Rounds(m)
  BY <1>1 DEF Rounds
<1> HIDE DEF t, e
<1>7. /\ TypeFacts' /\ QueueFacts'
      /\ queue'[t.mode] # <<>> /\ \A m \in Modes \ {t.mode} : queue'[m] = queue[m]
      /\ \E j \in DOMAIN queue'[t.mode] : queue'[t.mode][j].task.round = t.round
      /\ \A m \in Modes : \A j \in DOMAIN queue[m] :
           j \in DOMAIN queue'[m] /\ queue'[m][j] = queue[m][j]
  <2>1. \A j \in DOMAIN queue[t.mode] : queue[t.mode][j].task.round < e.task.round
    BY <1>2, <1>4, <1>5 DEF QueueFacts
  <2>2. \A i \in DOMAIN tasks' : tasks'[i].mode = t.mode => e.task.round < tasks'[i].round
    <3>1. \A i \in DOMAIN tasks' : i + 1 \in DOMAIN tasks /\ 1 < i + 1 /\ tasks'[i] = tasks[i + 1]
      <4>1. DOMAIN tasks = 1 .. Len(tasks) /\ DOMAIN tasks' = 1 .. Len(tasks) - 1 /\ Len(tasks) \in Nat
        BY <1>1, <1>3, SeqTail
      <4> QED  BY <1>4, <4>1 DEF Dropped
    <3> QED  BY <1>2, <1>4, <1>5, <3>1 DEF QueueFacts
  <2>3. mode' \in Modes /\ goal' \in {"prefetch", "generate"} /\ UNCHANGED batch /\ 1 \in {0, 1}
    BY <1>1, <1>3
  <2>4. e.task.mode = t.mode /\ e.task.round = t.round
    BY <1>2
  <2>5. e.task.round \in Rounds(t.mode)
    BY <1>5, <2>4
  <2>6. queue' = [queue EXCEPT ![t.mode] = Append(@, e)]
    BY <1>1
  <2>7. /\ TypeFacts' /\ QueueFacts'
        /\ queue'[t.mode] # <<>> /\ \A m \in Modes \ {t.mode} : queue'[m] = queue[m]
        /\ \E j \in DOMAIN queue'[t.mode] : queue'[t.mode][j].task.round = e.task.round
        /\ \A m \in Modes : \A j \in DOMAIN queue[m] :
             j \in DOMAIN queue'[m] /\ queue'[m][j] = queue[m][j]
    BY <1>4, <1>5, <1>6, <2>1, <2>2, <2>3, <2>4, <2>5, <2>6, PutKeeps
  <2> QED  BY <2>4, <2>7
<1>8. \A m \in Modes : \A r : Pending(m, r) => Pending(m, r)'
  <2> SUFFICES ASSUME NEW m \in Modes, NEW r, Pending(m, r)
               PROVE  Pending(m, r)'
    OBVIOUS
  <2>1. CASE \E i \in DOMAIN queue[m] : queue[m][i].task.round = r
    BY <1>7, <2>1 DEF Pending
  <2>2. ASSUME NEW i \in DOMAIN tasks, tasks[i].mode = m, tasks[i].round = r
        PROVE  Pending(m, r)'
    <3>1. CASE i = 1
      BY <1>4, <1>7, <2>2, <3>1 DEF Pending
    <3>2. CASE i # 1
      BY <1>4, <2>2, <3>2 DEF Pending
    <3> QED  BY <3>1, <3>2
  <2> QED  BY <2>1, <2>2 DEF Pending
<1>9. \A m \in Modes : NonePending(m) => NonePending(m)'
  <2> SUFFICES ASSUME NEW m \in Modes, NonePending(m)
               PROVE  queue'[m] = <<>> /\ \A i \in DOMAIN tasks' : tasks'[i].mode # m
    BY DEF NonePending
  <2>1. t.mode # m
    BY <1>4 DEF NonePending
  <2>2. \A i \in DOMAIN tasks' : tasks'[i].mode # m
    BY <1>4 DEF Dropped, NonePending
  <2> QED  BY <1>7, <2>1, <2>2 DEF NonePending
<1>10. ModeFacts'
  <2>1. queue["eval"] # <<>> => queue'["eval"] # <<>>
    BY <1>3, <1>7
  <2> QED  BY <1>1, <1>3, <1>9, <2>1 DEF ModeFacts, Prefetching
<1>11. Complete'
  BY <1>1, <1>3, <1>8 DEF Complete, Prefetching
<1>12. OneBehind'
  BY <1>1 DEF OneBehind
<1> QED  BY <1>7, <1>10, <1>11, <1>12

LEMMA RolloutFailsKeeps ==
  ASSUME TypeFacts, QueueFacts, ModeFacts, OneBehind, tasks # <<>>, "infer" \in failures,
         RolloutFails
  PROVE  TypeFacts' /\ QueueFacts' /\ ModeFacts' /\ Complete' /\ OneBehind'
<1>1. /\ tasks' = Tail(tasks)
      /\ UNCHANGED <<pc, mode, goal, batch, evalFlag, queue, got, failures>>
  BY DEF RolloutFails, Respond
<1>2. Dropped(1)
  BY <1>1, DropTask DEF TypeFacts
<1>3. \A m \in Modes : Rounds(m)' = Rounds(m)
  BY <1>1 DEF Rounds
<1>4. TypeFacts'
  <2>1. \A i \in DOMAIN tasks' : tasks'[i].mode \in Modes /\ tasks'[i].round \in Int
    BY <1>2 DEF TypeFacts, Dropped
  <2>2. IsSeq(tasks)'
    BY <1>2 DEF Dropped, IsSeq
  <2>3. (\A m \in Modes : IsSeq(queue[m]))' /\ Modes' = Modes
    BY <1>1 DEF TypeFacts, IsSeq, Modes
  <2> QED  BY <1>1, <2>1, <2>2, <2>3 DEF TypeFacts
<1>5. QueueFacts'
  <2> SUFFICES ASSUME NEW m \in Modes
               PROVE  /\ \A i \in DOMAIN queue[m] : queue[m][i].task.round \in Rounds(m)
                      /\ \A i, j \in DOMAIN queue[m] : i < j =>
                           queue[m][i].task.round < queue[m][j].task.round
                      /\ \A i \in DOMAIN tasks' : tasks'[i].mode = m =>
                           /\ tasks'[i].round \in Rounds(m)
                           /\ \A j \in DOMAIN queue[m] : queue[m][j].task.round < tasks'[i].round
                           /\ \A j \in DOMAIN tasks' : i < j /\ tasks'[j].mode = m =>
                                tasks'[i].round < tasks'[j].round
    BY <1>1, <1>3 DEF QueueFacts, Modes
  <2>1. /\ \A i \in DOMAIN queue[m] : queue[m][i].task.round \in Rounds(m)
        /\ \A i, j \in DOMAIN queue[m] : i < j => queue[m][i].task.round < queue[m][j].task.round
    BY DEF QueueFacts
  <2>2. ASSUME NEW i \in DOMAIN tasks', tasks'[i].mode = m
        PROVE  /\ tasks'[i].round \in Rounds(m)
               /\ \A j \in DOMAIN queue[m] : queue[m][j].task.round < tasks'[i].round
               /\ \A j \in DOMAIN tasks' : i < j /\ tasks'[j].mode = m =>
                    tasks'[i].round < tasks'[j].round
    <3>1. i + 1 \in DOMAIN tasks /\ tasks'[i] = tasks[i + 1] /\ i \in Int
      BY <1>2 DEF Dropped
    <3>2. \A j \in DOMAIN tasks' : i < j => i + 1 < j + 1
      BY <1>2, <3>1 DEF Dropped
    <3> QED  BY <1>2, <2>2, <3>1, <3>2 DEF Dropped, QueueFacts
  <2> QED  BY <2>1, <2>2
<1>6. ModeFacts'
  <2>1. \A m : NonePending(m) => NonePending(m)'
    BY <1>1, <1>2 DEF NonePending, Dropped
  <2> QED  BY <1>1, <2>1 DEF ModeFacts, Prefetching
<1>7. Complete'
  BY <1>1 DEF Complete
<1>8. OneBehind'
  BY <1>1 DEF OneBehind
<1> QED  BY <1>4, <1>5, <1>6, <1>7, <1>8

-----------------------------------------------------------------------------
LEMMA InitAsync == Init => AsyncInv
<1> SUFFICES ASSUME Init PROVE AsyncInv
  OBVIOUS
<1>1. ServerFacts /\ Asking
  BY EmptyIsSeq DEF Init, ServerInit, ServerFacts, PipeOf, ReplyOf, Asking
<1>2. TypeFacts /\ QueueFacts
  BY EmptyIsSeq DEF Init, TypeFacts, QueueFacts, Modes
<1>3. ModeFacts /\ Complete /\ OneBehind
  BY EmptyIsSeq DEF Init, ModeFacts, Complete, OneBehind, Prefetching, NonePending, Modes
<1> QED  BY <1>1, <1>2, <1>3 DEF AsyncInv

\* Every step keeps the server's facts, and forgets no failure.
LEMMA ServerStep ==
  ASSUME NoneIsNoList, AsyncInv, Next
  PROVE  ServerFacts' /\ failures \subseteq failures' /\ Asking'
<1>0. ServerFacts /\ Asking /\ IsSeq(tasks)
  BY DEF AsyncInv, TypeFacts
<1>1. CASE StartSync \/ Submit \/ Get \/ TrainingStep \/ OptimiserStep \/ Evaluate \/ Evaluated
  <2>1. UNCHANGED server /\ (tasks' = tasks \/ \E t : tasks' = Append(tasks, t))
    BY <1>1 DEF StartSync, Submit, Get, TrainingStep, OptimiserStep, Evaluate, Evaluated
  <2>2. UNCHANGED <<pipe, reply, serving, failures>>
    BY <2>1 DEF server
  <2>3. ServerFacts'
    BY <1>0, <2>2 DEF ServerFacts, PipeOf, ReplyOf
  <2>4. Asking'
    BY <1>0, <2>1, <2>2, SeqAppend DEF Asking
  <2> QED  BY <2>2, <2>3, <2>4
<1>2. CASE UpdatePart \/ Reset \/ Prefetch
  <2>1. /\ \/ \E k, v : PostUpdate(k, v)
           \/ \E client : PostReset(client)
           \/ \E client, requests : PostInfer(client, requests)
        /\ failures' = failures
    BY <1>2 DEF UpdatePart, Reset, Prefetch, PostUpdate, PostReset, PostInfer
  <2>2. serving' = Idle \/ serving'.client = "main"
    BY <1>2 DEF UpdatePart, Reset, Prefetch, PostUpdate, PostReset, PostInfer
  <2>3. Asking'
    BY <2>2 DEF Asking
  <2> QED  BY <1>0, <2>1, <2>3, PostKeeps
<1>3. CASE Ask
  <2>1. /\ \E client, requests : PostInfer(client, requests)
        /\ failures' = failures /\ tasks' = tasks /\ tasks # <<>>
    BY <1>3 DEF Ask, PostInfer, trainer
  <2> QED  BY <1>0, <2>1, PostKeeps DEF Asking
<1>4. CASE BroadcastPart
  <2>1. Broadcast /\ UNCHANGED <<serving, failures, tasks>>
    BY <1>4 DEF BroadcastPart, Broadcast
  <2> QED  BY <1>0, <2>1, BroadcastKeeps DEF Asking
<1>5. CASE SyncEnds \/ Prefetched \/ PrefetchFails \/ RolloutDone \/ RolloutFails
  <2>1. Respond /\ serving # Idle /\ \A w \in Workers : reply[w] # <<>>
    BY <1>5 DEF SyncEnds, Prefetched, PrefetchFails, RolloutDone, RolloutFails, Answered
  <2>2. serving' = Idle /\ failures' = failures
    BY <2>1 DEF Respond
  <2> QED  BY <1>0, <2>1, <2>2, RespondKeeps DEF Asking
<1>6. CASE Obeys \/ Leaves
  <2>1. PICK w \in Workers : (Worker(w) \/ LeavesUpdate(w)) /\ UNCHANGED trainer
    BY <1>6 DEF Obeys, Leaves
  <2>2. ServerFacts' /\ failures \subseteq failures' /\ UNCHANGED serving
    BY <1>0, <2>1, WorkerKeeps, LeavesKeeps
  <2> QED  BY <1>0, <2>1, <2>2 DEF Asking, trainer
<1> QED  BY <1>1, <1>2, <1>3, <1>4, <1>5, <1>6 DEF Next, Main, Thread, Obeys, Leaves

LEMMA AsyncStep ==
  ASSUME NoneIsNoList, AsyncInv, [Next]_vars
  PROVE  AsyncInv'
<1>0. TypeFacts /\ QueueFacts /\ ModeFacts /\ Complete /\ OneBehind /\ ServerFacts /\ Asking
  BY DEF AsyncInv
<1>1. CASE Next
  <2>1. ServerFacts' /\ failures \subseteq failures' /\ Asking'
    BY <1>1, ServerStep
  <2>2. CASE QuietMain
    <3>1. TypeFacts' /\ QueueFacts'
      BY <1>0, <2>2, QuietMainFacts, QuietKeeps
    <3> QED  BY <1>0, <2>1, <2>2, <3>1, QuietMainModes, QuietMainComplete, QuietMainBehind
             DEF AsyncInv
  <2>3. CASE Prefetched
    BY <1>0, <2>1, <2>3, PrefetchedKeeps DEF AsyncInv
  <2>4. CASE Submit
    BY <1>0, <2>1, <2>4, SubmitKeeps DEF AsyncInv
  <2>5. CASE Get
    BY <1>0, <2>1, <2>5, GetKeeps DEF AsyncInv
  <2>6. CASE RolloutDone
    <3>1. tasks # <<>>
      BY <1>0, <2>6 DEF RolloutDone, Answered, Asking
    <3> QED  BY <1>0, <2>1, <2>6, <3>1, RolloutDoneKeeps DEF AsyncInv
  <2>7. CASE RolloutFails
    <3>1. tasks # <<>>
      BY <1>0, <2>7 DEF RolloutFails, Answered, Asking
    <3>2. "infer" \in failures
      BY <1>0, <2>7, RaisedIsFailure DEF RolloutFails
    <3> QED  BY <1>0, <2>1, <2>7, <3>1, <3>2, RolloutFailsKeeps DEF AsyncInv
  <2>8. CASE Ask \/ Obeys \/ Leaves
    <3>1. UNCHANGED trainer
      BY <2>8 DEF Ask, Obeys, Leaves
    <3> QED  BY <1>0, <2>1, <3>1, OthersKeep DEF AsyncInv
  <2> QED  BY <1>1, <2>2, <2>3, <2>4, <2>5, <2>6, <2>7, <2>8
           DEF Next, Main, Thread, QuietMain, Obeys, Leaves
<1>2. CASE UNCHANGED vars
  <2>1. UNCHANGED trainer /\ UNCHANGED <<pipe, reply, serving, failures, tasks>>
    BY <1>2 DEF vars, server, trainer
  <2>2. ServerFacts' /\ Asking'
    BY <1>0, <2>1 DEF ServerFacts, PipeOf, ReplyOf, Asking
  <2> QED  BY <1>0, <2>1, <2>2, OthersKeep DEF AsyncInv
<1> QED  BY <1>1, <1>2

\* A round takes the batch that the round before it asked for, in training as
\* in evaluation, and its own only after a rollout failed.
THEOREM RoundsOneBehind ==
  ASSUME NoneIsNoList
  PROVE  Spec => []OneBehind
<1>1. AsyncInv /\ [Next]_vars => AsyncInv'
  BY AsyncStep
<1>2. AsyncInv => OneBehind
  BY DEF AsyncInv
<1> QED  BY InitAsync, <1>1, <1>2, PTL DEF Spec

-----------------------------------------------------------------------------
\* What the server works on: a request of the main thread belongs to the point
\* where it waits, and the executor's one to the first task.
ServingFacts ==
  serving # Idle =>
    \/ serving.kind = "reset" /\ serving.client = "main" /\ pc = "resetting"
    \/ /\ serving.kind = "infer" /\ serving.client = "main" /\ pc = "prefetching"
       /\ serving.requests = Requests(NewTask)
    \/ /\ serving.kind = "infer" /\ serving.client = "thread" /\ tasks # <<>>
       /\ serving.requests = Requests(Head(tasks))

Syncing == pc \in {"update", "broadcast", "reset", "resetting"}

\* No rollout is under way while the weights are sent, and every rollout is for
\* the step whose weights were sent last.
SyncFacts ==
  /\ part \in Parts
  /\ Syncing => tasks = <<>>
  /\ mode = "eval" /\ pc # "evalwait" => queue["train"] # <<>>
  /\ \A i \in DOMAIN tasks : tasks[i].step = loadedStep
  /\ pc = "prefetching" => step = loadedStep

\* Outside a synchronisation a worker has the weights of loadedStep, whole.
Settled(w) ==
  /\ loading[w] = <<>> /\ model[w] = [p \in Parts |-> loadedStep] /\ cache[w] \subseteq {model[w]}
  /\ \A i \in DOMAIN pipe[w] : pipe[w][i].type = "infer"
  /\ reply[w] # <<>> /\ Head(reply[w]) # None =>
       \A i \in DOMAIN Head(reply[w]) : Head(reply[w])[i].used = {model[w]}

NewPart(p) == [type |-> "update", part |-> p, version |-> step]

SentParts == IF pc = "update" THEN 1 .. part - 1
             ELSE IF pc = "broadcast" THEN 1 .. part ELSE Parts

\* In a synchronisation each part that was sent is loaded, in the worker's hands
\* or, before the broadcast, in its pipe, unless the worker left the update, which
\* stops the broadcast; once it has answered the reset it has all of them.
Updating(w) ==
  /\ loading[w] = <<>> \/ \E p \in Parts : loading[w] = <<NewPart(p)>>
  /\ pc = "broadcast" => pipe[w] \in {<<NewPart(part)>>, <<>>}
  /\ pc = "resetting" /\ reply[w] = <<>> => pipe[w] = <<[type |-> "reset"]>>
  /\ pc \in {"update", "reset"} => pipe[w] = <<>>
  /\ pc = "resetting" /\ reply[w] # <<>> =>
       pipe[w] = <<>> /\ loading[w] = <<>> /\ cache[w] = {}
  /\ \A p \in SentParts :
       \/ model[w][p] = step
       \/ loading[w] = <<NewPart(p)>>
       \/ pc = "broadcast" /\ p = part

Clean == failures \cap {"load", "reset"} = {}

WeightTypes ==
  /\ loading = [w \in Workers |-> loading[w]]
  /\ cache = [w \in Workers |-> cache[w]]
  /\ model = [w \in Workers |-> [p \in Parts |-> model[w][p]]]

Weights ==
  Clean => \A w \in Workers : IF Syncing THEN Updating(w) ELSE Settled(w)

InOrder(b) == [i \in DOMAIN b.results |-> b.results[i].request] = Requests(b.task)

OfOneModel(b) ==
  Clean => \A i \in DOMAIN b.results : b.results[i].used = {[p \in Parts |-> b.task.step]}

Results == \A b \in Batches : InOrder(b) /\ OfOneModel(b)

OutputsInv ==
  AsyncInv /\ InferFacts /\ ServingFacts /\ SyncFacts /\ WeightTypes /\ Weights /\ Results

-----------------------------------------------------------------------------
LEMMA RequestsIsSeq ==
  ASSUME NEW task, task.mode \in Modes
  PROVE  IsSeq(Requests(task)) /\ Requests(task) = [i \in DOMAIN Requests(task) |-> Requests(task)[i]]
<1> DEFINE n == Size[task.mode]
           r == Requests(task)
<1>1. n \in Nat
  BY AsyncAssumption
<1>2. r = [i \in 1 .. n |-> r[i]]
  BY DEF Requests
<1> HIDE DEF n, r
<1>3. r \in [1 .. n -> {r[i] : i \in DOMAIN r}]
  BY <1>2
<1>4. r \in Seq({r[i] : i \in DOMAIN r})
  BY <1>1, <1>3, SeqDef
<1> QED  BY <1>2, <1>4 DEF IsSeq, r

\* The steps in which the trainer works by itself.
Alone == StartSync \/ Submit \/ Get \/ TrainingStep \/ OptimiserStep \/ Evaluate \/ Evaluated

\* The steps in which a handler of the server ends.
Ends == SyncEnds \/ Prefetched \/ PrefetchFails \/ RolloutDone \/ RolloutFails

LEMMA AloneFacts ==
  ASSUME Alone
  PROVE  /\ UNCHANGED <<pipe, loading, model, cache, reply, serving, failures>>
         /\ UNCHANGED loadedStep
         /\ pc \notin {"update", "broadcast", "reset", "resetting", "prefetching"}
         /\ pc' \notin {"broadcast", "reset", "resetting", "prefetching"}
         /\ tasks' = tasks \/ (step = loadedStep /\ tasks' = Append(tasks, [NewTask EXCEPT !.round = @ + 1]))
BY DEF Alone, StartSync, Submit, Get, TrainingStep, OptimiserStep, Evaluate, Evaluated, server

LEMMA EndsFacts ==
  ASSUME Ends
  PROVE  /\ Respond /\ serving # Idle /\ \A w \in Workers : reply[w] # <<>>
         /\ serving' = Idle /\ UNCHANGED <<pipe, loading, model, cache, failures>>
         /\ reply' = [w \in Workers |-> Tail(reply[w])]
BY DEF Ends, SyncEnds, Prefetched, PrefetchFails, RolloutDone, RolloutFails, Respond, Answered

LEMMA NextSplit ==
  ASSUME Next
  PROVE  \/ Alone \/ Ends \/ UpdatePart \/ BroadcastPart \/ Reset \/ Prefetch \/ Ask
         \/ Obeys \/ Leaves
BY DEF Next, Main, Thread, Alone, Ends, Obeys, Leaves

LEMMA InferFactsStep ==
  ASSUME ServerFacts, InferFacts, TypeFacts, Next
  PROVE  InferFacts'
<1>1. CASE Alone
  BY <1>1, AloneFacts, InferFactsKept
<1>2. CASE Ends
  BY <1>2, EndsFacts DEF InferFacts
<1>3. CASE UpdatePart
  <2>1. serving' = Idle
    BY <1>3 DEF UpdatePart, PostUpdate
  <2> QED  BY <2>1 DEF InferFacts
<1>4. CASE BroadcastPart
  BY <1>4, BroadcastKeepsInfer DEF BroadcastPart
<1>5. CASE Reset
  <2>1. serving'.kind = "reset"
    BY <1>5 DEF Reset, PostReset
  <2> QED  BY <2>1 DEF InferFacts
<1>6. CASE Prefetch
  <2>1. IsSeq(Requests(NewTask)) /\ PostInfer("main", Requests(NewTask))
    BY <1>6, RequestsIsSeq DEF Prefetch, NewTask, TypeFacts
  <2> QED  BY <2>1, PostInferSends
<1>7. CASE Ask
  <2>1. Head(tasks).mode \in Modes
    BY <1>7, SeqTail DEF Ask, TypeFacts
  <2>2. IsSeq(Requests(Head(tasks))) /\ PostInfer("thread", Requests(Head(tasks)))
    BY <1>7, <2>1, RequestsIsSeq DEF Ask
  <2> QED  BY <2>2, PostInferSends
<1>8. CASE Obeys \/ Leaves
  BY <1>8, WorkerKeepsInfer, LeavesKeepsInfer DEF Obeys, Leaves
<1> QED  BY <1>1, <1>2, <1>3, <1>4, <1>5, <1>6, <1>7, <1>8, NextSplit

LEMMA ServingStep ==
  ASSUME ServingFacts, TypeFacts, Next
  PROVE  ServingFacts'
<1>0. IsSeq(tasks)
  BY DEF TypeFacts
<1>1. CASE Alone
  <2>1. /\ UNCHANGED serving
        /\ pc \notin {"resetting", "prefetching"}
        /\ tasks' = tasks \/ \E t : tasks' = Append(tasks, t)
    BY <1>1, AloneFacts
  <2>2. tasks # <<>> => tasks' # <<>> /\ Head(tasks') = Head(tasks)
    <3>1. CASE tasks' = tasks
      BY <3>1
    <3>2. ASSUME NEW t, tasks' = Append(tasks, t), tasks # <<>>
          PROVE  tasks' # <<>> /\ Head(tasks') = Head(tasks)
      <4>1. /\ IsSeq(tasks') /\ tasks' # <<>> /\ \A i \in 1 .. Len(tasks) : tasks'[i] = tasks[i]
        BY <1>0, <3>2, SeqAppend
      <4>2. Head(tasks') = tasks'[1]
        BY <4>1, SeqTail
      <4>3. Head(tasks) = tasks[1] /\ Len(tasks) \in Nat \ {0}
        BY <1>0, <3>2, SeqTail
      <4> QED  BY <4>1, <4>2, <4>3
    <3> QED  BY <2>1, <3>1, <3>2
  <2>3. \A t : Requests(t)' = Requests(t)
    BY DEF Requests
  <2> QED  BY <2>1, <2>2, <2>3 DEF ServingFacts
<1>2. CASE Ends
  BY <1>2, EndsFacts DEF ServingFacts
<1>3. CASE UpdatePart
  BY <1>3 DEF UpdatePart, PostUpdate, ServingFacts
<1>4. CASE BroadcastPart
  <2>1. UNCHANGED <<serving, tasks>> /\ pc = "broadcast"
    BY <1>4 DEF BroadcastPart, Broadcast
  <2> QED  BY <2>1 DEF ServingFacts, Requests
<1>5. CASE Reset
  <2>1. serving' = [kind |-> "reset", client |-> "main"] /\ pc' = "resetting"
    BY <1>5 DEF Reset, PostReset
  <2> QED  BY <2>1 DEF ServingFacts
<1>6. CASE Prefetch
  <2>1. /\ serving' = [kind |-> "infer", client |-> "main", requests |-> Requests(NewTask)]
        /\ pc' = "prefetching" /\ UNCHANGED <<mode, batch, step>>
    BY <1>6 DEF Prefetch, PostInfer
  <2>2. Requests(NewTask)' = Requests(NewTask)
    BY <2>1 DEF Requests, NewTask
  <2> QED  BY <2>1, <2>2 DEF ServingFacts
<1>7. CASE Ask
  <2>1. /\ serving' = [kind |-> "infer", client |-> "thread", requests |-> Requests(Head(tasks))]
        /\ tasks # <<>> /\ UNCHANGED tasks
    BY <1>7 DEF Ask, PostInfer, trainer
  <2>2. Requests(Head(tasks))' = Requests(Head(tasks))
    BY <2>1 DEF Requests
  <2> QED  BY <2>1, <2>2 DEF ServingFacts
<1>8. CASE Obeys \/ Leaves
  <2>1. UNCHANGED serving /\ UNCHANGED <<pc, mode, batch, step, tasks>>
    BY <1>8 DEF Obeys, Leaves, Worker, Load, ResetCache, Infer, LeavesUpdate, trainer
  <2>2. /\ Requests(NewTask)' = Requests(NewTask)
        /\ Requests(Head(tasks))' = Requests(Head(tasks))
    BY <2>1 DEF Requests, NewTask
  <2> QED  BY <2>1, <2>2 DEF ServingFacts
<1> QED  BY <1>1, <1>2, <1>3, <1>4, <1>5, <1>6, <1>7, <1>8, NextSplit

\* Outside Get at most one batch of a mode is pending: what has come in is
\* under way no more.
LEMMA PendingOnce ==
  ASSUME TypeFacts, QueueFacts, pc # "get", NEW m \in Modes, queue[m] # <<>>
  PROVE  \A i \in DOMAIN tasks : tasks[i].mode # m
<1> SUFFICES ASSUME NEW i \in DOMAIN tasks, tasks[i].mode = m
             PROVE  FALSE
  OBVIOUS
<1>1. 1 \in DOMAIN queue[m]
  BY SeqTail DEF TypeFacts
<1>2. queue[m][1].task.round = batch[m] /\ tasks[i].round = batch[m]
  BY <1>1 DEF QueueFacts, Rounds
<1>3. queue[m][1].task.round < tasks[i].round
  BY <1>1 DEF QueueFacts
<1>4. batch[m] \in Int
  BY DEF TypeFacts
<1> QED  BY <1>2, <1>3, <1>4

\* A synchronisation starts when no rollout is under way in either mode.
LEMMA QuietAtSync ==
  ASSUME TypeFacts, QueueFacts, ModeFacts, SyncFacts, StartSync
  PROVE  tasks = <<>>
<1>1. /\ pc \in {"prefetch", "generate"}
      /\ pc = "generate" => queue[mode] # <<>>
  BY DEF StartSync, WaitQueue
<1>2. \A i \in DOMAIN tasks : tasks[i].mode # mode
  <2>1. CASE pc = "prefetch"
    BY <2>1 DEF ModeFacts, Prefetching, NonePending
  <2>2. CASE pc = "generate"
    BY <1>1, <2>2, PendingOnce DEF TypeFacts
  <2> QED  BY <1>1, <2>1, <2>2
<1>3. mode = "train" => \A i \in DOMAIN tasks : tasks[i].mode # "eval"
  <2> SUFFICES ASSUME mode = "train" PROVE \A i \in DOMAIN tasks : tasks[i].mode # "eval"
    OBVIOUS
  <2>1. CASE evalFlag
    <3>1. queue["eval"] # <<>> /\ "eval" \in Modes
      BY <1>1, <2>1 DEF ModeFacts, Modes
    <3> QED  BY <1>1, <3>1, PendingOnce
  <2>2. CASE ~ evalFlag
    BY <2>2 DEF ModeFacts, NonePending
  <2> QED  BY <2>1, <2>2
<1>4. mode = "eval" => \A i \in DOMAIN tasks : tasks[i].mode # "train"
  <2> SUFFICES ASSUME mode = "eval" PROVE \A i \in DOMAIN tasks : tasks[i].mode # "train"
    OBVIOUS
  <2>1. queue["train"] # <<>> /\ "train" \in Modes
    BY <1>1 DEF SyncFacts, Modes
  <2> QED  BY <1>1, <2>1, PendingOnce
<1>5. DOMAIN tasks = {}
  BY <1>2, <1>3, <1>4 DEF TypeFacts, Modes
<1> QED  BY <1>5, SeqTail DEF TypeFacts

LEMMA AloneSync ==
  ASSUME TypeFacts, QueueFacts, ModeFacts, SyncFacts, Alone
  PROVE  SyncFacts'
<1>0. /\ IsSeq(tasks) /\ Modes = {"train", "eval"} /\ mode \in Modes
      /\ queue = [m \in Modes |-> queue[m]] /\ Parts' = Parts
  BY DEF TypeFacts, Modes, Parts
<1>1. part' \in Parts
  <2>1. 1 \in Parts
    BY ServerAssumption DEF Parts
  <2>2. part' \in {part, 1}
    BY DEF Alone, StartSync, Submit, Get, TrainingStep, OptimiserStep, Evaluate, Evaluated
  <2> QED  BY <2>1, <2>2 DEF SyncFacts
<1>2. Syncing' => tasks' = <<>>
  <2>1. CASE StartSync
    BY <2>1, QuietAtSync DEF StartSync
  <2>2. CASE ~ StartSync
    BY <2>2 DEF Alone, Syncing, Submit, Get, TrainingStep, OptimiserStep, Evaluate, Evaluated
  <2> QED  BY <2>1, <2>2
<1>3. (mode = "eval" /\ pc # "evalwait")' => queue'["train"] # <<>>
  <2>1. CASE StartSync \/ Submit \/ TrainingStep
    BY <2>1 DEF StartSync, Submit, TrainingStep, SyncFacts
  <2>2. CASE Get
    <3>1. mode' = mode /\ pc = "get" /\ (mode = "eval" => queue'["train"] = queue["train"])
      BY <1>0, <2>2 DEF Get
    <3> QED  BY <3>1 DEF SyncFacts
  <2>3. CASE OptimiserStep
    BY <2>3 DEF OptimiserStep, SyncFacts
  <2>4. CASE Evaluate
    BY <2>4 DEF Evaluate
  <2>5. CASE Evaluated
    BY <2>5 DEF Evaluated, SyncFacts
  <2> QED  BY <2>1, <2>2, <2>3, <2>4, <2>5 DEF Alone
<1>4. ASSUME NEW i \in DOMAIN tasks'
      PROVE  tasks'[i].step = loadedStep'
  <2>1. CASE tasks' = tasks
    BY <1>4, <2>1, AloneFacts DEF SyncFacts
  <2>2. CASE tasks' # tasks
    <3> DEFINE t == [NewTask EXCEPT !.round = @ + 1]
    <3>1. tasks' = Append(tasks, t) /\ step = loadedStep /\ loadedStep' = loadedStep
      BY <2>2, AloneFacts
    <3>2. t.step = step
      BY DEF NewTask
    <3> HIDE DEF t
    <3>3. i \in 1 .. Len(tasks) + 1 /\ DOMAIN tasks = 1 .. Len(tasks) /\ Len(tasks) \in Nat
          /\ (\A k \in 1 .. Len(tasks) : tasks'[k] = tasks[k]) /\ tasks'[Len(tasks) + 1] = t
      BY <1>0, <1>4, <3>1, SeqAppend
    <3>4. tasks'[i] = t \/ (i \in DOMAIN tasks /\ tasks'[i] = tasks[i])
      BY <3>3
    <3> QED  BY <3>1, <3>2, <3>4 DEF SyncFacts
  <2> QED  BY <2>1, <2>2
<1>5. pc' # "prefetching"
  BY AloneFacts
<1> QED  BY <1>0, <1>1, <1>2, <1>3, <1>4, <1>5 DEF SyncFacts

\* The executor's task is over.
LEMMA TaskOverSync ==
  ASSUME SyncFacts, IsSeq(tasks), tasks # <<>>, tasks' = Tail(tasks),
         UNCHANGED <<pc, mode, step, loadedStep, part>>,
         queue["train"] # <<>> => queue'["train"] # <<>>
  PROVE  SyncFacts'
<1>1. \A i \in DOMAIN tasks' : tasks'[i].step = loadedStep
  BY DropTask DEF SyncFacts, Dropped
<1>2. ~ Syncing' /\ Parts' = Parts
  BY DEF SyncFacts, Syncing, Parts
<1> QED  BY <1>1, <1>2 DEF SyncFacts

LEMMA SyncStep ==
  ASSUME TypeFacts, QueueFacts, ModeFacts, Asking, SyncFacts, Next
  PROVE  SyncFacts'
<1>0. /\ Modes = {"train", "eval"} /\ mode \in Modes /\ goal \in {"prefetch", "generate"}
      /\ queue = [m \in Modes |-> queue[m]] /\ \A m \in Modes : IsSeq(queue[m])
      /\ Parts' = Parts /\ Syncing' = (pc' \in {"update", "broadcast", "reset", "resetting"})
      /\ IsSeq(tasks)
  BY DEF TypeFacts, Modes, Parts, Syncing
<1>1. CASE Alone
  BY <1>1, AloneSync
<1>2. CASE UpdatePart \/ Reset
  BY <1>0, <1>2 DEF UpdatePart, Reset, SyncFacts, Syncing
<1>3. CASE BroadcastPart
  <2>1. part' \in Parts
    BY <1>3, ServerAssumption DEF BroadcastPart, SyncFacts, Parts
  <2> QED  BY <1>0, <1>3, <2>1 DEF BroadcastPart, SyncFacts, Syncing
<1>4. CASE SyncEnds
  <2>1. pc = "resetting" /\ pc' = goal /\ UNCHANGED <<mode, queue, part, tasks>>
    BY <1>4 DEF SyncEnds
  <2>2. tasks = <<>> /\ DOMAIN tasks = {}
    BY <2>1, EmptyIsSeq DEF SyncFacts, Syncing
  <2> QED  BY <1>0, <2>1, <2>2 DEF SyncFacts
<1>5. CASE Prefetch
  BY <1>0, <1>5 DEF Prefetch, SyncFacts
<1>6. CASE Prefetched
  <2>1. /\ pc = "prefetching" /\ pc' \in {"trainwait", "generate"}
        /\ queue' = [queue EXCEPT ![mode] = Append(@, Cache(NewTask))]
        /\ UNCHANGED <<mode, part, step, loadedStep, tasks>>
    BY <1>6 DEF Prefetched
  <2>2. mode = "eval" => queue'["train"] = queue["train"]
    BY <1>0, <2>1
  <2> QED  BY <1>0, <2>1, <2>2 DEF SyncFacts
<1>7. CASE PrefetchFails
  BY <1>0, <1>7 DEF PrefetchFails, SyncFacts
<1>8. CASE RolloutDone
  <2>1. /\ tasks # <<>> /\ tasks' = Tail(tasks) /\ UNCHANGED <<pc, mode, step, loadedStep, part>>
        /\ queue' = [queue EXCEPT ![Head(tasks).mode] = Append(@, Cache(Head(tasks)))]
    BY <1>8 DEF RolloutDone, Asking, Answered
  <2>2. \A e : queue["train"] # <<>> => Append(queue["train"], e) # <<>>
    BY <1>0, SeqAppend
  <2>3. queue["train"] # <<>> => queue'["train"] # <<>>
    BY <1>0, <2>1, <2>2
  <2> QED  BY <1>0, <2>1, <2>3, TaskOverSync
<1>9. CASE RolloutFails
  BY <1>0, <1>9, TaskOverSync DEF RolloutFails, Asking, Answered
<1>10. CASE Ask \/ Obeys \/ Leaves
  BY <1>0, <1>10 DEF Ask, Obeys, Leaves, trainer, SyncFacts, Syncing
<1> QED  BY <1>1, <1>2, <1>3, <1>4, <1>5, <1>6, <1>7, <1>8, <1>9, <1>10, NextSplit DEF Ends

-----------------------------------------------------------------------------
\* The weights.

LEMMA WeightTypesStep ==
  ASSUME WeightTypes, Next
  PROVE  WeightTypes'
<1>0. Workers' = Workers /\ Parts' = Parts
  BY DEF Workers, Parts
<1>1. CASE UNCHANGED <<loading, model, cache>>
  BY <1>0, <1>1 DEF WeightTypes
<1>2. CASE BroadcastPart
  BY <1>0, <1>2 DEF BroadcastPart, Broadcast, WeightTypes
<1>3. ASSUME NEW w \in Workers, Worker(w)
      PROVE  WeightTypes'
  <2>1. CASE Load(w)
    <3> DEFINE c == Head(loading[w])
    <3>1. /\ loading' = [loading EXCEPT ![w] = <<>>] /\ cache' = cache
          /\ model' = model \/ model' = [model EXCEPT ![w][c.part] = c.version]
      BY <2>1 DEF Load
    <3> HIDE DEF c
    <3>2. model' = [v \in Workers |-> [p \in Parts |-> model'[v][p]]]
      BY <3>1 DEF WeightTypes
    <3> QED  BY <1>0, <3>1, <3>2 DEF WeightTypes
  <2>2. CASE ResetCache(w)
    BY <1>0, <2>2 DEF ResetCache, WeightTypes
  <2>3. CASE Infer(w)
    <3>1. UNCHANGED <<loading, model>> /\ \E c : cache' = cache \/ cache' = [cache EXCEPT ![w] = c]
      BY <2>3 DEF Infer
    <3> QED  BY <1>0, <3>1 DEF WeightTypes
  <2> QED  BY <1>3, <2>1, <2>2, <2>3 DEF Worker
<1>4. CASE Alone \/ Ends \/ UpdatePart \/ Reset \/ Prefetch \/ Ask \/ Leaves
  <2>1. UNCHANGED <<loading, model, cache>>
    BY <1>4, AloneFacts, EndsFacts
       DEF UpdatePart, PostUpdate, Reset, PostReset, Prefetch, Ask, PostInfer, Leaves, LeavesUpdate
  <2> QED  BY <1>1, <2>1
<1> QED  BY <1>2, <1>3, <1>4, NextSplit DEF Obeys

\* While the weights are sent nothing is served but the reset at the end.
LEMMA SyncServesReset ==
  ASSUME ServerFacts, ServingFacts, SyncFacts, Syncing
  PROVE  /\ serving # Idle => pc = "resetting" /\ serving.kind = "reset"
         /\ pc # "resetting" => serving = Idle
         /\ serving = Idle => \A w \in Workers : reply[w] = <<>>
BY DEF ServerFacts, ReplyOf, ServingFacts, SyncFacts, Syncing

\* A synchronisation starts from workers that have nothing to do.
LEMMA StartWeights ==
  ASSUME ServerFacts, ServingFacts, TypeFacts, QueueFacts, ModeFacts, SyncFacts, StartSync,
         NEW w \in Workers, Settled(w)
  PROVE  Updating(w)'
<1>1. /\ tasks = <<>> /\ pc \in {"prefetch", "generate"} /\ pc' = "update" /\ part' = 1
      /\ UNCHANGED <<pipe, loading, model, cache, reply>>
  BY QuietAtSync DEF StartSync, server
<1>2. serving = Idle
  BY <1>1 DEF ServingFacts
<1>3. IsSeq(pipe[w]) /\ DOMAIN pipe[w] = {}
  BY <1>2 DEF ServerFacts, PipeOf, Settled
<1>4. pipe[w] = <<>>
  <2> SUFFICES ASSUME pipe[w] # <<>> PROVE FALSE
    OBVIOUS
  <2>1. Len(pipe[w]) \in Nat \ {0} /\ DOMAIN pipe[w] = 1 .. Len(pipe[w])
    BY <1>3, SeqTail
  <2>2. 1 \in DOMAIN pipe[w]
    BY <2>1
  <2> QED  BY <1>3, <2>2
<1>5. SentParts' = {}
  <2>1. 1 .. 1 - 1 = {}
    OBVIOUS
  <2> QED  BY <1>1, <2>1 DEF SentParts
<1> QED  BY <1>1, <1>4, <1>5 DEF Updating, Settled

LEMMA UpdateWeights ==
  ASSUME ServerFacts, SyncFacts, UpdatePart, NEW w \in Workers, Updating(w)
  PROVE  Updating(w)'
<1>1. /\ pc = "update" /\ pc' = "broadcast" /\ UNCHANGED <<part, step, loading, model, cache, reply>>
      /\ pipe'[w] = Append(pipe[w], NewPart(part)) /\ pipe[w] = <<>>
  BY DEF UpdatePart, PostUpdate, Send, NewPart, Updating
<1>2. pipe'[w] = <<NewPart(part)>>
  <2>1. \A x : Append(<<>>, x) = <<x>>
    OBVIOUS
  <2> QED  BY <1>1, <2>1
<1>3. \A p : NewPart(p)' = NewPart(p)
  BY <1>1 DEF NewPart
<1>4. NewPart(part)' = NewPart(part)
  BY <1>1 DEF NewPart
<1>5. SentParts = 1 .. part - 1 /\ SentParts' = 1 .. part /\ part \in Int
  BY <1>1 DEF SentParts, SyncFacts, Parts
<1>6. \A p \in SentParts' : p = part \/ p \in SentParts
  BY <1>5
<1>7. Parts' = Parts
  BY DEF Parts
<1> QED  BY <1>1, <1>2, <1>3, <1>4, <1>6, <1>7 DEF Updating

LEMMA BroadcastWeights ==
  ASSUME SyncFacts, WeightTypes, BroadcastPart, NEW w \in Workers, Updating(w), reply[w] = <<>>
  PROVE  Updating(w)'
<1>1. /\ pc = "broadcast" /\ UNCHANGED <<step, model, cache, reply>>
      /\ loading'[w] = <<Head(pipe[w])>> /\ pipe'[w] = Tail(pipe[w])
      /\ pipe[w] = <<NewPart(part)>> /\ loading[w] = <<>>
      /\ part' = IF part < NumParts THEN part + 1 ELSE part
      /\ pc' = IF part < NumParts THEN "update" ELSE "reset"
  BY DEF BroadcastPart, Broadcast, Head1, Updating
<1>2. loading'[w] = <<NewPart(part)>> /\ pipe'[w] = <<>>
  <2>1. \A x : Head(<<x>>) = x /\ Tail(<<x>>) = <<>>
    OBVIOUS
  <2> QED  BY <1>1, <2>1
<1>3. \A p : NewPart(p)' = NewPart(p)
  BY <1>1 DEF NewPart
<1>4. part \in 1 .. NumParts /\ NumParts \in Nat
  BY ServerAssumption DEF SyncFacts, Parts
<1>5. SentParts = 1 .. part /\ SentParts' = 1 .. part
  <2>1. SentParts = 1 .. part
    BY <1>1 DEF SentParts
  <2>2. CASE part < NumParts
    BY <1>1, <1>4, <2>2 DEF SentParts
  <2>3. CASE part = NumParts
    BY <1>1, <1>4, <2>3 DEF SentParts, Parts
  <2> QED  BY <1>4, <2>1, <2>2, <2>3
<1>6. \A p \in SentParts : model[w][p] = step \/ p = part
  <2>1. \A x : <<>> # <<x>>
    OBVIOUS
  <2> QED  BY <1>1, <2>1 DEF Updating
<1>7. part \in Parts /\ Parts' = Parts
  BY DEF SyncFacts, Parts
<1>8. pc' \in {"update", "reset"}
  BY <1>1
<1>9. \E p \in Parts' : loading'[w] = <<NewPart(p)'>>
  BY <1>2, <1>3, <1>7
<1>10. \A p \in SentParts' : model'[w][p] = step' \/ loading'[w] = <<NewPart(p)'>>
  BY <1>1, <1>2, <1>3, <1>5, <1>6
<1> QED  BY <1>1, <1>2, <1>8, <1>9, <1>10 DEF Updating

LEMMA ResetWeights ==
  ASSUME Reset, NEW w \in Workers, Updating(w), reply[w] = <<>>
  PROVE  Updating(w)'
<1>1. /\ pc = "reset" /\ pc' = "resetting" /\ UNCHANGED <<part, step, loading, model, cache, reply>>
      /\ pipe'[w] = Append(pipe[w], [type |-> "reset"]) /\ pipe[w] = <<>>
  BY DEF Reset, PostReset, Send, Updating
<1>2. pipe'[w] = <<[type |-> "reset"]>>
  <2>1. \A x : Append(<<>>, x) = <<x>>
    OBVIOUS
  <2> QED  BY <1>1, <2>1
<1>3. \A p : NewPart(p)' = NewPart(p)
  BY <1>1 DEF NewPart
<1>4. SentParts' = SentParts /\ Parts' = Parts
  BY <1>1 DEF SentParts, Parts
<1> QED  BY <1>1, <1>2, <1>3, <1>4 DEF Updating

\* A worker that has answered the reset has the new weights and no cache.
LEMMA SyncEndsWeights ==
  ASSUME ServerFacts, WeightTypes, TypeFacts, SyncEnds, NEW w \in Workers, Updating(w)
  PROVE  Settled(w)'
<1>1. /\ pc = "resetting" /\ loadedStep' = step /\ reply[w] # <<>> /\ reply'[w] = Tail(reply[w])
      /\ UNCHANGED <<pipe, loading, model, cache>>
  BY DEF SyncEnds, Answered, Respond
<1>2. pipe[w] = <<>> /\ loading[w] = <<>> /\ cache[w] = {}
  BY <1>1 DEF Updating
<1>3. \A p \in Parts : model[w][p] = step
  <2>1. SentParts = Parts
    BY <1>1 DEF SentParts
  <2>2. \A x : <<>> # <<x>>
    OBVIOUS
  <2> QED  BY <1>1, <1>2, <2>1, <2>2 DEF Updating
<1>4. model[w] = [p \in Parts |-> step]
  BY <1>3 DEF WeightTypes
<1>5. reply'[w] = <<>>
  <2>1. reply[w] = <<Head(reply[w])>>
    BY <1>1 DEF ServerFacts, ReplyOf
  <2>2. \A x : Tail(<<x>>) = <<>>
    OBVIOUS
  <2> QED  BY <1>1, <2>1, <2>2
<1>6. Parts' = Parts
  BY DEF Parts
<1> QED  BY <1>1, <1>2, <1>4, <1>5, <1>6, EmptyIsSeq DEF Settled

\* A rollout is asked for: the workers stay as they are.
LEMMA PostInferWeights ==
  ASSUME ServerFacts, NEW client, NEW requests, PostInfer(client, requests), UNCHANGED loadedStep,
         NEW w \in Workers, Settled(w)
  PROVE  Settled(w)'
<1> DEFINE c == [type |-> "infer", requests |-> Sent(requests, w)]
<1>1. /\ pipe'[w] = Append(pipe[w], c) /\ IsSeq(pipe[w])
      /\ UNCHANGED <<loading, model, cache, reply>>
  BY DEF PostInfer, Send, Sent, ServerFacts, PipeOf
<1>2. c.type = "infer"
  OBVIOUS
<1> HIDE DEF c
<1>3. \A i \in DOMAIN pipe'[w] : pipe'[w][i].type = "infer"
  <2>1. \A i \in DOMAIN pipe'[w] : pipe'[w][i] = c \/ (i \in DOMAIN pipe[w] /\ pipe'[w][i] = pipe[w][i])
    BY <1>1, SeqAppend
  <2> QED  BY <1>2, <2>1 DEF Settled
<1>4. Parts' = Parts
  BY DEF Parts
<1> QED  BY <1>1, <1>3, <1>4 DEF Settled

\* A handler of /infer/ ends: the workers stay as they are.
LEMMA RespondWeights ==
  ASSUME ServerFacts, Respond, \A w \in Workers : reply[w] # <<>>, UNCHANGED loadedStep,
         NEW w \in Workers, Settled(w)
  PROVE  Settled(w)'
<1>1. reply'[w] = Tail(reply[w]) /\ UNCHANGED <<pipe, loading, model, cache>>
  BY DEF Respond
<1>2. reply'[w] = <<>>
  <2>1. reply[w] = <<Head(reply[w])>>
    BY DEF ServerFacts, ReplyOf
  <2>2. \A x : Tail(<<x>>) = <<>>
    OBVIOUS
  <2> QED  BY <1>1, <2>1, <2>2
<1>3. Parts' = Parts
  BY DEF Parts
<1> QED  BY <1>1, <1>2, <1>3 DEF Settled

\* A worker loads a part, or fails to and the weights count no more.
LEMMA LoadWeights ==
  ASSUME WeightTypes, SyncFacts, NEW w \in Workers, Load(w), Clean', UNCHANGED trainer,
         IF Syncing THEN Updating(w) ELSE Settled(w)
  PROVE  IF Syncing' THEN Updating(w)' ELSE Settled(w)'
<1>1. /\ UNCHANGED <<pc, part, step, pipe, cache, reply>> /\ Syncing' = Syncing
      /\ loading[w] # <<>>
  BY DEF Load, trainer, Syncing
<1>2. Syncing /\ Updating(w)
  BY <1>1 DEF Settled
<1>3. PICK p \in Parts : loading[w] = <<NewPart(p)>>
  BY <1>1, <1>2 DEF Updating
<1>4. /\ loading' = [loading EXCEPT ![w] = <<>>]
      /\ model' = [model EXCEPT ![w][p] = step]
  <2>1. Head(loading[w]) = NewPart(p)
    <3>1. \A x : Head(<<x>>) = x
      OBVIOUS
    <3> QED  BY <1>3, <3>1
  <2>2. NewPart(p).part = p /\ NewPart(p).version = step
    BY DEF NewPart
  <2>3. ~ Raises(w, "load")
    BY DEF Raises, Clean
  <2> QED  BY <2>1, <2>2, <2>3 DEF Load
<1>5. loading'[w] = <<>> /\ model'[w][p] = step
      /\ \A k \in Parts \ {p} : model'[w][k] = model[w][k]
  BY <1>4 DEF WeightTypes
<1>6. SentParts' = SentParts /\ \A k : NewPart(k)' = NewPart(k)
  BY <1>1 DEF SentParts, NewPart, Parts
<1>7. SentParts \subseteq Parts
  BY ServerAssumption DEF SentParts, SyncFacts, Parts
<1>8. \A k \in SentParts : model'[w][k] = step \/ (pc = "broadcast" /\ k = part)
  <2>1. \A k \in Parts \ {p} : loading[w] # <<NewPart(k)>>
    <3>1. \A x, y : <<x>> = <<y>> => x = y
      OBVIOUS
    <3>2. \A k : NewPart(k).part = k
      BY DEF NewPart
    <3> QED  BY <1>3, <3>1, <3>2
  <2> QED  BY <1>2, <1>5, <1>7, <2>1 DEF Updating
<1>9. pc = "resetting" => reply[w] = <<>>
  BY <1>1, <1>2 DEF Updating
<1>10. NewPart(part)' = NewPart(part)
  BY <1>1 DEF NewPart
<1>11. Updating(w)'
  BY <1>1, <1>2, <1>5, <1>6, <1>8, <1>9, <1>10 DEF Updating
<1> QED  BY <1>1, <1>2, <1>11

\* A worker forgets the prefixes it cached and answers.
LEMMA ResetCacheWeights ==
  ASSUME ServerFacts, WeightTypes, NEW w \in Workers, ResetCache(w), Clean', UNCHANGED trainer,
         IF Syncing THEN Updating(w) ELSE Settled(w)
  PROVE  IF Syncing' THEN Updating(w)' ELSE Settled(w)'
<1>1. /\ UNCHANGED <<pc, part, step, loading, model>> /\ Syncing' = Syncing
      /\ Head1(w, "reset") /\ loading[w] = <<>>
  BY DEF ResetCache, Head1, trainer, Syncing
<1>2. /\ reply[w] = <<>> /\ Tail(pipe[w]) = <<>> /\ 1 \in DOMAIN pipe[w]
      /\ pipe[w][1].type = "reset" /\ Head(pipe[w]).type = "reset"
  BY <1>1, OneRequest
<1>3. Syncing /\ Updating(w)
  BY <1>2 DEF Settled
<1>4. pc = "resetting"
  <2>1. \A p : Head(<<NewPart(p)>>).type = "update"
    BY DEF NewPart
  <2>2. DOMAIN <<>> = {}
    OBVIOUS
  <2> QED  BY <1>2, <1>3, <2>1, <2>2 DEF Updating, Syncing
<1>5. cache'[w] = {} /\ pipe'[w] = <<>> /\ reply'[w] # <<>>
  <2>1. ~ Raises(w, "reset")
    BY DEF Raises, Clean
  <2>2. cache' = [cache EXCEPT ![w] = {}] /\ Answer(w, TRUE)
    BY <2>1 DEF ResetCache
  <2>3. Append(<<>>, TRUE) # <<>>
    OBVIOUS
  <2> QED  BY <1>2, <2>2, <2>3 DEF Answer, WeightTypes, ServerFacts
<1>6. SentParts' = SentParts /\ \A k : NewPart(k)' = NewPart(k)
  BY <1>1 DEF SentParts, NewPart, Parts
<1>7. Updating(w)'
  BY <1>1, <1>3, <1>4, <1>5, <1>6 DEF Updating
<1> QED  BY <1>1, <1>3, <1>7

\* A worker answers a rollout with its one set of weights.
LEMMA InferWeights ==
  ASSUME NoneIsNoList, ServerFacts, WeightTypes, NEW w \in Workers, Infer(w), UNCHANGED trainer,
         IF Syncing THEN Updating(w) ELSE Settled(w)
  PROVE  IF Syncing' THEN Updating(w)' ELSE Settled(w)'
<1>1. /\ UNCHANGED <<pc, loadedStep, loading, model>> /\ Syncing' = Syncing
      /\ Head1(w, "infer")
  BY DEF Infer, trainer, Syncing
<1>2. /\ reply[w] = <<>> /\ Tail(pipe[w]) = <<>> /\ 1 \in DOMAIN pipe[w]
      /\ Head(pipe[w]).type = "infer"
  BY <1>1, OneRequest
<1>3. ~ Syncing /\ Settled(w)
  <2>1. \A p : Head(<<NewPart(p)>>).type = "update"
    BY DEF NewPart
  <2>2. DOMAIN <<>> = {} /\ Head(<<[type |-> "reset"]>>).type = "reset"
    OBVIOUS
  <2> QED  BY <1>2, <2>1, <2>2 DEF Updating, Syncing
<1> DEFINE used == cache[w] \cup {model[w]}
           r == Head(pipe[w]).requests
           outputs == [i \in DOMAIN r |-> [request |-> r[i], used |-> used]]
<1>4. used = {model[w]}
  BY <1>3 DEF Settled
<1>5. /\ cache'[w] \subseteq {model[w]}
      /\ \E result \in {outputs, None} : Answer(w, result)
  BY <1>3, <1>4 DEF Infer, WeightTypes, Settled
<1>6. PICK result \in {outputs, None} : Answer(w, result)
  BY <1>5
<1>7. pipe'[w] = <<>> /\ Head(reply'[w]) = result
  <2>1. Append(<<>>, result) = <<result>> /\ Head(<<result>>) = result
    OBVIOUS
  <2>2. pipe = [v \in Workers |-> pipe[v]] /\ reply = [v \in Workers |-> reply[v]]
    BY DEF ServerFacts
  <2> HIDE DEF outputs
  <2> QED  BY <1>2, <1>6, <2>1, <2>2 DEF Answer
<1>8. \A i \in DOMAIN outputs : outputs[i].used = {model[w]}
  BY <1>4
<1>9. Head(reply'[w]) # None => \A i \in DOMAIN Head(reply'[w]) : Head(reply'[w])[i].used = {model[w]}
  <2> HIDE DEF outputs
  <2> QED  BY <1>6, <1>7, <1>8
<1>10. Settled(w)'
  <2>1. Parts' = Parts
    BY DEF Parts
  <2> QED  BY <1>1, <1>3, <1>5, <1>7, <1>9, <2>1, EmptyIsSeq DEF Settled
<1> QED  BY <1>1, <1>3, <1>10

\* A worker that leaves an update keeps its weights; the broadcast waits for it.
LEMMA LeavesWeights ==
  ASSUME ServerFacts, NEW w \in Workers, LeavesUpdate(w), UNCHANGED trainer,
         IF Syncing THEN Updating(w) ELSE Settled(w)
  PROVE  IF Syncing' THEN Updating(w)' ELSE Settled(w)'
<1>1. /\ UNCHANGED <<pc, part, step, loading, model, cache, reply>> /\ Syncing' = Syncing
      /\ pipe[w] # <<>> /\ Head(pipe[w]).type = "update" /\ pipe'[w] = Tail(pipe[w])
  BY LeavesKeeps DEF Head1, trainer, Syncing
<1>2. 1 \in DOMAIN pipe[w] /\ pipe[w][1].type = "update"
  <2>1. IsSeq(pipe[w])
    BY DEF ServerFacts, PipeOf
  <2>2. Len(pipe[w]) \in Nat \ {0} /\ DOMAIN pipe[w] = 1 .. Len(pipe[w]) /\ Head(pipe[w]) = pipe[w][1]
    BY <1>1, <2>1, SeqTail
  <2> QED  BY <1>1, <2>2
<1>3. Syncing /\ Updating(w)
  BY <1>2 DEF Settled
<1>4. pc = "broadcast" /\ pipe'[w] = <<>>
  <2>1. Head(<<[type |-> "reset"]>>).type # "update" /\ \A x : Tail(<<x>>) = <<>>
    OBVIOUS
  <2>2. pc = "broadcast"
    BY <1>1, <1>3, <2>1 DEF Updating, Syncing
  <2>3. pipe[w] = <<NewPart(part)>>
    BY <1>1, <1>3, <2>2 DEF Updating
  <2> QED  BY <1>1, <2>1, <2>2, <2>3
<1>5. SentParts' = SentParts /\ Parts' = Parts /\ \A k : NewPart(k)' = NewPart(k)
  BY <1>1 DEF SentParts, NewPart, Parts
<1>6. Updating(w)'
  BY <1>1, <1>3, <1>4, <1>5 DEF Updating
<1> QED  BY <1>1, <1>3, <1>6

\* The workers that a worker's step leaves alone.
LEMMA OtherWorkers ==
  ASSUME ServerFacts, WeightTypes, NEW w \in Workers, Worker(w) \/ LeavesUpdate(w), UNCHANGED trainer,
         NEW v \in Workers, v # w, IF Syncing THEN Updating(v) ELSE Settled(v)
  PROVE  IF Syncing' THEN Updating(v)' ELSE Settled(v)'
<1>1. /\ pipe'[v] = pipe[v] /\ loading'[v] = loading[v] /\ cache'[v] = cache[v]
      /\ reply'[v] = reply[v] /\ model'[v] = model[v]
  <2>1. CASE Load(w)
    <3>1. /\ UNCHANGED <<pipe, cache, reply>> /\ loading' = [loading EXCEPT ![w] = <<>>]
          /\ model' = model \/ \E k, x : model' = [model EXCEPT ![w][k] = x]
      BY <2>1 DEF Load
    <3> QED  BY <3>1 DEF WeightTypes
  <2>2. CASE ResetCache(w) \/ Infer(w)
    <3>1. /\ UNCHANGED <<loading, model>>
          /\ cache' = cache \/ \E x : cache' = [cache EXCEPT ![w] = x]
          /\ \E result : Answer(w, result)
      BY <2>2 DEF ResetCache, Infer
    <3> QED  BY <3>1 DEF WeightTypes, ServerFacts, Answer
  <2>3. CASE LeavesUpdate(w)
    BY <2>3, LeavesKeeps
  <2> QED  BY <2>1, <2>2, <2>3 DEF Worker
<1>2. UNCHANGED <<pc, part, step, loadedStep>> /\ Syncing' = Syncing
  BY DEF trainer, Syncing
<1>3. /\ SentParts' = SentParts /\ Parts' = Parts
      /\ NewPart(part)' = NewPart(part) /\ \A k : NewPart(k)' = NewPart(k)
  BY <1>2 DEF SentParts, NewPart, Parts
<1>4. CASE Syncing
  BY <1>1, <1>2, <1>3, <1>4 DEF Updating
<1>5. CASE ~ Syncing
  BY <1>1, <1>2, <1>3, <1>5 DEF Settled
<1> QED  BY <1>4, <1>5

LEMMA AloneWeights ==
  ASSUME ServerFacts, ServingFacts, TypeFacts, QueueFacts, ModeFacts, SyncFacts, Alone,
         NEW w \in Workers, IF Syncing THEN Updating(w) ELSE Settled(w)
  PROVE  IF Syncing' THEN Updating(w)' ELSE Settled(w)'
<1>1. ~ Syncing /\ Settled(w)
  BY AloneFacts DEF Syncing
<1>2. CASE StartSync
  BY <1>1, <1>2, StartWeights DEF StartSync, Syncing
<1>3. CASE ~ StartSync
  <2>1. ~ Syncing'
    BY <1>3 DEF Alone, Syncing, Submit, Get, TrainingStep, OptimiserStep, Evaluate, Evaluated
  <2>2. Settled(w)'
    <3>1. Parts' = Parts
      BY DEF Parts
    <3> QED  BY <1>1, <3>1, AloneFacts DEF Settled
  <2> QED  BY <2>1, <2>2
<1> QED  BY <1>2, <1>3

LEMMA WeightsStep ==
  ASSUME NoneIsNoList, ServerFacts, ServingFacts, TypeFacts, QueueFacts, ModeFacts, Asking,
         SyncFacts, WeightTypes, Weights, Next, failures \subseteq failures'
  PROVE  Weights'
<1> SUFFICES ASSUME Clean', NEW w \in Workers
             PROVE  IF Syncing' THEN Updating(w)' ELSE Settled(w)'
  BY DEF Weights, Workers
<1>1. IF Syncing THEN Updating(w) ELSE Settled(w)
  BY DEF Weights, Clean
<1>2. CASE Alone
  BY <1>1, <1>2, AloneWeights
<1>3. CASE UpdatePart
  BY <1>1, <1>3, UpdateWeights DEF UpdatePart, Syncing
<1>4. CASE BroadcastPart
  <2>1. Syncing /\ pc # "resetting" /\ Syncing'
    BY <1>4 DEF BroadcastPart, Syncing
  <2>2. reply[w] = <<>>
    BY <2>1, SyncServesReset
  <2> QED  BY <1>1, <1>4, <2>1, <2>2, BroadcastWeights
<1>5. CASE Reset
  <2>1. Syncing /\ pc # "resetting" /\ Syncing'
    BY <1>5 DEF Reset, Syncing
  <2>2. reply[w] = <<>>
    BY <2>1, SyncServesReset
  <2> QED  BY <1>1, <1>5, <2>1, <2>2, ResetWeights
<1>6. CASE SyncEnds
  <2>1. Syncing /\ ~ Syncing'
    BY <1>6 DEF SyncEnds, Syncing, TypeFacts
  <2> QED  BY <1>1, <1>6, <2>1, SyncEndsWeights
<1>7. CASE Prefetch
  <2>1. ~ Syncing /\ ~ Syncing' /\ UNCHANGED loadedStep /\ PostInfer("main", Requests(NewTask))
    BY <1>7 DEF Prefetch, Syncing
  <2> QED  BY <1>1, <2>1, PostInferWeights
<1>8. CASE Ask
  <2>1. ~ Syncing /\ ~ Syncing' /\ UNCHANGED loadedStep /\ PostInfer("thread", Requests(Head(tasks)))
    BY <1>8 DEF Ask, Syncing, SyncFacts, trainer
  <2> QED  BY <1>1, <2>1, PostInferWeights
<1>9. CASE Prefetched \/ PrefetchFails
  <2>1. ~ Syncing /\ ~ Syncing' /\ UNCHANGED loadedStep
    BY <1>9 DEF Prefetched, PrefetchFails, Syncing
  <2>2. Respond /\ \A v \in Workers : reply[v] # <<>>
    BY <1>9 DEF Prefetched, PrefetchFails, Answered
  <2> QED  BY <1>1, <2>1, <2>2, RespondWeights
<1>10. CASE RolloutDone \/ RolloutFails
  <2>1. tasks # <<>> /\ UNCHANGED <<pc, loadedStep>>
    BY <1>10 DEF RolloutDone, RolloutFails, Answered, Asking
  <2>2. ~ Syncing /\ ~ Syncing'
    BY <2>1 DEF SyncFacts, Syncing
  <2>3. Respond /\ \A v \in Workers : reply[v] # <<>>
    BY <1>10 DEF RolloutDone, RolloutFails, Answered
  <2> QED  BY <1>1, <2>1, <2>2, <2>3, RespondWeights
<1>11. ASSUME NEW v \in Workers, Worker(v) \/ LeavesUpdate(v), UNCHANGED trainer
       PROVE  IF Syncing' THEN Updating(w)' ELSE Settled(w)'
  <2>1. CASE v # w
    BY <1>1, <1>11, <2>1, OtherWorkers
  <2>2. CASE v = w
    BY <1>1, <1>11, <2>2, LoadWeights, ResetCacheWeights, InferWeights, LeavesWeights DEF Worker
  <2> QED  BY <2>1, <2>2
<1> QED  BY <1>2, <1>3, <1>4, <1>5, <1>6, <1>7, <1>8, <1>9, <1>10, <1>11, NextSplit
         DEF Ends, Obeys, Leaves

-----------------------------------------------------------------------------
\* The results.

\* A batch that is put has its outputs in order, all of the weights of its step.
LEMMA GoodBatch ==
  ASSUME InferFacts, Weights, NEW client, Answered("infer", client), ~ InferRaised, ~ Syncing,
         NEW task, serving.requests = Requests(task), task.step = loadedStep
  PROVE  InOrder(Cache(task)) /\ OfOneModel(Cache(task))
<1>1. /\ [i \in DOMAIN Outputs |-> Outputs[i].request] = Requests(task)
      /\ \A j \in DOMAIN Outputs : \E w \in Workers :
           /\ reply[w] # <<>> /\ Head(reply[w]) # None
           /\ \E i \in DOMAIN Head(reply[w]) : Outputs[j] = Head(reply[w])[i]
  BY OutputsFollow
<1>2. Cache(task).results = Outputs /\ Cache(task).task = task
  BY DEF Cache
<1>3. ASSUME Clean, NEW j \in DOMAIN Outputs
      PROVE  Outputs[j].used = {[p \in Parts |-> task.step]}
  <2>1. PICK w \in Workers :
          /\ reply[w] # <<>> /\ Head(reply[w]) # None
          /\ \E i \in DOMAIN Head(reply[w]) : Outputs[j] = Head(reply[w])[i]
    BY <1>1
  <2>2. Settled(w)
    BY <1>3 DEF Weights
  <2>3. model[w] = [p \in Parts |-> task.step]
    BY <2>2 DEF Settled
  <2> QED  BY <2>1, <2>2, <2>3 DEF Settled
<1> HIDE DEF Cache
<1> QED  BY <1>1, <1>2, <1>3 DEF InOrder, OfOneModel

LEMMA BatchesPut ==
  ASSUME TypeFacts, NEW m \in Modes, NEW e, queue' = [queue EXCEPT ![m] = Append(@, e)],
         UNCHANGED got
  PROVE  Batches' \subseteq Batches \cup {e}
<1>1. /\ \A k \in Modes : IsSeq(queue[k])
      /\ queue = [k \in Modes |-> queue[k]] /\ Modes = {"train", "eval"}
  BY DEF TypeFacts, Modes
<1>2. /\ queue'[m] = Append(queue[m], e)
      /\ \A k \in Modes \ {m} : queue'[k] = queue[k]
  BY <1>1
<1>3. ASSUME NEW k \in Modes
      PROVE  ToSet(queue'[k]) \subseteq ToSet(queue[k]) \cup {e}
  <2>1. CASE k = m
    <3>1. \A i \in DOMAIN queue'[m] : queue'[m][i] = e \/ (i \in DOMAIN queue[m] /\ queue'[m][i] = queue[m][i])
      BY <1>1, <1>2, SeqAppend
    <3> QED  BY <2>1, <3>1 DEF ToSet
  <2>2. CASE k # m
    BY <1>2, <2>2
  <2> QED  BY <2>1, <2>2
<1> QED  BY <1>1, <1>3 DEF Batches

LEMMA BatchesTaken ==
  ASSUME TypeFacts, Get
  PROVE  Batches' \subseteq Batches
<1>1. /\ mode \in Modes /\ \A k \in Modes : IsSeq(queue[k])
      /\ queue = [k \in Modes |-> queue[k]] /\ Modes = {"train", "eval"}
  BY DEF TypeFacts, Modes
<1>2. /\ got' = Head(queue[mode]) /\ queue[mode] # <<>>
      /\ queue'[mode] = Tail(queue[mode])
      /\ \A k \in Modes \ {mode} : queue'[k] = queue[k]
  BY <1>1 DEF Get
<1>3. /\ Len(queue[mode]) \in Nat \ {0} /\ DOMAIN queue[mode] = 1 .. Len(queue[mode])
      /\ DOMAIN queue'[mode] = 1 .. Len(queue[mode]) - 1
      /\ \A i \in 1 .. Len(queue[mode]) - 1 : queue'[mode][i] = queue[mode][i + 1]
      /\ got' = queue[mode][1]
  BY <1>1, <1>2, SeqTail
<1>4. ASSUME NEW k \in Modes
      PROVE  ToSet(queue'[k]) \subseteq ToSet(queue[k])
  <2>1. CASE k = mode
    <3>1. \A i \in DOMAIN queue'[mode] : i + 1 \in DOMAIN queue[mode] /\ queue'[mode][i] = queue[mode][i + 1]
      BY <1>3
    <3> QED  BY <2>1, <3>1 DEF ToSet
  <2>2. CASE k # mode
    BY <1>2, <2>2
  <2> QED  BY <2>1, <2>2
<1>5. got' \in ToSet(queue[mode])
  <2>1. 1 \in DOMAIN queue[mode]
    BY <1>3
  <2> QED  BY <1>3, <2>1 DEF ToSet
<1> QED  BY <1>1, <1>4, <1>5 DEF Batches

LEMMA ResultsStep ==
  ASSUME TypeFacts, Asking, InferFacts, ServingFacts, SyncFacts, Weights, Results, Next,
         failures \subseteq failures'
  PROVE  Results'
<1>1. \A b \in Batches : InOrder(b)' /\ OfOneModel(b)'
  <2>1. \A b : InOrder(b)' = InOrder(b)
    BY DEF InOrder, Requests
  <2>2. \A b : OfOneModel(b) => OfOneModel(b)'
    BY DEF OfOneModel, Clean, Parts
  <2> QED  BY <2>1, <2>2 DEF Results
<1>2. \A b : InOrder(b) /\ OfOneModel(b) => InOrder(b)' /\ OfOneModel(b)'
  BY DEF InOrder, Requests, OfOneModel, Clean, Parts
<1>3. CASE Batches' \subseteq Batches
  BY <1>1, <1>3 DEF Results
<1>4. CASE Prefetched
  <2>1. /\ Answered("infer", "main") /\ ~ InferRaised /\ pc = "prefetching"
        /\ queue' = [queue EXCEPT ![mode] = Append(@, Cache(NewTask))] /\ UNCHANGED got
        /\ mode \in Modes
    BY <1>4 DEF Prefetched, TypeFacts
  <2>2. serving.requests = Requests(NewTask)
    BY <2>1 DEF Answered, ServingFacts
  <2>3. NewTask.step = loadedStep /\ ~ Syncing
    BY <2>1 DEF NewTask, SyncFacts, Syncing
  <2>4. InOrder(Cache(NewTask)) /\ OfOneModel(Cache(NewTask))
    BY <2>1, <2>2, <2>3, GoodBatch
  <2>5. Batches' \subseteq Batches \cup {Cache(NewTask)}
    BY <2>1, BatchesPut
  <2> HIDE DEF NewTask
  <2> QED  BY <1>1, <1>2, <2>4, <2>5 DEF Results
<1>5. CASE RolloutDone
  <2> DEFINE t == Head(tasks)
  <2>1. /\ Answered("infer", "thread") /\ ~ InferRaised
        /\ queue' = [queue EXCEPT ![t.mode] = Append(@, Cache(t))] /\ UNCHANGED got
    BY <1>5 DEF RolloutDone
  <2>2. serving.requests = Requests(t) /\ tasks # <<>>
    BY <2>1 DEF Answered, ServingFacts
  <2>3. t.step = loadedStep /\ ~ Syncing /\ t.mode \in Modes
    <3>1. t = tasks[1] /\ 1 \in DOMAIN tasks
      BY <2>2, SeqTail DEF TypeFacts
    <3> QED  BY <2>2, <3>1 DEF TypeFacts, SyncFacts
  <2> HIDE DEF t
  <2>4. InOrder(Cache(t)) /\ OfOneModel(Cache(t))
    BY <2>1, <2>2, <2>3, GoodBatch
  <2>5. Batches' \subseteq Batches \cup {Cache(t)}
    BY <2>1, <2>3, BatchesPut
  <2> QED  BY <1>1, <1>2, <2>4, <2>5 DEF Results
<1>6. CASE Get
  BY <1>3, <1>6, BatchesTaken
<1>7. CASE UNCHANGED <<queue, got>>
  BY <1>3, <1>7 DEF Batches
<1>8. Prefetched \/ RolloutDone \/ Get \/ UNCHANGED <<queue, got>>
  <2>1. CASE Alone
    BY <2>1 DEF Alone, StartSync, Submit, TrainingStep, OptimiserStep, Evaluate, Evaluated
  <2>2. CASE Ends
    BY <2>2 DEF Ends, SyncEnds, PrefetchFails, RolloutFails
  <2>3. CASE ~ Alone /\ ~ Ends
    BY <2>3, NextSplit DEF UpdatePart, BroadcastPart, Reset, Prefetch, Ask, Obeys, Leaves, trainer
  <2> QED  BY <2>1, <2>2, <2>3
<1> QED  BY <1>4, <1>5, <1>6, <1>7, <1>8

-----------------------------------------------------------------------------
LEMMA InitOutputs == Init => OutputsInv
<1> SUFFICES ASSUME Init PROVE OutputsInv
  OBVIOUS
<1>1. AsyncInv
  BY InitAsync
<1>2. InferFacts /\ ServingFacts
  BY DEF Init, ServerInit, InferFacts, ServingFacts
<1>3. SyncFacts
  <2>1. 1 \in Parts
    BY ServerAssumption DEF Parts
  <2> QED  BY <2>1, EmptyIsSeq DEF Init, SyncFacts, Syncing
<1>4. WeightTypes
  BY DEF Init, ServerInit, WeightTypes, Dummy
<1>5. Weights
  BY EmptyIsSeq DEF Init, ServerInit, Weights, Settled, Syncing, Dummy
<1>6. Results
  <2>1. Batches = {}
    <3>1. ToSet(<<>>) = {}
      BY EmptyIsSeq DEF ToSet
    <3> QED  BY <3>1 DEF Init, Batches, Modes
  <2> QED  BY <2>1 DEF Results
<1> QED  BY <1>1, <1>2, <1>3, <1>4, <1>5, <1>6 DEF OutputsInv

LEMMA OutputsStep ==
  ASSUME NoneIsNoList, OutputsInv, [Next]_vars
  PROVE  OutputsInv'
<1>0. /\ AsyncInv /\ InferFacts /\ ServingFacts /\ SyncFacts /\ WeightTypes /\ Weights /\ Results
      /\ TypeFacts /\ QueueFacts /\ ModeFacts /\ ServerFacts /\ Asking
  BY DEF OutputsInv, AsyncInv
<1>1. AsyncInv'
  BY <1>0, AsyncStep
<1>2. CASE Next
  <2>1. failures \subseteq failures'
    BY <1>0, <1>2, ServerStep
  <2>2. InferFacts' /\ ServingFacts'
    BY <1>0, <1>2, InferFactsStep, ServingStep
  <2>3. SyncFacts'
    BY <1>0, <1>2, SyncStep
  <2>4. WeightTypes' /\ Weights'
    BY <1>0, <1>2, <2>1, WeightTypesStep, WeightsStep
  <2>5. Results'
    BY <1>0, <1>2, <2>1, ResultsStep
  <2> QED  BY <1>1, <2>2, <2>3, <2>4, <2>5 DEF OutputsInv
<1>3. CASE UNCHANGED vars
  <2>1. UNCHANGED <<pipe, loading, model, cache, reply, serving, failures>> /\ UNCHANGED trainer
    BY <1>3 DEF vars, server
  <2>2. /\ UNCHANGED <<pc, mode, goal, part, step, loadedStep, batch, queue, tasks, got>>
    BY <2>1 DEF trainer
  <2>3. InferFacts'
    BY <1>0, <2>1, InferFactsKept
  <2>4. ServingFacts' /\ SyncFacts' /\ WeightTypes'
    BY <1>0, <2>1, <2>2 DEF ServingFacts, SyncFacts, WeightTypes, Syncing, Requests, NewTask, Parts, Workers
  <2>5. Weights'
    BY <1>0, <2>1, <2>2 DEF Weights, Clean, Syncing, Updating, Settled, SentParts, NewPart, Parts, Workers
  <2>6. Results'
    BY <1>0, <2>1, <2>2 DEF Results, Batches, InOrder, OfOneModel, Clean, Requests, Parts
  <2> QED  BY <1>1, <2>3, <2>4, <2>5, <2>6 DEF OutputsInv
<1> QED  BY <1>2, <1>3

\* A batch has one output for each of its requests, in their order, for every
\* number of workers and every size of a batch: what the placeholders brought is
\* left out, and no answer is of another request.
THEOREM BatchesInOrder ==
  ASSUME NoneIsNoList
  PROVE  Spec => []OutputsInOrder
<1>1. OutputsInv /\ [Next]_vars => OutputsInv'
  BY OutputsStep
<1>2. OutputsInv => OutputsInOrder
  BY DEF OutputsInv, Results, InOrder, OutputsInOrder
<1> QED  BY InitOutputs, <1>1, <1>2, PTL DEF Spec

\* As long as no worker failed to load or to reset, all outputs of a batch come
\* from the weights of the step in which it was asked for, whatever the threads
\* and the workers do meanwhile, for every number of parameter groups.
THEOREM BatchesOfOneModel ==
  ASSUME NoneIsNoList
  PROVE  Spec => []OneModelPerBatch
<1>1. OutputsInv /\ [Next]_vars => OutputsInv'
  BY OutputsStep
<1>2. OutputsInv => OneModelPerBatch
  BY DEF OutputsInv, Results, OfOneModel, OneModelPerBatch, Clean
<1> QED  BY InitOutputs, <1>1, <1>2, PTL DEF Spec
-----------------------------------------------------------------------------
\* Asynchronous generation implements the generator with one set of weights.

\* The weights grow: a synchronisation is for a later step than the last one.
StepFacts ==
  /\ step \in Int /\ loadedStep \in Int /\ loadedStep <= step
  /\ Syncing => loadedStep < step

LEMMA StepFactsStep ==
  ASSUME StepFacts, TypeFacts, [Next]_vars
  PROVE  StepFacts'
<1>0. /\ step \in Int /\ loadedStep \in Int /\ loadedStep <= step
      /\ pc \in {"update", "broadcast", "reset", "resetting"} => loadedStep < step
      /\ Syncing' = (pc' \in {"update", "broadcast", "reset", "resetting"})
      /\ goal \in {"prefetch", "generate"}
  BY DEF StepFacts, Syncing, TypeFacts
<1>1. CASE StartSync
  BY <1>0, <1>1 DEF StartSync, StepFacts
<1>2. CASE UpdatePart \/ BroadcastPart \/ Reset
  BY <1>0, <1>2 DEF UpdatePart, BroadcastPart, Reset, StepFacts
<1>3. CASE SyncEnds
  <2>1. pc = "resetting" /\ loadedStep' = step /\ step' = step /\ pc' = goal
    BY <1>3 DEF SyncEnds
  <2>2. ~ Syncing'
    BY <1>0, <2>1
  <2>3. step' \in Int /\ loadedStep' \in Int /\ loadedStep' <= step'
    BY <1>0, <2>1
  <2> QED  BY <2>2, <2>3 DEF StepFacts
<1>4. CASE OptimiserStep
  <2>1. step' \in {step, step + 1}
    BY <1>4 DEF OptimiserStep
  <2>2. UNCHANGED loadedStep /\ pc' \in {"trainwait", "evalwait"}
    BY <1>4 DEF OptimiserStep
  <2>3. step' \in Int /\ loadedStep' \in Int /\ loadedStep' <= step'
    BY <1>0, <2>1, <2>2
  <2>4. ~ Syncing'
    BY <1>0, <2>2
  <2> QED  BY <2>3, <2>4 DEF StepFacts
<1>5. CASE Prefetch \/ Prefetched \/ PrefetchFails \/ Submit \/ Get
  BY <1>0, <1>5 DEF Prefetch, Prefetched, PrefetchFails, Submit, Get, StepFacts
<1>6. CASE TrainingStep \/ Evaluate \/ Evaluated
  BY <1>0, <1>6 DEF TrainingStep, Evaluate, Evaluated, StepFacts
<1>7. CASE UNCHANGED <<pc, step, loadedStep>>
  BY <1>0, <1>7 DEF StepFacts
<1>8. CASE Ask \/ RolloutDone \/ RolloutFails \/ UNCHANGED vars \/ Obeys \/ Leaves
  BY <1>7, <1>8 DEF Ask, RolloutDone, RolloutFails, Obeys, Leaves, vars, trainer
<1> QED  BY <1>1, <1>2, <1>3, <1>4, <1>5, <1>6, <1>8 DEF Next, Main, Thread, Obeys, Leaves

\* A batch that is put is what the generator may put.
LEMMA PutsGood ==
  ASSUME TypeFacts, InferFacts, Weights, NEW client, Answered("infer", client), ~ InferRaised,
         ~ Syncing, NEW task, task.mode \in Modes, serving.requests = Requests(task),
         task.step = loadedStep,
         queue' = [queue EXCEPT ![task.mode] = Append(@, Cache(task))]
  PROVE  Generating!Put(task)
<1> DEFINE m == task.mode
           b == Cache(task)
<1>1. InOrder(b) /\ OfOneModel(b) /\ b.task = task
  BY GoodBatch DEF Cache
<1> HIDE DEF b
<1>2. Generating!Good(b, task)
  BY <1>1 DEF Generating!Good, InOrder, OfOneModel, Clean, Requests
<1>3. IsSeq(queue[m]) /\ queue'[m] = Append(queue[m], b)
  BY DEF TypeFacts, b
<1>4. queue'[m] # <<>> /\ Last(queue'[m]) = b
  <2> DEFINE s == queue[m]
  <2>1. IsSeq(s) /\ queue'[m] = Append(s, b)
    BY <1>3
  <2> HIDE DEF m, s
  <2>2. /\ Len(Append(s, b)) = Len(s) + 1 /\ Append(s, b)[Len(s) + 1] = b
        /\ Append(s, b) # <<>>
    BY <2>1, SeqAppend
  <2> QED  BY <2>1, <2>2 DEF Last
<1>5. queue' = [queue EXCEPT ![task.mode] = Append(@, b)]
  BY DEF b
<1>6. /\ queue'[task.mode] # <<>> /\ Last(queue'[task.mode]) = b
      /\ Generating!Good(Last(queue'[task.mode]), task)
      /\ queue' = [queue EXCEPT ![task.mode] = Append(@, Last(queue'[task.mode]))]
  BY <1>2, <1>4, <1>5
<1> QED  BY <1>6 DEF Generating!Put, Generating!Last, Last

LEMMA GeneratorStep ==
  ASSUME NoneIsNoList, OutputsInv, StepFacts, [Next]_vars
  PROVE  [Generating!Next]_(Generating!vars)
<1>0. /\ TypeFacts /\ QueueFacts /\ ModeFacts /\ ServerFacts /\ Asking
      /\ InferFacts /\ ServingFacts /\ SyncFacts /\ Weights
      /\ mode \in Modes /\ IsSeq(tasks)
  BY DEF OutputsInv, AsyncInv, TypeFacts
<1>1. CASE UNCHANGED <<loadedStep, failures, batch, tasks, queue>>
  BY <1>1 DEF Generating!vars
<1>2. CASE SyncEnds
  <2>1. tasks = <<>> /\ step > loadedStep /\ step \in Int
    BY <1>0, <1>2 DEF SyncEnds, SyncFacts, Syncing, StepFacts
  <2>2. loadedStep' = step /\ UNCHANGED <<failures, batch, tasks, queue>>
    BY <1>2 DEF SyncEnds, Respond
  <2>3. Generating!Synchronise
    BY <2>1, <2>2 DEF Generating!Synchronise
  <2> QED  BY <2>3 DEF Generating!Next
<1>3. CASE Submit
  <2>1. Rounds(mode) = {batch[mode]} /\ step = loadedStep
    BY <1>3 DEF Submit, Rounds
  <2>2. /\ \A i \in DOMAIN queue[mode] : queue[mode][i].task.round = batch[mode]
        /\ \A i \in DOMAIN tasks : tasks[i].mode = mode => tasks[i].round = batch[mode]
    BY <1>0, <2>1 DEF QueueFacts
  <2>3. [NewTask EXCEPT !.round = @ + 1] = Generating!Task(mode, batch[mode] + 1)
    BY <2>1 DEF NewTask, Generating!Task
  <2>4. /\ batch' = [batch EXCEPT ![mode] = @ + 1]
        /\ tasks' = Append(tasks, [NewTask EXCEPT !.round = @ + 1])
        /\ UNCHANGED <<loadedStep, failures, queue>>
    BY <1>3 DEF Submit, server
  <2>5. Generating!AskFor(mode)
    BY <2>2, <2>3, <2>4 DEF Generating!AskFor
  <2> QED  BY <1>0, <2>5 DEF Generating!Next
<1>4. CASE Prefetched
  <2>1. /\ Answered("infer", "main") /\ ~ InferRaised /\ pc = "prefetching"
        /\ queue' = [queue EXCEPT ![mode] = Append(@, Cache(NewTask))]
        /\ UNCHANGED <<loadedStep, failures, batch, tasks>>
    BY <1>4 DEF Prefetched, Respond
  <2>2. serving.requests = Requests(NewTask) /\ ~ Syncing /\ step = loadedStep
    BY <1>0, <2>1 DEF Answered, ServingFacts, SyncFacts, Syncing
  <2>3. NewTask = Generating!Task(mode, batch[mode]) /\ NewTask.mode = mode /\ NewTask.step = loadedStep
    BY <2>2 DEF NewTask, Generating!Task
  <2>4. NonePending(mode)
    BY <1>0, <2>1 DEF ModeFacts, Prefetching
  <2>5. Generating!Put(NewTask)
    <3> HIDE DEF NewTask
    <3> QED  BY <1>0, <2>1, <2>2, <2>3, PutsGood
  <2>6. Generating!GenerateNow(mode)
    BY <2>1, <2>3, <2>4, <2>5 DEF Generating!GenerateNow, NonePending
  <2> QED  BY <1>0, <2>6 DEF Generating!Next
<1>5. CASE Get
  <2>1. Generating!Take(mode)
    BY <1>5 DEF Get, Generating!Take, server
  <2> QED  BY <1>0, <2>1 DEF Generating!Next
<1>6. CASE RolloutDone
  <2> DEFINE t == Head(tasks)
  <2>1. /\ Answered("infer", "thread") /\ ~ InferRaised
        /\ queue' = [queue EXCEPT ![t.mode] = Append(@, Cache(t))]
        /\ tasks' = Tail(tasks) /\ UNCHANGED <<loadedStep, failures, batch>>
    BY <1>6 DEF RolloutDone, Respond
  <2>2. serving.requests = Requests(t) /\ tasks # <<>>
    BY <1>0, <2>1 DEF Answered, ServingFacts
  <2>3. t.step = loadedStep /\ ~ Syncing /\ t.mode \in Modes
    <3>1. t = tasks[1] /\ 1 \in DOMAIN tasks
      BY <1>0, <2>2, SeqTail
    <3> QED  BY <1>0, <2>2, <3>1 DEF TypeFacts, SyncFacts
  <2>4. Generating!Put(t)
    <3> HIDE DEF t
    <3> QED  BY <1>0, <2>1, <2>2, <2>3, PutsGood
  <2>5. Generating!Generate
    BY <2>1, <2>2, <2>3, <2>4 DEF Generating!Generate
  <2> QED  BY <2>5 DEF Generating!Next
<1>7. CASE RolloutFails
  <2>1. tasks # <<>> /\ "infer" \in failures
    BY <1>0, <1>7, RaisedIsFailure DEF RolloutFails, Answered, Asking
  <2>2. Generating!Lose
    BY <1>7, <2>1 DEF RolloutFails, Respond, Generating!Lose
  <2> QED  BY <2>2 DEF Generating!Next
<1>8. CASE Obeys \/ Leaves
  <2>1. failures \subseteq failures' /\ UNCHANGED <<loadedStep, batch, tasks, queue>>
    BY <1>0, <1>8, WorkerKeeps, LeavesKeeps DEF Obeys, Leaves, trainer
  <2>2. Generating!Fail
    BY <2>1 DEF Generating!Fail
  <2> QED  BY <2>2 DEF Generating!Next
<1>9. CASE StartSync \/ TrainingStep \/ OptimiserStep \/ Evaluate \/ Evaluated
  BY <1>1, <1>9 DEF StartSync, TrainingStep, OptimiserStep, Evaluate, Evaluated, server
<1>10. CASE UpdatePart \/ BroadcastPart \/ Reset \/ Prefetch \/ PrefetchFails
  BY <1>1, <1>10 DEF UpdatePart, BroadcastPart, Reset, Prefetch, PrefetchFails, PostUpdate,
                     Broadcast, PostReset, PostInfer, Respond
<1>11. CASE Ask \/ UNCHANGED vars
  BY <1>1, <1>11 DEF Ask, PostInfer, trainer, vars, server
<1> QED  BY <1>2, <1>3, <1>4, <1>5, <1>6, <1>7, <1>8, <1>9, <1>10, <1>11
         DEF Next, Main, Thread, Obeys, Leaves

\* Executor, queues, pipes and workers are one generator with one set of
\* weights, for every number of workers, parameter groups, rounds, evaluations
\* and failures: a synchronisation of many messages is one step, between two
\* batches, and every batch comes from the weights before or after it as a whole.
THEOREM OneGenerator ==
  ASSUME NoneIsNoList
  PROVE  Spec => ImplementsGenerator
<1>1. Init => Generating!Init
  BY DEF Init, ServerInit, Generating!Init
<1>2. Init => StepFacts
  BY DEF Init, StepFacts, Syncing
<1>3. OutputsInv /\ [Next]_vars => OutputsInv'
  BY OutputsStep
<1>4. OutputsInv /\ StepFacts /\ [Next]_vars => StepFacts'
  BY StepFactsStep DEF OutputsInv, AsyncInv
<1>5. OutputsInv /\ StepFacts /\ [Next]_vars => [Generating!Next]_(Generating!vars)
  BY GeneratorStep
<1> QED  BY InitOutputs, <1>1, <1>2, <1>3, <1>4, <1>5, PTL
         DEF Spec, ImplementsGenerator, Generating!Spec
-----------------------------------------------------------------------------
\* Nobody waits for what nobody will bring.

\* The main thread waits for a batch of mode m.
AwaitsBatch(m) ==
  \/ pc = "get" /\ m = mode
  \/ pc = "generate" /\ step # loadedStep /\ m = mode
  \/ pc = "evalwait" /\ m = "train"
  \/ pc = "trainwait" /\ evalFlag /\ m = "eval"

HasCommand(w, type) == IsSeq(pipe[w]) /\ Len(pipe[w]) = 1 /\ pipe[w][1].type = type

\* What each wait is for exists: a batch is on the queue or with the executor,
\* every worker has its update before the barrier (unless one left an update),
\* every answer is there or is the worker's next command, and no request of a
\* synchronisation finds the server busy with another one.  (A worker that has
\* still to load the tensors before it takes a command waits for nobody.)
NoWaitInVain ==
  /\ "infer" \notin failures => \A m \in Modes :
       AwaitsBatch(m) => queue[m] # <<>> \/ \E i \in DOMAIN tasks : tasks[i].mode = m
  /\ pc = "broadcast" /\ "join" \notin failures => \A w \in Workers : HasCommand(w, "update")
  /\ serving # Idle => \A w \in Workers : reply[w] # <<>> \/ HasCommand(w, serving.kind)
  /\ pc \in {"update", "broadcast", "reset"} => serving = Idle

\* A worker has at most one command, and none while its answer is on its way.
PipeShape(w) ==
  /\ serving = Idle /\ pc # "broadcast" => pipe[w] = <<>>
  /\ pc = "broadcast" => HasCommand(w, "update") \/ (pipe[w] = <<>> /\ "join" \in failures)
  /\ serving # Idle /\ reply[w] = <<>> => HasCommand(w, serving.kind)
  /\ serving # Idle /\ reply[w] # <<>> => pipe[w] = <<>>

PipeShapes == \A w \in Workers : PipeShape(w)

LEMMA OneCommand ==
  ASSUME NEW c
  PROVE  LET s == Append(<<>>, c) IN IsSeq(s) /\ Len(s) = 1 /\ s[1] = c
<1> DEFINE s == Append(<<>>, c)
<1>1. Len(<<>>) = 0
  OBVIOUS
<1>2. IsSeq(s) /\ Len(s) = Len(<<>>) + 1 /\ s[Len(<<>>) + 1] = c
  BY EmptyIsSeq, SeqAppend
<1> HIDE DEF s
<1>3. Len(<<>>) + 1 = 1
  BY <1>1
<1>4. IsSeq(s) /\ Len(s) = 1 /\ s[1] = c
  BY <1>2, <1>3
<1> QED  BY <1>4 DEF s

LEMMA CommandTaken ==
  ASSUME NEW w \in Workers, NEW type, HasCommand(w, type)
  PROVE  /\ pipe[w] # <<>> /\ Head(pipe[w]).type = type
         /\ Tail(pipe[w]) = <<>>
<1>1. pipe[w] # <<>>
  BY EmptyIsSeq DEF HasCommand
<1>2. /\ Head(pipe[w]) = pipe[w][1] /\ IsSeq(Tail(pipe[w]))
      /\ Len(Tail(pipe[w])) = 0
  <2>1. Len(pipe[w]) = 1 /\ IsSeq(pipe[w])
    BY DEF HasCommand
  <2>2. /\ Head(pipe[w]) = pipe[w][1] /\ IsSeq(Tail(pipe[w]))
        /\ Len(Tail(pipe[w])) = Len(pipe[w]) - 1
    BY <1>1, <2>1, SeqTail
  <2> QED  BY <2>1, <2>2
<1>3. Tail(pipe[w]) = <<>>
  <2> DEFINE t == Tail(pipe[w])
  <2>1. IsSeq(t) /\ Len(t) = 0
    BY <1>2
  <2> HIDE DEF t
  <2>2. t = <<>>
    BY <2>1, SeqTail
  <2> QED  BY <2>2 DEF t
<1> QED  BY <1>1, <1>2, <1>3 DEF HasCommand

\* A command for every worker, when all pipes are empty.
LEMMA SendShapes ==
  ASSUME ServerFacts, PipeShapes, serving = Idle, pc # "broadcast",
         NEW commands, Send(commands), UNCHANGED reply,
         NEW type, \A w \in Workers : commands[w].type = type,
         \/ serving' # Idle /\ serving'.kind = type /\ pc' # "broadcast"
         \/ serving' = Idle /\ pc' = "broadcast" /\ type = "update"
  PROVE  PipeShapes'
<1> SUFFICES ASSUME NEW w \in Workers PROVE PipeShape(w)'
  BY DEF PipeShapes, Workers
<1>1. pipe[w] = <<>> /\ reply'[w] = <<>>
  BY DEF PipeShapes, PipeShape, ServerFacts, ReplyOf
<1>2. pipe'[w] = Append(<<>>, commands[w])
  BY <1>1 DEF Send
<1>3. HasCommand(w, type)'
  BY <1>2, OneCommand DEF HasCommand
<1> QED  BY <1>1, <1>3 DEF PipeShape

LEMMA WorkerShapes ==
  ASSUME ServerFacts, PipeShapes, NEW v \in Workers, Worker(v), UNCHANGED pc,
         failures \subseteq failures'
  PROVE  PipeShapes'
<1> SUFFICES ASSUME NEW w \in Workers PROVE PipeShape(w)'
  BY DEF PipeShapes, Workers
<1>0. PipeShape(w) /\ PipeShape(v) /\ UNCHANGED serving
  BY DEF PipeShapes, Worker, Load, ResetCache, Infer
<1>1. CASE UNCHANGED <<pipe[w], reply[w]>>
  BY <1>0, <1>1 DEF PipeShape, HasCommand
<1>2. CASE ~ UNCHANGED <<pipe[w], reply[w]>>
  <2>1. \E result : Answer(v, result) /\ pipe[v] # <<>> /\ Head(pipe[v]).type \in {"reset", "infer"}
    BY <1>2 DEF Worker, Load, ResetCache, Infer, Head1
  <2>2. PICK result : Answer(v, result) /\ pipe[v] # <<>> /\ Head(pipe[v]).type \in {"reset", "infer"}
    BY <2>1
  <2>3. w = v
    BY <1>2, <2>2 DEF Answer, ServerFacts
  <2>4. pipe'[v] = Tail(pipe[v]) /\ reply'[v] = Append(reply[v], result)
    BY <2>2 DEF Answer, ServerFacts
  <2>5. pc # "broadcast" /\ serving # Idle /\ reply[v] = <<>>
    BY <1>0, <2>2, CommandTaken DEF PipeShape
  <2>6. pipe'[v] = <<>>
    BY <1>0, <2>4, <2>5, CommandTaken DEF PipeShape
  <2>7. reply'[v] # <<>>
    BY <2>4, <2>5, EmptyIsSeq, SeqAppend
  <2> QED  BY <1>0, <2>3, <2>5, <2>6, <2>7 DEF PipeShape
<1> QED  BY <1>1, <1>2

\* A worker that leaves an update has nothing more to do until another request.
LEMMA LeavesShapes ==
  ASSUME ServerFacts, PipeShapes, NEW v \in Workers, LeavesUpdate(v), UNCHANGED pc,
         pc = "broadcast" => serving = Idle, serving # Idle => serving.kind \in {"reset", "infer"}
  PROVE  PipeShapes'
<1> SUFFICES ASSUME NEW w \in Workers PROVE PipeShape(w)'
  BY DEF PipeShapes, Workers
<1>1. /\ UNCHANGED <<reply, serving>> /\ "join" \in failures'
      /\ pipe[v] # <<>> /\ Head(pipe[v]).type = "update" /\ pipe'[v] = Tail(pipe[v])
      /\ \A u \in Workers \ {v} : pipe'[u] = pipe[u]
  BY LeavesKeeps DEF Head1
<1>2. PipeShape(w) /\ PipeShape(v)
  BY DEF PipeShapes
<1>3. CASE w # v
  <2>1. pipe'[w] = pipe[w]
    BY <1>1, <1>3
  <2> QED  BY <1>1, <1>2, <2>1 DEF PipeShape, HasCommand
<1>4. CASE w = v
  <2>1. serving # Idle => ~ HasCommand(v, serving.kind)
    BY <1>1, CommandTaken
  <2>2. pc = "broadcast" /\ serving = Idle
    BY <1>1, <1>2, <2>1 DEF PipeShape
  <2>3. HasCommand(v, "update")
    BY <1>1, <1>2, <2>2 DEF PipeShape
  <2>4. pipe'[v] = <<>>
    BY <1>1, <2>3, CommandTaken
  <2> QED  BY <1>1, <1>4, <2>2, <2>4 DEF PipeShape
<1> QED  BY <1>3, <1>4

\* While the main thread sends weights, only it has a request at the server.
LEMMA SyncAlone ==
  ASSUME ServingFacts, SyncFacts, pc \in {"update", "broadcast", "reset"}
  PROVE  serving = Idle
BY DEF ServingFacts, SyncFacts, Syncing

LEMMA ShapesStep ==
  ASSUME TypeFacts, ServerFacts, ServingFacts, SyncFacts, PipeShapes, Next,
         failures \subseteq failures'
  PROVE  PipeShapes'
<1>1. CASE Alone
  <2>1. UNCHANGED <<pipe, reply, serving>> /\ pc # "broadcast" /\ pc' # "broadcast"
    BY <1>1, AloneFacts
  <2> QED  BY <2>1 DEF PipeShapes, PipeShape, HasCommand, Workers
<1>2. CASE UpdatePart
  <2> DEFINE commands == [w \in Workers |-> [type |-> "update", part |-> part, version |-> step]]
  <2>1. /\ Send(commands) /\ UNCHANGED <<reply, serving>> /\ serving = Idle
        /\ pc = "update" /\ pc' = "broadcast" /\ \A w \in Workers : commands[w].type = "update"
    BY <1>2 DEF UpdatePart, PostUpdate
  <2> HIDE DEF commands
  <2> QED  BY <2>1, SendShapes
<1>3. CASE Reset
  <2> DEFINE commands == [w \in Workers |-> [type |-> "reset"]]
  <2>1. /\ Send(commands) /\ UNCHANGED reply /\ serving = Idle
        /\ serving' # Idle /\ serving'.kind = "reset"
        /\ pc = "reset" /\ pc' = "resetting" /\ \A w \in Workers : commands[w].type = "reset"
    BY <1>3 DEF Reset, PostReset, Idle
  <2> HIDE DEF commands
  <2> QED  BY <2>1, SendShapes
<1>4. CASE Prefetch \/ Ask
  <2>1. PICK client, requests : PostInfer(client, requests)
    BY <1>4 DEF Prefetch, Ask
  <2> DEFINE commands == [w \in Workers |->
               [type |-> "infer",
                requests |-> IF Chunk(requests, w) = <<>> THEN <<Placeholder>>
                             ELSE Chunk(requests, w)]]
  <2>2. /\ Send(commands) /\ UNCHANGED reply /\ serving = Idle
        /\ serving' # Idle /\ serving'.kind = "infer"
        /\ \A w \in Workers : commands[w].type = "infer"
    BY <2>1 DEF PostInfer, Idle
  <2>3. pc # "broadcast" /\ pc' # "broadcast"
    <3>1. CASE Prefetch
      BY <3>1 DEF Prefetch
    <3>2. CASE Ask
      BY <3>2 DEF Ask, trainer, SyncFacts, Syncing
    <3> QED  BY <1>4, <3>1, <3>2
  <2> HIDE DEF commands
  <2> QED  BY <2>2, <2>3, SendShapes
<1>5. CASE BroadcastPart
  <2>1. /\ pc = "broadcast" /\ pc' # "broadcast" /\ UNCHANGED <<reply, serving>>
        /\ pipe' = [w \in Workers |-> Tail(pipe[w])] /\ serving = Idle
        /\ \A w \in Workers : pipe[w] # <<>>
    BY <1>5, SyncAlone DEF BroadcastPart, Broadcast, Head1
  <2>2. \A w \in Workers : pipe'[w] = <<>>
    BY <2>1, CommandTaken DEF PipeShapes, PipeShape
  <2> QED  BY <2>1, <2>2 DEF PipeShapes, PipeShape, Workers
<1>6. CASE Ends
  <2>1. /\ serving # Idle /\ serving' = Idle /\ UNCHANGED pipe
        /\ \A w \in Workers : reply[w] # <<>>
    BY <1>6, EndsFacts
  <2>2. pc' # "broadcast"
    <3>1. CASE SyncEnds \/ Prefetched \/ PrefetchFails
      BY <3>1, <1>6 DEF SyncEnds, Prefetched, PrefetchFails, TypeFacts
    <3>2. CASE RolloutDone \/ RolloutFails
      BY <2>1, <3>2, SyncAlone DEF RolloutDone, RolloutFails
    <3> QED  BY <1>6, <3>1, <3>2 DEF Ends
  <2> QED  BY <2>1, <2>2 DEF PipeShapes, PipeShape, Workers
<1>7. CASE Obeys
  BY <1>7, WorkerShapes DEF Obeys, trainer
<1>8. CASE Leaves
  <2>1. serving # Idle => serving.kind \in {"reset", "infer"}
    BY DEF ServingFacts
  <2>2. pc = "broadcast" => serving = Idle
    BY SyncAlone
  <2> QED  BY <1>8, <2>1, <2>2, LeavesShapes DEF Leaves, trainer
<1> QED  BY <1>1, <1>2, <1>3, <1>4, <1>5, <1>6, <1>7, <1>8, NextSplit

LEMMA InvIsInTime ==
  ASSUME AsyncInv, ServingFacts, SyncFacts, PipeShapes
  PROVE  NoWaitInVain
<1>0. TypeFacts /\ QueueFacts /\ ModeFacts /\ Complete
  BY DEF AsyncInv
<1>1. ASSUME "infer" \notin failures, NEW m \in Modes, AwaitsBatch(m)
      PROVE  queue[m] # <<>> \/ \E i \in DOMAIN tasks : tasks[i].mode = m
  <2>1. \A r : Pending(m, r) => queue[m] # <<>> \/ \E i \in DOMAIN tasks : tasks[i].mode = m
    BY EmptyIsSeq DEF Pending
  <2>2. \E r : Pending(m, r)
    BY <1>0, <1>1 DEF AwaitsBatch, Complete, Prefetching, ModeFacts
  <2> QED  BY <2>1, <2>2
<1>2. pc \in {"update", "broadcast", "reset"} => serving = Idle
  BY SyncAlone
<1>3. serving # Idle => \A w \in Workers : reply[w] # <<>> \/ HasCommand(w, serving.kind)
  BY DEF PipeShapes, PipeShape
<1>4. pc = "broadcast" /\ "join" \notin failures => \A w \in Workers : HasCommand(w, "update")
  BY DEF PipeShapes, PipeShape
<1> QED  BY <1>1, <1>2, <1>3, <1>4 DEF NoWaitInVain

\* No wait of the threads and of the workers is for something that does not come,
\* for every number of workers, parameter groups, rounds and evaluations: as long
\* as no rollout failed, a queue that the main thread waits for has its batch with
\* the executor; as long as no update raised before its broadcast, the broadcast
\* and the barrier have all workers; and every answer has its worker whatever
\* failed.  (An update that raises before its broadcast leaves the others in it.)
THEOREM WaitsAreServed ==
  ASSUME NoneIsNoList
  PROVE  Spec => []NoWaitInVain
<1>1. Init => PipeShapes
  BY DEF Init, ServerInit, PipeShapes, PipeShape
<1>2. OutputsInv /\ [Next]_vars => OutputsInv'
  BY OutputsStep
<1>3. OutputsInv /\ PipeShapes /\ [Next]_vars => PipeShapes'
  <2>1. CASE Next
    <3>1. OutputsInv => failures \subseteq failures'
      BY <2>1, ServerStep DEF OutputsInv
    <3> QED  BY <2>1, <3>1, ShapesStep DEF OutputsInv, AsyncInv
  <2>2. CASE UNCHANGED vars
    BY <2>2 DEF vars, server, trainer, PipeShapes, PipeShape, HasCommand, Workers
  <2> QED  BY <2>1, <2>2
<1>4. OutputsInv /\ PipeShapes => NoWaitInVain
  BY InvIsInTime DEF OutputsInv
<1> QED  BY InitOutputs, <1>1, <1>2, <1>3, <1>4, PTL DEF Spec
=============================================================================
