------------------------------ MODULE Generator -----------------------------
(***************************************************************************)
(* What asynchronous generation promises to the trainer: one generator     *)
(* with one set of weights, which takes a synchronisation as a whole, and  *)
(* only when it has nothing to do.  It answers what it was asked for in    *)
(* the order of asking, each batch with one output per request from the    *)
(* weights it has, and each mode takes its own batches in this order.      *)
(***************************************************************************)
EXTENDS Integers, Sequences, SequencesExt

CONSTANTS Modes,   \* kinds of batches, each with a queue
          Parts,   \* parameter groups of the weights
          Size     \* Size[m]: requests of a batch in mode m

VARIABLES weights,   \* the step whose weights the generator has
          failed,    \* kinds of failures so far
          round,     \* round[m]: the latest batch that was asked for
          asked,     \* what was asked for and is not answered
          ready      \* ready[m]: the batches to be taken

vars == <<weights, failed, round, asked, ready>>

Task(m, r) == [mode |-> m, round |-> r, step |-> weights]

\* One output per request, in order, of these weights unless a worker is spoilt.
Good(b, task) ==
  /\ b.task = task
  /\ [i \in DOMAIN b.results |-> b.results[i].request] =
       [i \in 1 .. Size[task.mode] |-> <<task.mode, task.round, i>>]
  /\ failed \cap {"load", "reset"} = {} =>
       \A i \in DOMAIN b.results : b.results[i].used = {[p \in Parts |-> weights]}

Put(task) ==
  /\ ready'[task.mode] # <<>>
  /\ LET b == Last(ready'[task.mode])
     IN  Good(b, task) /\ ready' = [ready EXCEPT ![task.mode] = Append(@, b)]

Init ==
  /\ weights = -1 /\ failed = {} /\ asked = <<>>
  /\ round = [m \in Modes |-> 0] /\ ready = [m \in Modes |-> <<>>]

Synchronise ==
  /\ asked = <<>>
  /\ weights' \in Int /\ weights' > weights
  /\ UNCHANGED <<failed, round, asked, ready>>

\* A batch is asked for when the rounds before the latest one are taken.
AskFor(m) ==
  /\ \A i \in DOMAIN ready[m] : ready[m][i].task.round = round[m]
  /\ \A i \in DOMAIN asked : asked[i].mode = m => asked[i].round = round[m]
  /\ round' = [round EXCEPT ![m] = @ + 1]
  /\ asked' = Append(asked, Task(m, round[m] + 1))
  /\ UNCHANGED <<weights, failed, ready>>

\* A batch at once, when nothing of its mode is pending.
GenerateNow(m) ==
  /\ ready[m] = <<>> /\ \A i \in DOMAIN asked : asked[i].mode # m
  /\ Put(Task(m, round[m]))
  /\ UNCHANGED <<weights, failed, round, asked>>

Generate ==
  /\ asked # <<>>
  /\ Head(asked).step = weights
  /\ Put(Head(asked))
  /\ asked' = Tail(asked)
  /\ UNCHANGED <<weights, failed, round>>

Lose ==
  /\ asked # <<>> /\ "infer" \in failed
  /\ asked' = Tail(asked)
  /\ UNCHANGED <<weights, failed, round, ready>>

Take(m) ==
  /\ ready[m] # <<>>
  /\ ready' = [ready EXCEPT ![m] = Tail(@)]
  /\ UNCHANGED <<weights, failed, round, asked>>

Fail ==
  /\ failed \subseteq failed'
  /\ UNCHANGED <<weights, round, asked, ready>>

Next ==
  \/ Synchronise \/ Generate \/ Lose \/ Fail
  \/ \E m \in Modes : AskFor(m) \/ GenerateNow(m) \/ Take(m)

Spec == Init /\ [][Next]_vars
=============================================================================
