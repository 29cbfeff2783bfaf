-------------------------- MODULE ColocateRollout ---------------------------
(***************************************************************************)
(* One GRPO generation step after another, on every training process       *)
(* (rank): the colocated multi-turn rollout loop of ms-swift               *)
(* (_colocate_multi_turn_infer), the scheduler it calls                    *)
(* (COMMultiTurnScheduler), the queue of virtual machines                  *)
(* (mycom_env_queue) and the reward threads (COMChamferReward) that put    *)
(* the machines back.                                                      *)
(*                                                                         *)
(* The one link between the rollout, which takes a machine from the queue, *)
(* and the reward, which returns it, is text: step() appends "[ENV_ID:n]"  *)
(* to the assistant message, and the reward searches the dialogue for it.  *)
(* A completion is free text, so the model may write such a mark too: its  *)
(* own, which it sees in its context, or (ForeignIds) another one.         *)
(***************************************************************************)
EXTENDS VMSlices, Sequences, Functions

CONSTANTS BatchSize,   \* dialogues per rank in one generation step
          MaxTurns,    \* --max_turns
          ForeignIds,  \* ids the model may write that are not its own
          NoVM         \* no id: not assigned, or not found

ASSUME RolloutAssumption ==
  /\ BatchSize \in Nat \ {0}
  /\ MaxTurns \in Nat \ {0}
  /\ ForeignIds \subseteq Nat
  /\ NoVM \notin Nat

Dialogues == 1 .. BatchSize

VARIABLES
  phase,    \* phase[r]: where rank r is in the generation step
  turn,     \* turn[r]: current_turn
  active,   \* active[r]: index_to_infer
  pending,  \* pending[r]: dialogues this turn has still to step
  queue,    \* queue[r]: mycom_env_queue of rank r
  env,      \* env[r][d]: data_dict['env_id']
  seal,     \* seal[r][d]: the id the reward's backward search would find
  echo,     \* echo[r][d]: the first id in the latest completion of d
  thread    \* thread[r][d]: the reward thread of d

vars == <<phase, turn, active, pending, queue, env, seal, echo, thread>>

Phases == {"gather", "respond", "step", "score", "scored", "crashed"}

-----------------------------------------------------------------------------

Fresh(x) == [r \in Ranks |-> [d \in Dialogues |-> x]]

\* mycom_env.py fills the queue with the ids of the rank's slice in order.
FirstQueue(r) == [i \in 1 .. EndIdx(r) - StartIdx(r) |-> StartIdx(r) + i - 1]

Init ==
  /\ phase = [r \in Ranks |-> "gather"]
  /\ turn = [r \in Ranks |-> 1]
  /\ active = [r \in Ranks |-> Dialogues]
  /\ pending = [r \in Ranks |-> {}]
  /\ queue = [r \in Ranks |-> FirstQueue(r)]
  /\ env = Fresh(NoVM)
  /\ seal = Fresh(NoVM)
  /\ echo = Fresh(NoVM)
  /\ thread = Fresh("idle")

-----------------------------------------------------------------------------

dialogueVars == <<env, seal, echo, thread>>

\* (Mutant: each rank leaves the loop by its own has_local_data.)
GatherLocalData ==
  /\ \A r \in Ranks : phase[r] = "gather"
  /\ phase' = [r \in Ranks |-> IF active[r] # {} THEN "respond" ELSE "score"]
  /\ UNCHANGED <<turn, active, pending, queue, dialogueVars>>

(***************************************************************************)
(* gather_object is a collective: nobody passes it before everybody has    *)
(* reached it.  A rank whose own dialogues are over stays in the loop as   *)
(* long as another rank has one left.                                      *)
(***************************************************************************)
GatherHasData ==
  /\ \A r \in Ranks : phase[r] = "gather"
  /\ LET more == \E r \in Ranks : active[r] # {}
     IN  phase' = [r \in Ranks |-> IF more THEN "respond" ELSE "score"]
  /\ UNCHANGED <<turn, active, pending, queue, dialogueVars>>

\* (Mutant: one turn too many.)
LateLastTurn(r) == turn[r] > MaxTurns

\* Both check_finished and the loop itself stop a dialogue on the last turn.
LastTurn(r) == turn[r] >= MaxTurns

(***************************************************************************)
(* The completions of the turn are appended and check_finished is called   *)
(* on every dialogue.  `stop` are those that say DONE or FAIL or ran into  *)
(* the length limit, and all of them on the last turn.  `written` is the   *)
(* id each completion mentions first, if it mentions one.                  *)
(***************************************************************************)
Respond(r) ==
  /\ phase[r] = "respond"
  /\ \E stop \in SUBSET active[r],
        written \in [active[r] -> VMsOf(r) \cup ForeignIds \cup {NoVM}] :
       /\ LastTurn(r) => stop = active[r]
       /\ \A d \in active[r] : written[d] \in {NoVM, env[r][d]} \cup ForeignIds
       /\ active' = [active EXCEPT ![r] = @ \ stop]
       /\ pending' = [pending EXCEPT ![r] = active[r] \ stop]
       /\ echo' = [echo EXCEPT ![r] =
            [d \in Dialogues |-> IF d \in active[r] THEN written[d] ELSE @[d]]]
       /\ seal' = [seal EXCEPT ![r] =
            [d \in Dialogues |-> IF d \in active[r] /\ written[d] # NoVM
                                 THEN written[d] ELSE @[d]]]
  /\ phase' = [phase EXCEPT ![r] = "step"]
  /\ UNCHANGED <<turn, queue, env, thread>>

\* The loop steps the dialogues one after the other, in the order of the batch.
NextToStep(r, d) == d \in pending[r] /\ \A e \in pending[r] : d <= e

\* (Mutant: the mark is appended to another message.)
Misplaced(r, d, v) == seal[r][d]

\* re.search returns the first mark of a message, and step() appends its own
\* at the end: an id the completion already holds hides the real one.
Sealed(r, d, v) == IF echo[r][d] = NoVM THEN v ELSE seal[r][d]

(***************************************************************************)
(* Take a machine, blocking while the queue is empty, reset it, run the    *)
(* first code block, seal the message.  An id that is not of this rank is  *)
(* a KeyError that ends the training process.                              *)
(***************************************************************************)
TakeVM(r, d) ==
  /\ phase[r] = "step"
  /\ NextToStep(r, d)
  /\ queue[r] # <<>>
  /\ LET v == Head(queue[r])
     IN  /\ queue' = [queue EXCEPT ![r] = Tail(@)]
         /\ env' = [env EXCEPT ![r][d] = v]
         /\ IF v \in VMsOf(r)
            THEN /\ seal' = [seal EXCEPT ![r][d] = Sealed(r, d, v)]
                 /\ phase' = phase
            ELSE /\ phase' = [phase EXCEPT ![r] = "crashed"]
                 /\ seal' = seal
  /\ pending' = [pending EXCEPT ![r] = @ \ {d}]
  /\ UNCHANGED <<turn, active, echo, thread>>

\* (Mutant: a machine is taken on every turn.)
AcquireAnyTurn(r, d) == TakeVM(r, d)

\* step() on turn 1.
AcquireStep(r, d) == turn[r] = 1 /\ TakeVM(r, d)

\* step() on a later turn: the machine is the one the dialogue remembers.
ContinueStep(r, d) ==
  /\ phase[r] = "step" /\ turn[r] > 1
  /\ NextToStep(r, d)
  /\ seal' = [seal EXCEPT ![r][d] = Sealed(r, d, env[r][d])]
  /\ pending' = [pending EXCEPT ![r] = @ \ {d}]
  /\ UNCHANGED <<phase, turn, active, queue, env, echo, thread>>

NextTurn(r) ==
  /\ phase[r] = "step" /\ pending[r] = {}
  /\ turn' = [turn EXCEPT ![r] = @ + 1]
  /\ phase' = [phase EXCEPT ![r] = "gather"]
  /\ UNCHANGED <<active, pending, queue, dialogueVars>>

-----------------------------------------------------------------------------

\* (Mutant: only the last assistant message is searched.)
SearchLastMessage(r, d) ==
  /\ phase[r] = "score" /\ thread[r][d] = "idle"
  /\ thread' = [thread EXCEPT ![r][d] =
                  IF echo[r][d] = NoVM THEN "done" ELSE "evaluating"]
  /\ UNCHANGED <<phase, turn, active, pending, queue, env, seal, echo>>

(***************************************************************************)
(* One reward thread per dialogue.  A dialogue with no mark scores 0.0 and *)
(* returns nothing.  Any other is evaluated on the machine it names, and   *)
(* the finally clause puts that id on the queue, whatever the evaluation   *)
(* raised (an id that is no machine of this rank included).                *)
(***************************************************************************)
SearchSeal(r, d) ==
  /\ phase[r] = "score" /\ thread[r][d] = "idle"
  /\ thread' = [thread EXCEPT ![r][d] =
                  IF seal[r][d] = NoVM THEN "done" ELSE "evaluating"]
  /\ UNCHANGED <<phase, turn, active, pending, queue, env, seal, echo>>

\* (Mutant: put() after the evaluation instead of in the finally clause.)
ReturnUnlessRaised(r, d) ==
  /\ phase[r] = "score" /\ thread[r][d] = "evaluating"
  /\ queue' \in {queue, [queue EXCEPT ![r] = Append(@, seal[r][d])]}
  /\ thread' = [thread EXCEPT ![r][d] = "done"]
  /\ UNCHANGED <<phase, turn, active, pending, env, seal, echo>>

ReturnVM(r, d) ==
  /\ phase[r] = "score" /\ thread[r][d] = "evaluating"
  /\ queue' = [queue EXCEPT ![r] = Append(@, seal[r][d])]
  /\ thread' = [thread EXCEPT ![r][d] = "done"]
  /\ UNCHANGED <<phase, turn, active, pending, env, seal, echo>>

\* The executor's with-block waits for every thread.
RewardsDone(r) ==
  /\ phase[r] = "score"
  /\ \A d \in Dialogues : thread[r][d] = "done"
  /\ phase' = [phase EXCEPT ![r] = "scored"]
  /\ UNCHANGED <<turn, active, pending, queue, dialogueVars>>

\* The rewards of all ranks are gathered and the update is made; then every
\* rank starts the next generation step with new dialogues.
NextBatch ==
  /\ \A r \in Ranks : phase[r] = "scored"
  /\ phase' = [r \in Ranks |-> "gather"]
  /\ turn' = [r \in Ranks |-> 1]
  /\ active' = [r \in Ranks |-> Dialogues]
  /\ env' = Fresh(NoVM)
  /\ seal' = Fresh(NoVM)
  /\ echo' = Fresh(NoVM)
  /\ thread' = Fresh("idle")
  /\ UNCHANGED <<pending, queue>>

-----------------------------------------------------------------------------

Rollout(r) ==
  \/ Respond(r)
  \/ \E d \in Dialogues : AcquireStep(r, d) \/ ContinueStep(r, d)
  \/ NextTurn(r)
  \/ RewardsDone(r)

RewardThread(r, d) == SearchSeal(r, d) \/ ReturnVM(r, d)

Next ==
  \/ GatherHasData
  \/ NextBatch
  \/ \E r \in Ranks : Rollout(r) \/ \E d \in Dialogues : RewardThread(r, d)

Spec == Init /\ [][Next]_vars

(***************************************************************************)
(* A rank's main thread and every reward thread keep running, and a        *)
(* collective that everybody has entered completes.  Nothing is assumed of *)
(* a thread that blocks in queue.get().                                    *)
(***************************************************************************)
Fairness ==
  /\ WF_vars(GatherHasData)
  /\ WF_vars(NextBatch)
  /\ \A r \in Ranks : WF_vars(Rollout(r))
  /\ \A r \in Ranks : \A d \in Dialogues : WF_vars(RewardThread(r, d))

FairSpec == Spec /\ Fairness

-----------------------------------------------------------------------------

TypeOK ==
  /\ phase \in [Ranks -> Phases]
  /\ turn \in [Ranks -> 1 .. MaxTurns + 1]
  /\ active \in [Ranks -> SUBSET Dialogues]
  /\ pending \in [Ranks -> SUBSET Dialogues]
  /\ queue \in [Ranks -> Seq(Nat)]
  /\ env \in [Ranks -> [Dialogues -> Nat \cup {NoVM}]]
  /\ seal \in [Ranks -> [Dialogues -> Nat \cup {NoVM}]]
  /\ echo \in [Ranks -> [Dialogues -> Nat \cup {NoVM}]]
  /\ thread \in [Ranks -> [Dialogues -> {"idle", "evaluating", "done"}]]

\* Dialogue d of rank r has taken a machine and its reward thread has not
\* ended yet.
Holds(r, d) == env[r][d] # NoVM /\ thread[r][d] # "done"

\* The machines on offer.
Queued(r) == Range(queue[r])

(***************************************************************************)
(* The "exclusive VM assigned to the current task" of the scheduler's      *)
(* step(): no two dialogues, of one rank or of two, ever hold the same     *)
(* machine, and a machine that is held is not on offer.                    *)
(***************************************************************************)
ExclusiveVM ==
  \A r \in Ranks, d \in Dialogues : Holds(r, d) =>
    /\ env[r][d] \notin Queued(r)
    /\ \A s \in Ranks, e \in Dialogues :
         Holds(s, e) /\ env[s][e] = env[r][d] => s = r /\ e = d

(***************************************************************************)
(* No machine leaks and none is duplicated: each machine of a rank's slice *)
(* is in its queue or held by one of its dialogues, once, and the queue    *)
(* holds nothing else.                                                     *)
(***************************************************************************)
NoVMLost ==
  \A r \in Ranks :
    /\ \A v \in VMsOf(r) \ Queued(r) : \E d \in Dialogues : Holds(r, d) /\ env[r][d] = v
    /\ Queued(r) \subseteq VMsOf(r)
    /\ IsInjective(queue[r])

(***************************************************************************)
(* The text carries the lease: whatever the reward's backward search finds *)
(* in a dialogue, also when its last message is an unsealed DONE or the    *)
(* model repeated its mark, is the machine the dialogue took; and it finds *)
(* nothing exactly when the dialogue never took one.                       *)
(***************************************************************************)
SealFindsLease ==
  \A r \in Ranks : phase[r] \in {"score", "scored"} =>
    \A d \in Dialogues : seal[r][d] = env[r][d]

(***************************************************************************)
(* queue.get() has no timeout and the machines come back only after the    *)
(* whole batch is rolled out, so a rank that finds its queue empty waits   *)
(* for itself.  With as many machines as dialogues it never does.          *)
(***************************************************************************)
NeverStarved ==
  \A r \in Ranks :
    phase[r] = "step" /\ turn[r] = 1 /\ pending[r] # {} => queue[r] # <<>>

(***************************************************************************)
(* "iteratively rolls out turns until all dialogues are finished": every   *)
(* generation step comes to its end on every rank.                         *)
(***************************************************************************)
DialoguesFinish == \A r \in Ranks : []<>(phase[r] = "scored")

(***************************************************************************)
(* Every machine of the slice comes back on offer again and again: neither *)
(* an early FAIL, nor a first answer that says DONE, nor an evaluation     *)
(* that raises keeps one out of the queue for ever.                        *)
(***************************************************************************)
VMsComeBack == \A r \in Ranks : \A v \in VMsOf(r) : []<>(v \in Queued(r))

-----------------------------------------------------------------------------
(***************************************************************************)
(* The inductive invariant.  The safety properties above are not inductive *)
(* by themselves: that a return gives back the machine that was taken      *)
(* rests on the seal being the environment in EVERY phase, that a taken    *)
(* machine replaces no other rests on turn 1 finding the dialogue without  *)
(* one, and the turn limit rests on the ranks going through the collective *)
(* together.                                                               *)
(***************************************************************************)
InTurn(r) == phase[r] \in {"respond", "step"}

Scoring(r) == phase[r] \in {"score", "scored"}

\* The collective keeps the ranks within one turn of each other.
Lockstep ==
  /\ \A r, s \in Ranks :
       /\ phase[r] = "gather" /\ phase[s] = "gather" => turn[r] = turn[s]
       /\ InTurn(r) /\ InTurn(s) => turn[r] = turn[s]
       /\ InTurn(r) /\ phase[s] = "gather" => turn[s] = turn[r] + 1
       /\ Scoring(r) => ~ InTurn(s) /\ phase[s] # "gather"
  /\ \A r \in Ranks :
       /\ InTurn(r) => turn[r] <= MaxTurns
       /\ phase[r] = "step" /\ active[r] # {} => turn[r] < MaxTurns
       /\ phase[r] = "gather" /\ active[r] # {} => turn[r] <= MaxTurns

\* Reward threads run only while their rank scores, and evaluate only what
\* they found.
ThreadFacts ==
  \A r \in Ranks, d \in Dialogues :
    /\ thread[r][d] # "idle" => Scoring(r)
    /\ thread[r][d] = "evaluating" => seal[r][d] # NoVM

\* What the phase of a rank says of its dialogues.
PhaseFacts ==
  \A r \in Ranks :
    /\ phase[r] # "crashed"
    /\ phase[r] \in {"gather", "respond"} /\ turn[r] = 1 =>
         \A d \in Dialogues : env[r][d] = NoVM
    /\ phase[r] = "step" /\ turn[r] = 1 => \A d \in pending[r] : env[r][d] = NoVM
    /\ phase[r] = "scored" => \A d \in Dialogues : thread[r][d] = "done"
SealIsEnv ==
  \A r \in Ranks, d \in Dialogues :
    seal[r][d] = env[r][d] /\ echo[r][d] \in {NoVM, env[r][d]}

HeldInSlice ==
  \A r \in Ranks, d \in Dialogues : env[r][d] # NoVM => env[r][d] \in VMsOf(r)

HeldNotQueued ==
  \A r \in Ranks, d \in Dialogues : Holds(r, d) => env[r][d] \notin Queued(r)

HeldOnce ==
  \A r \in Ranks, d, e \in Dialogues :
    Holds(r, d) /\ Holds(r, e) /\ env[r][d] = env[r][e] => d = e

TurnInv == TypeOK /\ Lockstep /\ ThreadFacts

LeaseInv ==
  /\ PhaseFacts
  /\ SealIsEnv
  /\ HeldInSlice
  /\ HeldNotQueued
  /\ HeldOnce
  /\ NoVMLost

-----------------------------------------------------------------------------

(***************************************************************************)
(* The refinement: the rollout and the rewards implement VMLease, with the *)
(* dialogue that holds v as the user of v.                                 *)
(***************************************************************************)
NoUser == <<>>

UserOf(v) ==
  LET holders == {u \in Ranks \X Dialogues : Holds(u[1], u[2]) /\ env[u[1]][u[2]] = v}
  IN  IF holders = {} THEN NoUser ELSE CHOOSE u \in holders : TRUE

Lease == INSTANCE VMLease WITH
  VMs <- AllVMs,
  Users <- Ranks \X Dialogues,
  Slice <- [u \in Ranks \X Dialogues |-> VMsOf(u[1])],
  NoUser <- NoUser,
  lease <- [v \in AllVMs |-> UserOf(v)]

\* Every step of the rollouts and of the rewards, seen through who holds what,
\* is an Acquire or a Release of the abstract lease, or changes nothing.
ImplementsLease == Lease!Spec
=============================================================================
