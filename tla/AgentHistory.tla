---------------------------- MODULE AgentHistory ----------------------------
(***************************************************************************)
(* The agent of the benchmark.  predict() appends the observation, asks    *)
(* the model, and appends the answer only when it has come: between the    *)
(* two, and after a failure, the histories differ in length.  The agent    *)
(* object serves one task after another.  past_actions and past_thoughts   *)
(* are appended to together, after everything that can raise; they are one *)
(* history here.  Observations and answers are known by run and step.      *)
(***************************************************************************)
EXTENDS Integers, Sequences

CONSTANTS Lengths  \* values of max_trajectory_length

ASSUME HistoryAssumption == Lengths \subseteq Nat

VARIABLES
  limit,         \* max_trajectory_length
  phase,         \* where predict() is, and whether its answer is acted upon
  observations,  \* past_observations
  answers,       \* past_actions and past_thoughts
  obs,           \* the observation that the loop hands to predict()
  prompt         \* predict()'s messages: earlier pairs, and the observation

agent == <<limit, phase, observations, answers, obs, prompt>>

NoPrompt == [pairs |-> <<>>, now |-> [run |-> 0, step |-> 0]]

AgentInit ==
  /\ limit \in Lengths
  /\ phase = "idle"
  /\ observations = <<>> /\ answers = <<>>
  /\ obs = NoPrompt.now /\ prompt = NoPrompt

\* (Mutant: the agent keeps what it remembers of the task before.)
KeepHistory(run) ==
  /\ obs' = [run |-> run, step |-> 0]
  /\ phase' = "idle"
  /\ UNCHANGED <<limit, observations, answers, prompt>>

\* agent.reset() and env.reset(task_config).
ResetAgent(run) ==
  /\ observations' = <<>> /\ answers' = <<>>
  /\ obs' = [run |-> run, step |-> 0]
  /\ phase' = "idle"
  /\ UNCHANGED <<limit, prompt>>

\* (Mutant: s[-n:] without the special case of 0.)
WindowAnyLength(s) ==
  IF limit = 0 \/ Len(s) <= limit THEN s ELSE SubSeq(s, Len(s) - limit + 1, Len(s))

\* The last max_trajectory_length entries; none if that is 0.
Window(s) ==
  IF Len(s) <= limit THEN s ELSE SubSeq(s, Len(s) - limit + 1, Len(s))

\* zip(_observations, _actions, _thoughts)
Pairs(s, t) ==
  [i \in 1 .. IF Len(s) < Len(t) THEN Len(s) ELSE Len(t) |-> <<s[i], t[i]>>]

\* The assertion on the lengths; an AssertionError otherwise.
LengthsAgree == Len(observations) = Len(answers)

\* predict() up to the call of the model.
Ask ==
  /\ phase = "idle" /\ phase' = "asking"
  /\ LengthsAgree
  /\ prompt' = [pairs |-> Pairs(Window(observations), Window(answers)), now |-> obs]
  /\ observations' = Append(observations, obs)
  /\ UNCHANGED <<limit, answers, obs>>

\* An answer within the five attempts of call_llm_claudeshop.
Answer(run, step) ==
  /\ phase = "asking" /\ phase' = "acting"
  /\ answers' = Append(answers, [run |-> run, step |-> step])
  /\ UNCHANGED <<limit, observations, obs, prompt>>

\* env.step returns the next observation.
Observe(run, step) ==
  /\ phase = "acting" /\ phase' = "idle"
  /\ obs' = [run |-> run, step |-> step]
  /\ prompt' = NoPrompt
  /\ UNCHANGED <<limit, observations, answers>>

\* An exception: no answer after five attempts (None['message']), or anything
\* the environment raises.  run.py goes on with the same agent.
GiveUp ==
  /\ phase' = "idle"
  /\ obs' = NoPrompt.now /\ prompt' = NoPrompt
  /\ UNCHANGED <<limit, observations, answers>>

\* The process ends, and with it the agent.
ForgetAll ==
  /\ phase' = "idle"
  /\ observations' = <<>> /\ answers' = <<>>
  /\ obs' = NoPrompt.now /\ prompt' = NoPrompt
  /\ UNCHANGED limit
=============================================================================
