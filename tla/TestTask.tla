------------------------------ MODULE TestTask ------------------------------
(***************************************************************************)
(* The run of one task with its agent: the loop of run_single_example asks *)
(* the agent, steps the environment and appends the record of the step     *)
(* (TaskRun), while the agent keeps its histories (AgentHistory).          *)
(***************************************************************************)
EXTENDS TaskRun, AgentHistory

\* The process whose agent is followed: the agents share nothing.
CONSTANT Me

ASSUME MeAssumption == Me \in Runners

taskVars == <<vars, agent>>

TaskInit == Init /\ AgentInit

Begin == Start(Me) /\ ResetAgent(run'[Me])

Record == /\ List(Me) \/ WriteInit(Me) \/ Evaluate(Me) \/ WriteResult(Me) \/ WriteRecord(Me)
          /\ UNCHANGED agent

Predict == pc[Me] = "step" /\ Ask /\ UNCHANGED vars

Answered == pc[Me] = "step" /\ Answer(run[Me], step[Me]) /\ UNCHANGED vars

\* The record of the step is written after env.step.
Act == Step(Me) /\ Observe(run[Me], step[Me])

Fail == Raise(Me) /\ GiveUp

Die == (Exit(Me) \/ CutOff(Me)) /\ ForgetAll

Others == (\E w \in Runners \ {Me} : Moves(w)) /\ UNCHANGED agent

TaskNext == Begin \/ Record \/ Predict \/ Answered \/ Act \/ Fail \/ Die \/ Others

TaskSpec == TaskInit /\ [][TaskNext]_taskVars

-----------------------------------------------------------------------------

Moments == [run : 0 .. MaxRuns, step : 0 .. MaxSteps]

TaskTypeOK ==
  /\ TypeOK
  /\ limit \in Lengths
  /\ phase \in {"idle", "asking", "acting"}
  /\ observations \in Seq(Moments) /\ answers \in Seq(Moments)
  /\ obs \in Moments
  /\ prompt \in [pairs : Seq(Moments \X Moments), now : Moments]

(***************************************************************************)
(* The assertion of predict() never fails: whatever ended the runs before, *)
(* also an answer that never came, the histories agree when a step begins. *)
(***************************************************************************)
HistoriesAgree == pc[Me] = "step" /\ phase = "idle" => LengthsAgree

(***************************************************************************)
(* What the model is shown is the story of this run: each observation with *)
(* the answer that was given to it, in order and without a gap, the last   *)
(* max_trajectory_length of them, and then the observation that the latest *)
(* answer led to.                                                          *)
(***************************************************************************)
PromptIsStory ==
  phase # "idle" =>
    LET n == Len(prompt.pairs)
        last == step[Me] - 1
        moment(j) == [run |-> run[Me], step |-> j]
    IN  /\ n = IF last < limit THEN last ELSE limit
        /\ \A i \in 1 .. n :
             prompt.pairs[i] = <<moment(last - n + i - 1), moment(last - n + i)>>
        /\ prompt.now = moment(last)
=============================================================================
