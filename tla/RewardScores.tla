---------------------------- MODULE RewardScores ----------------------------
(***************************************************************************)
(* From the loaded copy to the reward.  A solid is compared with the given *)
(* one through 10000 points on each surface: stl2pc seeds the generator of *)
(* numpy, which all reward threads of a process share, and then draws.  A  *)
(* sketch is compared without random numbers.  Distances are integers on a *)
(* scale on which Low and High are the two thresholds; rewards are         *)
(* hundredths.                                                             *)
(***************************************************************************)
EXTENDS RewardFiles, Integers

CONSTANTS Procs,      \* training processes
          ProcOf,     \* ProcOf[d]: the process whose thread rewards d
          Faithful,   \* dialogues whose model is exactly the given shape
          Low, High,  \* 1e-5 and 1e-3 for solids, 1e-32 and 1e-30 for sketches
          Distances   \* what a comparison can give

ASSUME ScoreAssumption ==
  /\ ProcOf \in [Dialogues -> Procs]
  /\ Faithful \subseteq Dialogues
  /\ Low \in Nat /\ High \in Nat /\ Low < High
  /\ Distances \subseteq Nat /\ 0 \in Distances

VARIABLES
  sketches,  \* the tasks of type 2d_sketch; the others are solids
  stage,     \* stage[d]: where the comparison is
  rng,       \* rng[p]: samples drawn since the generator was seeded, -1 before
  givenAt,   \* givenAt[d]: rng when the points of the given surface were drawn,
  ownAt,     \* and of its own, while the thread has them
  cd,        \* cd[d]: the distance, -1 without one
  score      \* score[d]: the reward

scoring == <<sketches, stage, rng, givenAt, ownAt, cd, score>>

allVars == <<vars, scoring>>

IsSketch(d) == TaskOf[d] \in sketches

ScoresInit ==
  /\ Init
  /\ sketches \in SUBSET Tasks
  /\ stage = [d \in Dialogues |-> "wait"]
  /\ rng = [p \in Procs |-> -1]
  /\ givenAt = [d \in Dialogues |-> -1]
  /\ ownAt = [d \in Dialogues |-> -1]
  /\ cd = [d \in Dialogues |-> -1]
  /\ score = [d \in Dialogues |-> 0]

Proceed(d, place) == stage' = [stage EXCEPT ![d] = place]

\* Everything up to the local copy, and what is given up with reward 0.0.
Prepare(d) ==
  /\ \/ CleanUp(d) \/ RunCodes(d) \/ NothingToScore(d) \/ Fetch(d)
     \/ LateExport(d) \/ OpenCopy(d) \/ WriteCopy(d) \/ CopyRaises(d)
  /\ UNCHANGED scoring

\* stl2pc of the given surface comes before that of the copy, which is loaded
\* in between.
SeedNext(d) ==
  \/ stage[d] = "wait" /\ pc[d] = "load" /\ ~ IsSketch(d) /\ Proceed(d, "draw given")
  \/ stage[d] = "seed own" /\ Proceed(d, "draw own")

\* (Mutant: stl2pc does not seed.)
NoSeed(d) ==
  /\ SeedNext(d)
  /\ rng' = [rng EXCEPT ![ProcOf[d]] = IF @ = -1 THEN 0 ELSE @]
  /\ UNCHANGED <<vars, sketches, givenAt, ownAt, cd, score>>

\* np.random.seed(123)
Seed(d) ==
  /\ SeedNext(d)
  /\ rng' = [rng EXCEPT ![ProcOf[d]] = 0]
  /\ UNCHANGED <<vars, sketches, givenAt, ownAt, cd, score>>

\* sample_surface: the same number of draws for every surface.
Draw(d) ==
  /\ rng' = [rng EXCEPT ![ProcOf[d]] = @ + 1]
  /\ LET at == rng[ProcOf[d]]
     IN  \/ /\ stage[d] = "draw given" /\ Proceed(d, "load")
            /\ givenAt' = [givenAt EXCEPT ![d] = at] /\ ownAt' = ownAt
         \/ /\ stage[d] = "draw own" /\ Proceed(d, "compare")
            /\ ownAt' = [ownAt EXCEPT ![d] = at] /\ givenAt' = givenAt
  /\ UNCHANGED <<vars, sketches, cd, score>>

\* 0.0 if loading raises; but dxf2pc catches what reading raises and returns
\* zeros, which are compared.
AfterLoading(d, model) ==
  {x \in {"scored"} : model = Failed}
    \cup {x \in {"compare"} : IsSketch(d)}
    \cup {x \in {"seed own"} : ~ IsSketch(d) /\ model # Failed}

LoadOwn(d) ==
  /\ stage[d] = IF IsSketch(d) THEN "wait" ELSE "load"
  /\ LoadCopy(d)
  /\ \E place \in AfterLoading(d, reward'[d]) : Proceed(d, place)
  /\ UNCHANGED <<sketches, rng, givenAt, ownAt, cd, score>>

\* (Mutant: the slope has the wrong sign.)
SolidRewardRising(x) ==
  IF x <= Low THEN 100
  ELSE IF x > High THEN 0
  ELSE 100 + (99 * (x - Low)) \div (High - Low)

\* From 1.0 at Low linearly to 0.01 at High.
SolidReward(x) ==
  IF x <= Low THEN 100
  ELSE IF x > High THEN 0
  ELSE 100 - (99 * (x - Low)) \div (High - Low)

\* The comment in the code says "linearly from 1.0 down to 0.01" between the
\* thresholds, but math.log10 raises a NameError there: neither this module nor
\* those it imports everything from import math.  It is caught and gives 0.0.
SketchReward(x) == IF x <= Low THEN 100 ELSE 0

\* What was loaded is the given shape.
Exact(d) == reward[d] \in Faithful

\* chamfer_dist: zero if the shape is the given one and, for a solid, the two
\* samples consist of the same points; anything otherwise.
Compare(d) ==
  /\ stage[d] = "compare" /\ Proceed(d, "scored")
  /\ \E x \in Distances :
       /\ Exact(d) /\ (IsSketch(d) \/ givenAt[d] = ownAt[d]) => x = 0
       /\ cd' = [cd EXCEPT ![d] = x]
       /\ score' = [score EXCEPT ![d] = IF IsSketch(d) THEN SketchReward(x)
                                        ELSE SolidReward(x)]
  /\ givenAt' = [givenAt EXCEPT ![d] = -1] /\ ownAt' = [ownAt EXCEPT ![d] = -1]
  /\ UNCHANGED <<vars, sketches, rng>>

ScoresNext ==
  \E d \in Dialogues :
    \/ Prepare(d) \/ Seed(d) \/ Draw(d) \/ LoadOwn(d) \/ Compare(d)

ScoresSpec == ScoresInit /\ [][ScoresNext]_allVars

-----------------------------------------------------------------------------

Stages == {"wait", "draw given", "load", "seed own", "draw own", "compare", "scored"}

(***************************************************************************)
(* Every variable stays in its type: an empty copy is never taken for a    *)
(* model, and rewards are between 0 and 1.                                 *)
(***************************************************************************)
ScoresTypeOK ==
  /\ TypeOK
  /\ sketches \subseteq Tasks
  /\ stage \in [Dialogues -> Stages]
  /\ rng \in [Procs -> Int]
  /\ givenAt \in [Dialogues -> Int] /\ ownAt \in [Dialogues -> Int]
  /\ cd \in [Dialogues -> Distances \cup {-1}]
  /\ score \in [Dialogues -> 0 .. 100]

\* d is the only solid that a thread of its process compares.
AloneInProcess(d) ==
  \A e \in Dialogues \ {d} : ProcOf[e] = ProcOf[d] => IsSketch(e)

(***************************************************************************)
(* "seed=123": the given shape gets the full reward, whatever the threads  *)
(* of other processes do.  (With another solid in the process the two      *)
(* samples need not be the same points, and it may not.)                   *)
(***************************************************************************)
ExactRewardedAlone ==
  \A d \in Dialogues :
    stage[d] = "scored" /\ Exact(d) /\ (IsSketch(d) \/ AloneInProcess(d)) => score[d] = 100

(***************************************************************************)
(* Among the samples of a task, which GRPO compares with each other, a     *)
(* smaller distance never has the smaller reward.                          *)
(***************************************************************************)
CloserNeverWorse ==
  \A d, e \in Dialogues :
    /\ TaskOf[d] = TaskOf[e]
    /\ cd[d] # -1 /\ cd[e] # -1 /\ cd[d] <= cd[e]
    => score[d] >= score[e]

-----------------------------------------------------------------------------
(***************************************************************************)
(* The inductive invariant: a score is the reward of the distance, and the *)
(* samples of a solid that is alone in its process start where the         *)
(* generator was seeded.                                                   *)
(***************************************************************************)
RewardOf(d, x) == IF IsSketch(d) THEN SketchReward(x) ELSE SolidReward(x)

ScoringTypes ==
  /\ sketches \subseteq Tasks
  /\ stage \in [Dialogues -> Stages]
  /\ rng \in [Procs -> Int]
  /\ givenAt \in [Dialogues -> Int] /\ ownAt \in [Dialogues -> Int]
  /\ cd \in [Dialogues -> Int]
  /\ score \in [Dialogues -> Int]

Places ==
  \A d \in Dialogues :
    /\ stage[d] \in {"draw given", "load"} => pc[d] = "load"
    /\ stage[d] \in {"seed own", "draw own", "compare", "scored"} => pc[d] = "done"
    /\ stage[d] \in {"draw given", "load", "seed own", "draw own"} => ~ IsSketch(d)

Rewarded ==
  \A d \in Dialogues :
    \/ cd[d] = -1 /\ score[d] = 0
    \/ cd[d] \in Distances /\ score[d] = RewardOf(d, cd[d])

Samples ==
  \A d \in Dialogues :
    ~ IsSketch(d) /\ AloneInProcess(d) =>
      /\ stage[d] \in {"draw given", "draw own"} => rng[ProcOf[d]] = 0
      /\ stage[d] \in {"load", "seed own", "draw own", "compare"} => givenAt[d] = 0
      /\ stage[d] = "compare" => ownAt[d] = 0

ScoreInv ==
  /\ ScoringTypes /\ Places /\ Rewarded /\ Samples /\ ExactRewardedAlone
=============================================================================
