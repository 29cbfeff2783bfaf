--------------------------- MODULE TestTaskProofs ---------------------------
(***************************************************************************)
(* What is counted of a task, and what its model was shown, for every      *)
(* number of processes, of steps, of runs, of torn lines and for every     *)
(* length of the agent's memory.                                           *)
(***************************************************************************)
EXTENDS TestTask, WellFoundedInduction, TLAPS

Places == {"idle", "listed", "init", "step", "evaluate", "result", "record"}

Rec(r, kind, n) == [kind |-> kind, run |-> r, n |-> n]

\* The lines of s up to line k are the records of run r: m steps, of which the one
\* after the first c said DONE or FAIL.
StoryAt(s, r, c, m, k) ==
  /\ k > m
  /\ s[k - m] = Rec(r, "init", 0)
  /\ \A j \in 1 .. m : s[k - m + j] = Rec(r, IF j > c THEN "stop" ELSE "step", j)

\* The same of a run that left its loop with c counted steps.
WholeAt(s, r, c, k) == \E m \in {c, c + 1} : m > 0 /\ StoryAt(s, r, c, m, k)

CounterFacts(w) ==
  /\ step[w] = count[w] + 1
  /\ pc[w] = "init" => step[w] = 1
  /\ pc[w] = "step" => step[w] <= MaxSteps

\* A run that is under way and not the latest overlaps with the latest.
RunsFacts ==
  /\ \A w \in Runners : UnderWay(w) => run[w] \in 1 .. runs /\ run[w] \notin completed
  /\ \A v, w \in Runners : UnderWay(v) /\ UnderWay(w) /\ v # w => run[v] # run[w]
  /\ \A w \in Runners : UnderWay(w) /\ run[w] # runs => run[w] \in overlapped /\ runs \in overlapped

ResultFacts == \A w \in Runners : pc[w] = "record" => result

\* From its first record on, the records of a run that is alone are the end of
\* the file.
RunningFacts(w) ==
  /\ pc[w] = "step" /\ run[w] \notin overlapped =>
       ~ open /\ (Parses => StoryAt(traj, run[w], count[w], count[w], Len(traj)))
  /\ pc[w] \in {"evaluate", "result", "record"} /\ run[w] \notin overlapped =>
       ~ open /\ (Parses => WholeAt(traj, run[w], count[w], Len(traj)))

EvalLast == traj # <<>> /\ Parses /\ traj[Len(traj)].kind = "eval"

\* An evaluation at the end of the file comes after result.txt, and after all
\* records of its run if that was alone.
EvalFacts ==
  EvalLast =>
    /\ result
    /\ traj[Len(traj)].run \notin overlapped =>
         WholeAt(traj, traj[Len(traj)].run, traj[Len(traj)].n, Len(traj) - 1)

CompletedFacts ==
  /\ torn = 0 => ~ open /\ Parses
  /\ runs \in completed /\ runs \notin overlapped /\ torn = 0 =>
       EvalLast /\ traj[Len(traj)].run = runs

RunInv ==
  /\ TypeOK
  /\ \A w \in Runners : CounterFacts(w)
  /\ RunsFacts
  /\ ResultFacts
  /\ \A w \in Runners : RunningFacts(w)
  /\ EvalFacts
  /\ CompletedFacts

-----------------------------------------------------------------------------

LEMMA LineType ==
  ASSUME TypeOK, NEW w \in Runners,
         NEW kind \in {"init", "step", "stop", "eval", "error"}, NEW n \in 0 .. MaxSteps
  PROVE  /\ Line(w, kind, n) \in Lines /\ Line(w, kind, n).kind = kind
         /\ Line(w, kind, n) = Rec(run[w], kind, n)
<1>1. run[w] \in 0 .. MaxRuns
  BY DEF TypeOK
<1> QED  BY <1>1 DEF Line, Lines, Rec

LEMMA AppendFacts ==
  ASSUME NEW S, NEW s \in Seq(S), NEW e \in S
  PROVE  /\ Append(s, e) \in Seq(S) /\ Append(s, e) # <<>>
         /\ Len(Append(s, e)) = Len(s) + 1 /\ DOMAIN Append(s, e) = 1 .. Len(s) + 1
         /\ \A i \in 1 .. Len(s) : Append(s, e)[i] = s[i]
         /\ Append(s, e)[Len(s) + 1] = e
OBVIOUS

\* Onto a torn line: the file no longer parses.
LEMMA TornAppend ==
  ASSUME TypeOK, traj' = Append(Front(traj), Broken)
  PROVE  traj' \in Seq(Lines) /\ traj' # <<>> /\ ~ Parses'
<1>1. Broken \in Lines /\ Broken.kind = "broken"
  BY RunAssumption DEF Broken, Lines, TypeOK
<1>2. traj \in Seq(Lines) /\ Len(traj) \in Nat
  BY DEF TypeOK
<1>3. CASE traj = <<>>
  <2>1. Front(traj) = <<>> /\ <<>> \in Seq(Lines)
    BY <1>3 DEF Front
  <2> QED  BY <1>1, <2>1, AppendFacts DEF Parses
<1>4. CASE traj # <<>>
  <2>1. Front(traj) \in Seq(Lines)
    BY <1>2, <1>4 DEF Front
  <2>2. Len(Front(traj)) \in Nat
    BY <2>1
  <2> QED  BY <1>1, <2>1, <2>2, AppendFacts DEF Parses
<1> QED  BY <1>3, <1>4

\* Onto a whole line: the earlier lines stay, and the new one is the last.
LEMMA WholeAppend ==
  ASSUME TypeOK, NEW e \in Lines, traj' = Append(traj, e)
  PROVE  /\ traj' \in Seq(Lines) /\ traj' # <<>>
         /\ Len(traj) \in Nat /\ Len(traj') = Len(traj) + 1
         /\ \A i \in 1 .. Len(traj) : traj'[i] = traj[i]
         /\ traj'[Len(traj')] = e
         /\ Parses' <=> Parses /\ e.kind # "broken"
<1>1. traj \in Seq(Lines) /\ Len(traj) \in Nat /\ DOMAIN traj = 1 .. Len(traj)
  BY DEF TypeOK
<1>2. /\ traj' \in Seq(Lines) /\ traj' # <<>>
      /\ Len(traj') = Len(traj) + 1 /\ DOMAIN traj' = 1 .. Len(traj) + 1
      /\ \A i \in 1 .. Len(traj) : traj'[i] = traj[i]
      /\ traj'[Len(traj) + 1] = e
  BY <1>1, AppendFacts
<1>3. Parses' <=> Parses /\ e.kind # "broken"
  BY <1>1, <1>2 DEF Parses
<1> QED  BY <1>1, <1>2, <1>3

\* What AppendLine does, whichever line it meets.
LEMMA AppendLineFacts ==
  ASSUME TypeOK, NEW e \in Lines, e.kind # "broken", AppendLine(e)
  PROVE  /\ traj' \in Seq(Lines) /\ traj' # <<>> /\ open' = FALSE
         /\ Parses' => /\ Parses /\ ~ open /\ traj'[Len(traj')] = e
                       /\ Len(traj) \in Nat /\ Len(traj') = Len(traj) + 1
                       /\ \A i \in 1 .. Len(traj) : traj'[i] = traj[i]
         /\ ~ open => (Parses => Parses') /\ traj'[Len(traj')] = e
<1>1. CASE open
  BY <1>1, TornAppend DEF AppendLine
<1>2. CASE ~ open
  <2>1. traj' = Append(traj, e) /\ open' = FALSE
    BY <1>2 DEF AppendLine
  <2> HIDE <1>2
  <2> QED  BY <1>2, <2>1, WholeAppend
<1> QED  BY <1>1, <1>2

\* Lines that stay keep the story they tell.
LEMMA StoryStays ==
  ASSUME NEW s, NEW t, Len(s) \in Nat, \A i \in 1 .. Len(s) : t[i] = s[i],
         NEW r, NEW c, NEW m \in Nat, StoryAt(s, r, c, m, Len(s))
  PROVE  StoryAt(t, r, c, m, Len(s))
<1>1. Len(s) > m /\ Len(s) - m \in 1 .. Len(s)
  BY DEF StoryAt
<1>2. \A j \in 1 .. m : Len(s) - m + j \in 1 .. Len(s)
  BY <1>1
<1> QED  BY <1>1, <1>2 DEF StoryAt

-----------------------------------------------------------------------------
(***************************************************************************)
(* One process moves, the others stay where they are.                      *)
(***************************************************************************)

Frame(w) ==
  /\ pc' \in [Runners -> Places] /\ run' \in [Runners -> 0 .. MaxRuns]
  /\ step' \in [Runners -> 1 .. MaxSteps + 1] /\ count' \in [Runners -> 0 .. MaxSteps]
  /\ \A v \in Runners \ {w} :
       pc'[v] = pc[v] /\ run'[v] = run[v] /\ step'[v] = step[v] /\ count'[v] = count[v]

LEMMA GoesFrame ==
  ASSUME TypeOK, NEW w \in Runners, NEW p \in Places, Goes(w, p), UNCHANGED local
  PROVE  /\ Frame(w) /\ pc'[w] = p
         /\ run'[w] = run[w] /\ step'[w] = step[w] /\ count'[w] = count[w]
<1>1. pc' \in [Runners -> Places] /\ pc'[w] = p /\ \A v \in Runners \ {w} : pc'[v] = pc[v]
  BY DEF TypeOK, Goes, Places
<1> QED  BY <1>1 DEF TypeOK, Frame, local

LEMMA EndsFrame ==
  ASSUME TypeOK, NEW w \in Runners, Ends(w)
  PROVE  Frame(w) /\ pc'[w] = "idle" /\ run'[w] = 0 /\ step'[w] = 1 /\ count'[w] = 0
<1> USE RunAssumption
<1>1. pc' \in [Runners -> Places] /\ pc'[w] = "idle" /\ \A v \in Runners \ {w} : pc'[v] = pc[v]
  BY DEF TypeOK, Goes, Ends, Places
<1>2. run' \in [Runners -> 0 .. MaxRuns] /\ run'[w] = 0 /\ \A v \in Runners \ {w} : run'[v] = run[v]
  BY DEF TypeOK, Ends
<1>3. /\ step' \in [Runners -> 1 .. MaxSteps + 1] /\ step'[w] = 1
      /\ \A v \in Runners \ {w} : step'[v] = step[v]
  BY DEF TypeOK, Ends
<1>4. /\ count' \in [Runners -> 0 .. MaxSteps] /\ count'[w] = 0
      /\ \A v \in Runners \ {w} : count'[v] = count[v]
  BY DEF TypeOK, Ends
<1> QED  BY <1>1, <1>2, <1>3, <1>4 DEF Frame

LEMMA FrameType ==
  ASSUME NEW w \in Runners, Frame(w), runs' \in 0 .. MaxRuns,
         traj' \in Seq(Lines), open' \in BOOLEAN, result' \in BOOLEAN,
         completed' \subseteq 1 .. runs', overlapped' \subseteq 1 .. runs', torn' \in 0 .. MaxTorn
  PROVE  TypeOK'
<1>1. Lines' = Lines
  BY DEF Lines
<1> QED  BY <1>1 DEF TypeOK, Frame, Places

LEMMA CountersKeep ==
  ASSUME RunInv, NEW w \in Runners, Frame(w), CounterFacts(w)'
  PROVE  \A v \in Runners : CounterFacts(v)'
<1> SUFFICES ASSUME NEW v \in Runners, v # w PROVE CounterFacts(v)'
  OBVIOUS
<1>1. pc'[v] = pc[v] /\ step'[v] = step[v] /\ count'[v] = count[v] /\ CounterFacts(v)
  BY DEF RunInv, Frame
<1> QED  BY <1>1 DEF CounterFacts

\* No run begins.
LEMMA RunsKeep ==
  ASSUME RunInv, NEW w \in Runners, Frame(w), UNCHANGED history,
         UnderWay(w)' => UnderWay(w) /\ run'[w] = run[w],
         \/ completed' = completed
         \/ completed' = completed \cup {run[w]} /\ UnderWay(w) /\ ~ UnderWay(w)'
  PROVE  RunsFacts'
<1>1. runs' = runs /\ overlapped' = overlapped
  BY DEF history
<1>2. \A v \in Runners : UnderWay(v)' => UnderWay(v) /\ run'[v] = run[v]
  BY DEF Frame, UnderWay
<1>3. ASSUME NEW v \in Runners, UnderWay(v)'
      PROVE  run'[v] \in 1 .. runs' /\ run'[v] \notin completed'
  <2>1. UnderWay(v) /\ run'[v] = run[v] /\ run[v] \in 1 .. runs /\ run[v] \notin completed
    BY <1>2, <1>3 DEF RunInv, RunsFacts
  <2>2. v # w => (UnderWay(w) => run[v] # run[w])
    BY <2>1 DEF RunInv, RunsFacts
  <2> QED  BY <1>1, <1>3, <2>1, <2>2
<1>4. ASSUME NEW u \in Runners, NEW v \in Runners, UnderWay(u)', UnderWay(v)', u # v
      PROVE  run'[u] # run'[v]
  BY <1>2, <1>4 DEF RunInv, RunsFacts
<1>5. ASSUME NEW v \in Runners, UnderWay(v)', run'[v] # runs'
      PROVE  run'[v] \in overlapped' /\ runs' \in overlapped'
  BY <1>1, <1>2, <1>5 DEF RunInv, RunsFacts
<1> QED  BY <1>3, <1>4, <1>5 DEF RunsFacts

\* Of two runs under way neither is alone.
LEMMA BesideOverlaps ==
  ASSUME RunInv, NEW v \in Runners, NEW w \in Runners, v # w, UnderWay(v), UnderWay(w)
  PROVE  run[v] \in overlapped /\ run[w] \in overlapped
BY DEF RunInv, RunsFacts

\* So what a process appends meets no other's run that is alone.
LEMMA OthersKeep ==
  ASSUME RunInv, NEW w \in Runners, Frame(w), UNCHANGED history, UnderWay(w),
         RunningFacts(w)'
  PROVE  \A v \in Runners : RunningFacts(v)'
<1> SUFFICES ASSUME NEW v \in Runners, v # w PROVE RunningFacts(v)'
  OBVIOUS
<1>1. pc'[v] = pc[v] /\ run'[v] = run[v] /\ overlapped' = overlapped
  BY DEF Frame, history
<1>2. pc[v] \in {"step", "evaluate", "result", "record"} => run[v] \in overlapped
  BY BesideOverlaps DEF UnderWay
<1> QED  BY <1>1, <1>2 DEF RunningFacts

LEMMA RunningStays ==
  ASSUME NEW v \in Runners, RunningFacts(v), pc'[v] = pc[v], run'[v] = run[v],
         count'[v] = count[v], UNCHANGED <<traj, open>>, overlapped \subseteq overlapped'
  PROVE  RunningFacts(v)'
<1>1. Parses' = Parses /\ traj' = traj /\ open' = open
  BY DEF Parses
<1> QED  BY <1>1 DEF RunningFacts

\* What the file says, as long as it is left alone.
LEMMA FileKeeps ==
  ASSUME RunInv, UNCHANGED <<traj, open, torn>>, result => result', overlapped \subseteq overlapped',
         \/ runs' \notin completed'
         \/ runs' = runs /\ UNCHANGED completed
  PROVE  EvalFacts' /\ CompletedFacts'
<1>1. Parses' = Parses /\ EvalLast' = EvalLast
  BY DEF Parses, EvalLast
<1>2. EvalFacts'
  BY <1>1 DEF RunInv, EvalFacts
<1>3. CompletedFacts'
  BY <1>1 DEF RunInv, CompletedFacts
<1> QED  BY <1>2, <1>3

-----------------------------------------------------------------------------

LEMMA InitRun == Init => RunInv
<1> SUFFICES ASSUME Init PROVE RunInv
  OBVIOUS
<1> USE RunAssumption
<1>1. TypeOK
  <2>1. traj \in Seq(Lines) /\ runs \in 0 .. MaxRuns /\ torn \in 0 .. MaxTorn
    BY DEF Init
  <2>2. open \in BOOLEAN /\ result \in BOOLEAN /\ completed \subseteq 1 .. runs /\ overlapped \subseteq 1 .. runs
    BY DEF Init
  <2>3. /\ run \in [Runners -> 0 .. MaxRuns] /\ step \in [Runners -> 1 .. MaxSteps + 1]
        /\ count \in [Runners -> 0 .. MaxSteps]
    BY DEF Init
  <2> QED  BY <2>1, <2>2, <2>3 DEF Init, TypeOK
<1>2. \A w \in Runners : pc[w] = "idle" /\ step[w] = 1 /\ count[w] = 0
  BY DEF Init
<1>3. /\ \A w \in Runners : CounterFacts(w) /\ RunningFacts(w)
      /\ RunsFacts /\ ResultFacts
  BY <1>2 DEF CounterFacts, RunsFacts, UnderWay, ResultFacts, RunningFacts
<1>4. EvalFacts /\ CompletedFacts
  BY DEF Init, EvalFacts, EvalLast, CompletedFacts, Parses
<1> QED  BY <1>1, <1>3, <1>4 DEF RunInv

\* Neither the file nor the runs that are under way change.
LEMMA ListKeeps ==
  ASSUME RunInv, NEW w \in Runners, List(w)
  PROVE  RunInv'
<1>1. /\ TypeOK /\ pc[w] = "idle" /\ Goes(w, "listed") /\ UNCHANGED local /\ UNCHANGED history
      /\ UNCHANGED <<traj, open, torn>> /\ UNCHANGED <<result, completed>>
  BY DEF RunInv, List
<1>2. /\ Frame(w) /\ pc'[w] = "listed"
      /\ run'[w] = run[w] /\ step'[w] = step[w] /\ count'[w] = count[w]
  BY <1>1, GoesFrame DEF Places
<1>3. TypeOK'
  BY <1>1, <1>2, FrameType DEF TypeOK, history
<1>4. CounterFacts(w)' /\ RunningFacts(w)'
  BY <1>1, <1>2 DEF RunInv, CounterFacts, RunningFacts
<1>5. RunsFacts'
  BY <1>1, <1>2, RunsKeep DEF UnderWay
<1>6. ResultFacts'
  BY <1>1, <1>2 DEF RunInv, ResultFacts, Frame
<1>7. \A v \in Runners : RunningFacts(v)'
  BY <1>1, <1>2, <1>4, RunningStays DEF RunInv, Frame, history
<1>8. EvalFacts' /\ CompletedFacts'
  BY <1>1, FileKeeps DEF history
<1> QED  BY <1>2, <1>3, <1>4, <1>5, <1>6, <1>7, <1>8, CountersKeep DEF RunInv

LEMMA StartKeeps ==
  ASSUME RunInv, NEW w \in Runners, Start(w)
  PROVE  RunInv'
<1> USE RunAssumption
<1>1. /\ TypeOK /\ pc[w] = "listed" /\ Goes(w, "init") /\ runs < MaxRuns /\ runs' = runs + 1
      /\ run' = [run EXCEPT ![w] = runs + 1]
      /\ step' = [step EXCEPT ![w] = 1] /\ count' = [count EXCEPT ![w] = 0]
      /\ overlapped' = overlapped \cup UNION {{run[v], runs + 1} : v \in Beside(w)}
      /\ UNCHANGED <<traj, open, torn>> /\ UNCHANGED <<result, completed>>
  BY DEF RunInv, Start
<1>2. /\ runs \in Nat /\ runs' \in 1 .. MaxRuns
      /\ completed \subseteq 1 .. runs /\ overlapped \subseteq 1 .. runs
      /\ \A v \in Runners : UnderWay(v) => run[v] \in 1 .. runs
  BY <1>1 DEF TypeOK, RunInv, RunsFacts
<1>3. /\ Frame(w) /\ pc'[w] = "init" /\ run'[w] = runs + 1 /\ step'[w] = 1 /\ count'[w] = 0
  <2>1. pc' \in [Runners -> Places] /\ pc'[w] = "init" /\ \A v \in Runners \ {w} : pc'[v] = pc[v]
    BY <1>1 DEF TypeOK, Goes, Places
  <2>2. /\ run' \in [Runners -> 0 .. MaxRuns] /\ run'[w] = runs + 1
        /\ \A v \in Runners \ {w} : run'[v] = run[v]
    BY <1>1, <1>2 DEF TypeOK
  <2>3. /\ step' \in [Runners -> 1 .. MaxSteps + 1] /\ step'[w] = 1
        /\ \A v \in Runners \ {w} : step'[v] = step[v]
    BY <1>1 DEF TypeOK
  <2>4. /\ count' \in [Runners -> 0 .. MaxSteps] /\ count'[w] = 0
        /\ \A v \in Runners \ {w} : count'[v] = count[v]
    BY <1>1 DEF TypeOK
  <2> QED  BY <2>1, <2>2, <2>3, <2>4 DEF Frame
<1>4. /\ overlapped \subseteq overlapped' /\ overlapped' \subseteq 1 .. runs'
      /\ \A v \in Runners : v # w /\ UnderWay(v) => run[v] \in overlapped' /\ runs' \in overlapped'
  <2>1. \A v \in Beside(w) : run[v] \in 1 .. runs
    BY <1>2 DEF Beside
  <2>2. \A v \in Runners : v # w /\ UnderWay(v) => v \in Beside(w)
    BY DEF Beside
  <2>3. ASSUME NEW x \in overlapped'
        PROVE  x \in 1 .. runs'
    <3>1. x \in overlapped \/ \E v \in Beside(w) : x = run[v] \/ x = runs + 1
      BY <1>1, <2>3
    <3> QED  BY <1>1, <1>2, <2>1, <3>1
  <2> QED  BY <1>1, <2>2, <2>3
<1>5. TypeOK'
  <2>1. completed' \subseteq 1 .. runs'
    BY <1>1, <1>2
  <2>2. /\ traj' \in Seq(Lines) /\ open' \in BOOLEAN /\ result' \in BOOLEAN
        /\ torn' \in 0 .. MaxTorn /\ runs' \in 0 .. MaxRuns
    BY <1>1, <1>2 DEF TypeOK
  <2> QED  BY <1>3, <1>4, <2>1, <2>2, FrameType
<1>6. CounterFacts(w)' /\ RunningFacts(w)'
  BY <1>3 DEF CounterFacts, RunningFacts
<1>7. \A v \in Runners : v # w /\ UnderWay(v)' => UnderWay(v) /\ run'[v] = run[v]
  BY <1>3 DEF Frame, UnderWay
<1>8. RunsFacts'
  <2>1. ASSUME NEW v \in Runners, UnderWay(v)'
        PROVE  run'[v] \in 1 .. runs' /\ run'[v] \notin completed'
    <3>1. CASE v = w
      BY <1>1, <1>2, <1>3, <3>1
    <3>2. CASE v # w
      <4>1. run'[v] = run[v] /\ run[v] \in 1 .. runs /\ run[v] \notin completed
        BY <1>7, <2>1, <3>2 DEF RunInv, RunsFacts
      <4> QED  BY <1>1, <1>2, <4>1
    <3> QED  BY <3>1, <3>2
  <2>2. ASSUME NEW u \in Runners, NEW v \in Runners, UnderWay(u)', UnderWay(v)', u # v
        PROVE  run'[u] # run'[v]
    <3>1. \A x \in Runners : x # w /\ UnderWay(x)' => run'[x] \in 1 .. runs /\ run'[x] # runs + 1
      BY <1>2, <1>7
    <3>2. CASE u # w /\ v # w
      BY <1>7, <2>2, <3>2 DEF RunInv, RunsFacts
    <3> QED  BY <1>3, <2>2, <3>1, <3>2
  <2>3. ASSUME NEW v \in Runners, UnderWay(v)', run'[v] # runs'
        PROVE  run'[v] \in overlapped' /\ runs' \in overlapped'
    <3>1. v # w
      BY <1>1, <1>3, <2>3
    <3> QED  BY <1>4, <1>7, <2>3, <3>1
  <2> QED  BY <2>1, <2>2, <2>3 DEF RunsFacts
<1>9. ResultFacts'
  BY <1>1, <1>3 DEF RunInv, ResultFacts, Frame
<1>10. \A v \in Runners : RunningFacts(v)'
  BY <1>1, <1>3, <1>4, <1>6, RunningStays DEF RunInv, Frame
<1>11. EvalFacts' /\ CompletedFacts'
  <2>1. runs' \notin completed'
    BY <1>1, <1>2
  <2> QED  BY <1>1, <1>4, <2>1, FileKeeps
<1> QED  BY <1>3, <1>5, <1>6, <1>8, <1>9, <1>10, <1>11, CountersKeep DEF RunInv

\* What every append preserves: the types, the other runs, and the count of the
\* latest run, which is not complete while it appends.
LEMMA AppendKeeps ==
  ASSUME RunInv, NEW w \in Runners, UnderWay(w), Frame(w), UNCHANGED history,
         traj' \in Seq(Lines), open' \in BOOLEAN, result' = result, torn' \in 0 .. MaxTorn,
         CounterFacts(w)', RunningFacts(w)', pc'[w] # "record",
         UnderWay(w)' => run'[w] = run[w],
         \/ completed' = completed
         \/ completed' = completed \cup {run[w]} /\ ~ UnderWay(w)'
  PROVE  /\ TypeOK' /\ \A v \in Runners : CounterFacts(v)'
         /\ RunsFacts' /\ ResultFacts' /\ \A v \in Runners : RunningFacts(v)'
<1>1. run[w] \in 1 .. runs /\ runs' = runs /\ overlapped' = overlapped
  BY DEF RunInv, RunsFacts, history
<1>2. TypeOK'
  <2>1. completed' \subseteq 1 .. runs' /\ overlapped' \subseteq 1 .. runs' /\ runs' \in 0 .. MaxRuns
    BY <1>1 DEF RunInv, TypeOK
  <2>2. result' \in BOOLEAN
    BY DEF RunInv, TypeOK
  <2> QED  BY <2>1, <2>2, FrameType
<1>3. ResultFacts'
  BY DEF RunInv, ResultFacts, Frame
<1> QED  BY <1>2, <1>3, CountersKeep, RunsKeep, OthersKeep

\* A run that appends is not complete: if it is the latest, or overlaps with
\* it, CompletedFacts says nothing.
LEMMA AppenderIncomplete ==
  ASSUME RunInv, NEW w \in Runners, UnderWay(w), UNCHANGED history, completed' = completed
  PROVE  ~ (runs' \in completed' /\ runs' \notin overlapped')
BY DEF RunInv, RunsFacts, history

LEMMA WriteInitKeeps ==
  ASSUME RunInv, NEW w \in Runners, WriteInit(w)
  PROVE  RunInv'
<1> USE RunAssumption
<1>1. /\ TypeOK /\ pc[w] = "init" /\ Goes(w, "step") /\ AppendLine(Line(w, "init", 0))
      /\ UNCHANGED local /\ UNCHANGED history /\ UNCHANGED <<result, completed>> /\ torn' = torn
  BY DEF RunInv, WriteInit
<1>2. /\ Frame(w) /\ pc'[w] = "step"
      /\ run'[w] = run[w] /\ step'[w] = step[w] /\ count'[w] = count[w]
  BY <1>1, GoesFrame DEF Places
<1>3. /\ Line(w, "init", 0) \in Lines /\ Line(w, "init", 0).kind = "init"
      /\ Line(w, "init", 0) = Rec(run[w], "init", 0)
  BY <1>1, LineType
<1>4. /\ traj' \in Seq(Lines) /\ traj' # <<>> /\ open' = FALSE
      /\ Parses' => /\ Parses /\ ~ open /\ traj'[Len(traj')] = Line(w, "init", 0)
                    /\ Len(traj) \in Nat /\ Len(traj') = Len(traj) + 1
      /\ ~ open => (Parses => Parses')
  BY <1>1, <1>3, AppendLineFacts
<1>5. step[w] = 1 /\ count[w] = 0
  <2>1. CounterFacts(w) /\ count[w] \in Nat
    BY <1>1 DEF RunInv, TypeOK
  <2> QED  BY <1>1, <2>1 DEF CounterFacts
<1>6. CounterFacts(w)'
  BY <1>2, <1>5 DEF CounterFacts
<1>7. RunningFacts(w)'
  <2>1. Parses' => StoryAt(traj', run'[w], count'[w], count'[w], Len(traj'))
    <3>1. Parses' => traj'[Len(traj')] = Rec(run'[w], "init", 0) /\ Len(traj') \in Nat /\ Len(traj') > 0
      BY <1>2, <1>3, <1>4
    <3>2. count'[w] = 0
      BY <1>2, <1>5
    <3> QED  BY <3>1, <3>2 DEF StoryAt, Rec
  <2> QED  BY <1>2, <1>4, <2>1 DEF RunningFacts
<1>8. EvalFacts'
  BY <1>3, <1>4 DEF EvalFacts, EvalLast
<1>9. UnderWay(w) /\ pc'[w] # "record"
  BY <1>1, <1>2 DEF UnderWay
<1>10. CompletedFacts'
  BY <1>1, <1>4, <1>9, AppenderIncomplete DEF RunInv, CompletedFacts
<1>11. torn' \in 0 .. MaxTorn /\ open' \in BOOLEAN
  BY <1>1, <1>4 DEF TypeOK
<1> QED  BY <1>1, <1>2, <1>4, <1>6, <1>7, <1>8, <1>9, <1>10, <1>11, AppendKeeps DEF RunInv

LEMMA StepKeeps ==
  ASSUME RunInv, NEW w \in Runners, Step(w)
  PROVE  RunInv'
<1> USE RunAssumption
<1>1. PICK terminated \in BOOLEAN :
        /\ AppendLine(StepLine(w, terminated))
        /\ IF terminated THEN UNCHANGED <<step, count>>
           ELSE step' = [step EXCEPT ![w] = @ + 1] /\ count' = [count EXCEPT ![w] = @ + 1]
        /\ Goes(w, IF terminated \/ LoopEnds(step'[w]) THEN "evaluate" ELSE "step")
  BY DEF Step
<1>2. /\ TypeOK /\ pc[w] = "step" /\ run' = run
      /\ UNCHANGED history /\ UNCHANGED <<result, completed>> /\ torn' = torn
  BY DEF RunInv, Step
<1>3. /\ step[w] = count[w] + 1 /\ step[w] \in 1 .. MaxSteps /\ count[w] \in Nat
      /\ run[w] \notin overlapped =>
           ~ open /\ (Parses => StoryAt(traj, run[w], count[w], count[w], Len(traj)))
  <2>1. CounterFacts(w) /\ RunningFacts(w) /\ step[w] \in 1 .. MaxSteps + 1 /\ count[w] \in 0 .. MaxSteps
    BY <1>2 DEF RunInv, TypeOK
  <2> QED  BY <1>2, <2>1 DEF CounterFacts, RunningFacts
<1>4. /\ step'[w] = IF terminated THEN step[w] ELSE step[w] + 1
      /\ count'[w] = IF terminated THEN count[w] ELSE count[w] + 1
      /\ step' \in [Runners -> 1 .. MaxSteps + 1] /\ count' \in [Runners -> 0 .. MaxSteps]
      /\ \A v \in Runners \ {w} : step'[v] = step[v] /\ count'[v] = count[v]
  <2>1. step \in [Runners -> 1 .. MaxSteps + 1] /\ count \in [Runners -> 0 .. MaxSteps]
    BY <1>2 DEF TypeOK
  <2>2. CASE terminated
    BY <1>1, <2>1, <2>2
  <2>3. CASE ~ terminated
    <3>1. step[w] + 1 \in 1 .. MaxSteps + 1 /\ count[w] + 1 \in 0 .. MaxSteps
      BY <1>3
    <3> QED  BY <1>1, <2>1, <2>3, <3>1
  <2> QED  BY <2>2, <2>3
<1>5. /\ pc' \in [Runners -> Places] /\ \A v \in Runners \ {w} : pc'[v] = pc[v]
      /\ pc'[w] = IF terminated \/ step'[w] > MaxSteps THEN "evaluate" ELSE "step"
  <2>1. pc \in [Runners -> Places]
    BY <1>2 DEF TypeOK, Places
  <2> QED  BY <1>1, <2>1 DEF Goes, LoopEnds, Places
<1>6. Frame(w)
  BY <1>2, <1>4, <1>5 DEF Frame, TypeOK
<1>7. CounterFacts(w)'
  BY <1>3, <1>4, <1>5 DEF CounterFacts
<1> DEFINE kind == IF terminated THEN "stop" ELSE "step"
           e == Rec(run[w], kind, step[w])
           m == count[w] + 1
<1>8. e \in Lines /\ e.kind \notin {"broken", "eval"} /\ StepLine(w, terminated) = e
  <2>1. kind \in {"init", "step", "stop", "eval", "error"} /\ kind \notin {"broken", "eval"}
    OBVIOUS
  <2>2. step[w] \in 0 .. MaxSteps
    BY <1>3
  <2> QED  BY <1>2, <2>1, <2>2, LineType DEF StepLine
<1> HIDE DEF e, kind
<1>9. /\ traj' \in Seq(Lines) /\ traj' # <<>> /\ open' = FALSE
      /\ Parses' => /\ Parses /\ ~ open /\ traj'[Len(traj')] = e
                    /\ Len(traj) \in Nat /\ Len(traj') = Len(traj) + 1
                    /\ \A i \in 1 .. Len(traj) : traj'[i] = traj[i]
      /\ ~ open => (Parses => Parses')
  BY <1>1, <1>2, <1>8, AppendLineFacts
<1>10. ASSUME Parses', run[w] \notin overlapped
       PROVE  StoryAt(traj', run[w], count'[w], m, Len(traj'))
  <2>1. StoryAt(traj, run[w], count[w], count[w], Len(traj))
    BY <1>3, <1>9, <1>10
  <2>2. /\ Len(traj) > count[w] /\ traj[Len(traj) - count[w]] = Rec(run[w], "init", 0)
        /\ \A j \in 1 .. count[w] : traj[Len(traj) - count[w] + j] = Rec(run[w], "step", j)
    BY <2>1, <1>3 DEF StoryAt
  <2>3. Len(traj') - m = Len(traj) - count[w] /\ Len(traj) \in Nat /\ Len(traj') > m
    BY <1>3, <1>9, <1>10, <2>2
  <2>4. traj'[Len(traj) - count[w]] = Rec(run[w], "init", 0)
    <3>1. Len(traj) - count[w] \in 1 .. Len(traj)
      BY <1>3, <2>2, <2>3
    <3> QED  BY <1>9, <1>10, <2>2, <3>1
  <2>5. ASSUME NEW j \in 1 .. m
        PROVE  traj'[Len(traj) - count[w] + j] = Rec(run[w], IF j > count'[w] THEN "stop" ELSE "step", j)
    <3>1. CASE j \in 1 .. count[w]
      <4>1. Len(traj) - count[w] + j \in 1 .. Len(traj)
        BY <1>3, <2>2, <2>3, <3>1
      <4>2. traj[Len(traj) - count[w] + j] = Rec(run[w], "step", j)
        BY <2>2, <3>1
      <4>3. ~ (j > count'[w])
        BY <1>3, <1>4, <3>1
      <4> QED  BY <1>9, <1>10, <4>1, <4>2, <4>3
    <3>2. CASE j = count[w] + 1
      <4>1. Len(traj) - count[w] + j = Len(traj') /\ j = step[w]
        BY <1>3, <1>9, <1>10, <2>3, <3>2
      <4>2. kind = IF j > count'[w] THEN "stop" ELSE "step"
        BY <1>3, <1>4, <3>2 DEF kind
      <4> QED  BY <1>9, <1>10, <4>1, <4>2 DEF e
    <3> QED  BY <1>3, <3>1, <3>2
  <2>6. Len(traj') > m /\ traj'[Len(traj') - m] = Rec(run[w], "init", 0)
    BY <2>3, <2>4
  <2>7. \A j \in 1 .. m :
          traj'[Len(traj') - m + j] = Rec(run[w], IF j > count'[w] THEN "stop" ELSE "step", j)
    BY <2>3, <2>5
  <2> QED  BY <2>6, <2>7 DEF StoryAt
<1>11. RunningFacts(w)'
  <2>1. m > 0 /\ m \in {count'[w], count'[w] + 1} /\ (~ terminated => m = count'[w])
    BY <1>3, <1>4
  <2>2. run'[w] = run[w] /\ overlapped' = overlapped
    BY <1>2 DEF history
  <2> HIDE DEF m
  <2>3. ASSUME Parses', run[w] \notin overlapped
        PROVE  WholeAt(traj', run'[w], count'[w], Len(traj'))
    BY <1>10, <2>1, <2>2, <2>3 DEF WholeAt
  <2>4. ASSUME Parses', run[w] \notin overlapped, pc'[w] = "step"
        PROVE  StoryAt(traj', run'[w], count'[w], count'[w], Len(traj'))
    <3>1. m = count'[w]
      BY <1>5, <2>1, <2>4
    <3> QED  BY <1>10, <2>2, <2>4, <3>1
  <2> QED  BY <1>9, <2>2, <2>3, <2>4 DEF RunningFacts
<1>12. EvalFacts'
  BY <1>8, <1>9 DEF EvalFacts, EvalLast
<1>13. UnderWay(w) /\ pc'[w] # "record" /\ run'[w] = run[w]
  BY <1>2, <1>5 DEF UnderWay
<1>14. CompletedFacts'
  BY <1>2, <1>9, <1>13, AppenderIncomplete DEF RunInv, CompletedFacts
<1>15. torn' \in 0 .. MaxTorn /\ open' \in BOOLEAN
  BY <1>2, <1>9 DEF TypeOK
<1> QED  BY <1>2, <1>6, <1>7, <1>9, <1>11, <1>12, <1>13, <1>14, <1>15, AppendKeeps DEF RunInv

\* The file stays as it is while the run goes on to its evaluation, or ends.
LEMMA QuietKeeps ==
  ASSUME RunInv, NEW w \in Runners, Evaluate(w) \/ WriteResult(w) \/ Exit(w)
  PROVE  RunInv'
<1> USE RunAssumption
<1>1. /\ TypeOK /\ UNCHANGED history /\ UNCHANGED <<traj, open, torn>> /\ UNCHANGED completed
      /\ result' \in BOOLEAN
      /\ result => result'
  BY DEF RunInv, TypeOK, Evaluate, WriteResult, Exit
<1>2. /\ Frame(w) /\ CounterFacts(w)' /\ RunningFacts(w)'
      /\ UnderWay(w)' => UnderWay(w) /\ run'[w] = run[w]
      /\ pc'[w] = "record" => result'
  <2>1. CASE Evaluate(w) \/ WriteResult(w)
    <3>1. /\ pc[w] \in {"evaluate", "result"} /\ UNCHANGED local
          /\ \E p \in {"result", "record"} : Goes(w, p) /\ (p = "record" => result')
      BY <2>1 DEF Evaluate, WriteResult
    <3>2. /\ Frame(w) /\ pc'[w] \in {"result", "record"} /\ (pc'[w] = "record" => result')
          /\ run'[w] = run[w] /\ step'[w] = step[w] /\ count'[w] = count[w]
      BY <1>1, <3>1, GoesFrame DEF Places
    <3>3. CounterFacts(w)'
      BY <3>2 DEF RunInv, CounterFacts
    <3>4. RunningFacts(w)'
      <4>1. Parses' = Parses
        BY <1>1 DEF Parses
      <4> QED  BY <1>1, <3>1, <3>2, <4>1 DEF RunInv, RunningFacts, history
    <3> QED  BY <3>1, <3>2, <3>3, <3>4 DEF UnderWay
  <2>2. CASE Exit(w)
    <3>1. Frame(w) /\ pc'[w] = "idle" /\ step'[w] = 1 /\ count'[w] = 0
      BY <1>1, <2>2, EndsFrame DEF Exit
    <3> QED  BY <3>1 DEF CounterFacts, RunningFacts, UnderWay
  <2> QED  BY <2>1, <2>2
<1>3. TypeOK'
  <2>1. completed' \subseteq 1 .. runs' /\ overlapped' \subseteq 1 .. runs' /\ runs' \in 0 .. MaxRuns
    BY <1>1 DEF TypeOK, history
  <2>2. traj' \in Seq(Lines) /\ open' \in BOOLEAN /\ torn' \in 0 .. MaxTorn
    BY <1>1 DEF TypeOK
  <2> QED  BY <1>1, <1>2, <2>1, <2>2, FrameType
<1>4. ResultFacts'
  BY <1>1, <1>2 DEF RunInv, ResultFacts, Frame
<1>5. \A v \in Runners : RunningFacts(v)'
  BY <1>1, <1>2, RunningStays DEF RunInv, Frame, history
<1>6. EvalFacts' /\ CompletedFacts'
  BY <1>1, FileKeeps DEF history
<1> QED  BY <1>1, <1>2, <1>3, <1>4, <1>5, <1>6, RunsKeep, CountersKeep DEF RunInv

\* A run that is left says nothing more.
LEMMA EndsFacts ==
  ASSUME RunInv, NEW w \in Runners, Ends(w)
  PROVE  /\ Frame(w) /\ CounterFacts(w)' /\ RunningFacts(w)'
         /\ ~ UnderWay(w)' /\ pc'[w] # "record"
<1>1. Frame(w) /\ pc'[w] = "idle" /\ step'[w] = 1 /\ count'[w] = 0
  BY EndsFrame DEF RunInv
<1> QED  BY <1>1 DEF CounterFacts, RunningFacts, UnderWay

\* The evaluation record of a run that is alone comes after its other records.
LEMMA EvalAfterRun ==
  ASSUME RunInv, NEW w \in Runners, pc[w] = "record", UNCHANGED history, result' = result,
         traj' = Append(traj, Line(w, "eval", count[w])), ~ open
  PROVE  EvalFacts'
<1> DEFINE e == Line(w, "eval", count[w])
<1>1. TypeOK /\ count[w] \in 0 .. MaxSteps
  BY DEF RunInv, TypeOK
<1>2. e \in Lines /\ e.kind = "eval" /\ e.run = run[w] /\ e.n = count[w]
  BY <1>1, LineType DEF Line
<1> HIDE DEF e
<1>3. /\ Len(traj) \in Nat /\ Len(traj') = Len(traj) + 1
      /\ \A i \in 1 .. Len(traj) : traj'[i] = traj[i]
      /\ traj'[Len(traj')] = e /\ (Parses' => Parses)
  BY <1>1, <1>2, WholeAppend DEF e
<1>4. result' /\ overlapped' = overlapped
  BY DEF RunInv, ResultFacts, history
<1>5. ASSUME Parses', run[w] \notin overlapped
      PROVE  WholeAt(traj', run[w], count[w], Len(traj') - 1)
  <2>1. WholeAt(traj, run[w], count[w], Len(traj))
    BY <1>3, <1>5 DEF RunInv, RunningFacts
  <2>2. PICK m \in {count[w], count[w] + 1} :
          m > 0 /\ StoryAt(traj, run[w], count[w], m, Len(traj))
    BY <2>1 DEF WholeAt
  <2>3. m \in Nat /\ Len(traj') - 1 = Len(traj)
    BY <1>1, <1>3
  <2>4. StoryAt(traj', run[w], count[w], m, Len(traj))
    BY <1>3, <2>2, <2>3, StoryStays
  <2> QED  BY <2>2, <2>3, <2>4 DEF WholeAt
<1> QED  BY <1>2, <1>3, <1>4, <1>5 DEF EvalFacts, EvalLast

LEMMA WriteRecordKeeps ==
  ASSUME RunInv, NEW w \in Runners, WriteRecord(w)
  PROVE  RunInv'
<1>1. /\ TypeOK /\ pc[w] = "record" /\ Ends(w) /\ AppendLine(Line(w, "eval", count[w]))
      /\ completed' = completed \cup {run[w]} /\ UNCHANGED history /\ result' = result /\ torn' = torn
  BY DEF RunInv, WriteRecord
<1>2. /\ Line(w, "eval", count[w]) \in Lines /\ Line(w, "eval", count[w]).kind = "eval"
      /\ Line(w, "eval", count[w]).run = run[w]
  BY <1>1, LineType DEF TypeOK, Line
<1>3. /\ traj' \in Seq(Lines) /\ traj' # <<>> /\ open' = FALSE
      /\ Parses' => ~ open /\ traj'[Len(traj')] = Line(w, "eval", count[w])
      /\ ~ open => (Parses => Parses') /\ traj'[Len(traj')] = Line(w, "eval", count[w])
  BY <1>1, <1>2, AppendLineFacts
<1>4. EvalFacts'
  <2>1. CASE open
    BY <1>3, <2>1 DEF EvalFacts, EvalLast
  <2>2. CASE ~ open
    <3>1. traj' = Append(traj, Line(w, "eval", count[w]))
      BY <1>1, <2>2 DEF AppendLine
    <3> HIDE <2>2
    <3> QED  BY <1>1, <2>2, <3>1, EvalAfterRun
  <2> QED  BY <2>1, <2>2
<1>5. UnderWay(w) /\ run[w] \in 1 .. runs /\ (run[w] # runs => runs \in overlapped)
  BY <1>1 DEF UnderWay, RunInv, RunsFacts
<1>6. CompletedFacts'
  <2>1. torn' = 0 => ~ open' /\ Parses'
    BY <1>1, <1>3 DEF RunInv, CompletedFacts
  <2>2. ASSUME runs' \in completed', runs' \notin overlapped', torn' = 0
        PROVE  EvalLast' /\ traj'[Len(traj')].run = runs'
    <3>1. run[w] = runs'
      BY <1>1, <1>5, <2>2 DEF history
    <3> QED  BY <1>2, <1>3, <2>1, <2>2, <3>1 DEF EvalLast
  <2> QED  BY <2>1, <2>2 DEF CompletedFacts
<1>7. torn' \in 0 .. MaxTorn /\ open' \in BOOLEAN
  BY <1>1, <1>3 DEF TypeOK
<1> QED  BY <1>1, <1>3, <1>4, <1>5, <1>6, <1>7, EndsFacts, AppendKeeps DEF RunInv

LEMMA RaiseKeeps ==
  ASSUME RunInv, NEW w \in Runners, Raise(w)
  PROVE  RunInv'
<1>1. /\ TypeOK /\ UnderWay(w) /\ Ends(w) /\ AppendLine(Line(w, "error", 0))
      /\ UNCHANGED history /\ result' = result /\ completed' = completed /\ torn' = torn
  BY DEF RunInv, Raise
<1>2. Line(w, "error", 0) \in Lines /\ Line(w, "error", 0).kind = "error"
  BY <1>1, LineType, RunAssumption
<1>3. /\ traj' \in Seq(Lines) /\ open' = FALSE
      /\ Parses' => traj'[Len(traj')] = Line(w, "error", 0)
      /\ ~ open => (Parses => Parses')
  BY <1>1, <1>2, AppendLineFacts
<1>4. EvalFacts'
  BY <1>2, <1>3 DEF EvalFacts, EvalLast
<1>5. CompletedFacts'
  BY <1>1, <1>3, AppenderIncomplete DEF RunInv, CompletedFacts
<1>6. torn' \in 0 .. MaxTorn /\ open' \in BOOLEAN
  BY <1>1, <1>3 DEF TypeOK
<1> QED  BY <1>1, <1>3, <1>4, <1>5, <1>6, EndsFacts, AppendKeeps DEF RunInv

LEMMA CutOffKeeps ==
  ASSUME RunInv, NEW w \in Runners, CutOff(w)
  PROVE  RunInv'
<1> USE RunAssumption
<1>1. /\ TypeOK /\ UnderWay(w) /\ Ends(w) /\ torn < MaxTorn /\ torn' = torn + 1 /\ open' = TRUE
      /\ UNCHANGED history /\ result' = result /\ completed' = completed
  BY DEF RunInv, CutOff
<1>2. torn' \in 0 .. MaxTorn /\ torn' # 0
  BY <1>1 DEF TypeOK
<1>3. CompletedFacts'
  BY <1>2 DEF CompletedFacts
<1>4. traj' \in Seq(Lines) /\ EvalFacts'
  <2>1. CASE open
    <3>1. traj' = Append(Front(traj), Broken)
      BY <2>1 DEF CutOff
    <3>2. traj' \in Seq(Lines) /\ ~ Parses'
      BY <1>1, <3>1, TornAppend
    <3> QED  BY <3>2 DEF EvalFacts, EvalLast
  <2>2. CASE ~ open
    <3>1. PICK e \in Appending(w) \cup {Broken} : traj' = Append(traj, e)
      BY <2>2 DEF CutOff
    <3>2. /\ e \in Lines
          /\ e.kind = "eval" => pc[w] = "record" /\ e = Line(w, "eval", count[w])
      <4>1. CASE e = Broken
        BY <4>1, <1>1 DEF Broken, Lines, TypeOK
      <4>2. CASE e = Line(w, "error", 0) \/ e = Line(w, "init", 0)
        BY <4>2, <1>1, LineType
      <4>3. CASE e \in {StepLine(w, FALSE), StepLine(w, TRUE)} /\ pc[w] = "step"
        <5>1. step[w] \in 0 .. MaxSteps
          <6>1. CounterFacts(w) /\ step[w] \in 1 .. MaxSteps + 1
            BY <1>1 DEF RunInv, TypeOK
          <6> QED  BY <4>3, <6>1 DEF CounterFacts
        <5>2. e = Line(w, "step", step[w]) \/ e = Line(w, "stop", step[w])
          BY <4>3 DEF StepLine
        <5> QED  BY <1>1, <5>1, <5>2, LineType
      <4>4. CASE e = Line(w, "eval", count[w]) /\ pc[w] = "record"
        BY <4>4, <1>1, LineType DEF TypeOK
      <4> QED  BY <3>1, <4>1, <4>2, <4>3, <4>4 DEF Appending
    <3>3. traj' \in Seq(Lines) /\ traj'[Len(traj')] = e
      BY <1>1, <3>1, <3>2, WholeAppend
    <3>4. CASE e.kind = "eval"
      <4> HIDE <2>2
      <4> QED  BY <1>1, <2>2, <3>1, <3>2, <3>3, <3>4, EvalAfterRun
    <3>5. CASE e.kind # "eval"
      BY <3>3, <3>5 DEF EvalFacts, EvalLast
    <3> QED  BY <3>3, <3>4, <3>5
  <2> QED  BY <2>1, <2>2
<1> QED  BY <1>1, <1>2, <1>3, <1>4, EndsFacts, AppendKeeps DEF RunInv

LEMMA RunStep == RunInv /\ [Next]_vars => RunInv'
<1> SUFFICES ASSUME RunInv, [Next]_vars PROVE RunInv'
  OBVIOUS
<1>1. CASE UNCHANGED vars
  <2>1. /\ UNCHANGED <<pc, run, step, count, runs, traj, open, result, completed, overlapped, torn>>
    BY <1>1 DEF vars
  <2>2. TypeOK'
    BY <2>1 DEF RunInv, TypeOK, Lines
  <2>3. RunsFacts' /\ ResultFacts' /\ \A w \in Runners : CounterFacts(w)' /\ RunningFacts(w)'
    BY <2>1 DEF RunInv, RunsFacts, UnderWay, ResultFacts, CounterFacts, RunningFacts, Parses
  <2>4. EvalFacts' /\ CompletedFacts'
    BY <2>1, FileKeeps
  <2> QED  BY <2>2, <2>3, <2>4 DEF RunInv
<1>2. CASE Next
  <2>1. PICK w \in Runners : Moves(w)
    BY <1>2 DEF Next
  <2> QED  BY <2>1, ListKeeps, StartKeeps, WriteInitKeeps, StepKeeps, QuietKeeps,
              WriteRecordKeeps, RaiseKeeps, CutOffKeeps DEF Moves
<1> QED  BY <1>1, <1>2

-----------------------------------------------------------------------------

LEMMA LargestIn ==
  ASSUME NEW n \in Nat, NEW S, S \subseteq 1 .. n, S # {}
  PROVE  \E i \in S : \A j \in S : j <= i
<1> DEFINE Less == {ss \in Nat \X Nat : ss[1] < ss[2]}
           Gaps == {n - i : i \in S}
<1>1. IsWellFoundedOn(Less, Nat)
  BY NatLessThanWellFounded DEF OpToRel
<1>2. Gaps \subseteq Nat /\ Gaps # {}
  <2>1. \A i \in S : n - i \in Nat
    OBVIOUS
  <2>2. PICK i \in S : TRUE
    OBVIOUS
  <2>3. n - i \in Gaps
    OBVIOUS
  <2> QED  BY <2>1, <2>3
<1>3. PICK g \in Gaps : \A h \in Gaps : <<h, g>> \notin Less
  <2> HIDE DEF Less, Gaps
  <2> QED  BY <1>1, <1>2, WFMin
<1>4. \A h \in Gaps : ~ (h < g)
  BY <1>2, <1>3
<1>5. PICK i \in S : g = n - i
  OBVIOUS
<1>6. \A j \in S : j <= i
  BY <1>4, <1>5
<1> QED  BY <1>6

\* What parse_traj_jsonl returns ends with the file's last line.
LEMMA CountedIsEval ==
  ASSUME TypeOK
  PROVE  Counted => EvalLast /\ Last(LatestRun) = traj[Len(traj)]
<1> SUFFICES ASSUME Counted PROVE EvalLast /\ Last(LatestRun) = traj[Len(traj)]
  OBVIOUS
<1>1. traj \in Seq(Lines) /\ Len(traj) \in Nat \ {0} /\ DOMAIN traj = 1 .. Len(traj)
  BY DEF TypeOK, Counted
<1> DEFINE inits == {i \in DOMAIN traj : traj[i].kind = "init"}
<1>2. CASE inits = {}
  BY <1>2 DEF Counted, LatestRun, Last, EvalLast
<1>3. CASE inits # {}
  <2>1. LatestRun = SubSeq(traj, CHOOSE i \in inits : \A j \in inits : j <= i, Len(traj))
    BY <1>3 DEF LatestRun
  <2>2. PICK i \in inits : \A j \in inits : j <= i
    <3>1. inits \subseteq 1 .. Len(traj)
      BY <1>1
    <3> HIDE DEF inits
    <3> QED  BY <1>1, <1>3, <3>1, LargestIn
  <2> DEFINE first == CHOOSE k \in inits : \A j \in inits : j <= k
  <2>3. first \in inits
    <3> HIDE DEF inits
    <3> QED  BY <2>2
  <2>4. first \in 1 .. Len(traj) /\ LatestRun = SubSeq(traj, first, Len(traj))
    BY <1>1, <2>1, <2>3
  <2> HIDE DEF first, inits
  <2>5. LatestRun[Len(LatestRun)] = traj[Len(traj)]
    BY <1>1, <2>4
  <2> QED  BY <2>5 DEF Counted, Last, EvalLast
<1> QED  BY <1>2, <1>3

\* get_index.py finds the records of a run that are the end of the file, and
\* only these.
LEMMA LatestIsWhole ==
  ASSUME TypeOK, EvalLast, NEW r, NEW c \in Nat, NEW m \in Nat, m > 0,
         StoryAt(traj, r, c, m, Len(traj) - 1)
  PROVE  /\ Len(LatestRun) = m + 2 /\ DOMAIN LatestRun = 1 .. m + 2
         /\ LatestRun[1] = Rec(r, "init", 0)
         /\ \A j \in 1 .. m : LatestRun[j + 1] = Rec(r, IF j > c THEN "stop" ELSE "step", j)
         /\ LatestRun[m + 2] = traj[Len(traj)]
<1> DEFINE first == Len(traj) - 1 - m
<1>1. /\ traj \in Seq(Lines) /\ Len(traj) \in Nat /\ DOMAIN traj = 1 .. Len(traj)
  BY DEF TypeOK
<1>2. /\ traj[Len(traj)].kind = "eval" /\ Len(traj) - 1 > m
      /\ traj[first] = Rec(r, "init", 0)
      /\ \A j \in 1 .. m : traj[first + j] = Rec(r, IF j > c THEN "stop" ELSE "step", j)
  BY DEF EvalLast, StoryAt
<1>3. first \in 1 .. Len(traj)
  BY <1>1, <1>2
<1>4. ASSUME NEW i \in DOMAIN traj, traj[i].kind = "init"
      PROVE  i <= first
  <2>1. i # Len(traj)
    BY <1>2, <1>4
  <2>2. ~ (i > first)
    <3> SUFFICES ASSUME i > first PROVE FALSE
      OBVIOUS
    <3>1. i - first \in 1 .. m /\ first + (i - first) = i
      BY <1>1, <1>3, <2>1
    <3>2. traj[i] = Rec(r, IF i - first > c THEN "stop" ELSE "step", i - first)
      BY <1>2, <3>1
    <3> QED  BY <1>4, <3>2 DEF Rec
  <2> QED  BY <1>1, <1>3, <2>2
<1> DEFINE inits == {i \in DOMAIN traj : traj[i].kind = "init"}
<1>5. first \in inits /\ \A j \in inits : j <= first
  BY <1>1, <1>2, <1>3, <1>4 DEF Rec
<1>6. (CHOOSE i \in inits : \A j \in inits : j <= i) = first
  <2>1. \A i \in inits : (\A j \in inits : j <= i) => i = first
    BY <1>1, <1>5
  <2> HIDE DEF inits, first
  <2> QED  BY <1>5, <2>1
<1>7. LatestRun = SubSeq(traj, first, Len(traj))
  <2>1. inits # {}
    BY <1>5
  <2>2. LatestRun = IF inits = {} THEN traj
                    ELSE SubSeq(traj, CHOOSE i \in inits : \A j \in inits : j <= i, Len(traj))
    BY DEF LatestRun
  <2> HIDE DEF inits, first
  <2> QED  BY <1>6, <2>1, <2>2
<1>8. /\ Len(SubSeq(traj, first, Len(traj))) = Len(traj) - first + 1
      /\ DOMAIN SubSeq(traj, first, Len(traj)) = 1 .. Len(traj) - first + 1
      /\ \A i \in 1 .. Len(traj) - first + 1 :
           SubSeq(traj, first, Len(traj))[i] = traj[first + i - 1]
  <2> HIDE DEF first
  <2> QED  BY <1>1, <1>3
<1>9. Len(traj) - first + 1 = m + 2 /\ first + (m + 2) - 1 = Len(traj) /\ first + 1 - 1 = first
  BY <1>1
<1> HIDE DEF first
<1>10. /\ Len(LatestRun) = m + 2 /\ DOMAIN LatestRun = 1 .. m + 2
       /\ \A i \in 1 .. m + 2 : LatestRun[i] = traj[first + i - 1]
  BY <1>7, <1>8, <1>9
<1>11. LatestRun[1] = traj[first] /\ LatestRun[m + 2] = traj[Len(traj)]
  <2>1. 1 \in 1 .. m + 2 /\ m + 2 \in 1 .. m + 2
    OBVIOUS
  <2> QED  BY <1>9, <1>10, <2>1
<1>12. ASSUME NEW j \in 1 .. m
       PROVE  LatestRun[j + 1] = traj[first + j]
  <2>1. j + 1 \in 1 .. m + 2 /\ first + (j + 1) - 1 = first + j
    BY <1>3
  <2> QED  BY <1>10, <2>1
<1> QED  BY <1>2, <1>10, <1>11, <1>12

\* An evaluation of a run that was alone ends what is counted.
LEMMA AloneIsWhole ==
  ASSUME RunInv, EvalLast, traj[Len(traj)].run \notin overlapped
  PROVE  LET e == traj[Len(traj)]
         IN  \E m \in {e.n, e.n + 1} :
               /\ m > 0 /\ m \in Nat /\ e.n \in Nat /\ e.kind = "eval"
               /\ Len(LatestRun) = m + 2 /\ DOMAIN LatestRun = 1 .. m + 2
               /\ LatestRun[1] = Rec(e.run, "init", 0)
               /\ \A j \in 1 .. m :
                    LatestRun[j + 1] = Rec(e.run, IF j > e.n THEN "stop" ELSE "step", j)
               /\ LatestRun[m + 2] = e
<1> DEFINE e == traj[Len(traj)]
<1>1. TypeOK /\ e.n \in Nat /\ e.kind = "eval"
  <2>1. TypeOK /\ traj \in Seq(Lines) /\ traj # <<>>
    BY DEF RunInv, TypeOK, EvalLast
  <2>2. e \in Lines
    BY <2>1
  <2>3. e.n \in 0 .. MaxSteps
    BY <2>2 DEF Lines
  <2> QED  BY <2>1, <2>3, RunAssumption DEF EvalLast
<1>2. PICK m \in {e.n, e.n + 1} : m > 0 /\ StoryAt(traj, e.run, e.n, m, Len(traj) - 1)
  BY DEF RunInv, EvalFacts, WholeAt
<1>3. m \in Nat
  BY <1>1
<1> HIDE DEF e
<1>4. /\ Len(LatestRun) = m + 2 /\ DOMAIN LatestRun = 1 .. m + 2
      /\ LatestRun[1] = Rec(e.run, "init", 0)
      /\ \A j \in 1 .. m : LatestRun[j + 1] = Rec(e.run, IF j > e.n THEN "stop" ELSE "step", j)
      /\ LatestRun[m + 2] = e
  BY <1>1, <1>2, <1>3, LatestIsWhole DEF e
<1> QED  BY <1>1, <1>2, <1>3, <1>4 DEF e

\* What the properties of TaskRun say follows from the invariant.
LEMMA RunImplies ==
  RunInv => TypeOK /\ CountedIsOneRun /\ CountedIsFinal /\ StepsTotal /\ LatestAloneCounted
<1> SUFFICES ASSUME RunInv
             PROVE  TypeOK /\ CountedIsOneRun /\ CountedIsFinal /\ StepsTotal /\ LatestAloneCounted
  OBVIOUS
<1> DEFINE e == traj[Len(traj)]
<1>1. TypeOK /\ (Counted => EvalLast /\ Last(LatestRun) = e)
  BY CountedIsEval DEF RunInv
<1>2. CountedIsFinal
  BY <1>1 DEF RunInv, EvalFacts, CountedIsFinal
<1>3. ASSUME EvalLast, e.run \notin overlapped
      PROVE  \E m \in {e.n, e.n + 1} :
               /\ m > 0 /\ m \in Nat /\ e.n \in Nat /\ e.kind = "eval"
               /\ Len(LatestRun) = m + 2 /\ DOMAIN LatestRun = 1 .. m + 2
               /\ LatestRun[1] = Rec(e.run, "init", 0)
               /\ \A j \in 1 .. m :
                    LatestRun[j + 1] = Rec(e.run, IF j > e.n THEN "stop" ELSE "step", j)
               /\ LatestRun[m + 2] = e
  BY <1>3, AloneIsWhole
<1>4. ASSUME CountedAlone
      PROVE  CountedIsOneRun /\ StepsTotal
  <2>1. EvalLast /\ Last(LatestRun) = e /\ e.run \notin overlapped
    BY <1>1, <1>4 DEF CountedAlone
  <2> HIDE DEF e
  <2>2. PICK m \in {e.n, e.n + 1} :
          /\ m > 0 /\ m \in Nat /\ e.n \in Nat /\ e.kind = "eval"
          /\ Len(LatestRun) = m + 2 /\ DOMAIN LatestRun = 1 .. m + 2
          /\ LatestRun[1] = Rec(e.run, "init", 0)
          /\ \A j \in 1 .. m :
               LatestRun[j + 1] = Rec(e.run, IF j > e.n THEN "stop" ELSE "step", j)
          /\ LatestRun[m + 2] = e
    BY <1>3, <2>1
  <2>3. ASSUME NEW i \in 2 .. m + 1
        PROVE  /\ LatestRun[i].kind = IF i - 1 > e.n THEN "stop" ELSE "step"
               /\ LatestRun[i].run = e.run /\ LatestRun[i].n = i - 1
    <3>1. i - 1 \in 1 .. m /\ (i - 1) + 1 = i
      BY <2>2
    <3>2. LatestRun[i] = Rec(e.run, IF i - 1 > e.n THEN "stop" ELSE "step", i - 1)
      BY <2>2, <3>1
    <3> QED  BY <3>2 DEF Rec
  <2>4. \A i \in DOMAIN LatestRun : LatestRun[i].run = Last(LatestRun).run
    <3> SUFFICES ASSUME NEW i \in 1 .. m + 2 PROVE LatestRun[i].run = e.run
      BY <2>1, <2>2
    <3>1. i = 1 \/ i = m + 2 \/ i \in 2 .. m + 1
      BY <2>2
    <3>2. LatestRun[1].run = e.run
      BY <2>2 DEF Rec
    <3> QED  BY <2>2, <2>3, <3>1, <3>2
  <2>5. Head(LatestRun).kind = "init"
    BY <2>2 DEF Rec
  <2>6. ASSUME NEW i \in 2 .. Len(LatestRun) - 1
        PROVE  /\ LatestRun[i].n = i - 1
               /\ \/ LatestRun[i].kind = "step"
                  \/ LatestRun[i].kind = "stop" /\ i = Len(LatestRun) - 1
    <3>1. i \in 2 .. m + 1 /\ (i - 1 > e.n => i = Len(LatestRun) - 1)
      BY <2>2
    <3> QED  BY <2>3, <3>1
  <2>7. CountedIsOneRun
    BY <2>4, <2>5, <2>6 DEF CountedIsOneRun
  <2>8. StepsTotal
    <3>1. /\ Len(LatestRun) - 1 = m + 1 /\ m + 1 \in 2 .. m + 1 /\ Len(LatestRun) - 2 = m
          /\ (m + 1) - 1 = m
      BY <2>2
    <3>2. LatestRun[Len(LatestRun) - 1].kind = IF m > e.n THEN "stop" ELSE "step"
      BY <2>3, <3>1
    <3>3. m = e.n + (IF m > e.n THEN 1 ELSE 0)
      BY <2>2
    <3> QED  BY <2>1, <3>1, <3>2, <3>3 DEF StepsTotal
  <2> QED  BY <2>7, <2>8
<1>5. CountedIsOneRun /\ StepsTotal
  BY <1>4 DEF CountedIsOneRun, StepsTotal
<1>6. LatestAloneCounted
  <2> SUFFICES ASSUME runs \in completed, runs \notin overlapped, torn = 0
               PROVE  Counted /\ Last(LatestRun).run = runs
    BY DEF LatestAloneCounted
  <2>1. EvalLast /\ e.run = runs
    BY DEF RunInv, CompletedFacts
  <2>2. PICK m \in {e.n, e.n + 1} :
          m > 0 /\ m \in Nat /\ e.kind = "eval" /\ Len(LatestRun) = m + 2 /\ LatestRun[m + 2] = e
    BY <1>3, <2>1
  <2> HIDE DEF e
  <2> QED  BY <2>1, <2>2 DEF Counted, EvalLast, Last
<1> QED  BY <1>1, <1>2, <1>5, <1>6

LEMMA TaskNextIsNext == TaskNext => [Next]_vars
<1> SUFFICES ASSUME TaskNext PROVE [Next]_vars
  OBVIOUS
<1>1. UNCHANGED vars \/ \E w \in Runners : Moves(w)
  BY MeAssumption DEF TaskNext, Begin, Record, Predict, Answered, Act, Fail, Die, Others, Moves
<1> QED  BY <1>1 DEF Next

LEMMA TaskIsRun == TaskSpec => Spec
<1>1. TaskInit => Init
  BY DEF TaskInit
<1>2. [TaskNext]_taskVars => [Next]_vars
  BY TaskNextIsNext DEF taskVars
<1> QED  BY <1>1, <1>2, PTL DEF TaskSpec, Spec

LEMMA RunInvariant == Spec => []RunInv
<1> QED  BY InitRun, RunStep, PTL DEF Spec

LEMMA TaskRunInvariant == TaskSpec => []RunInv
<1> QED  BY TaskIsRun, RunInvariant, PTL

\* What get_index.py counts of a task is one run, from its first record to its
\* last, whatever other runs left in the file, if no other run was under way
\* at the same time.
THEOREM OneRunCounted == TaskSpec => []CountedIsOneRun
<1> QED  BY TaskRunInvariant, RunImplies, PTL

\* A task that is counted has its result.txt, so no later launch lists it
\* again, whether or not its runs overlapped.
THEOREM CountedStays == TaskSpec => []CountedIsFinal
<1> QED  BY TaskRunInvariant, RunImplies, PTL

\* steps_total of a run that was alone is the number of its step records, less
\* the one that said DONE or FAIL.
THEOREM StepsAddUp == TaskSpec => []StepsTotal
<1> QED  BY TaskRunInvariant, RunImplies, PTL

\* The latest run, once it came to its end alone, is what is counted, unless a
\* line was cut off.
THEOREM FinishedIsCounted == TaskSpec => []LatestAloneCounted
<1> QED  BY TaskRunInvariant, RunImplies, PTL

-----------------------------------------------------------------------------

MomentAt(j) == [run |-> run[Me], step |-> j]

AgentTypeOK ==
  /\ limit \in Lengths
  /\ phase \in {"idle", "asking", "acting"}
  /\ observations \in Seq(Moments) /\ answers \in Seq(Moments)
  /\ obs \in Moments
  /\ prompt \in [pairs : Seq(Moments \X Moments), now : Moments]

\* While a step is taken the histories hold every moment of the run so far.
HistoryFacts ==
  /\ pc[Me] # "step" => phase = "idle"
  /\ pc[Me] = "init" => observations = <<>> /\ answers = <<>> /\ obs = MomentAt(0)
  /\ pc[Me] = "step" =>
       /\ Len(observations) = IF phase = "idle" THEN step[Me] - 1 ELSE step[Me]
       /\ Len(answers) = IF phase = "acting" THEN step[Me] ELSE step[Me] - 1
       /\ obs = MomentAt(step[Me] - 1)
       /\ \A i \in 1 .. Len(observations) : observations[i] = MomentAt(i - 1)
       /\ \A i \in 1 .. Len(answers) : answers[i] = MomentAt(i)

TaskInv == RunInv /\ AgentTypeOK /\ HistoryFacts /\ PromptIsStory

LEMMA MomentType ==
  ASSUME NEW r \in 0 .. MaxRuns, NEW j \in 0 .. MaxSteps
  PROVE  [run |-> r, step |-> j] \in Moments
BY DEF Moments

\* The followed process stays where it is.
Stays == pc'[Me] = pc[Me] /\ run'[Me] = run[Me] /\ step'[Me] = step[Me]

\* What each of its moves does to its own variables.
LEMMA MyMoves ==
  ASSUME RunInv
  PROVE  /\ Start(Me) => pc'[Me] = "init" /\ run'[Me] \in 0 .. MaxRuns
         /\ WriteInit(Me) => /\ pc[Me] = "init" /\ pc'[Me] = "step"
                             /\ run'[Me] = run[Me] /\ step'[Me] = step[Me] /\ step[Me] = 1
         /\ List(Me) \/ Evaluate(Me) \/ WriteResult(Me) \/ WriteRecord(Me) =>
              pc[Me] # "step" /\ pc'[Me] \notin {"init", "step"}
         /\ Step(Me) => /\ pc[Me] = "step" /\ pc'[Me] \in {"step", "evaluate"}
                        /\ run'[Me] = run[Me]
                        /\ (pc'[Me] = "step" => step'[Me] = step[Me] + 1)
         /\ Ends(Me) => pc'[Me] = "idle"
<1> USE MeAssumption, RunAssumption
<1>1. TypeOK /\ CounterFacts(Me)
  BY DEF RunInv
<1>2. ASSUME Start(Me) PROVE pc'[Me] = "init" /\ run'[Me] \in 0 .. MaxRuns
  BY <1>1, <1>2 DEF Start, Goes, TypeOK
<1>3. ASSUME WriteInit(Me)
      PROVE  /\ pc[Me] = "init" /\ pc'[Me] = "step"
             /\ run'[Me] = run[Me] /\ step'[Me] = step[Me] /\ step[Me] = 1
  BY <1>1, <1>3 DEF WriteInit, Goes, TypeOK, local, CounterFacts
<1>4. ASSUME List(Me) \/ Evaluate(Me) \/ WriteResult(Me) \/ WriteRecord(Me)
      PROVE  pc[Me] # "step" /\ pc'[Me] \notin {"init", "step"}
  BY <1>1, <1>4 DEF List, Evaluate, WriteResult, WriteRecord, Ends, Goes, TypeOK
<1>5. ASSUME Step(Me)
      PROVE  /\ pc[Me] = "step" /\ pc'[Me] \in {"step", "evaluate"} /\ run'[Me] = run[Me]
             /\ (pc'[Me] = "step" => step'[Me] = step[Me] + 1)
  <2>1. PICK terminated \in BOOLEAN :
          /\ terminated \/ step' = [step EXCEPT ![Me] = @ + 1]
          /\ Goes(Me, IF terminated \/ LoopEnds(step'[Me]) THEN "evaluate" ELSE "step")
    BY <1>5 DEF Step
  <2>2. pc'[Me] = IF terminated \/ LoopEnds(step'[Me]) THEN "evaluate" ELSE "step"
    BY <1>1, <2>1 DEF Goes, TypeOK
  <2>3. terminated \/ step'[Me] = step[Me] + 1
    BY <1>1, <2>1 DEF TypeOK
  <2> QED  BY <1>5, <2>2, <2>3 DEF Step
<1>6. ASSUME Ends(Me) PROVE pc'[Me] = "idle"
  BY <1>1, <1>6 DEF Ends, Goes, TypeOK
<1> QED  BY <1>2, <1>3, <1>4, <1>5, <1>6

\* The moves of the others leave it alone.
LEMMA OthersStay ==
  ASSUME TypeOK, NEW w \in Runners \ {Me}, Moves(w)
  PROVE  Stays
<1> USE MeAssumption
<1>1. pc'[Me] = pc[Me]
  BY DEF TypeOK, Moves, List, Start, WriteInit, Step, Evaluate, WriteResult, WriteRecord,
         Raise, Exit, CutOff, Ends, Goes
<1>2. run'[Me] = run[Me]
  BY DEF TypeOK, Moves, List, Start, WriteInit, Step, Evaluate, WriteResult, WriteRecord,
         Raise, Exit, CutOff, Ends, local
<1>3. step'[Me] = step[Me]
  BY DEF TypeOK, Moves, List, Start, WriteInit, Step, Evaluate, WriteResult, WriteRecord,
         Raise, Exit, CutOff, Ends, local
<1> QED  BY <1>1, <1>2, <1>3 DEF Stays

LEMMA NoPromptType ==
  NoPrompt \in [pairs : Seq(Moments \X Moments), now : Moments] /\ NoPrompt.now \in Moments
<1>1. [run |-> 0, step |-> 0] \in Moments
  BY RunAssumption, MomentType
<1> QED  BY <1>1 DEF NoPrompt

LEMMA InitTask == TaskInit => TaskInv
<1> SUFFICES ASSUME TaskInit PROVE TaskInv
  OBVIOUS
<1>1. RunInv /\ pc[Me] = "idle" /\ phase = "idle"
  BY InitRun, MeAssumption DEF TaskInit, Init, AgentInit
<1>2. AgentTypeOK
  BY NoPromptType DEF TaskInit, AgentInit, AgentTypeOK
<1>3. HistoryFacts /\ PromptIsStory
  BY <1>1 DEF HistoryFacts, PromptIsStory
<1> QED  BY <1>1, <1>2, <1>3 DEF TaskInv

\* A step that leaves predict() idle has no prompt to answer for.
LEMMA IdleHasNoPrompt == phase' = "idle" => PromptIsStory'
BY DEF PromptIsStory

LEMMA BeginKeeps ==
  ASSUME TaskInv, Begin
  PROVE  AgentTypeOK' /\ HistoryFacts' /\ PromptIsStory'
<1>1. /\ pc'[Me] = "init" /\ run'[Me] \in 0 .. MaxRuns
      /\ observations' = <<>> /\ answers' = <<>> /\ obs' = [run |-> run'[Me], step |-> 0]
      /\ phase' = "idle" /\ UNCHANGED <<limit, prompt>>
  <2>1. pc'[Me] = "init" /\ run'[Me] \in 0 .. MaxRuns
    BY MyMoves DEF TaskInv, Begin
  <2> QED  BY <2>1 DEF Begin, ResetAgent
<1>2. obs' \in Moments /\ Moments' = Moments
  BY <1>1, MomentType, RunAssumption DEF Moments
<1>3. AgentTypeOK'
  BY <1>1, <1>2 DEF TaskInv, AgentTypeOK
<1>4. HistoryFacts'
  BY <1>1 DEF HistoryFacts, MomentAt
<1> QED  BY <1>1, <1>3, <1>4, IdleHasNoPrompt

LEMMA RecordKeeps ==
  ASSUME TaskInv, Record
  PROVE  AgentTypeOK' /\ HistoryFacts' /\ PromptIsStory'
<1>1. UNCHANGED agent /\ phase = "idle"
  <2>1. pc[Me] # "step"
    BY MyMoves DEF TaskInv, Record
  <2> QED  BY <2>1 DEF TaskInv, HistoryFacts, Record
<1>2. AgentTypeOK'
  BY <1>1 DEF TaskInv, AgentTypeOK, agent, Moments
<1>3. HistoryFacts'
  <2>1. CASE WriteInit(Me)
    BY <1>1, <2>1, MyMoves DEF TaskInv, HistoryFacts, agent, MomentAt
  <2>2. CASE List(Me) \/ Evaluate(Me) \/ WriteResult(Me) \/ WriteRecord(Me)
    BY <1>1, <2>2, MyMoves DEF TaskInv, HistoryFacts, agent
  <2> QED  BY <2>1, <2>2 DEF Record
<1>4. PromptIsStory'
  BY <1>1, IdleHasNoPrompt DEF agent
<1> QED  BY <1>2, <1>3, <1>4

\* The window onto the two histories, when they are of one length.
LEMMA PairsOfWindow ==
  ASSUME NEW S, NEW s \in Seq(S), NEW t \in Seq(S), Len(s) = Len(t), limit \in Nat
  PROVE  LET n == IF Len(s) < limit THEN Len(s) ELSE limit
             p == Pairs(Window(s), Window(t))
         IN  /\ p \in Seq(S \X S) /\ Len(p) = n
             /\ \A i \in 1 .. n : p[i] = <<s[Len(s) - n + i], t[Len(s) - n + i]>>
             /\ \A i \in 1 .. n : Len(s) - n + i \in 1 .. Len(s)
<1> DEFINE n == IF Len(s) < limit THEN Len(s) ELSE limit
<1>1. Len(s) \in Nat /\ n \in Nat /\ n <= Len(s)
  OBVIOUS
<1>2. \A i \in 1 .. n : Len(s) - n + i \in 1 .. Len(s)
  BY <1>1
<1>3. ASSUME NEW u \in Seq(S), Len(u) = Len(s)
      PROVE  /\ Window(u) \in Seq(S) /\ Len(Window(u)) = n
             /\ \A i \in 1 .. n : Window(u)[i] = u[Len(s) - n + i]
  <2>1. CASE Len(u) <= limit
    <3>1. Window(u) = u /\ n = Len(s)
      BY <1>1, <1>3, <2>1 DEF Window
    <3> HIDE DEF n
    <3> QED  BY <1>1, <1>3, <3>1
  <2>2. CASE ~ (Len(u) <= limit)
    <3>1. Window(u) = SubSeq(u, Len(u) - limit + 1, Len(u)) /\ n = limit
      BY <1>1, <1>3, <2>2 DEF Window
    <3>2. Len(u) - limit + 1 \in 1 .. Len(u) + 1 /\ Len(u) \in Nat
      BY <1>1, <1>3, <2>2
    <3> HIDE DEF n
    <3>3. /\ SubSeq(u, Len(u) - limit + 1, Len(u)) \in Seq(S)
          /\ Len(SubSeq(u, Len(u) - limit + 1, Len(u))) = limit
          /\ \A i \in 1 .. limit :
               SubSeq(u, Len(u) - limit + 1, Len(u))[i] = u[Len(u) - limit + i]
      BY <1>3, <3>2
    <3> QED  BY <1>3, <3>1, <3>3
  <2> QED  BY <2>1, <2>2
<1> HIDE DEF n
<1>4. /\ Window(s) \in Seq(S) /\ Len(Window(s)) = n /\ Window(t) \in Seq(S) /\ Len(Window(t)) = n
      /\ \A i \in 1 .. n : Window(s)[i] = s[Len(s) - n + i]
      /\ \A i \in 1 .. n : Window(t)[i] = t[Len(s) - n + i]
  BY <1>3
<1>5. Pairs(Window(s), Window(t)) = [i \in 1 .. n |-> <<Window(s)[i], Window(t)[i]>>]
  BY <1>1, <1>4 DEF Pairs
<1>6. \A i \in 1 .. n : <<Window(s)[i], Window(t)[i]>> \in S \X S
  BY <1>4
<1>7. /\ Pairs(Window(s), Window(t)) \in Seq(S \X S)
      /\ Len(Pairs(Window(s), Window(t))) = n
      /\ \A i \in 1 .. n : Pairs(Window(s), Window(t))[i] = <<Window(s)[i], Window(t)[i]>>
  BY <1>1, <1>5, <1>6
<1> QED  BY <1>2, <1>4, <1>7 DEF n

LEMMA PredictKeeps ==
  ASSUME TaskInv, Predict
  PROVE  AgentTypeOK' /\ HistoryFacts' /\ PromptIsStory'
<1>1. /\ pc[Me] = "step" /\ UNCHANGED <<pc, run, step>>
      /\ phase = "idle" /\ phase' = "asking"
      /\ prompt' = [pairs |-> Pairs(Window(observations), Window(answers)), now |-> obs]
      /\ observations' = Append(observations, obs)
      /\ UNCHANGED <<limit, answers, obs>>
  BY DEF Predict, Ask, vars
<1>2. /\ observations \in Seq(Moments) /\ answers \in Seq(Moments) /\ obs \in Moments
      /\ limit \in Nat /\ step[Me] \in 1 .. MaxSteps + 1
      /\ step[Me] \in Nat
  BY HistoryAssumption, RunAssumption, MeAssumption DEF TaskInv, AgentTypeOK, RunInv, TypeOK
<1>3. /\ Len(observations) = step[Me] - 1 /\ Len(answers) = step[Me] - 1
      /\ obs = MomentAt(step[Me] - 1)
      /\ \A i \in 1 .. Len(observations) : observations[i] = MomentAt(i - 1)
      /\ \A i \in 1 .. Len(answers) : answers[i] = MomentAt(i)
  BY <1>1 DEF TaskInv, HistoryFacts
<1> DEFINE n == IF step[Me] - 1 < limit THEN step[Me] - 1 ELSE limit
           p == Pairs(Window(observations), Window(answers))
<1>4. /\ p \in Seq(Moments \X Moments) /\ Len(p) = n
      /\ \A i \in 1 .. n : p[i] = <<observations[step[Me] - 1 - n + i], answers[step[Me] - 1 - n + i]>>
      /\ \A i \in 1 .. n : step[Me] - 1 - n + i \in 1 .. step[Me] - 1
  <2>1. Len(observations) = Len(answers)
    BY <1>3
  <2>2. LET m == IF Len(observations) < limit THEN Len(observations) ELSE limit
        IN  /\ p \in Seq(Moments \X Moments) /\ Len(p) = m
            /\ \A i \in 1 .. m :
                 p[i] = <<observations[Len(observations) - m + i], answers[Len(observations) - m + i]>>
            /\ \A i \in 1 .. m : Len(observations) - m + i \in 1 .. Len(observations)
    BY <1>2, <2>1, PairsOfWindow
  <2> HIDE DEF p
  <2> QED  BY <1>3, <2>2
<1>5. \A j : MomentAt(j)' = MomentAt(j)
  BY <1>1 DEF MomentAt
<1>6. AgentTypeOK'
  <2>1. prompt' \in [pairs : Seq(Moments \X Moments), now : Moments]
    <3> HIDE DEF p
    <3> QED  BY <1>1, <1>2, <1>4 DEF p
  <2>2. observations' \in Seq(Moments)
    BY <1>1, <1>2
  <2>3. Moments' = Moments
    BY DEF Moments
  <2> QED  BY <1>1, <1>2, <2>1, <2>2, <2>3 DEF TaskInv, AgentTypeOK
<1>7. HistoryFacts'
  <2>1. /\ Len(observations') = step[Me]
        /\ \A i \in 1 .. step[Me] : observations'[i] = MomentAt(i - 1)
    BY <1>1, <1>2, <1>3, AppendFacts
  <2> QED  BY <1>1, <1>3, <1>5, <2>1 DEF HistoryFacts
<1>8. PromptIsStory'
  <2>1. prompt'.pairs = p /\ prompt'.now = MomentAt(step[Me] - 1)
    <3> HIDE DEF p
    <3> QED  BY <1>1, <1>3 DEF p
  <2>2. ASSUME NEW i \in 1 .. n
        PROVE  p[i] = <<MomentAt(step[Me] - 1 - n + i - 1), MomentAt(step[Me] - 1 - n + i)>>
    <3>0. n \in Nat /\ i \in Nat
      BY <1>2
    <3> HIDE DEF n, p
    <3>1. PICK k \in 1 .. step[Me] - 1 : k = step[Me] - 1 - n + i
      BY <1>4
    <3>2. p[i] = <<observations[k], answers[k]>>
      BY <1>4, <3>1
    <3>3. observations[k] = MomentAt(k - 1) /\ answers[k] = MomentAt(k)
      BY <1>3
    <3>4. step[Me] - 1 - n + i = k /\ step[Me] - 1 - n + i - 1 = k - 1
      BY <1>2, <3>0, <3>1
    <3>5. p[i] = <<MomentAt(k - 1), MomentAt(k)>>
      BY <3>2, <3>3
    <3> QED  BY <3>4, <3>5, Zenon
  <2>3. Len(prompt'.pairs) = n
    BY <1>4, <2>1
  <2> HIDE DEF p
  <2>4. step' = step /\ run' = run /\ limit' = limit
    BY <1>1
  <2> QED  BY <2>1, <2>2, <2>3, <2>4 DEF PromptIsStory, MomentAt
<1> QED  BY <1>6, <1>7, <1>8

LEMMA AnsweredKeeps ==
  ASSUME TaskInv, Answered
  PROVE  AgentTypeOK' /\ HistoryFacts' /\ PromptIsStory'
<1>1. /\ pc[Me] = "step" /\ UNCHANGED <<pc, run, step>>
      /\ phase = "asking" /\ phase' = "acting"
      /\ answers' = Append(answers, MomentAt(step[Me]))
      /\ UNCHANGED <<limit, observations, obs, prompt>>
  BY DEF Answered, Answer, vars, MomentAt
<1>2. answers \in Seq(Moments) /\ step[Me] \in 1 .. MaxSteps /\ run[Me] \in 0 .. MaxRuns /\ step[Me] \in Nat
  BY <1>1, RunAssumption, MeAssumption DEF TaskInv, AgentTypeOK, RunInv, TypeOK, CounterFacts
<1>3. MomentAt(step[Me]) \in Moments /\ Moments' = Moments
  BY <1>2, MomentType DEF MomentAt, Moments
<1>4. \A j : MomentAt(j)' = MomentAt(j)
  BY <1>1 DEF MomentAt
<1>5. AgentTypeOK'
  <2>1. answers' \in Seq(Moments)
    BY <1>1, <1>2, <1>3
  <2> QED  BY <1>1, <1>3, <2>1 DEF TaskInv, AgentTypeOK
<1>6. HistoryFacts'
  <2>1. /\ Len(observations) = step[Me] /\ Len(answers) = step[Me] - 1 /\ obs = MomentAt(step[Me] - 1)
        /\ \A i \in 1 .. Len(observations) : observations[i] = MomentAt(i - 1)
        /\ \A i \in 1 .. Len(answers) : answers[i] = MomentAt(i)
    BY <1>1 DEF TaskInv, HistoryFacts
  <2>2. /\ Len(answers') = step[Me]
        /\ \A i \in 1 .. step[Me] : answers'[i] = MomentAt(i)
    BY <1>1, <1>2, <1>3, <2>1, AppendFacts
  <2> QED  BY <1>1, <1>4, <2>1, <2>2 DEF HistoryFacts
<1>7. PromptIsStory'
  BY <1>1 DEF TaskInv, PromptIsStory
<1> QED  BY <1>5, <1>6, <1>7

LEMMA ActKeeps ==
  ASSUME TaskInv, Act
  PROVE  AgentTypeOK' /\ HistoryFacts' /\ PromptIsStory'
<1>1. /\ pc[Me] = "step" /\ pc'[Me] \in {"step", "evaluate"} /\ run'[Me] = run[Me]
      /\ pc'[Me] = "step" => step'[Me] = step[Me] + 1
      /\ phase = "acting" /\ phase' = "idle"
      /\ obs' = MomentAt(step[Me]) /\ prompt' = NoPrompt
      /\ UNCHANGED <<limit, observations, answers>>
  <2>1. /\ pc[Me] = "step" /\ pc'[Me] \in {"step", "evaluate"} /\ run'[Me] = run[Me]
        /\ pc'[Me] = "step" => step'[Me] = step[Me] + 1
    BY MyMoves DEF TaskInv, Act
  <2> QED  BY <2>1 DEF Act, Observe, MomentAt
<1>2. step[Me] \in 1 .. MaxSteps /\ run[Me] \in 0 .. MaxRuns /\ step[Me] \in Nat
  BY <1>1, RunAssumption, MeAssumption DEF TaskInv, RunInv, TypeOK, CounterFacts
<1>3. MomentAt(step[Me]) \in Moments /\ Moments' = Moments
  BY <1>2, MomentType DEF MomentAt, Moments
<1>4. \A j : MomentAt(j)' = MomentAt(j)
  BY <1>1 DEF MomentAt
<1>5. AgentTypeOK'
  BY <1>1, <1>3, NoPromptType DEF TaskInv, AgentTypeOK
<1>6. HistoryFacts'
  <2>1. /\ Len(observations) = step[Me] /\ Len(answers) = step[Me]
        /\ \A i \in 1 .. Len(observations) : observations[i] = MomentAt(i - 1)
        /\ \A i \in 1 .. Len(answers) : answers[i] = MomentAt(i)
    BY <1>1 DEF TaskInv, HistoryFacts
  <2>2. pc'[Me] = "step" => step'[Me] - 1 = step[Me]
    BY <1>1, <1>2
  <2> QED  BY <1>1, <1>4, <2>1, <2>2 DEF HistoryFacts
<1>7. PromptIsStory'
  BY <1>1, IdleHasNoPrompt
<1> QED  BY <1>5, <1>6, <1>7

LEMMA FailKeeps ==
  ASSUME TaskInv, Fail \/ Die
  PROVE  AgentTypeOK' /\ HistoryFacts' /\ PromptIsStory'
<1>1. /\ pc'[Me] = "idle" /\ phase' = "idle" /\ limit' = limit
      /\ obs' = NoPrompt.now /\ prompt' = NoPrompt
      /\ \/ UNCHANGED <<observations, answers>>
         \/ observations' = <<>> /\ answers' = <<>>
  <2>1. pc'[Me] = "idle"
    BY MyMoves DEF TaskInv, Fail, Die, Raise, Exit, CutOff
  <2> QED  BY <2>1 DEF Fail, Die, GiveUp, ForgetAll
<1>2. AgentTypeOK'
  <2>1. Moments' = Moments
    BY DEF Moments
  <2>2. observations' \in Seq(Moments) /\ answers' \in Seq(Moments)
    <3>1. observations \in Seq(Moments) /\ answers \in Seq(Moments) /\ <<>> \in Seq(Moments)
      BY DEF TaskInv, AgentTypeOK
    <3> QED  BY <1>1, <3>1
  <2> QED  BY <1>1, <2>1, <2>2, NoPromptType DEF TaskInv, AgentTypeOK
<1>3. HistoryFacts'
  BY <1>1 DEF HistoryFacts
<1> QED  BY <1>1, <1>2, <1>3, IdleHasNoPrompt

\* Neither this process nor its agent moves.
LEMMA StaysKeeps ==
  ASSUME TaskInv, Stays, UNCHANGED agent
  PROVE  AgentTypeOK' /\ HistoryFacts' /\ PromptIsStory'
<1>1. UNCHANGED <<limit, phase, observations, answers, obs, prompt>>
  BY DEF agent
<1>2. AgentTypeOK'
  BY <1>1 DEF TaskInv, AgentTypeOK, Moments
<1>3. HistoryFacts'
  BY <1>1 DEF TaskInv, HistoryFacts, MomentAt, Stays
<1>4. PromptIsStory'
  BY <1>1 DEF TaskInv, PromptIsStory, Stays
<1> QED  BY <1>2, <1>3, <1>4

LEMMA TaskStep == TaskInv /\ [TaskNext]_taskVars => TaskInv'
<1> SUFFICES ASSUME TaskInv, [TaskNext]_taskVars PROVE TaskInv'
  OBVIOUS
<1>1. CASE TaskNext
  <2>1. [Next]_vars
    BY <1>1, TaskNextIsNext
  <2>2. RunInv'
    BY <2>1, RunStep DEF TaskInv
  <2>3. ASSUME Others PROVE AgentTypeOK' /\ HistoryFacts' /\ PromptIsStory'
    <3>1. PICK w \in Runners \ {Me} : Moves(w)
      BY <2>3 DEF Others
    <3>2. Stays /\ UNCHANGED agent
      BY <2>3, <3>1, OthersStay DEF TaskInv, RunInv, Others
    <3> QED  BY <3>2, StaysKeeps
  <2> QED  BY <1>1, <2>2, <2>3, BeginKeeps, RecordKeeps, PredictKeeps, AnsweredKeeps, ActKeeps,
              FailKeeps DEF TaskNext, TaskInv
<1>2. CASE UNCHANGED taskVars
  <2>1. UNCHANGED vars /\ UNCHANGED agent
    BY <1>2 DEF taskVars
  <2>2. RunInv'
    BY <2>1, RunStep DEF TaskInv
  <2>3. Stays
    BY <2>1 DEF vars, Stays
  <2> QED  BY <2>1, <2>2, <2>3, StaysKeeps DEF TaskInv
<1> QED  BY <1>1, <1>2

LEMMA TaskInvariant == TaskSpec => []TaskInv
<1> QED  BY InitTask, TaskStep, PTL DEF TaskSpec

\* Types, for every number of steps and runs and every length of the memory.
THEOREM TaskTypeCorrect == TaskSpec => []TaskTypeOK
<1>1. TaskInv => TaskTypeOK
  BY DEF TaskInv, RunInv, AgentTypeOK, TaskTypeOK
<1> QED  BY <1>1, TaskInvariant, PTL

\* The assertion of predict() holds whenever a step begins, whatever ended the
\* runs before.
THEOREM HistoriesAlwaysAgree == TaskSpec => []HistoriesAgree
<1>1. TaskInv => HistoriesAgree
  BY DEF TaskInv, HistoryFacts, HistoriesAgree, LengthsAgree
<1> QED  BY <1>1, TaskInvariant, PTL

\* The model is shown the last max_trajectory_length moments of this run.
THEOREM ModelSeesStory == TaskSpec => []PromptIsStory
<1>1. TaskInv => PromptIsStory
  BY DEF TaskInv
<1> QED  BY <1>1, TaskInvariant, PTL
=============================================================================
