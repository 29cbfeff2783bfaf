------------------------- MODULE RemoteScriptProofs -------------------------
(***************************************************************************)
(* What runs on a machine, for any number of steps, chunks and attempts.   *)
(***************************************************************************)
EXTENDS RemoteScript, SequenceTheorems, TLAPS

\* The chunks of a script in order.
LEMMA PartType ==
  ASSUME NEW k \in 0 .. Steps, NEW n \in 0 .. Chunks
  PROVE  Part(k, n) \in ScriptContents
BY ScriptAssumption DEF Part, ScriptContents, Chunk

LEMMA PartOne == ASSUME NEW k \in Nat PROVE <<Chunk(k, 1)>> = Part(k, 1)
BY DEF Part, Chunk

LEMMA PartGrows ==
  ASSUME NEW k \in Nat, NEW n \in Nat
  PROVE  Append(Part(k, n), Chunk(k, n + 1)) = Part(k, n + 1)
BY DEF Part, Chunk

LEMMA NoScript == <<>> \in ScriptContents
BY EmptySeq DEF ScriptContents

\* A chunk that is written leaves a sequence of chunks.
LEMMA WrittenType ==
  ASSUME script \in ScriptContents, NEW chunk \in [of : 0 .. Steps, i : 1 .. Chunks]
  PROVE  Written(chunk) \in ScriptContents
<1> DEFINE S == [of : 0 .. Steps, i : 1 .. Chunks]
<1>1. <<chunk>> \in Seq(S)
  <2> HIDE DEF S
  <2> SUFFICES ASSUME chunk \in S PROVE <<chunk>> \in Seq(S)
    BY DEF S
  <2> QED  BY EmptySeq, AppendProperties
<1>2. Append(script, chunk) \in Seq(S)
  <2> HIDE DEF S
  <2> SUFFICES ASSUME chunk \in S, script \in Seq(S) PROVE Append(script, chunk) \in Seq(S)
    BY DEF S, ScriptContents
  <2> QED  BY AppendProperties
<1> QED  BY <1>1, <1>2 DEF Written, ScriptContents

LEMMA ChunkType ==
  ASSUME NEW k \in 0 .. Steps, NEW n \in 1 .. Chunks
  PROVE  Chunk(k, n) \in [of : 0 .. Steps, i : 1 .. Chunks]
BY DEF Chunk

LEMMA ClientType ==
  ASSUME client \in Clients
  PROVE  /\ client.attempts \in Nat \ {0}
         /\ client.checked \in BOOLEAN
BY ScriptAssumption

-----------------------------------------------------------------------------

LEMMA InitScript == Init => ScriptInv
<1> SUFFICES ASSUME Init PROVE ScriptInv
  OBVIOUS
<1> USE ScriptAssumption
<1>1. Whole(0) \in ScriptContents
  BY PartType DEF Whole
<1>2. Leftover \in Processes
  BY <1>1 DEF Leftover, Processes
<1>3. Chunk(0, Chunks) \in [of : 0 .. Steps, i : 1 .. Chunks]
  BY DEF Chunk
<1>4. client.attempts \in Nat \ {0}
  BY DEF Init
<1>5. TypeOK
  <2>1. script \in ScriptContents /\ output \in [1 .. Steps -> ScriptContents]
    BY <1>1, NoScript DEF Init
  <2>2. copies \subseteq Processes /\ late \subseteq [of : 0 .. Steps, i : 1 .. Chunks]
    BY <1>2, <1>3 DEF Init
  <2>3. attempt \in 1 .. client.attempts
    BY <1>4 DEF Init
  <2>4. model \in NoModel .. Steps
    BY DEF Init, NoModel
  <2>5. acked = {} /\ lost = FALSE /\ sent = 0 /\ step = 1
    BY Zenon DEF Init
  <2>7. acked \subseteq 1 .. step /\ sent \in 0 .. Chunks /\ step \in 1 .. Steps
    BY <2>5
  <2>6. delayed \in BOOLEAN
    BY Zenon DEF Init
  <2> QED  BY <2>1, <2>2, <2>3, <2>4, <2>5, <2>6, <2>7 DEF Init, TypeOK
<1>6. \A c \in copies : c.step = 0
  BY DEF Init, Leftover
<1>7. StepOrder /\ OnlyAwaitedRuns /\ TestsArrive
  BY <1>6 DEF Init, StepOrder, OnlyAwaitedRuns, TestsArrive, OwnCopies, NoModel
<1>8. FileFollowsTransfer
  BY DEF Init, FileFollowsTransfer
<1> QED  BY <1>5, <1>7, <1>8 DEF ScriptInv

-----------------------------------------------------------------------------
(***************************************************************************)
(* One lemma per action that changes more than pc.                         *)
(***************************************************************************)

LEMMA NextAttemptType ==
  ASSUME TypeOK, NextAttempt, UNCHANGED client
  PROVE  /\ attempt' \in 1 .. client.attempts
         /\ pc' \in {"execute", "observe", "exited"}
BY ClientType DEF TypeOK, NextAttempt, OnFailure

LEMMA ResetStep == ScriptInv /\ Reset => ScriptInv'
<1> SUFFICES ASSUME ScriptInv, Reset PROVE ScriptInv'
  OBVIOUS
<1>1. TypeOK'
  BY NoScript, ScriptAssumption DEF ScriptInv, TypeOK, Reset, dialogue, NoModel
<1>2. StepOrder' /\ OnlyAwaitedRuns' /\ FileFollowsTransfer' /\ TestsArrive'
  BY DEF ScriptInv, TypeOK, StepOrder, OnlyAwaitedRuns, FileFollowsTransfer, TestsArrive,
     OwnCopies, Awaited, Reset, dialogue, NoModel
<1> QED  BY <1>1, <1>2 DEF ScriptInv

LEMMA SendChunkStep == ScriptInv /\ SendChunk => ScriptInv'
<1> SUFFICES ASSUME ScriptInv, SendChunk PROVE ScriptInv'
  OBVIOUS
<1> USE ScriptAssumption
<1>0. /\ sent' = sent + 1 /\ sent \in 0 .. Chunks /\ sent < Chunks
      /\ step \in 1 .. Steps /\ step' = step
      /\ script' = Written(Chunk(step, sent + 1))
      /\ script \in ScriptContents
  BY DEF ScriptInv, TypeOK, SendChunk
<1>1. script' \in ScriptContents
  BY <1>0, WrittenType, ChunkType
<1>2. TypeOK'
  <2>1. acked' \subseteq 1 .. step'
    <3>1. acked \subseteq 1 .. step /\ acked' \in {acked, acked \cup {step}}
      BY DEF ScriptInv, TypeOK, SendChunk
    <3> QED  BY <1>0, <3>1
  <2>3. attempt' \in 1 .. client'.attempts
    BY ClientType DEF ScriptInv, TypeOK, SendChunk
  <2>2. sent' \in 0 .. Chunks /\ pc' \in {"send", "execute"}
        /\ (pc' = "send" => sent' < Chunks)
    BY <1>0 DEF SendChunk
  <2> QED  BY <1>0, <1>1, <2>1, <2>2, <2>3 DEF ScriptInv, TypeOK, SendChunk
<1>3. StepOrder' /\ OnlyAwaitedRuns' /\ TestsArrive'
  BY <1>0 DEF ScriptInv, TypeOK, StepOrder, OnlyAwaitedRuns, TestsArrive, OwnCopies, Awaited,
     SendChunk
<1>4. ASSUME ~ delayed PROVE script' = Part(step, sent + 1)
  <2>1. CASE sent = 0
    BY <1>0, <2>1, PartOne DEF Written, Chunk
  <2>2. CASE sent > 0
    <3>1. script = Part(step, sent)
      BY <1>4, <2>2 DEF ScriptInv, FileFollowsTransfer, SendChunk
    <3>2. Written(Chunk(step, sent + 1)) = Append(script, Chunk(step, sent + 1))
      BY <1>0, <2>2 DEF Written, Chunk
    <3>3. step \in Nat /\ sent \in Nat
      BY <1>0
    <3>4. Append(Part(step, sent), Chunk(step, sent + 1)) = Part(step, sent + 1)
      BY <3>3, PartGrows
    <3> QED  BY <1>0, <3>1, <3>2, <3>4
  <2> QED  BY <1>0, <2>1, <2>2
<1>5. FileFollowsTransfer'
  <2>1. SUFFICES ASSUME ~ delayed PROVE FileFollowsTransfer'
    BY DEF FileFollowsTransfer, SendChunk
  <2>2. output' = output /\ copies' = copies /\ late' = late
        /\ output[step] = <<>> /\ step \notin acked
        /\ (\A c \in copies : c.step < step)
        /\ acked' \in {acked, acked \cup {step}}
    BY DEF ScriptInv, StepOrder, SendChunk
  <2>3. \A k \in acked' : output'[k] \in {<<>>, Whole(k)}
    BY <2>1, <2>2 DEF ScriptInv, FileFollowsTransfer
  <2>4. \A c \in copies' : c.step \in acked' => c.script = Whole(c.step)
    <3> SUFFICES ASSUME NEW c \in copies, c.step \in acked'
                 PROVE  c.script = Whole(c.step)
      BY <2>2
    <3>1. c.step < step
      BY <2>2
    <3>2. c.step # step
      BY <3>1, <1>0 DEF ScriptInv, TypeOK, Processes
    <3> QED  BY <2>1, <2>2, <3>2 DEF ScriptInv, FileFollowsTransfer
  <2>5. pc' \in {"send", "execute"} /\ (pc' = "execute" => sent' = Chunks)
        /\ late' = {}
    BY <2>1, <2>2 DEF ScriptInv, FileFollowsTransfer, SendChunk
  <2> QED  BY <1>0, <1>4, <2>1, <2>3, <2>4, <2>5 DEF FileFollowsTransfer, Whole
<1> QED  BY <1>2, <1>3, <1>5 DEF ScriptInv

LEMMA TransferFailsStep == ScriptInv /\ TransferFails => ScriptInv'
<1> SUFFICES ASSUME ScriptInv, TransferFails PROVE ScriptInv'
  OBVIOUS
<1> USE ScriptAssumption
<1>0. sent \in 0 .. Chunks /\ sent < Chunks /\ step \in 1 .. Steps /\ script \in ScriptContents
  BY DEF ScriptInv, TypeOK, TransferFails
<1>1. /\ Chunk(step, sent + 1) \in [of : 0 .. Steps, i : 1 .. Chunks]
      /\ Written(Chunk(step, sent + 1)) \in ScriptContents
  BY <1>0, WrittenType, ChunkType
<1>2. script' \in ScriptContents /\ late' \subseteq [of : 0 .. Steps, i : 1 .. Chunks]
      /\ delayed' \in BOOLEAN /\ pc' \in {"execute", "exited"}
  BY <1>1 DEF ScriptInv, TypeOK, TransferFails, OnFailure
<1>3. TypeOK'
  BY <1>0, <1>2, ClientType DEF ScriptInv, TypeOK, TransferFails
<1>4. StepOrder' /\ OnlyAwaitedRuns' /\ TestsArrive'
  BY <1>2 DEF ScriptInv, TypeOK, StepOrder, OnlyAwaitedRuns, TestsArrive, OwnCopies, Awaited,
     TransferFails, OnFailure
<1>5. FileFollowsTransfer'
  BY <1>2 DEF ScriptInv, StepOrder, FileFollowsTransfer, TransferFails, OnFailure
<1> QED  BY <1>3, <1>4, <1>5 DEF ScriptInv

LEMMA PostStep == ScriptInv /\ Post => ScriptInv'
<1> SUFFICES ASSUME ScriptInv, Post PROVE ScriptInv'
  OBVIOUS
<1> PICK c0 : c0 = [script |-> script, step |-> step, attempt |-> attempt]
  OBVIOUS
<1>0. /\ c0 \in Processes /\ copies' = copies \cup {c0}
      /\ c0.step = step /\ c0.script = script /\ c0.attempt = attempt
      /\ step \in 1 .. Steps
  BY ClientType DEF ScriptInv, TypeOK, Post, Processes
<1>1. TypeOK'
  BY <1>0 DEF ScriptInv, TypeOK, Post, dialogue
<1>2. StepOrder' /\ TestsArrive'
  BY <1>0 DEF ScriptInv, TypeOK, StepOrder, TestsArrive, Post, dialogue
<1>3. OnlyAwaitedRuns'
  <2>1. SUFFICES ASSUME ~ lost PROVE OnlyAwaitedRuns'
    BY DEF OnlyAwaitedRuns, Post
  <2>2. OwnCopies = {}
    BY <2>1 DEF ScriptInv, OnlyAwaitedRuns, Awaited, Post
  <2>3. OwnCopies' \subseteq {c0}
    BY <1>0, <2>2 DEF OwnCopies
  <2>4. Awaited(c0)'
    BY <1>0 DEF Awaited, Post, dialogue
  <2> QED  BY <2>3, <2>4 DEF OnlyAwaitedRuns
<1>4. FileFollowsTransfer'
  BY <1>0 DEF ScriptInv, FileFollowsTransfer, Post, dialogue
<1> QED  BY <1>1, <1>2, <1>3, <1>4 DEF ScriptInv

LEMMA CopyEndsStep ==
  ASSUME ScriptInv, NEW c \in copies, CopyEnds(c)
  PROVE  ScriptInv'
<1>0. /\ c \in Processes /\ c.step \in 0 .. Steps /\ c.step <= step /\ c.script \in ScriptContents
      /\ step \in 1 .. Steps /\ model <= step
  BY DEF ScriptInv, TypeOK, StepOrder, Processes
<1>1. \/ /\ Awaited(c) /\ pc' = "observe" /\ UNCHANGED attempt
         /\ output' = [output EXCEPT ![step] = c.script]
      \/ Awaited(c) /\ NextAttempt /\ UNCHANGED output
      \/ ~ Awaited(c) /\ UNCHANGED <<pc, attempt, output>>
  BY DEF CopyEnds
<1>2. /\ UNCHANGED <<client, step, sent, acked, script, late, delayed, lost>>
      /\ copies' = copies \ {c} /\ model' \in {model, c.step}
  BY DEF CopyEnds
<1>3. /\ pc' \in {"reset", "turn", "send", "execute", "waiting", "observe", "fetch", "done",
                  "exited"}
      /\ attempt' \in 1 .. client.attempts
      /\ output' \in [1 .. Steps -> ScriptContents]
      /\ pc' = "send" => pc = "send"
      /\ pc' \in {"reset", "turn", "send"} => pc' = pc /\ output' = output
      /\ pc' \in {"execute", "waiting"} => pc \in {"execute", "waiting"}
  <2>1. CASE Awaited(c) /\ NextAttempt /\ UNCHANGED output
    BY <1>2, <2>1, NextAttemptType DEF ScriptInv, TypeOK, Awaited
  <2>2. CASE ~ (Awaited(c) /\ NextAttempt /\ UNCHANGED output)
    BY <1>0, <1>1, <2>2 DEF ScriptInv, TypeOK, Awaited
  <2> QED  BY <2>1, <2>2
<1>4. TypeOK'
  <2>1. model' \in NoModel .. Steps /\ copies' \subseteq Processes
    BY <1>0, <1>2, ScriptAssumption DEF ScriptInv, TypeOK, NoModel
  <2> QED  BY <1>2, <1>3, <2>1 DEF ScriptInv, TypeOK
<1>5. StepOrder'
  <2>1. \A k \in 1 .. Steps : k > step => output'[k] = <<>>
    <3> SUFFICES ASSUME NEW k \in 1 .. Steps, k > step PROVE output'[k] = <<>>
      OBVIOUS
    <3>1. output[k] = <<>> /\ k # step
      BY <1>0 DEF ScriptInv, StepOrder
    <3> QED  BY <1>1, <3>1 DEF ScriptInv, TypeOK
  <2> QED  BY <1>0, <1>2, <1>3, <2>1 DEF ScriptInv, StepOrder
<1>6. OnlyAwaitedRuns'
  <2>1. SUFFICES ASSUME ~ lost PROVE OnlyAwaitedRuns'
    BY <1>2 DEF OnlyAwaitedRuns
  <2>2. OwnCopies' = OwnCopies \ {c}
    BY <1>2 DEF OwnCopies
  <2>3. CASE Awaited(c)
    <3>1. c \in OwnCopies
      BY <1>0, <2>3 DEF OwnCopies, Awaited
    <3>2. OwnCopies' = {}
      BY <2>1, <2>2, <3>1 DEF ScriptInv, OnlyAwaitedRuns
    <3> QED  BY <3>2 DEF OnlyAwaitedRuns
  <2>4. CASE ~ Awaited(c)
    BY <1>1, <1>2, <2>1, <2>2, <2>4 DEF ScriptInv, OnlyAwaitedRuns, Awaited
  <2> QED  BY <2>3, <2>4
<1>7. FileFollowsTransfer'
  <2>1. SUFFICES ASSUME ~ delayed PROVE FileFollowsTransfer'
    BY <1>2 DEF FileFollowsTransfer
  <2>2. \A k \in acked : output'[k] \in {<<>>, Whole(k)}
    <3> SUFFICES ASSUME NEW k \in acked PROVE output'[k] \in {<<>>, Whole(k)}
      OBVIOUS
    <3>1. k \in 1 .. Steps
      BY <1>0, ScriptAssumption DEF ScriptInv, TypeOK
    <3>2. output[k] \in {<<>>, Whole(k)}
      BY <2>1 DEF ScriptInv, FileFollowsTransfer
    <3>3. CASE output'[k] = output[k]
      BY <3>2, <3>3
    <3>4. CASE output'[k] # output[k]
      <4>1. k = step /\ output'[k] = c.script /\ c.step = step
        BY <1>0, <1>1, <3>1, <3>4 DEF ScriptInv, TypeOK, Awaited
      <4> QED  BY <2>1, <4>1 DEF ScriptInv, FileFollowsTransfer
    <3> QED  BY <3>3, <3>4
  <2> QED  BY <1>2, <1>3, <2>1, <2>2 DEF ScriptInv, FileFollowsTransfer
<1>8. TestsArrive'
  <2>1. \A k \in 1 .. Steps :
          output'[k] # output[k] => k = step /\ pc = "waiting"
    BY <1>0, <1>1 DEF ScriptInv, TypeOK, Awaited
  <2> QED  BY <1>2, <1>3, <2>1 DEF ScriptInv, TestsArrive
<1> QED  BY <1>4, <1>5, <1>6, <1>7, <1>8 DEF ScriptInv

\* The other actions change pc, step, the attempt and the flags.
LEMMA OtherStep ==
  ScriptInv /\ (NoCode \/ BeginTransfer \/ PostFails \/ AnswerLost \/ Observe
                \/ NoScreenshot \/ Fetch) => ScriptInv'
<1>1. SUFFICES ASSUME ScriptInv PROVE
        (NoCode \/ BeginTransfer \/ PostFails \/ AnswerLost \/ Observe
           \/ NoScreenshot \/ Fetch) => ScriptInv'
  OBVIOUS
<1> USE <1>1 DEF ScriptInv
<1>2. CASE NoCode
  BY <1>2 DEF NoCode, dialogue, machine, TypeOK, StepOrder, OnlyAwaitedRuns,
     FileFollowsTransfer, TestsArrive, OwnCopies, Awaited
<1>3. CASE BeginTransfer
  BY <1>3, ScriptAssumption DEF BeginTransfer, machine, TypeOK, StepOrder,
     OnlyAwaitedRuns, FileFollowsTransfer, TestsArrive, OwnCopies, Awaited
<1>4. CASE PostFails
  <2>1. attempt' \in 1 .. client.attempts /\ pc' \in {"execute", "observe", "exited"}
    BY <1>4, NextAttemptType DEF PostFails
  <2> QED
    BY <1>4, <2>1 DEF PostFails, machine, TypeOK, StepOrder, OnlyAwaitedRuns,
       FileFollowsTransfer, TestsArrive, OwnCopies, Awaited
<1>5. CASE AnswerLost
  <2>1. attempt' \in 1 .. client.attempts /\ pc' \in {"execute", "observe", "exited"}
    BY <1>5, NextAttemptType DEF AnswerLost
  <2> QED
    BY <1>5, <2>1 DEF AnswerLost, machine, TypeOK, StepOrder, OnlyAwaitedRuns,
       FileFollowsTransfer, TestsArrive
<1>6. CASE Observe
  <2>1. /\ step \in 1 .. Steps /\ step' \in {step, step + 1} /\ step' \in 1 .. Steps
        /\ pc = "observe" /\ pc' \in {"turn", "fetch"} /\ (pc' = "turn" => step' = step + 1)
        /\ UNCHANGED <<client, sent, attempt, output, acked, machine, lost>>
    BY <1>6, ScriptAssumption DEF Observe, TypeOK
  <2>2. TypeOK'
    BY <2>1 DEF TypeOK, machine
  <2>3. StepOrder'
    <3>1. \A c \in copies : c.step \in 0 .. Steps
      BY DEF TypeOK, Processes
    <3>2. step + 1 \notin acked /\ model \in Int
      BY <2>1 DEF TypeOK, NoModel
    <3> QED  BY <2>1, <3>1, <3>2 DEF StepOrder, machine
  <2>4. OnlyAwaitedRuns' /\ FileFollowsTransfer' /\ TestsArrive'
    BY <2>1 DEF OnlyAwaitedRuns, FileFollowsTransfer, TestsArrive, OwnCopies, Awaited, machine
  <2> QED  BY <2>2, <2>3, <2>4
<1>7. CASE NoScreenshot
  BY <1>7 DEF NoScreenshot, dialogue, machine, TypeOK, StepOrder, OnlyAwaitedRuns,
     FileFollowsTransfer, TestsArrive, OwnCopies, Awaited
<1>8. CASE Fetch
  BY <1>8 DEF Fetch, dialogue, machine, TypeOK, StepOrder, OnlyAwaitedRuns,
     FileFollowsTransfer, TestsArrive, OwnCopies, Awaited
<1> QED  BY <1>2, <1>3, <1>4, <1>5, <1>6, <1>7, <1>8

LEMMA LateChunkStep ==
  ASSUME ScriptInv, NEW chunk \in late, LateChunk(chunk)
  PROVE  ScriptInv'
<1>1. script' \in ScriptContents
  BY WrittenType DEF ScriptInv, TypeOK, LateChunk
<1>2. delayed = TRUE
  BY DEF ScriptInv, TypeOK, FileFollowsTransfer
<1> QED
  BY <1>1, <1>2 DEF ScriptInv, LateChunk, dialogue, TypeOK, StepOrder, OnlyAwaitedRuns,
     FileFollowsTransfer, TestsArrive, OwnCopies, Awaited

LEMMA NextScript == ScriptInv /\ [Next]_vars => ScriptInv'
<1>1. SUFFICES ASSUME ScriptInv, [Next]_vars PROVE ScriptInv'
  OBVIOUS
<1>2. CASE Client
  BY <1>1, <1>2, ResetStep, SendChunkStep, TransferFailsStep, PostStep, OtherStep DEF Client
<1>3. CASE Machine
  BY <1>1, <1>3, CopyEndsStep, LateChunkStep DEF Machine
<1>4. CASE UNCHANGED vars
  BY <1>1, <1>4 DEF vars, dialogue, machine, ScriptInv, TypeOK, StepOrder, OnlyAwaitedRuns,
     FileFollowsTransfer, TestsArrive, OwnCopies, Awaited
<1> QED  BY <1>1, <1>2, <1>3, <1>4 DEF Next

LEMMA ScriptInvariant == Spec => []ScriptInv
BY InitScript, NextScript, PTL DEF Spec

-----------------------------------------------------------------------------

(***************************************************************************)
(* Types, the bounds on the attempts included.                             *)
(***************************************************************************)
THEOREM ScriptTypeCorrect == Spec => []TypeOK
<1>1. ScriptInv => TypeOK
  BY DEF ScriptInv
<1> QED  BY <1>1, ScriptInvariant, PTL

(***************************************************************************)
(* Without a lost answer no script outlives its step: the retries of       *)
(* execute_python_command alone never make two scripts overlap.            *)
(***************************************************************************)
THEOREM Quiet == Spec => []QuietUnlessLost
<1>1. ScriptInv => QuietUnlessLost
  BY DEF ScriptInv, OnlyAwaitedRuns, QuietUnlessLost, Awaited
<1> QED  BY <1>1, ScriptInvariant, PTL

(***************************************************************************)
(* What a step returns was printed by the whole script of the step, if its *)
(* chunks were acknowledged and none came late.                            *)
(***************************************************************************)
THEOREM OwnOutput == Spec => []OutputOfOwnScript
<1>1. ScriptInv => OutputOfOwnScript
  BY DEF ScriptInv, FileFollowsTransfer, OutputOfOwnScript
<1> QED  BY <1>1, ScriptInvariant, PTL

(***************************************************************************)
(* The tests return an output only after a complete transfer.              *)
(***************************************************************************)
THEOREM ArrivedOnly == Spec => []TestsRunWhatArrived
<1>1. ScriptInv => TestsRunWhatArrived
  BY DEF ScriptInv, TestsArrive, TestsRunWhatArrived
<1> QED  BY <1>1, ScriptInvariant, PTL

(***************************************************************************)
(* Without a lost answer no model is replaced by one of an earlier step.   *)
(***************************************************************************)
THEOREM ModelsInOrder == Spec => NoOlderModel
<1>1. ScriptInv /\ [Next]_vars => (model' > 0 /\ ~ lost => model' >= model)
  <2>1. SUFFICES ASSUME ScriptInv, [Next]_vars, model' > 0, ~ lost PROVE model' >= model
    OBVIOUS
  <2>2. model \in Int /\ model <= step
    BY <2>1 DEF ScriptInv, TypeOK, StepOrder, NoModel
  <2>3. CASE model' = model
    BY <2>2, <2>3
  <2>4. CASE Reset
    BY <2>1, <2>2, <2>4 DEF Reset, NoModel
  <2>5. ASSUME NEW c \in copies, CopyEnds(c)
        PROVE  model' >= model
    <3>1. CASE c \in OwnCopies
      <4>1. c.step = step
        BY <2>1, <3>1 DEF ScriptInv, OnlyAwaitedRuns, Awaited
      <4> QED  BY <2>1, <2>2, <2>5, <4>1 DEF CopyEnds, ScriptInv, TypeOK
    <3>2. CASE c \notin OwnCopies
      BY <2>1, <2>2, <2>5, <3>2 DEF OwnCopies, CopyEnds
    <3> QED  BY <3>1, <3>2
  <2> QED
    BY <2>1, <2>3, <2>4, <2>5 DEF Next, Client, Machine, vars, machine, NoCode, BeginTransfer,
       SendChunk, TransferFails, Post, PostFails, AnswerLost, Observe, NoScreenshot, Fetch,
       LateChunk
<1> QED  BY <1>1, ScriptInvariant, PTL DEF Spec, NoOlderModel
=============================================================================
