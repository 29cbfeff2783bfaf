----------------------- MODULE ColocateRolloutProofs ------------------------
(***************************************************************************)
(* What TLAPS proves of ColocateRollout, for every number of machines,     *)
(* ranks, dialogues and turns.                                             *)
(***************************************************************************)
EXTENDS ColocateRollout, FiniteSetTheorems, SequenceTheorems, TLAPS

-----------------------------------------------------------------------------
\* The slices of the machines.

LEMMA DivisionFacts ==
  /\ VMsPerRank \in Nat
  /\ WorldSize * VMsPerRank <= TotalVMs
<1>1. \A a \in Nat, b \in Nat \ {0} : a \div b \in Nat /\ b * (a \div b) <= a
  OBVIOUS
<1> QED  BY <1>1, SliceAssumption DEF VMsPerRank

\* Multiplication is monotonic: the next slice begins where this one ends.
LEMMA StartsApart ==
  ASSUME NEW r \in Ranks, NEW s \in Ranks, r < s
  PROVE  StartIdx(r) + VMsPerRank <= StartIdx(s)
<1>1. \A k, m \in Int, q \in Nat : k + 1 <= m => k * q + q <= m * q
  OBVIOUS
<1>2. r \in Int /\ s \in Int /\ r + 1 <= s
  BY SliceAssumption DEF Ranks
<1> QED  BY <1>1, <1>2, DivisionFacts DEF StartIdx

LEMMA StartInRange ==
  ASSUME NEW r \in Ranks
  PROVE  /\ StartIdx(r) \in Nat
         /\ EndIdx(r) \in Nat
         /\ StartIdx(r) + VMsPerRank <= EndIdx(r)
         /\ EndIdx(r) <= TotalVMs
<1>1. \A k \in Nat, w \in Nat, q \in Nat : k + 1 <= w => k * q \in Nat /\ k * q + q <= w * q
  OBVIOUS
<1>2. r \in Nat /\ WorldSize \in Nat /\ r + 1 <= WorldSize /\ TotalVMs \in Nat
  BY SliceAssumption DEF Ranks
<1>3. StartIdx(r) \in Nat /\ StartIdx(r) + VMsPerRank <= WorldSize * VMsPerRank
  BY <1>1, <1>2, DivisionFacts DEF StartIdx
<1> QED  BY <1>2, <1>3, DivisionFacts DEF EndIdx

(***************************************************************************)
(* No machine belongs to two training processes, so the queues of two      *)
(* processes can never offer the same machine.                             *)
(***************************************************************************)
THEOREM SlicesDisjoint ==
  ASSUME NEW r \in Ranks, NEW s \in Ranks, r # s
  PROVE  VMsOf(r) \cap VMsOf(s) = {}
<1>1. ASSUME NEW a \in Ranks, NEW b \in Ranks, a < b
      PROVE  EndIdx(a) <= StartIdx(b)
  <2>1. a < WorldSize - 1
    BY <1>1, SliceAssumption DEF Ranks
  <2> QED  BY <1>1, <2>1, StartsApart DEF EndIdx
<1>2. r < s \/ s < r
  BY SliceAssumption DEF Ranks
<1> QED  BY <1>1, <1>2, StartInRange DEF VMsOf

(***************************************************************************)
(* Every machine of alive_vms.json has a process, whatever the remainder.  *)
(***************************************************************************)
THEOREM SlicesCover == AllVMs = UNION {VMsOf(r) : r \in Ranks}
<1>1. ASSUME NEW v \in AllVMs
      PROVE  \E r \in Ranks : v \in VMsOf(r)
  <2> DEFINE last == WorldSize - 1
  <2>1. last \in Ranks /\ EndIdx(last) = TotalVMs /\ v \in Nat /\ v < TotalVMs
    BY SliceAssumption DEF Ranks, EndIdx, AllVMs
  <2>2. CASE v >= StartIdx(last)
    BY <2>1, <2>2, StartInRange DEF VMsOf
  <2>3. CASE v < StartIdx(last)
    <3> DEFINE k == v \div VMsPerRank
    <3>1. VMsPerRank # 0
      BY <2>1, <2>3, DivisionFacts, SliceAssumption DEF StartIdx
    <3>2. \A a \in Nat, b \in Nat \ {0} :
            a \div b \in Nat /\ (a \div b) * b <= a /\ a < (a \div b) * b + b
      OBVIOUS
    <3>3. k \in Nat /\ k * VMsPerRank <= v /\ v < k * VMsPerRank + VMsPerRank
      BY <3>1, <3>2, <2>1, DivisionFacts
    <3>4. \A i, j \in Nat, q \in Nat : i >= j => i * q >= j * q
      OBVIOUS
    <3>5. k < last
      <4>1. last \in Nat
        BY SliceAssumption
      <4>2. SUFFICES ASSUME k >= last PROVE FALSE
        BY <3>3, <4>1
      <4>3. k * VMsPerRank >= last * VMsPerRank
        BY <3>3, <3>4, <4>1, <4>2, DivisionFacts
      <4> QED  BY <4>1, <4>3, <3>3, <2>3, <2>1, DivisionFacts DEF StartIdx
    <3>6. k \in Ranks
      BY <3>3, <3>5, SliceAssumption DEF Ranks
    <3> QED  BY <3>3, <3>5, <3>6, <2>1, DivisionFacts DEF VMsOf, StartIdx, EndIdx
  <2> HIDE DEF last
  <2> QED  BY <2>1, <2>2, <2>3, StartInRange
<1>2. ASSUME NEW r \in Ranks, NEW v \in VMsOf(r)
      PROVE  v \in AllVMs
  <2>1. StartIdx(r) \in Nat /\ EndIdx(r) \in Nat /\ EndIdx(r) <= TotalVMs
    BY StartInRange
  <2> QED  BY <2>1, SliceAssumption DEF VMsOf, AllVMs
<1> QED  BY <1>1, <1>2

-----------------------------------------------------------------------------
\* The queues of the ranks.

LEMMA SliceIsNat == ASSUME NEW r \in Ranks PROVE VMsOf(r) \subseteq Nat
<1>1. StartIdx(r) \in Nat /\ EndIdx(r) \in Nat
  BY StartInRange
<1> QED  BY <1>1 DEF VMsOf

\* The first queue of a rank holds its slice, each machine once.
LEMMA FirstQueueIsSlice ==
  ASSUME NEW r \in Ranks
  PROVE  /\ FirstQueue(r) \in Seq(Nat)
         /\ Range(FirstQueue(r)) = VMsOf(r)
         /\ IsInjective(FirstQueue(r))
<1> DEFINE a == StartIdx(r)
           n == EndIdx(r) - StartIdx(r)
<1>1. a \in Nat /\ n \in Nat /\ VMsOf(r) = a .. a + n - 1
  BY StartInRange, DivisionFacts DEF VMsOf
<1>2. FirstQueue(r) = [i \in 1 .. n |-> a + i - 1]
  BY DEF FirstQueue
<1> HIDE DEF a, n
<1>3. FirstQueue(r) \in [1 .. n -> Nat]
  BY <1>1, <1>2
<1>4. FirstQueue(r) \in Seq(Nat)
  BY <1>1, <1>3, SeqDef
<1>5. ASSUME NEW v \in VMsOf(r)
      PROVE  v - a + 1 \in 1 .. n /\ FirstQueue(r)[v - a + 1] = v
  BY <1>1, <1>2
<1>6. \A i \in 1 .. n : FirstQueue(r)[i] \in VMsOf(r)
  BY <1>1, <1>2
<1>7. Range(FirstQueue(r)) = VMsOf(r)
  BY <1>2, <1>5, <1>6 DEF Range
<1>8. IsInjective(FirstQueue(r))
  BY <1>1, <1>2 DEF IsInjective
<1> QED  BY <1>4, <1>7, <1>8

\* queue.get() on a queue without duplicates.
LEMMA TailQueue ==
  ASSUME NEW q \in Seq(Nat), q # <<>>, IsInjective(q)
  PROVE  /\ Head(q) \in Range(q)
         /\ Range(Tail(q)) = Range(q) \ {Head(q)}
         /\ IsInjective(Tail(q))
<1> DEFINE n == Len(q)
           t == Tail(q)
<1>1. /\ n \in Nat \ {0} /\ DOMAIN q = 1 .. n /\ Head(q) = q[1]
      /\ DOMAIN t = 1 .. n - 1 /\ \A i \in 1 .. n - 1 : t[i] = q[i + 1]
  BY HeadTailProperties
<1> HIDE DEF n, t
<1>2. Head(q) \in Range(q)
  BY <1>1 DEF Range
<1>3. ASSUME NEW x \in Range(t)
      PROVE  x \in Range(q) \ {Head(q)}
  <2>1. PICK i \in 1 .. n - 1 : x = q[i + 1]
    BY <1>1, <1>3 DEF Range
  <2>2. i + 1 \in 1 .. n /\ 1 \in 1 .. n /\ i + 1 # 1
    BY <1>1
  <2>3. q[i + 1] # q[1]
    BY <1>1, <2>2 DEF IsInjective
  <2> QED  BY <1>1, <2>1, <2>2, <2>3 DEF Range
<1>4. ASSUME NEW x \in Range(q) \ {Head(q)}
      PROVE  x \in Range(t)
  <2>1. PICK i \in 1 .. n : x = q[i] /\ i # 1
    BY <1>1 DEF Range
  <2>2. i - 1 \in 1 .. n - 1 /\ t[i - 1] = x
    BY <1>1, <2>1
  <2> QED  BY <1>1, <2>2 DEF Range
<1>5. IsInjective(t)
  <2>1. ASSUME NEW i \in 1 .. n - 1, NEW j \in 1 .. n - 1, t[i] = t[j]
        PROVE  i = j
    <3>1. i + 1 \in 1 .. n /\ j + 1 \in 1 .. n /\ q[i + 1] = q[j + 1]
      BY <1>1, <2>1
    <3>2. i + 1 = j + 1
      BY <1>1, <3>1 DEF IsInjective
    <3> QED  BY <3>2, <1>1
  <2> QED  BY <1>1, <2>1 DEF IsInjective
<1> QED  BY <1>2, <1>3, <1>4, <1>5 DEF t

\* queue.put() of an id that is not in the queue.
LEMMA AppendQueue ==
  ASSUME NEW q \in Seq(Nat), NEW x \in Nat, x \notin Range(q), IsInjective(q)
  PROVE  /\ Range(Append(q, x)) = Range(q) \cup {x}
         /\ IsInjective(Append(q, x))
<1> DEFINE n == Len(q)
           t == Append(q, x)
<1>1. /\ n \in Nat /\ DOMAIN q = 1 .. n /\ DOMAIN t = 1 .. n + 1
      /\ \A i \in 1 .. n : t[i] = q[i] /\ t[n + 1] = x
  BY AppendProperties
<1>2. t[n + 1] = x
  BY AppendProperties
<1> HIDE DEF n, t
<1>3. \A i \in 1 .. n + 1 : i \in 1 .. n \/ i = n + 1
  BY <1>1
<1>4. 1 .. n \subseteq 1 .. n + 1 /\ n + 1 \in 1 .. n + 1
  BY <1>1
<1>5. Range(t) = Range(q) \cup {x}
  BY <1>1, <1>2, <1>3, <1>4 DEF Range
<1>6. \A i \in 1 .. n : q[i] # x
  BY <1>1 DEF Range
<1>7. IsInjective(t)
  BY <1>1, <1>2, <1>3, <1>6 DEF IsInjective
<1> QED  BY <1>5, <1>7 DEF t

-----------------------------------------------------------------------------
(***************************************************************************)
(* Type correctness and the turn limit.                                    *)
(***************************************************************************)

LEMMA InitTurnInv == Init => TurnInv
<1> SUFFICES ASSUME Init PROVE TurnInv
  OBVIOUS
<1> USE RolloutAssumption DEF Init
<1>1. queue \in [Ranks -> Seq(Nat)]
  BY FirstQueueIsSlice
<1>2. TypeOK
  BY <1>1 DEF TypeOK, Phases, Fresh
<1>3. Lockstep
  BY DEF Lockstep, InTurn, Scoring
<1>4. ThreadFacts
  BY DEF ThreadFacts, Fresh
<1> QED  BY <1>2, <1>3, <1>4 DEF TurnInv

LEMMA NextTurnInv == TurnInv /\ [Next]_vars => TurnInv'
<1> SUFFICES ASSUME TurnInv, [Next]_vars PROVE TurnInv'
  OBVIOUS
<1> USE RolloutAssumption DEF TurnInv, InTurn, Scoring
<1>1. CASE GatherHasData
  <2>1. TypeOK'
    BY <1>1 DEF GatherHasData, TypeOK, Phases, dialogueVars
  <2>2. Lockstep'
    BY <1>1 DEF GatherHasData, TypeOK, Lockstep, dialogueVars
  <2>3. ThreadFacts'
    BY <1>1 DEF GatherHasData, TypeOK, Lockstep, dialogueVars, ThreadFacts
  <2> QED  BY <2>1, <2>2, <2>3
<1>2. CASE NextBatch
  <2>1. TypeOK'
    BY <1>2 DEF NextBatch, TypeOK, Phases, Fresh
  <2>2. Lockstep'
    BY <1>2 DEF NextBatch, TypeOK, Lockstep
  <2>3. ThreadFacts'
    BY <1>2 DEF NextBatch, Fresh, ThreadFacts
  <2> QED  BY <2>1, <2>2, <2>3
<1>3. ASSUME NEW r \in Ranks, Respond(r)
      PROVE  TurnInv'
  <2>1. PICK stop \in SUBSET active[r],
             written \in [active[r] -> VMsOf(r) \cup ForeignIds \cup {NoVM}] :
               /\ LastTurn(r) => stop = active[r]
               /\ active' = [active EXCEPT ![r] = @ \ stop]
               /\ pending' = [pending EXCEPT ![r] = active[r] \ stop]
               /\ echo' = [echo EXCEPT ![r] =
                    [d \in Dialogues |-> IF d \in active[r] THEN written[d] ELSE @[d]]]
               /\ seal' = [seal EXCEPT ![r] =
                    [d \in Dialogues |-> IF d \in active[r] /\ written[d] # NoVM
                                         THEN written[d] ELSE @[d]]]
    BY <1>3 DEF Respond
  <2>2. \A d \in active[r] : written[d] \in Nat \cup {NoVM}
    BY SliceIsNat
  <2>3. phase[r] = "respond" /\ phase' = [phase EXCEPT ![r] = "step"]
        /\ UNCHANGED <<turn, queue, env, thread>>
    BY <1>3 DEF Respond
  <2>4. TypeOK'
    BY <2>1, <2>2, <2>3 DEF TypeOK, Phases
  <2>5. Lockstep'
    BY <2>1, <2>3 DEF TypeOK, Lockstep, LastTurn
  <2>6. ThreadFacts'
    BY <2>1, <2>3 DEF TypeOK, ThreadFacts
  <2> QED  BY <2>4, <2>5, <2>6
<1>4. ASSUME NEW r \in Ranks, NEW d \in Dialogues, TakeVM(r, d)
      PROVE  TurnInv'
  <2> DEFINE v == Head(queue[r])
  <2>1. queue[r] \in Seq(Nat) /\ queue[r] # <<>>
    BY <1>4 DEF TakeVM, TypeOK
  <2>2. v \in Nat /\ Tail(queue[r]) \in Seq(Nat)
    BY <2>1, HeadTailProperties
  <2>3. /\ phase[r] = "step"
        /\ queue' = [queue EXCEPT ![r] = Tail(@)]
        /\ env' = [env EXCEPT ![r][d] = v]
        /\ pending' = [pending EXCEPT ![r] = @ \ {d}]
        /\ UNCHANGED <<turn, active, echo, thread>>
    BY <1>4 DEF TakeVM
  <2>4. \/ seal' = [seal EXCEPT ![r][d] = Sealed(r, d, v)] /\ phase' = phase
        \/ seal' = seal /\ phase' = [phase EXCEPT ![r] = "crashed"]
    BY <1>4 DEF TakeVM
  <2>5. Sealed(r, d, v) \in Nat \cup {NoVM}
    BY <2>2 DEF Sealed, TypeOK
  <2> HIDE DEF v
  <2>6. TypeOK'
    <3>1. queue' \in [Ranks -> Seq(Nat)]
      BY <2>2, <2>3 DEF TypeOK
    <3>2. env' \in [Ranks -> [Dialogues -> Nat \cup {NoVM}]]
      BY <2>2, <2>3 DEF TypeOK
    <3>3. seal' \in [Ranks -> [Dialogues -> Nat \cup {NoVM}]]
      <4>1. [seal EXCEPT ![r][d] = Sealed(r, d, v)]
              \in [Ranks -> [Dialogues -> Nat \cup {NoVM}]]
        BY <2>5 DEF TypeOK
      <4> QED  BY <2>4, <4>1 DEF TypeOK
    <3>4. phase' \in [Ranks -> Phases]
      BY <2>4 DEF TypeOK, Phases
    <3>5. pending' \in [Ranks -> SUBSET Dialogues]
      BY <2>3 DEF TypeOK
    <3> QED  BY <2>3, <3>1, <3>2, <3>3, <3>4, <3>5 DEF TypeOK
  <2>7. Lockstep'
    BY <2>3, <2>4 DEF TypeOK, Lockstep
  <2>8. ThreadFacts'
    <3>1. \A e \in Dialogues : thread[r][e] = "idle"
      BY <2>3 DEF TypeOK, ThreadFacts
    <3>2. \A s \in Ranks : s # r => phase'[s] = phase[s] /\ seal'[s] = seal[s]
      BY <2>4 DEF TypeOK
    <3> QED  BY <2>3, <3>1, <3>2 DEF ThreadFacts
  <2> QED  BY <2>6, <2>7, <2>8
<1>5. ASSUME NEW r \in Ranks, NEW d \in Dialogues, ContinueStep(r, d)
      PROVE  TurnInv'
  <2>1. TypeOK'
    BY <1>5 DEF ContinueStep, TypeOK, Sealed
  <2>2. Lockstep'
    BY <1>5 DEF ContinueStep, TypeOK, Lockstep
  <2>3. ThreadFacts'
    BY <1>5 DEF ContinueStep, TypeOK, Sealed, ThreadFacts
  <2> QED  BY <2>1, <2>2, <2>3
<1>6. ASSUME NEW r \in Ranks, NextTurn(r)
      PROVE  TurnInv'
  <2>1. TypeOK'
    BY <1>6 DEF NextTurn, TypeOK, Lockstep, Phases, dialogueVars
  <2>2. Lockstep'
    BY <1>6 DEF NextTurn, TypeOK, Lockstep, dialogueVars
  <2>3. ThreadFacts'
    BY <1>6 DEF NextTurn, dialogueVars, TypeOK, ThreadFacts
  <2> QED  BY <2>1, <2>2, <2>3
<1>7. ASSUME NEW r \in Ranks, RewardsDone(r)
      PROVE  TurnInv'
  <2>1. TypeOK'
    BY <1>7 DEF RewardsDone, TypeOK, Phases, dialogueVars
  <2>2. Lockstep'
    BY <1>7 DEF RewardsDone, TypeOK, Lockstep, dialogueVars
  <2>3. ThreadFacts'
    BY <1>7 DEF RewardsDone, dialogueVars, TypeOK, ThreadFacts
  <2> QED  BY <2>1, <2>2, <2>3
<1>8. ASSUME NEW r \in Ranks, NEW d \in Dialogues, SearchSeal(r, d)
      PROVE  TurnInv'
  <2>1. TypeOK'
    BY <1>8 DEF SearchSeal, TypeOK
  <2>2. Lockstep'
    BY <1>8 DEF SearchSeal, TypeOK, Lockstep
  <2>3. ThreadFacts'
    BY <1>8 DEF SearchSeal, TypeOK, ThreadFacts
  <2> QED  BY <2>1, <2>2, <2>3
<1>9. ASSUME NEW r \in Ranks, NEW d \in Dialogues, ReturnVM(r, d)
      PROVE  TurnInv'
  <2>0. seal[r][d] \in Nat
    BY <1>9 DEF ReturnVM, TypeOK, ThreadFacts
  <2>1. Append(queue[r], seal[r][d]) \in Seq(Nat)
    BY <2>0, AppendProperties DEF TypeOK
  <2>2. TypeOK'
    BY <1>9, <2>1 DEF ReturnVM, TypeOK
  <2>3. Lockstep'
    BY <1>9 DEF ReturnVM, TypeOK, Lockstep
  <2>4. ThreadFacts'
    BY <1>9 DEF ReturnVM, TypeOK, ThreadFacts
  <2> QED  BY <2>2, <2>3, <2>4
<1>10. CASE UNCHANGED vars
  BY <1>10 DEF vars, TypeOK, Lockstep, ThreadFacts
<1> QED
  BY <1>1, <1>2, <1>3, <1>4, <1>5, <1>6, <1>7, <1>8, <1>9, <1>10
     DEF Next, Rollout, RewardThread, AcquireStep

(***************************************************************************)
(* Every variable keeps its type whatever ids the model writes; with it:   *)
(* no dialogue is rolled out past max_turns.                               *)
(***************************************************************************)
THEOREM TypeCorrect == Spec => []TypeOK
<1>1. Spec => []TurnInv
  BY InitTurnInv, NextTurnInv, PTL DEF Spec
<1>2. TurnInv => TypeOK
  BY DEF TurnInv
<1> QED  BY <1>1, <1>2, PTL

-----------------------------------------------------------------------------
(***************************************************************************)
(* The lease.  From here on the model only ever repeats marks it has seen  *)
(* in its own context (ForeignIds = {}).                                   *)
(***************************************************************************)

\* A step that moves no machine keeps what is said of machines.
LEMMA SameMachines ==
  ASSUME LeaseInv, UNCHANGED <<env, thread, queue>>
  PROVE  HeldInSlice' /\ HeldNotQueued' /\ HeldOnce' /\ NoVMLost'
BY DEF LeaseInv, HeldInSlice, HeldNotQueued, HeldOnce, NoVMLost, Holds, Queued

LEMMA InitLeaseInv == Init => LeaseInv
<1> SUFFICES ASSUME Init PROVE LeaseInv
  OBVIOUS
<1> USE DEF Init, Fresh
<1>1. PhaseFacts
  BY DEF PhaseFacts
<1>2. SealIsEnv /\ HeldInSlice
  BY DEF SealIsEnv, HeldInSlice
<1>3. \A r \in Ranks, d \in Dialogues : ~ Holds(r, d)
  BY DEF Holds
<1>4. NoVMLost
  BY FirstQueueIsSlice DEF NoVMLost, Queued
<1> QED  BY <1>1, <1>2, <1>3, <1>4 DEF LeaseInv, HeldNotQueued, HeldOnce

LEMMA NextLeaseInv ==
  ASSUME ForeignIds = {}, TurnInv, LeaseInv, [Next]_vars
  PROVE  LeaseInv'
<1> USE RolloutAssumption
<1>1. CASE GatherHasData
  <2>1. PhaseFacts'
    BY <1>1 DEF GatherHasData, dialogueVars, TurnInv, TypeOK, LeaseInv, PhaseFacts
  <2>2. SealIsEnv'
    BY <1>1 DEF GatherHasData, dialogueVars, LeaseInv, SealIsEnv
  <2> QED  BY <1>1, <2>1, <2>2, SameMachines DEF GatherHasData, dialogueVars, LeaseInv
<1>2. CASE NextBatch
  <2>1. PhaseFacts'
    BY <1>2 DEF NextBatch, Fresh, PhaseFacts
  <2>2. SealIsEnv' /\ HeldInSlice'
    BY <1>2 DEF NextBatch, Fresh, SealIsEnv, HeldInSlice
  <2>3. \A r \in Ranks, d \in Dialogues : ~ Holds(r, d) /\ ~ Holds(r, d)'
    BY <1>2 DEF NextBatch, Fresh, Holds, LeaseInv, PhaseFacts
  <2>4. NoVMLost'
    BY <1>2, <2>3 DEF NextBatch, LeaseInv, NoVMLost, Queued
  <2> QED  BY <2>1, <2>2, <2>3, <2>4 DEF LeaseInv, HeldNotQueued, HeldOnce
<1>3. ASSUME NEW r \in Ranks, Respond(r)
      PROVE  LeaseInv'
  <2>1. PICK stop \in SUBSET active[r],
             written \in [active[r] -> VMsOf(r) \cup ForeignIds \cup {NoVM}] :
               /\ \A d \in active[r] : written[d] \in {NoVM, env[r][d]} \cup ForeignIds
               /\ pending' = [pending EXCEPT ![r] = active[r] \ stop]
               /\ echo' = [echo EXCEPT ![r] =
                    [d \in Dialogues |-> IF d \in active[r] THEN written[d] ELSE @[d]]]
               /\ seal' = [seal EXCEPT ![r] =
                    [d \in Dialogues |-> IF d \in active[r] /\ written[d] # NoVM
                                         THEN written[d] ELSE @[d]]]
    BY <1>3 DEF Respond
  <2>2. phase[r] = "respond" /\ phase' = [phase EXCEPT ![r] = "step"]
        /\ UNCHANGED <<turn, queue, env, thread>>
    BY <1>3 DEF Respond
  <2>3. PhaseFacts'
    BY <2>1, <2>2 DEF TurnInv, TypeOK, LeaseInv, PhaseFacts
  <2>4. SealIsEnv'
    <3>1. ASSUME NEW s \in Ranks, NEW d \in Dialogues
          PROVE  seal'[s][d] = env[s][d] /\ echo'[s][d] \in {NoVM, env[s][d]}
      <4>1. CASE s = r
        BY <2>1, <4>1 DEF TurnInv, TypeOK, LeaseInv, SealIsEnv
      <4>2. CASE s # r
        BY <2>1, <4>2 DEF TurnInv, TypeOK, LeaseInv, SealIsEnv
      <4> QED  BY <4>1, <4>2
    <3> QED  BY <3>1, <2>2 DEF SealIsEnv
  <2> QED  BY <2>2, <2>3, <2>4, SameMachines DEF LeaseInv
<1>4. ASSUME NEW r \in Ranks, NEW d \in Dialogues, AcquireStep(r, d)
      PROVE  LeaseInv'
  <2> DEFINE v == Head(queue[r])
  <2>1. queue[r] \in Seq(Nat) /\ queue[r] # <<>> /\ IsInjective(queue[r])
    BY <1>4 DEF AcquireStep, TakeVM, TurnInv, TypeOK, LeaseInv, NoVMLost
  <2>2. /\ v \in Queued(r)
        /\ Range(Tail(queue[r])) = Queued(r) \ {v}
        /\ IsInjective(Tail(queue[r]))
    BY <2>1, TailQueue DEF Queued
  <2>3. v \in VMsOf(r) /\ v \in Nat
    BY <2>2, SliceIsNat DEF LeaseInv, NoVMLost
  <2>4. /\ phase[r] = "step" /\ turn[r] = 1 /\ d \in pending[r]
        /\ queue' = [queue EXCEPT ![r] = Tail(@)]
        /\ env' = [env EXCEPT ![r][d] = v]
        /\ seal' = [seal EXCEPT ![r][d] = Sealed(r, d, v)]
        /\ pending' = [pending EXCEPT ![r] = @ \ {d}]
        /\ UNCHANGED <<phase, turn, active, echo, thread>>
    BY <1>4, <2>3 DEF AcquireStep, TakeVM, NextToStep
  <2>5. env[r][d] = NoVM /\ echo[r][d] = NoVM
    BY <2>4 DEF LeaseInv, PhaseFacts, SealIsEnv
  <2> HIDE DEF v
  <2>6. /\ env'[r][d] = v
        /\ \A s \in Ranks, e \in Dialogues : <<s, e>> # <<r, d>> => env'[s][e] = env[s][e]
    BY <2>4 DEF TurnInv, TypeOK
  <2>7. /\ Queued(r)' = Queued(r) \ {v} /\ IsInjective(queue'[r])
        /\ \A s \in Ranks : s # r => Queued(s)' = Queued(s) /\ queue'[s] = queue[s]
    BY <2>2, <2>4 DEF Queued, TurnInv, TypeOK
  <2>8. thread[r][d] # "done"
    BY <2>4 DEF TurnInv, TypeOK, ThreadFacts, Scoring
  <2>9. /\ ~ Holds(r, d) /\ Holds(r, d)'
        /\ \A s \in Ranks, e \in Dialogues : <<s, e>> # <<r, d>> =>
             (Holds(s, e)' <=> Holds(s, e))
    BY <2>3, <2>4, <2>5, <2>6, <2>8 DEF Holds
  <2>10. PhaseFacts'
    BY <2>4, <2>6 DEF TurnInv, TypeOK, LeaseInv, PhaseFacts
  <2>11. SealIsEnv'
    <3>1. seal'[r][d] = v
      BY <2>4, <2>5 DEF Sealed, TurnInv, TypeOK
    <3>2. \A s \in Ranks, e \in Dialogues : <<s, e>> # <<r, d>> => seal'[s][e] = seal[s][e]
      BY <2>4 DEF TurnInv, TypeOK
    <3> QED  BY <2>4, <2>5, <2>6, <3>1, <3>2 DEF LeaseInv, SealIsEnv
  <2>12. HeldInSlice'
    BY <2>3, <2>6 DEF LeaseInv, HeldInSlice
  <2>13. HeldNotQueued'
    BY <2>6, <2>7, <2>9 DEF LeaseInv, HeldNotQueued
  <2>14. HeldOnce'
    BY <2>2, <2>6, <2>9 DEF LeaseInv, HeldNotQueued, HeldOnce
  <2>15. NoVMLost'
    <3>1. ASSUME NEW s \in Ranks, NEW w \in VMsOf(s) \ Queued(s)'
          PROVE  \E e \in Dialogues : Holds(s, e)' /\ env'[s][e] = w
      <4>1. CASE s = r /\ w = v
        BY <4>1, <2>6, <2>9
      <4>2. CASE ~ (s = r /\ w = v)
        <5>1. w \notin Queued(s)
          BY <3>1, <4>2, <2>7
        <5>2. PICK e \in Dialogues : Holds(s, e) /\ env[s][e] = w
          BY <5>1, <3>1 DEF LeaseInv, NoVMLost
        <5> QED  BY <5>2, <2>6, <2>9
      <4> QED  BY <4>1, <4>2
    <3>2. \A s \in Ranks : Queued(s)' \subseteq VMsOf(s) /\ IsInjective(queue'[s])
      BY <2>7 DEF LeaseInv, NoVMLost
    <3> QED  BY <3>1, <3>2 DEF NoVMLost
  <2> QED  BY <2>10, <2>11, <2>12, <2>13, <2>14, <2>15 DEF LeaseInv
<1>5. ASSUME NEW r \in Ranks, NEW d \in Dialogues, ContinueStep(r, d)
      PROVE  LeaseInv'
  <2>1. Sealed(r, d, env[r][d]) = env[r][d]
    BY DEF Sealed, LeaseInv, SealIsEnv
  <2>2. SealIsEnv'
    BY <1>5, <2>1 DEF ContinueStep, TurnInv, TypeOK, LeaseInv, SealIsEnv
  <2>3. PhaseFacts'
    BY <1>5 DEF ContinueStep, TurnInv, TypeOK, LeaseInv, PhaseFacts
  <2> QED  BY <1>5, <2>2, <2>3, SameMachines DEF ContinueStep, LeaseInv
<1>6. ASSUME NEW r \in Ranks, NextTurn(r)
      PROVE  LeaseInv'
  <2>1. PhaseFacts'
    BY <1>6 DEF NextTurn, dialogueVars, TurnInv, TypeOK, LeaseInv, PhaseFacts
  <2>2. SealIsEnv'
    BY <1>6 DEF NextTurn, dialogueVars, LeaseInv, SealIsEnv
  <2> QED  BY <1>6, <2>1, <2>2, SameMachines DEF NextTurn, dialogueVars, LeaseInv
<1>7. ASSUME NEW r \in Ranks, RewardsDone(r)
      PROVE  LeaseInv'
  <2>1. PhaseFacts'
    BY <1>7 DEF RewardsDone, dialogueVars, TurnInv, TypeOK, LeaseInv, PhaseFacts
  <2>2. SealIsEnv'
    BY <1>7 DEF RewardsDone, dialogueVars, LeaseInv, SealIsEnv
  <2> QED  BY <1>7, <2>1, <2>2, SameMachines DEF RewardsDone, dialogueVars, LeaseInv
<1>8. ASSUME NEW r \in Ranks, NEW d \in Dialogues, SearchSeal(r, d)
      PROVE  LeaseInv'
  <2>1. /\ phase[r] = "score" /\ thread[r][d] = "idle"
        /\ thread' = [thread EXCEPT ![r][d] =
                        IF env[r][d] = NoVM THEN "done" ELSE "evaluating"]
        /\ UNCHANGED <<phase, turn, active, pending, queue, env, seal, echo>>
    BY <1>8 DEF SearchSeal, LeaseInv, SealIsEnv
  <2>2. /\ thread'[r][d] = IF env[r][d] = NoVM THEN "done" ELSE "evaluating"
        /\ \A s \in Ranks, e \in Dialogues :
             <<s, e>> # <<r, d>> => thread'[s][e] = thread[s][e]
    BY <2>1 DEF TurnInv, TypeOK
  <2>3. \A s \in Ranks, e \in Dialogues : Holds(s, e)' <=> Holds(s, e)
    BY <2>1, <2>2 DEF Holds
  <2>4. PhaseFacts'
    BY <2>1, <2>2 DEF LeaseInv, PhaseFacts
  <2>5. SealIsEnv' /\ HeldInSlice'
    BY <2>1 DEF LeaseInv, SealIsEnv, HeldInSlice
  <2>6. HeldNotQueued' /\ HeldOnce' /\ NoVMLost'
    BY <2>1, <2>3 DEF LeaseInv, HeldNotQueued, HeldOnce, NoVMLost, Queued
  <2> QED  BY <2>4, <2>5, <2>6 DEF LeaseInv
<1>9. ASSUME NEW r \in Ranks, NEW d \in Dialogues, ReturnVM(r, d)
      PROVE  LeaseInv'
  <2> DEFINE v == env[r][d]
  <2>1. /\ phase[r] = "score" /\ thread[r][d] = "evaluating"
        /\ queue' = [queue EXCEPT ![r] = Append(@, v)]
        /\ thread' = [thread EXCEPT ![r][d] = "done"]
        /\ UNCHANGED <<phase, turn, active, pending, env, seal, echo>>
    BY <1>9 DEF ReturnVM, LeaseInv, SealIsEnv
  <2>2. v # NoVM
    BY <2>1 DEF TurnInv, ThreadFacts, LeaseInv, SealIsEnv
  <2>3. Holds(r, d) /\ v \in VMsOf(r) /\ v \notin Queued(r)
    BY <2>1, <2>2 DEF Holds, LeaseInv, HeldInSlice, HeldNotQueued
  <2>4. queue[r] \in Seq(Nat) /\ IsInjective(queue[r]) /\ v \in Nat
    BY <2>3, SliceIsNat DEF TurnInv, TypeOK, LeaseInv, NoVMLost
  <2>5. /\ Range(Append(queue[r], v)) = Queued(r) \cup {v}
        /\ IsInjective(Append(queue[r], v))
    BY <2>3, <2>4, AppendQueue DEF Queued
  <2> HIDE DEF v
  <2>6. /\ Queued(r)' = Queued(r) \cup {v} /\ IsInjective(queue'[r])
        /\ \A s \in Ranks : s # r => Queued(s)' = Queued(s) /\ queue'[s] = queue[s]
    BY <2>1, <2>5 DEF Queued, TurnInv, TypeOK
  <2>7. /\ ~ Holds(r, d)'
        /\ \A s \in Ranks, e \in Dialogues : <<s, e>> # <<r, d>> =>
             (Holds(s, e)' <=> Holds(s, e))
    BY <2>1 DEF Holds, TurnInv, TypeOK
  <2>8. PhaseFacts'
    BY <2>1 DEF LeaseInv, PhaseFacts
  <2>9. SealIsEnv' /\ HeldInSlice'
    BY <2>1 DEF LeaseInv, SealIsEnv, HeldInSlice
  <2>10. HeldNotQueued'
    BY <2>1, <2>3, <2>6, <2>7 DEF v, LeaseInv, HeldNotQueued, HeldOnce
  <2>11. HeldOnce'
    BY <2>1, <2>7 DEF LeaseInv, HeldOnce
  <2>12. NoVMLost'
    <3>1. ASSUME NEW s \in Ranks, NEW w \in VMsOf(s) \ Queued(s)'
          PROVE  \E e \in Dialogues : Holds(s, e)' /\ env'[s][e] = w
      <4>1. w \notin Queued(s) /\ ~ (s = r /\ w = v)
        BY <3>1, <2>6
      <4>2. PICK e \in Dialogues : Holds(s, e) /\ env[s][e] = w
        BY <4>1, <3>1 DEF LeaseInv, NoVMLost
      <4>3. <<s, e>> # <<r, d>>
        BY <4>1, <4>2 DEF v
      <4> QED  BY <4>2, <4>3, <2>1, <2>7
    <3>2. \A s \in Ranks : Queued(s)' \subseteq VMsOf(s) /\ IsInjective(queue'[s])
      BY <2>3, <2>6 DEF LeaseInv, NoVMLost
    <3> QED  BY <3>1, <3>2 DEF NoVMLost
  <2> QED  BY <2>8, <2>9, <2>10, <2>11, <2>12 DEF LeaseInv
<1>10. CASE UNCHANGED vars
  <2>1. PhaseFacts' /\ SealIsEnv'
    BY <1>10 DEF vars, LeaseInv, PhaseFacts, SealIsEnv
  <2> QED  BY <1>10, <2>1, SameMachines DEF vars, LeaseInv
<1> QED
  BY <1>1, <1>2, <1>3, <1>4, <1>5, <1>6, <1>7, <1>8, <1>9, <1>10
     DEF Next, Rollout, RewardThread

\* All the later theorems start here.
LEMMA LeaseInvariant ==
  ASSUME ForeignIds = {}
  PROVE  Spec => [](TurnInv /\ LeaseInv)
<1>1. Init => TurnInv /\ LeaseInv
  BY InitTurnInv, InitLeaseInv
<1>2. (TurnInv /\ LeaseInv) /\ [Next]_vars => (TurnInv /\ LeaseInv)'
  BY NextTurnInv, NextLeaseInv
<1> QED  BY <1>1, <1>2, PTL DEF Spec

\* Two ranks never hold the same machine: their slices are disjoint.
LEMMA HolderUnique ==
  ASSUME LeaseInv,
         NEW r \in Ranks, NEW d \in Dialogues, Holds(r, d),
         NEW s \in Ranks, NEW e \in Dialogues, Holds(s, e),
         env[r][d] = env[s][e]
  PROVE  r = s /\ d = e
<1>1. env[r][d] \in VMsOf(r) /\ env[r][d] \in VMsOf(s)
  BY DEF LeaseInv, HeldInSlice, Holds
<1>2. r = s
  BY <1>1, SlicesDisjoint
<1> QED  BY <1>2 DEF LeaseInv, HeldOnce

(***************************************************************************)
(* As long as the model repeats no mark but its own, a dialogue has its    *)
(* machine to itself, on every rank and for every number of machines,      *)
(* dialogues and turns.                                                    *)
(***************************************************************************)
THEOREM Exclusive ==
  ASSUME ForeignIds = {}
  PROVE  Spec => []ExclusiveVM
<1>1. LeaseInv => ExclusiveVM
  BY HolderUnique DEF ExclusiveVM, LeaseInv, HeldNotQueued
<1> QED  BY <1>1, LeaseInvariant, PTL

(***************************************************************************)
(* No machine leaks and the queue never grows past the slice.              *)
(***************************************************************************)
THEOREM NothingLost ==
  ASSUME ForeignIds = {}
  PROVE  Spec => []NoVMLost
<1>1. LeaseInv => NoVMLost
  BY DEF LeaseInv
<1> QED  BY <1>1, LeaseInvariant, PTL

(***************************************************************************)
(* The reward's search through the text finds the machine of the rollout,  *)
(* and the KeyError of mycom_envs[env_id] never happens.                   *)
(***************************************************************************)
THEOREM SealSound ==
  ASSUME ForeignIds = {}
  PROVE  Spec => [](SealFindsLease /\ \A r \in Ranks : phase[r] # "crashed")
<1>1. LeaseInv => SealFindsLease /\ \A r \in Ranks : phase[r] # "crashed"
  BY DEF LeaseInv, SealIsEnv, SealFindsLease, PhaseFacts
<1> QED  BY <1>1, LeaseInvariant, PTL

(***************************************************************************)
(* With at least one machine per dialogue of the batch the blocking        *)
(* queue.get() never finds the queue empty.  The argument is a count: an   *)
(* empty queue means every machine of the slice is held, by a dialogue     *)
(* other than the one about to take one.                                   *)
(***************************************************************************)
THEOREM EnoughVMs ==
  ASSUME ForeignIds = {}, BatchSize <= VMsPerRank
  PROVE  Spec => []NeverStarved
<1>1. ASSUME TurnInv, LeaseInv,
             NEW r \in Ranks, phase[r] = "step", turn[r] = 1, pending[r] # {},
             queue[r] = <<>>
      PROVE  FALSE
  <2>1. PICK d \in Dialogues : d \in pending[r]
    BY <1>1 DEF TurnInv, TypeOK
  <2>2. ~ Holds(r, d)
    BY <1>1, <2>1 DEF LeaseInv, PhaseFacts, Holds
  <2>3. Queued(r) = {}
    BY <1>1 DEF Queued, Range
  <2> DEFINE f == [v \in VMsOf(r) |->
                     CHOOSE e \in Dialogues : Holds(r, e) /\ env[r][e] = v]
             D == Dialogues \ {d}
  <2>4. ASSUME NEW v \in VMsOf(r)
        PROVE  f[v] \in D /\ env[r][f[v]] = v
    <3>1. \E e \in Dialogues : Holds(r, e) /\ env[r][e] = v
      BY <1>1, <2>3 DEF LeaseInv, NoVMLost
    <3> QED  BY <3>1, <2>2
  <2>5. f \in Injection(VMsOf(r), D)
    <3>1. f \in [VMsOf(r) -> D]
      BY <2>4
    <3>2. IsInjective(f)
      BY <2>4 DEF IsInjective
    <3> QED  BY <3>1, <3>2 DEF Injection
  <2> HIDE DEF f
  <2>6. IsFiniteSet(Dialogues) /\ Cardinality(Dialogues) = BatchSize
    BY RolloutAssumption, FS_Interval DEF Dialogues
  <2>7. IsFiniteSet(D) /\ Cardinality(D) = BatchSize - 1
    BY <2>6, FS_RemoveElement
  <2> HIDE DEF D
  <2>8. Cardinality(VMsOf(r)) <= BatchSize - 1
    BY <2>5, <2>7, FS_Injection
  <2>9. Cardinality(VMsOf(r)) = EndIdx(r) - StartIdx(r)
    <3>1. /\ StartIdx(r) \in Int /\ EndIdx(r) - 1 \in Int
          /\ StartIdx(r) + VMsPerRank <= EndIdx(r)
      BY StartInRange
    <3>2. Cardinality(StartIdx(r) .. EndIdx(r) - 1)
            = IF StartIdx(r) > EndIdx(r) - 1 THEN 0 ELSE EndIdx(r) - 1 - StartIdx(r) + 1
      BY <3>1, FS_Interval
    <3> QED  BY <3>1, <3>2, StartInRange, DivisionFacts DEF VMsOf
  <2> QED  BY <2>8, <2>9, StartInRange, DivisionFacts, RolloutAssumption
<1>2. TurnInv /\ LeaseInv => NeverStarved
  BY <1>1 DEF NeverStarved
<1> QED  BY <1>2, LeaseInvariant, PTL

-----------------------------------------------------------------------------
(***************************************************************************)
(* The refinement of VMLease.                                              *)
(***************************************************************************)

\* The user of a machine is the dialogue that holds it, if there is one.
UserIsHolder ==
  \A v \in AllVMs :
    /\ \A r \in Ranks, d \in Dialogues :
         Holds(r, d) /\ env[r][d] = v => UserOf(v) = <<r, d>>
    /\ (\A r \in Ranks, d \in Dialogues : Holds(r, d) => env[r][d] # v)
         => UserOf(v) = NoUser
    /\ UserOf(v) # NoUser => \E r \in Ranks, d \in Dialogues :
         UserOf(v) = <<r, d>> /\ Holds(r, d) /\ env[r][d] = v

LEMMA HolderLemma == LeaseInv => UserIsHolder
<1> SUFFICES ASSUME LeaseInv, NEW v \in AllVMs
             PROVE  UserIsHolder!(v)
  BY DEF UserIsHolder
<1> DEFINE holders == {u \in Ranks \X Dialogues : Holds(u[1], u[2]) /\ env[u[1]][u[2]] = v}
<1>1. UserOf(v) = IF holders = {} THEN NoUser ELSE CHOOSE u \in holders : TRUE
  BY DEF UserOf
<1>2. \A r \in Ranks, d \in Dialogues :
        <<r, d>> \in holders <=> Holds(r, d) /\ env[r][d] = v
  OBVIOUS
<1>3. \A u \in holders : \E r \in Ranks, d \in Dialogues : u = <<r, d>>
  OBVIOUS
<1>4. \A r, s \in Ranks, d, e \in Dialogues :
        <<r, d>> \in holders /\ <<s, e>> \in holders => <<r, d>> = <<s, e>>
  BY <1>2, HolderUnique
<1> HIDE DEF holders
<1>5. ASSUME NEW r \in Ranks, NEW d \in Dialogues, Holds(r, d), env[r][d] = v
      PROVE  UserOf(v) = <<r, d>>
  <2>1. <<r, d>> \in holders
    BY <1>2, <1>5
  <2>2. \A u \in holders : u = <<r, d>>
    BY <1>3, <1>4, <2>1
  <2> QED  BY <1>1, <2>1, <2>2
<1>6. ASSUME \A r \in Ranks, d \in Dialogues : Holds(r, d) => env[r][d] # v
      PROVE  UserOf(v) = NoUser
  <2>1. holders = {}
    BY <1>2, <1>3, <1>6
  <2> QED  BY <1>1, <2>1
<1>7. ASSUME UserOf(v) # NoUser
      PROVE  \E r \in Ranks, d \in Dialogues :
               UserOf(v) = <<r, d>> /\ Holds(r, d) /\ env[r][d] = v
  <2>1. UserOf(v) \in holders
    BY <1>1, <1>7
  <2>2. PICK r \in Ranks, d \in Dialogues : UserOf(v) = <<r, d>>
    BY <1>3, <2>1
  <2> QED  BY <1>2, <2>1, <2>2
<1> QED  BY <1>5, <1>6, <1>7

\* A machine keeps its user if the same dialogue holds it before and after.
LEMMA SameUser ==
  ASSUME UserIsHolder, UserIsHolder', NEW w \in AllVMs,
         \A r \in Ranks, d \in Dialogues :
           Holds(r, d) /\ env[r][d] = w <=> Holds(r, d)' /\ env'[r][d] = w
  PROVE  UserOf(w)' = UserOf(w)
<1>1. CASE \E r \in Ranks, d \in Dialogues : Holds(r, d) /\ env[r][d] = w
  <2>1. PICK r \in Ranks, d \in Dialogues : Holds(r, d) /\ env[r][d] = w
    BY <1>1
  <2>2. UserOf(w) = <<r, d>>
    BY <2>1 DEF UserIsHolder
  <2>3. UserOf(w)' = <<r, d>>
    BY <2>1 DEF UserIsHolder
  <2> QED  BY <2>2, <2>3
<1>2. CASE \A r \in Ranks, d \in Dialogues : ~ (Holds(r, d) /\ env[r][d] = w)
  <2>1. UserOf(w) = NoUser
    BY <1>2 DEF UserIsHolder
  <2>2. UserOf(w)' = NoUser
    BY <1>2 DEF UserIsHolder
  <2> QED  BY <2>1, <2>2
<1> QED  BY <1>1, <1>2

\* A step after which the same dialogues hold the same machines is a stutter.
LEMMA SameLease ==
  ASSUME UserIsHolder, UserIsHolder',
         \A r \in Ranks, d \in Dialogues :
           (Holds(r, d)' <=> Holds(r, d)) /\ (Holds(r, d) => env'[r][d] = env[r][d])
  PROVE  UNCHANGED Lease!vars
<1>1. \A w \in AllVMs : UserOf(w)' = UserOf(w)
  BY SameUser
<1> QED  BY <1>1 DEF Lease!vars

\* TakeVM on turn 1 is the Acquire of the abstract lease.
LEMMA AcquireRefines ==
  ASSUME ForeignIds = {}, TurnInv, LeaseInv, UserIsHolder, UserIsHolder',
         NEW r \in Ranks, NEW d \in Dialogues, AcquireStep(r, d)
  PROVE  Lease!Next
<1> USE RolloutAssumption
<1>1. PICK v : v = Head(queue[r])
  OBVIOUS
<1>2. queue[r] \in Seq(Nat) /\ queue[r] # <<>> /\ IsInjective(queue[r])
  BY DEF AcquireStep, TakeVM, TurnInv, TypeOK, LeaseInv, NoVMLost
<1>3. v \in Queued(r)
  BY <1>1, <1>2, TailQueue DEF Queued
<1>4. v \in VMsOf(r) /\ v \in Nat /\ v \in AllVMs
  BY <1>3, SliceIsNat, SlicesCover DEF LeaseInv, NoVMLost
<1>5. /\ env' = [env EXCEPT ![r][d] = v] /\ thread' = thread
      /\ phase[r] = "step" /\ turn[r] = 1 /\ d \in pending[r]
  BY <1>1 DEF AcquireStep, TakeVM, NextToStep
<1>6. env[r][d] = NoVM /\ thread[r][d] # "done"
  BY <1>5 DEF LeaseInv, PhaseFacts, TurnInv, TypeOK, ThreadFacts, Scoring
<1>7. /\ env'[r][d] = v /\ ~ Holds(r, d) /\ Holds(r, d)'
      /\ \A s \in Ranks, e \in Dialogues : <<s, e>> # <<r, d>> =>
           (Holds(s, e)' <=> Holds(s, e)) /\ env'[s][e] = env[s][e]
  BY <1>4, <1>5, <1>6 DEF Holds, TurnInv, TypeOK
<1>8. \A s \in Ranks, e \in Dialogues : Holds(s, e) => env[s][e] # v
  BY <1>3, <1>4, SlicesDisjoint DEF LeaseInv, HeldNotQueued, HeldInSlice, Holds
<1>9. UserOf(v) = NoUser
  BY <1>4, <1>8 DEF UserIsHolder
<1>10. UserOf(v)' = <<r, d>>
  BY <1>4, <1>7 DEF UserIsHolder
<1>11. \A w \in AllVMs : w # v => UserOf(w)' = UserOf(w)
  BY <1>7, SameUser
<1>12. \A w \in AllVMs : UserOf(w) # <<r, d>>
  <2>1. <<r, d>> # NoUser
    BY DEF NoUser
  <2> QED  BY <1>7, <2>1 DEF UserIsHolder
<1>13. Lease!Acquire(<<r, d>>, v)
  BY <1>4, <1>9, <1>10, <1>11, <1>12 DEF Lease!Acquire
<1> QED  BY <1>4, <1>13 DEF Lease!Next

\* ReturnVM is the Release.
LEMMA ReleaseRefines ==
  ASSUME TurnInv, LeaseInv, UserIsHolder, UserIsHolder',
         NEW r \in Ranks, NEW d \in Dialogues, ReturnVM(r, d)
  PROVE  Lease!Next
<1>1. PICK v : v = env[r][d]
  OBVIOUS
<1>2. /\ phase[r] = "score" /\ thread[r][d] = "evaluating"
      /\ thread' = [thread EXCEPT ![r][d] = "done"] /\ env' = env
  BY DEF ReturnVM
<1>3. Holds(r, d)
  BY <1>2 DEF Holds, TurnInv, ThreadFacts, LeaseInv, SealIsEnv
<1>4. v \in AllVMs
  BY <1>1, <1>3, SlicesCover DEF Holds, LeaseInv, HeldInSlice
<1>5. /\ ~ Holds(r, d)'
      /\ \A s \in Ranks, e \in Dialogues : <<s, e>> # <<r, d>> =>
           (Holds(s, e)' <=> Holds(s, e)) /\ env'[s][e] = env[s][e]
  BY <1>2 DEF Holds, TurnInv, TypeOK
<1>6. UserOf(v) = <<r, d>> /\ UserOf(v) # NoUser
  BY <1>1, <1>3, <1>4 DEF UserIsHolder, NoUser
<1>7. UserOf(v)' = NoUser
  <2>1. \A s \in Ranks, e \in Dialogues : Holds(s, e)' => env'[s][e] # v
    BY <1>1, <1>3, <1>5, HolderUnique
  <2> QED  BY <1>4, <2>1 DEF UserIsHolder
<1>8. \A w \in AllVMs : w # v => UserOf(w)' = UserOf(w)
  BY <1>1, <1>2, <1>5, SameUser
<1>9. Lease!Release(v)
  BY <1>4, <1>6, <1>7, <1>8 DEF Lease!Release
<1> QED  BY <1>4, <1>9 DEF Lease!Next

LEMMA LeaseStep ==
  ASSUME ForeignIds = {}, TurnInv, LeaseInv, UserIsHolder, UserIsHolder', [Next]_vars
  PROVE  [Lease!Next]_(Lease!vars)
<1>1. ASSUME NEW r \in Ranks, NEW d \in Dialogues, SearchSeal(r, d)
      PROVE  UNCHANGED Lease!vars
  <2>1. /\ env' = env
        /\ thread' = [thread EXCEPT ![r][d] =
                        IF env[r][d] = NoVM THEN "done" ELSE "evaluating"]
        /\ thread[r][d] = "idle"
    BY <1>1 DEF SearchSeal, LeaseInv, SealIsEnv
  <2> QED  BY <2>1, SameLease DEF Holds, TurnInv, TypeOK
<1>2. CASE NextBatch
  <2>1. \A r \in Ranks, d \in Dialogues : ~ Holds(r, d) /\ ~ Holds(r, d)'
    BY <1>2, RolloutAssumption DEF NextBatch, Fresh, Holds, LeaseInv, PhaseFacts
  <2> QED  BY <2>1, SameLease
<1>3. CASE UNCHANGED <<env, thread>>
  BY <1>3, SameLease DEF Holds
<1>4. \/ \E r \in Ranks, d \in Dialogues :
           AcquireStep(r, d) \/ ReturnVM(r, d) \/ SearchSeal(r, d)
      \/ NextBatch
      \/ UNCHANGED <<env, thread>>
  BY DEF Next, Rollout, RewardThread, vars, dialogueVars, GatherHasData, Respond,
         ContinueStep, NextTurn, RewardsDone
<1> QED  BY <1>1, <1>2, <1>3, <1>4, AcquireRefines, ReleaseRefines

(***************************************************************************)
(* The rollouts, the rewards and the text between them implement the       *)
(* abstract lease, for every number of machines, ranks and dialogues.      *)
(***************************************************************************)
THEOREM Refinement ==
  ASSUME ForeignIds = {}
  PROVE  Spec => ImplementsLease
<1>1. Init => Lease!Init
  <2> SUFFICES ASSUME Init PROVE Lease!Init
    OBVIOUS
  <2>1. \A r \in Ranks, d \in Dialogues : ~ Holds(r, d)
    BY DEF Init, Fresh, Holds
  <2>2. \A v \in AllVMs : UserOf(v) = NoUser
    BY <2>1, InitLeaseInv, HolderLemma DEF UserIsHolder
  <2> QED  BY <2>2 DEF Lease!Init
<1>2. TurnInv /\ LeaseInv /\ UserIsHolder /\ UserIsHolder' /\ [Next]_vars
        => [Lease!Next]_(Lease!vars)
  BY LeaseStep
<1> QED  BY <1>1, <1>2, HolderLemma, LeaseInvariant, PTL DEF Spec, ImplementsLease, Lease!Spec
=============================================================================
