------------------------- MODULE RewardFilesProofs --------------------------
(***************************************************************************)
(* Whose model is scored, and what reward its distance gets, for every set *)
(* of dialogues, of tasks and of processes.                                *)
(***************************************************************************)
EXTENDS RewardScores, TLAPS

LEMMA InitFiles == Init => FileInv
BY FilesAssumption DEF Init, FileInv, TypeOK, DownloadFacts, CopyFacts,
   RewardFacts, OwnTaskScored, AloneOwnScored, Models, Marks

\* A machine that was not cleaned, or that still runs an old script, stays so.
LEMMA StaleStays ==
  ASSUME TypeOK, [Next]_vars, NEW k \in Tasks, MayBeStale(k)
  PROVE  MayBeStale(k)'
<1>1. PICK e \in Dialogues :
        TaskOf[e] = k /\ (OldModel \in left[e] \/ (pc[e] # "reset" /\ ~ cleaned[e]))
  BY DEF MayBeStale
<1>2. SUFFICES OldModel \in left'[e] \/ (pc'[e] # "reset" /\ ~ cleaned'[e])
  BY <1>1 DEF MayBeStale
<1>3. CASE UNCHANGED vars
  BY <1>1, <1>3 DEF vars
<1>4. ASSUME NEW d \in Dialogues, Dialogue(d)
      PROVE  OldModel \in left'[e] \/ (pc'[e] # "reset" /\ ~ cleaned'[e])
  <2>1. left[e] \subseteq left'[e]
    <3>1. left' \in {left, [left EXCEPT ![d] = left[d] \cup ({d} \cap Slow)]}
      BY <1>4 DEF Dialogue, CleanUp, RunCodes, LateExport, NothingToScore, Fetch,
         OpenCopy, WriteCopy, CopyRaises, LoadCopy
    <3> QED  BY <3>1 DEF TypeOK
  <2>2. pc[e] # "reset" /\ ~ cleaned[e] => pc'[e] # "reset" /\ ~ cleaned'[e]
    BY <1>1, <1>4 DEF TypeOK, Dialogue, CleanUp, RunCodes, LateExport, NothingToScore,
       Fetch, OpenCopy, WriteCopy, CopyRaises, LoadCopy, Goto, Scoring
  <2> QED  BY <1>1, <2>1, <2>2
<1> QED  BY <1>3, <1>4 DEF Next

\* What a thread writes, and what it scores.
LEMMA Written ==
  ASSUME NEW d \in Dialogues, WriteCopy(d)
  PROVE  \E x \in {got[d], Mixed} :
           /\ file' = [file EXCEPT ![TaskOf[d]] = x]
           /\ x = got[d] \/ file[TaskOf[d]] # Emptied
BY DEF WriteCopy, PathOf

LEMMA Scored ==
  ASSUME NEW d \in Dialogues, LoadCopy(d)
  PROVE  \E x \in {Failed, Mixed, file[TaskOf[d]]} :
           /\ reward' = [reward EXCEPT ![d] = x]
           /\ x = Failed \/ (x = file[TaskOf[d]] /\ x # Emptied)
                \/ (x = Mixed /\ \E e \in SameFile(d) : pc[e] = "write")
BY DEF LoadCopy, PathOf

\* That a copy which is loaded has been opened is part of CopyFacts.
LEMMA TypeStep == TypeOK /\ CopyFacts /\ [Next]_vars => TypeOK'
<1>1. SUFFICES ASSUME TypeOK, CopyFacts, [Next]_vars PROVE TypeOK'
  OBVIOUS
<1>2. CASE UNCHANGED vars
  BY <1>1, <1>2 DEF vars, TypeOK
<1>3. ASSUME NEW d \in Dialogues, Dialogue(d)
      PROVE  TypeOK'
  <2> USE <1>1, FilesAssumption DEF TypeOK, Goto, Models, Marks
  <2>1. CASE CleanUp(d)
    BY <2>1 DEF CleanUp
  <2>2. CASE RunCodes(d)
    BY <2>2 DEF RunCodes
  <2>3. CASE NothingToScore(d) \/ LateExport(d)
    BY <2>3 DEF NothingToScore, LateExport
  <2>4. CASE Fetch(d)
    BY <2>4 DEF Fetch
  <2>5. CASE OpenCopy(d)
    BY <2>5 DEF OpenCopy, PathOf
  <2>6. CASE WriteCopy(d)
    BY <2>6, Written DEF WriteCopy
  <2>8. CASE CopyRaises(d)
    BY <2>8 DEF CopyRaises, PathOf
  <2>7. CASE LoadCopy(d)
    <3>1. PICK x \in {Failed, Mixed, file[TaskOf[d]]} :
            /\ reward' = [reward EXCEPT ![d] = x]
            /\ x = Failed \/ x = Mixed \/ (x = file[TaskOf[d]] /\ x # Emptied)
      BY <2>7, Scored
    <3>2. file[TaskOf[d]] # NoFile
      BY <2>7 DEF LoadCopy, CopyFacts
    <3> QED  BY <2>7, <3>1, <3>2 DEF LoadCopy
  <2> QED  BY <1>3, <2>1, <2>2, <2>3, <2>4, <2>5, <2>6, <2>7, <2>8
           DEF Dialogue
<1> QED  BY <1>1, <1>2, <1>3 DEF Next

LEMMA NextFiles == FileInv /\ [Next]_vars => FileInv'
<1>1. SUFFICES ASSUME FileInv, [Next]_vars PROVE FileInv'
  OBVIOUS
<1>2. TypeOK'
  BY <1>1, TypeStep DEF FileInv
<1>3. \A k \in Tasks : MayBeStale(k) => MayBeStale(k)'
  BY <1>1, StaleStays DEF FileInv
<1>4. CASE UNCHANGED vars
  BY <1>1, <1>4 DEF vars, FileInv, TypeOK, DownloadFacts, CopyFacts, RewardFacts,
     OwnTaskScored, AloneOwnScored, MayBeStale
<1>5. ASSUME NEW d \in Dialogues, Dialogue(d)
      PROVE  FileInv'
  <2> USE FilesAssumption
  <2>0. TypeOK /\ DownloadFacts /\ CopyFacts /\ RewardFacts
        /\ OwnTaskScored /\ AloneOwnScored
    BY <1>1 DEF FileInv
  <2>1. CASE CleanUp(d)
    <3>1. DownloadFacts'
      <4>1. /\ pc'[d] = "run" /\ vm'[d] \in {vm[d], NoFile}
            /\ cleaned'[d] = (vm'[d] = NoFile)
            /\ \A e \in Dialogues \ {d} : pc'[e] = pc[e] /\ vm'[e] = vm[e]
                                           /\ cleaned'[e] = cleaned[e]
            /\ UNCHANGED <<left, got>>
        BY <2>0, <2>1 DEF CleanUp, Goto, TypeOK
      <4>2. vm'[d] = OldModel => MayBeStale(TaskOf[d])'
        BY <4>1 DEF MayBeStale, Marks
      <4> QED  BY <1>3, <2>0, <4>1, <4>2 DEF DownloadFacts, Marks
    <3>2. CopyFacts'
      BY <1>3, <2>0, <2>1 DEF CopyFacts, TypeOK, CleanUp, Goto, SameFile
    <3>3. RewardFacts' /\ OwnTaskScored' /\ AloneOwnScored'
      BY <1>3, <2>0, <2>1 DEF RewardFacts, OwnTaskScored, AloneOwnScored, TypeOK,
         CleanUp, Goto, SameFile
    <3> QED  BY <1>2, <3>1, <3>2, <3>3 DEF FileInv
  <2>2. CASE RunCodes(d)
    <3>1. DownloadFacts'
      <4>1. /\ pc[d] = "run" /\ pc'[d] = "score" /\ vm'[d] \in {vm[d], d}
            /\ left[d] \subseteq left'[d] /\ left'[d] \subseteq left[d] \cup {d}
            /\ \A e \in Dialogues \ {d} : pc'[e] = pc[e] /\ vm'[e] = vm[e]
                                           /\ left'[e] = left[e]
            /\ UNCHANGED <<cleaned, got>>
        BY <2>0, <2>2 DEF RunCodes, Goto, TypeOK
      <4> QED  BY <1>3, <2>0, <4>1 DEF DownloadFacts, Marks
    <3>2. CopyFacts'
      BY <1>3, <2>0, <2>2 DEF CopyFacts, TypeOK, RunCodes, Goto, SameFile
    <3>3. RewardFacts' /\ OwnTaskScored' /\ AloneOwnScored'
      BY <1>3, <2>0, <2>2 DEF RewardFacts, OwnTaskScored, AloneOwnScored, TypeOK,
         RunCodes, Goto, SameFile
    <3> QED  BY <1>2, <3>1, <3>2, <3>3 DEF FileInv
  <2>8. CASE LateExport(d)
    <3>1. PICK m \in left[d] : vm' = [vm EXCEPT ![d] = m]
      BY <2>8 DEF LateExport
    <3>2. UNCHANGED <<pc, cleaned, left, got, file, reward>>
      BY <2>8 DEF LateExport
    <3>3. m \in {d, OldModel} /\ (m = OldModel => MayBeStale(TaskOf[d]))
      BY <2>0, <3>1 DEF DownloadFacts, MayBeStale
    <3>4. DownloadFacts'
      BY <1>3, <2>0, <3>1, <3>2, <3>3 DEF DownloadFacts, TypeOK, Marks
    <3>5. CopyFacts' /\ RewardFacts' /\ OwnTaskScored' /\ AloneOwnScored'
      BY <1>3, <2>0, <3>2 DEF CopyFacts, RewardFacts, OwnTaskScored, AloneOwnScored,
         TypeOK, SameFile
    <3> QED  BY <1>2, <3>4, <3>5 DEF FileInv
  <2>9. CASE CopyRaises(d)
    <3>1. /\ pc[d] \in {"open", "write"} /\ pc' = [pc EXCEPT ![d] = "done"]
          /\ file' \in {file, [file EXCEPT ![TaskOf[d]] = Mixed]}
          /\ reward' = [reward EXCEPT ![d] = Failed]
          /\ UNCHANGED <<cleaned, vm, left, got>> /\ TaskOf[d] \in Tasks
      BY <2>9 DEF CopyRaises, Goto, PathOf
    <3>2. /\ reward'[d] = Failed /\ pc'[d] = "done"
          /\ \A e \in Dialogues : e # d => reward'[e] = reward[e] /\ pc'[e] = pc[e]
          /\ \A e \in Dialogues : SameFile(e)' = SameFile(e)
      BY <2>0, <3>1 DEF TypeOK, SameFile
    <3>3. DownloadFacts'
      BY <1>3, <2>0, <3>1, <3>2 DEF DownloadFacts
    <3>4. RewardFacts' /\ OwnTaskScored' /\ AloneOwnScored'
      BY <1>3, <2>0, <3>1, <3>2 DEF RewardFacts, OwnTaskScored, AloneOwnScored, Marks
    <3>5. CopyFacts'
      <4>1. \A k \in Tasks :
              file'[k] = file[k] \/ (k = TaskOf[d] /\ file'[k] = Mixed)
        <5>1. TaskOf[d] \in Tasks /\ file \in [Tasks -> Models \cup {NoFile, Emptied, Mixed}]
          BY <2>0, <3>1 DEF TypeOK
        <5>2. CASE file' = file
          BY <5>2
        <5>3. CASE file' = [file EXCEPT ![TaskOf[d]] = Mixed]
          BY <5>1, <5>3
        <5> QED  BY <3>1, <5>2, <5>3
      <4>2. \A e \in Dialogues : e # d /\ TaskOf[e] = TaskOf[d] => SameFile(e) # {e}
        BY DEF SameFile
      <4> QED  BY <1>3, <2>0, <3>1, <3>2, <4>1, <4>2 DEF CopyFacts, Marks
    <3> QED  BY <1>2, <3>3, <3>4, <3>5 DEF FileInv
  <2>3. CASE NothingToScore(d)
    BY <1>2, <1>3, <2>0, <2>3 DEF FileInv, DownloadFacts, CopyFacts, RewardFacts,
       OwnTaskScored, AloneOwnScored, TypeOK, NothingToScore, Scoring, Goto, SameFile
  <2>4. CASE Fetch(d)
    <3>1. /\ pc[d] = "score" /\ pc'[d] = "open"
          /\ got'[d] \in {vm[d], Mixed} /\ got'[d] # NoFile
          /\ \A e \in Dialogues \ {d} : pc'[e] = pc[e] /\ got'[e] = got[e]
          /\ UNCHANGED <<cleaned, vm, left, file, reward>>
      BY <2>0, <2>4 DEF Fetch, Scoring, Goto, TypeOK, Marks
    <3>2. DownloadFacts'
      BY <1>3, <2>0, <3>1 DEF DownloadFacts, Marks
    <3>3. CopyFacts'
      BY <1>3, <2>0, <3>1 DEF CopyFacts, SameFile
    <3>4. RewardFacts' /\ OwnTaskScored' /\ AloneOwnScored'
      BY <1>3, <2>0, <3>1 DEF RewardFacts, OwnTaskScored, AloneOwnScored, SameFile
    <3> QED  BY <1>2, <3>2, <3>3, <3>4 DEF FileInv
  <2>5. CASE OpenCopy(d)
    <3>1. DownloadFacts' /\ RewardFacts' /\ OwnTaskScored' /\ AloneOwnScored'
      BY <1>3, <2>0, <2>5 DEF DownloadFacts, RewardFacts, OwnTaskScored,
         AloneOwnScored, TypeOK, OpenCopy, Goto, SameFile
    <3>2. CopyFacts'
      BY <1>3, <2>0, <2>5 DEF CopyFacts, TypeOK, OpenCopy, PathOf, Goto, SameFile, Marks
    <3> QED  BY <1>2, <3>1, <3>2 DEF FileInv
  <2>6. CASE WriteCopy(d)
    <3>1. DownloadFacts' /\ RewardFacts' /\ OwnTaskScored' /\ AloneOwnScored'
      BY <1>3, <2>0, <2>6 DEF DownloadFacts, RewardFacts, OwnTaskScored,
         AloneOwnScored, TypeOK, WriteCopy, Goto, SameFile
    <3>2. CopyFacts'
      <4>1. PICK x \in {got[d], Mixed} :
              /\ file' = [file EXCEPT ![TaskOf[d]] = x]
              /\ x = got[d] \/ file[TaskOf[d]] # Emptied
        BY <2>6, Written
      <4>2. /\ pc[d] = "write" /\ pc' = [pc EXCEPT ![d] = "load"]
            /\ got' = got /\ TaskOf[d] \in Tasks
            /\ got[d] # NoFile
            /\ got[d] = OldModel => MayBeStale(TaskOf[d])
            /\ got[d] \in Dialogues => got[d] = d
        BY <2>0, <2>6 DEF WriteCopy, Goto, DownloadFacts, TypeOK, MayBeStale
      <4>3. x # NoFile /\ (x = OldModel => MayBeStale(TaskOf[d]))
            /\ (x \in Dialogues => x = d)
        BY <4>1, <4>2 DEF Marks
      <4>4. file'[TaskOf[d]] = x /\ \A k \in Tasks : k # TaskOf[d] => file'[k] = file[k]
        BY <2>0, <4>1, <4>2 DEF TypeOK
      <4>5. \A e \in Dialogues :
              /\ TaskOf[e] = TaskOf[d] /\ SameFile(e) = {e} => e = d
              /\ e # d => pc'[e] = pc[e]
        BY <2>0, <4>2 DEF SameFile, TypeOK
      <4>6. SameFile(d) = {d} => x = got'[d] /\ pc'[d] = "load"
        BY <2>0, <4>1, <4>2 DEF CopyFacts, TypeOK
      <4>7. \A e \in Dialogues : SameFile(e)' = SameFile(e)
        BY DEF SameFile
      <4>8. ASSUME NEW k \in Tasks PROVE
              /\ file'[k] \in Dialogues => TaskOf[file'[k]] = k
              /\ \A e \in Dialogues :
                   TaskOf[e] = k /\ pc'[e] \in {"write", "load"} =>
                     /\ file'[k] # NoFile
                     /\ file'[k] = OldModel => MayBeStale(k)'
                     /\ SameFile(e) = {e} =>
                          file'[k] = IF pc'[e] = "write" THEN Emptied ELSE got'[e]
        <5>1. CASE k = TaskOf[d]
          BY <1>3, <4>3, <4>4, <4>5, <4>6, <5>1
        <5>2. CASE k # TaskOf[d]
          BY <1>3, <2>0, <4>2, <4>4, <4>5, <5>2 DEF CopyFacts
        <5> QED  BY <5>1, <5>2
      <4> QED  BY <4>7, <4>8 DEF CopyFacts
    <3> QED  BY <1>2, <3>1, <3>2 DEF FileInv
  <2>7. CASE LoadCopy(d)
    <3>1. DownloadFacts' /\ CopyFacts'
      BY <1>3, <2>0, <2>7 DEF DownloadFacts, CopyFacts, TypeOK, LoadCopy, Goto, SameFile
    <3>2. RewardFacts' /\ OwnTaskScored' /\ AloneOwnScored'
      <4>1. PICK x \in {Failed, Mixed, file[TaskOf[d]]} :
              /\ reward' = [reward EXCEPT ![d] = x]
              /\ x = Failed \/ (x = file[TaskOf[d]] /\ x # Emptied)
                   \/ (x = Mixed /\ \E e \in SameFile(d) : pc[e] = "write")
        BY <2>7, Scored
      <4>2. /\ pc[d] = "load" /\ pc' = [pc EXCEPT ![d] = "done"]
            /\ UNCHANGED <<cleaned, vm, left, got, file>> /\ TaskOf[d] \in Tasks
        BY <2>0, <2>7 DEF LoadCopy, Goto, DownloadFacts
      <4>3. x = OldModel => MayBeStale(TaskOf[d])
        BY <2>0, <4>1, <4>2 DEF CopyFacts
      <4>4. x \in Dialogues => TaskOf[x] = TaskOf[d]
        BY <2>0, <4>1, <4>2 DEF CopyFacts, Marks
      <4>5. SameFile(d) = {d} => x \in {got[d], Failed}
        BY <2>0, <4>1, <4>2 DEF CopyFacts
      <4>6. /\ reward'[d] = x /\ pc'[d] = "done"
            /\ \A e \in Dialogues : e # d => reward'[e] = reward[e] /\ pc'[e] = pc[e]
        BY <2>0, <4>1, <4>2 DEF TypeOK
      <4>7. RewardFacts'
        BY <1>3, <2>0, <4>3, <4>6 DEF RewardFacts
      <4>8. OwnTaskScored'
        BY <2>0, <4>4, <4>6 DEF OwnTaskScored
      <4>9. \A e \in Dialogues : SameFile(e)' = SameFile(e)
        BY DEF SameFile
      <4>10. AloneOwnScored'
        BY <2>0, <4>2, <4>5, <4>6, <4>9 DEF AloneOwnScored
      <4> QED  BY <4>7, <4>8, <4>10
    <3> QED  BY <1>2, <3>1, <3>2 DEF FileInv
  <2> QED  BY <1>5, <2>1, <2>2, <2>3, <2>4, <2>5, <2>6, <2>7, <2>8, <2>9
           DEF Dialogue
<1> QED  BY <1>1, <1>4, <1>5 DEF Next

LEMMA FilesInvariant == Spec => []FileInv
BY InitFiles, NextFiles, PTL DEF Spec

\* The scoring refines what RewardFiles says of the models: a step of it is one
\* of RewardFiles or changes nothing there.
THEOREM ScoresImplementFiles == ScoresSpec => Spec
<1>1. ScoresInit => Init
  BY DEF ScoresInit
<1>2. [ScoresNext]_allVars => [Next]_vars
  <2>1. ASSUME NEW d \in Dialogues, Prepare(d) PROVE Next
    BY <2>1 DEF Prepare, Next, Dialogue
  <2>2. ASSUME NEW d \in Dialogues, LoadOwn(d) PROVE Next
    BY <2>2 DEF LoadOwn, Next, Dialogue
  <2>3. ASSUME NEW d \in Dialogues, Seed(d) \/ Draw(d) \/ Compare(d)
        PROVE  UNCHANGED vars
    BY <2>3 DEF Seed, Draw, Compare
  <2>4. UNCHANGED allVars => UNCHANGED vars
    BY DEF allVars
  <2> QED  BY <2>1, <2>2, <2>3, <2>4 DEF ScoresNext
<1> QED  BY <1>1, <1>2, PTL DEF ScoresSpec, Spec

LEMMA FilesInvariantOfScores == ScoresSpec => []FileInv
BY ScoresImplementFiles, FilesInvariant, PTL

(***************************************************************************)
(* A model of another task is never scored, whatever the threads do at the *)
(* same time.                                                              *)
(***************************************************************************)
THEOREM TaskOfTheModel == ScoresSpec => []OwnTaskScored
<1>1. FileInv => OwnTaskScored
  BY DEF FileInv
<1> QED  BY <1>1, FilesInvariantOfScores, PTL

(***************************************************************************)
(* An old model is scored only where a machine could not be cleaned or     *)
(* still runs a script of an earlier dialogue: never from a local copy.    *)
(***************************************************************************)
THEOREM OldModels == ScoresSpec => []OldOnlyFromMachine
<1>1. FileInv => OldOnlyFromMachine
  BY DEF FileInv, RewardFacts, OldOnlyFromMachine, MayBeStale, SameFile
<1> QED  BY <1>1, FilesInvariantOfScores, PTL

(***************************************************************************)
(* A dialogue without a twin is scored for what its own machine gave.      *)
(***************************************************************************)
THEOREM OwnMachine == ScoresSpec => []AloneOwnScored
<1>1. FileInv => AloneOwnScored
  BY DEF FileInv
<1> QED  BY <1>1, FilesInvariantOfScores, PTL

-----------------------------------------------------------------------------
(***************************************************************************)
(* From a distance to its reward.                                          *)
(***************************************************************************)
LEMMA DivRange ==
  ASSUME NEW a \in Nat, NEW b \in Nat \ {0}
  PROVE  /\ a \div b \in Int
         /\ b * (a \div b) <= a /\ a < b * ((a \div b) + 1)
OBVIOUS

LEMMA LessByFactor ==
  ASSUME NEW b \in Nat \ {0}, NEW p \in Int, NEW q \in Int, b * p < b * (q + 1)
  PROVE  p <= q
OBVIOUS

LEMMA DivMonotone ==
  ASSUME NEW a \in Nat, NEW c \in Nat, a <= c, NEW b \in Nat \ {0}
  PROVE  a \div b <= c \div b
<1> DEFINE p == a \div b
           q == c \div b
<1>1. p \in Int /\ q \in Int /\ b * p <= a /\ c < b * (q + 1)
  BY DivRange
<1>2. b * p \in Int /\ b * (q + 1) \in Int
  BY <1>1
<1> HIDE DEF p, q
<1>3. b * p < b * (q + 1)
  BY <1>1, <1>2
<1>4. p <= q
  BY <1>1, <1>3, LessByFactor
<1> QED  BY <1>4 DEF p, q

LEMMA SolidRewardFalls ==
  /\ \A x \in Nat : SolidReward(x) \in 0 .. 100
  /\ \A x, y \in Nat : x <= y => SolidReward(x) >= SolidReward(y)
<1> DEFINE b == High - Low
           Drop(x) == (99 * (x - Low)) \div b
<1>1. b \in Nat \ {0} /\ Low \in Nat /\ High \in Nat
  BY ScoreAssumption
<1>2. ASSUME NEW x \in Nat, x > Low, x <= High
      PROVE  Drop(x) \in 0 .. 99
  <2>1. 99 * (x - Low) \in Nat /\ 99 * (x - Low) <= 99 * b
    BY <1>1, <1>2
  <2> DEFINE q == Drop(x)
  <2>2. q \in Int /\ b * q <= 99 * (x - Low) /\ 99 * (x - Low) < b * (q + 1)
    BY <1>1, <2>1, DivRange
  <2>3. b * q < b * (99 + 1) /\ b * 0 < b * (q + 1)
    <3> HIDE DEF q, b
    <3>1. b * q \in Int /\ b * (q + 1) \in Int /\ b * 100 = 99 * b + b
      BY <1>1, <2>2
    <3> QED  BY <1>1, <1>2, <2>1, <2>2, <3>1
  <2> HIDE DEF q
  <2>4. 0 <= q /\ q <= 99
    BY <1>1, <2>2, <2>3, LessByFactor
  <2> QED  BY <2>2, <2>4 DEF q
<1>3. ASSUME NEW x \in Nat, NEW y \in Nat, x <= y, x > Low
      PROVE  Drop(x) <= Drop(y)
  BY <1>1, <1>3, DivMonotone
<1> HIDE DEF b
<1>4. \A x \in Nat : SolidReward(x) = IF x <= Low THEN 100 ELSE IF x > High THEN 0
                                      ELSE 100 - Drop(x)
  BY DEF SolidReward, b
<1> HIDE DEF Drop
<1>5. \A x \in Nat : SolidReward(x) \in 0 .. 100
  BY <1>1, <1>2, <1>4
<1>6. ASSUME NEW x \in Nat, NEW y \in Nat, x <= y
      PROVE  SolidReward(x) >= SolidReward(y)
  <2>1. CASE x <= Low
    BY <1>4, <1>5, <2>1
  <2>2. CASE y > High
    <3>1. SolidReward(y) = 0
      BY <1>4, <2>2, ScoreAssumption
    <3> QED  BY <1>5, <3>1
  <2>3. CASE x > Low /\ y <= High
    <3>1. /\ Drop(x) \in 0 .. 99 /\ Drop(y) \in 0 .. 99 /\ Drop(x) <= Drop(y)
      BY <1>1, <1>2, <1>3, <1>6, <2>3
    <3>2. SolidReward(x) = 100 - Drop(x) /\ SolidReward(y) = 100 - Drop(y)
      BY <1>1, <1>4, <1>6, <2>3
    <3> QED  BY <3>1, <3>2
  <2> QED  BY <1>1, <2>1, <2>2, <2>3
<1> QED  BY <1>5, <1>6

LEMMA RewardFalls ==
  ASSUME NEW d \in Dialogues
  PROVE  /\ \A x \in Nat : RewardOf(d, x) \in 0 .. 100
         /\ \A x, y \in Nat : x <= y => RewardOf(d, x) >= RewardOf(d, y)
         /\ RewardOf(d, 0) = 100
BY SolidRewardFalls, ScoreAssumption DEF RewardOf, SketchReward, SolidReward

LEMMA InitScores == ScoresInit => ScoreInv
BY ScoreAssumption DEF ScoresInit, ScoreInv, ScoringTypes, Places, Rewarded, Samples,
   ExactRewardedAlone, Stages

LEMMA ExactIsDialogue == Failed \notin Faithful
BY FilesAssumption, ScoreAssumption DEF Marks

LEMMA NextScores == FileInv /\ ScoreInv /\ [ScoresNext]_allVars => ScoreInv'
<1> SUFFICES ASSUME FileInv, ScoreInv, [ScoresNext]_allVars
             PROVE  ScoreInv'
  OBVIOUS
<1>0. /\ TypeOK /\ ScoringTypes /\ Places /\ Rewarded /\ Samples /\ ExactRewardedAlone
      /\ \A d \in Dialogues : ProcOf[d] \in Procs
  BY ScoreAssumption DEF ScoreInv, FileInv
<1>1. CASE UNCHANGED allVars
  BY <1>0, <1>1 DEF allVars, scoring, vars, ScoreInv, ScoringTypes, Places, Rewarded,
     Samples, ExactRewardedAlone, Exact, IsSketch, AloneInProcess, RewardOf
<1>2. ASSUME NEW d \in Dialogues, Prepare(d) PROVE ScoreInv'
  <2>1. UNCHANGED scoring
    BY <1>2 DEF Prepare
  <2>2. /\ pc' \in [Dialogues -> {"reset", "run", "score", "open", "write", "load", "done"}]
        /\ \A e \in Dialogues : pc[e] \in {"load", "done"} => pc'[e] = pc[e]
        /\ \A e \in Dialogues : pc[e] = "done" => reward'[e] = reward[e]
    BY <1>0, <1>2 DEF Prepare, TypeOK, CleanUp, RunCodes, LateExport, NothingToScore,
       Fetch, OpenCopy, WriteCopy, CopyRaises, Goto, Scoring
  <2> QED  BY <1>0, <2>1, <2>2 DEF scoring, ScoreInv, ScoringTypes, Places, Rewarded,
              Samples, ExactRewardedAlone, Exact, IsSketch, AloneInProcess, RewardOf
<1>3. ASSUME NEW d \in Dialogues, Seed(d) PROVE ScoreInv'
  <2>1. /\ UNCHANGED <<vars, sketches, givenAt, ownAt, cd, score>>
        /\ rng' = [rng EXCEPT ![ProcOf[d]] = 0]
        /\ \/ /\ stage[d] = "wait" /\ pc[d] = "load" /\ ~ IsSketch(d)
              /\ stage' = [stage EXCEPT ![d] = "draw given"]
           \/ stage[d] = "seed own" /\ stage' = [stage EXCEPT ![d] = "draw own"]
    BY <1>3 DEF Seed, SeedNext, Proceed
  <2>2. ~ IsSketch(d) /\ Places'
    BY <1>0, <2>1 DEF vars, ScoringTypes, Places, IsSketch
  <2>3. ScoringTypes'
    <3>1. stage' \in [Dialogues -> Stages]
      BY <1>0, <2>1 DEF ScoringTypes, Stages
    <3>2. ProcOf[d] \in Procs /\ rng \in [Procs -> Int] /\ rng[ProcOf[d]] \in Int
      BY <1>0 DEF ScoringTypes
    <3>3. rng' \in [Procs -> Int]
      <4>1. rng' = [rng EXCEPT ![ProcOf[d]] = 0]
        BY <2>1
      <4> QED  BY <3>2, <4>1
    <3>4. givenAt' \in [Dialogues -> Int] /\ ownAt' \in [Dialogues -> Int]
      BY <1>0, <2>1, <3>2 DEF ScoringTypes
    <3>5. UNCHANGED <<sketches, cd, score>>
      BY <2>1
    <3> QED  BY <1>0, <3>1, <3>3, <3>4, <3>5 DEF ScoringTypes
  <2>4. Rewarded'
    BY <1>0, <2>1 DEF Rewarded, IsSketch, RewardOf
  <2>5. ExactRewardedAlone'
    <3>1. \A e \in Dialogues : stage'[e] = "scored" => stage[e] = "scored"
      BY <1>0, <2>1 DEF ScoringTypes
    <3>2. UNCHANGED <<sketches, reward, score>>
      BY <2>1 DEF vars
    <3> QED  BY <1>0, <3>1, <3>2 DEF ExactRewardedAlone, Exact, IsSketch, AloneInProcess
  <2>6. Samples'
    BY <1>0, <2>1, <2>2 DEF vars, Samples, IsSketch, AloneInProcess, ScoringTypes
  <2> QED  BY <2>2, <2>3, <2>4, <2>5, <2>6 DEF ScoreInv
<1>4. ASSUME NEW d \in Dialogues, Draw(d) PROVE ScoreInv'
  <2>1. /\ UNCHANGED <<vars, sketches, cd, score>>
        /\ rng' = [rng EXCEPT ![ProcOf[d]] = @ + 1]
        /\ \/ /\ stage[d] = "draw given" /\ stage' = [stage EXCEPT ![d] = "load"]
              /\ givenAt' = [givenAt EXCEPT ![d] = rng[ProcOf[d]]] /\ ownAt' = ownAt
           \/ /\ stage[d] = "draw own" /\ stage' = [stage EXCEPT ![d] = "compare"]
              /\ ownAt' = [ownAt EXCEPT ![d] = rng[ProcOf[d]]] /\ givenAt' = givenAt
    BY <1>4 DEF Draw, Proceed
  <2>2. ~ IsSketch(d) /\ Places'
    BY <1>0, <2>1 DEF vars, ScoringTypes, Places, IsSketch
  <2>3. ScoringTypes'
    <3>1. stage' \in [Dialogues -> Stages]
      BY <1>0, <2>1 DEF ScoringTypes, Stages
    <3>2. ProcOf[d] \in Procs /\ rng \in [Procs -> Int] /\ rng[ProcOf[d]] \in Int
      BY <1>0 DEF ScoringTypes
    <3>3. rng' \in [Procs -> Int]
      <4>1. rng' = [rng EXCEPT ![ProcOf[d]] = rng[ProcOf[d]] + 1]
        BY <2>1
      <4> QED  BY <3>2, <4>1
    <3>4. givenAt' \in [Dialogues -> Int] /\ ownAt' \in [Dialogues -> Int]
      BY <1>0, <2>1, <3>2 DEF ScoringTypes
    <3>5. UNCHANGED <<sketches, cd, score>>
      BY <2>1
    <3> QED  BY <1>0, <3>1, <3>3, <3>4, <3>5 DEF ScoringTypes
  <2>4. Rewarded'
    BY <1>0, <2>1 DEF Rewarded, IsSketch, RewardOf
  <2>5. ExactRewardedAlone'
    <3>1. \A e \in Dialogues : stage'[e] = "scored" => stage[e] = "scored"
      BY <1>0, <2>1 DEF ScoringTypes
    <3>2. UNCHANGED <<sketches, reward, score>>
      BY <2>1 DEF vars
    <3> QED  BY <1>0, <3>1, <3>2 DEF ExactRewardedAlone, Exact, IsSketch, AloneInProcess
  <2>6. Samples'
    BY <1>0, <2>1, <2>2 DEF vars, Samples, IsSketch, AloneInProcess, ScoringTypes
  <2> QED  BY <2>2, <2>3, <2>4, <2>5, <2>6 DEF ScoreInv
<1>5. ASSUME NEW d \in Dialogues, LoadOwn(d) PROVE ScoreInv'
  <2>1. PICK x \in {"scored", "compare", "seed own"} :
          /\ UNCHANGED <<sketches, rng, givenAt, ownAt, cd, score>>
          /\ stage[d] = IF IsSketch(d) THEN "wait" ELSE "load"
          /\ stage' = [stage EXCEPT ![d] = x]
          /\ x = "scored" => reward'[d] = Failed
          /\ x = "compare" => IsSketch(d)
          /\ x = "seed own" => ~ IsSketch(d)
          /\ pc[d] = "load" /\ pc' = [pc EXCEPT ![d] = "done"]
    BY <1>5 DEF LoadOwn, AfterLoading, LoadCopy, Goto, Proceed
  <2>2. \A e \in Dialogues \ {d} : reward'[e] = reward[e]
    BY <1>0, <1>5 DEF LoadOwn, LoadCopy, TypeOK
  <2>3. ScoringTypes' /\ Places' /\ Rewarded'
    BY <1>0, <2>1 DEF TypeOK, ScoringTypes, Places, Rewarded, IsSketch, RewardOf, Stages
  <2>4. Samples'
    BY <1>0, <2>1 DEF Samples, IsSketch, AloneInProcess, ScoringTypes
  <2>5. ExactRewardedAlone'
    <3>1. /\ \A e \in Dialogues \ {d} : stage'[e] = stage[e]
          /\ stage'[d] = "scored" => reward'[d] = Failed
      BY <1>0, <2>1 DEF ScoringTypes
    <3>2. UNCHANGED <<sketches, score>>
      BY <2>1
    <3>3. \A e \in Dialogues :
            stage'[e] = "scored" /\ Exact(e)' => stage[e] = "scored" /\ Exact(e)
      BY <2>2, <3>1, ExactIsDialogue DEF Exact
    <3> QED  BY <1>0, <3>2, <3>3 DEF ExactRewardedAlone, IsSketch, AloneInProcess
  <2> QED  BY <2>3, <2>4, <2>5 DEF ScoreInv
<1>6. ASSUME NEW d \in Dialogues, Compare(d) PROVE ScoreInv'
  <2>1. PICK x \in Distances :
          /\ Exact(d) /\ (IsSketch(d) \/ givenAt[d] = ownAt[d]) => x = 0
          /\ cd' = [cd EXCEPT ![d] = x]
          /\ score' = [score EXCEPT ![d] = RewardOf(d, x)]
    BY <1>6 DEF Compare, RewardOf
  <2>2. /\ UNCHANGED <<vars, sketches, rng>>
        /\ stage[d] = "compare" /\ stage' = [stage EXCEPT ![d] = "scored"]
        /\ givenAt' = [givenAt EXCEPT ![d] = -1] /\ ownAt' = [ownAt EXCEPT ![d] = -1]
    BY <1>6 DEF Compare, Proceed
  <2>3. /\ x \in Nat /\ RewardOf(d, x) \in 0 .. 100 /\ RewardOf(d, 0) = 100
        /\ \A e \in Dialogues : IsSketch(e)' = IsSketch(e)
    BY <2>2, RewardFalls, ScoreAssumption DEF IsSketch
  <2>4. ScoringTypes'
    <3>1. stage' \in [Dialogues -> Stages]
      BY <1>0, <2>2 DEF ScoringTypes, Stages
    <3>2. givenAt' \in [Dialogues -> Int] /\ ownAt' \in [Dialogues -> Int]
      BY <1>0, <2>2 DEF ScoringTypes
    <3>3. cd' \in [Dialogues -> Int] /\ score' \in [Dialogues -> Int]
      BY <1>0, <2>1, <2>3 DEF ScoringTypes
    <3> QED  BY <1>0, <2>2, <3>1, <3>2, <3>3 DEF ScoringTypes
  <2>9. Places'
    BY <1>0, <2>2, <2>3 DEF vars, ScoringTypes, Places
  <2>5. Rewarded'
    BY <1>0, <2>1, <2>2 DEF Rewarded, ScoringTypes, RewardOf, IsSketch
  <2>6. Samples'
    BY <1>0, <2>2, <2>3 DEF Samples, AloneInProcess, ScoringTypes
  <2>7. Exact(d) /\ (IsSketch(d) \/ AloneInProcess(d)) => score'[d] = 100
    <3>1. IsSketch(d) \/ AloneInProcess(d) => IsSketch(d) \/ givenAt[d] = ownAt[d]
      BY <1>0, <2>2 DEF Samples
    <3>2. score'[d] = RewardOf(d, x)
      BY <1>0, <2>1 DEF ScoringTypes
    <3> QED  BY <2>1, <2>3, <3>1, <3>2
  <2>8. ExactRewardedAlone'
    BY <1>0, <2>1, <2>2, <2>3, <2>7 DEF vars, ExactRewardedAlone, Exact, AloneInProcess,
       ScoringTypes
  <2> QED  BY <2>4, <2>5, <2>6, <2>8, <2>9 DEF ScoreInv
<1> QED  BY <1>1, <1>2, <1>3, <1>4, <1>5, <1>6 DEF ScoresNext

LEMMA ScoresInvariant == ScoresSpec => [](FileInv /\ ScoreInv)
<1>1. ScoresInit /\ FileInv => FileInv /\ ScoreInv
  BY InitScores
<1> QED  BY <1>1, NextScores, FilesInvariantOfScores, PTL DEF ScoresSpec

(***************************************************************************)
(* Every variable stays in its type: an empty copy is never taken for a    *)
(* model, and every reward is between 0 and 1.                             *)
(***************************************************************************)
THEOREM ScoresTypeCorrect == ScoresSpec => []ScoresTypeOK
<1>1. FileInv /\ ScoreInv => ScoresTypeOK
  <2>1. SUFFICES ASSUME TypeOK, ScoringTypes, Rewarded PROVE ScoresTypeOK
    BY DEF FileInv, ScoreInv
  <2>2. \A d \in Dialogues : cd[d] \in Distances \cup {-1} /\ score[d] \in 0 .. 100
    <3> TAKE d \in Dialogues
    <3>1. CASE cd[d] = -1 /\ score[d] = 0
      BY <3>1
    <3>2. CASE cd[d] \in Distances /\ score[d] = RewardOf(d, cd[d])
      <4>1. cd[d] \in Nat
        BY <3>2, ScoreAssumption
      <4> QED  BY <3>2, <4>1, RewardFalls
    <3> QED  BY <2>1, <3>1, <3>2 DEF Rewarded
  <2> QED  BY <2>1, <2>2 DEF ScoresTypeOK, ScoringTypes, Stages
<1> QED  BY <1>1, ScoresInvariant, PTL

(***************************************************************************)
(* The given shape gets the full reward if no other solid is compared in   *)
(* the same process, whatever the other processes do.                      *)
(***************************************************************************)
THEOREM ExactFullReward == ScoresSpec => []ExactRewardedAlone
<1>1. ScoreInv => ExactRewardedAlone
  BY DEF ScoreInv
<1> QED  BY <1>1, ScoresInvariant, PTL

(***************************************************************************)
(* For all thresholds: of two samples of a task the closer one never has   *)
(* the smaller reward.                                                     *)
(***************************************************************************)
THEOREM OrderOfRewards == ScoresSpec => []CloserNeverWorse
<1>1. ScoreInv => CloserNeverWorse
  <2> SUFFICES ASSUME Rewarded, NEW d \in Dialogues, NEW e \in Dialogues,
                      TaskOf[d] = TaskOf[e], cd[d] # -1, cd[e] # -1, cd[d] <= cd[e]
               PROVE  score[d] >= score[e]
    BY DEF ScoreInv, CloserNeverWorse
  <2>1. /\ cd[d] \in Nat /\ cd[e] \in Nat
        /\ score[d] = RewardOf(d, cd[d]) /\ score[e] = RewardOf(d, cd[e])
    BY ScoreAssumption DEF Rewarded, RewardOf, IsSketch
  <2> QED  BY <2>1, RewardFalls
<1> QED  BY <1>1, ScoresInvariant, PTL
=============================================================================
