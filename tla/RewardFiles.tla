---------------------------- MODULE RewardFiles -----------------------------
(***************************************************************************)
(* Where the model that a dialogue is rewarded for comes from.  A dialogue *)
(* has its machine for itself (ColocateRollout), but what the reward loads *)
(* is a local copy, <task id>_gen.stl or .dxf, in a directory that all     *)
(* reward threads of all training processes share; GRPO samples a task     *)
(* several times in one generation step.  Neither the download directory   *)
(* of the machine nor the local one is known to be clean: the result of    *)
(* clear_task_files is not looked at, a script given up after 120 s runs   *)
(* on and exports when it likes, and nobody deletes local copies.          *)
(***************************************************************************)
CONSTANTS Dialogues,  \* the dialogues of one generation step, of all processes,
                      \* that took a machine
          Tasks,      \* task ids
          TaskOf,     \* TaskOf[d]: task_config['id']
          Reused,     \* dialogues whose machine had an earlier one of the same task
          Slow,       \* dialogues with a script that may take more than 120 s
          Copied,     \* tasks with a local copy from an earlier generation step
          NoFile,     \* no such file
          OldModel,   \* a model of the same task, from an earlier generation step
          Emptied,    \* opened with 'wb', nothing written yet
          Mixed,      \* a part of a model, or parts of two
          NoModel,    \* reward 0.0: no model found, or the answer was FAIL
          Failed      \* no model that can be read or compared: reward 0.0, or
                      \* that of a sketch whose points are zeros (RewardScores)

Marks == {NoFile, OldModel, Emptied, Mixed, NoModel, Failed}

ASSUME FilesAssumption ==
  /\ TaskOf \in [Dialogues -> Tasks]
  /\ Reused \subseteq Dialogues /\ Slow \subseteq Dialogues /\ Copied \subseteq Tasks
  /\ Marks \cap Dialogues = {}
  /\ NoFile \notin {Emptied, Mixed}
  /\ OldModel \notin {NoFile, Emptied, Mixed, NoModel, Failed}
  /\ {Emptied, Mixed} \cap {NoModel, Failed} = {}

VARIABLES
  pc,       \* pc[d]: what d does next
  cleaned,  \* cleaned[d]: after clear_task_files there is no old model
  vm,       \* vm[d]: <task id>.stl in the downloads of the machine of d
  left,     \* left[d]: the models that scripts given up still may export there
  got,      \* got[d]: gen_stl_content
  file,     \* file[k]: the local copy at path k
  reward    \* reward[d]: whose model the reward was computed from

vars == <<pc, cleaned, vm, left, got, file, reward>>

Goto(d, place) == pc' = [pc EXCEPT ![d] = place]

\* (Mutant: the local name lacks the task id.)
PathOfAnyone(d) == CHOOSE k \in Tasks : TRUE

\* gen_stl: task_config['id'] + '_gen.stl'
PathOf(d) == TaskOf[d]

\* The dialogues whose copies have the same name as that of d.
SameFile(d) == {e \in Dialogues : TaskOf[e] = TaskOf[d]}

Init ==
  /\ pc = [d \in Dialogues |-> "reset"]
  /\ cleaned = [d \in Dialogues |-> FALSE]
  /\ \E old, running \in SUBSET Reused :
       /\ vm = [d \in Dialogues |-> IF d \in old THEN OldModel ELSE NoFile]
       /\ left = [d \in Dialogues |-> {m \in {OldModel} : d \in running}]
  /\ got = [d \in Dialogues |-> NoFile]
  /\ file = [k \in Tasks |-> IF k \in Copied THEN OldModel ELSE NoFile]
  /\ reward = [d \in Dialogues |-> NoModel]

\* clean_up_files: a bad status or an exception is printed, no more.
CleanUp(d) ==
  /\ pc[d] = "reset" /\ Goto(d, "run")
  /\ vm' \in {vm, [vm EXCEPT ![d] = NoFile]}
  /\ cleaned' = [cleaned EXCEPT ![d] = vm'[d] = NoFile]
  /\ UNCHANGED <<left, got, file, reward>>

\* The scripts of the dialogue export a model under the task's name, or not; one
\* of them may be given up after 120 s.
RunCodes(d) ==
  /\ pc[d] = "run" /\ Goto(d, "score")
  /\ vm' \in {vm, [vm EXCEPT ![d] = d]}
  /\ left' \in {left, [left EXCEPT ![d] = @ \cup ({d} \cap Slow)]}
  /\ UNCHANGED <<cleaned, got, file, reward>>

\* A script that was given up, in this dialogue or in an earlier one on the
\* machine, exports its model: nothing ends it, the cleaning neither.  (Before
\* the cleaning and after the download it makes no difference.)
LateExport(d) ==
  /\ pc[d] \in {"run", "score"}
  /\ \E m \in left[d] : vm' = [vm EXCEPT ![d] = m]
  /\ UNCHANGED <<pc, cleaned, left, got, file, reward>>

\* Rewards begin when the rollout of every process is over.
Scoring(d) ==
  pc[d] = "score" /\ \A e \in Dialogues : pc[e] \notin {"reset", "run"}

\* The last answer says FAIL, or get_file finds nothing or gives up.
NothingToScore(d) ==
  /\ Scoring(d) /\ Goto(d, "done")
  /\ UNCHANGED <<cleaned, vm, left, got, file, reward>>

\* (Mutant: the copy is loaded whether or not a model was found.)
FetchUnchecked(d) ==
  /\ Scoring(d)
  /\ Goto(d, IF vm[d] = NoFile THEN "load" ELSE "open")
  /\ got' = [got EXCEPT ![d] = vm[d]]
  /\ UNCHANGED <<cleaned, vm, left, file, reward>>

\* get_file returns the content, a part of it if a script is exporting.
Fetch(d) ==
  /\ Scoring(d) /\ Goto(d, "open")
  /\ got' \in {[got EXCEPT ![d] = x] :
                 x \in ({vm[d]} \ {NoFile}) \cup {y \in {Mixed} : left[d] # {}}}
  /\ UNCHANGED <<cleaned, vm, left, file, reward>>

\* open(gen_stl, 'wb') truncates.
OpenCopy(d) ==
  /\ pc[d] = "open" /\ Goto(d, "write")
  /\ file' = [file EXCEPT ![PathOf(d)] = Emptied]
  /\ UNCHANGED <<cleaned, vm, left, got, reward>>

\* Each handle writes from offset 0: over a longer file that another thread
\* has written since, the rest of that file stays.
WriteCopy(d) ==
  /\ pc[d] = "write" /\ Goto(d, "load")
  /\ file' \in {[file EXCEPT ![PathOf(d)] = x] :
                  x \in {got[d]} \cup {y \in {Mixed} : file[PathOf(d)] # Emptied}}
  /\ UNCHANGED <<cleaned, vm, left, got, reward>>

\* Opening or writing the copy is outside the try: what it raises ends the
\* evaluation, and _evaluate_single returns 0.0.
CopyRaises(d) ==
  /\ Goto(d, "done")
  /\ \/ pc[d] = "open" /\ UNCHANGED file
     \/ pc[d] = "write" /\ file' \in {file, [file EXCEPT ![PathOf(d)] = Mixed]}
  /\ reward' = [reward EXCEPT ![d] = Failed]
  /\ UNCHANGED <<cleaned, vm, left, got>>

\* (Mutant: an empty copy is scored like any other.)
LoadAnything(d) ==
  /\ pc[d] = "load" /\ Goto(d, "done")
  /\ reward' = [reward EXCEPT ![d] = file[PathOf(d)]]
  /\ UNCHANGED <<cleaned, vm, left, got, file>>

\* stl2pc and chamfer_dist on what the file holds now, half of it if another
\* thread is writing.
LoadCopy(d) ==
  /\ pc[d] = "load" /\ Goto(d, "done")
  /\ LET half == {x \in {Mixed} : \E e \in SameFile(d) : pc[e] = "write"}
         whole == {file[PathOf(d)]} \ {Emptied}
     IN  reward' \in {[reward EXCEPT ![d] = x] : x \in {Failed} \cup half \cup whole}
  /\ UNCHANGED <<cleaned, vm, left, got, file>>

Dialogue(d) ==
  \/ CleanUp(d)
  \/ RunCodes(d)
  \/ LateExport(d)
  \/ NothingToScore(d)
  \/ Fetch(d)
  \/ OpenCopy(d)
  \/ WriteCopy(d)
  \/ CopyRaises(d)
  \/ LoadCopy(d)

Next == \E d \in Dialogues : Dialogue(d)

Spec == Init /\ [][Next]_vars

-----------------------------------------------------------------------------

Models == Dialogues \cup {OldModel}

TypeOK ==
  /\ pc \in [Dialogues -> {"reset", "run", "score", "open", "write", "load", "done"}]
  /\ cleaned \in [Dialogues -> BOOLEAN]
  /\ vm \in [Dialogues -> Models \cup {NoFile}]
  /\ left \in [Dialogues -> SUBSET Models]
  /\ got \in [Dialogues -> Models \cup {NoFile, Mixed}]
  /\ file \in [Tasks -> Models \cup {NoFile, Emptied, Mixed}]
  /\ reward \in [Dialogues -> Models \cup {Mixed, NoModel, Failed}]

(***************************************************************************)
(* However the threads interleave, a dialogue is never rewarded for the    *)
(* model of another task.                                                  *)
(***************************************************************************)
OwnTaskScored ==
  \A d \in Dialogues : reward[d] \in Dialogues => TaskOf[reward[d]] = TaskOf[d]

(***************************************************************************)
(* The local copies of earlier generation steps are never scored: where a  *)
(* dialogue is rewarded for an old model, a machine gave it, one that      *)
(* clear_task_files failed on or on which a script of an earlier dialogue  *)
(* still ran.                                                              *)
(***************************************************************************)
OldOnlyFromMachine ==
  \A d \in Dialogues :
    reward[d] = OldModel => \E e \in SameFile(d) : ~ cleaned[e] \/ OldModel \in left[e]

(***************************************************************************)
(* A dialogue that has its task for itself in the generation step is       *)
(* rewarded for what its own machine gave, whatever the others do.         *)
(***************************************************************************)
AloneOwnScored ==
  \A d \in Dialogues :
    SameFile(d) = {d} => reward[d] \in {got[d], NoModel, Failed}

(***************************************************************************)
(* "ensure an independent thread for each data sample": a dialogue is      *)
(* rewarded for no other model than its own.  The threads share the copy   *)
(* of their task.                                                          *)
(***************************************************************************)
OwnModelScored ==
  \A d \in Dialogues : reward[d] \in Dialogues => reward[d] = d

-----------------------------------------------------------------------------
(***************************************************************************)
(* The inductive invariant: what is known of the downloads and of a copy   *)
(* while it is in use.                                                     *)
(***************************************************************************)
MayBeStale(k) ==
  \E e \in Dialogues :
    /\ TaskOf[e] = k
    /\ OldModel \in left[e] \/ (pc[e] # "reset" /\ ~ cleaned[e])

DownloadFacts ==
  \A d \in Dialogues :
    /\ vm[d] \in Dialogues => vm[d] = d
    /\ left[d] \subseteq {d, OldModel}
    /\ pc[d] = "reset" => ~ cleaned[d]
    /\ pc[d] # "reset" /\ vm[d] = OldModel => MayBeStale(TaskOf[d])
    /\ got[d] \in Dialogues => got[d] = d
    /\ got[d] = OldModel => MayBeStale(TaskOf[d])
    /\ pc[d] \in {"open", "write", "load"} => got[d] # NoFile

CopyFacts ==
  \A k \in Tasks :
    /\ file[k] \in Dialogues => TaskOf[file[k]] = k
    /\ \A d \in Dialogues :
         TaskOf[d] = k /\ pc[d] \in {"write", "load"} =>
           /\ file[k] # NoFile
           /\ file[k] = OldModel => MayBeStale(k)
           /\ SameFile(d) = {d} => file[k] = IF pc[d] = "write" THEN Emptied ELSE got[d]

RewardFacts ==
  \A d \in Dialogues :
    /\ reward[d] # NoModel => pc[d] = "done"
    /\ reward[d] = OldModel => MayBeStale(TaskOf[d])

FileInv ==
  /\ TypeOK /\ DownloadFacts /\ CopyFacts /\ RewardFacts
  /\ OwnTaskScored /\ AloneOwnScored
=============================================================================
