---------------------------- MODULE RagPipeline -----------------------------
(***************************************************************************)
(* The retrieval of API descriptions for the tasks, LightRAG/pipeline.py.  *)
(* One process searches for all tasks in coroutines, which interleave only *)
(* where they await a model.  Every search is handed the one list          *)
(* expected_interfaces and appends its matches to it; what is written to   *)
(* the file of a task is that list.  Files that exist are skipped when the *)
(* script is started again.                                                *)
(*                                                                         *)
(* The second test of the path, in process_single_task, is left out: the   *)
(* ids of a list differ and one process runs, so it finds nothing that     *)
(* main() did not find.  So is the inner semaphore, which only orders the  *)
(* queries of one task, and the cached index of embeddings.                *)
(***************************************************************************)
EXTENDS Integers, FiniteSets, Sequences, SequencesExt

CONSTANTS Tasks,       \* task ids
          Apis,        \* the API library
          Matches,     \* Matches[k]: what a query of task k can match
          Expected,    \* expected_interfaces as it is read when a launch begins
          MaxQueries,  \* bound: sub-queries of an instruction
          MaxRunning,  \* outer_sem
          None,        \* no match: no candidate fits, or the query failed
          Pending,     \* the query is not answered yet
          MaxBreaks    \* bound: launches that end early

ASSUME RagAssumption ==
  /\ IsFiniteSet(Tasks) /\ Matches \in [Tasks -> SUBSET Apis]
  /\ Expected \in Seq(Apis) /\ IsInjective(Expected)
  /\ MaxQueries \in Nat /\ MaxRunning \in Nat \ {0} /\ MaxBreaks \in Nat
  /\ None \notin Apis /\ Pending \notin Apis /\ None # Pending

VARIABLES
  running,  \* a launch of the script runs
  pc,       \* pc[k]: where the coroutine of task k is
  next,     \* the next result to append, of the coroutine at "merge"
  list,     \* the list expected_interfaces of the process
  found,    \* found[k]: results of the sub-queries of k, in their order
  file,     \* file[k]: the retrieval result of task k on disk
  breaks    \* launches that ended early

vars == <<running, pc, next, list, found, file, breaks>>

NoFile == [state |-> "none", apis |-> <<>>]
Torn == [state |-> "torn", apis |-> <<>>]
Whole(apis) == [state |-> "whole", apis |-> apis]
Saved == {k \in Tasks : file[k].state = "whole"}

Init ==
  /\ running = FALSE
  /\ pc = [k \in Tasks |-> "none"]
  /\ next = 1
  /\ list = Expected
  /\ found = [k \in Tasks |-> <<>>]
  /\ file = [k \in Tasks |-> NoFile]
  /\ breaks = 0

\* main(): the tasks whose path exists are left out.
Listed == {k \in Tasks : file[k] = NoFile}

\* The script is started and lists the tasks; its list is as it was read.
Launch ==
  /\ ~ running /\ Listed # {}
  /\ running' = TRUE
  /\ pc' = [k \in Tasks |-> IF k \in Listed THEN "wait" ELSE "none"]
  /\ UNCHANGED <<next, list, found, file, breaks>>

\* No coroutine runs: from the last answer to the written file there is no
\* await.
LoopFree == running /\ \A k \in Tasks : pc[k] # "merge"

\* async with outer_sem
Enter(k) ==
  /\ LoopFree /\ pc[k] = "wait"
  /\ Cardinality({j \in Tasks : pc[j] \in {"extract", "query"}}) < MaxRunning
  /\ pc' = [pc EXCEPT ![k] = "extract"]
  /\ UNCHANGED <<running, next, list, found, file, breaks>>

\* The model splits the instruction into sub-queries; an answer that is no
\* list, or an empty one, leaves none.
Extract(k) ==
  /\ LoopFree /\ pc[k] = "extract"
  /\ \E n \in 0 .. MaxQueries : found' = [found EXCEPT ![k] = [q \in 1 .. n |-> Pending]]
  /\ pc' = [pc EXCEPT ![k] = "query"]
  /\ UNCHANGED <<running, next, list, file, breaks>>

\* (Mutant: a match is appended when it arrives.)
QueryAppends(k) ==
  \E q \in DOMAIN found[k], m \in Matches[k] \cup {None} :
    /\ LoopFree /\ pc[k] = "query" /\ found[k][q] = Pending
    /\ found' = [found EXCEPT ![k][q] = m]
    /\ list' = IF m = None \/ m \in Range(list) THEN list ELSE Append(list, m)
    /\ UNCHANGED <<running, pc, next, file, breaks>>

\* A sub-query is answered with the best candidate or with none; a call that
\* fails is none.
Query(k) ==
  \E q \in DOMAIN found[k], m \in Matches[k] \cup {None} :
    /\ LoopFree /\ pc[k] = "query" /\ found[k][q] = Pending
    /\ found' = [found EXCEPT ![k] = [@ EXCEPT ![q] = m]]
    /\ UNCHANGED <<running, pc, next, list, file, breaks>>

\* gather has all results.
Gathered(k) ==
  /\ LoopFree /\ pc[k] = "query" /\ Pending \notin Range(found[k])
  /\ pc' = [pc EXCEPT ![k] = "merge"]
  /\ UNCHANGED <<running, next, list, found, file, breaks>>

MoreToMerge(k) == running /\ pc[k] = "merge" /\ next <= Len(found[k])

\* (Mutant: the test whether the list has the match is left out.)
MergeAlways(k) ==
  /\ MoreToMerge(k)
  /\ next' = next + 1
  /\ list' = IF found[k][next] = None THEN list ELSE Append(list, found[k][next])
  /\ UNCHANGED <<running, pc, found, file, breaks>>

\* (Mutant: the loop ends with the first match it appends.)
MergeFirst(k) ==
  /\ MoreToMerge(k)
  /\ IF found[k][next] \in Range(list) \cup {None} THEN next' = next + 1 /\ list' = list
     ELSE next' = Len(found[k]) + 1 /\ list' = Append(list, found[k][next])
  /\ UNCHANGED <<running, pc, found, file, breaks>>

\* A result is appended to expected_interfaces unless that has it.
Merge(k) ==
  /\ MoreToMerge(k)
  /\ next' = next + 1
  /\ list' = IF found[k][next] \in Range(list) \cup {None} THEN list
             ELSE Append(list, found[k][next])
  /\ UNCHANGED <<running, pc, found, file, breaks>>

Writes(k) == running /\ pc[k] = "merge" /\ next > Len(found[k])

\* (Mutant: a search without a match returns before the file is written.)
SaveIfFound(k) ==
  /\ Writes(k)
  /\ file' = IF Range(found[k]) \subseteq {None} THEN file
             ELSE [file EXCEPT ![k] = Whole(list)]
  /\ pc' = [pc EXCEPT ![k] = "done"] /\ next' = 1
  /\ UNCHANGED <<running, list, found, breaks>>

\* search returns the list, which is written.
Save(k) ==
  /\ Writes(k)
  /\ file' = [file EXCEPT ![k] = Whole(list)]
  /\ pc' = [pc EXCEPT ![k] = "done"] /\ next' = 1
  /\ UNCHANGED <<running, list, found, breaks>>

\* The process ends: of what the searches found, only the files remain.
Stops ==
  /\ running' = FALSE /\ pc' = [k \in Tasks |-> "none"]
  /\ next' = 1 /\ list' = Expected
  /\ found' = [k \in Tasks |-> IF file'[k] = NoFile THEN <<>> ELSE found[k]]

\* The call for the sub-queries raises after its attempts; gather hands the
\* exception on, main() ends and the other coroutines are cancelled.
ExtractFails(k) ==
  /\ LoopFree /\ pc[k] = "extract" /\ breaks < MaxBreaks
  /\ breaks' = breaks + 1
  /\ UNCHANGED file /\ Stops

\* The process is ended at any point, or while it writes a file.
Killed ==
  /\ running /\ breaks < MaxBreaks
  /\ breaks' = breaks + 1
  /\ UNCHANGED file /\ Stops

KilledWriting(k) ==
  /\ Writes(k) /\ breaks < MaxBreaks
  /\ breaks' = breaks + 1
  /\ file' = [file EXCEPT ![k] = Torn]
  /\ Stops

Done ==
  /\ running /\ \A k \in Tasks : pc[k] \in {"none", "done"}
  /\ UNCHANGED <<file, breaks>> /\ Stops

Task(k) == Enter(k) \/ Extract(k) \/ Query(k) \/ Gathered(k) \/ Merge(k) \/ Save(k)

Next ==
  \/ Launch \/ Killed \/ Done
  \/ \E k \in Tasks : Task(k) \/ ExtractFails(k) \/ KilledWriting(k)

\* The event loop runs what can run, the calls to the models are answered or
\* fail after five attempts, and the script is started again while tasks have
\* no file.  Nothing makes a launch end early.
Fairness == WF_vars(Launch) /\ WF_vars(Done) /\ \A k \in Tasks : WF_vars(Task(k))

Spec == Init /\ [][Next]_vars /\ Fairness

-----------------------------------------------------------------------------
Own(k) == Range(found[k]) \ {None, Pending}

\* What the queries of a task matched is in its file, whatever the other
\* searches did to the shared list while this one awaited its models
\* (the loop and the write in search and process_single_task).
OwnMatchesSaved == \A k \in Saved : Own(k) \cup Range(Expected) \subseteq Range(file[k].apis)

\* No file names an API twice, although concurrent searches match the same
\* ones and all append to one list ("best_match not in final_results").
NoDuplicates == \A k \in Saved : IsInjective(file[k].apis)

\* What a file has beyond the expected interfaces was matched by a task whose
\* own file is complete: a search that is cancelled, fails or still waits
\* leaves nothing in the files of others.
ForeignIsSaved ==
  \A k \in Saved : Range(file[k].apis) \subseteq Range(Expected) \cup UNION {Own(j) : j \in Saved}

\* Although one failed call ends a whole launch, starting the script again
\* gets every task a file.  (It may be a torn one: a path that exists is never
\* looked into.)
AllWritten == \A k \in Tasks : <>[](file[k] # NoFile)

\* What agent.py tells the model of the list: "Here are some COM APIs that
\* might be useful for completing this task."  A file has the expected
\* interfaces and what was matched for its own task, nothing else.
OwnMatchesOnly ==
  \A k \in Saved : Range(file[k].apis) \subseteq Range(Expected) \cup Own(k)

-----------------------------------------------------------------------------
(***************************************************************************)
(* The inductive invariant: what the shared list holds while a coroutine   *)
(* has the event loop, and that a file is written once.                    *)
(***************************************************************************)
RagTypeOK ==
  /\ running \in BOOLEAN
  /\ pc \in [Tasks -> {"none", "wait", "extract", "query", "merge", "done"}]
  /\ next \in Nat \ {0}
  /\ list \in Seq(Apis)
  /\ found \in [Tasks -> Seq(Apis \cup {None, Pending})]
  /\ file \in [Tasks -> [state : {"none", "torn", "whole"}, apis : Seq(Apis)]]
  /\ breaks \in Nat

\* Where coroutines can be, and what they have then.
PlaceFacts ==
  /\ \A j, k \in Tasks : pc[j] = "merge" /\ pc[k] = "merge" => j = k
  /\ ~ running => list = Expected
  /\ (\A k \in Tasks : pc[k] # "merge") => next = 1
  /\ \A k \in Tasks :
       /\ pc[k] # "none" => running
       /\ pc[k] \in {"wait", "extract", "query", "merge"} => file[k] = NoFile
       /\ pc[k] = "merge" => Pending \notin Range(found[k])

\* What task k has appended or found in the list.
Appended(k) == {found[k][q] : q \in {r \in DOMAIN found[k] : r < next}} \ {None}

Merging == UNION {Appended(k) : k \in {j \in Tasks : pc[j] = "merge"}}

OfSaved == Range(Expected) \cup UNION {Own(j) : j \in Saved}

ListFacts ==
  /\ IsInjective(list)
  /\ Range(Expected) \cup Merging \subseteq Range(list)
  /\ Range(list) \subseteq OfSaved \cup Merging

RagInv ==
  /\ RagTypeOK /\ PlaceFacts /\ ListFacts
  /\ OwnMatchesSaved /\ NoDuplicates /\ ForeignIsSaved
=============================================================================
