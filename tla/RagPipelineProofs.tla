------------------------- MODULE RagPipelineProofs --------------------------
(***************************************************************************)
(* What the files of the retrieval hold, for every number of tasks, of     *)
(* APIs and of sub-queries, and for launches that end at any point.        *)
(***************************************************************************)
EXTENDS RagPipeline, TLAPS

LEMMA RangeAppend ==
  ASSUME NEW S, NEW s \in Seq(S), NEW e \in S
  PROVE  Range(Append(s, e)) = Range(s) \cup {e}
<1>1. /\ DOMAIN s = 1 .. Len(s) /\ Len(s) \in Nat
      /\ DOMAIN Append(s, e) = 1 .. Len(s) + 1
      /\ \A i \in 1 .. Len(s) : Append(s, e)[i] = s[i]
      /\ Append(s, e)[Len(s) + 1] = e
  OBVIOUS
<1> QED  BY <1>1 DEF Range

LEMMA InjectiveAppend ==
  ASSUME NEW S, NEW s \in Seq(S), NEW e \in S, IsInjective(s), e \notin Range(s)
  PROVE  IsInjective(Append(s, e))
<1>1. /\ DOMAIN s = 1 .. Len(s) /\ Len(s) \in Nat
      /\ DOMAIN Append(s, e) = 1 .. Len(s) + 1
      /\ \A i \in 1 .. Len(s) : Append(s, e)[i] = s[i]
      /\ Append(s, e)[Len(s) + 1] = e
  OBVIOUS
<1>2. \A i \in 1 .. Len(s) : s[i] # e
  BY <1>1 DEF Range
<1> QED  BY <1>1, <1>2 DEF IsInjective

LEMMA InitRag == Init => RagInv
<1> SUFFICES ASSUME Init PROVE RagInv
  OBVIOUS
<1> USE RagAssumption
<1>1. RagTypeOK
  <2>1. found \in [Tasks -> Seq(Apis \cup {None, Pending})]
    BY DEF Init
  <2>2. file \in [Tasks -> [state : {"none", "torn", "whole"}, apis : Seq(Apis)]]
    BY DEF Init, NoFile
  <2>3. list \in Seq(Apis) /\ next \in Nat \ {0} /\ breaks \in Nat
    BY DEF Init
  <2>4. pc \in [Tasks -> {"none", "wait", "extract", "query", "merge", "done"}]
    BY DEF Init
  <2> QED  BY <2>1, <2>2, <2>3, <2>4 DEF Init, RagTypeOK
<1>2. Saved = {}
  BY DEF Init, Saved, NoFile
<1>3. PlaceFacts /\ Merging = {}
  BY DEF Init, PlaceFacts, Merging
<1>4. ListFacts
  BY <1>3 DEF Init, ListFacts, OfSaved
<1> QED  BY <1>1, <1>2, <1>3, <1>4 DEF RagInv, OwnMatchesSaved, NoDuplicates, ForeignIsSaved

\* A step that neither writes a file nor touches what was found for one.
LEMMA FilesStay ==
  ASSUME RagInv, UNCHANGED file,
         \A k \in Tasks : file[k] # NoFile => found'[k] = found[k]
  PROVE  /\ OfSaved' = OfSaved
         /\ OwnMatchesSaved' /\ NoDuplicates' /\ ForeignIsSaved'
<1>1. Saved' = Saved
  BY DEF Saved
<1>2. \A k \in Saved : Own(k)' = Own(k)
  BY DEF Saved, Own, NoFile
<1>3. OfSaved' = OfSaved
  BY <1>1, <1>2 DEF OfSaved
<1>4. OwnMatchesSaved'
  BY <1>1, <1>2 DEF RagInv, OwnMatchesSaved
<1>5. NoDuplicates'
  BY <1>1 DEF RagInv, NoDuplicates
<1>6. ForeignIsSaved'
  BY <1>1, <1>2 DEF RagInv, ForeignIsSaved
<1> QED  BY <1>3, <1>4, <1>5, <1>6

\* The process ends: the list is read again, and nothing is being merged.
LEMMA Ends ==
  ASSUME RagInv, Stops, RagTypeOK'
  PROVE  PlaceFacts' /\ Merging' = {} /\ ListFacts'
<1>1. PlaceFacts'
  BY DEF Stops, PlaceFacts
<1>2. Merging' = {}
  BY DEF Stops, Merging
<1>3. ListFacts'
  BY <1>2, RagAssumption DEF Stops, ListFacts, OfSaved
<1> QED  BY <1>1, <1>2, <1>3

\* While no coroutine merges, nothing of the list is unaccounted for.
LEMMA NoneMerging ==
  ASSUME \A k \in Tasks : pc[k] # "merge" PROVE Merging = {}
BY DEF Merging

LEMMA OneMerging ==
  ASSUME PlaceFacts, NEW k \in Tasks, pc[k] = "merge" PROVE Merging = Appended(k)
BY DEF Merging, PlaceFacts

LEMMA TypeStep == RagInv /\ [Next]_vars => RagTypeOK'
<1> SUFFICES ASSUME RagTypeOK, PlaceFacts, [Next]_vars PROVE RagTypeOK'
  BY DEF RagInv
<1> USE DEF RagTypeOK
<1>1. CASE UNCHANGED vars
  BY <1>1 DEF vars
<1>2. CASE Launch
  BY <1>2 DEF Launch
<1>3. Stops /\ file' \in [Tasks -> [state : {"none", "torn", "whole"}, apis : Seq(Apis)]]
      /\ breaks' \in Nat => RagTypeOK'
  <2>1. SUFFICES ASSUME Stops PROVE /\ running' \in BOOLEAN /\ next' \in Nat \ {0}
          /\ pc' \in [Tasks -> {"none", "wait", "extract", "query", "merge", "done"}]
          /\ list' \in Seq(Apis) /\ found' \in [Tasks -> Seq(Apis \cup {None, Pending})]
    OBVIOUS
  <2>2. found' \in [Tasks -> Seq(Apis \cup {None, Pending})]
    BY <2>1 DEF Stops
  <2>3. list' \in Seq(Apis) /\ next' \in Nat \ {0}
    BY <2>1, RagAssumption DEF Stops
  <2>4. pc' \in [Tasks -> {"none", "wait", "extract", "query", "merge", "done"}]
    BY <2>1 DEF Stops
  <2> QED  BY <2>1, <2>2, <2>3, <2>4 DEF Stops
<1>4. CASE Killed \/ Done
  BY <1>3, <1>4 DEF Killed, Done
<1>5. ASSUME NEW k \in Tasks, Task(k) \/ ExtractFails(k) \/ KilledWriting(k)
      PROVE  RagTypeOK'
  <2>1. CASE Enter(k)
    BY <2>1 DEF Enter
  <2>2. CASE Extract(k)
    BY <2>2 DEF Extract
  <2>3. CASE Query(k)
    <3>1. PICK q \in DOMAIN found[k], m \in Matches[k] \cup {None} :
            /\ found' = [found EXCEPT ![k] = [@ EXCEPT ![q] = m]]
            /\ UNCHANGED <<running, pc, next, list, file, breaks>>
      BY <2>3 DEF Query
    <3>2. m \in Apis \cup {None, Pending}
      BY RagAssumption
    <3>3. [found[k] EXCEPT ![q] = m] \in Seq(Apis \cup {None, Pending})
      BY <3>2
    <3> QED  BY <3>1, <3>3
  <2>4. CASE Gathered(k)
    BY <2>4 DEF Gathered
  <2>5. CASE Merge(k)
    <3>1. found[k][next] \in (Apis \cup {None, Pending}) \ {Pending}
      BY <2>5 DEF Merge, MoreToMerge, PlaceFacts, Range
    <3>2. list' \in Seq(Apis)
      BY <2>5, <3>1 DEF Merge
    <3> QED  BY <2>5, <3>2 DEF Merge, MoreToMerge
  <2>6. CASE Save(k)
    BY <2>6 DEF Save, Whole
  <2>7. CASE ExtractFails(k)
    BY <1>3, <2>7 DEF ExtractFails
  <2>8. CASE KilledWriting(k)
    BY <1>3, <2>8 DEF KilledWriting, Torn
  <2> QED  BY <1>5, <2>1, <2>2, <2>3, <2>4, <2>5, <2>6, <2>7, <2>8 DEF Task
<1> QED  BY <1>1, <1>2, <1>4, <1>5 DEF Next

LEMMA NextRag == RagInv /\ [Next]_vars => RagInv'
<1> SUFFICES ASSUME RagInv, [Next]_vars PROVE RagInv'
  OBVIOUS
<1>0. /\ RagTypeOK /\ PlaceFacts /\ ListFacts
      /\ OwnMatchesSaved /\ NoDuplicates /\ ForeignIsSaved
  BY DEF RagInv
<1>1. RagTypeOK'
  BY TypeStep
<1>2. CASE UNCHANGED vars
  <2>1. UNCHANGED <<running, pc, next, list, found, file>>
    BY <1>2 DEF vars
  <2>2. PlaceFacts'
    BY <1>0, <2>1 DEF PlaceFacts
  <2>3. Merging' = Merging
    BY <2>1 DEF Merging, Appended
  <2>4. OfSaved' = OfSaved /\ OwnMatchesSaved' /\ NoDuplicates' /\ ForeignIsSaved'
    BY <2>1, FilesStay
  <2>5. ListFacts'
    BY <1>0, <2>1, <2>3, <2>4 DEF ListFacts
  <2> QED  BY <1>1, <2>2, <2>4, <2>5 DEF RagInv
<1>3. CASE Launch
  <2>1. /\ ~ running /\ running' = TRUE
        /\ pc' = [k \in Tasks |-> IF k \in Listed THEN "wait" ELSE "none"]
        /\ UNCHANGED <<next, list, found, file>>
    BY <1>3 DEF Launch
  <2>2. \A k \in Tasks : pc[k] # "merge" /\ pc'[k] # "merge"
    BY <1>0, <2>1 DEF PlaceFacts
  <2>3. PlaceFacts'
    BY <1>0, <2>1, <2>2 DEF PlaceFacts, Listed
  <2>4. OfSaved' = OfSaved /\ OwnMatchesSaved' /\ NoDuplicates' /\ ForeignIsSaved'
    BY <2>1, FilesStay
  <2>5. Merging = {} /\ Merging' = {}
    BY <2>2 DEF Merging
  <2>6. ListFacts'
    BY <1>0, <2>1, <2>4, <2>5 DEF ListFacts
  <2> QED  BY <1>1, <2>3, <2>4, <2>6 DEF RagInv
<1>4. ASSUME Stops, UNCHANGED file PROVE RagInv'
  <2>1. \A k \in Tasks : file[k] # NoFile => found'[k] = found[k]
    BY <1>4 DEF Stops
  <2>2. OwnMatchesSaved' /\ NoDuplicates' /\ ForeignIsSaved'
    BY <1>4, <2>1, FilesStay
  <2> QED  BY <1>1, <1>4, <2>2, Ends DEF RagInv
<1>5. CASE Killed \/ Done
  BY <1>4, <1>5 DEF Killed, Done
<1>6. ASSUME NEW k \in Tasks, Enter(k) \/ Extract(k) \/ Query(k) \/ Gathered(k)
      PROVE  RagInv'
  <2>1. /\ running /\ UNCHANGED <<running, next, list, file>>
        /\ pc[k] \in {"wait", "extract", "query"}
        /\ \A j \in Tasks : pc[j] # "merge"
    BY <1>6 DEF Enter, Extract, Query, Gathered, LoopFree
  <2>2. /\ \A j \in Tasks \ {k} : pc'[j] = pc[j] /\ found'[j] = found[j]
        /\ pc'[k] \in {"extract", "query", "merge"}
        /\ pc'[k] = "merge" => found' = found /\ Pending \notin Range(found[k])
    BY <1>0, <1>6 DEF Enter, Extract, Query, Gathered, RagTypeOK
  <2>3. file[k] = NoFile /\ next = 1
    BY <1>0, <2>1 DEF PlaceFacts
  <2>4. PlaceFacts'
    BY <1>0, <2>1, <2>2, <2>3 DEF PlaceFacts
  <2>5. OfSaved' = OfSaved /\ OwnMatchesSaved' /\ NoDuplicates' /\ ForeignIsSaved'
    BY <2>1, <2>2, <2>3, FilesStay
  <2>6. Merging = {}
    BY <2>1, NoneMerging
  <2>7. Merging' = {}
    <3>1. \A j \in Tasks : Appended(j)' = {}
      BY <1>1, <2>1, <2>3 DEF Appended, RagTypeOK
    <3> QED  BY <3>1 DEF Merging
  <2>8. ListFacts'
    BY <1>0, <2>1, <2>5, <2>6, <2>7 DEF ListFacts
  <2> QED  BY <1>1, <2>4, <2>5, <2>8 DEF RagInv
<1>7. ASSUME NEW k \in Tasks, Merge(k) PROVE RagInv'
  <2> DEFINE m == found[k][next]
  <2>1. /\ running /\ pc[k] = "merge" /\ next \in DOMAIN found[k]
        /\ UNCHANGED <<running, pc, found, file>> /\ next' = next + 1
        /\ list' = IF m \in Range(list) \cup {None} THEN list ELSE Append(list, m)
    BY <1>0, <1>7 DEF Merge, MoreToMerge, RagTypeOK
  <2>2. m \in Apis \cup {None}
    BY <1>0, <2>1 DEF RagTypeOK, PlaceFacts, Range
  <2>3. PlaceFacts'
    BY <1>0, <2>1 DEF PlaceFacts
  <2>4. OfSaved' = OfSaved /\ OwnMatchesSaved' /\ NoDuplicates' /\ ForeignIsSaved'
    BY <2>1, FilesStay
  <2>5. Merging = Appended(k)
    BY <1>0, <2>1, OneMerging
  <2>6. Merging' = Appended(k)'
    BY <2>1, <2>3 DEF Merging, PlaceFacts
  <2>7. Appended(k)' = Appended(k) \cup ({m} \ {None})
    <3>1. \A r \in DOMAIN found[k] : r < next + 1 <=> (r < next \/ r = next)
      BY <1>0 DEF RagTypeOK
    <3> QED  BY <2>1, <3>1 DEF Appended
  <2>8. IsInjective(list') /\ Range(list') = Range(list) \cup ({m} \ {None})
    <3>1. CASE m \in Range(list) \cup {None}
      BY <1>0, <2>1, <3>1, RagAssumption DEF ListFacts
    <3>2. CASE m \notin Range(list) \cup {None}
      BY <1>0, <2>1, <2>2, <3>2, RangeAppend, InjectiveAppend DEF ListFacts, RagTypeOK
    <3> QED  BY <3>1, <3>2
  <2> HIDE DEF m
  <2>9. ListFacts'
    BY <1>0, <2>4, <2>5, <2>6, <2>7, <2>8 DEF ListFacts
  <2> QED  BY <1>1, <2>3, <2>4, <2>9 DEF RagInv
<1>8. ASSUME NEW k \in Tasks, Save(k) PROVE RagInv'
  <2>1. /\ running /\ pc[k] = "merge" /\ next > Len(found[k])
        /\ UNCHANGED <<running, list, found>> /\ next' = 1
        /\ file' = [file EXCEPT ![k] = Whole(list)]
        /\ pc' = [pc EXCEPT ![k] = "done"]
    BY <1>8 DEF Save, Writes
  <2>2. /\ \A j \in Tasks \ {k} : file'[j] = file[j] /\ pc[j] # "merge"
        /\ \A j \in Tasks : pc'[j] = IF j = k THEN "done" ELSE pc[j]
        /\ file'[k] = Whole(list) /\ file[k] = NoFile /\ Pending \notin Range(found[k])
    BY <1>0, <2>1 DEF RagTypeOK, PlaceFacts
  <2>3. PlaceFacts'
    BY <1>0, <2>1, <2>2 DEF PlaceFacts
  <2>4. Saved' = Saved \cup {k} /\ Saved \subseteq Tasks
    BY <2>2 DEF Saved, Whole
  <2>5. Appended(k) = Own(k)
    BY <1>0, <2>1, <2>2 DEF Appended, Own, Range, RagTypeOK
  <2>6. Merging = Own(k)
    BY <1>0, <2>1, <2>5, OneMerging
  <2>7. Merging' = {}
    BY <2>2 DEF Merging
  <2>8. \A j \in Tasks : Own(j)' = Own(j)
    BY <2>1 DEF Own
  <2>9. OfSaved' = OfSaved \cup Own(k)
    BY <2>4, <2>8 DEF OfSaved
  <2>10. ListFacts'
    BY <1>0, <2>1, <2>6, <2>7, <2>9 DEF ListFacts
  <2>11. /\ file'[k].apis = list
         /\ \A j \in Saved \ {k} : file'[j] = file[j]
    BY <2>2 DEF Whole, Saved
  <2>12. OwnMatchesSaved'
    BY <1>0, <2>4, <2>6, <2>8, <2>11 DEF OwnMatchesSaved, ListFacts
  <2>13. NoDuplicates'
    BY <1>0, <2>4, <2>11 DEF NoDuplicates, ListFacts
  <2>14. ForeignIsSaved'
    BY <1>0, <2>4, <2>6, <2>8, <2>11 DEF ForeignIsSaved, ListFacts, OfSaved
  <2> QED  BY <1>1, <2>3, <2>10, <2>12, <2>13, <2>14 DEF RagInv
<1>9. ASSUME NEW k \in Tasks, KilledWriting(k) PROVE RagInv'
  <2>1. pc[k] = "merge" /\ Stops /\ file' = [file EXCEPT ![k] = Torn]
    BY <1>9 DEF KilledWriting, Writes
  <2>2. /\ file[k] = NoFile /\ file'[k] = Torn
        /\ \A j \in Tasks \ {k} : file'[j] = file[j]
    BY <1>0, <2>1 DEF RagTypeOK, PlaceFacts
  <2>3. Saved' = Saved /\ \A j \in Saved : file'[j] = file[j] /\ file[j] # NoFile
    BY <2>2 DEF Saved, Torn, NoFile
  <2>4. \A j \in Saved : Own(j)' = Own(j)
    BY <2>1, <2>3 DEF Stops, Own, Saved
  <2>5. OwnMatchesSaved' /\ NoDuplicates' /\ ForeignIsSaved'
    BY <1>0, <2>3, <2>4 DEF OwnMatchesSaved, NoDuplicates, ForeignIsSaved
  <2> QED  BY <1>1, <2>1, <2>5, Ends DEF RagInv
<1>10. ASSUME NEW k \in Tasks, Task(k) \/ ExtractFails(k) \/ KilledWriting(k)
       PROVE  RagInv'
  BY <1>4, <1>6, <1>7, <1>8, <1>9, <1>10 DEF Task, ExtractFails
<1> QED  BY <1>2, <1>3, <1>5, <1>10 DEF Next

LEMMA RagInvariant == Spec => []RagInv
BY InitRag, NextRag, PTL DEF Spec

(***************************************************************************)
(* A file has every API that the queries of its task matched, whatever the *)
(* other searches did to the list meanwhile.                               *)
(***************************************************************************)
THEOREM OwnInFile == Spec => []OwnMatchesSaved
<1>1. RagInv => OwnMatchesSaved
  BY DEF RagInv
<1> QED  BY <1>1, RagInvariant, PTL

(***************************************************************************)
(* No file names an API twice.                                             *)
(***************************************************************************)
THEOREM EachOnce == Spec => []NoDuplicates
<1>1. RagInv => NoDuplicates
  BY DEF RagInv
<1> QED  BY <1>1, RagInvariant, PTL

(***************************************************************************)
(* What a file has of other tasks is in their own files: nothing comes     *)
(* from a search that waits, was cancelled or failed.                      *)
(***************************************************************************)
THEOREM OthersAreSaved == Spec => []ForeignIsSaved
<1>1. RagInv => ForeignIsSaved
  BY DEF RagInv
<1> QED  BY <1>1, RagInvariant, PTL
=============================================================================
