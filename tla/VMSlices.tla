------------------------------ MODULE VMSlices ------------------------------
(***************************************************************************)
(* How mycom_env.py hands the virtual machines of alive_vms.json out to    *)
(* the training processes when it is imported.  Process `rank` of          *)
(* `world_size` takes a contiguous slice; the last process also takes the  *)
(* remainder of the division.                                              *)
(***************************************************************************)
EXTENDS Integers

CONSTANTS TotalVMs,   \* len(alive_vms)
          WorldSize   \* the environment variable WORLD_SIZE

ASSUME SliceAssumption == TotalVMs \in Nat /\ WorldSize \in Nat \ {0}

Ranks == 0 .. WorldSize - 1

AllVMs == 0 .. TotalVMs - 1

VMsPerRank == TotalVMs \div WorldSize

StartIdx(r) == r * VMsPerRank

\* (Mutant: the slice's end counted in.)
EndIdxCountedIn(r) ==
  IF r < WorldSize - 1 THEN StartIdx(r) + VMsPerRank + 1 ELSE TotalVMs

\* The last rank takes all the remaining machines.
EndIdx(r) == IF r < WorldSize - 1 THEN StartIdx(r) + VMsPerRank ELSE TotalVMs

\* The keys of mycom_envs in process r.
VMsOf(r) == StartIdx(r) .. EndIdx(r) - 1
=============================================================================
