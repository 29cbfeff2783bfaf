------------------------------ MODULE VMLease -------------------------------
(***************************************************************************)
(* What the queue of virtual machines promises to the rollouts: a machine  *)
(* is free or leased to one dialogue, a dialogue leases at most one        *)
(* machine, it may only lease from the slice of its own process, and a     *)
(* lease ends by being returned, never by being taken over.                *)
(***************************************************************************)
EXTENDS Naturals

CONSTANTS VMs,      \* the virtual machines
          Users,    \* the dialogues of all processes
          Slice,    \* Slice[u]: the machines that u may lease
          NoUser

VARIABLE lease      \* lease[v]: the user of v, or NoUser

vars == <<lease>>

Init == lease = [v \in VMs |-> NoUser]

Acquire(u, v) ==
  /\ v \in Slice[u]
  /\ lease[v] = NoUser
  /\ \A w \in VMs : lease[w] # u
  /\ lease' = [lease EXCEPT ![v] = u]

Release(v) ==
  /\ lease[v] # NoUser
  /\ lease' = [lease EXCEPT ![v] = NoUser]

Next == \/ \E u \in Users, v \in VMs : Acquire(u, v)
        \/ \E v \in VMs : Release(v)

Spec == Init /\ [][Next]_vars
=============================================================================
