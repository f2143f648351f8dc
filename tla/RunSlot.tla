------------------------------- MODULE RunSlot -------------------------------
(***************************************************************************)
(* What the UI server promises about its generation slot, with nothing of  *)
(* how it keeps that promise: at most one run owns the slot, a run owns it *)
(* for one uninterrupted stretch, and a run that has lost the slot (it     *)
(* finished, or a Force took the slot from it) never owns it again and     *)
(* never takes it away from its successor.  UIServer implements this with  *)
(* genRunning, genEpoch and genCancel.                                     *)
(***************************************************************************)
CONSTANTS Runs,
          None  \* not a run

VARIABLES owner,   \* the run that owns the slot, or None
          retired  \* the runs that owned it and lost it

slotVars == <<owner, retired>>

TypeOK ==
  /\ owner \in Runs \union {None}
  /\ retired \subseteq Runs

Init == owner = None /\ retired = {}

(* A run takes the free slot. *)
Claim(r) ==
  /\ owner = None
  /\ r \notin retired
  /\ owner' = r
  /\ UNCHANGED retired

(* A run takes the slot from the run that owns it, which is retired. *)
Supersede(r) ==
  /\ owner # None
  /\ r \notin retired \union {owner}
  /\ owner' = r
  /\ retired' = retired \union {owner}

(* The owner, and nobody else, gives the slot back. *)
Release ==
  /\ owner # None
  /\ owner' = None
  /\ retired' = retired \union {owner}

Next == (\E r \in Runs : Claim(r) \/ Supersede(r)) \/ Release

Spec == Init /\ [][Next]_slotVars

=============================================================================
