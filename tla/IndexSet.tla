------------------------------ MODULE IndexSet ------------------------------
(***************************************************************************)
(* What an index of slotidx.h promises: it is the set of the pairs of a    *)
(* hash and a slot put in since it was last emptied.                       *)
(***************************************************************************)
CONSTANTS Hashes, IdxSlots
VARIABLE pairs

Empty == pairs' = {}
Add(h, slot) == pairs' = pairs \cup {<<h, slot>>}

IndexInit == pairs = {}
IndexNext == Empty \/ \E h \in Hashes, slot \in IdxSlots : Add(h, slot)
IndexSpec == IndexInit /\ [][IndexNext]_pairs

=============================================================================
