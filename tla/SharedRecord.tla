---------------------------- MODULE SharedRecord ----------------------------
(***************************************************************************)
(* What the callers of updateJsonAtomically, updateFeatureStatus and       *)
(* FeatureLoader.update expect of a JSON file: a record that updates are   *)
(* applied to one at a time, each as a whole, and none undone.  Once a     *)
(* read has fallen back on an older document nothing is promised any more. *)
(***************************************************************************)
CONSTANT Update     \* the updates that callers make
VARIABLES
  value,            \* the updates the record shows
  intact            \* no read has fallen back

Init == value = {} /\ intact = TRUE

Apply(u) == intact /\ value' = value \cup {u} /\ UNCHANGED intact

\* An older document is returned, and may be put in the place of the record.
FallBack == intact' = FALSE

Next == (\E u \in Update : Apply(u)) \/ FallBack

Spec == Init /\ [][Next]_<<value, intact>>
=============================================================================
