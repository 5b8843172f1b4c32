------------------------------ MODULE Display ------------------------------
(***************************************************************************)
(* What a window that shows the answers of a device promises: it shows     *)
(* nothing, or exactly one thing the device has really answered.  It may   *)
(* be an old answer (the windows do not match answers with requests), but  *)
(* never a mixture of two answers and never something no device said.      *)
(***************************************************************************)
VARIABLES shown, served

Blank == [blank |-> TRUE]

Init == shown = Blank /\ served = {}

Serve == served \subseteq served' /\ UNCHANGED shown
Show == shown' \in served \cup {Blank} /\ UNCHANGED served

Next == Serve \/ Show

Spec == Init /\ [][Next]_<<shown, served>>
=============================================================================
