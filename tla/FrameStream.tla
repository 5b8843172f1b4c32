---------------------------- MODULE FrameStream ----------------------------
(***************************************************************************)
(* What a connection promises of its outbound frames: they form one        *)
(* stream.  Frames are accepted one at a time; the wire carries them in    *)
(* that order, each once, with no gap, and may stop anywhere.              *)
(***************************************************************************)
EXTENDS Naturals, Sequences

CONSTANT Frame

VARIABLES accepted, sent

Init == accepted = <<>> /\ sent = <<>>

Accept(f) == accepted' = Append(accepted, f) /\ UNCHANGED sent

Deliver ==
    /\ Len(sent) < Len(accepted)
    /\ sent' = Append(sent, accepted[Len(sent) + 1])
    /\ UNCHANGED accepted

Next == (\E f \in Frame : Accept(f)) \/ Deliver

Spec == Init /\ [][Next]_<<accepted, sent>>
=============================================================================
