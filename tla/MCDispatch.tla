----------------------------- MODULE MCDispatch -----------------------------
\* Bounded instances of Dispatch for TLC.
EXTENDS Dispatch

MCFrame == ({"reply"} \X RequestId) \cup ({"update"} \X (1 .. MaxUpdates))

\* The last pushed frame is one that cannot be encoded.
MCTooLarge == {<<"update", MaxUpdates>>}
=============================================================================
