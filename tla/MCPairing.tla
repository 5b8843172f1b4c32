----------------------------- MODULE MCPairing -----------------------------
\* Bounded instances of Pairing.  A name of two lines is saved as the other.
EXTENDS Pairing

CONSTANT n1

MCOneLine == [n \in Name |-> n1]
=============================================================================
