---------------------------- MODULE TokenBucket ----------------------------
(***************************************************************************)
(* traghetto/trust/TokenBucket.cpp.  The code keeps fractional tokens in a *)
(* double; here a token is fRefillMs parts and one part flows in every     *)
(* millisecond, so the arithmetic is exact.  A bucket is the record of     *)
(* fTokens (in parts) and fLast.                                           *)
(***************************************************************************)
EXTENDS Integers

CONSTANTS
    Burst,      \* the capacity asked for
    RefillMs    \* the refill interval asked for

ASSUME BucketAssumption == Burst \in Int /\ RefillMs \in Int

fCapacity == IF Burst < 1 THEN 1 ELSE Burst
fRefillMs == IF RefillMs < 1 THEN 1 ELSE RefillMs

Buckets == [fTokens : 0 .. fCapacity * fRefillMs, fLast : Nat]

FullBucket(now) == [fTokens |-> fCapacity * fRefillMs, fLast |-> now]

Refilled(b, now) ==
    IF now - b.fLast > 0
    THEN LET refilled == b.fTokens + (now - b.fLast)
             cap == fCapacity * fRefillMs
         IN  [fTokens |-> IF refilled > cap THEN cap ELSE refilled, fLast |-> now]
    ELSE b

\* TryTake: the refill is kept whether or not a token can be taken.
CanTake(b, now) == Refilled(b, now).fTokens >= fRefillMs

\* Mutant of AfterTryTake: taking a token forgets that the refill was counted.
AfterTryTakeOldClock(b, now) ==
    IF CanTake(b, now)
    THEN [fTokens |-> Refilled(b, now).fTokens - fRefillMs, fLast |-> b.fLast]
    ELSE Refilled(b, now)

AfterTryTake(b, now) ==
    IF CanTake(b, now)
    THEN [Refilled(b, now) EXCEPT !.fTokens = @ - fRefillMs]
    ELSE Refilled(b, now)
=============================================================================
