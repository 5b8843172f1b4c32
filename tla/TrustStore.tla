----------------------------- MODULE TrustStore -----------------------------
(***************************************************************************)
(* traghetto/trust/TrustStore.cpp: the pinned peers, a function from       *)
(* fingerprints to the name each was pinned with.  Trust is by fingerprint *)
(* alone; a name only tells a stranger from a possible impersonation.      *)
(* The file holds one line per peer, so a name is saved on one line.       *)
(***************************************************************************)
CONSTANTS
    Fingerprint,   \* SPKI fingerprints
    Name,          \* names peers claim
    OneLine        \* what is left of a name once it is a single line

ASSUME OneLineAssumption ==
    /\ OneLine \in [Name -> Name]
    /\ \A n \in Name : OneLine[OneLine[n]] = OneLine[n]

\* The values of fPeers.
Stores == UNION {[known -> Name] : known \in SUBSET Fingerprint}

NoPeers == [fp \in {} |-> CHOOSE n \in Name : TRUE]

Decision == {"kTrusted", "kUnknown", "kKeyChanged"}

Pin(store, fp, name) ==
    [f \in DOMAIN store \cup {fp} |-> IF f = fp THEN name ELSE store[f]]

Find(store, fp) == fp \in DOMAIN store

Evaluate(store, fp, name) ==
    IF Find(store, fp) THEN "kTrusted"
    ELSE IF \E f \in DOMAIN store : store[f] = name THEN "kKeyChanged"
    ELSE "kUnknown"

\* What SaveToFile writes and LoadFromFile reads back.
FileContents(store) == [fp \in DOMAIN store |-> OneLine[store[fp]]]
=============================================================================
