---------------------------- MODULE ServerProofs ----------------------------
(***************************************************************************)
(* Proofs about the server around its requests.  Pairing, for any number   *)
(* of connections, keys, names and prompts: only keys the user allowed are *)
(* served, a prompt stays true while the user looks at it, and prompts     *)
(* keep to the ration of the token bucket.  Daemon, for any set of peers:  *)
(* Stop shuts down only channels that exist, and leaves nothing behind     *)
(* when it returns.                                                        *)
(***************************************************************************)
EXTENDS Pairing, Daemon, SequenceTheorems, TLAPS

\* Every place a key can be found in, the disk included, holds only keys the
\* user has allowed; a thread inside Admit works for a peer with an identity.
InAdmit == {"waiting", "prompting", "saving", "renaming"}

KnownKeys(store) == IF store = None THEN {} ELSE DOMAIN store

ConsentInv ==
    /\ DOMAIN fStore \subseteq consented
    /\ KnownKeys(file) \subseteq consented
    /\ KnownKeys(tmpFile) \subseteq consented
    /\ served \subseteq consented
    /\ NoKey \notin consented
    /\ \A c \in Conn : fAdmitted[c] => fPeer[c] \in DOMAIN fStore
    /\ \A c \in Conn : thread[c] \in InAdmit => fPeer[c] # NoKey
    /\ \A c \in Conn : thread[c] \in {"saving", "renaming"} =>
                            fPeer[c] \in DOMAIN fStore
    /\ \A c \in Conn : thread[c] = "free" => ~fAdmitted[c]

\* What a pin and a save do to the set of pinned keys.
LEMMA StoreKeys ==
    ASSUME NEW store, NEW fp, NEW name
    PROVE  /\ DOMAIN Pin(store, fp, name) = DOMAIN store \cup {fp}
           /\ DOMAIN FileContents(store) = DOMAIN store
           /\ DOMAIN NoPeers = {}
  BY DEF Pin, FileContents, NoPeers

\* A store that is a function is not the marker of a missing file.
LEMMA StoresAreFiles ==
    /\ \A s \in Stores, fp \in Fingerprint, n \in Name : Pin(s, fp, n) \in Stores
    /\ \A s \in Stores : FileContents(s) \in Stores
    /\ NoPeers \in Stores
<1>1. ASSUME NEW s \in Stores, NEW fp \in Fingerprint, NEW n \in Name
      PROVE  Pin(s, fp, n) \in Stores
  <2>1. PICK known \in SUBSET Fingerprint : s \in [known -> Name]
    BY DEF Stores
  <2>2. Pin(s, fp, n) \in [known \cup {fp} -> Name]
    BY <2>1 DEF Pin
  <2> QED
    BY <2>2 DEF Stores
<1>2. ASSUME NEW s \in Stores PROVE FileContents(s) \in Stores
  <2>1. PICK known \in SUBSET Fingerprint : s \in [known -> Name]
    BY DEF Stores
  <2>2. FileContents(s) \in [known -> Name]
    BY <2>1, OneLineAssumption DEF FileContents
  <2> QED
    BY <2>2 DEF Stores
<1>3. NoPeers \in [{} -> Name]
  BY DEF NoPeers
<1> QED
  BY <1>1, <1>2, <1>3 DEF Stores

LEMMA BucketTypes ==
    ASSUME NEW b \in Buckets, NEW t \in Nat
    PROVE  AfterTryTake(b, t) \in Buckets /\ FullBucket(t) \in Buckets
<1> DEFINE cap == fCapacity * fRefillMs
<1>1. fRefillMs \in Nat \ {0} /\ fCapacity \in Nat \ {0}
  BY BucketAssumption DEF fRefillMs, fCapacity
<1>2. cap \in Nat
  BY <1>1
<1>3. b.fTokens \in 0 .. cap /\ b.fLast \in Nat
  BY DEF Buckets
<1>4. FullBucket(t) \in Buckets
  BY <1>2 DEF FullBucket, Buckets
<1> HIDE DEF cap
<1>5. Refilled(b, t) \in [fTokens : 0 .. cap, fLast : Nat]
  <2>1. CASE t - b.fLast > 0
    <3> DEFINE refilled == b.fTokens + (t - b.fLast)
    <3>1. (IF refilled > cap THEN cap ELSE refilled) \in 0 .. cap
      BY <1>2, <1>3, <2>1
    <3>2. Refilled(b, t) =
            [fTokens |-> IF refilled > cap THEN cap ELSE refilled, fLast |-> t]
      BY <2>1 DEF Refilled, cap
    <3> QED
      BY <3>1, <3>2
  <2>2. CASE ~(t - b.fLast > 0)
    BY <2>2, <1>3 DEF Refilled, Buckets, cap
  <2> QED
    BY <2>1, <2>2
<1>6. CASE CanTake(b, t)
  <2>1. /\ Refilled(b, t).fTokens \in 0 .. cap
        /\ Refilled(b, t).fTokens >= fRefillMs
    BY <1>5, <1>6 DEF CanTake
  <2>2. Refilled(b, t).fTokens - fRefillMs \in 0 .. cap
    BY <2>1, <1>1, <1>2
  <2> QED
    BY <1>4, <1>5, <1>6, <2>2 DEF AfterTryTake, Buckets, cap
<1>7. CASE ~CanTake(b, t)
  BY <1>4, <1>5, <1>7 DEF AfterTryTake, Buckets, cap
<1> QED
  BY <1>6, <1>7

-----------------------------------------------------------------------------
LEMMA PairingType == Init => TypeOK
<1>1. NoName \in Name
  BY PairingAssumption DEF NoName
<1>2. FullBucket(0) \in Buckets
  <2>1. fCapacity * fRefillMs \in Nat
    BY BucketAssumption DEF fCapacity, fRefillMs
  <2> QED
    BY <2>1 DEF FullBucket, Buckets
<1> QED
  BY <1>1, <1>2, StoresAreFiles, EmptySeq, PairingAssumption
  DEF Init, TypeOK, ThreadPC, Decision

LEMMA TypeStep ==
    ASSUME TypeOK, [Next]_vars
    PROVE  TypeOK'
<1>1. NoName \in Name
  BY PairingAssumption DEF NoName
<1>2. now \in Nat
  BY PairingAssumption DEF TypeOK
<1>3. /\ AfterTryTake(fPromptBucket, now) \in Buckets
      /\ FullBucket(now) \in Buckets
  BY <1>2, BucketTypes DEF TypeOK
<1> USE DEF TypeOK, ThreadPC, Decision, Goto, LeaveAdmit, Admitted
<1>4. ASSUME NEW c \in Conn, NEW fp \in Fingerprint, Connect(c, fp) PROVE TypeOK'
  BY <1>4 DEF Connect
<1>5. ASSUME NEW c \in Conn, NEW fp \in Fingerprint, NEW n \in Name, Hello(c, fp, n)
      PROVE  TypeOK'
  BY <1>5 DEF Hello
<1>6. ASSUME NEW c \in Conn, Disconnect(c) PROVE TypeOK'
  BY <1>6, PairingAssumption DEF Disconnect
<1>7. ASSUME NEW c \in Conn, Request(c) PROVE TypeOK'
  BY <1>7 DEF Request, connVars
<1>8. ASSUME NEW c \in Conn, Serve(c) PROVE TypeOK'
  <2>1. CASE AdmitTrusted(c)
    BY <1>1, <2>1 DEF AdmitTrusted
  <2>2. CASE AdmitRefused(c)
    BY <1>1, <1>3, <2>2 DEF AdmitRefused
  <2>3. CASE RaisePrompt(c)
    <3>1. Append(prompts, now) \in Seq(0 .. MaxTime)
      BY AppendProperties
    <3> QED
      BY <1>3, <2>3, <3>1 DEF RaisePrompt, Evaluate
  <2>4. CASE WriteTmp(c)
    BY <2>4, StoresAreFiles DEF WriteTmp
  <2>5. CASE Rename(c)
    BY <1>1, <2>5 DEF Rename
  <2>6. CASE SaveFails(c)
    BY <1>1, <2>6 DEF SaveFails
  <2> QED
    BY <1>8, <2>1, <2>2, <2>3, <2>4, <2>5, <2>6 DEF Serve
<1>9. ASSUME NEW c \in Conn, Answer(c) PROVE TypeOK'
  <2>1. CASE Deny(c)
    BY <1>1, <2>1 DEF Deny
  <2>2. CASE Allow(c)
    BY <2>2, StoresAreFiles DEF Allow
  <2> QED
    BY <1>9, <2>1, <2>2 DEF Answer
<1>10. CASE Restart
  BY <1>1, <1>3, <1>10, StoresAreFiles, EmptySeq, PairingAssumption DEF Restart
<1>11. CASE Tick
  BY <1>11, PairingAssumption DEF Tick, connVars
<1>12. CASE UNCHANGED vars
  BY <1>12 DEF vars, connVars
<1> QED
  BY <1>4, <1>5, <1>6, <1>7, <1>8, <1>9, <1>10, <1>11, <1>12 DEF Next

\* The pairing state never leaves its type; the bucket never holds more than
\* fCapacity tokens nor less than none (TokenBucket.cpp, TryTake).
THEOREM PairingTypeCorrect == Spec => []TypeOK
  BY PairingType, TypeStep, PTL DEF Spec

-----------------------------------------------------------------------------
LEMMA ConsentInit == Init => ConsentInv
  BY StoreKeys DEF Init, ConsentInv, KnownKeys, InAdmit

LEMMA ConsentStep ==
    ASSUME TypeOK, ConsentInv, [Next]_vars
    PROVE  ConsentInv'
<1> USE DEF TypeOK, ConsentInv, InAdmit, Goto, LeaveAdmit, Admitted
<1>1. ASSUME NEW c \in Conn, NEW fp \in Fingerprint, Connect(c, fp) PROVE ConsentInv'
  BY <1>1 DEF Connect
<1>2. ASSUME NEW c \in Conn, NEW fp \in Fingerprint, NEW n \in Name, Hello(c, fp, n)
      PROVE  ConsentInv'
  BY <1>2 DEF Hello
<1>3. ASSUME NEW c \in Conn, Disconnect(c) PROVE ConsentInv'
  BY <1>3 DEF Disconnect
<1>4. ASSUME NEW c \in Conn, Request(c) PROVE ConsentInv'
  BY <1>4 DEF Request, connVars
<1>5. ASSUME NEW c \in Conn, Serve(c) PROVE ConsentInv'
  <2>1. CASE AdmitTrusted(c)
    BY <2>1 DEF AdmitTrusted, Evaluate, Find
  <2>2. CASE AdmitRefused(c)
    BY <2>2 DEF AdmitRefused
  <2>3. CASE RaisePrompt(c)
    BY <2>3 DEF RaisePrompt
  <2>4. CASE WriteTmp(c)
    BY <2>4, StoreKeys DEF WriteTmp, KnownKeys
  <2>5. CASE Rename(c)
    BY <2>5 DEF Rename, KnownKeys
  <2>6. CASE SaveFails(c)
    BY <2>6 DEF SaveFails
  <2> QED
    BY <1>5, <2>1, <2>2, <2>3, <2>4, <2>5, <2>6 DEF Serve
<1>6. ASSUME NEW c \in Conn, Answer(c) PROVE ConsentInv'
  <2>1. CASE Deny(c)
    BY <2>1 DEF Deny
  <2>2. CASE Allow(c)
    <3>1. DOMAIN fStore' = DOMAIN fStore \cup {fPeer[c]}
      BY <2>2, StoreKeys DEF Allow
    <3> QED
      BY <2>2, <3>1 DEF Allow
  <2> QED
    BY <1>6, <2>1, <2>2 DEF Answer
<1>7. CASE Restart
  BY <1>7, StoreKeys DEF Restart, KnownKeys
<1>8. CASE Tick
  BY <1>8 DEF Tick, connVars
<1>9. CASE UNCHANGED vars
  BY <1>9 DEF vars, connVars
<1> QED
  BY <1>1, <1>2, <1>3, <1>4, <1>5, <1>6, <1>7, <1>8, <1>9 DEF Next

\* No request reaches the file server without the user's consent to the key
\* that sent it, across restarts and failed saves (GatedHandler.cpp, Handle;
\* Pairing.cpp, Admit).
THEOREM ConsentComesFirst == Spec => []ServedOnlyByConsent
<1>1. ConsentInv => ServedOnlyByConsent
  BY DEF ConsentInv, ServedOnlyByConsent
<1> QED
  BY <1>1, PairingType, TypeStep, ConsentInit, ConsentStep, PTL DEF Spec

\* An admitted connection's key is pinned for as long as it is admitted.
THEOREM GateFollowsStore == Spec => []AdmittedIsPinned
<1>1. ConsentInv => AdmittedIsPinned
  BY DEF ConsentInv, AdmittedIsPinned
<1> QED
  BY <1>1, PairingType, TypeStep, ConsentInit, ConsentStep, PTL DEF Spec

-----------------------------------------------------------------------------
\* The mutex is held exactly through the prompt and the save; the file never
\* knows a key the store has forgotten, and the temporary file that is about to
\* be renamed has every key of the store.
LockInv ==
    /\ \A c \in Conn : thread[c] \in {"prompting", "saving", "renaming"} => fMutex = c
    /\ \A c \in Conn : thread[c] = "prompting" =>
            decision[c] = Evaluate(fStore, fPeer[c], claim[c])
    /\ KnownKeys(file) \subseteq DOMAIN fStore
    /\ \A c \in Conn : thread[c] = "renaming" =>
            tmpFile # None /\ DOMAIN tmpFile = DOMAIN fStore

LEMMA LockInit == Init => LockInv
  BY StoreKeys DEF Init, LockInv, KnownKeys

LEMMA LockStep ==
    ASSUME TypeOK, LockInv, [Next]_vars
    PROVE  LockInv'
<1> USE DEF TypeOK, LockInv, Goto, LeaveAdmit, Admitted
<1>1. ASSUME NEW c \in Conn, NEW fp \in Fingerprint, Connect(c, fp) PROVE LockInv'
  BY <1>1 DEF Connect
<1>2. ASSUME NEW c \in Conn, NEW fp \in Fingerprint, NEW n \in Name, Hello(c, fp, n)
      PROVE  LockInv'
  BY <1>2 DEF Hello
<1>3. ASSUME NEW c \in Conn, Disconnect(c) PROVE LockInv'
  BY <1>3 DEF Disconnect
<1>4. ASSUME NEW c \in Conn, Request(c) PROVE LockInv'
  BY <1>4 DEF Request, connVars
<1>5. ASSUME NEW c \in Conn, Serve(c) PROVE LockInv'
  <2>1. CASE AdmitTrusted(c)
    BY <2>1 DEF AdmitTrusted
  <2>2. CASE AdmitRefused(c)
    BY <2>2 DEF AdmitRefused
  <2>3. CASE RaisePrompt(c)
    BY <2>3, PairingAssumption DEF RaisePrompt
  <2>4. CASE WriteTmp(c)
    <3>1. FileContents(fStore) # None /\ DOMAIN FileContents(fStore) = DOMAIN fStore
      BY StoreKeys, StoresAreFiles, PairingAssumption
    <3> QED
      BY <2>4, <3>1 DEF WriteTmp
  <2>5. CASE Rename(c)
    BY <2>5, PairingAssumption DEF Rename, KnownKeys
  <2>6. CASE SaveFails(c)
    BY <2>6, PairingAssumption DEF SaveFails
  <2> QED
    BY <1>5, <2>1, <2>2, <2>3, <2>4, <2>5, <2>6 DEF Serve
<1>6. ASSUME NEW c \in Conn, Answer(c) PROVE LockInv'
  <2>1. CASE Deny(c)
    BY <2>1, PairingAssumption DEF Deny
  <2>2. CASE Allow(c)
    <3>1. DOMAIN fStore' = DOMAIN fStore \cup {fPeer[c]}
      BY <2>2, StoreKeys DEF Allow
    <3>2. \A d \in Conn : thread[d] \in {"prompting", "saving", "renaming"} => d = c
      BY <2>2 DEF Allow
    <3> QED
      BY <2>2, <3>1, <3>2 DEF Allow
  <2> QED
    BY <1>6, <2>1, <2>2 DEF Answer
<1>7. CASE Restart
  BY <1>7 DEF Restart, KnownKeys
<1>8. CASE Tick
  BY <1>8 DEF Tick, connVars
<1>9. CASE UNCHANGED vars
  BY <1>9 DEF vars, connVars
<1> QED
  BY <1>1, <1>2, <1>3, <1>4, <1>5, <1>6, <1>7, <1>8, <1>9 DEF Next

\* What a prompt tells the user stays true until the answer, and there is one
\* prompt at a time (Pairing.cpp, the lock around Evaluate and Ask).
THEOREM PromptStaysTrue == Spec => []PromptIsCurrent
<1>1. LockInv => PromptIsCurrent
  BY DEF LockInv, PromptIsCurrent
<1> QED
  BY <1>1, PairingType, TypeStep, LockInit, LockStep, PTL DEF Spec

\* However saves fail and the process dies, a peer that is in the file stays in
\* the file (TrustStore.cpp, SaveToFile).
THEOREM SavedPeersStay == Spec => FileOnlyGrows
<1>1. ASSUME TypeOK, LockInv, [Next]_vars, file # None
      PROVE  file' # None /\ DOMAIN file \subseteq DOMAIN file'
  <2>1. ASSUME NEW c \in Conn, Rename(c)
        PROVE  file' # None /\ DOMAIN file \subseteq DOMAIN file'
    BY <1>1, <2>1 DEF Rename, LockInv, KnownKeys
  <2>2. ASSUME Next, \A c \in Conn : ~Rename(c) PROVE UNCHANGED file
    BY <2>2 DEF Next, Connect, Hello, Disconnect, Request, Serve, AdmitTrusted,
                AdmitRefused, RaisePrompt, WriteTmp, SaveFails, Answer, Deny,
                Allow, Restart, Tick
  <2>3. CASE UNCHANGED vars
    BY <1>1, <2>3 DEF vars
  <2> QED
    BY <1>1, <2>1, <2>2, <2>3
<1>2. TypeOK /\ LockInv /\ [Next]_vars =>
        [file # None => (file' # None /\ DOMAIN file \subseteq DOMAIN file')]_vars
  BY <1>1
<1> QED
  BY <1>2, PairingType, TypeStep, LockInit, LockStep, PTL DEF Spec, FileOnlyGrows

-----------------------------------------------------------------------------
\* The prompts are rationed.  What the bucket holds and the prompts since the i-th, that
\* one included, are paid for by a full bucket and the time since then.
Cap == fCapacity * fRefillMs
Paid(i) ==
    fPromptBucket.fTokens + (Len(prompts) - i + 1) * fRefillMs
        <= Cap + (fPromptBucket.fLast - prompts[i])

RationInv ==
    /\ fPromptBucket.fLast <= now
    /\ \A i \in 1 .. Len(prompts) : Paid(i)
    /\ PromptsAreRationed

LEMMA BucketSize ==
    /\ fRefillMs \in Nat \ {0} /\ fCapacity \in Nat \ {0}
    /\ Cap \in Nat /\ fRefillMs <= Cap
<1>1. fRefillMs \in Nat \ {0} /\ fCapacity \in Nat \ {0}
  BY BucketAssumption DEF fRefillMs, fCapacity
<1>2. ASSUME NEW r \in Nat \ {0}, NEW k \in Nat \ {0}
      PROVE  k * r \in Nat /\ r <= k * r
  OBVIOUS
<1> QED
  BY <1>1, <1>2 DEF Cap

\* TryTake's refill: no more than the time since the last one, and never over the brim.
LEMMA RefillBounds ==
    ASSUME NEW b \in Buckets, NEW t \in Nat, b.fLast <= t
    PROVE  /\ Refilled(b, t).fLast = t
           /\ Refilled(b, t).fTokens \in 0 .. Cap
           /\ Refilled(b, t).fTokens <= b.fTokens + (t - b.fLast)
           /\ Refilled(b, t) = [fTokens |-> Refilled(b, t).fTokens, fLast |-> Refilled(b, t).fLast]
<1>1. /\ b.fTokens \in 0 .. Cap /\ b.fLast \in Nat /\ Cap \in Nat
      /\ b = [fTokens |-> b.fTokens, fLast |-> b.fLast]
  BY BucketSize DEF Buckets, Cap
<1>2. CASE t - b.fLast > 0
  <2> DEFINE sum == b.fTokens + (t - b.fLast)
             new == IF sum > Cap THEN Cap ELSE sum
  <2>1. Refilled(b, t) = [fTokens |-> new, fLast |-> t]
    BY <1>2 DEF Refilled, Cap
  <2>2. new \in 0 .. Cap /\ new <= sum
    BY <1>1, <1>2
  <2> HIDE DEF new
  <2> QED
    BY <2>1, <2>2
<1>3. CASE ~ (t - b.fLast > 0)
  <2>1. Refilled(b, t) = b /\ b.fLast = t
    BY <1>1, <1>3 DEF Refilled
  <2> QED
    BY <1>1, <2>1
<1> QED
  BY <1>2, <1>3

\* TryTake: a token is taken or not, and the clock is that of the refill.
LEMMA TakeBounds ==
    ASSUME NEW b \in Buckets, NEW t \in Nat, b.fLast <= t
    PROVE  /\ AfterTryTake(b, t).fLast = t
           /\ AfterTryTake(b, t).fTokens \in Nat
           /\ AfterTryTake(b, t).fTokens <= b.fTokens + (t - b.fLast)
           /\ CanTake(b, t) =>
                /\ AfterTryTake(b, t).fTokens + fRefillMs <= b.fTokens + (t - b.fLast)
                /\ AfterTryTake(b, t).fTokens + fRefillMs <= Cap
<1> DEFINE r == Refilled(b, t)
<1>1. /\ r.fLast = t /\ r.fTokens \in 0 .. Cap /\ r.fTokens <= b.fTokens + (t - b.fLast)
      /\ r = [fTokens |-> r.fTokens, fLast |-> r.fLast]
  BY RefillBounds
<1>2. b.fTokens \in Nat /\ b.fLast \in Nat /\ fRefillMs \in Nat /\ Cap \in Nat
  BY BucketSize DEF Buckets
<1>3. CASE CanTake(b, t)
  <2>1. r.fTokens >= fRefillMs
    BY <1>3 DEF CanTake
  <2>2. AfterTryTake(b, t) = [r EXCEPT !.fTokens = r.fTokens - fRefillMs]
    BY <1>3 DEF AfterTryTake
  <2> HIDE DEF r
  <2>3. AfterTryTake(b, t).fTokens = r.fTokens - fRefillMs /\ AfterTryTake(b, t).fLast = t
    BY <1>1, <2>2
  <2> DEFINE a == AfterTryTake(b, t).fTokens
  <2>4. a = r.fTokens - fRefillMs
    BY <2>3
  <2> HIDE DEF a
  <2>5. a \in Nat /\ a + fRefillMs <= b.fTokens + (t - b.fLast) /\ a + fRefillMs <= Cap
        /\ a <= b.fTokens + (t - b.fLast)
    BY <1>1, <1>2, <2>1, <2>4
  <2> QED
    BY <2>3, <2>5 DEF a
<1>4. CASE ~CanTake(b, t)
  <2>1. AfterTryTake(b, t) = r
    BY <1>4 DEF AfterTryTake
  <2> QED
    BY <1>1, <1>2, <1>4, <2>1
<1> QED
  BY <1>3, <1>4

\* AdmitRefused: time passes into the bucket, and no more.
LEMMA RefusedRation ==
    ASSUME TypeOK, RationInv, fPromptBucket' = AfterTryTake(fPromptBucket, now),
           UNCHANGED <<now, prompts>>
    PROVE  RationInv'
<1> DEFINE b == fPromptBucket
           a == AfterTryTake(b, now)
<1>1. b \in Buckets /\ now \in Nat /\ b.fLast <= now /\ b.fTokens \in Nat /\ b.fLast \in Nat
      /\ prompts \in Seq(0 .. MaxTime)
  <2>1. b \in Buckets /\ now \in Nat /\ prompts \in Seq(0 .. MaxTime) /\ b.fLast <= now
    BY PairingAssumption DEF TypeOK, RationInv
  <2> QED
    BY <2>1, BucketSize DEF Buckets
<1>2. a.fLast = now /\ a.fTokens \in Nat /\ a.fTokens <= b.fTokens + (now - b.fLast)
  BY <1>1, TakeBounds
<1>3. ASSUME NEW i \in 1 .. Len(prompts) PROVE Paid(i)'
  <2>1. PICK owed \in Int : owed = (Len(prompts) - i + 1) * fRefillMs
    <3>1. Len(prompts) - i + 1 \in Int /\ fRefillMs \in Int
      BY <1>1, BucketSize
    <3> QED
      BY <3>1
  <2>2. PICK p \in Int : p = prompts[i]
    BY <1>1, PairingAssumption, ElementOfSeq
  <2>3. PICK x \in Int, l \in Int : x = b.fTokens /\ l = b.fLast
    BY <1>1
  <2>4. PICK y \in Int : y = a.fTokens
    BY <1>2
  <2>5. x + owed <= Cap + (l - p)
    BY <2>1, <2>2, <2>3 DEF RationInv, Paid
  <2>6. y + owed <= Cap + (now - p)
    <3>1. y <= x + (now - l)
      BY <1>2, <2>3, <2>4
    <3>2. PICK cap \in Nat : cap = Cap
      BY BucketSize
    <3>3. x + owed <= cap + (l - p)
      BY <2>5, <3>2
    <3>4. y + owed <= cap + (now - p)
      BY <1>1, <3>1, <3>3
    <3> QED
      BY <3>2, <3>4
  <2>7. fPromptBucket'.fTokens = y /\ fPromptBucket'.fLast = now
    BY <1>2, <2>4
  <2>8. Paid(i)' <=> fPromptBucket'.fTokens + (Len(prompts) - i + 1) * fRefillMs
                        <= Cap + (fPromptBucket'.fLast - prompts[i])
    BY DEF Paid, Cap
  <2> QED
    BY <2>1, <2>2, <2>6, <2>7, <2>8
<1>4. fPromptBucket'.fLast <= now'
  BY <1>1, <1>2
<1> QED
  BY <1>3, <1>4 DEF RationInv, PromptsAreRationed

LEMMA PromptRation ==
    ASSUME TypeOK, RationInv, CanTake(fPromptBucket, now),
           fPromptBucket' = AfterTryTake(fPromptBucket, now),
           prompts' = Append(prompts, now), UNCHANGED now
    PROVE  RationInv'
<1> DEFINE b == fPromptBucket
           a == AfterTryTake(b, now)
           n == Len(prompts)
<1>1. b \in Buckets /\ now \in Nat /\ b.fLast <= now /\ b.fTokens \in Nat /\ b.fLast \in Nat
      /\ prompts \in Seq(0 .. MaxTime) /\ n \in Nat
  <2>1. b \in Buckets /\ now \in Nat /\ prompts \in Seq(0 .. MaxTime) /\ b.fLast <= now
    BY PairingAssumption DEF TypeOK, RationInv
  <2> QED
    BY <2>1, BucketSize, LenProperties DEF Buckets
<1>2. /\ a.fLast = now /\ a.fTokens \in Nat
      /\ a.fTokens + fRefillMs <= b.fTokens + (now - b.fLast)
      /\ a.fTokens + fRefillMs <= Cap
  BY <1>1, TakeBounds
<1>3. fPromptBucket'.fTokens = a.fTokens /\ fPromptBucket'.fLast = now
  BY <1>2
<1>4. /\ Len(prompts') = n + 1 /\ prompts'[n + 1] = now
      /\ \A i \in 1 .. n : prompts'[i] = prompts[i]
  BY <1>1, AppendProperties
<1>5. fRefillMs \in Nat /\ Cap \in Nat /\ fCapacity \in Nat
  BY BucketSize
<1> HIDE DEF a, b, n
<1>6. PICK r \in Nat, cap \in Nat, k \in Nat :
        r = fRefillMs /\ cap = Cap /\ k = fCapacity /\ r <= cap /\ cap = k * r
  BY BucketSize DEF Cap
<1>7. PICK y \in Nat : y = a.fTokens
  BY <1>2
\* The new prompt and those before it, from the i-th on.
<1>8. ASSUME NEW i \in 1 .. n + 1
      PROVE  prompts'[i] \in Int /\ y + (n + 1 - i + 1) * r <= cap + (now - prompts'[i])
  <2>1. CASE i = n + 1
    <3>1. prompts'[i] = now /\ n + 1 - i + 1 = 1
      BY <1>1, <1>4, <2>1
    <3>2. (n + 1 - i + 1) * r = r
      BY <1>6, <3>1
    <3>3. y + r <= cap
      BY <1>2, <1>6, <1>7
    <3>4. y + (n + 1 - i + 1) * r <= cap
      BY <3>2, <3>3
    <3>5. cap + (now - prompts'[i]) = cap
      BY <1>1, <1>6, <3>1
    <3> QED
      BY <1>1, <3>1, <3>4, <3>5
  <2>2. CASE i \in 1 .. n
    <3>1. PICK p \in Int : p = prompts[i]
      BY <1>1, <2>2, PairingAssumption, ElementOfSeq DEF n
    <3>2. PICK m \in Int : m = n - i + 1
      BY <1>1
    <3>3. n + 1 - i + 1 = m + 1
      BY <1>1, <3>2
    <3>4. PICK owed \in Int : owed = m * r
      BY <1>6, <3>2
    <3>5. (m + 1) * r = owed + r
      BY <1>6, <3>2, <3>4
    <3>6. PICK x \in Int, l \in Int : x = b.fTokens /\ l = b.fLast
      BY <1>1
    <3>7. x + owed <= cap + (l - p)
      BY <1>6, <2>2, <3>1, <3>2, <3>4, <3>6 DEF RationInv, Paid, n, b
    <3>8. y + r <= x + (now - l)
      BY <1>2, <1>6, <1>7, <3>6
    <3>9. y + (owed + r) <= cap + (now - p)
      BY <1>1, <1>6, <1>7, <3>7, <3>8
    <3>10. prompts'[i] = p
      BY <1>4, <2>2, <3>1
    <3> QED
      BY <3>3, <3>5, <3>9, <3>10
  <2>3. i \in 1 .. n \/ i = n + 1
    BY <1>1
  <2> QED
    BY <2>1, <2>2, <2>3
<1>10. ASSUME NEW i \in 1 .. n + 1 PROVE Paid(i)'
  <2>1. Paid(i)' <=> fPromptBucket'.fTokens + (Len(prompts') - i + 1) * fRefillMs
                        <= Cap + (fPromptBucket'.fLast - prompts'[i])
    BY DEF Paid, Cap
  <2>2. /\ fPromptBucket'.fTokens = y /\ fPromptBucket'.fLast = now /\ Len(prompts') = n + 1
        /\ fRefillMs = r /\ Cap = cap
    BY <1>3, <1>4, <1>6, <1>7
  <2>3. y + (n + 1 - i + 1) * r <= cap + (now - prompts'[i])
    BY <1>8
  <2>4. PICK m \in Int : m = n + 1 - i + 1
    BY <1>1
  <2>5. Len(prompts') - i + 1 = m /\ m * fRefillMs = m * r
    BY <1>1, <1>6, <2>2, <2>4
  <2>6. PICK o \in Int : o = m * r
    BY <1>6, <2>4
  <2>7. y + o <= cap + (now - prompts'[i])
    BY <2>3, <2>4, <2>6
  <2>8. (Len(prompts') - i + 1) * fRefillMs = o
    BY <2>5, <2>6
  <2> QED
    BY <2>1, <2>2, <2>7, <2>8
<1>11. PromptsAreRationed'
  <2> SUFFICES ASSUME NEW i \in 1 .. n + 1, NEW j \in 1 .. n + 1, i <= j
               PROVE  (j - i + 1 - k) * r <= prompts'[j] - prompts'[i]
    BY <1>4, <1>6 DEF PromptsAreRationed
  <2>1. CASE j \in 1 .. n
    <3>1. i \in 1 .. n
      BY <1>1, <2>1
    <3>2. (j - i + 1 - k) * r <= prompts[j] - prompts[i]
      BY <1>6, <2>1, <3>1 DEF RationInv, PromptsAreRationed, n
    <3>3. prompts'[j] = prompts[j] /\ prompts'[i] = prompts[i]
      BY <1>4, <2>1, <3>1
    <3> QED
      BY <3>2, <3>3
  <2>2. CASE j = n + 1
    <3>1. PICK m \in Int : m = n + 1 - i + 1
      BY <1>1
    <3>2. j - i + 1 - k = m - k
      BY <1>1, <1>6, <2>2, <3>1
    <3>3. PICK owed \in Int : owed = m * r
      BY <1>6, <3>1
    <3>4. (m - k) * r = owed - cap
      BY <1>6, <3>1, <3>3
    <3>5. PICK p \in Int : p = prompts'[i]
      BY <1>8
    <3>6. y + owed <= cap + (now - p)
      BY <1>8, <3>1, <3>3, <3>5
    <3>7. owed - cap <= now - p
      BY <1>1, <1>6, <1>7, <3>6
    <3>8. prompts'[j] = now
      BY <1>4, <2>2
    <3> QED
      BY <3>2, <3>4, <3>5, <3>7, <3>8
  <2>3. j \in 1 .. n \/ j = n + 1
    BY <1>1
  <2> QED
    BY <2>1, <2>2, <2>3
<1>12. fPromptBucket'.fLast <= now'
  BY <1>1, <1>3
<1> QED
  BY <1>4, <1>10, <1>11, <1>12 DEF RationInv

LEMMA RationInit == Init => RationInv
<1> SUFFICES ASSUME Init PROVE RationInv
  OBVIOUS
<1>1. Len(<<>>) = 0 /\ 1 .. 0 = {}
  OBVIOUS
<1> QED
  BY <1>1 DEF Init, RationInv, PromptsAreRationed, FullBucket

LEMMA RationStep ==
    ASSUME TypeOK, RationInv, [Next]_vars
    PROVE  RationInv'
<1>1. ASSUME UNCHANGED <<fPromptBucket, now, prompts>> PROVE RationInv'
  BY <1>1 DEF RationInv, Paid, PromptsAreRationed
<1>2. ASSUME NEW c \in Conn, Serve(c) PROVE RationInv'
  <2>1. CASE AdmitRefused(c)
    BY <2>1, RefusedRation DEF AdmitRefused
  <2>2. CASE RaisePrompt(c)
    BY <2>2, PromptRation DEF RaisePrompt
  <2>3. CASE AdmitTrusted(c) \/ WriteTmp(c) \/ Rename(c) \/ SaveFails(c)
    BY <1>1, <2>3 DEF AdmitTrusted, WriteTmp, Rename, SaveFails
  <2> QED
    BY <1>2, <2>1, <2>2, <2>3 DEF Serve
<1>3. CASE Restart
  <2>1. Len(<<>>) = 0 /\ 1 .. 0 = {}
    OBVIOUS
  <2>2. fPromptBucket'.fLast = now /\ prompts' = <<>> /\ now' = now /\ now \in Nat
    BY <1>3, PairingAssumption DEF Restart, FullBucket, TypeOK
  <2> QED
    BY <2>1, <2>2 DEF RationInv, PromptsAreRationed
<1>4. CASE Tick
  <2>1. now' = now + 1 /\ UNCHANGED <<fPromptBucket, prompts>>
    BY <1>4 DEF Tick
  <2>2. fPromptBucket.fLast \in Nat /\ now \in Nat
    BY PairingAssumption DEF TypeOK, Buckets
  <2> QED
    BY <2>1, <2>2 DEF RationInv, Paid, PromptsAreRationed
<1>5. ASSUME NEW c \in Conn, \/ \E fp \in Fingerprint : Connect(c, fp)
                             \/ \E fp \in Fingerprint, n \in Name : Hello(c, fp, n)
                             \/ Disconnect(c) \/ Request(c) \/ Answer(c)
      PROVE  RationInv'
  BY <1>1, <1>5 DEF Connect, Hello, Disconnect, Request, Answer, Deny, Allow
<1>6. CASE UNCHANGED vars
  BY <1>1, <1>6 DEF vars
<1> QED
  BY <1>2, <1>3, <1>4, <1>5, <1>6 DEF Next

\* However peers come back and whatever they are told, in any stretch of time the user
\* sees no more prompts than the burst and the refill of that time (TokenBucket.cpp,
\* TryTake; Pairing.cpp, Admit).
THEOREM PromptsKeepToTheRation == Spec => []PromptsAreRationed
<1>1. RationInv => PromptsAreRationed
  BY DEF RationInv
<1> QED
  BY <1>1, PairingType, TypeStep, RationInit, RationStep, PTL DEF Spec

-----------------------------------------------------------------------------
\* The daemon.

\* The accept thread holds a connection exactly between accept and the spawn of
\* its thread; that connection has no thread yet.
HandIsFresh ==
    /\ acceptor \in {"check", "wrap", "register"} <=> inHand # NoPeer
    /\ inHand # NoPeer => serve[inHand] = "none" /\ inHand \notin backlog
    /\ \A p \in backlog : serve[p] = "none"

\* A channel exists from the end of its handshake to the end of its thread.
ChannelLife ==
    \A p \in Peer :
        p \in channels <=>
            \/ serve[p] \in {"serving", "prompting", "leaving", "exiting"}
            \/ p = inHand /\ acceptor = "register"

\* fActiveChannels holds the channels whose thread has not unregistered, and
\* every running thread is there for Stop to join.
Registered ==
    \A p \in Peer :
        /\ p \in fActiveChannels => serve[p] \in {"serving", "prompting", "leaving"}
        /\ serve[p] \in {"serving", "prompting", "leaving", "exiting"} => p \in fPeerThreads

\* Stop walks fActiveChannels with the mutex held, after the accept thread ended,
\* and unlocks with nothing left to walk.
StopOrder ==
    /\ stop = "shutdown" <=> fMutexHolder = "stop"
    /\ walk \subseteq fActiveChannels
    /\ stop # "shutdown" => walk = {}
    /\ stop \in {"lock", "shutdown", "joinPeers", "done"} => acceptor \in {"unstarted", "returned"}
    /\ stop = "done" => fPeerThreads = {}

DaemonInv == DaemonTypeOK /\ HandIsFresh /\ ChannelLife /\ Registered /\ StopOrder

-----------------------------------------------------------------------------
\* A daemon that has not been started satisfies the invariant.
LEMMA DaemonInvInit == DaemonInit => DaemonInv
  BY DaemonAssumption
     DEF DaemonInit, DaemonInv, DaemonTypeOK, HandIsFresh, ChannelLife, Registered, StopOrder,
         AcceptPC, ServePC, StopPC

\* Every step of the accept thread, the peers, the peer threads and Stop keeps
\* the invariant.
LEMMA DaemonInvStep == DaemonInv /\ [DaemonNext]_daemonVars => DaemonInv'
  <1> SUFFICES ASSUME DaemonInv, [DaemonNext]_daemonVars PROVE DaemonInv'
      OBVIOUS
  <1> USE DaemonAssumption
      DEF DaemonInv, DaemonTypeOK, HandIsFresh, ChannelLife, Registered, StopOrder,
          AcceptPC, ServePC, StopPC, acceptVars, peerVars, stopVars
  <1>1. ASSUME NEW p \in Peer, PeerConnects(p) PROVE DaemonInv'
      BY <1>1 DEF PeerConnects
  <1>2. ASSUME NEW p \in Peer, PeerCloses(p) PROVE DaemonInv'
      BY <1>2 DEF PeerCloses
  <1>3. CASE Start
      BY <1>3 DEF Start
  <1>4. ASSUME NEW p \in Peer, Accept(p) PROVE DaemonInv'
      BY <1>4 DEF Accept
  <1>5. CASE AcceptFails
      BY <1>5 DEF AcceptFails
  <1>6. CASE CheckStopping
      BY <1>6 DEF CheckStopping
  <1>7. CASE Wrapped
      BY <1>7 DEF Wrapped
  <1>8. CASE Rejected
      BY <1>8 DEF Rejected
  <1>9. CASE Register
      BY <1>9 DEF Register, ServeAt
  <1>10. ASSUME NEW p \in Peer, PromptUser(p) PROVE DaemonInv'
      BY <1>10 DEF PromptUser, ServeAt
  <1>11. ASSUME NEW p \in Peer, UserAnswers(p) PROVE DaemonInv'
      BY <1>11 DEF UserAnswers, ServeAt
  <1>12. ASSUME NEW p \in Peer, ServeReturns(p) PROVE DaemonInv'
      BY <1>12 DEF ServeReturns, ServeAt
  <1>13. ASSUME NEW p \in Peer, Unregister(p) PROVE DaemonInv'
      BY <1>13 DEF Unregister, ServeAt
  <1>14. ASSUME NEW p \in Peer, DestroyChannel(p) PROVE DaemonInv'
      BY <1>14 DEF DestroyChannel, ServeAt
  <1>15. CASE StopRequest
      BY <1>15 DEF StopRequest
  <1>16. CASE CloseListener
      BY <1>16 DEF CloseListener
  <1>17. CASE JoinAccept
      BY <1>17 DEF JoinAccept
  <1>18. CASE LockChannels
      BY <1>18 DEF LockChannels
  <1>19. ASSUME NEW p \in Peer, ShutdownChannel(p) PROVE DaemonInv'
      BY <1>19 DEF ShutdownChannel
  <1>20. CASE UnlockChannels
      BY <1>20 DEF UnlockChannels
  <1>21. CASE JoinPeers
      BY <1>21 DEF JoinPeers
  <1>22. CASE UNCHANGED daemonVars
      BY <1>22 DEF daemonVars
  <1> QED
      BY <1>1, <1>2, <1>3, <1>4, <1>5, <1>6, <1>7, <1>8, <1>9, <1>10, <1>11,
         <1>12, <1>13, <1>14, <1>15, <1>16, <1>17, <1>18, <1>19, <1>20, <1>21, <1>22
      DEF DaemonNext, AcceptThread, PeerThread, Stop, Stopped

-----------------------------------------------------------------------------
\* Daemon::Stop shuts down only channels that exist: the registry, and what is
\* left of Stop's walk over it, name no channel a peer thread has destroyed.
THEOREM StopTouchesLiveChannels == DaemonSpec => []ActiveChannelsExist
  <1>1. DaemonInv => ActiveChannelsExist
      BY DEF DaemonInv, DaemonTypeOK, ChannelLife, Registered, StopOrder, ActiveChannelsExist
  <1> QED
      BY <1>1, DaemonInvInit, DaemonInvStep, PTL DEF DaemonSpec

\* When Daemon::Stop returns, the accept thread and every peer thread have ended
\* and every channel is destroyed, even with peers that never end a handshake.
THEOREM StopIsComplete == DaemonSpec => []StopLeavesNothing
  <1>1. DaemonInv => StopLeavesNothing
      BY DEF DaemonInv, DaemonTypeOK, ServePC, HandIsFresh, ChannelLife, Registered, StopOrder, StopLeavesNothing
  <1> QED
      BY <1>1, DaemonInvInit, DaemonInvStep, PTL DEF DaemonSpec
=============================================================================
