------------------------------ MODULE Pairing ------------------------------
(***************************************************************************)
(* Who may use the daemon: the gate of server/GatedHandler.cpp in front of *)
(* the file server, one per connection, and the shared policy of           *)
(* trust/Pairing.cpp behind it.                                            *)
(*                                                                         *)
(* Every connection is served by its own thread.  A HELLO that passes the  *)
(* gate's own checks waits for Pairing's mutex; the mutex is then held     *)
(* across the rate limiter, the user's prompt, the pin and the two steps   *)
(* of SaveToFile (temporary file, rename).  The process may die at any     *)
(* point and start again from the file.                                    *)
(***************************************************************************)
EXTENDS TrustStore, TokenBucket, Sequences, FiniteSets

CONSTANTS
    Conn,      \* slots for connections, each served by a thread
    NoKey,     \* the all-zero fingerprint of a peer without identity
    None,      \* nobody holds the mutex; no file
    MaxTime    \* bound on the clock, in milliseconds

ASSUME PairingAssumption ==
    /\ NoKey \in Fingerprint
    /\ Name # {}
    /\ None \notin Conn /\ None \notin Stores
    /\ MaxTime \in Nat

VARIABLES
    thread,      \* what the connection's thread does
    fPeer,       \* the fingerprint TLS authenticated for the connection
    fAdmitted,   \* GatedHandler::fAdmitted
    claim,       \* the name of the HELLO being judged
    decision,    \* the TrustDecision the prompt shows
    fMutex,      \* the connection whose thread holds Pairing::fMutex, or None
    fStore,      \* the TrustStore in memory
    file,        \* the saved store: None or its contents
    tmpFile,     \* the temporary file of SaveToFile
    fPromptBucket,
    now,         \* the steady clock
    consented,   \* history: fingerprints the user has allowed, ever
    served,      \* history: fingerprints whose requests the file server handled
    prompts      \* history: when this process raised its prompts

connVars == <<thread, fPeer, fAdmitted, claim, decision>>
vars == <<connVars, fMutex, fStore, file, tmpFile, fPromptBucket, now,
          consented, served, prompts>>

\* The value of a name that is not there (yet, or any more).
NoName == CHOOSE n \in Name : TRUE

ThreadPC == {"free", "ready", "waiting", "prompting", "saving", "renaming"}

TypeOK ==
    /\ thread \in [Conn -> ThreadPC]
    /\ fPeer \in [Conn -> Fingerprint]
    /\ fAdmitted \in [Conn -> BOOLEAN]
    /\ claim \in [Conn -> Name]
    /\ decision \in [Conn -> Decision]
    /\ fMutex \in Conn \cup {None}
    /\ fStore \in Stores
    /\ file \in Stores \cup {None}
    /\ tmpFile \in Stores \cup {None}
    /\ fPromptBucket \in Buckets
    /\ now \in 0 .. MaxTime
    /\ consented \in SUBSET Fingerprint
    /\ served \in SUBSET Fingerprint
    /\ prompts \in Seq(0 .. MaxTime)

Init ==
    /\ thread = [c \in Conn |-> "free"]
    /\ fPeer = [c \in Conn |-> NoKey]
    /\ fAdmitted = [c \in Conn |-> FALSE]
    /\ claim = [c \in Conn |-> NoName]
    /\ decision = [c \in Conn |-> "kUnknown"]
    /\ fMutex = None
    /\ fStore = NoPeers
    /\ file = None
    /\ tmpFile = None
    /\ now = 0
    /\ fPromptBucket = FullBucket(now)
    /\ consented = {}
    /\ served = {}
    /\ prompts = <<>>

Goto(c, pc) == thread' = [thread EXCEPT ![c] = pc]

\* Admit returns: its arguments and its decision are gone.
LeaveAdmit(c) ==
    /\ Goto(c, "ready")
    /\ claim' = [claim EXCEPT ![c] = NoName]
    /\ decision' = [decision EXCEPT ![c] = "kUnknown"]

-----------------------------------------------------------------------------
\* GatedHandlerFactory::Create for an accepted connection.
Connect(c, fp) ==
    /\ thread[c] = "free"
    /\ Goto(c, "ready")
    /\ fPeer' = [fPeer EXCEPT ![c] = fp]
    /\ UNCHANGED <<fAdmitted, claim, decision, fMutex, fStore, file, tmpFile,
                   fPromptBucket, now, consented, served, prompts>>

Disconnect(c) ==
    /\ thread[c] = "ready"
    /\ Goto(c, "free")
    /\ fPeer' = [fPeer EXCEPT ![c] = NoKey]
    /\ fAdmitted' = [fAdmitted EXCEPT ![c] = FALSE]
    /\ UNCHANGED <<claim, decision, fMutex, fStore, file,
                   tmpFile, fPromptBucket, now, consented, served, prompts>>

\* GatedHandler::Handle on a HELLO that claims an identity, before admission.
\* Any other message, an undecodable HELLO, a claim that is not the key TLS
\* authenticated, and (in Admit, before the lock) a peer without identity are
\* refused and change nothing.
Hello(c, claimed, name) ==
    /\ thread[c] = "ready"
    /\ ~fAdmitted[c]
    /\ claimed = fPeer[c]
    /\ fPeer[c] # NoKey
    /\ claim' = [claim EXCEPT ![c] = name]
    /\ Goto(c, "waiting")
    /\ UNCHANGED <<fPeer, fAdmitted, decision, fMutex, fStore, file, tmpFile,
                   fPromptBucket, now, consented, served, prompts>>

\* A request after admission goes straight to the file server.
Request(c) ==
    /\ thread[c] = "ready"
    /\ fAdmitted[c]
    /\ served' = served \cup {fPeer[c]}
    /\ UNCHANGED <<connVars, fMutex, fStore, file, tmpFile, fPromptBucket, now,
                   consented, prompts>>

\* Admit returns true: the gate opens and the HELLO reaches the file server.
Admitted(c) ==
    /\ LeaveAdmit(c)
    /\ fAdmitted' = [fAdmitted EXCEPT ![c] = TRUE]
    /\ served' = served \cup {fPeer[c]}

\* Admit with the lock: a pinned key is admitted and the lock released.
AdmitTrusted(c) ==
    /\ thread[c] = "waiting"
    /\ fMutex = None
    /\ Evaluate(fStore, fPeer[c], claim[c]) = "kTrusted"
    /\ Admitted(c)
    /\ UNCHANGED <<fPeer, fMutex, fStore, file, tmpFile,
                   fPromptBucket, now, consented, prompts>>

\* Mutant of AdmitRefused: over budget, the peer is let in without a prompt.
AdmitOverBudget(c) ==
    /\ thread[c] = "waiting"
    /\ fMutex = None
    /\ Evaluate(fStore, fPeer[c], claim[c]) # "kTrusted"
    /\ ~CanTake(fPromptBucket, now)
    /\ fPromptBucket' = AfterTryTake(fPromptBucket, now)
    /\ Admitted(c)
    /\ UNCHANGED <<fPeer, fMutex, fStore, file, tmpFile, now, consented, prompts>>

\* Admit with the lock: over budget, refused quietly.
AdmitRefused(c) ==
    /\ thread[c] = "waiting"
    /\ fMutex = None
    /\ Evaluate(fStore, fPeer[c], claim[c]) # "kTrusted"
    /\ ~CanTake(fPromptBucket, now)
    /\ fPromptBucket' = AfterTryTake(fPromptBucket, now)
    /\ LeaveAdmit(c)
    /\ UNCHANGED <<fPeer, fAdmitted, fMutex, fStore, file,
                   tmpFile, now, consented, served, prompts>>

\* Mutant of RaisePrompt: the mutex is not taken.
RaisePromptUnlocked(c) ==
    /\ thread[c] = "waiting"
    /\ Evaluate(fStore, fPeer[c], claim[c]) # "kTrusted"
    /\ CanTake(fPromptBucket, now)
    /\ fPromptBucket' = AfterTryTake(fPromptBucket, now)
    /\ fMutex' = c
    /\ decision' = [decision EXCEPT ![c] = Evaluate(fStore, fPeer[c], claim[c])]
    /\ prompts' = Append(prompts, now)
    /\ Goto(c, "prompting")
    /\ UNCHANGED <<fPeer, fAdmitted, claim, fStore, file, tmpFile, now,
                   consented, served>>

\* Admit with the lock: the prompt goes up and the lock stays taken.
RaisePrompt(c) ==
    /\ thread[c] = "waiting"
    /\ fMutex = None
    /\ Evaluate(fStore, fPeer[c], claim[c]) # "kTrusted"
    /\ CanTake(fPromptBucket, now)
    /\ fPromptBucket' = AfterTryTake(fPromptBucket, now)
    /\ fMutex' = c
    /\ decision' = [decision EXCEPT ![c] = Evaluate(fStore, fPeer[c], claim[c])]
    /\ prompts' = Append(prompts, now)
    /\ Goto(c, "prompting")
    /\ UNCHANGED <<fPeer, fAdmitted, claim, fStore, file, tmpFile, now,
                   consented, served>>

\* Mutant of Deny: the early return keeps the mutex.
DenyKeepsLock(c) ==
    /\ thread[c] = "prompting"
    /\ LeaveAdmit(c)
    /\ UNCHANGED <<fPeer, fAdmitted, fMutex, fStore, file, tmpFile,
                   fPromptBucket, now, consented, served, prompts>>

Deny(c) ==
    /\ thread[c] = "prompting"
    /\ fMutex' = None
    /\ LeaveAdmit(c)
    /\ UNCHANGED <<fPeer, fAdmitted, fStore, file, tmpFile,
                   fPromptBucket, now, consented, served, prompts>>

Allow(c) ==
    /\ thread[c] = "prompting"
    /\ fStore' = Pin(fStore, fPeer[c], claim[c])
    /\ consented' = consented \cup {fPeer[c]}
    /\ Goto(c, "saving")
    /\ UNCHANGED <<fPeer, fAdmitted, claim, decision, fMutex, file, tmpFile,
                   fPromptBucket, now, served, prompts>>

\* Mutant of WriteTmp: the store itself is truncated and written in place.
WriteInPlace(c) ==
    /\ thread[c] = "saving"
    /\ tmpFile' = FileContents(fStore)
    /\ file' = NoPeers
    /\ Goto(c, "renaming")
    /\ UNCHANGED <<fPeer, fAdmitted, claim, decision, fMutex, fStore,
                   fPromptBucket, now, consented, served, prompts>>

\* SaveToFile, first half: the temporary file.
WriteTmp(c) ==
    /\ thread[c] = "saving"
    /\ tmpFile' = FileContents(fStore)
    /\ Goto(c, "renaming")
    /\ UNCHANGED <<fPeer, fAdmitted, claim, decision, fMutex, fStore, file,
                   fPromptBucket, now, consented, served, prompts>>

\* SaveToFile, second half: the rename.
Rename(c) ==
    /\ thread[c] = "renaming"
    /\ file' = tmpFile
    /\ tmpFile' = None
    /\ fMutex' = None
    /\ Admitted(c)
    /\ UNCHANGED <<fPeer, fStore, fPromptBucket, now,
                   consented, prompts>>

\* SaveToFile fails (the disk is full, the rename is refused): Admit ignores
\* its result.
SaveFails(c) ==
    /\ thread[c] \in {"saving", "renaming"}
    /\ fMutex' = None
    /\ Admitted(c)
    /\ UNCHANGED <<fPeer, fStore, file, tmpFile,
                   fPromptBucket, now, consented, prompts>>

\* The process dies and starts again: LoadFromFile, a fresh bucket, no peers.
Restart ==
    /\ thread' = [c \in Conn |-> "free"]
    /\ fPeer' = [c \in Conn |-> NoKey]
    /\ fAdmitted' = [c \in Conn |-> FALSE]
    /\ claim' = [c \in Conn |-> NoName]
    /\ decision' = [c \in Conn |-> "kUnknown"]
    /\ fMutex' = None
    /\ fStore' = IF file = None THEN NoPeers ELSE file
    /\ fPromptBucket' = FullBucket(now)
    /\ prompts' = <<>>
    /\ UNCHANGED <<file, tmpFile, now, consented, served>>

Tick ==
    /\ now < MaxTime
    /\ now' = now + 1
    /\ UNCHANGED <<connVars, fMutex, fStore, file, tmpFile, fPromptBucket,
                   consented, served, prompts>>

Serve(c) ==
    \/ AdmitTrusted(c) \/ AdmitRefused(c) \/ RaisePrompt(c)
    \/ WriteTmp(c) \/ Rename(c) \/ SaveFails(c)

Answer(c) == Deny(c) \/ Allow(c)

Next ==
    \/ \E c \in Conn :
        \/ \E fp \in Fingerprint : Connect(c, fp)
        \/ \E fp \in Fingerprint, n \in Name : Hello(c, fp, n)
        \/ Disconnect(c)
        \/ Request(c)
        \/ Serve(c)
        \/ Answer(c)
    \/ Restart
    \/ Tick

\* The user answers a prompt, a thread that can run runs, and a thread that
\* finds the mutex free again and again gets it.
Fairness == \A c \in Conn : SF_vars(Serve(c)) /\ WF_vars(Answer(c))

Spec == Init /\ [][Next]_vars /\ Fairness

-----------------------------------------------------------------------------
\* No request of a peer reaches the file server unless the user has allowed
\* that peer's authenticated key, in this run of the daemon or an earlier one
\* (GatedHandler.h, "enforces trust before any real request").
ServedOnlyByConsent == served \subseteq consented /\ NoKey \notin served

\* An open gate belongs to a pinned key: nothing unpins a peer behind it.
AdmittedIsPinned == \A c \in Conn : fAdmitted[c] => fPeer[c] \in DOMAIN fStore

\* While the user is looking at a prompt, what it says of the peer stays true
\* and there is only one (Pairing.h, "at most one prompt is raised at a time").
PromptIsCurrent ==
    \A c \in Conn : thread[c] = "prompting" =>
        /\ fMutex = c
        /\ decision[c] = Evaluate(fStore, fPeer[c], claim[c])
        /\ \A d \in Conn : thread[d] = "prompting" => d = c

\* In no window of time are there more prompts than the burst and the refill
\* allow: k prompts after the first Burst take k refill intervals
\* (docs/PROPOSAL.md section 12; TokenBucket.cpp, TryTake).
PromptsAreRationed ==
    \A i, j \in 1 .. Len(prompts) : i <= j =>
        (j - i + 1 - fCapacity) * fRefillMs <= prompts[j] - prompts[i]

\* The file only ever gains peers, whenever the process dies: it is replaced by
\* a complete newer store or left alone (TrustStore.h, "writes atomically").
FileOnlyGrows ==
    [][file # None => (file' # None /\ DOMAIN file \subseteq DOMAIN file')]_vars

\* A HELLO that waits for the policy gets its answer, or the process dies:
\* neither the prompt of another peer nor a failing save blocks it for ever.
HelloIsJudged ==
    \A c \in Conn : thread[c] = "waiting" ~> thread[c] \in {"ready", "free"}
=============================================================================
