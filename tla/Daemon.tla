------------------------------- MODULE Daemon -------------------------------
(***************************************************************************)
(* traghetto/server/Daemon.cpp: the accept thread, one thread per peer and *)
(* Stop, over the Listener of transport/Connection.cpp.                    *)
(*                                                                         *)
(* A connection is a member of Peer.  ServeConnection is module Dispatch   *)
(* seen from outside: it returns only when its channel has been shut down, *)
(* the peer has gone or the transport failed, and its handler may be       *)
(* waiting for the user to answer a pairing prompt.  The TLS handshake     *)
(* (ChannelFactory::Wrap) runs on the accept thread and waits for the      *)
(* peer.  Closing the listener wakes a thread blocked in accept, as        *)
(* Daemon::Stop expects.                                                   *)
(***************************************************************************)
EXTENDS FiniteSets

CONSTANTS
    Peer,      \* the connections that peers open
    NoPeer     \* no connection in hand

ASSUME DaemonAssumption == NoPeer \notin Peer

VARIABLES
    listening,         \* the listener's socket is open
    fStopping,
    acceptor,          \* where the accept thread is
    inHand,            \* the connection the accept thread is working on
    backlog,           \* connections the kernel has accepted for the listener
    serve,             \* where each peer thread is
    channels,          \* connections whose FrameChannel object exists
    gone,              \* connections whose peer has closed or whose socket failed
    shut,              \* connections whose channel has been shut down here
    fActiveChannels,
    fPeerThreads,      \* peer threads spawned and not yet joined
    fMutexHolder,      \* "stop" while Stop walks fActiveChannels, else "free"
    stop,              \* where the thread that calls Stop is
    walk               \* the channels Stop has still to shut down

acceptVars == <<listening, acceptor, inHand, backlog>>
peerVars == <<serve, channels, gone, fActiveChannels, fPeerThreads>>
stopVars == <<fStopping, shut, fMutexHolder, stop, walk>>
daemonVars == <<acceptVars, peerVars, stopVars>>

AcceptPC == {"unstarted", "accept", "check", "wrap", "register", "returned"}
ServePC == {"none", "serving", "prompting", "leaving", "exiting", "exited"}
StopPC == {"idle", "close", "joinAccept", "lock", "shutdown", "joinPeers", "done"}

DaemonTypeOK ==
    /\ listening \in BOOLEAN
    /\ fStopping \in BOOLEAN
    /\ acceptor \in AcceptPC
    /\ inHand \in Peer \cup {NoPeer}
    /\ backlog \in SUBSET Peer
    /\ serve \in [Peer -> ServePC]
    /\ channels \in SUBSET Peer
    /\ gone \in SUBSET Peer
    /\ shut \in SUBSET Peer
    /\ fActiveChannels \in SUBSET Peer
    /\ fPeerThreads \in SUBSET Peer
    /\ fMutexHolder \in {"free", "stop"}
    /\ stop \in StopPC
    /\ walk \in SUBSET Peer

DaemonInit ==
    /\ listening = TRUE
    /\ fStopping = FALSE
    /\ acceptor = "unstarted"
    /\ inHand = NoPeer
    /\ backlog = {}
    /\ serve = [p \in Peer |-> "none"]
    /\ channels = {}
    /\ gone = {}
    /\ shut = {}
    /\ fActiveChannels = {}
    /\ fPeerThreads = {}
    /\ fMutexHolder = "free"
    /\ stop = "idle"
    /\ walk = {}

ServeAt(p, pc) == serve' = [serve EXCEPT ![p] = pc]

-----------------------------------------------------------------------------
\* Peers.

PeerConnects(p) ==
    /\ listening
    /\ serve[p] = "none" /\ p \notin backlog \cup gone \cup {inHand}
    /\ backlog' = backlog \cup {p}
    /\ UNCHANGED <<listening, acceptor, inHand, peerVars, stopVars>>

PeerCloses(p) ==
    /\ p \in backlog \cup channels \cup {inHand} /\ p \notin gone
    /\ gone' = gone \cup {p}
    /\ UNCHANGED <<acceptVars, serve, channels, fActiveChannels, fPeerThreads,
                   stopVars>>

-----------------------------------------------------------------------------
\* The accept thread: AcceptLoop.

Start ==
    /\ acceptor = "unstarted"
    /\ stop = "idle"
    /\ acceptor' = "accept"
    /\ UNCHANGED <<listening, inHand, backlog, peerVars, stopVars>>

Accept(p) ==
    /\ acceptor = "accept"
    /\ listening
    /\ p \in backlog
    /\ backlog' = backlog \ {p}
    /\ inHand' = p
    /\ acceptor' = "check"
    /\ UNCHANGED <<listening, peerVars, stopVars>>

\* accept fails: the listener was closed, or any other error.
AcceptFails ==
    /\ acceptor = "accept"
    /\ acceptor' = "returned"
    /\ UNCHANGED <<listening, inHand, backlog, peerVars, stopVars>>

CheckStopping ==
    /\ acceptor = "check"
    /\ acceptor' = IF fStopping THEN "returned" ELSE "wrap"
    /\ inHand' = IF fStopping THEN NoPeer ELSE inHand
    /\ gone' = IF fStopping THEN gone \cup {inHand} ELSE gone
    /\ UNCHANGED <<listening, backlog, serve, channels, fActiveChannels,
                   fPeerThreads, stopVars>>

\* Wrap and Create: the handshake ends well and a handler is made...
Wrapped ==
    /\ acceptor = "wrap"
    /\ inHand \notin gone
    /\ channels' = channels \cup {inHand}
    /\ acceptor' = "register"
    /\ UNCHANGED <<listening, inHand, backlog, serve, gone, fActiveChannels,
                   fPeerThreads, stopVars>>

\* ... or the handshake fails or no handler is made: the socket is closed.
Rejected ==
    /\ acceptor = "wrap"
    /\ gone' = gone \cup {inHand}
    /\ inHand' = NoPeer
    /\ acceptor' = "accept"
    /\ UNCHANGED <<listening, backlog, serve, channels, fActiveChannels,
                   fPeerThreads, stopVars>>

Register ==
    /\ acceptor = "register"
    /\ fMutexHolder = "free"
    /\ fActiveChannels' = fActiveChannels \cup {inHand}
    /\ fPeerThreads' = fPeerThreads \cup {inHand}
    /\ ServeAt(inHand, "serving")
    /\ inHand' = NoPeer
    /\ acceptor' = "accept"
    /\ UNCHANGED <<listening, backlog, channels, gone, stopVars>>

-----------------------------------------------------------------------------
\* A peer thread.

\* A request makes the handler ask the user; the thread waits for the answer.
PromptUser(p) ==
    /\ serve[p] = "serving"
    /\ p \notin gone \cup shut
    /\ ServeAt(p, "prompting")
    /\ UNCHANGED <<acceptVars, channels, gone, fActiveChannels, fPeerThreads,
                   stopVars>>

UserAnswers(p) ==
    /\ serve[p] = "prompting"
    /\ ServeAt(p, "serving")
    /\ UNCHANGED <<acceptVars, channels, gone, fActiveChannels, fPeerThreads,
                   stopVars>>

ServeReturns(p) ==
    /\ serve[p] = "serving"
    /\ p \in gone \cup shut
    /\ ServeAt(p, "leaving")
    /\ UNCHANGED <<acceptVars, channels, gone, fActiveChannels, fPeerThreads,
                   stopVars>>

\* Mutant of Unregister: fMutex is not taken.
UnregisterUnlocked(p) ==
    /\ serve[p] = "leaving"
    /\ fActiveChannels' = fActiveChannels \ {p}
    /\ ServeAt(p, "exiting")
    /\ UNCHANGED <<acceptVars, channels, gone, fPeerThreads, stopVars>>

Unregister(p) ==
    /\ serve[p] = "leaving"
    /\ fMutexHolder = "free"
    /\ fActiveChannels' = fActiveChannels \ {p}
    /\ ServeAt(p, "exiting")
    /\ UNCHANGED <<acceptVars, channels, gone, fPeerThreads, stopVars>>

\* The lambda is destroyed: channel and handler go, the socket is closed.
DestroyChannel(p) ==
    /\ serve[p] = "exiting"
    /\ channels' = channels \ {p}
    /\ ServeAt(p, "exited")
    /\ UNCHANGED <<acceptVars, gone, fActiveChannels, fPeerThreads, stopVars>>

PeerThread(p) == ServeReturns(p) \/ Unregister(p) \/ DestroyChannel(p)

-----------------------------------------------------------------------------
\* Stop.

StopRequest ==
    /\ stop = "idle"
    /\ ~fStopping
    /\ fStopping' = TRUE
    /\ stop' = "close"
    /\ UNCHANGED <<acceptVars, peerVars, shut, fMutexHolder, walk>>

CloseListener ==
    /\ stop = "close"
    /\ listening' = FALSE
    /\ gone' = gone \cup backlog
    /\ backlog' = {}
    /\ stop' = "joinAccept"
    /\ UNCHANGED <<acceptor, inHand, serve, channels, fActiveChannels,
                   fPeerThreads, fStopping, shut, fMutexHolder, walk>>

\* Mutant of JoinAccept: Stop does not wait for the accept thread.
SkipJoinAccept ==
    /\ stop = "joinAccept"
    /\ stop' = "lock"
    /\ UNCHANGED <<acceptVars, peerVars, fStopping, shut, fMutexHolder, walk>>

JoinAccept ==
    /\ stop = "joinAccept"
    /\ acceptor \in {"unstarted", "returned"}
    /\ stop' = "lock"
    /\ UNCHANGED <<acceptVars, peerVars, fStopping, shut, fMutexHolder, walk>>

\* Mutant of LockChannels: the channels are not shut down before the join.
LockWithoutShutdown ==
    /\ stop = "lock"
    /\ fMutexHolder = "free"
    /\ fMutexHolder' = "stop"
    /\ stop' = "shutdown"
    /\ UNCHANGED <<acceptVars, peerVars, fStopping, shut, walk>>

LockChannels ==
    /\ stop = "lock"
    /\ fMutexHolder = "free"
    /\ fMutexHolder' = "stop"
    /\ walk' = fActiveChannels
    /\ stop' = "shutdown"
    /\ UNCHANGED <<acceptVars, peerVars, fStopping, shut>>

ShutdownChannel(p) ==
    /\ stop = "shutdown"
    /\ p \in walk
    /\ shut' = shut \cup {p}
    /\ walk' = walk \ {p}
    /\ UNCHANGED <<acceptVars, peerVars, fStopping, fMutexHolder, stop>>

UnlockChannels ==
    /\ stop = "shutdown"
    /\ walk = {}
    /\ fMutexHolder' = "free"
    /\ stop' = "joinPeers"
    /\ UNCHANGED <<acceptVars, peerVars, fStopping, shut, walk>>

JoinPeers ==
    /\ stop = "joinPeers"
    /\ \A p \in fPeerThreads : serve[p] = "exited"
    /\ fPeerThreads' = {}
    /\ fActiveChannels' = {}
    /\ stop' = "done"
    /\ UNCHANGED <<acceptVars, serve, channels, gone, fStopping, shut,
                   fMutexHolder, walk>>

Stop ==
    \/ CloseListener \/ JoinAccept \/ LockChannels
    \/ (\E p \in Peer : ShutdownChannel(p)) \/ UnlockChannels \/ JoinPeers

Stopped == stop = "done" /\ UNCHANGED daemonVars

-----------------------------------------------------------------------------
\* What the accept thread does by itself; Wrapped also needs the peer.
AcceptThread ==
    \/ (\E p \in Peer : Accept(p)) \/ (~listening /\ AcceptFails)
    \/ CheckStopping \/ Register

DaemonNext ==
    \/ Start \/ StopRequest \/ Stop \/ Stopped
    \/ AcceptThread \/ AcceptFails \/ Wrapped \/ Rejected
    \/ \E p \in Peer :
        \/ PeerConnects(p) \/ PeerCloses(p)
        \/ PromptUser(p) \/ UserAnswers(p) \/ PeerThread(p)

\* Threads run, and a handshake with a peer that has closed its end fails.
ThreadFairness ==
    /\ WF_daemonVars(AcceptThread)
    /\ WF_daemonVars(inHand \in gone /\ Rejected)
    /\ WF_daemonVars(Stop)
    /\ \A p \in Peer : WF_daemonVars(PeerThread(p))

DaemonSpec == DaemonInit /\ [][DaemonNext]_daemonVars /\ ThreadFairness

\* Every peer ends the handshake it has begun, one way or the other.
HandshakesEnd == WF_daemonVars(Wrapped \/ Rejected)

\* The user answers every prompt.
PromptsAreAnswered == \A p \in Peer : WF_daemonVars(UserAnswers(p))

-----------------------------------------------------------------------------
\* Stop only ever shuts down channels that exist: a peer thread unregisters its
\* channel, under the lock, before the channel is destroyed (Daemon.cpp, "Unregister
\* on the way out").
ActiveChannelsExist == fActiveChannels \cup walk \subseteq channels

\* When Stop returns nothing of the daemon is left: no accept thread, no peer
\* thread, no channel, whatever was being accepted when Stop was called.
StopLeavesNothing ==
    stop = "done" =>
        /\ acceptor \in {"unstarted", "returned"}
        /\ \A p \in Peer : serve[p] \in {"none", "exited"}
        /\ channels = {}

\* Stop returns (Daemon.h, "Stop() shuts everything down cleanly") provided that no peer
\* leaves its handshake, which runs on the accept thread, and no prompt is left
\* unanswered: the code has a timeout for neither.
StopReturns ==
    HandshakesEnd /\ PromptsAreAnswered => ((stop = "close") ~> (stop = "done"))
=============================================================================
