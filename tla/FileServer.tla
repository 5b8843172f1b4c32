----------------------------- MODULE FileServer -----------------------------
(***************************************************************************)
(* traghetto/server/FileServer.cpp: the file operations of the CNP server, *)
(* one FileServer per connection, all on one shared tree that the local    *)
(* user changes too.  Live queries are module LiveQuery.                   *)
(*                                                                         *)
(* A request is handled in one step: the server checks a path and then     *)
(* uses it by name, and changes made by others between the two are left    *)
(* out.  The tree is made of inodes; a request path is a sequence of names *)
(* and "..".  A symbolic link points to an inode, either outside the       *)
(* shared root or the root itself.                                         *)
(***************************************************************************)
EXTENDS Integers, FiniteSets, SequencesExt

CONSTANTS
    Conn,            \* connections
    Name, DotDot,
    Pool,            \* inodes available under the root
    Root, OutDir, OutFile, NoIno,
    MaxDepth,        \* bound: components of a request path
    MaxHandle,       \* bound: files opened by a connection
    kMaxOpenHandles

ASSUME FileServerAssumption ==
    /\ DotDot \notin Name
    /\ Root \notin {OutDir, OutFile, NoIno} /\ OutDir \notin {OutFile, NoIno} /\ OutFile # NoIno
    /\ {Root, OutDir, OutFile, NoIno} \cap Pool = {}
    /\ MaxDepth \in Nat /\ MaxHandle \in Nat /\ kMaxOpenHandles \in Nat

Ino == Pool \cup {Root, OutDir, OutFile}
Outside == {OutDir, OutFile}
Path == BoundedSeq(Name \cup {DotDot}, MaxDepth)

VARIABLES
    kind,         \* "free", "dir", "file" or "link"
    dirents,      \* the directories
    target,       \* where each link points
    fWritable,    \* the share is writable
    fOpen,        \* per connection: its open handles
    fNextHandle,
    served,       \* per connection: "serving" or "ended"
    fds,          \* inodes the process has open, with the number of descriptors
    changed,      \* history: where the requests of peers changed something
    reply         \* the last reply: "ok" or an error code

tree == <<kind, dirents, target>>
vars == <<tree, fWritable, fOpen, fNextHandle, served, fds, changed, reply>>

OpenFile == [ino : Ino, writable : BOOLEAN]
Code == {"ok", "InvalidRequest", "NotFound", "AccessDenied", "NotADirectory",
         "IsADirectory", "IOError", "BadHandle", "TooManyOpen"}

TreeTypeOK ==
    /\ kind \in [Ino -> {"free", "dir", "file", "link"}]
    /\ dirents \in [Ino -> [Name -> Pool \cup {NoIno}]]
    /\ target \in [Ino -> Outside \cup {Root}]

HandleTypeOK ==
    /\ fNextHandle \in [Conn -> 1 .. MaxHandle + 1]
    /\ fOpen = [c \in Conn |-> fOpen[c]]
    /\ \A c \in Conn : /\ DOMAIN fOpen[c] \subseteq 1 .. fNextHandle[c] - 1
                       /\ \A h \in DOMAIN fOpen[c] : fOpen[c][h] \in OpenFile
                       /\ Cardinality(DOMAIN fOpen[c]) <= kMaxOpenHandles

TypeOK ==
    /\ TreeTypeOK /\ HandleTypeOK
    /\ fWritable \in BOOLEAN
    /\ served \in [Conn -> {"serving", "ended"}]
    /\ fds \in [Ino -> Nat]
    /\ changed \subseteq {"inside", "outside"}
    /\ reply \in Code

NoEntries == [n \in Name |-> NoIno]

\* The root is empty; the local user fills it.
Init ==
    /\ kind = [i \in Ino |-> CASE i \in {Root, OutDir} -> "dir"
                               [] i = OutFile -> "file" [] OTHER -> "free"]
    /\ dirents = [i \in Ino |-> NoEntries]
    /\ target = [i \in Ino |-> Root]
    /\ fWritable \in BOOLEAN
    /\ fOpen = [c \in Conn |-> << >>]
    /\ fNextHandle = [c \in Conn |-> 1]
    /\ served = [c \in Conn |-> "serving"]
    /\ fds = [i \in Ino |-> 0]
    /\ changed = {}
    /\ reply = "ok"

-----------------------------------------------------------------------------
\* The file system.

Deref(i) == IF kind[i] = "link" THEN target[i] ELSE i

Holder(i) == {d \in Ino : \E n \in Name : dirents[d][n] = i}
Parent(i) == IF i \in {Root, OutDir} THEN OutDir ELSE CHOOSE d \in Holder(i) : TRUE

Lookup(i, n) ==
    CASE i = NoIno -> NoIno
      [] i # NoIno /\ kind[i] # "dir" -> NoIno
      [] OTHER -> IF n = DotDot THEN Parent(i)
                  ELSE IF dirents[i][n] = NoIno THEN NoIno ELSE Deref(dirents[i][n])

RealPath(path) == FoldLeft(Lookup, Root, path)

\* An inode and what is below it: it is in every set that has the inode and, with each
\* directory, its entries (which come from the pool).
HasEntries(S) == \A d \in S, n \in Name : dirents[d][n] \in S \cup {NoIno}
Below(i) == {i} \cup {j \in Pool : \A S \in SUBSET Pool : HasEntries(S \cup {i}) => j \in S}

Free == {i \in Pool : Holder(i) = {} /\ fds[i] = 0}
IsEmpty(i) == dirents[i] = NoEntries

Link(d, n, i) == dirents' = [dirents EXCEPT ![d][n] = i]

\* A request changes the inodes of a set.
Changes(inodes) ==
    changed' = changed \cup {IF i \in Outside THEN "outside" ELSE "inside" : i \in inodes}

\* A request refused leaves everything as it was.
Refuse(code) ==
    /\ reply' = code
    /\ UNCHANGED <<tree, fWritable, fOpen, fNextHandle, served, fds, changed>>

-----------------------------------------------------------------------------
\* Resolve and ResolveForCreate: the error, or "ok".

\* Mutant of Resolved: the real path is not compared with the root.
ResolvedAnywhere(path) == IF RealPath(path) = NoIno THEN "NotFound" ELSE "ok"

Resolved(path) ==
    CASE RealPath(path) = NoIno -> "NotFound"
      [] RealPath(path) \notin Below(Root) \cup {NoIno} -> "AccessDenied"
      [] OTHER -> "ok"

ResolvedForCreate(path) ==
    IF path = << >> \/ Last(path) = DotDot THEN "InvalidRequest"
    ELSE IF Resolved(Front(path)) # "ok" THEN Resolved(Front(path))
    ELSE "ok"

\* What a resolved path to create names: a directory, a name, and what is there.
ParentOf(path) == RealPath(Front(path))
EntryOf(path) ==
    IF kind[ParentOf(path)] = "dir" THEN dirents[ParentOf(path)][Last(path)] ELSE NoIno

-----------------------------------------------------------------------------
\* The requests of connection c.

\* HELLO, a payload that does not decode, an unknown type, a system call that fails.
HandleNothing(code) == Refuse(code)

\* HandleStat, HandleReadAttrs: nothing changes.
HandleStat(c, path) == Refuse(Resolved(path))

HandleList(c, path) ==
    Refuse(IF Resolved(path) # "ok" THEN Resolved(path)
              ELSE IF kind[RealPath(path)] # "dir" THEN "NotADirectory" ELSE "ok")

\* A new handle on inode i, for both ways of opening.
AddHandle(c, i, w) ==
    /\ fNextHandle[c] <= MaxHandle
    /\ fOpen' = [fOpen EXCEPT ![c] =
                    [h \in DOMAIN @ \cup {fNextHandle[c]} |->
                        IF h = fNextHandle[c] THEN [ino |-> i, writable |-> w] ELSE @[h]]]
    /\ fNextHandle' = [fNextHandle EXCEPT ![c] = @ + 1]
    /\ fds' = [fds EXCEPT ![i] = @ + 1]
    /\ reply' = "ok"
    /\ UNCHANGED <<fWritable, served>>

HandleOpenRead(c, path) ==
    LET i == RealPath(path) IN
    IF Cardinality(DOMAIN fOpen[c]) >= kMaxOpenHandles THEN Refuse("TooManyOpen")
    ELSE IF Resolved(path) # "ok" THEN Refuse(Resolved(path))
    ELSE IF kind[i] = "dir" THEN Refuse("IsADirectory")
    ELSE AddHandle(c, i, FALSE) /\ UNCHANGED <<tree, changed>>

\* O_CREAT | O_TRUNC | O_NOFOLLOW under a resolved parent.
HandleOpenWrite(c, path) ==
    LET d == ParentOf(path)
        i == EntryOf(path)
    IN
    IF ~fWritable THEN Refuse("AccessDenied")
    ELSE IF Cardinality(DOMAIN fOpen[c]) >= kMaxOpenHandles THEN Refuse("TooManyOpen")
    ELSE IF ResolvedForCreate(path) # "ok" THEN Refuse(ResolvedForCreate(path))
    ELSE IF kind[d] # "dir" THEN Refuse("NotADirectory")
    ELSE IF i # NoIno /\ kind[i] = "link" THEN Refuse("AccessDenied")
    ELSE IF i # NoIno /\ kind[i] = "dir" THEN Refuse("IsADirectory")
    ELSE IF i # NoIno
    THEN AddHandle(c, i, TRUE) /\ Changes({i}) /\ UNCHANGED tree
    ELSE \E new \in Free :
            /\ AddHandle(c, new, TRUE)
            /\ kind' = [kind EXCEPT ![new] = "file"]
            /\ Link(d, Last(path), new)
            /\ Changes({d, new})
            /\ UNCHANGED target

\* HandleRead: pread of the descriptor.
HandleRead(c, h) == Refuse(IF h \in DOMAIN fOpen[c] THEN "ok" ELSE "BadHandle")

HandleWrite(c, h) ==
    IF h \notin DOMAIN fOpen[c] THEN Refuse("BadHandle")
    ELSE IF ~fOpen[c][h].writable THEN Refuse("AccessDenied")
    ELSE /\ Changes({fOpen[c][h].ino})
         /\ reply' = "ok"
         /\ UNCHANGED <<tree, fWritable, fOpen, fNextHandle, served, fds>>

\* Mutant of HandleClose: the handle is forgotten, the descriptor is not closed.
HandleCloseLeaks(c, h) ==
    IF h \notin DOMAIN fOpen[c] THEN Refuse("BadHandle")
    ELSE /\ fOpen' = [fOpen EXCEPT ![c] = [g \in DOMAIN @ \ {h} |-> @[g]]]
         /\ reply' = "ok"
         /\ UNCHANGED <<tree, fWritable, fNextHandle, served, fds, changed>>

HandleClose(c, h) ==
    IF h \notin DOMAIN fOpen[c] THEN Refuse("BadHandle")
    ELSE /\ fds' = [fds EXCEPT ![fOpen[c][h].ino] = @ - 1]
         /\ fOpen' = [fOpen EXCEPT ![c] = [g \in DOMAIN @ \ {h} |-> @[g]]]
         /\ reply' = "ok"
         /\ UNCHANGED <<tree, fWritable, fNextHandle, served, changed>>

HandleMkdir(c, path) ==
    IF ~fWritable THEN Refuse("AccessDenied")
    ELSE IF ResolvedForCreate(path) # "ok" THEN Refuse(ResolvedForCreate(path))
    ELSE IF kind[ParentOf(path)] # "dir" THEN Refuse("NotADirectory")
    ELSE IF EntryOf(path) # NoIno THEN Refuse("IOError")
    ELSE \E new \in Free :
            /\ kind' = [kind EXCEPT ![new] = "dir"]
            /\ dirents' = [dirents EXCEPT ![ParentOf(path)][Last(path)] = new,
                                          ![new] = NoEntries]
            /\ Changes({ParentOf(path), new})
            /\ reply' = "ok"
            /\ UNCHANGED <<target, fWritable, fOpen, fNextHandle, served, fds>>

\* The entry itself is removed, be it a link.
HandleUnlink(c, path) ==
    LET i == EntryOf(path) IN
    IF ~fWritable THEN Refuse("AccessDenied")
    ELSE IF ResolvedForCreate(path) # "ok" THEN Refuse(ResolvedForCreate(path))
    ELSE IF i = NoIno THEN Refuse("NotFound")
    ELSE IF kind[i] = "dir" /\ ~IsEmpty(i) THEN Refuse("IOError")
    ELSE /\ Link(ParentOf(path), Last(path), NoIno)
         /\ Changes({ParentOf(path)})
         /\ reply' = "ok"
         /\ UNCHANGED <<kind, target, fWritable, fOpen, fNextHandle, served, fds>>

\* rename(2) of entry i onto entry j, NoIno where there is none.
RenameError(d, i, e, j) ==
    CASE kind[d] # "dir" \/ kind[e] # "dir" -> "NotADirectory"
      [] i = NoIno -> "NotFound"
      [] kind[i] = "dir" /\ e \in Below(i) -> "IOError"
      [] j # NoIno /\ kind[j] = "dir" /\ kind[i] # "dir" -> "IsADirectory"
      [] j # NoIno /\ kind[j] # "dir" /\ kind[i] = "dir" -> "NotADirectory"
      [] j # NoIno /\ j # i /\ kind[j] = "dir" /\ ~IsEmpty(j) -> "IOError"
      [] OTHER -> "ok"

HandleRename(c, from, to) ==
    LET d == ParentOf(from) i == EntryOf(from) e == ParentOf(to) j == EntryOf(to) IN
    IF ~fWritable THEN Refuse("AccessDenied")
    ELSE IF ResolvedForCreate(from) # "ok" THEN Refuse(ResolvedForCreate(from))
    ELSE IF ResolvedForCreate(to) # "ok" THEN Refuse(ResolvedForCreate(to))
    ELSE IF RenameError(d, i, e, j) # "ok" THEN Refuse(RenameError(d, i, e, j))
    ELSE /\ dirents' = IF i = j THEN dirents
                       ELSE [dirents EXCEPT ![d][Last(from)] = NoIno, ![e][Last(to)] = i]
         /\ Changes({d, e})
         /\ reply' = "ok"
         /\ UNCHANGED <<kind, target, fWritable, fOpen, fNextHandle, served, fds>>

HandleTruncate(c, path) ==
    IF ~fWritable THEN Refuse("AccessDenied")
    ELSE IF Resolved(path) # "ok" THEN Refuse(Resolved(path))
    ELSE IF kind[RealPath(path)] = "dir" THEN Refuse("IsADirectory")
    ELSE /\ Changes({RealPath(path)})
         /\ reply' = "ok"
         /\ UNCHANGED <<tree, fWritable, fOpen, fNextHandle, served, fds>>

\* All names are checked first; then attributes are written until one fails, and the
\* ones before it stay.
HandleWriteAttrs(c, path, names) ==
    IF ~fWritable THEN Refuse("AccessDenied")
    ELSE IF names = "bad" THEN Refuse("InvalidRequest")
    ELSE IF Resolved(path) # "ok" THEN Refuse(Resolved(path))
    ELSE /\ Changes({RealPath(path)})
         /\ \E code \in {"ok", "IOError"} : reply' = code
         /\ UNCHANGED <<tree, fWritable, fOpen, fNextHandle, served, fds>>

\* ~FileServer.
ConnectionEnds(c) ==
    /\ served[c] = "serving"
    /\ served' = [served EXCEPT ![c] = "ended"]
    /\ fOpen' = [fOpen EXCEPT ![c] = << >>]
    /\ fds' = [i \in Ino |->
                fds[i] - Cardinality({h \in DOMAIN fOpen[c] : fOpen[c][h].ino = i})]
    /\ UNCHANGED <<tree, fWritable, fNextHandle, changed, reply>>

\* The local user makes a link or a file in a directory of the share.
LocalLink(d, n, to) ==
    /\ d \in Below(Root) /\ kind[d] = "dir" /\ dirents[d][n] = NoIno
    /\ \E new \in Free :
        /\ kind' = [kind EXCEPT ![new] = "link"]
        /\ target' = [target EXCEPT ![new] = to]
        /\ Link(d, n, new)
    /\ UNCHANGED <<fWritable, fOpen, fNextHandle, served, fds, changed, reply>>

LocalFile(d, n) ==
    /\ d \in Below(Root) /\ kind[d] = "dir" /\ dirents[d][n] = NoIno
    /\ \E new \in Free :
        /\ kind' = [kind EXCEPT ![new] = "file"]
        /\ Link(d, n, new)
    /\ UNCHANGED <<target, fWritable, fOpen, fNextHandle, served, fds, changed, reply>>

Handle(c) ==
    /\ served[c] = "serving"
    /\ \/ \E code \in {"ok", "InvalidRequest", "IOError"} : HandleNothing(code)
       \/ \E p \in Path :
            \/ HandleStat(c, p) \/ HandleList(c, p)
            \/ HandleOpenRead(c, p) \/ HandleOpenWrite(c, p)
            \/ HandleMkdir(c, p) \/ HandleUnlink(c, p) \/ HandleTruncate(c, p)
            \/ \E names \in {"good", "bad"} : HandleWriteAttrs(c, p, names)
            \/ \E q \in Path : HandleRename(c, p, q)
       \/ \E h \in 1 .. MaxHandle : HandleRead(c, h) \/ HandleWrite(c, h) \/ HandleClose(c, h)

Next ==
    \/ \E c \in Conn : Handle(c) \/ ConnectionEnds(c)
    \/ \E d \in Ino, n \in Name :
        LocalFile(d, n) \/ \E to \in Outside \cup {Root} : LocalLink(d, n, to)

Spec == Init /\ [][Next]_vars

-----------------------------------------------------------------------------
\* Nothing outside the shared root is opened or changed for a peer, and nothing at all
\* is changed on a read-only share, whatever links the share holds and however peers
\* move them about (FileServer::Resolve, ResolveForCreate, O_NOFOLLOW in HandleOpen,
\* fWritable).
StaysInside ==
    /\ "outside" \notin changed
    /\ \A c \in Conn : \A h \in DOMAIN fOpen[c] : fOpen[c][h].ino \notin Outside
    /\ ~fWritable => changed = {}

\* The handles on an inode, with their connections.
Owners(i) == {p \in Conn \X (1 .. MaxHandle) :
                p[2] \in DOMAIN fOpen[p[1]] /\ fOpen[p[1]][p[2]].ino = i}

\* Every open descriptor belongs to one handle of one connection, so that a peer's
\* are bounded by kMaxOpenHandles and none is left when it goes (FileServer::fOpen).
DescriptorsAreOwned == \A i \in Ino : fds[i] = Cardinality(Owners(i))
=============================================================================
