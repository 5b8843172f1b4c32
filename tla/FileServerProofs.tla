-------------------------- MODULE FileServerProofs --------------------------
(***************************************************************************)
(* What FileServer promises, for any number of connections, names, inodes  *)
(* and handles and for paths of any depth: nothing outside the shared root *)
(* is opened or changed, and every open descriptor belongs to a handle.    *)
(***************************************************************************)
EXTENDS FileServer, FiniteSetTheorems, TLAPS

\* A share that is not writable has no handle to write with.
NoWriteHandle ==
    ~fWritable => \A c \in Conn : \A h \in DOMAIN fOpen[c] : ~fOpen[c][h].writable

\* The handles on an inode are finitely many, however many connections there are.
OwnersAreFinite == \A i \in Ino : IsFiniteSet(Owners(i))

FileServerInv ==
    /\ TypeOK
    /\ StaysInside
    /\ NoWriteHandle
    /\ OwnersAreFinite
    /\ DescriptorsAreOwned

-----------------------------------------------------------------------------
\* Paths (FileServer::Resolve, ResolveForCreate).

\* A path that resolves ends in the share.
LEMMA ResolvedInside ==
    ASSUME NEW path, Resolved(path) = "ok"
    PROVE  RealPath(path) \in Pool \cup {Root}
BY DEF Resolved, Below

\* A path to create ends in a name, under a parent in the share, and what is there
\* already is in the share too.
LEMMA EntryInside ==
    ASSUME TreeTypeOK, NEW path \in Path, ResolvedForCreate(path) = "ok"
    PROVE  /\ Last(path) \in Name
           /\ ParentOf(path) \in Pool \cup {Root}
           /\ EntryOf(path) \in Pool \cup {NoIno}
<1>1. Last(path) \in Name
  <2>1. PICK m \in 0 .. MaxDepth : path \in [1 .. m -> Name \cup {DotDot}]
    BY DEF Path, BoundedSeq, SeqOf
  <2>2. path # << >> /\ Last(path) # DotDot
    BY DEF ResolvedForCreate
  <2>3. m # 0
    BY <2>1, <2>2
  <2>4. m \in Nat /\ Len(path) = m
    BY <2>1, FileServerAssumption DEF FileServerAssumption
  <2> QED
    BY <2>1, <2>2, <2>3, <2>4 DEF Last
<1>2. Resolved(Front(path)) = "ok"
  BY DEF ResolvedForCreate
<1>3. ParentOf(path) \in Pool \cup {Root}
  BY <1>2, ResolvedInside DEF ParentOf
<1> QED
  BY <1>1, <1>3 DEF EntryOf, TreeTypeOK, Ino

\* The inodes of the share are not outside it, and NoIno is none.
LEMMA InodesApart ==
    /\ Pool \cup {Root} \subseteq Ino
    /\ (Pool \cup {Root}) \cap Outside = {}
    /\ NoIno \notin Ino
BY FileServerAssumption DEF FileServerAssumption, Ino, Outside

-----------------------------------------------------------------------------
\* What a step does, in as much as the properties tell steps apart.

\* To the handles and descriptors: nothing, one more on an inode of the share, one less,
\* or a connection's all gone.
HandlesMove ==
    \/ UNCHANGED <<fOpen, fNextHandle, fds>>
    \/ \E c \in Conn, i \in Pool \cup {Root}, w \in BOOLEAN :
        /\ ~ (Cardinality(DOMAIN fOpen[c]) >= kMaxOpenHandles)
        /\ w => fWritable
        /\ AddHandle(c, i, w)
    \/ \E c \in Conn : \E h \in DOMAIN fOpen[c] : HandleClose(c, h)
    \/ \E c \in Conn : ConnectionEnds(c)

\* To the rest: a request marks at most the inside as changed, and that only on a
\* writable share.
StepEffect ==
    /\ TreeTypeOK'
    /\ UNCHANGED fWritable
    /\ served' \in [Conn -> {"serving", "ended"}]
    /\ reply' \in Code
    /\ changed' \subseteq changed \cup {"inside"}
    /\ ~fWritable => UNCHANGED changed
    /\ HandlesMove

\* The part of the invariant that the steps need.
LEMMA StepContext ==
    ASSUME FileServerInv
    PROVE  /\ TreeTypeOK /\ fWritable \in BOOLEAN
           /\ served \in [Conn -> {"serving", "ended"}]
           /\ reply \in Code
BY DEF FileServerInv, TypeOK

LEMMA RefuseEffect ==
    ASSUME FileServerInv, NEW code \in Code, Refuse(code)
    PROVE  StepEffect
BY StepContext DEF Refuse, StepEffect, HandlesMove, TreeTypeOK, tree

LEMMA ChangesInside ==
    ASSUME NEW inodes, inodes \subseteq Pool \cup {Root}, Changes(inodes)
    PROVE  changed' \subseteq changed \cup {"inside"}
BY InodesApart DEF Changes

\* The codes that resolving a path can give.
LEMMA ResolvedCode ==
    ASSUME NEW path
    PROVE  Resolved(path) \in Code /\ ResolvedForCreate(path) \in Code
BY DEF Resolved, ResolvedForCreate, Code

LEMMA RenameCode ==
    ASSUME NEW d, NEW i, NEW e, NEW j
    PROVE  RenameError(d, i, e, j) \in Code
BY DEF RenameError, Code

\* A name in a directory of the share made to stand for an inode of the pool or for
\* nothing.
\* Changing one entry of a tree of entries keeps its type.
LEMMA OneEntry ==
    ASSUME NEW I, NEW N, NEW X, NEW t \in [I -> [N -> X]], NEW d \in I, NEW n \in N, NEW x \in X
    PROVE  [t EXCEPT ![d][n] = x] \in [I -> [N -> X]]
OBVIOUS

LEMMA LinkType ==
    ASSUME TreeTypeOK, NEW d \in Ino, NEW n \in Name, NEW i \in Pool \cup {NoIno}
    PROVE  [dirents EXCEPT ![d][n] = i] \in [Ino -> [Name -> Pool \cup {NoIno}]]
BY DEF TreeTypeOK

LEMMA KindType ==
    ASSUME TreeTypeOK, NEW i \in Ino, NEW k \in {"dir", "file", "link"}
    PROVE  [kind EXCEPT ![i] = k] \in [Ino -> {"free", "dir", "file", "link"}]
BY DEF TreeTypeOK

-----------------------------------------------------------------------------
\* The requests.

LEMMA OpenReadEffect ==
    ASSUME FileServerInv, NEW c \in Conn, NEW path \in Path, HandleOpenRead(c, path)
    PROVE  StepEffect
<1>1. CASE Refuse("TooManyOpen") \/ Refuse(Resolved(path)) \/ Refuse("IsADirectory")
  BY <1>1, RefuseEffect, ResolvedCode DEF Code
<1>2. CASE /\ ~ (Cardinality(DOMAIN fOpen[c]) >= kMaxOpenHandles)
           /\ Resolved(path) = "ok"
           /\ AddHandle(c, RealPath(path), FALSE) /\ UNCHANGED <<tree, changed>>
  <2>1. RealPath(path) \in Pool \cup {Root}
    BY <1>2, ResolvedInside
  <2>2. HandlesMove
    BY <1>2, <2>1 DEF HandlesMove
  <2>3. UNCHANGED <<fWritable, served>> /\ reply' \in Code
    BY <1>2 DEF AddHandle, Code
  <2> QED
    BY <1>2, <2>2, <2>3, StepContext DEF StepEffect, TreeTypeOK, tree
<1> QED
  BY <1>1, <1>2 DEF HandleOpenRead

LEMMA OpenWriteEffect ==
    ASSUME FileServerInv, NEW c \in Conn, NEW path \in Path, HandleOpenWrite(c, path)
    PROVE  StepEffect
<1> DEFINE d == ParentOf(path)
           i == EntryOf(path)
           opens(j) == /\ ~ (Cardinality(DOMAIN fOpen[c]) >= kMaxOpenHandles)
                       /\ fWritable
                       /\ AddHandle(c, j, TRUE)
<1>1. CASE \/ Refuse("AccessDenied") \/ Refuse("TooManyOpen") \/ Refuse("NotADirectory")
           \/ Refuse("IsADirectory") \/ Refuse(ResolvedForCreate(path))
  BY <1>1, RefuseEffect, ResolvedCode DEF Code
<1>2. ASSUME NEW j \in Pool, opens(j) PROVE HandlesMove /\ UNCHANGED <<fWritable, served>>
                                            /\ reply' \in Code /\ fWritable
  <2>1. HandlesMove
    BY <1>2 DEF HandlesMove
  <2> QED
    BY <1>2, <2>1 DEF AddHandle, Code
<1>3. CASE ResolvedForCreate(path) = "ok" /\ i # NoIno /\ opens(i) /\ Changes({i}) /\ UNCHANGED tree
  <2>1. i \in Pool
    BY <1>3, EntryInside, StepContext
  <2>2. changed' \subseteq changed \cup {"inside"}
    BY <1>3, <2>1, ChangesInside
  <2>3. TreeTypeOK'
    BY <1>3, StepContext DEF TreeTypeOK, tree
  <2> QED
    BY <1>2, <1>3, <2>1, <2>2, <2>3, StepContext DEF StepEffect
<1>4. ASSUME ResolvedForCreate(path) = "ok", NEW new \in Free, opens(new),
             kind' = [kind EXCEPT ![new] = "file"], Link(d, Last(path), new),
             Changes({d, new}), UNCHANGED target
      PROVE  StepEffect
  <2>1. new \in Pool /\ d \in Pool \cup {Root} /\ Last(path) \in Name
    BY <1>4, EntryInside, StepContext DEF Free
  <2>2. changed' \subseteq changed \cup {"inside"}
    BY <1>4, <2>1, ChangesInside
  <2>3. TreeTypeOK'
    BY <1>4, <2>1, LinkType, KindType, InodesApart, StepContext DEF TreeTypeOK, Link
  <2> QED
    BY <1>2, <1>4, <2>1, <2>2, <2>3, StepContext DEF StepEffect
<1> QED
  BY <1>1, <1>3, <1>4 DEF HandleOpenWrite

LEMMA WriteEffect ==
    ASSUME FileServerInv, NEW c \in Conn, NEW h, HandleWrite(c, h)
    PROVE  StepEffect
<1>1. CASE Refuse("BadHandle") \/ Refuse("AccessDenied")
  BY <1>1, RefuseEffect DEF Code
<1>2. CASE /\ h \in DOMAIN fOpen[c] /\ fOpen[c][h].writable
           /\ Changes({fOpen[c][h].ino}) /\ reply' = "ok"
           /\ UNCHANGED <<tree, fWritable, fOpen, fNextHandle, served, fds>>
  <2>1. fWritable
    BY <1>2 DEF FileServerInv, NoWriteHandle
  <2>2. fOpen[c][h].ino \in Pool \cup {Root}
    BY <1>2 DEF FileServerInv, StaysInside, TypeOK, HandleTypeOK, OpenFile, Ino, Outside
  <2>3. changed' \subseteq changed \cup {"inside"}
    BY <1>2, <2>2, ChangesInside
  <2> QED
    BY <1>2, <2>1, <2>3, StepContext DEF StepEffect, HandlesMove, TreeTypeOK, tree, Code
<1> QED
  BY <1>1, <1>2 DEF HandleWrite

LEMMA CloseEffect ==
    ASSUME FileServerInv, NEW c \in Conn, NEW h, HandleClose(c, h)
    PROVE  StepEffect
<1>1. CASE h \notin DOMAIN fOpen[c]
  BY <1>1, RefuseEffect DEF HandleClose, Code
<1>2. CASE h \in DOMAIN fOpen[c]
  <2>1. HandlesMove
    BY <1>2 DEF HandlesMove
  <2>2. UNCHANGED <<tree, fWritable, served, changed>> /\ reply' = "ok"
    BY <1>2 DEF HandleClose
  <2> QED
    BY <2>1, <2>2, StepContext DEF StepEffect, TreeTypeOK, tree, Code
<1> QED
  BY <1>1, <1>2

LEMMA MkdirEffect ==
    ASSUME FileServerInv, NEW c \in Conn, NEW path \in Path, HandleMkdir(c, path)
    PROVE  StepEffect
<1> DEFINE d == ParentOf(path)
<1>1. CASE \/ Refuse("AccessDenied") \/ Refuse("NotADirectory") \/ Refuse("IOError")
           \/ Refuse(ResolvedForCreate(path))
  BY <1>1, RefuseEffect, ResolvedCode DEF Code
<1>2. ASSUME fWritable, ResolvedForCreate(path) = "ok", NEW new \in Free,
             kind' = [kind EXCEPT ![new] = "dir"],
             dirents' = [dirents EXCEPT ![d][Last(path)] = new, ![new] = NoEntries],
             Changes({d, new}), reply' = "ok",
             UNCHANGED <<target, fWritable, fOpen, fNextHandle, served, fds>>
      PROVE  StepEffect
  <2>1. new \in Pool /\ d \in Pool \cup {Root} /\ Last(path) \in Name
    BY <1>2, EntryInside, StepContext DEF Free
  <2>2. changed' \subseteq changed \cup {"inside"}
    BY <1>2, <2>1, ChangesInside
  <2> DEFINE linked == [dirents EXCEPT ![d][Last(path)] = new]
  <2>3. linked \in [Ino -> [Name -> Pool \cup {NoIno}]]
    BY <2>1, LinkType, InodesApart, StepContext
  <2>4. dirents' = [linked EXCEPT ![new] = NoEntries]
    BY <1>2
  <2> HIDE DEF linked
  <2>5. dirents' \in [Ino -> [Name -> Pool \cup {NoIno}]]
    BY <2>3, <2>4 DEF NoEntries
  <2>6. TreeTypeOK'
    BY <1>2, <2>1, <2>5, KindType, InodesApart, StepContext DEF TreeTypeOK
  <2> QED
    BY <1>2, <2>2, <2>6, StepContext DEF StepEffect, HandlesMove, Code
<1> QED
  BY <1>1, <1>2 DEF HandleMkdir

LEMMA UnlinkEffect ==
    ASSUME FileServerInv, NEW c \in Conn, NEW path \in Path, HandleUnlink(c, path)
    PROVE  StepEffect
<1> DEFINE d == ParentOf(path)
<1>1. CASE \/ Refuse("AccessDenied") \/ Refuse("NotFound") \/ Refuse("IOError")
           \/ Refuse(ResolvedForCreate(path))
  BY <1>1, RefuseEffect, ResolvedCode DEF Code
<1>2. CASE /\ fWritable /\ ResolvedForCreate(path) = "ok"
           /\ Link(d, Last(path), NoIno) /\ Changes({d}) /\ reply' = "ok"
           /\ UNCHANGED <<kind, target, fWritable, fOpen, fNextHandle, served, fds>>
  <2>1. d \in Pool \cup {Root} /\ Last(path) \in Name
    BY <1>2, EntryInside, StepContext
  <2>2. changed' \subseteq changed \cup {"inside"}
    BY <1>2, <2>1, ChangesInside
  <2>3. TreeTypeOK'
    BY <1>2, <2>1, LinkType, InodesApart, StepContext DEF TreeTypeOK, Link
  <2> QED
    BY <1>2, <2>2, <2>3, StepContext DEF StepEffect, HandlesMove, Code
<1> QED
  BY <1>1, <1>2 DEF HandleUnlink

LEMMA RenameEffect ==
    ASSUME FileServerInv, NEW c \in Conn, NEW from \in Path, NEW to \in Path,
           HandleRename(c, from, to)
    PROVE  StepEffect
<1> DEFINE d == ParentOf(from)
           i == EntryOf(from)
           e == ParentOf(to)
           j == EntryOf(to)
<1>1. CASE \/ Refuse("AccessDenied") \/ Refuse(ResolvedForCreate(from))
           \/ Refuse(ResolvedForCreate(to)) \/ Refuse(RenameError(d, i, e, j))
  BY <1>1, RefuseEffect, ResolvedCode, RenameCode DEF Code
<1>2. CASE /\ fWritable /\ ResolvedForCreate(from) = "ok" /\ ResolvedForCreate(to) = "ok"
           /\ dirents' = IF i = j THEN dirents
                         ELSE [dirents EXCEPT ![d][Last(from)] = NoIno, ![e][Last(to)] = i]
           /\ Changes({d, e}) /\ reply' = "ok"
           /\ UNCHANGED <<kind, target, fWritable, fOpen, fNextHandle, served, fds>>
  <2>1. /\ d \in Pool \cup {Root} /\ Last(from) \in Name /\ i \in Pool \cup {NoIno}
        /\ e \in Pool \cup {Root} /\ Last(to) \in Name
    BY <1>2, EntryInside, StepContext
  <2>2. changed' \subseteq changed \cup {"inside"}
    BY <1>2, <2>1, ChangesInside
  <2> DEFINE taken == [dirents EXCEPT ![d][Last(from)] = NoIno]
  <2>3. taken \in [Ino -> [Name -> Pool \cup {NoIno}]]
    BY <2>1, LinkType, InodesApart, StepContext
  <2>4. dirents' = dirents \/ dirents' = [taken EXCEPT ![e][Last(to)] = i]
    BY <1>2
  <2>5. dirents \in [Ino -> [Name -> Pool \cup {NoIno}]]
    BY StepContext DEF TreeTypeOK
  <2> HIDE DEF taken, i
  <2>6. dirents' \in [Ino -> [Name -> Pool \cup {NoIno}]]
    <3>1. e \in Ino
      BY <2>1, InodesApart
    <3> HIDE DEF e
    <3>2. PICK t : t = [taken EXCEPT ![e][Last(to)] = i]
      OBVIOUS
    <3>3. t \in [Ino -> [Name -> Pool \cup {NoIno}]]
      BY <2>1, <2>3, <3>1, <3>2, OneEntry
    <3>4. dirents' = dirents \/ dirents' = t
      BY <2>4, <3>2, Zenon
    <3> QED
      BY <2>5, <3>3, <3>4, Zenon
  <2>7. TreeTypeOK'
    BY <1>2, <2>6, StepContext DEF TreeTypeOK
  <2> QED
    BY <1>2, <2>2, <2>7, StepContext DEF StepEffect, HandlesMove, Code
<1> QED
  BY <1>1, <1>2 DEF HandleRename

\* HandleTruncate and HandleWriteAttrs change what a resolved path names.
LEMMA ChangeEffect ==
    ASSUME FileServerInv, NEW path, fWritable, Resolved(path) = "ok",
           Changes({RealPath(path)}), reply' \in {"ok", "IOError"},
           UNCHANGED <<tree, fWritable, fOpen, fNextHandle, served, fds>>
    PROVE  StepEffect
<1>1. changed' \subseteq changed \cup {"inside"}
  BY ResolvedInside, ChangesInside
<1> QED
  BY <1>1, StepContext DEF StepEffect, HandlesMove, TreeTypeOK, tree, Code

LEMMA TruncateEffect ==
    ASSUME FileServerInv, NEW c, NEW path \in Path, HandleTruncate(c, path)
    PROVE  StepEffect
BY RefuseEffect, ResolvedCode, ChangeEffect DEF HandleTruncate, Code

LEMMA WriteAttrsEffect ==
    ASSUME FileServerInv, NEW c, NEW path \in Path, NEW names, HandleWriteAttrs(c, path, names)
    PROVE  StepEffect
BY RefuseEffect, ResolvedCode, ChangeEffect DEF HandleWriteAttrs, Code

\* ~FileServer.
LEMMA EndEffect ==
    ASSUME FileServerInv, NEW c \in Conn, ConnectionEnds(c)
    PROVE  StepEffect
<1>1. HandlesMove
  BY DEF HandlesMove
<1>2. UNCHANGED <<tree, fWritable, changed, reply>>
      /\ served' \in [Conn -> {"serving", "ended"}]
  BY StepContext DEF ConnectionEnds
<1> QED
  BY <1>1, <1>2, StepContext DEF StepEffect, TreeTypeOK, tree

\* The local user changes the tree and nothing of the server.
LEMMA LocalEffect ==
    ASSUME FileServerInv, NEW d \in Ino, NEW n \in Name,
           LocalFile(d, n) \/ \E to \in Outside \cup {Root} : LocalLink(d, n, to)
    PROVE  StepEffect
<1>1. ASSUME NEW new \in Free, NEW k \in {"file", "link"},
             kind' = [kind EXCEPT ![new] = k], Link(d, n, new),
             target' \in [Ino -> Outside \cup {Root}],
             UNCHANGED <<fWritable, fOpen, fNextHandle, served, fds, changed, reply>>
      PROVE  StepEffect
  <2>1. TreeTypeOK'
    BY <1>1, LinkType, KindType, InodesApart, StepContext DEF TreeTypeOK, Link, Free
  <2> QED
    BY <1>1, <2>1, StepContext DEF StepEffect, HandlesMove
<1>2. target \in [Ino -> Outside \cup {Root}]
  BY StepContext DEF TreeTypeOK
<1>3. CASE LocalFile(d, n)
  BY <1>1, <1>2, <1>3 DEF LocalFile
<1>4. ASSUME NEW to \in Outside \cup {Root}, LocalLink(d, n, to)
      PROVE  StepEffect
  <2>1. PICK new \in Free : /\ kind' = [kind EXCEPT ![new] = "link"]
                            /\ target' = [target EXCEPT ![new] = to]
                            /\ Link(d, n, new)
    BY <1>4 DEF LocalLink
  <2>2. target' \in [Ino -> Outside \cup {Root}]
    BY <1>2, <2>1
  <2> QED
    BY <1>1, <1>4, <2>1, <2>2 DEF LocalLink
<1> QED
  BY <1>3, <1>4

LEMMA NextEffect ==
    ASSUME FileServerInv, [Next]_vars
    PROVE  StepEffect
<1>1. ASSUME NEW c \in Conn, Handle(c)
      PROVE  StepEffect
  <2>1. ASSUME NEW code \in {"ok", "InvalidRequest", "IOError"}, HandleNothing(code)
        PROVE  StepEffect
    BY <2>1, RefuseEffect DEF HandleNothing, Code
  <2>2. ASSUME NEW p \in Path, HandleStat(c, p) \/ HandleList(c, p)
        PROVE  StepEffect
    BY <2>2, RefuseEffect, ResolvedCode DEF HandleStat, HandleList, Code
  <2>3. ASSUME NEW h, HandleRead(c, h)
        PROVE  StepEffect
    BY <2>3, RefuseEffect DEF HandleRead, Code
  <2> QED
    BY <1>1, <2>1, <2>2, <2>3, OpenReadEffect, OpenWriteEffect, MkdirEffect, UnlinkEffect,
       TruncateEffect, WriteAttrsEffect, RenameEffect, WriteEffect, CloseEffect DEF Handle
<1>2. CASE UNCHANGED vars
  BY <1>2, StepContext DEF StepEffect, HandlesMove, TreeTypeOK, vars, tree
<1> QED
  BY <1>1, <1>2, EndEffect, LocalEffect DEF Next

-----------------------------------------------------------------------------
\* The handles after a step.

\* HandleOpen: connection c has one handle more.
LEMMA AfterAdd ==
    ASSUME HandleTypeOK, NEW c \in Conn, NEW i, NEW w, AddHandle(c, i, w)
    PROVE  /\ fNextHandle[c] \in 1 .. MaxHandle
           /\ fNextHandle[c] \notin DOMAIN fOpen[c]
           /\ DOMAIN fOpen'[c] = DOMAIN fOpen[c] \cup {fNextHandle[c]}
           /\ fOpen'[c][fNextHandle[c]] = [ino |-> i, writable |-> w]
           /\ \A h \in DOMAIN fOpen[c] : fOpen'[c][h] = fOpen[c][h]
           /\ \A d \in Conn \ {c} : fOpen'[d] = fOpen[d]
           /\ fOpen' = [d \in Conn |-> fOpen'[d]]
<1>1. fNextHandle[c] \in 1 .. MaxHandle
  BY FileServerAssumption DEF HandleTypeOK, AddHandle, FileServerAssumption
<1>2. fNextHandle[c] \notin DOMAIN fOpen[c]
  BY <1>1, FileServerAssumption DEF HandleTypeOK, FileServerAssumption
<1> DEFINE n == fNextHandle[c]
           new == [h \in DOMAIN fOpen[c] \cup {n} |->
                      IF h = n THEN [ino |-> i, writable |-> w] ELSE fOpen[c][h]]
<1>3. fOpen' = [fOpen EXCEPT ![c] = new]
  BY DEF AddHandle
<1>4. fOpen = [d \in Conn |-> fOpen[d]]
  BY DEF HandleTypeOK
<1>5. /\ DOMAIN new = DOMAIN fOpen[c] \cup {n}
      /\ new[n] = [ino |-> i, writable |-> w]
      /\ \A h \in DOMAIN fOpen[c] : new[h] = fOpen[c][h]
  BY <1>2
<1> HIDE DEF new
<1>6. fOpen'[c] = new /\ \A d \in Conn \ {c} : fOpen'[d] = fOpen[d]
  BY <1>3, <1>4
<1>7. fOpen' = [d \in Conn |-> fOpen'[d]]
  BY <1>3, <1>4
<1> QED
  BY <1>1, <1>2, <1>5, <1>6, <1>7

\* HandleClose: connection c has one handle less.
LEMMA AfterClose ==
    ASSUME HandleTypeOK, NEW c \in Conn, NEW h \in DOMAIN fOpen[c], HandleClose(c, h)
    PROVE  /\ DOMAIN fOpen'[c] = DOMAIN fOpen[c] \ {h}
           /\ \A g \in DOMAIN fOpen'[c] : fOpen'[c][g] = fOpen[c][g]
           /\ \A d \in Conn \ {c} : fOpen'[d] = fOpen[d]
           /\ fOpen' = [d \in Conn |-> fOpen'[d]]
           /\ UNCHANGED fNextHandle
<1> DEFINE new == [g \in DOMAIN fOpen[c] \ {h} |-> fOpen[c][g]]
<1>1. fOpen' = [fOpen EXCEPT ![c] = new] /\ UNCHANGED fNextHandle
  BY DEF HandleClose
<1>2. fOpen = [d \in Conn |-> fOpen[d]]
  BY DEF HandleTypeOK
<1>3. DOMAIN new = DOMAIN fOpen[c] \ {h} /\ \A g \in DOMAIN new : new[g] = fOpen[c][g]
  OBVIOUS
<1> HIDE DEF new
<1>4. fOpen'[c] = new /\ \A d \in Conn \ {c} : fOpen'[d] = fOpen[d]
  BY <1>1, <1>2
<1>5. fOpen' = [d \in Conn |-> fOpen'[d]]
  BY <1>1, <1>2
<1> QED
  BY <1>1, <1>3, <1>4, <1>5

\* ~FileServer: connection c has no handle.
LEMMA AfterEnd ==
    ASSUME HandleTypeOK, NEW c \in Conn, ConnectionEnds(c)
    PROVE  /\ DOMAIN fOpen'[c] = {}
           /\ \A d \in Conn \ {c} : fOpen'[d] = fOpen[d]
           /\ fOpen' = [d \in Conn |-> fOpen'[d]]
           /\ UNCHANGED fNextHandle
<1>1. fOpen' = [fOpen EXCEPT ![c] = << >>] /\ UNCHANGED fNextHandle
  BY DEF ConnectionEnds
<1>2. fOpen = [d \in Conn |-> fOpen[d]]
  BY DEF HandleTypeOK
<1>3. DOMAIN << >> = {}
  OBVIOUS
<1>4. fOpen'[c] = << >> /\ \A d \in Conn \ {c} : fOpen'[d] = fOpen[d]
  BY <1>1, <1>2
<1>5. fOpen' = [d \in Conn |-> fOpen'[d]]
  BY <1>1, <1>2
<1> QED
  BY <1>1, <1>3, <1>4, <1>5

\* The handles of a connection are finitely many.
LEMMA HandlesFinite ==
    ASSUME HandleTypeOK, NEW c \in Conn
    PROVE  /\ IsFiniteSet(DOMAIN fOpen[c])
           /\ Cardinality(DOMAIN fOpen[c]) \in Nat
           /\ DOMAIN fOpen[c] \subseteq 1 .. MaxHandle
<1>1. fNextHandle[c] \in Int /\ DOMAIN fOpen[c] \subseteq 1 .. fNextHandle[c] - 1
      /\ fNextHandle[c] <= MaxHandle + 1
  BY FileServerAssumption DEF HandleTypeOK, FileServerAssumption
<1>2. DOMAIN fOpen[c] \subseteq 1 .. MaxHandle
  BY <1>1, FileServerAssumption DEF FileServerAssumption
<1>3. IsFiniteSet(1 .. MaxHandle)
  BY FS_Interval, FileServerAssumption DEF FileServerAssumption
<1>4. IsFiniteSet(DOMAIN fOpen[c])
  BY <1>2, <1>3, FS_Subset
<1> QED
  BY <1>2, <1>4, FS_CardinalityType

LEMMA HandleTypeStep ==
    ASSUME HandleTypeOK, HandlesMove
    PROVE  HandleTypeOK'
<1> USE FileServerAssumption DEF FileServerAssumption
<1>1. CASE UNCHANGED <<fOpen, fNextHandle, fds>>
  BY <1>1 DEF HandleTypeOK
<1>2. ASSUME NEW c \in Conn, NEW i \in Pool \cup {Root}, NEW w \in BOOLEAN,
             ~ (Cardinality(DOMAIN fOpen[c]) >= kMaxOpenHandles), AddHandle(c, i, w)
      PROVE  HandleTypeOK'
  <2> DEFINE n == fNextHandle[c]
  <2>0. n \in 1 .. MaxHandle /\ n \notin DOMAIN fOpen[c]
        /\ DOMAIN fOpen'[c] = DOMAIN fOpen[c] \cup {n}
    BY <1>2, AfterAdd
  <2>1. n \in 1 .. MaxHandle /\ fNextHandle' = [fNextHandle EXCEPT ![c] = n + 1]
    BY <1>2, <2>0 DEF AddHandle
  <2>2. fNextHandle' \in [Conn -> 1 .. MaxHandle + 1] /\ fNextHandle'[c] = n + 1
        /\ \A d \in Conn \ {c} : fNextHandle'[d] = fNextHandle[d]
    BY <2>1 DEF HandleTypeOK
  <2>3. Cardinality(DOMAIN fOpen'[c]) <= kMaxOpenHandles
    <3>1. Cardinality(DOMAIN fOpen[c] \cup {n}) = Cardinality(DOMAIN fOpen[c]) + 1
      BY <2>0, HandlesFinite, FS_AddElement
    <3>2. Cardinality(DOMAIN fOpen[c]) \in Nat
      BY HandlesFinite
    <3> QED
      BY <1>2, <2>0, <3>1, <3>2
  <2>4. [ino |-> i, writable |-> w] \in OpenFile
    BY <1>2, InodesApart DEF OpenFile
  <2>5. /\ DOMAIN fOpen'[c] \subseteq 1 .. fNextHandle'[c] - 1
        /\ \A h \in DOMAIN fOpen'[c] : fOpen'[c][h] \in OpenFile
    <3>1. DOMAIN fOpen[c] \subseteq 1 .. n - 1 /\ \A h \in DOMAIN fOpen[c] : fOpen[c][h] \in OpenFile
      BY DEF HandleTypeOK
    <3>2. 1 .. n - 1 \subseteq 1 .. n /\ n \in 1 .. n /\ fNextHandle'[c] - 1 = n
      BY <2>1, <2>2
    <3>3. DOMAIN fOpen'[c] = DOMAIN fOpen[c] \cup {n}
      BY <1>2, AfterAdd
    <3>4. DOMAIN fOpen'[c] \subseteq 1 .. n
      BY <3>1, <3>2, <3>3
    <3>5. /\ fOpen'[c][n] = [ino |-> i, writable |-> w]
          /\ \A h \in DOMAIN fOpen[c] : fOpen'[c][h] = fOpen[c][h]
      BY <1>2, AfterAdd
    <3> HIDE DEF n
    <3>6. \A h \in DOMAIN fOpen'[c] : fOpen'[c][h] \in OpenFile
      BY <2>4, <3>1, <3>3, <3>5
    <3> QED
      BY <3>2, <3>4, <3>6
  <2>6. fOpen' = [d \in Conn |-> fOpen'[d]] /\ \A d \in Conn \ {c} : fOpen'[d] = fOpen[d]
    BY <1>2, AfterAdd
  <2> HIDE DEF n
  <2>7. ASSUME NEW d \in Conn
        PROVE  /\ DOMAIN fOpen'[d] \subseteq 1 .. fNextHandle'[d] - 1
               /\ \A h \in DOMAIN fOpen'[d] : fOpen'[d][h] \in OpenFile
               /\ Cardinality(DOMAIN fOpen'[d]) <= kMaxOpenHandles
    <3>1. CASE d = c
      BY <2>3, <2>5, <3>1
    <3>2. CASE d # c
      BY <2>2, <2>6, <3>2 DEF HandleTypeOK
    <3> QED
      BY <3>1, <3>2
  <2> QED
    BY <2>2, <2>6, <2>7 DEF HandleTypeOK
<1>3. ASSUME NEW c \in Conn, NEW h \in DOMAIN fOpen[c], HandleClose(c, h)
      PROVE  HandleTypeOK'
  <2>1. Cardinality(DOMAIN fOpen[c] \ {h}) <= kMaxOpenHandles
    <3>1. Cardinality(DOMAIN fOpen[c]) <= kMaxOpenHandles
      BY DEF HandleTypeOK
    <3>2. Cardinality(DOMAIN fOpen[c] \ {h}) = Cardinality(DOMAIN fOpen[c]) - 1
          /\ Cardinality(DOMAIN fOpen[c]) \in Nat
      BY <1>3, HandlesFinite, FS_RemoveElement
    <3> QED
      BY <3>1, <3>2
  <2> QED
    BY <1>3, <2>1, AfterClose DEF HandleTypeOK
<1>4. ASSUME NEW c \in Conn, ConnectionEnds(c)
      PROVE  HandleTypeOK'
  <2>1. Cardinality({}) <= kMaxOpenHandles
    BY FS_EmptySet
  <2> QED
    BY <1>4, <2>1, AfterEnd DEF HandleTypeOK
<1> QED
  BY <1>1, <1>2, <1>3, <1>4 DEF HandlesMove

-----------------------------------------------------------------------------
\* Nothing outside the share, nothing on a read-only one.

LEMMA InsideStep ==
    ASSUME FileServerInv, StepEffect
    PROVE  StaysInside' /\ NoWriteHandle'
<1>1. "outside" \notin changed' /\ (~fWritable' => changed' = {})
  BY DEF FileServerInv, StaysInside, StepEffect
<1> DEFINE fine(f, c) == \A h \in DOMAIN f[c] :
                            f[c][h].ino \notin Outside /\ (f[c][h].writable => fWritable)
<1>2. \A c \in Conn : fine(fOpen, c)
  BY DEF FileServerInv, StaysInside, NoWriteHandle
<1>3. HandlesMove /\ HandleTypeOK
  BY DEF StepEffect, FileServerInv, TypeOK
<1>4. ASSUME NEW d \in Conn PROVE fine(fOpen', d)
  <2>1. CASE UNCHANGED <<fOpen, fNextHandle, fds>>
    BY <1>2, <2>1
  <2>2. ASSUME NEW c \in Conn, NEW i \in Pool \cup {Root}, NEW w \in BOOLEAN,
               w => fWritable, AddHandle(c, i, w)
        PROVE  fine(fOpen', d)
    <3>1. i \notin Outside
      BY InodesApart
    <3>2. /\ DOMAIN fOpen'[c] = DOMAIN fOpen[c] \cup {fNextHandle[c]}
          /\ fOpen'[c][fNextHandle[c]] = [ino |-> i, writable |-> w]
          /\ \A h \in DOMAIN fOpen[c] : fOpen'[c][h] = fOpen[c][h]
          /\ \A e \in Conn \ {c} : fOpen'[e] = fOpen[e]
      BY <1>3, <2>2, AfterAdd
    <3> QED
      BY <1>2, <2>2, <3>1, <3>2
  <2>3. ASSUME NEW c \in Conn, NEW h \in DOMAIN fOpen[c], HandleClose(c, h)
        PROVE  fine(fOpen', d)
    BY <1>2, <1>3, <2>3, AfterClose
  <2>4. ASSUME NEW c \in Conn, ConnectionEnds(c)
        PROVE  fine(fOpen', d)
    BY <1>2, <1>3, <2>4, AfterEnd
  <2> QED
    BY <1>3, <2>1, <2>2, <2>3, <2>4 DEF HandlesMove
<1>5. UNCHANGED fWritable
  BY DEF StepEffect
<1> QED
  BY <1>1, <1>4, <1>5 DEF StaysInside, NoWriteHandle

-----------------------------------------------------------------------------
\* The descriptors.

\* The owners of an inode's descriptors, counted.
LEMMA OwnersCounted ==
    ASSUME FileServerInv, NEW i \in Ino
    PROVE  /\ IsFiniteSet(Owners(i))
           /\ fds[i] = Cardinality(Owners(i))
           /\ fds[i] \in Nat
BY DEF FileServerInv, OwnersAreFinite, DescriptorsAreOwned, TypeOK

\* An inode's owners and its count after a step are one more, one less, or as before.
LEMMA OwnersAfterAdd ==
    ASSUME FileServerInv, NEW c \in Conn, NEW i \in Pool \cup {Root}, NEW w \in BOOLEAN,
           AddHandle(c, i, w), NEW j \in Ino
    PROVE  IsFiniteSet(Owners(j)') /\ fds'[j] = Cardinality(Owners(j)')
<1> DEFINE n == fNextHandle[c]
<1>1. HandleTypeOK /\ fds \in [Ino -> Nat]
  BY DEF FileServerInv, TypeOK
<1>2. /\ n \in 1 .. MaxHandle /\ n \notin DOMAIN fOpen[c]
      /\ DOMAIN fOpen'[c] = DOMAIN fOpen[c] \cup {n}
      /\ fOpen'[c][n] = [ino |-> i, writable |-> w]
      /\ \A h \in DOMAIN fOpen[c] : fOpen'[c][h] = fOpen[c][h]
      /\ \A d \in Conn \ {c} : fOpen'[d] = fOpen[d]
  BY <1>1, AfterAdd
<1>3. fds' = [fds EXCEPT ![i] = fds[i] + 1] /\ i \in Ino
  BY InodesApart DEF AddHandle
<1> HIDE DEF n
<1>4. CASE j = i
  <2>1. Owners(i)' = Owners(i) \cup {<<c, n>>} /\ <<c, n>> \notin Owners(i)
    BY <1>2 DEF Owners
  <2>2. IsFiniteSet(Owners(i)) /\ fds[i] = Cardinality(Owners(i)) /\ fds[i] \in Nat
    BY <1>3, OwnersCounted
  <2>3. /\ IsFiniteSet(Owners(i) \cup {<<c, n>>})
        /\ Cardinality(Owners(i) \cup {<<c, n>>}) = Cardinality(Owners(i)) + 1
    BY <2>1, <2>2, FS_AddElement
  <2>4. fds'[i] = fds[i] + 1
    BY <1>1, <1>3
  <2> QED
    BY <1>4, <2>1, <2>2, <2>3, <2>4
<1>5. CASE j # i
  <2>1. Owners(j)' = Owners(j)
    BY <1>2, <1>5 DEF Owners
  <2> QED
    BY <1>1, <1>3, <1>5, <2>1, OwnersCounted
<1> QED
  BY <1>4, <1>5

LEMMA OwnersAfterClose ==
    ASSUME FileServerInv, NEW c \in Conn, NEW h \in DOMAIN fOpen[c], HandleClose(c, h),
           NEW j \in Ino
    PROVE  IsFiniteSet(Owners(j)') /\ fds'[j] = Cardinality(Owners(j)')
<1> DEFINE i == fOpen[c][h].ino
<1>1. HandleTypeOK /\ fds \in [Ino -> Nat] /\ i \in Ino /\ h \in 1 .. MaxHandle
  <2>1. HandleTypeOK /\ fds \in [Ino -> Nat]
    BY DEF FileServerInv, TypeOK
  <2>2. fOpen[c][h] \in OpenFile
    BY <2>1 DEF HandleTypeOK
  <2> QED
    BY <2>1, <2>2, HandlesFinite DEF OpenFile
<1>2. /\ DOMAIN fOpen'[c] = DOMAIN fOpen[c] \ {h}
      /\ \A g \in DOMAIN fOpen'[c] : fOpen'[c][g] = fOpen[c][g]
      /\ \A d \in Conn \ {c} : fOpen'[d] = fOpen[d]
  BY <1>1, AfterClose
<1>3. fds' = [fds EXCEPT ![i] = fds[i] - 1]
  BY DEF HandleClose
<1>4. CASE j = i
  <2>1. Owners(j)' = Owners(j) \ {<<c, h>>} /\ <<c, h>> \in Owners(j)
    <3>1. <<c, h>> \in Owners(j)
      BY <1>1, <1>4 DEF Owners
    <3>2. ASSUME NEW p \in Conn \X (1 .. MaxHandle)
          PROVE  p \in Owners(j)' <=> p \in Owners(j) \ {<<c, h>>}
      <4>1. CASE p[1] = c
        <5>1. p = <<c, h>> <=> p[2] = h
          BY <1>1, <4>1
        <5> QED
          BY <1>2, <4>1, <5>1 DEF Owners
      <4>2. CASE p[1] # c
        BY <1>2, <4>2 DEF Owners
      <4> QED
        BY <4>1, <4>2
    <3>3. Owners(j) \subseteq Conn \X (1 .. MaxHandle) /\ Owners(j)' \subseteq Conn \X (1 .. MaxHandle)
      BY DEF Owners
    <3> QED
      BY <3>1, <3>2, <3>3
  <2>2. IsFiniteSet(Owners(j)) /\ fds[j] = Cardinality(Owners(j)) /\ fds[j] \in Nat
    BY OwnersCounted
  <2>3. /\ IsFiniteSet(Owners(j) \ {<<c, h>>})
        /\ Cardinality(Owners(j) \ {<<c, h>>}) = Cardinality(Owners(j)) - 1
    BY <2>1, <2>2, FS_RemoveElement
  <2>4. fds'[j] = fds[j] - 1
    BY <1>1, <1>3, <1>4
  <2> QED
    BY <2>1, <2>2, <2>3, <2>4
<1>5. CASE j # i
  <2>1. Owners(j)' = Owners(j)
    BY <1>2, <1>5 DEF Owners
  <2> QED
    BY <1>1, <1>3, <1>5, <2>1, OwnersCounted
<1> QED
  BY <1>4, <1>5

\* The pairs of connection c with its handles on an inode are as many as those handles.
LEMMA OwnersAfterEnd ==
    ASSUME FileServerInv, NEW c \in Conn, ConnectionEnds(c), NEW j \in Ino
    PROVE  IsFiniteSet(Owners(j)') /\ fds'[j] = Cardinality(Owners(j)')
<1> DEFINE mine == {h \in DOMAIN fOpen[c] : fOpen[c][h].ino = j}
           pairs == {c} \X mine
<1>1. HandleTypeOK /\ fds \in [Ino -> Nat]
  BY DEF FileServerInv, TypeOK
<1>2. IsFiniteSet(mine)
  BY <1>1, HandlesFinite, FS_Subset
<1>3. Cardinality(pairs) = Cardinality(mine) /\ Cardinality(mine) \in Nat
  <2>1. IsFiniteSet({c}) /\ Cardinality({c}) = 1
    BY FS_Singleton
  <2>2. Cardinality(mine) \in Nat
    BY <1>2, FS_CardinalityType
  <2>3. Cardinality(pairs) = Cardinality({c}) * Cardinality(mine)
    BY <1>2, <2>1, FS_Product
  <2> QED
    BY <2>1, <2>2, <2>3
<1>4. fds'[j] = fds[j] - Cardinality(mine)
  BY DEF ConnectionEnds
<1>5. mine \subseteq 1 .. MaxHandle
  BY <1>1, HandlesFinite
<1>6. Owners(j)' = Owners(j) \ pairs /\ Owners(j) \cap pairs = pairs
  <2>1. DOMAIN fOpen'[c] = {} /\ \A d \in Conn \ {c} : fOpen'[d] = fOpen[d]
    BY <1>1, AfterEnd
  <2>2. Owners(j)' \subseteq Owners(j) \ pairs
    BY <2>1 DEF Owners
  <2>3. Owners(j) \ pairs \subseteq Owners(j)'
    BY <2>1 DEF Owners
  <2>4. pairs \subseteq Owners(j)
    BY <1>5 DEF Owners
  <2> QED
    BY <2>2, <2>3, <2>4
<1> HIDE DEF mine, pairs
<1>7. /\ IsFiniteSet(Owners(j) \ pairs)
      /\ Cardinality(Owners(j) \ pairs) = Cardinality(Owners(j)) - Cardinality(Owners(j) \cap pairs)
  BY OwnersCounted, FS_Difference
<1> QED
  BY <1>3, <1>4, <1>6, <1>7, OwnersCounted

LEMMA OwnedStep ==
    ASSUME FileServerInv, StepEffect
    PROVE  OwnersAreFinite' /\ DescriptorsAreOwned' /\ fds' \in [Ino -> Nat]
<1>1. HandlesMove
  BY DEF StepEffect
<1>2. ASSUME NEW j \in Ino
      PROVE  IsFiniteSet(Owners(j)') /\ fds'[j] = Cardinality(Owners(j)')
  <2>1. CASE UNCHANGED <<fOpen, fNextHandle, fds>>
    BY <2>1, OwnersCounted DEF Owners
  <2> QED
    BY <1>1, <2>1, OwnersAfterAdd, OwnersAfterClose, OwnersAfterEnd DEF HandlesMove
<1>3. fds' = [i \in Ino |-> fds'[i]]
  <2>1. fds \in [Ino -> Nat]
    BY DEF FileServerInv, TypeOK
  <2> QED
    BY <1>1, <2>1 DEF HandlesMove, AddHandle, HandleClose, ConnectionEnds, Refuse
<1>4. \A j \in Ino : fds'[j] \in Nat
  BY <1>2, FS_CardinalityType
<1>5. fds' \in [Ino -> Nat]
  BY <1>3, <1>4
<1> QED
  BY <1>2, <1>5 DEF OwnersAreFinite, DescriptorsAreOwned

-----------------------------------------------------------------------------
\* The theorems.

LEMMA FileServerInit == Init => FileServerInv
<1> SUFFICES ASSUME Init PROVE FileServerInv
  OBVIOUS
<1> USE FileServerAssumption DEF FileServerAssumption
<1>1. TreeTypeOK
  BY DEF Init, TreeTypeOK, NoEntries, Ino, Outside
<1>2. \A c \in Conn : DOMAIN fOpen[c] = {}
  <2>1. DOMAIN << >> = {}
    OBVIOUS
  <2> QED
    BY <2>1 DEF Init
<1>3. HandleTypeOK
  BY <1>2, FS_EmptySet DEF Init, HandleTypeOK
<1>4. \A i \in Ino : Owners(i) = {}
  BY <1>2 DEF Owners
<1>5. OwnersAreFinite /\ DescriptorsAreOwned
  BY <1>4, FS_EmptySet DEF Init, OwnersAreFinite, DescriptorsAreOwned
<1>6. TypeOK
  BY <1>1, <1>3 DEF Init, TypeOK, Code
<1> QED
  BY <1>2, <1>5, <1>6 DEF Init, FileServerInv, StaysInside, NoWriteHandle

LEMMA FileServerStep == FileServerInv /\ [Next]_vars => FileServerInv'
<1> SUFFICES ASSUME FileServerInv, [Next]_vars PROVE FileServerInv'
  OBVIOUS
<1>1. StepEffect
  BY NextEffect
<1>2. HandleTypeOK'
  BY <1>1, HandleTypeStep DEF FileServerInv, TypeOK, StepEffect
<1>3. StaysInside' /\ NoWriteHandle'
  BY <1>1, InsideStep
<1>4. OwnersAreFinite' /\ DescriptorsAreOwned' /\ fds' \in [Ino -> Nat]
  BY <1>1, OwnedStep
<1>5. TypeOK'
  BY <1>1, <1>2, <1>4 DEF FileServerInv, TypeOK, StepEffect
<1> QED
  BY <1>3, <1>4, <1>5 DEF FileServerInv

\* FileServer's state keeps its type: in particular a name of the share never stands for
\* an inode outside it, and a connection never has more than kMaxOpenHandles handles.
THEOREM FileServerTypeCorrect == Spec => []TypeOK
<1>1. FileServerInv => TypeOK
  BY DEF FileServerInv
<1> QED
  BY <1>1, FileServerInit, FileServerStep, PTL DEF Spec

\* Resolve, ResolveForCreate and O_NOFOLLOW keep every request inside the share, and
\* fWritable keeps a read-only one as it is.
THEOREM RequestsStayInside == Spec => []StaysInside
<1>1. FileServerInv => StaysInside
  BY DEF FileServerInv
<1> QED
  BY <1>1, FileServerInit, FileServerStep, PTL DEF Spec

\* Every descriptor of the process belongs to a handle in some connection's fOpen.
THEOREM NoDescriptorLeaks == Spec => []DescriptorsAreOwned
<1>1. FileServerInv => DescriptorsAreOwned
  BY DEF FileServerInv
<1> QED
  BY <1>1, FileServerInit, FileServerStep, PTL DEF Spec
=============================================================================
