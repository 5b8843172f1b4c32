---------------------------- MODULE MCFileServer ----------------------------
\* Bounded instances of FileServer.
EXTENDS FileServer

\* The inodes of the share can be exchanged.
Symmetry == Permutations(Pool)

\* What the model goes on from: neither the last reply nor what a free inode was.
View ==
    <<[i \in Ino |-> IF i \in Free THEN "free" ELSE kind[i]], dirents,
      [i \in Ino |-> IF i \notin Free /\ kind[i] = "link" THEN target[i] ELSE Root],
      fWritable, fOpen, fNextHandle, served, fds, changed>>
=============================================================================
