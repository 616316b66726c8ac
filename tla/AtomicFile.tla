----------------------------- MODULE AtomicFile -----------------------------
(***************************************************************************)
(* A file that is always replaced as a whole: the new contents are written *)
(* to one fixed .tmp name beside it, which is then renamed over it.  This  *)
(* is how TaskMeta::save, RunMeta::save and FactsStore::write_fact save.   *)
(* Names are links to inodes: a writer keeps writing to the inode it       *)
(* opened, wherever another writer has meanwhile renamed it to.            *)
(***************************************************************************)

CONSTANTS Inode,    \* more than can be open at once: SharedFacts and TaskFiles say how many
          NoFile,   \* a name that does not exist, a writer that has nothing open
          Empty,    \* contents: truncated
          Torn      \* contents: two writes, one over a part of the other

ASSUME AtomicFileAssumption == NoFile \notin Inode /\ \E i, j \in Inode : i # j

\* A file is a record [file, tmp, node]: the two names, and the contents of every inode.
Fresh == [file |-> NoFile, tmp |-> NoFile, node |-> [i \in Inode |-> Empty]]

\* fs::write opens the name, truncating what is there.
OpenTmp(f, open) ==
    LET i == IF f.tmp # NoFile THEN f.tmp
             ELSE CHOOSE j \in Inode : j # f.file /\ j \notin open
    IN  [f EXCEPT !.tmp = i, !.node[i] = Empty]

\* Then it writes from the start of the file: over what another writer has put there since,
\* of which a part remains if it was longer.
Written(f, i, c) ==
    {[f EXCEPT !.node[i] = c]} \cup
    (IF f.node[i] = Empty THEN {} ELSE {[f EXCEPT !.node[i] = Torn]})

\* An inode without a name that nobody has open is gone.
Forget(f, open) ==
    [f EXCEPT !.node = [i \in Inode |-> IF i \in {f.file, f.tmp} \cup open THEN @[i] ELSE Empty]]

\* The rename needs the .tmp name to be there still.
CanRename(f)     == f.tmp # NoFile
Renamed(f, open) == Forget([f EXCEPT !.file = f.tmp, !.tmp = NoFile], open)

\* What a reader of the name finds, and whether it parses.
Exists(f)   == f.file # NoFile
Contents(f) == f.node[f.file]
Whole(f)    == Exists(f) => Contents(f) \notin {Empty, Torn}
=============================================================================
