-------------------------- MODULE AtomicFileProofs --------------------------
(***************************************************************************)
(* What the three steps of a save do to a file that one writer at a time   *)
(* replaces.                                                               *)
(***************************************************************************)
EXTENDS AtomicFile, FiniteSetTheorems, TLAPS

\* A file with contents of C.
FileOf(C) == [file : Inode \cup {NoFile}, tmp : Inode \cup {NoFile},
              node : [Inode -> C \cup {Empty, Torn}]]

\* Whoever else has something open, one inode is left for a writer that has nothing open.
LEMMA OneIsFree ==
    ASSUME NEW W, IsFiniteSet(W), IsFiniteSet(Inode) => Cardinality(Inode) > Cardinality(W),
           NEW d, NEW w \in W, NEW x
    PROVE  \E j \in Inode : j # x /\ \A u \in W \ {w} : d[u] # j
<1>. DEFINE O == W \ {w}
            h == [u \in O |-> d[u]]
            R == {d[u] : u \in O}
<1>1. IsFiniteSet(O) /\ Cardinality(O) = Cardinality(W) - 1 /\ Cardinality(W) \in Nat
  BY FS_RemoveElement, FS_CardinalityType
<1>2. h \in Surjection(O, R)
  BY DEF Surjection
<1>3. IsFiniteSet(R) /\ Cardinality(R) <= Cardinality(W) - 1 /\ Cardinality(R) \in Nat
  <2>. HIDE DEF h, R, O
  <2>. QED
    BY <1>1, <1>2, FS_Surjection, FS_CardinalityType
<1>4. IsFiniteSet(R \cup {x}) /\ Cardinality(R \cup {x}) <= Cardinality(W)
  <2>. HIDE DEF R
  <2>1. /\ IsFiniteSet(R \cup {x})
        /\ Cardinality(R \cup {x}) = IF x \in R THEN Cardinality(R) ELSE Cardinality(R) + 1
    BY <1>3, FS_AddElement
  <2>. QED
    BY <1>1, <1>3, <2>1
<1>5. \E j \in Inode : j \notin R \cup {x}
  <2>. HIDE DEF R
  <2>. SUFFICES ASSUME Inode \in SUBSET (R \cup {x}) PROVE FALSE
    OBVIOUS
  <2>1. IsFiniteSet(Inode) /\ Cardinality(Inode) <= Cardinality(R \cup {x})
    BY <1>4, FS_Subset
  <2>2. Cardinality(Inode) \in Nat /\ Cardinality(R \cup {x}) \in Nat
    BY <1>4, <2>1, FS_CardinalityType
  <2>. QED
    BY <1>1, <1>4, <2>1, <2>2
<1>. QED
  BY <1>5

\* However many write at once, each step of a save leaves names of inodes, with contents.
LEMMA OpenKeepsFile ==
    ASSUME NEW C, NEW f \in FileOf(C), NEW open, \E j \in Inode : j # f.file /\ j \notin open,
           NEW g, g = OpenTmp(f, open)
    PROVE  g \in FileOf(C) /\ g.tmp \in Inode
<1>. DEFINE i == IF f.tmp # NoFile THEN f.tmp
                 ELSE CHOOSE j \in Inode : j # f.file /\ j \notin open
<1>1. i \in Inode
  BY DEF FileOf
<1>2. g = [f EXCEPT !.tmp = i, !.node[i] = Empty]
  BY DEF OpenTmp
<1>. HIDE DEF i
<1>3. g = [file |-> f.file, tmp |-> i, node |-> [f.node EXCEPT ![i] = Empty]]
  BY <1>2 DEF FileOf
<1>4. f.node \in [Inode -> C \cup {Empty, Torn}] /\ f.file \in Inode \cup {NoFile}
  BY DEF FileOf
<1>. QED
  BY <1>1, <1>3, <1>4 DEF FileOf

LEMMA WriteKeepsFile ==
    ASSUME NEW C, NEW f \in FileOf(C), NEW i, NEW c \in C, NEW g \in Written(f, i, c)
    PROVE  g \in FileOf(C)
BY DEF Written, FileOf

LEMMA RenameKeepsFile ==
    ASSUME NEW C, NEW f \in FileOf(C), NEW open
    PROVE  Renamed(f, open) \in FileOf(C)
BY DEF Renamed, Forget, FileOf

\* A writer that finds no .tmp name gets an empty inode of its own.
LEMMA OpensItsOwn ==
    ASSUME NEW C, NEW f \in FileOf(C), NEW open, open \subseteq {NoFile}, f.tmp = NoFile,
           NEW g, g = OpenTmp(f, open)
    PROVE  /\ g \in FileOf(C) /\ g.file = f.file
           /\ g.tmp \in Inode /\ g.tmp # f.file /\ g.node[g.tmp] = Empty
           /\ \A i \in Inode : i # g.tmp => g.node[i] = f.node[i]
<1>. DEFINE Free(j) == j # f.file /\ j \notin open
            i == CHOOSE j \in Inode : Free(j)
<1>1. \E j \in Inode : Free(j)
  BY AtomicFileAssumption
<1>2. i \in Inode /\ Free(i)
  BY <1>1
<1>3. g = [f EXCEPT !.tmp = i, !.node[i] = Empty]
  BY DEF OpenTmp
<1>. HIDE DEF i
<1>4. g = [file |-> f.file, tmp |-> i, node |-> [f.node EXCEPT ![i] = Empty]]
  BY <1>2, <1>3 DEF FileOf
<1>5. /\ f.node \in [Inode -> C \cup {Empty, Torn}] /\ f.file \in Inode \cup {NoFile}
      /\ i \in Inode /\ i # f.file
  BY <1>2 DEF FileOf
<1>. HIDE DEF Free
<1>. QED
  BY <1>4, <1>5 DEF FileOf

\* It writes all of its contents there.
LEMMA WritesItAll ==
    ASSUME NEW C, NEW f \in FileOf(C), NEW i \in Inode, f.node[i] = Empty, NEW c \in C,
           NEW g \in Written(f, i, c)
    PROVE  /\ g \in FileOf(C) /\ g.file = f.file /\ g.tmp = f.tmp /\ g.node[i] = c
           /\ \A j \in Inode : j # i => g.node[j] = f.node[j]
<1>1. g = [f EXCEPT !.node[i] = c]
  BY DEF Written
<1>. QED
  BY <1>1 DEF FileOf

\* The rename makes them the contents of the file.
LEMMA RenamesOverIt ==
    ASSUME NEW C, NEW f \in FileOf(C), f.tmp \in Inode, NEW open, NEW g, g = Renamed(f, open)
    PROVE  /\ g \in FileOf(C) /\ g.file = f.tmp /\ g.tmp = NoFile
           /\ g.node[g.file] = f.node[f.tmp]
BY DEF Renamed, Forget, FileOf

\* Removing the names leaves no file.
LEMMA RemovesIt ==
    ASSUME NEW C, NEW f \in FileOf(C), NEW open, NEW g,
           g = Forget([f EXCEPT !.file = NoFile, !.tmp = NoFile], open)
    PROVE  g \in FileOf(C) /\ g.file = NoFile /\ g.tmp = NoFile
BY DEF Forget, FileOf
=============================================================================
