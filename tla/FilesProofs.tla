------------------------------ MODULE FilesProofs ------------------------------
(***************************************************************************)
(* For every file system, every table of locations and every size: a file  *)
(* that was answered 201 is whole, it is found again where the code looks  *)
(* for it, and Files implements FileStore.                                 *)
(***************************************************************************)
EXTENDS Files, Numbers, SequenceTheorems, TLAPS

-----------------------------------------------------------------------------
(* The inductive invariant. *)

\* That the names in the code are strings is something no prover here knows.
Name == STRING \cup {"www", "upload"}
Path == Seq(Name)
Text == Seq((0..MaxUploads) \X Nat)

\* What TypeOK says of the names: they are a tree whose files are leaves.
Tree(d) ==
  /\ d \in [Paths -> Inodes \cup {None, Directory}]
  /\ \A p, q \in Paths : d[p] \in Inodes /\ d[p] = d[q] => p = q
  /\ \A p \in Paths : p # <<>> /\ d[p] # None => Front(p) \in Paths /\ d[Front(p)] = Directory

IsUploadPath(p) == \E l \in Locations, name \in FileNames : p = UploadPath(l, name)

\* An upload has written the beginning of what it will have written.
UploadWell == ~Idle =>
  /\ up.path \in Paths /\ up.inode \in Inodes /\ dir[up.path] = up.inode
  /\ up.size \in Sizes /\ Written \in 0..up.size /\ data[up.inode] = Whole(uploads, Written)
  /\ saved[up.path] = None /\ IsUploadPath(up.path)

\* What is saved was uploaded, and is what the file holds.
SavedWell ==
  /\ saved \in [Paths -> Text \cup {None}]
  /\ SavedWhole
  /\ \A p \in Paths : Saved(p) => IsUploadPath(p)

\* A response whose file nobody overwrites has delivered what it has read.
ResponsesWell ==
  /\ promise \in [Clients -> Text] /\ got \in [Clients -> Text] /\ torn \subseteq Clients
  /\ \A c \in Clients : fd[c] # None /\ fd[c] # up.inode /\ c \notin torn =>
       /\ promise[c] = data[fd[c]]
       /\ pos[c] <= Len(data[fd[c]]) /\ got[c] = SubSeq(data[fd[c]], 1, pos[c])

IInv == TypeOK /\ UploadWell /\ SavedWell /\ ResponsesWell

-----------------------------------------------------------------------------
(* Paths and contents as sequences. *)

\* The first elements of a sequence.
LEMMA FirstOf ==
  ASSUME NEW S, NEW s \in Seq(S), NEW n \in Nat, n <= Len(s)
  PROVE  /\ SubSeq(s, 1, n) \in Seq(S) /\ Len(SubSeq(s, 1, n)) = n
         /\ \A i \in 1..n : SubSeq(s, 1, n)[i] = s[i]
<1>1. \A i \in 1..n : s[i] \in S
  OBVIOUS
<1> QED BY <1>1, SubSeqProperties

\* The pieces of an upload, and what write() appends to them.
LEMMA WholeText ==
  ASSUME NEW v \in 0..MaxUploads, NEW n \in Nat
  PROVE  /\ Whole(v, n) \in Text /\ Len(Whole(v, n)) = n
         /\ \A k \in 0..n : SubSeq(Whole(v, n), 1, k) = Whole(v, k)
         /\ \A k \in Nat : Whole(v, n) \o [i \in 1..k |-> <<v, n + i>>] = Whole(v, n + k)
<1>1. \A m \in Nat : Whole(v, m) \in Text /\ Len(Whole(v, m)) = m
  BY DEF Whole, Text
<1>2. ASSUME NEW k \in 0..n PROVE SubSeq(Whole(v, n), 1, k) = Whole(v, k)
  BY DEF Whole
<1>3. ASSUME NEW k \in Nat PROVE Whole(v, n) \o [i \in 1..k |-> <<v, n + i>>] = Whole(v, n + k)
  <2> DEFINE t == [i \in 1..k |-> <<v, n + i>>]
  <2>1. t \in Text /\ Len(t) = k /\ \A i \in 1..k : t[i] = <<v, n + i>>
    BY DEF Text
  <2> HIDE DEF t
  <2>2. Whole(v, n) \o t \in Text /\ Len(Whole(v, n) \o t) = n + k
    BY <1>1, <2>1 DEF Text
  <2>3. ASSUME NEW i \in 1..(n + k) PROVE (Whole(v, n) \o t)[i] = Whole(v, n + k)[i]
    <3>1. (Whole(v, n) \o t)[i] = IF i <= n THEN Whole(v, n)[i] ELSE t[i - n]
      <4>1. Whole(v, n) \in Text /\ Len(Whole(v, n)) = n
        BY <1>1
      <4>2. \A j \in 1..(Len(Whole(v, n)) + Len(t)) :
              (Whole(v, n) \o t)[j] =
                IF j <= Len(Whole(v, n)) THEN Whole(v, n)[j] ELSE t[j - Len(Whole(v, n))]
        BY ONLY <2>1, <4>1, ConcatProperties DEF Text
      <4> QED BY <2>1, <4>1, <4>2
    <3>2. i > n => i - n \in 1..k /\ n + (i - n) = i
      OBVIOUS
    <3> QED BY <2>1, <3>1, <3>2 DEF Whole
  <2>4. Whole(v, n + k) \in Text /\ Len(Whole(v, n + k)) = n + k
    BY <1>1
  <2>5. Whole(v, n) \o t = Whole(v, n + k)
    BY <2>2, <2>3, <2>4, SeqEqual DEF Text
  <2> QED BY <2>5 DEF t
<1> QED BY <1>1, <1>2, <1>3

\* A path, its directory and its name.
LEMMA PathParts ==
  ASSUME NEW p \in Path, NEW e
  PROVE  /\ Front(Append(p, e)) = p /\ Last(Append(p, e)) = e /\ Append(p, e) # <<>>
         /\ p # <<>> => Front(p) \in Path /\ Len(Front(p)) = Len(p) - 1 /\ Len(p) \in Nat \ {0}
<1>1. Front(Append(p, e)) = p /\ Last(Append(p, e)) = e /\ Append(p, e) # <<>>
  BY DEF Path, Front, Last
<1>2. p # <<>> => Front(p) \in Path /\ Len(Front(p)) = Len(p) - 1 /\ Len(p) \in Nat \ {0}
  <2> SUFFICES ASSUME p # <<>>
               PROVE  Front(p) \in Path /\ Len(Front(p)) = Len(p) - 1 /\ Len(p) \in Nat \ {0}
    OBVIOUS
  <2>1. Len(p) \in Nat \ {0}
    BY EmptySeq DEF Path
  <2>2. Len(p) - 1 \in Nat /\ Len(p) - 1 <= Len(p)
    BY <2>1
  <2>3. Front(p) = SubSeq(p, 1, Len(p) - 1)
    BY DEF Front
  <2> QED BY <2>1, <2>2, <2>3, FirstOf DEF Path
<1> QED BY <1>1, <1>2

LEMMA PrefixLength ==
  ASSUME NEW p \in Path, NEW q \in Path, IsPrefix(q, p)
  PROVE  Len(q) <= Len(p) /\ (Len(q) = Len(p) => q = p) /\ \A i \in 1..Len(q) : q[i] = p[i]
<1>1. Len(q) <= Len(p) /\ SubSeq(q, 1, Len(q)) = SubSeq(p, 1, Len(q))
  BY DEF IsPrefix
<1>2. SubSeq(q, 1, Len(q)) = q /\ (Len(q) = Len(p) => SubSeq(p, 1, Len(q)) = p)
  BY SubSeqFull DEF Path
<1>3. \A i \in 1..Len(q) : SubSeq(p, 1, Len(q))[i] = p[i]
  BY <1>1 DEF Path
<1> QED BY <1>1, <1>2, <1>3

\* A prefix of a path has its directory among the prefixes.
LEMMA PrefixFront ==
  ASSUME NEW p \in Path, NEW q \in Path, q # <<>>, IsPrefix(q, p)
  PROVE  IsPrefix(Front(q), p)
<1>1. Len(q) <= Len(p) /\ \A i \in 1..Len(q) : q[i] = p[i]
  BY PrefixLength
<1>2. Len(Front(q)) = Len(q) - 1 /\ \A i \in 1..(Len(q) - 1) : Front(q)[i] = q[i]
  <2>1. Len(q) \in Nat \ {0}
    BY EmptySeq DEF Path
  <2>2. Len(q) - 1 \in Nat /\ Len(q) - 1 <= Len(q)
    BY <2>1
  <2>3. Front(q) = SubSeq(q, 1, Len(q) - 1)
    BY DEF Front
  <2>4. \A n \in Nat : n <= Len(q) =>
          Len(SubSeq(q, 1, n)) = n /\ \A i \in 1..n : SubSeq(q, 1, n)[i] = q[i]
    BY FirstOf DEF Path
  <2> QED BY <2>2, <2>3, <2>4
<1>3. Front(q) \in Path /\ Len(q) \in Nat /\ Len(p) \in Nat /\ Len(q) > 0
  BY PathParts DEF Path
<1> DEFINE n == Len(q) - 1
<1>4. n \in Nat /\ n <= Len(p)
  BY <1>1, <1>3
<1>5. SubSeq(p, 1, n) \in Path /\ Len(SubSeq(p, 1, n)) = n /\ \A i \in 1..n : SubSeq(p, 1, n)[i] = p[i]
  BY <1>4, FirstOf DEF Path
<1>6. SubSeq(p, 1, n) = Front(q)
  BY <1>1, <1>2, <1>3, <1>5, SeqEqual DEF Path
<1>7. SubSeq(Front(q), 1, n) = Front(q)
  BY <1>2, <1>3, SubSeqFull DEF Path
<1> QED BY <1>2, <1>4, <1>6, <1>7 DEF IsPrefix

LEMMA PrefixSelf ==
  ASSUME NEW p \in Path
  PROVE  IsPrefix(p, p)
BY DEF IsPrefix, Path

-----------------------------------------------------------------------------
(* The tree of names. *)

LEMMA StringPaths ==
  ASSUME NEW p \in Seq(STRING)
  PROVE  p \in Path
BY SeqMonotonic DEF Path, Name

LEMMA PathsClosed ==
  ASSUME NEW p \in Paths
  PROVE  /\ p \in Path
         /\ p # <<>> => Front(p) \in Paths /\ Front(p) # p /\ Len(Front(p)) < Len(p)
<1>1. p \in Seq(STRING) /\ (p # <<>> => Front(p) \in Paths)
  BY FilesAssumption
<1>2. p \in Path /\ (p # <<>> => Front(p) \in Path)
  BY <1>1, StringPaths, PathParts
<1> QED BY <1>1, <1>2, PathParts DEF Path

\* mkdir -p changes no file.
LEMMA WithDirTree ==
  ASSUME Tree(dir), NEW p \in Path
  PROVE  /\ Tree(WithDir(p))
         /\ \A q \in Paths : WithDir(p)[q] \in Inodes \/ dir[q] \in Inodes => WithDir(p)[q] = dir[q]
         /\ CanMake(p) /\ p \in Paths =>
              /\ WithDir(p)[p] = Directory
              /\ \A q \in Paths : Len(q) > Len(p) => WithDir(p)[q] = dir[q]
<1>1. CASE ~CanMake(p)
  BY <1>1 DEF WithDir
<1>2. CASE CanMake(p)
  <2> DEFINE d == WithDir(p)
  <2>1. d = [q \in Paths |-> IF q \in Above(p) THEN Directory ELSE dir[q]]
    BY <1>2 DEF WithDir
  <2>2. \A q \in Paths : q \in Above(p) <=> IsPrefix(q, p)
    BY DEF Above
  <2>3. \A q \in Paths : IsPrefix(q, p) => dir[q] \notin Inodes
    BY <1>2, <2>2 DEF CanMake, IsFile
  <2>4. dir \in [Paths -> Inodes \cup {None, Directory}] /\ Directory \notin Inodes
    BY FilesAssumption DEF Tree
  <2> HIDE DEF d
  <2>5. d \in [Paths -> Inodes \cup {None, Directory}]
    BY <2>1, <2>4
  <2>6. \A q \in Paths : d[q] \in Inodes \/ dir[q] \in Inodes => d[q] = dir[q]
    BY <2>1, <2>2, <2>3, <2>4
  <2>7. \A q, r \in Paths : d[q] \in Inodes /\ d[q] = d[r] => q = r
    BY <2>4, <2>6 DEF Tree
  <2>8. ASSUME NEW q \in Paths, q # <<>>, d[q] # None
        PROVE  Front(q) \in Paths /\ d[Front(q)] = Directory
    <3>1. q \in Path /\ Front(q) \in Paths
      BY <2>8, PathsClosed
    <3>2. CASE IsPrefix(q, p)
      BY <2>1, <2>2, <2>8, <3>1, <3>2, PrefixFront
    <3>3. CASE ~IsPrefix(q, p)
      <4>1. dir[q] # None
        BY <2>1, <2>2, <2>8, <3>3
      <4>2. dir[Front(q)] = Directory
        BY <2>8, <4>1 DEF Tree
      <4> QED BY <2>1, <3>1, <4>2
    <3> QED BY <3>2, <3>3
  <2>9. ASSUME p \in Paths
        PROVE  d[p] = Directory /\ \A q \in Paths : Len(q) > Len(p) => d[q] = dir[q]
    <3>1. IsPrefix(p, p)
      BY PrefixSelf
    <3>2. ASSUME NEW q \in Paths, Len(q) > Len(p) PROVE ~IsPrefix(q, p)
      <4>1. q \in Path
        BY PathsClosed
      <4>2. Len(q) \in Nat /\ Len(p) \in Nat
        BY <4>1 DEF Path
      <4> QED BY <3>2, <4>1, <4>2, PrefixLength
    <3> QED BY <2>1, <2>2, <2>9, <3>1, <3>2
  <2>10. Tree(d)
    BY <2>5, <2>7, <2>8 DEF Tree
  <2> QED BY <2>6, <2>9, <2>10 DEF d
<1> QED BY <1>1, <1>2

\* open(O_CREAT) puts a file where there is none, or none other.
LEMMA PutFile ==
  ASSUME NEW d, Tree(d), NEW p \in Paths, p # <<>>, NEW i \in Inodes,
         d[p] # Directory, d[Front(p)] = Directory, \A q \in Paths : d[q] = i => q = p
  PROVE  Tree([d EXCEPT ![p] = i])
<1> DEFINE e == [d EXCEPT ![p] = i]
<1>1. d \in [Paths -> Inodes \cup {None, Directory}]
  BY DEF Tree
<1>2. e \in [Paths -> Inodes \cup {None, Directory}] /\ e[p] = i /\ \A q \in Paths : q # p => e[q] = d[q]
  BY <1>1
<1> HIDE DEF e
<1>3. \A q, r \in Paths : e[q] \in Inodes /\ e[q] = e[r] => q = r
  BY <1>2 DEF Tree
<1>4. ASSUME NEW q \in Paths, q # <<>>, e[q] # None
      PROVE  Front(q) \in Paths /\ e[Front(q)] = Directory
  <2>1. Front(q) \in Paths
    BY <1>4, PathsClosed
  <2>2. d[Front(q)] = Directory
    BY <1>2, <1>4 DEF Tree
  <2> QED BY <1>2, <2>1, <2>2
<1> QED BY <1>2, <1>3, <1>4 DEF Tree, e

\* unlink() takes a leaf.
LEMMA TakeFile ==
  ASSUME NEW d, Tree(d), NEW p \in Paths, d[p] \in Inodes
  PROVE  Tree([d EXCEPT ![p] = None])
<1> DEFINE e == [d EXCEPT ![p] = None]
<1>1. d \in [Paths -> Inodes \cup {None, Directory}] /\ None \notin Inodes /\ Directory \notin Inodes
  BY FilesAssumption DEF Tree
<1>2. e \in [Paths -> Inodes \cup {None, Directory}] /\ e[p] = None /\ \A q \in Paths : q # p => e[q] = d[q]
  BY <1>1
<1> HIDE DEF e
<1>3. \A q, r \in Paths : e[q] \in Inodes /\ e[q] = e[r] => q = r
  BY <1>1, <1>2 DEF Tree
<1>4. ASSUME NEW q \in Paths, q # <<>>, e[q] # None
      PROVE  Front(q) \in Paths /\ e[Front(q)] = Directory
  <2>1. Front(q) \in Paths /\ d[Front(q)] = Directory
    BY <1>2, <1>4 DEF Tree
  <2> QED BY <1>1, <1>2, <2>1
<1> QED BY <1>2, <1>3, <1>4 DEF Tree, e

-----------------------------------------------------------------------------
(* Types, and what an upload does to the names. *)

Types ==
  /\ data \in [Inodes -> Text] /\ fd \in [Clients -> Inodes \cup {None}]
  /\ pos \in [Clients -> Nat] /\ uploads \in 0..MaxUploads

LEMMA TypeParts ==
  ASSUME TypeOK
  PROVE  Tree(dir) /\ Types
BY DEF TypeOK, Tree, Types, Text, IsFile, IsDir

LEMMA PartsType ==
  ASSUME Tree(dir'), Types', UploadWell'
  PROVE  TypeOK'
BY DEF TypeOK, Tree, Types, Text, IsFile, IsDir, UploadWell

LEMMA UploadDirType ==
  ASSUME NEW l \in Locations
  PROVE  UploadDir(l) \in Path
<1>1. l.path \in Path /\ l.root \in Path
  BY FilesAssumption, StringPaths
<1>2. l.root \o l.path \in Path
  BY <1>1 DEF Path
<1>3. <<"www", "upload">> \in Path
  BY DEF Path, Name
<1> QED BY <1>2, <1>3 DEF UploadDir

LEMMA UploadPaths ==
  ASSUME NEW l \in Locations, NEW name \in FileNames
  PROVE  /\ UploadDir(l) \in Path /\ UploadPath(l, name) # <<>>
         /\ Front(UploadPath(l, name)) = UploadDir(l) /\ Last(UploadPath(l, name)) = Safe(name)
<1>1. UploadDir(l) \in Path
  BY UploadDirType
<1> QED BY <1>1, PathParts DEF UploadPath

\* The upload's name is of an inode that no other name has, and no response
\* unless the name had it before; the other files keep theirs.
LEMMA BeginUploadFacts ==
  ASSUME TypeOK, NEW l \in Locations, NEW name \in FileNames, NEW n \in Sizes,
         BeginUpload(l, name, n)
  PROVE  \E p \in Paths, i \in Inodes :
           /\ p = UploadPath(l, name) /\ dir'[p] = i /\ Tree(dir')
           /\ \A q \in Paths : q # p /\ (dir'[q] \in Inodes \/ dir[q] \in Inodes) => dir'[q] = dir[q]
           /\ \A q \in Paths : dir[q] = i => q = p
           /\ IF dir[p] \in Inodes THEN dir[p] = i ELSE \A c \in Clients : fd[c] # i
           /\ data' = [data EXCEPT ![i] = <<>>]
           /\ up' = [path |-> p, inode |-> i, size |-> n,
                     old |-> IF dir[p] \in Inodes THEN data[i] ELSE None]
<1> DEFINE p == UploadPath(l, name)
           w == WithDir(UploadDir(l))
<1>1. Tree(dir) /\ Types
  BY TypeParts
<1>2. UploadDir(l) \in Path /\ p # <<>> /\ Front(p) = UploadDir(l)
  BY UploadPaths
<1>3. p \in Paths /\ CanMake(UploadDir(l)) /\ dir[p] # Directory
  BY <1>2 DEF BeginUpload, CanOpen, IsDir
<1>4. UploadDir(l) \in Paths /\ Len(UploadDir(l)) < Len(p)
  BY <1>2, <1>3, PathsClosed
<1>5. PICK i \in (IF IsFile(p) THEN {dir[p]} ELSE Free) :
        /\ dir' = [w EXCEPT ![p] = i] /\ data' = Truncated(i)
        /\ up' = [path |-> p, inode |-> i, size |-> n,
                  old |-> IF IsFile(p) THEN data[i] ELSE None]
  BY DEF BeginUpload
<1>6. /\ i \in Inodes /\ \A q \in Paths : dir[q] = i => q = p
      /\ IF dir[p] \in Inodes THEN dir[p] = i ELSE \A c \in Clients : fd[c] # i
  BY <1>1, <1>3, <1>5 DEF IsFile, Free, Used, Tree
<1>7. /\ Tree(w) /\ w[UploadDir(l)] = Directory /\ w[p] = dir[p]
      /\ \A q \in Paths : w[q] \in Inodes \/ dir[q] \in Inodes => w[q] = dir[q]
  <2> HIDE DEF p
  <2> QED BY <1>1, <1>2, <1>3, <1>4, WithDirTree
<1> HIDE DEF p, w
<1>8. \A q \in Paths : w[q] = i => q = p
  BY <1>6, <1>7
<1>9. Tree(dir')
  BY <1>2, <1>3, <1>5, <1>6, <1>7, <1>8, PutFile
<1>10. w \in [Paths -> Inodes \cup {None, Directory}]
  BY <1>7 DEF Tree
<1>11. dir'[p] = i /\ \A q \in Paths : q # p => dir'[q] = w[q]
  BY <1>3, <1>5, <1>10
<1>12. /\ data' = [data EXCEPT ![i] = <<>>]
       /\ up' = [path |-> p, inode |-> i, size |-> n,
                 old |-> IF dir[p] \in Inodes THEN data[i] ELSE None]
  BY <1>3, <1>5 DEF Truncated, IsFile
<1> QED
  <2>1. \A q \in Paths : q # p /\ (dir'[q] \in Inodes \/ dir[q] \in Inodes) => dir'[q] = dir[q]
    BY <1>7, <1>11
  <2>2. p = UploadPath(l, name)
    BY DEF p
  <2> QED BY <1>3, <1>6, <1>9, <1>11, <1>12, <2>1, <2>2

-----------------------------------------------------------------------------
(* Every step keeps the invariant. *)

LEMMA NoInode ==
  ASSUME Idle
  PROVE  up.inode = None /\ None \notin Inodes
BY FilesAssumption DEF Idle, NoUpload

LEMMA EmptyText ==
  /\ <<>> \in Text /\ Len(<<>>) = 0
  /\ \A v \in 0..MaxUploads : Whole(v, 0) = <<>>
  /\ \A s \in Text : SubSeq(s, 1, 0) = <<>> /\ s # None /\ Len(s) \in Nat
  /\ None \notin Paths
<1>1. <<>> \in Text /\ Len(<<>>) = 0
  BY EmptySeq DEF Text
<1>2. \A v \in 0..MaxUploads : Whole(v, 0) = <<>>
  BY DEF Whole
<1>3. \A s \in Text : SubSeq(s, 1, 0) = <<>> /\ s # None /\ Len(s) \in Nat
  BY FilesAssumption, SubSeqEmpty DEF Text
<1> QED BY <1>1, <1>2, <1>3, FilesAssumption

LEMMA BeginUploadStep ==
  ASSUME IInv, NEW l \in Locations, NEW name \in FileNames, NEW n \in Sizes,
         BeginUpload(l, name, n)
  PROVE  IInv'
<1>1. Tree(dir) /\ Types /\ SavedWell /\ ResponsesWell /\ Idle
  BY TypeParts DEF IInv, BeginUpload
<1>2. PICK p \in Paths, i \in Inodes :
        /\ p = UploadPath(l, name) /\ dir'[p] = i /\ Tree(dir')
        /\ \A q \in Paths : q # p /\ (dir'[q] \in Inodes \/ dir[q] \in Inodes) => dir'[q] = dir[q]
        /\ \A q \in Paths : dir[q] = i => q = p
        /\ data' = [data EXCEPT ![i] = <<>>]
        /\ up' = [path |-> p, inode |-> i, size |-> n,
                  old |-> IF dir[p] \in Inodes THEN data[i] ELSE None]
  BY BeginUploadFacts DEF IInv
<1>3. /\ saved' = [saved EXCEPT ![p] = None] /\ uploads' = uploads + 1 /\ uploads < MaxUploads
      /\ UNCHANGED streams
  BY <1>2 DEF BeginUpload
<1>4. n \in Nat /\ None \notin Inodes /\ MaxUploads \in Nat
  BY FilesAssumption
<1>5. Types'
  BY <1>1, <1>2, <1>3, <1>4, EmptyText DEF Types, streams
<1>6. data' \in [Inodes -> Text] /\ data'[i] = <<>> /\ \A j \in Inodes : j # i => data'[j] = data[j]
  BY <1>1, <1>2, <1>5 DEF Types
<1>7. saved' \in [Paths -> Text \cup {None}] /\ saved'[p] = None
      /\ \A q \in Paths : q # p => saved'[q] = saved[q]
  BY <1>1, <1>3 DEF SavedWell
<1>8. up'.path = p /\ up'.inode = i /\ up'.size = n
  BY <1>2
<1>9. UploadWell'
  <2>1. IsUploadPath(p)
    BY <1>2 DEF IsUploadPath
  <2>2. Len(data'[i]) = 0 /\ data'[i] = Whole(uploads', 0)
    BY <1>5, <1>6, EmptyText DEF Types
  <2>3. 0 \in 0..n
    BY <1>4
  <2> QED BY <1>2, <1>7, <1>8, <2>1, <2>2, <2>3 DEF UploadWell, Written, IsUploadPath
<1>10. SavedWell'
  <2> SUFFICES ASSUME NEW q \in Paths, saved'[q] # None
               PROVE  /\ dir'[q] \in Inodes /\ data'[dir'[q]] = saved'[q]
                      /\ IsUploadPath(q)
    BY <1>7 DEF SavedWell, SavedWhole, Saved, IsFile, IsUploadPath
  <2>1. q # p /\ saved[q] # None /\ saved'[q] = saved[q]
    BY <1>7
  <2>2. dir[q] \in Inodes /\ data[dir[q]] = saved[q] /\ IsUploadPath(q)
    BY <1>1, <2>1 DEF SavedWell, SavedWhole, Saved, IsFile
  <2>3. dir'[q] = dir[q] /\ dir[q] # i
    BY <1>2, <2>1, <2>2
  <2> QED BY <1>6, <2>1, <2>2, <2>3
<1>11. ResponsesWell'
  <2>1. promise' = promise /\ got' = got /\ torn' = torn /\ fd' = fd /\ pos' = pos
    BY <1>3 DEF streams
  <2>2. ASSUME NEW c \in Clients, fd[c] # None, fd[c] # i, c \notin torn
        PROVE  /\ promise[c] = data'[fd[c]] /\ pos[c] <= Len(data'[fd[c]])
               /\ got[c] = SubSeq(data'[fd[c]], 1, pos[c])
    <3>1. fd[c] \in Inodes /\ fd[c] # up.inode
      BY <1>1, <2>2, NoInode DEF Types
    <3>2. data'[fd[c]] = data[fd[c]]
      BY <1>6, <2>2, <3>1
    <3> QED BY <1>1, <2>2, <3>1, <3>2 DEF ResponsesWell
  <2> QED BY <1>1, <1>8, <2>1, <2>2 DEF ResponsesWell
<1> QED BY <1>2, <1>5, <1>9, <1>10, <1>11, PartsType DEF IInv

LEMMA RefuseUploadStep ==
  ASSUME IInv, NEW l \in Locations, RefuseUpload(l)
  PROVE  IInv'
<1>1. /\ Tree(dir) /\ Types /\ SavedWell /\ ResponsesWell /\ Idle
      /\ dir' = WithDir(UploadDir(l)) /\ UNCHANGED <<data, fd, pos, promise, torn, got, up, uploads, saved>>
  BY TypeParts DEF IInv, RefuseUpload, streams
<1>2. UploadDir(l) \in Path
  BY UploadDirType
<1>3. Tree(dir') /\ \A q \in Paths : dir[q] \in Inodes => dir'[q] = dir[q]
  BY <1>1, <1>2, WithDirTree
<1>4. Types' /\ UploadWell' /\ ResponsesWell'
  BY <1>1 DEF Types, UploadWell, Idle, ResponsesWell
<1>5. SavedWell'
  BY <1>1, <1>3 DEF SavedWell, SavedWhole, Saved, IsFile, IsUploadPath
<1> QED BY <1>3, <1>4, <1>5, PartsType DEF IInv

\* write() appends the next bytes of the upload.
LEMMA WriteChunkFacts ==
  ASSUME IInv, NEW k \in 1..Chunk, WriteChunk(k)
  PROVE  /\ up.path \in Paths /\ up.inode \in Inodes /\ dir[up.path] = up.inode
         /\ Written + k \in 0..up.size /\ data'[up.inode] = Whole(uploads, Written + k)
         /\ Len(data'[up.inode]) = Written + k
         /\ data' \in [Inodes -> Text] /\ \A i \in Inodes : i # up.inode => data'[i] = data[i]
<1>1. /\ Types /\ ~Idle /\ up.path \in Paths /\ up.inode \in Inodes /\ dir[up.path] = up.inode
      /\ up.size \in Sizes /\ Written \in 0..up.size /\ data[up.inode] = Whole(uploads, Written)
  BY TypeParts DEF IInv, WriteChunk, UploadWell
<1>2. up.size \in Nat /\ k \in Nat /\ Written \in Nat /\ uploads \in 0..MaxUploads
  BY <1>1, FilesAssumption DEF Types
<1> DEFINE t == [i \in 1..k |-> <<uploads, Written + i>>]
<1>3. k <= up.size - Written /\ data' = [data EXCEPT ![up.inode] = data[up.inode] \o t]
  BY DEF WriteChunk
<1>4. Whole(uploads, Written) \o t = Whole(uploads, Written + k)
  BY <1>2, WholeText
<1> HIDE DEF t
<1>5. data' = [data EXCEPT ![up.inode] = Whole(uploads, Written + k)]
  BY <1>1, <1>3, <1>4
<1>6. Whole(uploads, Written + k) \in Text /\ Len(Whole(uploads, Written + k)) = Written + k
  <2>1. Written + k \in Nat /\ uploads \in 0..MaxUploads
    BY <1>2
  <2>2. \A v \in 0..MaxUploads, n \in Nat : Whole(v, n) \in Text /\ Len(Whole(v, n)) = n
    BY WholeText
  <2> QED BY <2>1, <2>2
<1>7. Written + k \in 0..up.size
  BY <1>1, <1>2, <1>3
<1> QED BY <1>1, <1>5, <1>6, <1>7 DEF Types

LEMMA WriteChunkStep ==
  ASSUME IInv, NEW k \in 1..Chunk, WriteChunk(k)
  PROVE  IInv'
<1>1. /\ Tree(dir) /\ Types /\ UploadWell /\ SavedWell /\ ResponsesWell /\ ~Idle
      /\ UNCHANGED <<dir, fd, pos, promise, torn, got, up, uploads, saved>>
  BY TypeParts DEF IInv, WriteChunk, streams
<1>2. /\ up.path \in Paths /\ up.inode \in Inodes /\ dir[up.path] = up.inode
      /\ Written + k \in 0..up.size /\ data'[up.inode] = Whole(uploads, Written + k)
      /\ Len(data'[up.inode]) = Written + k
      /\ data' \in [Inodes -> Text] /\ \A i \in Inodes : i # up.inode => data'[i] = data[i]
  BY WriteChunkFacts
<1>3. Tree(dir') /\ Types'
  BY <1>1, <1>2 DEF Types
<1>4. UploadWell'
  <2>1. Written' = Written + k
    BY <1>1, <1>2 DEF Written
  <2> QED BY <1>1, <1>2, <2>1 DEF UploadWell, IsUploadPath
<1>5. SavedWell'
  <2> SUFFICES ASSUME NEW q \in Paths, saved[q] # None
               PROVE  dir[q] \in Inodes /\ data'[dir[q]] = saved[q] /\ IsUploadPath(q)
    BY <1>1 DEF SavedWell, SavedWhole, Saved, IsFile, IsUploadPath
  <2>1. dir[q] \in Inodes /\ data[dir[q]] = saved[q] /\ IsUploadPath(q)
    BY <1>1 DEF SavedWell, SavedWhole, Saved, IsFile
  <2>2. dir[q] # up.inode
    BY <1>1, <1>2, <2>1 DEF UploadWell, Tree
  <2> QED BY <1>2, <2>1, <2>2
<1>6. ResponsesWell'
  <2>1. \A c \in Clients : fd[c] # None /\ fd[c] # up.inode => data'[fd[c]] = data[fd[c]]
    BY <1>1, <1>2 DEF Types
  <2> QED BY <1>1, <2>1 DEF ResponsesWell
<1> QED BY <1>3, <1>4, <1>5, <1>6, PartsType DEF IInv

\* An upload ends: what streams the file is torn from here on.
LEMMA UploadEndsStep ==
  ASSUME IInv, EndUpload \/ UploadFails
  PROVE  IInv'
<1>1. /\ Tree(dir) /\ Types /\ UploadWell /\ SavedWell /\ ResponsesWell /\ ~Idle
      /\ torn' = Overwritten(up.inode) /\ up' = NoUpload
      /\ UNCHANGED <<dir, data, fd, pos, promise, got, uploads>>
  BY TypeParts DEF IInv, EndUpload, UploadFails
<1>2. Tree(dir') /\ Types' /\ UploadWell'
  BY <1>1 DEF Types, UploadWell, Idle
<1>3. ResponsesWell'
  BY <1>1 DEF ResponsesWell, Overwritten
<1>4. CASE UploadFails
  <2>1. SavedWell'
    BY <1>1, <1>4 DEF UploadFails, SavedWell, SavedWhole, Saved, IsFile, IsUploadPath
  <2> QED BY <1>2, <1>3, <2>1, PartsType DEF IInv
<1>5. CASE EndUpload
  <2>1. /\ up.path \in Paths /\ up.inode \in Inodes /\ dir[up.path] = up.inode /\ IsUploadPath(up.path)
        /\ Written = up.size /\ data[up.inode] = Whole(uploads, up.size)
        /\ saved' = [saved EXCEPT ![up.path] = data[up.inode]]
    BY <1>1, <1>5 DEF UploadWell, EndUpload, AllWritten
  <2>2. data[up.inode] \in Text
    BY <1>1, <2>1 DEF Types
  <2>3. saved' \in [Paths -> Text \cup {None}] /\ saved'[up.path] = data[up.inode]
        /\ \A q \in Paths : q # up.path => saved'[q] = saved[q]
    BY <1>1, <2>1, <2>2 DEF SavedWell
  <2>4. SavedWell'
    <3> SUFFICES ASSUME NEW q \in Paths, saved'[q] # None
                 PROVE  dir[q] \in Inodes /\ data[dir[q]] = saved'[q] /\ IsUploadPath(q)
      BY <1>1, <2>3 DEF SavedWell, SavedWhole, Saved, IsFile, IsUploadPath
    <3> QED BY <1>1, <2>1, <2>3 DEF SavedWell, SavedWhole, Saved, IsFile
  <2> QED BY <1>2, <1>3, <2>4, PartsType DEF IInv
<1> QED BY <1>4, <1>5

LEMMA GetStep ==
  ASSUME IInv, NEW c \in Clients, NEW url \in Urls, Get(c, url)
  PROVE  IInv'
<1> DEFINE p == FileAt(ConstructFilePath(url))
<1>1. /\ Tree(dir) /\ Types /\ UploadWell /\ SavedWell /\ ResponsesWell /\ Idle
      /\ UNCHANGED <<dir, data, up, uploads, saved>>
  BY TypeParts DEF IInv, Get
<1>2. /\ p \in Paths /\ dir[p] \in Inodes
      /\ fd' = [fd EXCEPT ![c] = dir[p]] /\ pos' = [pos EXCEPT ![c] = 0]
      /\ promise' = [promise EXCEPT ![c] = data[dir[p]]]
      /\ torn' = torn \ {c} /\ got' = [got EXCEPT ![c] = <<>>]
  BY DEF Get, IsFile
<1> HIDE DEF p
<1>3. data[dir[p]] \in Text
  BY <1>1, <1>2 DEF Types
<1>4. Tree(dir') /\ Types' /\ UploadWell' /\ SavedWell'
  BY <1>1, <1>2 DEF Types, UploadWell, Idle, SavedWell, SavedWhole, Saved, IsFile, IsUploadPath
<1>5. ResponsesWell'
  <2>1. promise' \in [Clients -> Text] /\ got' \in [Clients -> Text] /\ torn' \subseteq Clients
    BY <1>1, <1>2, <1>3, EmptyText DEF ResponsesWell
  <2>2. ASSUME NEW b \in Clients, fd'[b] # None, fd'[b] # up.inode, b \notin torn'
        PROVE  /\ promise'[b] = data[fd'[b]] /\ pos'[b] <= Len(data[fd'[b]])
               /\ got'[b] = SubSeq(data[fd'[b]], 1, pos'[b])
    <3>1. CASE b = c
      <4>1. /\ fd'[b] = dir[p] /\ pos'[b] = 0 /\ promise'[b] = data[dir[p]] /\ got'[b] = <<>>
        BY <1>1, <1>2, <3>1 DEF Types, ResponsesWell
      <4>2. SubSeq(data[dir[p]], 1, 0) = <<>> /\ 0 <= Len(data[dir[p]])
        BY <1>3, EmptyText
      <4> QED BY <4>1, <4>2
    <3>2. CASE b # c
      BY <1>1, <1>2, <2>2, <3>2 DEF Types, ResponsesWell
    <3> QED BY <3>1, <3>2
  <2> QED BY <1>1, <2>1, <2>2 DEF ResponsesWell
<1> QED BY <1>4, <1>5, PartsType DEF IInv

\* read() gives the bytes that follow.
LEMMA StreamChunkFacts ==
  ASSUME IInv, NEW c \in Clients, StreamChunk(c)
  PROVE  \E s \in Text :
           /\ got' = [got EXCEPT ![c] = got[c] \o s]
           /\ ReadTo(c) \in Nat /\ ReadTo(c) <= Len(data[fd[c]])
           /\ SubSeq(data[fd[c]], 1, pos[c]) \o s = SubSeq(data[fd[c]], 1, ReadTo(c))
<1> DEFINE d == data[fd[c]]
           s == SubSeq(d, pos[c] + 1, ReadTo(c))
<1>1. /\ Types /\ fd[c] # None /\ pos[c] < Len(d) /\ got' = [got EXCEPT ![c] = got[c] \o s]
  BY TypeParts DEF IInv, StreamChunk
<1>2. d \in Text /\ pos[c] \in Nat /\ Len(d) \in Nat /\ Chunk \in Nat \ {0}
  BY <1>1, FilesAssumption, EmptyText DEF Types
<1>3. ReadTo(c) \in Nat /\ pos[c] + 1 <= ReadTo(c) /\ ReadTo(c) <= Len(d)
  BY <1>1, <1>2 DEF ReadTo
<1> HIDE DEF d
<1>4. s \in Text
  <2>1. \A i \in (pos[c] + 1)..ReadTo(c) : d[i] \in (0..MaxUploads) \X Nat
    BY <1>2, <1>3 DEF Text
  <2> QED BY <1>2, <1>3, <2>1, SubSeqProperties DEF Text
<1>5. SubSeq(d, 1, pos[c]) \o s = SubSeq(d, 1, ReadTo(c))
  <2>1. 1 \in 1..(Len(d) + 1) /\ pos[c] \in (1 - 1)..Len(d) /\ ReadTo(c) \in pos[c]..Len(d)
    BY <1>2, <1>3
  <2> QED BY <1>2, <2>1, ConcatAdjacentSubSeq DEF Text
<1> QED BY <1>1, <1>3, <1>4, <1>5 DEF d

LEMMA StreamChunkStep ==
  ASSUME IInv, NEW c \in Clients, StreamChunk(c)
  PROVE  IInv'
<1>1. /\ Tree(dir) /\ Types /\ UploadWell /\ SavedWell /\ ResponsesWell
      /\ UNCHANGED <<dir, data, fd, up, uploads, saved, promise, torn>>
      /\ pos' = [pos EXCEPT ![c] = ReadTo(c)]
  BY TypeParts DEF IInv, StreamChunk
<1>2. PICK s \in Text :
        /\ got' = [got EXCEPT ![c] = got[c] \o s]
        /\ ReadTo(c) \in Nat /\ ReadTo(c) <= Len(data[fd[c]])
        /\ SubSeq(data[fd[c]], 1, pos[c]) \o s = SubSeq(data[fd[c]], 1, ReadTo(c))
  BY StreamChunkFacts
<1>3. Tree(dir') /\ Types' /\ UploadWell' /\ SavedWell'
  BY <1>1, <1>2 DEF Types, UploadWell, Idle, Written, SavedWell, SavedWhole, Saved, IsFile, IsUploadPath
<1>4. ResponsesWell'
  <2>1. got' \in [Clients -> Text]
    <3>1. got[c] \in Text
      BY <1>1 DEF ResponsesWell
    <3>2. got[c] \o s \in Text
      BY <3>1, ConcatProperties DEF Text
    <3> QED BY <1>1, <1>2, <3>2 DEF ResponsesWell
  <2>2. got'[c] = got[c] \o s /\ pos'[c] = ReadTo(c)
        /\ \A b \in Clients : b # c => got'[b] = got[b] /\ pos'[b] = pos[b]
    BY <1>1, <1>2 DEF ResponsesWell, Types
  <2>3. ASSUME NEW b \in Clients, fd[b] # None, fd[b] # up.inode, b \notin torn
        PROVE  /\ promise[b] = data[fd[b]]
               /\ pos'[b] <= Len(data[fd[b]]) /\ got'[b] = SubSeq(data[fd[b]], 1, pos'[b])
    <3>1. /\ promise[b] = data[fd[b]]
          /\ pos[b] <= Len(data[fd[b]]) /\ got[b] = SubSeq(data[fd[b]], 1, pos[b])
      BY <1>1, <2>3 DEF ResponsesWell
    <3>2. CASE b = c
      BY <1>2, <2>2, <3>1, <3>2
    <3>3. CASE b # c
      BY <2>2, <3>1, <3>3
    <3> QED BY <3>2, <3>3
  <2> QED BY <1>1, <2>1, <2>3 DEF ResponsesWell
<1> QED BY <1>3, <1>4, PartsType DEF IInv

\* Responses end, and an upload may be cut short with them.
LEMMA DropStep ==
  ASSUME IInv, NEW C \in SUBSET Clients, Drop(C), torn' \in {torn, torn \cup C},
         up' = up \/ (up' = NoUpload /\ C = {c \in Clients : fd[c] # None}),
         UNCHANGED <<dir, data, uploads, saved>>
  PROVE  IInv'
<1>1. Tree(dir) /\ Types /\ UploadWell /\ SavedWell /\ ResponsesWell
  BY TypeParts DEF IInv
<1>2. Types' /\ promise' \in [Clients -> Text] /\ got' \in [Clients -> Text]
  BY <1>1, EmptyText DEF Drop, Types, ResponsesWell
<1>3. UploadWell'
  BY <1>1 DEF UploadWell, Idle, Written, IsUploadPath
<1>4. SavedWell'
  BY <1>1 DEF SavedWell, SavedWhole, Saved, IsFile, IsUploadPath
<1>5. \A c \in Clients : fd'[c] # None => /\ c \notin C /\ fd'[c] = fd[c] /\ pos'[c] = pos[c]
                                          /\ promise'[c] = promise[c] /\ got'[c] = got[c]
  BY DEF Drop
<1>6. ResponsesWell'
  <2>1. \A c \in Clients : fd'[c] # None => up' = up
    BY <1>5
  <2> QED BY <1>1, <1>2, <1>5, <2>1 DEF ResponsesWell
<1> QED BY <1>1, <1>2, <1>3, <1>4, <1>6, PartsType DEF IInv

LEMMA DeleteStep ==
  ASSUME IInv, NEW url \in Urls, Delete(url)
  PROVE  IInv'
<1> DEFINE p == ConstructFilePath(url)
<1>1. /\ Tree(dir) /\ Types /\ UploadWell /\ SavedWell /\ ResponsesWell /\ Idle
      /\ p \in Paths /\ dir[p] \in Inodes
      /\ dir' = [dir EXCEPT ![p] = None] /\ saved' = [saved EXCEPT ![p] = None]
      /\ UNCHANGED <<data, fd, pos, promise, torn, got, up, uploads>>
  BY TypeParts DEF IInv, Delete, streams, IsFile
<1> HIDE DEF p
<1>2. Tree(dir')
  BY <1>1, TakeFile
<1>3. Types' /\ UploadWell' /\ ResponsesWell'
  BY <1>1 DEF Types, UploadWell, Idle, ResponsesWell
<1>4. SavedWell'
  <2>1. dir \in [Paths -> Inodes \cup {None, Directory}]
    BY <1>1 DEF Tree
  <2> QED BY <1>1, <2>1 DEF SavedWell, SavedWhole, Saved, IsFile, IsUploadPath
<1> QED BY <1>2, <1>3, <1>4, PartsType DEF IInv

-----------------------------------------------------------------------------
(* The invariant is inductive. *)

LEMMA PlacedTree ==
  ASSUME Init
  PROVE  Tree(dir) /\ \A p \in DOMAIN Placed : Placed[p] \in Inodes
<1> DEFINE Above2(p) == \E q \in DOMAIN Placed : IsPrefix(p, q)
<1>1. /\ dir = [p \in Paths |-> IF p \in DOMAIN Placed THEN Placed[p]
                                ELSE IF p = <<>> \/ Above2(p) THEN Directory ELSE None]
      /\ DOMAIN Placed \subseteq Paths /\ \A p \in DOMAIN Placed : Placed[p] \in Inodes
      /\ None \notin Inodes /\ Directory \notin Inodes /\ None # Directory
      /\ \A p, q \in DOMAIN Placed : Placed[p] = Placed[q] \/ IsPrefix(p, q) => p = q
  BY FilesAssumption DEF Init
<1> HIDE DEF Above2
<1>2. \A p \in Paths : dir[p] = IF p \in DOMAIN Placed THEN Placed[p]
                                ELSE IF p = <<>> \/ Above2(p) THEN Directory ELSE None
  BY <1>1
<1>3. dir \in [Paths -> Inodes \cup {None, Directory}]
  BY <1>1
<1>4. \A p, q \in Paths : dir[p] \in Inodes /\ dir[p] = dir[q] => p = q
  BY <1>1, <1>2
<1>5. ASSUME NEW p \in Paths, p # <<>>, dir[p] # None
      PROVE  Front(p) \in Paths /\ dir[Front(p)] = Directory
  <2>1. p \in Path /\ Front(p) \in Paths /\ Len(Front(p)) < Len(p) /\ Front(p) \in Path
    BY <1>5, PathsClosed, PathParts
  <2>2. PICK q \in DOMAIN Placed : IsPrefix(p, q)
    <3>1. CASE p \in DOMAIN Placed
      BY <2>1, <3>1, PrefixSelf
    <3>2. CASE p \notin DOMAIN Placed
      BY <1>2, <1>5, <3>2 DEF Above2
    <3> QED BY <3>1, <3>2
  <2>3. q \in Path
    BY <1>1, PathsClosed
  <2>4. IsPrefix(Front(p), q)
    BY <1>5, <2>1, <2>2, <2>3, PrefixFront
  <2>5. Front(p) \notin DOMAIN Placed
    <3> SUFFICES ASSUME Front(p) \in DOMAIN Placed PROVE FALSE
      OBVIOUS
    <3>1. Front(p) = q
      BY <1>1, <2>4
    <3>2. Len(p) <= Len(q) /\ Len(p) \in Nat /\ Len(q) \in Nat
      BY <2>1, <2>2, <2>3, PrefixLength DEF Path
    <3> QED BY <2>1, <3>1, <3>2
  <2> QED BY <1>2, <2>1, <2>4, <2>5 DEF Above2
<1> QED BY <1>1, <1>3, <1>4, <1>5 DEF Tree

LEMMA InitIInv == Init => IInv
<1> SUFFICES ASSUME Init PROVE IInv
  OBVIOUS
<1>1. Tree(dir) /\ MaxUploads \in Nat /\ None \notin Inodes
  BY PlacedTree, FilesAssumption
<1>2. Types
  <2>1. Whole(0, 1) \in Text
    BY <1>1, WholeText
  <2>2. data \in [Inodes -> Text]
    BY <2>1, EmptyText DEF Init
  <2> QED BY <1>1, <2>2 DEF Init, Types
<1>3. UploadWell /\ SavedWell /\ Idle
  BY DEF Init, UploadWell, Idle, SavedWell, SavedWhole, Saved
<1>4. ResponsesWell
  BY EmptyText DEF Init, ResponsesWell
<1>5. TypeOK
  BY <1>1, <1>2, <1>3 DEF TypeOK, Tree, Types, Text, IsFile, IsDir
<1> QED BY <1>3, <1>4, <1>5 DEF IInv

LEMMA NextIInv ==
  ASSUME IInv, [Next]_vars
  PROVE  IInv'
<1>1. CASE UNCHANGED vars
  <2>1. Tree(dir') /\ Types' /\ UploadWell' /\ SavedWell' /\ ResponsesWell'
    BY <1>1, TypeParts DEF IInv, vars, Types, UploadWell, Idle, Written, SavedWell, SavedWhole,
       Saved, IsFile, IsUploadPath, ResponsesWell
  <2> QED BY <2>1, PartsType DEF IInv
<1>2. ASSUME NEW l \in Locations, RefuseUpload(l) PROVE IInv'
  BY <1>2, RefuseUploadStep
<1>3. ASSUME NEW l \in Locations, NEW name \in FileNames, NEW n \in Sizes, BeginUpload(l, name, n)
      PROVE  IInv'
  BY <1>3, BeginUploadStep
<1>4. ASSUME NEW k \in 1..Chunk, WriteChunk(k) PROVE IInv'
  BY <1>4, WriteChunkStep
<1>5. CASE EndUpload \/ UploadFails
  BY <1>5, UploadEndsStep
<1>6. ASSUME NEW c \in Clients, NEW url \in Urls, Get(c, url) PROVE IInv'
  BY <1>6, GetStep
<1>7. ASSUME NEW c \in Clients, StreamChunk(c) PROVE IInv'
  BY <1>7, StreamChunkStep
<1>8. ASSUME NEW c \in Clients, StreamEnd(c) \/ StreamFails(c) PROVE IInv'
  <2> DEFINE C == {c}
  <2>1. /\ C \in SUBSET Clients /\ Drop(C) /\ torn' \in {torn, torn \cup C} /\ up' = up
        /\ UNCHANGED <<dir, data, uploads, saved>>
    BY <1>8 DEF StreamEnd, StreamFails
  <2> HIDE DEF C
  <2> QED BY <2>1, DropStep
<1>9. ASSUME NEW url \in Urls, Delete(url) PROVE IInv'
  BY <1>9, DeleteStep
<1>10. CASE Crash
  <2> DEFINE C == {c \in Clients : fd[c] # None}
  <2>1. /\ C \in SUBSET Clients /\ Drop(C) /\ torn' \in {torn, torn \cup C} /\ up' = NoUpload
        /\ UNCHANGED <<dir, data, uploads, saved>>
    BY <1>10 DEF Crash
  <2> QED BY <2>1, DropStep
<1> QED BY <1>1, <1>2, <1>3, <1>4, <1>5, <1>6, <1>7, <1>8, <1>9, <1>10 DEF Next

LEMMA Invariance == Spec => []IInv
<1>1. Init => IInv
  BY InitIInv
<1>2. IInv /\ [Next]_vars => IInv'
  BY NextIInv
<1> QED BY <1>1, <1>2, PTL DEF Spec

\* Every variable keeps its type, no two names are of one file, and what there
\* is is in a directory (mkdir -p, open and unlink in FileHandler).
THEOREM TypeCorrect == Spec => []TypeOK
<1>1. IInv => TypeOK
  BY DEF IInv
<1> QED BY <1>1, Invariance, PTL

\* A file answered 201 that nothing touched since holds the whole upload
\* (handleFileUpload, saveUploadedFile).
THEOREM SavedStaysWhole == Spec => []SavedWhole
<1>1. IInv => SavedWhole
  BY DEF IInv, SavedWell
<1> QED BY <1>1, Invariance, PTL

-----------------------------------------------------------------------------
(* What is saved is found again. *)

Base(l) == IF Plain(l) THEN l.root \o l.path ELSE l.root
Rest(l, url) == SubSeq(UrlDecode(url), Len(l.path) + 1, Len(url))

\* What urlDecode makes of names.
Text2 == Name \cup {Decoded[x] : x \in Name}

LEMMA DecodedType ==
  ASSUME NEW url \in Path
  PROVE  UrlDecode(url) \in Seq(Text2) /\ Len(UrlDecode(url)) = Len(url)
         /\ \A i \in 1..Len(url) : UrlDecode(url)[i] = Decoded[url[i]]
<1>1. Len(url) \in Nat /\ DOMAIN url = 1..Len(url) /\ \A i \in 1..Len(url) : url[i] \in Name
  BY DEF Path
<1>2. \A i \in 1..Len(url) : Decoded[url[i]] \in Text2
  BY <1>1 DEF Text2
<1> QED BY <1>1, <1>2 DEF UrlDecode

\* A name that decoding leaves alone comes behind what else there is.
LEMMA RestAppend ==
  ASSUME NEW l \in Locations, NEW q \in Path, Len(l.path) <= Len(q),
         NEW e \in STRING, Decoded[e] = e
  PROVE  /\ Rest(l, q) \in Seq(Text2)
         /\ Rest(l, Append(q, e)) = Append(Rest(l, q), e)
<1> DEFINE u == Append(q, e)
           m == Len(l.path) + 1
           n == Len(q) + 1
           s == UrlDecode(q)
           t == UrlDecode(u)
<1>1. u \in Path /\ Len(u) = n /\ u[n] = e /\ \A i \in 1..Len(q) : u[i] = q[i]
  BY AppendProperties DEF Path, Name
<1>2. n \in Nat /\ m \in Nat /\ 1 <= m /\ m <= n /\ Len(q) = n - 1
  BY FilesAssumption DEF Path
<1> HIDE DEF u, m, n
<1>3. /\ s \in Seq(Text2) /\ Len(s) = Len(q) /\ t \in Seq(Text2) /\ Len(t) = n
      /\ t[n] = e /\ \A i \in 1..Len(q) : t[i] = s[i]
  BY <1>1, <1>2, DecodedType
<1> HIDE DEF s, t
<1>4. e \in Text2
  BY DEF Text2, Name
<1>5. SubSeq(s, m, Len(q)) \in Seq(Text2)
      /\ Len(SubSeq(s, m, Len(q))) = n - m
      /\ \A i \in 1..(n - m) : SubSeq(s, m, Len(q))[i] = s[m + i - 1]
  <2>1. \A i \in m..Len(q) : s[i] \in Text2
    BY <1>2, <1>3
  <2> QED BY <1>2, <2>1, SubSeqProperties
<1>6. SubSeq(t, m, n) \in Seq(Text2)
      /\ Len(SubSeq(t, m, n)) = n - m + 1
      /\ \A i \in 1..(n - m + 1) : SubSeq(t, m, n)[i] = t[m + i - 1]
  <2>1. \A i \in m..n : t[i] \in Text2
    BY <1>2, <1>3
  <2> QED BY <1>2, <2>1, SubSeqProperties
<1> DEFINE a == Append(SubSeq(s, m, Len(q)), e)
<1>7. a \in Seq(Text2) /\ Len(a) = n - m + 1 /\ a[n - m + 1] = e
      /\ \A i \in 1..(n - m) : a[i] = s[m + i - 1]
  BY <1>4, <1>5, AppendProperties
<1> HIDE DEF a
<1>8. \A i \in 1..(n - m + 1) : SubSeq(t, m, n)[i] = a[i]
  <2> TAKE i \in 1..(n - m + 1)
  <2>1. CASE i = n - m + 1
    BY <1>2, <1>3, <1>6, <1>7, <2>1
  <2>2. CASE i # n - m + 1
    <3>1. i \in 1..(n - m) /\ m + i - 1 \in 1..Len(q)
      BY <1>2, <2>2
    <3> QED BY <1>3, <1>6, <1>7, <3>1
  <2> QED BY <2>1, <2>2
<1>9. SubSeq(t, m, n) = a
  BY <1>6, <1>7, <1>8, SeqEqual
<1> QED BY <1>1, <1>5, <1>9 DEF Rest, u, m, n, s, t, a

LEMMA Uploaded ==
  ASSUME NEW l \in Locations, NEW name \in FileNames
  PROVE  /\ Safe(name) \in STRING /\ Decoded[Safe(name)] = Safe(name)
         /\ l.path \in Path /\ l.root \in Path
BY NamesAssumption, FilesAssumption, StringPaths DEF Safe

\* A file is found at its location under its name when the directory is made of
\* the same parts.
LEMMA FoundAgain ==
  ASSUME NEW l \in Locations, NEW name \in FileNames, Route(Append(l.path, Safe(name))) = l
  PROVE  (l.root # <<>> /\ Plain(l))
           <=> ConstructFilePath(Append(l.path, Safe(name))) = UploadPath(l, name)
<1> DEFINE e == Safe(name)
           url == Append(l.path, e)
<1>1. e \in STRING /\ Decoded[e] = e /\ l.path \in Path /\ l.root \in Path
  BY Uploaded
<1>2. ConstructFilePath(url) = Base(l) \o Rest(l, url)
  BY DEF ConstructFilePath, Base, Rest
<1> HIDE DEF e
<1>3. Rest(l, url) = <<e>>
  <2>1. Rest(l, l.path) = <<>>
    BY <1>1, DecodedType, SubSeqEmpty DEF Rest, Path
  <2>2. Rest(l, url) = Append(Rest(l, l.path), e)
    BY <1>1, RestAppend DEF Path
  <2> QED BY <2>1, <2>2
<1>4. e \in Name /\ Base(l) \in Path /\ UploadDir(l) \in Path
  BY <1>1, UploadPaths DEF Name, Path, Base
<1>5. ConstructFilePath(url) = Append(Base(l), e)
  BY <1>2, <1>3, <1>4, AppendIsConcat DEF Path
<1>6. ConstructFilePath(url) = Append(UploadDir(l), e) <=> Base(l) = UploadDir(l)
  BY <1>4, <1>5, AppendInjective DEF Path
<1>7. (l.root # <<>> /\ Plain(l)) <=> Base(l) = UploadDir(l)
  <2>1. CASE l.root # <<>>
    <3>1. l.root = l.root \o l.path => l.path = <<>>
      <4>1. \A q, r \in Seq(Name) : q \o r = q => r = <<>>
        BY ConcatEqualIffEmpty
      <4> QED BY <1>1, <4>1 DEF Path
    <3>2. ~Plain(l) => l.path # <<>>
      BY DEF Plain
    <3> QED BY <2>1, <3>1, <3>2 DEF Base, UploadDir
  <2>2. CASE l.root = <<>>
    <3>1. Base(l) = <<>>
      <4>1. Plain(l) => l.path = <<>>
        BY <2>2 DEF Plain
      <4> QED BY <1>1, <2>2, <4>1, ConcatEmptySeq DEF Base, Path
    <3> QED BY <2>2, <3>1 DEF UploadDir
  <2> QED BY <2>1, <2>2
<1> QED BY <1>6, <1>7 DEF UploadPath, e

\* getLocation finds a location block for every URL that has one.
LEMMA RouteFound ==
  ASSUME NEW url \in Urls
  PROVE  Route(url) \in Locations /\ Len(Route(url).path) <= Len(url)
<1> DEFINE begins == {l \in Locations : IsPrefix(l.path, url)}
           F == {Len(l.path) : l \in begins}
<1>1. begins # {} /\ url \in Path /\ Len(url) \in Nat
  BY NamesAssumption, FilesAssumption, StringPaths DEF Path
<1>2. \A l \in begins : l \in Locations /\ Len(l.path) \in 0..Len(url)
  BY <1>1, FilesAssumption DEF IsPrefix
<1>3. F \in SUBSET (0..Len(url)) /\ F # {}
  BY <1>1, <1>2
<1>4. PICK n \in F : \A k \in F : k <= n
  <2> HIDE DEF F
  <2> QED BY <1>1, <1>3, GreatestExists
<1>5. \E l \in begins : \A m \in begins : Len(m.path) <= Len(l.path)
  BY <1>4
<1>6. Route(url) \in begins
  <2> HIDE DEF F
  <2> QED BY <1>5 DEF Route
<1> QED BY <1>1, <1>2, <1>6

\* The link of an entry is decoded once more than the entry's name, which
\* changes nothing of a name that was uploaded.
LEMMA LinkLeads ==
  ASSUME NEW url \in Urls, NEW p, IsUploadPath(p), ConstructFilePath(url) = Front(p),
         Route(Link(url, Last(p))) = Route(url)
  PROVE  ConstructFilePath(Link(url, Last(p))) = p
<1>1. PICK k \in Locations, name \in FileNames : p = UploadPath(k, name)
  BY DEF IsUploadPath
<1> DEFINE e == Safe(name)
           l == Route(url)
<1>2. e \in STRING /\ Decoded[e] = e /\ UploadDir(k) \in Path /\ Front(p) = UploadDir(k) /\ Last(p) = e
  BY <1>1, Uploaded, UploadPaths
<1>3. Link(url, Last(p)) = Append(url, e)
  BY <1>2 DEF Link
<1> HIDE DEF e
<1>4. l \in Locations /\ Len(l.path) <= Len(url) /\ url \in Path
  BY RouteFound, FilesAssumption, StringPaths
<1>5. ConstructFilePath(url) = Base(l) \o Rest(l, url)
  BY DEF ConstructFilePath, Base, Rest
<1>6. ConstructFilePath(Append(url, e)) = Base(l) \o Rest(l, Append(url, e))
  BY <1>3 DEF ConstructFilePath, Base, Rest
<1> HIDE DEF l
<1>7. Rest(l, url) \in Seq(Text2) /\ Rest(l, Append(url, e)) = Append(Rest(l, url), e)
  BY <1>2, <1>4, RestAppend
<1>8. Base(l) \in Seq(Text2) /\ e \in Text2
  <2>1. Base(l) \in Path
    BY <1>4, FilesAssumption, StringPaths DEF Base, Path
  <2> QED BY <1>2, <2>1, SeqMonotonic DEF Path, Text2, Name
<1>9. Base(l) \o Append(Rest(l, url), e) = Append(Base(l) \o Rest(l, url), e)
  <2>1. Append(Rest(l, url), e) = Rest(l, url) \o <<e>>
    BY <1>7, <1>8, AppendIsConcat
  <2>2. Base(l) \o Rest(l, url) \in Seq(Text2) /\ <<e>> \in Seq(Text2)
    BY <1>7, <1>8, ConcatProperties
  <2>3. Append(Base(l) \o Rest(l, url), e) = (Base(l) \o Rest(l, url)) \o <<e>>
    BY <1>8, <2>2, AppendIsConcat
  <2> QED BY <1>7, <1>8, <2>1, <2>2, <2>3, ConcatAssociative
<1> QED BY <1>1, <1>2, <1>3, <1>5, <1>6, <1>7, <1>9 DEF UploadPath, e

\* What was uploaded is fetched and deleted under its name exactly where the
\* location path is "/" or the root "www" (constructFilePath).
THEOREM SavedIsRetrievable == Spec => []Retrievable
<1>1. Retrievable
  BY FoundAgain DEF Retrievable
<1> QED BY <1>1, PTL

\* The links and delete buttons of uploaded files in a listing are their own
\* (createListingBody, sanitizeFilename).
THEOREM LinksAreTheFiles == Spec => []LinksLead
<1>1. IInv => LinksLead
  BY LinkLeads DEF IInv, SavedWell, LinksLead, Saved
<1> QED BY <1>1, Invariance, PTL

-----------------------------------------------------------------------------
(* Files implements FileStore. *)

\* Where the file of a response is found, before a step and after it.
LEMMA FoundIs ==
  ASSUME Tree(dir), NEW c \in Clients
  PROVE  /\ \A p \in Paths : dir[p] \in Inodes /\ dir[p] = fd[c] => Found[c] = p
         /\ (\A p \in Paths : ~(dir[p] \in Inodes /\ dir[p] = fd[c])) => Found[c] = None
<1>1. ASSUME NEW p \in Paths, dir[p] \in Inodes, dir[p] = fd[c] PROVE Found[c] = p
  <2>1. \A q \in Paths : IsFile(q) /\ dir[q] = fd[c] <=> q = p
    BY <1>1 DEF Tree, IsFile
  <2> QED BY <2>1 DEF Found
<1>2. ASSUME \A p \in Paths : ~(dir[p] \in Inodes /\ dir[p] = fd[c]) PROVE Found[c] = None
  BY <1>2 DEF Found, IsFile
<1> QED BY <1>1, <1>2

LEMMA FoundIsNext ==
  ASSUME Tree(dir'), NEW c \in Clients
  PROVE  /\ \A p \in Paths : dir'[p] \in Inodes /\ dir'[p] = fd'[c] => Found'[c] = p
         /\ (\A p \in Paths : ~(dir'[p] \in Inodes /\ dir'[p] = fd'[c])) => Found'[c] = None
<1>1. ASSUME NEW p \in Paths, dir'[p] \in Inodes, dir'[p] = fd'[c] PROVE Found'[c] = p
  <2>1. \A q \in Paths : IsFile(q)' /\ dir'[q] = fd'[c] <=> q = p
    BY <1>1 DEF Tree, IsFile
  <2> QED BY <2>1 DEF Found, IsFile
<1>2. ASSUME \A p \in Paths : ~(dir'[p] \in Inodes /\ dir'[p] = fd'[c]) PROVE Found'[c] = None
  BY <1>2 DEF Found, IsFile
<1> QED BY <1>1, <1>2

LEMMA SameFound ==
  ASSUME Tree(dir), Tree(dir'), NEW c \in Clients,
         \A p \in Paths : (dir[p] \in Inodes /\ dir[p] = fd[c])
                            <=> (dir'[p] \in Inodes /\ dir'[p] = fd'[c])
  PROVE  Found'[c] = Found[c]
<1>1. CASE \E p \in Paths : dir[p] \in Inodes /\ dir[p] = fd[c]
  <2>1. PICK p \in Paths : dir[p] \in Inodes /\ dir[p] = fd[c]
    BY <1>1
  <2> QED BY <2>1, FoundIs, FoundIsNext
<1>2. CASE \A p \in Paths : ~(dir[p] \in Inodes /\ dir[p] = fd[c])
  BY <1>2, FoundIs, FoundIsNext
<1> QED BY <1>1, <1>2

\* What is stored, before a step and after it.
LEMMA StoredIs ==
  ASSUME NEW p \in Paths
  PROVE  /\ Stored[p] = IF ~Idle /\ p = up.path THEN up.old
                        ELSE IF dir[p] \in Inodes THEN data[dir[p]] ELSE None
         /\ Stored'[p] = IF up' # NoUpload /\ p = up'.path THEN up'.old
                         ELSE IF dir'[p] \in Inodes THEN data'[dir'[p]] ELSE None
BY DEF Stored, IsFile, Idle

LEMMA FunctionsOf ==
  /\ DOMAIN Stored = Paths /\ Stored = [p \in Paths |-> Stored[p]]
  /\ DOMAIN Stored' = Paths /\ Stored' = [p \in Paths |-> Stored'[p]]
  /\ DOMAIN Found = Clients /\ Found = [c \in Clients |-> Found[c]]
  /\ DOMAIN Found' = Clients /\ Found' = [c \in Clients |-> Found'[c]]
BY DEF Stored, Found, IsFile, Idle

\* The steps of an upload before its end change nothing that a client sees.
Stutter == UNCHANGED <<Stored, Serving, Found, promise, torn, got>>

LEMMA BeginUploadHidden ==
  ASSUME IInv, NEW l \in Locations, NEW name \in FileNames, NEW n \in Sizes,
         BeginUpload(l, name, n)
  PROVE  Stutter
<1>1. Tree(dir) /\ Types /\ Idle /\ UNCHANGED <<fd, pos, promise, torn, got>> /\ None \notin Inodes
  BY TypeParts, FilesAssumption DEF IInv, BeginUpload, streams
<1>2. PICK p \in Paths, i \in Inodes :
        /\ dir'[p] = i /\ Tree(dir')
        /\ \A q \in Paths : q # p /\ (dir'[q] \in Inodes \/ dir[q] \in Inodes) => dir'[q] = dir[q]
        /\ \A q \in Paths : dir[q] = i => q = p
        /\ IF dir[p] \in Inodes THEN dir[p] = i ELSE \A c \in Clients : fd[c] # i
        /\ data' = [data EXCEPT ![i] = <<>>]
        /\ up' = [path |-> p, inode |-> i, size |-> n,
                  old |-> IF dir[p] \in Inodes THEN data[i] ELSE None]
  BY BeginUploadFacts DEF IInv
<1>3. up' # NoUpload /\ up'.path = p /\ up'.old = IF dir[p] \in Inodes THEN data[i] ELSE None
  <2>1. up'.inode = i /\ up'.path = p /\ up'.old = IF dir[p] \in Inodes THEN data[i] ELSE None
    BY <1>2
  <2>2. NoUpload.inode = None
    BY DEF NoUpload
  <2> QED BY <1>1, <2>1, <2>2
<1>4. \A q \in Paths : Stored'[q] = Stored[q]
  <2> TAKE q \in Paths
  <2>1. CASE q = p
    BY <1>1, <1>2, <1>3, <2>1, StoredIs
  <2>2. CASE q # p
    <3>1. dir'[q] \in Inodes => dir'[q] = dir[q] /\ dir[q] # i /\ data'[dir'[q]] = data[dir[q]]
      BY <1>1, <1>2, <2>2 DEF Types
    <3> QED BY <1>1, <1>2, <1>3, <2>2, <3>1, StoredIs
  <2> QED BY <2>1, <2>2
<1>5. \A c \in Clients : Found'[c] = Found[c]
  <2> TAKE c \in Clients
  <2>1. \A q \in Paths : (dir[q] \in Inodes /\ dir[q] = fd[c])
                           <=> (dir'[q] \in Inodes /\ dir'[q] = fd'[c])
    BY <1>1, <1>2
  <2> QED BY <1>1, <1>2, <2>1, SameFound
<1> QED BY <1>1, <1>4, <1>5, FunctionsOf DEF Stutter, Serving

LEMMA RefuseUploadHidden ==
  ASSUME IInv, NEW l \in Locations, RefuseUpload(l)
  PROVE  Stutter
<1>1. /\ Tree(dir) /\ Idle /\ dir' = WithDir(UploadDir(l))
      /\ UNCHANGED <<fd, pos, promise, torn, got, data, up>>
  BY TypeParts DEF IInv, RefuseUpload, streams
<1>2. UploadDir(l) \in Path
  BY UploadDirType
<1>3. Tree(dir') /\ \A q \in Paths : dir'[q] \in Inodes \/ dir[q] \in Inodes => dir'[q] = dir[q]
  BY <1>1, <1>2, WithDirTree
<1>4. \A q \in Paths : Stored'[q] = Stored[q]
  BY <1>1, <1>3, StoredIs DEF Idle
<1>5. \A c \in Clients : Found'[c] = Found[c]
  BY <1>1, <1>3, SameFound
<1> QED BY <1>1, <1>4, <1>5, FunctionsOf DEF Stutter, Serving

LEMMA WriteChunkHidden ==
  ASSUME IInv, NEW k \in 1..Chunk, WriteChunk(k)
  PROVE  Stutter
<1>1. /\ Tree(dir) /\ Types /\ ~Idle /\ UNCHANGED <<dir, fd, pos, promise, torn, got, up>>
  BY TypeParts DEF IInv, WriteChunk, streams
<1>2. /\ up.path \in Paths /\ up.inode \in Inodes /\ dir[up.path] = up.inode
      /\ \A i \in Inodes : i # up.inode => data'[i] = data[i]
  BY WriteChunkFacts
<1>3. \A q \in Paths : Stored'[q] = Stored[q]
  <2> TAKE q \in Paths
  <2>1. CASE q = up.path
    BY <1>1, <2>1, StoredIs DEF Idle
  <2>2. CASE q # up.path
    <3>1. dir[q] \in Inodes => dir[q] # up.inode
      BY <1>1, <1>2, <2>2 DEF Tree
    <3> QED BY <1>1, <1>2, <2>2, <3>1, StoredIs DEF Idle
  <2> QED BY <2>1, <2>2
<1>4. \A c \in Clients : Found'[c] = Found[c]
  BY <1>1, SameFound
<1> QED BY <1>1, <1>3, <1>4, FunctionsOf DEF Stutter, Serving

LEMMA GetBegins ==
  ASSUME IInv, NEW c \in Clients, NEW url \in Urls, Get(c, url)
  PROVE  \E p \in Paths : Store!Begin(c, p)
<1> DEFINE p == FileAt(ConstructFilePath(url))
<1>1. /\ Tree(dir) /\ Types /\ Idle /\ None \notin Inodes /\ fd[c] = None
      /\ UNCHANGED <<dir, data, up>>
  BY TypeParts, FilesAssumption DEF IInv, Get
<1>2. /\ p \in Paths /\ dir[p] \in Inodes
      /\ fd' = [fd EXCEPT ![c] = dir[p]]
      /\ promise' = [promise EXCEPT ![c] = data[dir[p]]]
      /\ torn' = torn \ {c} /\ got' = [got EXCEPT ![c] = <<>>]
  BY DEF Get, IsFile
<1> HIDE DEF p
<1>3. Stored[p] = data[dir[p]] /\ Stored[p] # None
  <2>1. data[dir[p]] \in Text
    BY <1>1, <1>2 DEF Types
  <2> QED BY <1>1, <1>2, <2>1, StoredIs, EmptyText
<1>4. Stored' = Stored
  BY <1>1, StoredIs, FunctionsOf DEF Idle
<1>5. c \notin Serving /\ Serving' = Serving \cup {c}
  BY <1>1, <1>2 DEF Serving, Types
<1>6. Found' = [Found EXCEPT ![c] = p]
  <2>1. fd'[c] = dir[p] /\ \A b \in Clients : b # c => fd'[b] = fd[b]
    BY <1>1, <1>2 DEF Types
  <2>2. Found'[c] = p
    BY <1>1, <1>2, <2>1, FoundIsNext
  <2>3. ASSUME NEW b \in Clients, b # c PROVE Found'[b] = Found[b]
    BY <1>1, <2>1, <2>3, SameFound
  <2> QED BY <2>2, <2>3, FunctionsOf
<1> QED BY <1>2, <1>3, <1>4, <1>5, <1>6 DEF Store!Begin

\* The bytes that are appended are what the client's text has more.
LEMMA AppendedText ==
  ASSUME NEW a \in Text, NEW s \in Text
  PROVE  SubSeq(a \o s, Len(a) + 1, Len(a \o s)) = s
<1>1. a \o s \in Text /\ Len(a \o s) = Len(a) + Len(s) /\ Len(a) \in Nat /\ Len(s) \in Nat
  BY ConcatProperties, EmptyText DEF Text
<1>2. CASE Len(s) = 0
  <2>1. s = <<>>
    BY <1>2, EmptySeq DEF Text
  <2> QED BY <1>1, <1>2, <2>1, SubSeqEmpty
<1>3. CASE Len(s) # 0
  <2>1. /\ Len(a) + 1 \in (Len(a) + 1)..(Len(a) + Len(s))
        /\ Len(a) + Len(s) \in (Len(a) + 1)..(Len(a) + Len(s))
    BY <1>1, <1>3
  <2>2. SubSeq(a \o s, Len(a) + 1, Len(a) + Len(s)) = SubSeq(s, 1, Len(s))
    <3>1. Len(a) + 1 - Len(a) = 1 /\ Len(a) + Len(s) - Len(a) = Len(s)
      BY <1>1
    <3> QED BY <2>1, <3>1, SubSeqOfConcat2 DEF Text
  <2> QED BY <1>1, <2>2, SubSeqFull DEF Text
<1> QED BY <1>2, <1>3

LEMMA StreamChunkDelivers ==
  ASSUME IInv, NEW c \in Clients, StreamChunk(c)
  PROVE  Store!Deliver(c, SubSeq(got'[c], Len(got[c]) + 1, Len(got'[c])))
<1>1. /\ Tree(dir) /\ Types /\ ResponsesWell /\ Idle /\ fd[c] # None
      /\ UNCHANGED <<dir, data, fd, up, promise, torn>>
  BY TypeParts DEF IInv, StreamChunk
<1>2. PICK s \in Text :
        /\ got' = [got EXCEPT ![c] = got[c] \o s]
        /\ ReadTo(c) \in Nat /\ ReadTo(c) <= Len(data[fd[c]])
        /\ SubSeq(data[fd[c]], 1, pos[c]) \o s = SubSeq(data[fd[c]], 1, ReadTo(c))
  BY StreamChunkFacts
<1>3. got[c] \in Text /\ got'[c] = got[c] \o s
  BY <1>1, <1>2 DEF ResponsesWell
<1>4. SubSeq(got'[c], Len(got[c]) + 1, Len(got'[c])) = s
  BY <1>3, AppendedText
<1>5. c \in torn \/ Store!IsPrefix(got[c] \o s, promise[c])
  <2> SUFFICES ASSUME c \notin torn PROVE Store!IsPrefix(got[c] \o s, promise[c])
    OBVIOUS
  <2> DEFINE d == data[fd[c]]
             n == ReadTo(c)
  <2>1. fd[c] \in Inodes /\ fd[c] # up.inode
    BY <1>1, NoInode DEF Types
  <2>2. promise[c] = d /\ got[c] \o s = SubSeq(d, 1, n) /\ d \in Text
    BY <1>1, <1>2, <2>1 DEF ResponsesWell, Types
  <2>3. n \in Nat /\ n <= Len(d)
    BY <1>2
  <2> HIDE DEF d, n
  <2>4. SubSeq(d, 1, n) \in Text /\ Len(SubSeq(d, 1, n)) = n
    BY <2>2, <2>3, FirstOf DEF Text
  <2>5. SubSeq(SubSeq(d, 1, n), 1, n) = SubSeq(d, 1, n)
    BY <2>4, SubSeqFull DEF Text
  <2> QED BY <2>2, <2>3, <2>4, <2>5 DEF Store!IsPrefix
<1>6. Stored' = Stored /\ Serving' = Serving
  BY <1>1, StoredIs, FunctionsOf DEF Idle, Serving
<1>7. Found' = Found
  BY <1>1, SameFound, FunctionsOf
<1>8. c \in Serving
  BY <1>1 DEF Serving
<1>9. Store!Deliver(c, s)
  BY <1>1, <1>2, <1>5, <1>6, <1>7, <1>8 DEF Store!Deliver
<1> QED BY ONLY <1>4, <1>9

LEMMA DropEnds ==
  ASSUME IInv, NEW C \in SUBSET Serving, Drop(C), UNCHANGED dir
  PROVE  Store!Ended(C)
<1>1. Tree(dir) /\ Types /\ None \notin Inodes /\ C \subseteq Clients
  BY TypeParts, FilesAssumption DEF IInv, Serving
<1>2. \A c \in Clients : fd'[c] = IF c \in C THEN None ELSE fd[c]
  BY DEF Drop
<1>3. Serving' = Serving \ C
  BY <1>2 DEF Serving
<1>4. \A c \in Clients : Found'[c] = IF c \in C THEN None ELSE Found[c]
  <2> TAKE c \in Clients
  <2>1. CASE c \in C
    BY <1>1, <1>2, <2>1, FoundIsNext
  <2>2. CASE c \notin C
    BY <1>1, <1>2, <2>2, SameFound
  <2> QED BY <2>1, <2>2
<1>5. Found' = [c \in Clients |-> IF c \in C THEN None ELSE Found[c]]
  BY <1>4, FunctionsOf
<1> QED BY <1>3, <1>5 DEF Store!Ended, Drop

LEMMA StreamEndFinishes ==
  ASSUME IInv, NEW c \in Clients, StreamEnd(c)
  PROVE  Store!Finish(c)
<1>1. /\ Types /\ ResponsesWell /\ Idle /\ fd[c] # None /\ AtEnd(c) /\ Drop({c})
      /\ UNCHANGED <<dir, data, up, torn>>
  BY TypeParts DEF IInv, StreamEnd
<1>2. Store!Ended({c})
  <2> DEFINE C == {c}
  <2>1. C \in SUBSET Serving /\ Drop(C)
    BY <1>1 DEF Serving
  <2> HIDE DEF C
  <2>2. Store!Ended(C)
    BY <1>1, <2>1, DropEnds
  <2> QED BY <2>2 DEF C
<1>3. Stored' = Stored
  BY <1>1, StoredIs, FunctionsOf DEF Idle
<1>4. c \in torn \/ got[c] = promise[c]
  <2> SUFFICES ASSUME c \notin torn PROVE got[c] = promise[c]
    OBVIOUS
  <2>1. fd[c] \in Inodes /\ fd[c] # up.inode
    BY <1>1, NoInode DEF Types
  <2>2. /\ promise[c] = data[fd[c]] /\ data[fd[c]] \in Text
        /\ pos[c] = Len(data[fd[c]]) /\ got[c] = SubSeq(data[fd[c]], 1, pos[c])
    BY <1>1, <2>1, EmptyText DEF ResponsesWell, Types, AtEnd
  <2> QED BY <2>2, SubSeqFull DEF Text
<1> QED BY <1>1, <1>2, <1>3, <1>4 DEF Store!Finish

LEMMA StreamFailsAborts ==
  ASSUME IInv, NEW c \in Clients, StreamFails(c)
  PROVE  Store!Abort({c})
<1>1. /\ Idle /\ fd[c] # None /\ Drop({c}) /\ torn' = torn \cup {c}
      /\ UNCHANGED <<dir, data, up>>
  BY DEF StreamFails
<1>2. Store!Ended({c})
  <2> DEFINE C == {c}
  <2>1. C \in SUBSET Serving /\ Drop(C)
    BY <1>1 DEF Serving
  <2> HIDE DEF C
  <2>2. Store!Ended(C)
    BY <1>1, <2>1, DropEnds
  <2> QED BY <2>2 DEF C
<1>3. Stored' = Stored
  BY <1>1, StoredIs, FunctionsOf DEF Idle
<1> QED BY <1>1, <1>2, <1>3 DEF Store!Abort

LEMMA DeleteUnlinks ==
  ASSUME IInv, NEW url \in Urls, Delete(url)
  PROVE  \E p \in Paths : Store!Unlink(p)
<1> DEFINE p == ConstructFilePath(url)
<1>1. /\ Tree(dir) /\ Types /\ Idle /\ None \notin Inodes /\ None \notin Paths
      /\ p \in Paths /\ dir[p] \in Inodes /\ dir' = [dir EXCEPT ![p] = None]
      /\ UNCHANGED <<data, fd, promise, torn, got, up>>
  BY TypeParts, FilesAssumption DEF IInv, Delete, streams, IsFile
<1> HIDE DEF p
<1>2. dir'[p] = None /\ (\A q \in Paths : q # p => dir'[q] = dir[q]) /\ Tree(dir')
  BY <1>1, TakeFile DEF Tree
<1>3. Stored[p] # None
  <2>1. data[dir[p]] \in Text
    BY <1>1 DEF Types
  <2> QED BY <1>1, <2>1, StoredIs, EmptyText
<1>4. Stored' = [Stored EXCEPT ![p] = None]
  <2>1. \A q \in Paths : Stored'[q] = IF q = p THEN None ELSE Stored[q]
    BY <1>1, <1>2, StoredIs DEF Idle
  <2> QED BY <1>1, <2>1, FunctionsOf
<1>5. \A c \in Clients : Found'[c] = IF Found[c] = p THEN None ELSE Found[c]
  <2> TAKE c \in Clients
  <2>1. CASE fd[c] = dir[p]
    <3>1. Found[c] = p
      BY <1>1, <2>1, FoundIs
    <3>2. \A q \in Paths : ~(dir'[q] \in Inodes /\ dir'[q] = fd'[c])
      BY <1>1, <1>2, <2>1 DEF Tree
    <3> QED BY <1>2, <3>1, <3>2, FoundIsNext
  <2>2. CASE fd[c] # dir[p]
    <3>1. Found[c] # p
      <4>1. CASE \E q \in Paths : dir[q] \in Inodes /\ dir[q] = fd[c]
        <5>1. PICK q \in Paths : dir[q] \in Inodes /\ dir[q] = fd[c]
          BY <4>1
        <5> QED BY <1>1, <2>2, <5>1, FoundIs
      <4>2. CASE \A q \in Paths : ~(dir[q] \in Inodes /\ dir[q] = fd[c])
        BY <1>1, <4>2, FoundIs
      <4> QED BY <4>1, <4>2
    <3>2. Found'[c] = Found[c]
      BY <1>1, <1>2, <2>2, SameFound
    <3> QED BY <3>1, <3>2
  <2> QED BY <2>1, <2>2
<1>6. Found' = [c \in Clients |-> IF Found[c] = p THEN None ELSE Found[c]]
  BY <1>5, FunctionsOf
<1>7. Serving' = Serving
  BY <1>1 DEF Serving
<1> QED BY <1>1, <1>3, <1>4, <1>6, <1>7 DEF Store!Unlink

\* What an upload has written is a piece of what is uploaded.
Uploads == {Whole(v, n) : v \in 0..MaxUploads, n \in Sizes \cup {1}}

LEMMA UploadPieces ==
  ASSUME IInv, ~Idle
  PROVE  /\ data[up.inode] \in Store!Pieces
         /\ Written = up.size => data[up.inode] \in Uploads
<1>1. /\ Types /\ up.size \in Sizes /\ Written \in 0..up.size
      /\ data[up.inode] = Whole(uploads, Written)
  BY TypeParts DEF IInv, UploadWell
<1>2. up.size \in Nat /\ uploads \in 0..MaxUploads
  BY <1>1, FilesAssumption DEF Types
<1>3. Whole(uploads, up.size) \in Uploads
  BY <1>1, <1>2 DEF Uploads
<1>4. /\ Len(Whole(uploads, up.size)) = up.size
      /\ SubSeq(Whole(uploads, up.size), 1, Written) = Whole(uploads, Written)
  BY <1>1, <1>2, WholeText
<1>5. data[up.inode] \in Store!Pieces
  <2>1. Store!Pieces = UNION {{SubSeq(s, 1, n) : n \in 0..Len(s)} : s \in Uploads}
    BY DEF Store!Pieces, Uploads
  <2> QED BY <1>1, <1>3, <1>4, <2>1
<1> QED BY <1>1, <1>3, <1>5

\* A file that an upload leaves, and the responses that it tears.
LEMMA UploadShows ==
  ASSUME IInv, ~Idle, up' = NoUpload, UNCHANGED <<dir, data>>
  PROVE  /\ up.path \in Paths
         /\ Stored' = [Stored EXCEPT ![up.path] = data[up.inode]]
         /\ Stored'[up.path] = data[up.inode]
         /\ {c \in Serving : Found[c] = up.path} = {c \in Clients : fd[c] = up.inode}
<1>1. /\ Tree(dir) /\ Types /\ None \notin Inodes /\ None \notin Paths
      /\ up.path \in Paths /\ up.inode \in Inodes /\ dir[up.path] = up.inode
  BY TypeParts, FilesAssumption DEF IInv, UploadWell
<1>2. \A q \in Paths : Stored'[q] = IF q = up.path THEN data[up.inode] ELSE Stored[q]
  BY <1>1, StoredIs
<1>3. \A c \in Clients : fd[c] # None /\ Found[c] = up.path <=> fd[c] = up.inode
  <2> TAKE c \in Clients
  <2>1. CASE \E q \in Paths : dir[q] \in Inodes /\ dir[q] = fd[c]
    <3>1. PICK q \in Paths : dir[q] \in Inodes /\ dir[q] = fd[c]
      BY <2>1
    <3>2. Found[c] = q
      BY <1>1, <3>1, FoundIs
    <3> QED BY <1>1, <3>1, <3>2 DEF Tree
  <2>2. CASE \A q \in Paths : ~(dir[q] \in Inodes /\ dir[q] = fd[c])
    BY <1>1, <2>2, FoundIs
  <2> QED BY <2>1, <2>2
<1> QED BY <1>1, <1>2, <1>3, FunctionsOf DEF Serving

LEMMA UploadEndsOverwrite ==
  ASSUME IInv, EndUpload \/ UploadFails
  PROVE  \E p \in Paths : Store!Save(p, Stored'[p]) \/ Store!Spoil(p, Stored'[p])
<1>1. /\ Tree(dir) /\ ~Idle /\ up' = NoUpload /\ torn' = Overwritten(up.inode)
      /\ UNCHANGED <<dir, data, fd, promise, got>>
  BY TypeParts DEF IInv, EndUpload, UploadFails
<1>2. /\ up.path \in Paths
      /\ Stored' = [Stored EXCEPT ![up.path] = data[up.inode]]
      /\ Stored'[up.path] = data[up.inode]
      /\ {c \in Serving : Found[c] = up.path} = {c \in Clients : fd[c] = up.inode}
  BY <1>1, UploadShows
<1>3. Found' = Found /\ Serving' = Serving
  BY <1>1, SameFound, FunctionsOf DEF Serving
<1>4. Store!Overwrite(up.path, Stored'[up.path])
  <2>1. torn' = torn \cup {c \in Serving : Found[c] = up.path}
    BY <1>1, <1>2 DEF Overwritten
  <2> QED BY <1>1, <1>2, <1>3, <2>1 DEF Store!Overwrite
<1>5. CASE EndUpload
  <2>1. Written = up.size
    BY <1>5 DEF EndUpload, AllWritten
  <2>2. Stored'[up.path] \in Uploads
    BY <1>1, <1>2, <2>1, UploadPieces
  <2> QED BY <1>2, <1>4, <2>2 DEF Store!Save, Uploads
<1>6. CASE UploadFails
  <2>1. Stored'[up.path] \in Store!Pieces
    BY <1>1, <1>2, UploadPieces
  <2> QED BY <1>2, <1>4, <2>1 DEF Store!Spoil
<1> QED BY <1>5, <1>6

LEMMA CrashAborts ==
  ASSUME IInv, Crash
  PROVE  \/ Store!Abort(Serving)
         \/ \E p \in Paths : Store!SpoilAll(p, Stored'[p])
<1>1. /\ Drop(Serving) /\ torn' = torn \cup Serving /\ up' = NoUpload /\ UNCHANGED <<dir, data>>
  BY DEF Crash, Serving
<1>2. Store!Ended(Serving)
  BY <1>1, DropEnds
<1>3. CASE Idle
  <2>1. Stored' = Stored
    BY <1>1, <1>3, StoredIs, FunctionsOf DEF Idle
  <2> QED BY <1>1, <1>2, <2>1 DEF Store!Abort
<1>4. CASE ~Idle
  <2>1. /\ up.path \in Paths /\ Stored' = [Stored EXCEPT ![up.path] = data[up.inode]]
        /\ Stored'[up.path] = data[up.inode] /\ data[up.inode] \in Store!Pieces
    BY <1>1, <1>4, UploadShows, UploadPieces
  <2> QED BY <1>1, <1>2, <2>1 DEF Store!SpoilAll
<1> QED BY <1>3, <1>4

LEMMA InitMaps == Init => Store!Init
<1> SUFFICES ASSUME Init PROVE Store!Init
  OBVIOUS
<1>1. IInv /\ Tree(dir) /\ Idle
  BY InitIInv, TypeParts DEF IInv, Init, Idle
<1>2. \A p \in Paths : Stored[p] \in Uploads \cup {None}
  <2> SUFFICES ASSUME NEW p \in Paths, dir[p] \in Inodes PROVE data[dir[p]] \in Uploads
    BY <1>1, StoredIs
  <2>1. p \in DOMAIN Placed /\ dir[p] = Placed[p]
    BY FilesAssumption DEF Init
  <2>2. data[dir[p]] = Whole(0, 1)
    BY <2>1 DEF Init
  <2>3. 0 \in 0..MaxUploads
    BY FilesAssumption
  <2> QED BY <2>2, <2>3 DEF Uploads
<1>3. Stored \in [Paths -> Uploads \cup {None}]
  BY <1>2, FunctionsOf
<1>4. Serving = {} /\ \A c \in Clients : fd[c] = None
  BY DEF Init, Serving
<1>5. \A c \in Clients : Found[c] = None
  BY <1>1, <1>4, FoundIs, FilesAssumption
<1>6. Found = [c \in Clients |-> None]
  BY <1>5, FunctionsOf
<1> QED BY <1>3, <1>4, <1>6 DEF Init, Store!Init, Uploads

\* Uploads are atomic and responses are snapshots: whatever pieces write() and
\* read() take, and however uploads, deletions, responses and crashes interleave,
\* clients see what FileStore promises, and every step is one of its steps or
\* shows nothing.
THEOREM Implements == Spec => Atomic
<1>1. Init => Store!Init
  BY InitMaps
<1>2. ASSUME IInv, [Next]_vars
      PROVE  [Store!Next]_<<Stored, Serving, Found, promise, torn, got>>
  <2>1. CASE UNCHANGED vars
    <3>1. Stored' = Stored /\ Serving' = Serving
      BY <2>1, StoredIs, FunctionsOf DEF vars, Idle, Serving
    <3>2. Found' = Found
      <4>1. Tree(dir) /\ Tree(dir')
        BY <1>2, <2>1, TypeParts DEF IInv, vars
      <4> QED BY <2>1, <4>1, SameFound, FunctionsOf DEF vars
    <3> QED BY <2>1, <3>1, <3>2 DEF vars
  <2>2. ASSUME NEW l \in Locations, RefuseUpload(l) PROVE Stutter
    BY <1>2, <2>2, RefuseUploadHidden
  <2>3. ASSUME NEW l \in Locations, NEW name \in FileNames, NEW n \in Sizes, BeginUpload(l, name, n)
        PROVE  Stutter
    BY <1>2, <2>3, BeginUploadHidden
  <2>4. ASSUME NEW k \in 1..Chunk, WriteChunk(k) PROVE Stutter
    BY <1>2, <2>4, WriteChunkHidden
  <2>5. CASE EndUpload \/ UploadFails
    BY <1>2, <2>5, UploadEndsOverwrite DEF Store!Next
  <2>6. ASSUME NEW c \in Clients, NEW url \in Urls, Get(c, url) PROVE Store!Next
    BY <1>2, <2>6, GetBegins DEF Store!Next
  <2>7. ASSUME NEW c \in Clients, StreamChunk(c) PROVE Store!Next
    BY <1>2, <2>7, StreamChunkDelivers DEF Store!Next
  <2>8. ASSUME NEW c \in Clients, StreamEnd(c) PROVE Store!Next
    BY <1>2, <2>8, StreamEndFinishes DEF Store!Next
  <2>9. ASSUME NEW c \in Clients, StreamFails(c) PROVE Store!Next
    BY <1>2, <2>9, StreamFailsAborts DEF Store!Next
  <2>10. ASSUME NEW url \in Urls, Delete(url) PROVE Store!Next
    BY <1>2, <2>10, DeleteUnlinks DEF Store!Next
  <2>11. CASE Crash
    <3>1. Serving \in SUBSET Clients
      BY DEF Serving
    <3> QED BY <1>2, <2>11, <3>1, CrashAborts DEF Store!Next
  <2> QED BY <1>2, <2>1, <2>2, <2>3, <2>4, <2>5, <2>6, <2>7, <2>8, <2>9, <2>10, <2>11
          DEF Next, Stutter
<1> QED BY <1>1, <1>2, Invariance, PTL DEF Spec, Atomic, Store!Spec
=============================================================================
