--------------------------------- MODULE Files ---------------------------------
(***************************************************************************)
(* FileHandler over the file system: uploads written a chunk at a time,    *)
(* deletions, and GET responses that stream a file they opened earlier     *)
(* while other clients upload and delete.  The server may die at any step; *)
(* the files stay.  How much of a chunk a socket takes is ResponseWriter's *)
(* business: here it takes all of it.                                      *)
(*                                                                         *)
(* A path, of a URL or of a file, is the sequence of its names.            *)
(***************************************************************************)
EXTENDS Integers, Sequences, SequencesExt, FiniteSets

CONSTANTS
  Clients,
  Locations,  \* location blocks: path and root
  Urls,       \* what clients ask for
  Paths,      \* every path of the file system that can come up
  FileNames,  \* names that uploads carry
  Sanitized,  \* what sanitizeFilename makes of a name
  Decoded,    \* what urlDecode makes of a name
  Index,      \* the index file of every location
  Placed,     \* files that are there before the server starts, with inodes
  Sizes,      \* sizes of uploads
  Chunk,      \* the most one write() or read() moves
  MaxUploads, \* bound: uploads
  Inodes,     \* bound: files at a time, and deleted ones still open
  None, Directory

ASSUME FilesAssumption ==
  /\ MaxUploads \in Nat /\ Chunk \in Nat \ {0} /\ Sizes \subseteq Nat
  /\ \A l \in Locations : l.path \in Seq(STRING) /\ l.root \in Seq(STRING)
  /\ Urls \subseteq Seq(STRING) /\ Paths \subseteq Seq(STRING)
  /\ \A p \in Paths : p = <<>> \/ Front(p) \in Paths
  /\ None \notin Inodes /\ Directory \notin Inodes /\ None # Directory
  /\ None \notin Paths /\ None \notin Seq((0..MaxUploads) \X Nat)
  /\ DOMAIN Placed \subseteq Paths /\ Placed \in [DOMAIN Placed -> Inodes]
  /\ \A p, q \in DOMAIN Placed : Placed[p] = Placed[q] \/ IsPrefix(p, q) => p = q

\* The requests that find no location are answered 404 before.  What
\* sanitizeFilename leaves of a name has nothing left that urlDecode changes.
ASSUME NamesAssumption ==
  /\ \A url \in Urls : \E l \in Locations : IsPrefix(l.path, url)
  /\ \A n \in FileNames : Sanitized[n] \in STRING /\ Decoded[Sanitized[n]] = Sanitized[n]

VARIABLES
  dir,     \* what every path names: an inode, Directory or None
  data,    \* the content of every inode
  fd,      \* the inode a client's response streams
  pos,     \* how far that descriptor has read
  up,      \* the upload handleFileUpload is in
  uploads, \* uploads that were begun
  saved,   \* history: the content last answered 201 at every path, and None
           \* once anything has touched the file since
  promise, \* history: the content a response was announced with
  torn,    \* history: clients whose response was lost, or its file overwritten
  got      \* what a client has received of its response

vars == <<dir, data, fd, pos, up, uploads, saved, promise, torn, got>>
streams == <<fd, pos, promise, torn, got>>

NoUpload == [path |-> <<>>, inode |-> None, size |-> 0, old |-> None]

\* The bytes of an upload, each named by its place.
Whole(v, n) == [i \in 1..n |-> <<v, i>>]

-----------------------------------------------------------------------------
(* Paths. *)

\* getLocation: the longest location path that the URL starts with.
Route(url) ==
  LET begins == {l \in Locations : IsPrefix(l.path, url)}
  IN CHOOSE l \in begins : \A m \in begins : Len(m.path) <= Len(l.path)

UnderRoot(l) == l.root   \* mutant: the location path is left out
\* Where an upload to a location is saved.
UploadDir(l) == IF l.root = <<>> THEN <<"www", "upload">> ELSE l.root \o l.path

AsGiven(name) == name   \* mutant: the name is taken as it came
\* sanitizeFilename
Safe(name) == Sanitized[name]
UploadPath(l, name) == Append(UploadDir(l), Safe(name))

UrlDecode(url) == [i \in DOMAIN url |-> Decoded[url[i]]]

\* The location path is part of the file's path only below the root "www".
Plain(l) == l.path = <<>> \/ l.root = <<"www">>
ConstructFilePath(url) ==
  LET l == Route(url)
      rest == SubSeq(UrlDecode(url), Len(l.path) + 1, Len(url))
  IN (IF Plain(l) THEN l.root \o l.path ELSE l.root) \o rest

\* The link of an entry in the listing that createListingBody makes of a URL.
Link(url, name) == Append(url, Decoded[name])

-----------------------------------------------------------------------------
(* The file system. *)

IsFile(p) == p \in Paths /\ dir[p] \in Inodes
IsDir(p) == p \in Paths /\ dir[p] = Directory
Above(p) == {q \in Paths : IsPrefix(q, p)}
Used == {dir[p] : p \in Paths} \cup {fd[c] : c \in Clients}
Free == {i \in Inodes : i \notin Used}

\* mkdir -p makes what is missing and fails when a file is in the way.
CanMake(p) == \A q \in Above(p) : ~IsFile(q)
OnlyLast(p) == [dir EXCEPT ![p] = IF @ = None THEN Directory ELSE @]   \* mutant: no -p
WithDir(p) == IF CanMake(p) THEN [q \in Paths |-> IF q \in Above(p) THEN Directory ELSE dir[q]]
                            ELSE dir

\* open(O_CREAT) of a name in a directory: "" names the directory itself.
CanOpen(p) == /\ Last(p) # "" /\ CanMake(Front(p))
              /\ p \in Paths /\ ~IsDir(p)

FileAt(p) == IF IsDir(p) /\ IsFile(Append(p, Index)) THEN Append(p, Index) ELSE p

Init ==
  /\ dir = [p \in Paths |-> IF p \in DOMAIN Placed THEN Placed[p]
                            ELSE IF p = <<>> \/ \E q \in DOMAIN Placed : IsPrefix(p, q)
                              THEN Directory ELSE None]
  /\ data = [i \in Inodes |-> IF \E p \in DOMAIN Placed : Placed[p] = i THEN Whole(0, 1) ELSE <<>>]
  /\ fd = [c \in Clients |-> None] /\ pos = [c \in Clients |-> 0]
  /\ up = NoUpload /\ uploads = 0
  /\ saved = [p \in Paths |-> None]
  /\ promise = [c \in Clients |-> <<>>] /\ torn = {} /\ got = [c \in Clients |-> <<>>]

\* The responses that stream a file which is overwritten.
Overwritten(i) == torn \cup {c \in Clients : fd[c] = i}

-----------------------------------------------------------------------------
(* POST: handleFileUpload.  The server does nothing else meanwhile. *)

Idle == up = NoUpload

\* A part that is not valid, or a name that cannot be opened, is refused once
\* the directory was made.
RefuseUpload(l) ==
  /\ Idle /\ dir' = WithDir(UploadDir(l))
  /\ UNCHANGED <<data, streams, up, uploads, saved>>

\* open() with O_TRUNC empties a file that is there.
Truncated(i) == [data EXCEPT ![i] = <<>>]

BeginUpload(l, name, n) ==
  LET p == UploadPath(l, name) IN
  /\ Idle /\ CanOpen(p) /\ uploads < MaxUploads
  /\ \E i \in IF IsFile(p) THEN {dir[p]} ELSE Free :
       /\ dir' = [WithDir(UploadDir(l)) EXCEPT ![p] = i]
       /\ data' = Truncated(i)
       /\ up' = [path |-> p, inode |-> i, size |-> n,
                 old |-> IF IsFile(p) THEN data[i] ELSE None]
  /\ saved' = [saved EXCEPT ![p] = None]
  /\ uploads' = uploads + 1
  /\ UNCHANGED streams

Written == Len(data[up.inode])
AnyWritten == Written > 0 \/ up.size = 0   \* mutant: a short write() is taken for all
AllWritten == Written = up.size
\* write() takes some of a chunk.
WriteChunk(k) ==
  /\ ~Idle /\ k <= up.size - Written
  /\ data' = [data EXCEPT ![up.inode] =
                @ \o [i \in 1..k |-> <<uploads, Written + i>>]]
  /\ UNCHANGED <<dir, streams, up, uploads, saved>>

\* 201.
EndUpload ==
  /\ ~Idle /\ AllWritten
  /\ saved' = [saved EXCEPT ![up.path] = Whole(uploads, up.size)]
  /\ torn' = Overwritten(up.inode) /\ up' = NoUpload
  /\ UNCHANGED <<dir, data, fd, pos, uploads, promise, got>>

\* write() fails: 500, and what was written stays.
UploadFails ==
  /\ ~Idle /\ ~AllWritten
  /\ torn' = Overwritten(up.inode) /\ up' = NoUpload
  /\ UNCHANGED <<dir, data, fd, pos, uploads, saved, promise, got>>

-----------------------------------------------------------------------------
(* GET: serveFile opens the file, writeNextChunk streams it. *)

Get(c, url) ==
  LET p == FileAt(ConstructFilePath(url)) IN
  /\ Idle /\ fd[c] = None /\ IsFile(p)
  /\ fd' = [fd EXCEPT ![c] = dir[p]] /\ pos' = [pos EXCEPT ![c] = 0]
  /\ promise' = [promise EXCEPT ![c] = data[dir[p]]]
  /\ torn' = torn \ {c} /\ got' = [got EXCEPT ![c] = <<>>]
  /\ UNCHANGED <<dir, data, up, uploads, saved>>

ReadTo(c) == IF pos[c] + Chunk < Len(data[fd[c]]) THEN pos[c] + Chunk ELSE Len(data[fd[c]])

StreamChunk(c) ==
  /\ Idle /\ fd[c] # None /\ pos[c] < Len(data[fd[c]])
  /\ got' = [got EXCEPT ![c] = @ \o SubSeq(data[fd[c]], pos[c] + 1, ReadTo(c))]
  /\ pos' = [pos EXCEPT ![c] = ReadTo(c)]
  /\ UNCHANGED <<dir, data, fd, up, uploads, saved, promise, torn>>

\* The responses of some clients end.
Drop(C) ==
  /\ fd' = [c \in Clients |-> IF c \in C THEN None ELSE fd[c]]
  /\ pos' = [c \in Clients |-> IF c \in C THEN 0 ELSE pos[c]]
  /\ promise' = [c \in Clients |-> IF c \in C THEN <<>> ELSE promise[c]]
  /\ got' = [c \in Clients |-> IF c \in C THEN <<>> ELSE got[c]]

ShortRead(c) == pos[c] + Chunk > Len(data[fd[c]])   \* mutant: a short read is the end
AtEnd(c) == pos[c] >= Len(data[fd[c]])

\* read() returns 0: the response has ended.
StreamEnd(c) ==
  /\ Idle /\ fd[c] # None /\ AtEnd(c)
  /\ Drop({c})
  /\ UNCHANGED <<dir, data, up, uploads, saved, torn>>

\* The connection is lost, with what its client was receiving.
StreamFails(c) ==
  /\ Idle /\ fd[c] # None
  /\ Drop({c}) /\ torn' = torn \cup {c}
  /\ UNCHANGED <<dir, data, up, uploads, saved>>

-----------------------------------------------------------------------------
(* DELETE: handleFileDelete.  unlink() takes the name; a response that       *)
(* streams the file has it open still.                                       *)

Delete(url) ==
  LET p == ConstructFilePath(url) IN
  /\ Idle /\ IsFile(p)
  /\ dir' = [dir EXCEPT ![p] = None]
  /\ saved' = [saved EXCEPT ![p] = None]
  /\ UNCHANGED <<data, streams, up, uploads>>

\* The process dies and is started again, maybe in the middle of an upload.
Crash ==
  /\ LET C == {c \in Clients : fd[c] # None} IN Drop(C) /\ torn' = torn \cup C
  /\ up' = NoUpload
  /\ UNCHANGED <<dir, data, uploads, saved>>

Next ==
  \/ \E l \in Locations :
       \/ RefuseUpload(l)
       \/ \E name \in FileNames, n \in Sizes : BeginUpload(l, name, n)
  \/ \E k \in 1..Chunk : WriteChunk(k)
  \/ EndUpload \/ UploadFails
  \/ \E c \in Clients :
       \/ \E url \in Urls : Get(c, url)
       \/ StreamChunk(c) \/ StreamEnd(c) \/ StreamFails(c)
  \/ \E url \in Urls : Delete(url)
  \/ Crash

Spec == Init /\ [][Next]_vars

-----------------------------------------------------------------------------
\* Every variable has its type, no two names are of one file, and what
\* there is is in a directory.
TypeOK ==
  /\ dir \in [Paths -> Inodes \cup {None, Directory}]
  /\ data \in [Inodes -> Seq((0..MaxUploads) \X Nat)]
  /\ fd \in [Clients -> Inodes \cup {None}] /\ pos \in [Clients -> Nat]
  /\ uploads \in 0..MaxUploads
  /\ ~Idle => IsFile(up.path) /\ dir[up.path] = up.inode
  /\ \A p, q \in Paths : IsFile(p) /\ dir[p] = dir[q] => p = q
  /\ \A p \in Paths : p # <<>> /\ dir[p] # None => IsDir(Front(p))

Saved(p) == p \in Paths /\ saved[p] # None

\* A file that was answered 201, and that nothing has touched since, holds the
\* whole upload, each byte once and in order, whatever pieces write() took,
\* whichever uploads failed and however often the server died.
SavedWhole == \A p \in Paths : Saved(p) => IsFile(p) /\ data[dir[p]] = saved[p]

\* An upload can be fetched and deleted at its location under the name it was
\* saved as, exactly when the location path is "/" or the root is "www":
\* elsewhere handleFileUpload adds the location path and constructFilePath does
\* not.
Retrievable == \A l \in Locations, name \in FileNames :
  LET p == UploadPath(l, name)
      url == Append(l.path, Safe(name))
  IN Saved(p) /\ Route(url) = l => 
       (l.root # <<>> /\ Plain(l) <=> ConstructFilePath(url) = p)

\* In a listing of the directory it is in, the link and the delete button of a
\* file that was uploaded are that file's, not another's.
LinksLead == \A p \in Paths, url \in Urls :
  LET name == Last(p)
      link == Link(url, name)
  IN Saved(p) /\ ConstructFilePath(url) = Front(p) /\ Route(link) = Route(url)
       => ConstructFilePath(link) = p

\* The files as the clients know them: an upload under way shows not yet.
Stored == [p \in Paths |->
  IF ~Idle /\ p = up.path THEN up.old ELSE IF IsFile(p) THEN data[dir[p]] ELSE None]
Serving == {c \in Clients : fd[c] # None}
\* Where the file that a response streams is still found.
Found == [c \in Clients |->
  IF \E p \in Paths : IsFile(p) /\ dir[p] = fd[c]
    THEN CHOOSE p \in Paths : IsFile(p) /\ dir[p] = fd[c] ELSE None]

Store == INSTANCE FileStore WITH
  Names <- Paths,
  Contents <- {Whole(v, n) : v \in 0..MaxUploads, n \in Sizes \cup {1}},
  store <- Stored, serving <- Serving, at <- Found
\* Uploads are atomic and responses are snapshots, as FileStore says.
Atomic == Store!Spec

=============================================================================
