---------------------------- MODULE SharedFiles ----------------------------
(***************************************************************************)
(* The files that the browser shares with the host: downloads, which are   *)
(* staged and then linked under a free name (server/mcp-downloads.cjs, the *)
(* listener of compact/tab-state.mjs), and uploads, which are read through *)
(* one descriptor and checked around the reading (compact/uploads.mjs).    *)
(* Meanwhile the host makes, moves and writes files as it likes.           *)
(*                                                                         *)
(* Every write gives a file a new modification time, and a path of /shared *)
(* that is moved keeps its inode.                                          *)
(***************************************************************************)
EXTENDS Naturals, Sequences, FiniteSets

CONSTANTS Downloads, FileNames,
          MaxIndex,     \* bound: how often a name may be taken
          KeptRecords,  \* 4 downloads that a tab reports
          Inodes,       \* [size]: the files that may be uploaded
          MaxBytes,     \* 32 MiB in one step
          Paths,        \* how many paths the step names
          MaxChanges    \* bound: what the host does to them
ASSUME FilesAssumption == /\ MaxIndex \in Nat /\ KeptRecords \in Nat /\ Paths \in Nat
                          /\ MaxBytes \in Nat /\ MaxChanges \in Nat
                          /\ {"none", "host"} \cap Downloads = {} /\ \A i \in Inodes : i.size \in Nat

VARIABLES dir,       \* dir[<<n, i>>]: the directory of downloads: "none", "host", or whose
          download,  \* download[d]: forwardDownload for d
          records,   \* TabState.#downloads
          disk,      \* the inodes that can be uploaded
          upload     \* SharedUploads.resolve
downloadVars == <<dir, download, records>>
uploadVars == <<disk, upload>>
filesVars == <<downloadVars, uploadVars>>

FilesInit ==
  /\ dir = [f \in FileNames \X (0..MaxIndex) |-> "none"]
  /\ download = [d \in Downloads |-> [pc |-> "none", name |-> "none", index |-> 0,
                                      staged |-> "none"]]   \* its temporary file
  /\ records = <<>>
  /\ disk = [inside |-> [i \in Inodes |-> TRUE], version |-> [i \in Inodes |-> 0], changes |-> 0]
  /\ upload = [pc |-> "path", inode |-> 0, stat |-> 0, read |-> {}, at |-> 0, bytes |-> 0,
               result |-> <<>>, wasInside |-> FALSE]   \* history: at the check
-----------------------------------------------------------------------------
Step(d, pc) == download' = [download EXCEPT ![d].pc = pc]

\* The 'download' event: a record, of which the last few are kept, and the
\* forwarding, which makes a directory of its own.
Begin(d, n) ==
  /\ download[d].pc = "none"
  /\ download' = [download EXCEPT ![d] = [pc |-> "saving", name |-> n, index |-> 0, staged |-> "part"]]
  /\ records' = LET all == Append(records, d)
                IN IF Len(all) > KeptRecords THEN Tail(all) ELSE all
  /\ UNCHANGED <<dir, uploadVars>>
Saved(d) == /\ download[d].pc = "saving"
            /\ download' = [download EXCEPT ![d].pc = "linking", ![d].staged = "whole"]
            /\ UNCHANGED <<dir, records, uploadVars>>
\* The name that it tries next.
ChosenFile(d) == <<download[d].name, download[d].index>>
\* Mutant of Free: a file of the host is replaced.
FreeOrHost(d) == dir[ChosenFile(d)] \in {"none", "host"}
Free(d) == dir[ChosenFile(d)] = "none"
\* link(): atomic, and only under a name that is free; else the next one.
Link(d) ==
  /\ download[d].pc = "linking" /\ Free(d)
  /\ dir' = [dir EXCEPT ![ChosenFile(d)] = d]
  /\ Step(d, "linked") /\ UNCHANGED <<records, uploadVars>>
Taken(d) == /\ download[d].pc = "linking" /\ ~Free(d) /\ download[d].index < MaxIndex
            /\ download' = [download EXCEPT ![d].index = @ + 1]
            /\ UNCHANGED <<dir, records, uploadVars>>
\* Anything else fails; and in the end the staging directory is gone.
ForwardFails(d) == /\ download[d].pc \in {"saving", "linking"} /\ Step(d, "broken")
                   /\ UNCHANGED <<dir, records, uploadVars>>
CleanUp(d) ==
  /\ download[d].pc \in {"linked", "broken"}
  /\ download' = [download EXCEPT ![d].pc = IF @ = "linked" THEN "complete" ELSE "failed",
                                  ![d].staged = "none"]
  /\ UNCHANGED <<dir, records, uploadVars>>
HostFile(f) == /\ dir[f] = "none" /\ dir' = [dir EXCEPT ![f] = "host"]
               /\ UNCHANGED <<download, records, uploadVars>>
-----------------------------------------------------------------------------
UpTo(pc) == upload' = [upload EXCEPT !.pc = pc]
Refuse == UpTo("refused")
\* The path names an inode when it is resolved; opening it may meet another one.
Open(i) ==
  /\ upload.pc = "path" /\ Len(upload.result) < Paths
  /\ \/ upload' = [upload EXCEPT !.pc = "opened", !.inode = i, !.stat = disk.version[i]]
     \/ Refuse
  /\ UNCHANGED <<disk, downloadVars>>
\* Mutant of Inside: the path was inside, so the file is.
InsideThen == TRUE
\* Where the descriptor's file is now, and whether there is room for it.
Inside == disk.inside[upload.inode]
Check ==
  /\ upload.pc = "opened" /\ UNCHANGED <<disk, downloadVars>>
  /\ IF Inside /\ upload.bytes + upload.inode.size <= MaxBytes
     THEN upload' = [upload EXCEPT !.pc = "reading", !.wasInside = disk.inside[upload.inode],
                       !.read = {}, !.at = 0]
     ELSE Refuse
\* The bytes come in pieces, each of the version there is.
Read ==
  /\ upload.pc = "reading" /\ upload.at < upload.inode.size
  /\ upload' = [upload EXCEPT !.at = @ + 1, !.read = @ \cup {disk.version[upload.inode]}]
  /\ UNCHANGED <<disk, downloadVars>>
\* Mutant of Unchanged: compared with what was just read.
UnchangedNow == disk.version[upload.inode] \in upload.read \cup {upload.stat}
Unchanged == disk.version[upload.inode] = upload.stat
Accept ==
  /\ upload.pc = "reading" /\ upload.at = upload.inode.size
  /\ IF Unchanged
     THEN upload' = [upload EXCEPT !.pc = IF Len(upload.result) + 1 = Paths THEN "done" ELSE "path",
                       !.result = Append(@, [bytes |-> upload.read, inside |-> upload.wasInside]),
                       !.bytes = @ + upload.inode.size]
     ELSE Refuse
  /\ UNCHANGED <<disk, downloadVars>>
HostMoves(i) ==
  /\ disk.changes < MaxChanges
  /\ \/ disk' = [disk EXCEPT !.changes = @ + 1, !.inside[i] = ~@]
     \/ disk' = [disk EXCEPT !.changes = @ + 1, !.version[i] = @ + 1]
  /\ UNCHANGED <<upload, downloadVars>>
FilesNext ==
  \/ \E d \in Downloads : \/ \E n \in FileNames : Begin(d, n)
                          \/ Saved(d) \/ Link(d) \/ Taken(d) \/ ForwardFails(d) \/ CleanUp(d)
  \/ \E f \in FileNames \X (0..MaxIndex) : HostFile(f)
  \/ Check \/ Read \/ Accept \/ \E i \in Inodes : Open(i) \/ HostMoves(i)
FilesSpec == FilesInit /\ [][FilesNext]_filesVars
-----------------------------------------------------------------------------
\* What is complete is in the directory, whole, each under a name of its own;
\* nothing of a failed or unfinished download ever is, though two downloads and the
\* host choose the same name at the same time.  A tab reports its latest downloads.
DownloadsAreWhole ==
  /\ \A d \in Downloads :
       LET mine == {f \in DOMAIN dir : dir[f] = d}
       IN /\ Cardinality(mine) = (IF download[d].pc \in {"linked", "complete"} THEN 1 ELSE 0)
          /\ mine # {} => download[d].staged # "part"
          /\ download[d].pc \in {"complete", "failed"} => download[d].staged = "none"
  /\ Len(records) <= KeptRecords
\* A file that is there is never replaced (mcp-downloads.cjs:35).
NothingIsReplaced == [][\A f \in DOMAIN dir : dir[f] # "none" => dir'[f] = dir[f]]_filesVars

\* The bytes that are handed to the browser are one version of a file that was in
\* /shared when it was opened, though the host moves and writes files meanwhile
\* (uploads.mjs:19), and never more than the limit.
UploadsAreWhole ==
  /\ \A k \in DOMAIN upload.result :
       Cardinality(upload.result[k].bytes) <= 1 /\ upload.result[k].inside
  /\ upload.bytes <= MaxBytes
\* All together: nothing that is shared is lost, torn or mixed.
FilesAreWhole == []DownloadsAreWhole /\ NothingIsReplaced /\ []UploadsAreWhole
=============================================================================
