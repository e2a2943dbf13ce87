----------------------------- MODULE RoffsStore -----------------------------
(***************************************************************************)
(* What the flash file system promises to those who read files: a name     *)
(* stands for no file, or for the whole of what one upload under this name *)
(* brought, never for the part of it that happened to be in flash when a   *)
(* callback was cut short or the module was reset.  Starting an upload     *)
(* takes the old version away before the new one is there.  An upload      *)
(* whose name begins with a '/' takes away the file without it, and is     *)
(* seen by nobody.                                                         *)
(***************************************************************************)
EXTENDS SequencesExt

CONSTANTS Names, Strip, Values, Conns, None

VARIABLES
  files,   \* what each name stands for
  drafts,  \* the upload each connection has in progress
  wild     \* something has happened behind which nothing is promised

vars == <<files, drafts, wild>>

Plain == {n \in Names : Strip[n] = n}
NoFiles == [n \in Plain |-> None]

Init ==
  /\ files = NoFiles
  /\ drafts = [c \in Conns |-> None]
  /\ wild = FALSE

\* An upload begins, or goes on: it keeps its name, and what it has brought.
Upload(c) ==
  /\ drafts'[c] # None
  /\ drafts'[c].name \in Names /\ drafts'[c].data \in Seq(Values)
  /\ drafts[c] # None => /\ ~drafts[c].whole
                         /\ drafts'[c].name = drafts[c].name
                         /\ IsPrefix(drafts[c].data, drafts'[c].data)
  /\ \A d \in Conns \ {c} : drafts'[d] = drafts[d]
  /\ UNCHANGED <<files, wild>>

\* The old version goes when an upload under its name has begun.
Withdraw(c) ==
  /\ drafts[c] # None
  /\ files' = [files EXCEPT ![Strip[drafts[c].name]] = None]
  /\ UNCHANGED <<drafts, wild>>

\* The new version comes when its upload is whole, and not before.
Publish(c) ==
  /\ drafts[c] # None /\ drafts[c].whole /\ drafts[c].name \in Plain
  /\ files[drafts[c].name] = None
  /\ files' = [files EXCEPT ![drafts[c].name] = drafts[c].data]
  /\ UNCHANGED <<drafts, wild>>

\* Uploads end, or are lost.
Forget ==
  /\ \A c \in Conns : drafts'[c] \in {drafts[c], None}
  /\ UNCHANGED <<files, wild>>

Format ==
  /\ files' = NoFiles
  /\ UNCHANGED <<drafts, wild>>

Next ==
  \/ /\ ~wild
     /\ \/ \E c \in Conns : Upload(c) \/ Withdraw(c) \/ Publish(c)
        \/ Forget
        \/ Format
  \/ wild'

Spec == Init /\ [][Next]_vars
=============================================================================
