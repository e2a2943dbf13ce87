-------------------------------- MODULE Roffs --------------------------------
(***************************************************************************)
(* The flash file system (parallax/roffs.c) under the HTTP handlers that   *)
(* upload, download and format (parallax/httpdroffs.c).  It is a log of    *)
(* header, name, data, ended by a header with all bits set.  A header is   *)
(* only ever changed by clearing bits: PENDING when an upload is complete, *)
(* ACTIVE when a newer version replaces the file.  Sectors are erased when *)
(* a write enters them.                                                    *)
(*                                                                         *)
(* Handlers run one at a time.  Each one here decides at once what it does *)
(* to the flash, and the flash operations then happen one by one, because  *)
(* a reset can come between any two and each can report an error.          *)
(*                                                                         *)
(* A header, a name and SecSize, Chunk of data take whole cells; a header  *)
(* or a name is written in one operation.  The model ends (wild) where the *)
(* code leaves the file system or loses the end of the log.                *)
(***************************************************************************)
EXTENDS Integers, FiniteSets, SequencesExt

CONSTANTS
  Names,    \* of files
  Strip,    \* a name without the '/' it begins with
  Values,   \* of a cell of data
  Conns,    \* HTTP connections
  SecSize,  \* cells of a flash sector
  Base,     \* fsData, the first cell of the file system
  Top,      \* fsTop, the cell behind the last
  Chunk,    \* cells in a buffer of an upload or a download
  Erased,   \* an erased cell
  Stale,    \* what the flash holds before the first format
  Garbled,  \* what is left when a cell is written over and bits would be set
  None

ASSUME RoffsAssumption ==
  /\ SecSize \in Nat \ {0} /\ Chunk \in Nat \ {0}
  /\ Base \in Nat \ {0} /\ Top \in Nat /\ Base < Top
  /\ Base % SecSize = 0 /\ Top % SecSize = 0

ASSUME NameAssumption ==
  Strip \in [Names -> Names] /\ \A n \in Names : Strip[Strip[n]] = Strip[n]

VARIABLES
  flash,    \* the cells of the file system, and the one behind it
  todo,     \* the flash operations left of the handler that runs
  busy,     \* its connection, if it is an upload
  uploads,  \* ROFFS_FILE of the file each connection writes, or None
  readers,  \* ROFFS_FILE of the file each connection reads, or None
  jump,     \* history: where a leftover upload was found and what is next
  wild      \* history: the end of the log is lost, or an open file is

vars == <<flash, todo, busy, uploads, readers, jump, wild>>

Flags == {"LAST", "ACTIVE", "PENDING"}
Header == [flags : SUBSET Flags, nameLen : {-1, 0, 1}, fileLen : -1..Top]
Terminator == [flags |-> Flags, nameLen |-> -1, fileLen |-> -1]
\* Mutant: the file shows from the beginning.
NewHeaderShown == [flags |-> {"ACTIVE"}, nameLen |-> 1, fileLen |-> -1]

NewHeader == [flags |-> {"ACTIVE", "PENDING"}, nameLen |-> 1, fileLen |-> -1]
Uploads == [name : Names, header : Base..Top, data : Seq(Values),
            stage : {"open", "whole", "dropped"}]
Downloads == [start : Base..Top, size : 0..Top, offset : 0..Top, version : Seq(Values)]
Cells == Header \cup Names \cup Values \cup {Erased, Stale, Garbled}

\* A cell shows what it holds, as a magic number shows a header, and nothing is None.
ASSUME CellAssumption ==
  /\ (Names \cup Values \cup {Erased, Stale, Garbled}) \cap Header = {}
  /\ Garbled \notin Names \cup Values \cup {Erased, Stale}
  /\ None \notin Conns /\ None \notin Uploads /\ None \notin Downloads /\ None \notin Seq(Values)
  /\ None \notin [name : Names, size : Nat] /\ None \notin Nat
  /\ None \notin [name : Names, data : Seq(Values), whole : BOOLEAN]

-----------------------------------------------------------------------------
(* The log. *)

\* Mutant: an upload that is not closed is a file like another.
AtEndLast(f, p) == p \notin DOMAIN f \/ f[p] \notin Header \/ "LAST" \in f[p].flags

AtEnd(f, p) ==
  \/ p \notin DOMAIN f
  \/ f[p] \notin Header
  \/ f[p].flags \cap {"LAST", "PENDING"} # {}

\* Where the header behind the one at p is.
Follower(f, p) == p + 1 + f[p].nameLen + f[p].fileLen

\* The headers find_file_and_insertion_point and roffs_open come across.
Log(f) ==
  LET walk[p \in Nat] == IF AtEnd(f, p) THEN {p} ELSE {p} \cup walk[Follower(f, p)]
  IN  walk[Base]

LogEnd(f) == CHOOSE p \in Log(f) : AtEnd(f, p)

HasFlag(f, p, flag) == p \in DOMAIN f /\ f[p] \in Header /\ flag \in f[p].flags

Active(f) == {p \in Log(f) : ~AtEnd(f, p) /\ HasFlag(f, p, "ACTIVE")}

Versions(f, n) == {p \in Active(f) : f[p + 1] = n}

Content(f, p) == [i \in 1..f[p].fileLen |-> f[p + f[p].nameLen + i]]

\* roffs_create writes any name, but what is looked for is one of these.
Plain == {n \in Names : Strip[n] = n}

\* What a download of n brings.
File(f, n) ==
  LET versions == Versions(f, n)
  IN  IF versions = {} THEN None ELSE Content(f, Min(versions))

Files(f) == [n \in Plain |-> File(f, n)]

\* What FCOUNT goes through; an upload that is not closed hides the count.
roffs_filecount(f) == IF HasFlag(f, LogEnd(f), "LAST") THEN Cardinality(Active(f)) ELSE None

\* What FINFO finds when it counts index down.
Listed(f, index) ==
  LET active == Active(f)
  IN  {p \in active : Cardinality({q \in active : q < p}) = IF index < 0 THEN 0 ELSE index}

roffs_fileinfo(f, index) ==
  LET listed == Listed(f, index)
  IN  IF listed = {} THEN None
      ELSE LET p == CHOOSE q \in listed : TRUE
           IN  [name |-> f[p + 1], size |-> f[p].fileLen]

-----------------------------------------------------------------------------
(* Flash operations: an erase, or a write that can only clear bits. *)

Clears(new, old) == new = old \/ old = -1 \/ new = 0

Programmed(old, new) ==
  IF \/ old = Erased
     \/ /\ old \in Header /\ new \in Header
        /\ new.flags \subseteq old.flags
        /\ Clears(new.nameLen, old.nameLen) /\ Clears(new.fileLen, old.fileLen)
  THEN new
  ELSE Garbled

EraseSector(f, at) ==
  [a \in DOMAIN f |-> IF a \div SecSize = at \div SecSize THEN Erased ELSE f[a]]

updateFlash(at, cell) == <<[at |-> at, cell |-> cell, erase |-> FALSE]>>

\* Mutant: a sector is erased only if the write begins with it.
writeFlashFirst(at, cells) ==
  [i \in 1..Len(cells) |->
    [at |-> at + i - 1, cell |-> cells[i], erase |-> i = 1 /\ at % SecSize = 0]]

\* A cell on the boundary of a sector has the sector erased first.
writeFlash(at, cells) ==
  [i \in 1..Len(cells) |->
    [at |-> at + i - 1, cell |-> cells[i], erase |-> (at + i - 1) % SecSize = 0]]

roffs_format == writeFlash(Base, <<Terminator>>)

\* Mutant: the sector the old version lies in is reclaimed.
roffs_createReclaim(f, n) ==
  (IF Versions(f, Strip[n]) = {}
     THEN <<>>
     ELSE LET p == Max(Versions(f, Strip[n])) IN <<[at |-> p, cell |-> f[p], erase |-> TRUE]>>)
  \o writeFlash(LogEnd(f), <<NewHeader>>) \o writeFlash(LogEnd(f) + 1, <<n>>)

\* The old version goes before the new header is written.  It is looked for without the
\* '/' that the new name keeps.
roffs_create(f, n) ==
  (IF Versions(f, Strip[n]) = {}
     THEN <<>>
     ELSE LET p == Max(Versions(f, Strip[n]))
          IN  updateFlash(p, [f[p] EXCEPT !.flags = @ \ {"ACTIVE"}]))
  \o writeFlash(LogEnd(f), <<NewHeader>>)
  \o writeFlash(LogEnd(f) + 1, <<n>>)

Start(u) == u.header + 2

roffs_close(u) ==
  updateFlash(u.header, [NewHeader EXCEPT !.flags = @ \ {"PENDING"}, !.fileLen = Len(u.data)])
  \o writeFlash(Start(u) + Len(u.data), <<Terminator>>)

Fits(u, data) == Start(u) + Len(u.data) + Len(data) <= Top

\* The rest of the handler once the file is open; a full file system ends
\* the upload without closing the file.
roffs_write(u, data, final) ==
  IF ~Fits(u, data) THEN <<>>
  ELSE writeFlash(Start(u) + Len(u.data), data)
       \o (IF final THEN roffs_close([u EXCEPT !.data = @ \o data]) ELSE <<>>)

Taken(u, data, final) ==
  IF ~Fits(u, data) THEN [u EXCEPT !.stage = "dropped"]
  ELSE [u EXCEPT !.data = @ \o data, !.stage = IF final THEN "whole" ELSE "open"]

\* A handler that is done has let go of the file, unless more is to come.
LetGo(ups, ops) ==
  [c \in Conns |-> IF ops = <<>> /\ ups[c] # None /\ ups[c].stage # "open" THEN None ELSE ups[c]]

Run(ups, ops, c) ==
  /\ todo' = ops
  /\ busy' = c
  /\ uploads' = LetGo(ups, ops)

Idle == todo = <<>> /\ ~wild

\* Buffers are full, but for the last.
Bodies(final) == IF final THEN BoundedSeq(Values, Chunk) ELSE [1..Chunk -> Values]

-----------------------------------------------------------------------------

\* cgiPropInit mounts what is there, or formats it.
Mount == todo' = (IF flash[Base] \in Header THEN <<>> ELSE roffs_format)

Init ==
  /\ flash = [a \in Base..Top |-> Stale]
  /\ todo = roffs_format
  /\ busy = None
  /\ uploads = [c \in Conns |-> None]
  /\ readers = [c \in Conns |-> None]
  /\ jump = None
  /\ wild = FALSE

\* The first buffer of an upload.
Create(c, n, data, final) ==
  /\ Idle /\ uploads[c] = None /\ readers[c] = None
  /\ HasFlag(flash, LogEnd(flash), "LAST")
  /\ LogEnd(flash) + 2 <= Top
  /\ LET u == [name |-> n, header |-> LogEnd(flash), data |-> <<>>, stage |-> "open"]
     IN  Run([uploads EXCEPT ![c] = Taken(u, data, final)],
             roffs_create(flash, n) \o roffs_write(u, data, final), c)
  /\ UNCHANGED <<flash, readers, jump, wild>>

\* An upload that was not closed, or is not closed yet, is in the way: the new
\* one does not go behind it but into the first sector of the whole flash.
Recover(c) ==
  /\ Idle /\ uploads[c] = None /\ readers[c] = None
  /\ HasFlag(flash, LogEnd(flash), "PENDING") /\ ~HasFlag(flash, LogEnd(flash), "LAST")
  /\ jump' = [from |-> LogEnd(flash), to |-> (LogEnd(flash) + SecSize - 1) % SecSize]
  /\ wild' = TRUE
  /\ UNCHANGED <<flash, todo, busy, uploads, readers>>

\* A further buffer of an upload.
Write(c, data, final) ==
  /\ Idle /\ uploads[c] # None /\ data # <<>>
  /\ Run([uploads EXCEPT ![c] = Taken(uploads[c], data, final)],
         roffs_write(uploads[c], data, final), c)
  /\ UNCHANGED <<flash, readers, jump, wild>>

\* The connection of an upload is gone: what has come of the file is the file.
Cleanup(c) ==
  /\ Idle /\ uploads[c] # None
  /\ Run([uploads EXCEPT ![c].stage = "whole"], roffs_close(uploads[c]), c)
  /\ UNCHANGED <<flash, readers, jump, wild>>

\* Nothing looks after files that are open.
Format ==
  /\ Idle
  /\ todo' = roffs_format
  /\ busy' = None
  /\ wild' = (\E c \in Conns : uploads[c] # None \/ readers[c] # None)
  /\ UNCHANGED <<flash, uploads, readers, jump>>

Download(c, n) ==
  /\ Idle /\ uploads[c] = None /\ readers[c] = None
  /\ Versions(flash, Strip[n]) # {}
  /\ LET p == Min(Versions(flash, Strip[n]))
     IN  readers' = [readers EXCEPT ![c] =
           [start |-> p + 1 + flash[p].nameLen, size |-> flash[p].fileLen, offset |-> 0,
            version |-> File(flash, Strip[n])]]
  /\ UNCHANGED <<flash, todo, busy, uploads, jump, wild>>

\* A full buffer means that there may be more.
Read(c) ==
  /\ Idle /\ readers[c] # None
  /\ LET r == readers[c]
     IN  readers' = [readers EXCEPT ![c] =
           IF r.size - r.offset >= Chunk THEN [r EXCEPT !.offset = @ + Chunk] ELSE None]
  /\ UNCHANGED <<flash, todo, busy, uploads, jump, wild>>

\* The connection of a download is gone.
Release(c) ==
  /\ Idle /\ readers[c] # None
  /\ readers' = [readers EXCEPT ![c] = None]
  /\ UNCHANGED <<flash, todo, busy, uploads, jump, wild>>

-----------------------------------------------------------------------------
(* Flash operations happen, or do not. *)

\* The header that is next to be written, if there is one.
NextHeader ==
  {i \in DOMAIN todo : /\ todo[i].cell \in Header
                       /\ \A j \in 1 .. i - 1 : todo[j].cell \notin Header}

\* The log has no end now: it is the next header.
Endless ==
  \E i \in NextHeader :
    \/ flash[todo[i].at] = Erased
    \/ todo[i].cell = Terminator /\ todo[i].at # Base

Erase ==
  /\ todo # <<>> /\ ~wild
  /\ Head(todo).erase
  /\ flash' = EraseSector(flash, Head(todo).at)
  /\ todo' = updateFlash(Head(todo).at, Head(todo).cell) \o Tail(todo)
  /\ UNCHANGED <<busy, uploads, readers, jump, wild>>

Program ==
  /\ todo # <<>> /\ ~wild
  /\ ~Head(todo).erase
  /\ flash' = [flash EXCEPT ![Head(todo).at] = Programmed(@, Head(todo).cell)]
  /\ todo' = Tail(todo)
  /\ uploads' = LetGo(uploads, Tail(todo))
  /\ UNCHANGED <<busy, readers, jump, wild>>

\* The handler gives up and lets go of the file, which is not closed.
FlashError ==
  /\ todo # <<>> /\ ~wild
  /\ todo' = <<>>
  /\ uploads' = [c \in Conns |-> IF c = busy THEN None ELSE uploads[c]]
  /\ wild' = Endless
  /\ UNCHANGED <<flash, busy, readers, jump>>

Reset ==
  /\ ~wild
  /\ Mount
  /\ busy' = None
  /\ uploads' = [c \in Conns |-> None]
  /\ readers' = [c \in Conns |-> None]
  /\ wild' = (Endless /\ \A i \in NextHeader : todo[i].at # Base)
  /\ UNCHANGED <<flash, jump>>

Next ==
  \/ \E c \in Conns :
       \/ \E final \in BOOLEAN : \E data \in Bodies(final) :
            \/ \E n \in Names : Create(c, n, data, final)
            \/ Write(c, data, final)
       \/ Recover(c) \/ Cleanup(c)
       \/ \E n \in Names : Download(c, n)
       \/ Read(c) \/ Release(c)
  \/ Format
  \/ Erase \/ Program \/ FlashError \/ Reset

Spec == Init /\ [][Next]_vars

-----------------------------------------------------------------------------
(* Properties. *)

\* The cells hold what cells can hold, and open files lie in the file system.
TypeOK ==
  /\ flash \in [Base..Top -> Cells]
  /\ todo \in Seq([at : Base..Top, cell : Cells, erase : BOOLEAN])
  /\ busy \in Conns \cup {None}
  /\ uploads \in [Conns -> Uploads \cup {None}]
  /\ readers \in [Conns -> Downloads \cup {None}]
  /\ jump # None => wild
  /\ wild \in BOOLEAN

\* writeFlash erases each sector in time, and updateFlash only clears bits: no
\* cell is written over, whatever was uploaded, deleted, formatted or cut short.
NothingGarbled == \A a \in DOMAIN flash : flash[a] # Garbled

\* A download reads the version that was there when it began, though the file
\* may be replaced meanwhile (cgiRoffsHook, roffs_read).
ReadersUndisturbed ==
  ~wild => \A c \in Conns : readers[c] # None =>
    LET r == readers[c]
    IN  \A i \in r.offset + 1..r.size : flash[r.start + i - 1] = r.version[i]

\* A name without a '/' in front is listed if one can open the file, once and with the
\* size of its content, and the count is that of the listing (fs_do_fcount and
\* fs_do_finfo against roffs_open).  An upload whose name begins with a '/' is listed too,
\* cannot be opened, and is not replaced by the next one.
ListingIsTrue(f) ==
  LET info == [i \in 0 .. Cardinality(Active(f)) |-> roffs_fileinfo(f, i)]
      with(n) == {i \in DOMAIN info : info[i] # None /\ info[i].name = n}
      files == Files(f)
  IN /\ \A n \in Plain :
          IF files[n] = None THEN with(n) = {}
          ELSE \E i \in with(n) : with(n) = {i} /\ info[i].size = Len(files[n])
     /\ roffs_filecount(f) \in {None, Cardinality({i \in DOMAIN info : info[i] # None})}

\* Between handlers the log ends, in a terminator or an upload that is not closed, so
\* that find_file_and_insertion_point meets no bad magic number; an open upload is what
\* it ends in, so that roffs_close extends the log there; and no name one can look for
\* stands in it twice, so that roffs_open, which takes the first, roffs_create, which deletes the
\* last, and the listing, which shows each, mean the same file.
LogIsSound ==
  /\ TypeOK
  /\ Idle =>
       /\ \/ LogEnd(flash) = Base    \* a format that failed
          \/ HasFlag(flash, LogEnd(flash), "LAST")
          \/ HasFlag(flash, LogEnd(flash), "PENDING")
       /\ \A c \in Conns : uploads[c] # None => uploads[c].header = LogEnd(flash)
       /\ ListingIsTrue(flash)

\* The files one sees while the end of the log is on its way into the flash.
Visible ==
  IF Endless
    THEN Files([a \in DOMAIN flash |->
                 IF \E i \in NextHeader : a = todo[i].at THEN Erased ELSE flash[a]])
    ELSE Files(flash)

Drafts ==
  [c \in Conns |->
    IF uploads[c] = None THEN None
    ELSE [name |-> uploads[c].name, data |-> uploads[c].data,
          whole |-> uploads[c].stage = "whole"]]

Store == INSTANCE RoffsStore WITH files <- Visible, drafts <- Drafts

\* Whenever a reset or a flash error comes, a name stands for nothing or for
\* the whole of what an upload brought (roffs_create to roffs_close).
ImplementsRoffsStore == Store!Spec

\* "move ahead to next sector boundary" (roffs.c:465): the place for a new
\* upload after a leftover one was found.
LeftoverSkipped ==
  jump # None => /\ jump.to % SecSize = 0
                 /\ jump.to >= jump.from /\ jump.to < jump.from + SecSize
=============================================================================
