------------------------------ MODULE OtaUpload -------------------------------
(***************************************************************************)
(* Firmware upgrades (libesphttpd/util/cgiflash.c): images uploaded from    *)
(* several browsers at once, flash operations that may fail, and the        *)
(* restart into the other image.  cgiUploadFirmware works on one buffer of  *)
(* the body, here in a step per round of its loop, and nothing else happens *)
(* meanwhile.  A page of the flash holds numbers of bytes of the body.      *)
(***************************************************************************)
EXTENDS Integers, Sequences

CONSTANTS
  Uploads,     \* connections that upload, each once
  Files,       \* what they send: [kind, fits, len1, len2, size]
  PageLen,     \* PAGELEN
  SectorPages, \* pages in a sector
  FwPages,     \* pages in fwSize
  PartAt,      \* fw1Pos and fw2Pos, in pages
  FlashPages,  \* pages the flash has
  HeaderLen,   \* sizeof(OtaHeader)
  BuffSize     \* MAX_POST

\* kind: what the first bytes are taken for, ota for a file of mkupgimg with both images,
\* bin for a single image; fits: the tag is this module's, or the URL forces it; len1, len2:
\* any int32_t; size: the bytes sent, which may be more or fewer than the header says, or
\* fewer than a header.  The parts begin with a sector.
ASSUME OtaAssumption ==
  /\ \A f \in Files : /\ f.kind \in {"ota", "bin", "other"} /\ f.fits \in BOOLEAN
                      /\ f.len1 \in Int /\ f.len2 \in Int /\ f.size \in Nat
  /\ {PageLen, SectorPages, FwPages, HeaderLen, FlashPages} \subseteq Nat \ {0}
  /\ BuffSize \in Nat /\ BuffSize >= HeaderLen
  /\ PartAt \in [{1, 2} -> Nat] /\ \A i \in {1, 2} : PartAt[i] % SectorPages = 0

VARIABLES
  up,          \* UploadState of each connection
  running,     \* the image that runs, 1 or 2
  pages,       \* what the flash holds
  resetTimer,  \* it is armed
  offBody      \* memory outside the body has been used: what follows is not modelled

otaVars == <<up, running, pages, resetTimer, offBody>>

\* at: bytes of the body done with; left: what the buffer still has; page: pageData up to
\* pagePos; address: a page, from the beginning of the part.  history: mixed, another upload
\* has written where this one had; bad, an operation of the flash failed.
NoFile == [kind |-> "other", fits |-> FALSE, len1 |-> 0, len2 |-> 0, size |-> 1]
NoUpload == [state |-> "NONE", file |-> NoFile, at |-> 0, left |-> 0, len |-> 0, skip |-> 0,
             part |-> 1, page |-> <<>>, address |-> 0, mixed |-> FALSE, bad |-> FALSE]

Over == [NoUpload EXCEPT !.state = "OVER"]

Old == <<-1>>        \* what was there before
Garbled == <<-2>>    \* written over without an erase
Erased == <<>>

OtaInit ==
  /\ up = [u \in Uploads |-> NoUpload]
  /\ running \in {1, 2}
  /\ pages = [b \in 0 .. FlashPages - 1 |-> Old]
  /\ resetTimer = FALSE /\ offBody = FALSE

Active == {u \in Uploads : up[u].state \notin {"NONE", "OVER"}}
Ended(u) == up[u].left = 0 /\ up[u].at = up[u].file.size
Resting == \A u \in Active : up[u].left = 0 /\ ~Ended(u)

Smaller(a, b) == IF a < b THEN a ELSE b

-----------------------------------------------------------------------------
(* cgiUploadFirmware *)

\* The first call.
Begin(u, f) ==
  /\ Resting /\ up[u].state = "NONE"
  /\ up' = [up EXCEPT ![u] = [NoUpload EXCEPT !.state = "START", !.file = f]]
  /\ UNCHANGED <<running, pages, resetTimer, offBody>>

\* httpdRecvCb has filled the buffer, or the body ends.
Call(u) ==
  /\ Resting /\ u \in Active
  /\ up' = [up EXCEPT ![u].left = Smaller(up[u].file.size - up[u].at, BuffSize)]
  /\ UNCHANGED <<running, pages, resetTimer, offBody>>

Used(r, n) == [r EXCEPT !.left = @ - n, !.at = @ + n]

\* The image that does not run (system_upgrade_userbin_check).
Target == 3 - running

\* Mutant of Chosen: the lengths of the two images are swapped.
ChosenSwapped(r) ==
  [Used(r, HeaderLen) EXCEPT !.part = Target,
     !.state = IF Target = 1 THEN "WRITE" ELSE "SKIP",
     !.len = IF Target = 1 THEN r.file.len2 ELSE r.file.len1,
     !.skip = IF Target = 1 THEN r.file.len1 ELSE r.file.len2]

\* Of a file with both images one is written and the other passed over.
Chosen(r) ==
  [Used(r, HeaderLen) EXCEPT !.part = Target,
     !.state = IF Target = 1 THEN "WRITE" ELSE "SKIP",
     !.len = IF Target = 1 THEN r.file.len1 ELSE r.file.len2,
     !.skip = IF Target = 1 THEN r.file.len2 ELSE r.file.len1]

FwSize == FwPages * PageLen

\* What the code does not check: the header is all there, its lengths are none below zero.
Unchecked(r) ==
  \/ r.state = "START" /\ r.file.kind = "ota" /\ r.file.size < HeaderLen
  \/ r.state = "SKIP" /\ r.skip < 0
  \/ r.state = "WRITE" /\ r.len < 0

\* The header is read, data moved or bytes copied outside the buffer, dataLen is wrong.
PastBody(u) ==
  /\ up[u].left > 0 /\ Unchecked(up[u])
  /\ offBody' = TRUE /\ UNCHANGED <<up, running, pages, resetTimer>>

\* A single image goes to the first part, whichever image runs.
StartUpload(u) ==
  LET r == up[u] f == r.file IN
  /\ r.left > 0 /\ r.state = "START" /\ ~Unchecked(r)
  /\ up' = [up EXCEPT ![u] =
       IF f.kind = "ota" /\ f.fits /\ f.size <= 2 * FwSize + HeaderLen THEN Chosen(r)
       ELSE IF f.kind = "bin" /\ f.size <= FwSize
         THEN [r EXCEPT !.state = "WRITE", !.len = f.size, !.part = 1]
       ELSE [r EXCEPT !.state = "ERROR"]]
  /\ UNCHANGED <<running, pages, resetTimer, offBody>>

Skip(u) ==
  LET r == up[u] IN
  /\ r.left > 0 /\ r.state = "SKIP" /\ ~Unchecked(r)
  /\ up' = [up EXCEPT ![u] =
       IF r.skip > r.left THEN [Used(r, r.left) EXCEPT !.skip = @ - r.left]
       ELSE [Used(r, r.skip) EXCEPT !.skip = 0,
               !.state = IF r.len # 0 THEN "WRITE" ELSE "DONE"]]
  /\ UNCHANGED <<running, pages, resetTimer, offBody>>

\* n bytes go to pageData.
PageFilled(r, n) ==
  [Used(r, n) EXCEPT !.page = @ \o [i \in 1 .. n |-> r.at + i], !.len = @ - n]

\* What the page, or the end of the image, still needs.
Needed(r) == Smaller(PageLen - Len(r.page), r.len)

\* A page is programmed: right only on what was erased.
Programmed(old, data) == IF data = <<>> THEN old ELSE IF old = Erased THEN data ELSE Garbled

Sector(b) == b \div SectorPages

\* The flash once the sector is erased, if the page is its first and the flash obeys.
Prepared(old, a, obeys) ==
  [b \in DOMAIN old |->
     IF obeys /\ a % SectorPages = 0 /\ Sector(b) = Sector(a) THEN Erased ELSE old[b]]

\* The page an upload is at, and the sectors it has written to.
At(r) == PartAt[r.part] + r.address
Touched(r) == {Sector(PartAt[r.part] + a) : a \in 0 .. r.address - 1}

\* FLST_WRITE, short of a page.
Gather(u) ==
  LET r == up[u] IN
  /\ r.left > 0 /\ r.state = "WRITE" /\ ~Unchecked(r) /\ r.left < Needed(r)
  /\ up' = [up EXCEPT ![u] = PageFilled(r, r.left)]
  /\ UNCHANGED <<running, pages, resetTimer, offBody>>

\* FLST_WRITE, a page, which may be behind the part, or behind the flash, which refuses it
\* then; what the flash answers is not looked at.
WritePage(u) ==
  LET r == PageFilled(up[u], Needed(up[u])) a == At(r) IN
  /\ up[u].left > 0 /\ up[u].state = "WRITE" /\ ~Unchecked(up[u]) /\ up[u].left >= Needed(up[u])
  /\ \E erases, writes \in BOOLEAN :
       /\ erases \/ writes => a < FlashPages
       /\ pages' = [Prepared(pages, a, erases) EXCEPT ![a] =
                     IF writes THEN Programmed(@, r.page) ELSE @]
       /\ up' = [v \in Uploads |->
            IF v = u
              THEN [r EXCEPT !.page = <<>>, !.address = @ + 1,
                      !.bad = @ \/ ~writes \/ (~erases /\ a % SectorPages = 0),
                      !.state = IF r.len > 0 THEN "WRITE" ELSE IF r.skip # 0 THEN "SKIP" ELSE "DONE"]
            ELSE IF v \in Active /\ Sector(a) \in Touched(up[v]) THEN [up[v] EXCEPT !.mixed = TRUE]
            ELSE up[v]]
  /\ UNCHANGED <<running, resetTimer, offBody>>

\* Bytes behind the image, or of a file that was refused.
Ignore(u) ==
  /\ up[u].left > 0 /\ up[u].state \in {"DONE", "ERROR"}
  /\ up' = [up EXCEPT ![u] = Used(@, @.left)]
  /\ UNCHANGED <<running, pages, resetTimer, offBody>>

\* The answer, 400 in ERROR and else 200, with a complaint unless DONE.
Answer(u) ==
  /\ u \in Active /\ Ended(u)
  /\ up' = [up EXCEPT ![u] = Over]
  /\ UNCHANGED <<running, pages, resetTimer, offBody>>

\* The connection is lost: the clean-up call.
Lost(u) ==
  /\ Resting /\ u \in Active
  /\ up' = [up EXCEPT ![u] = Over]
  /\ UNCHANGED <<running, pages, resetTimer, offBody>>

-----------------------------------------------------------------------------

cgiRebootFirmware == Resting /\ resetTimer' = TRUE /\ UNCHANGED <<up, running, pages, offBody>>

upgradeTimerCb ==
  /\ Resting /\ resetTimer
  /\ resetTimer' = FALSE /\ running' = Target
  /\ up' = [u \in Uploads |-> IF u \in Active THEN Over ELSE up[u]]
  /\ UNCHANGED <<pages, offBody>>

cgiUploadFirmware(u) ==
  \/ \E f \in Files : Begin(u, f)
  \/ Call(u) \/ StartUpload(u) \/ Skip(u) \/ Gather(u) \/ WritePage(u) \/ PastBody(u)
  \/ Ignore(u) \/ Answer(u) \/ Lost(u)

OtaNext ==
  /\ ~offBody
  /\ (\E u \in Uploads : cgiUploadFirmware(u)) \/ cgiRebootFirmware \/ upgradeTimerCb

OtaSpec == OtaInit /\ [][OtaNext]_otaVars

-----------------------------------------------------------------------------
(* Properties. *)

\* The number of the byte before the image of that part, and its length.
Before(f, part) == IF f.kind = "bin" THEN 0 ELSE IF part = 1 THEN HeaderLen ELSE HeaderLen + f.len1
Length(f, part) == IF f.kind = "bin" THEN f.size ELSE IF part = 1 THEN f.len1 ELSE f.len2

\* However the body was cut, an upload that has come to FLST_DONE has left its image, all
\* of it and in order, in the flash, be it longer than its part, unless an operation of the
\* flash failed or another upload wrote to one of its sectors meanwhile.
DoneIsWritten ==
  \A u \in Uploads : LET r == up[u] n == Length(r.file, r.part) IN
    r.state = "DONE" /\ ~r.mixed /\ ~r.bad =>
      \A a \in 0 .. n : a * PageLen < n =>
        pages[PartAt[r.part] + a] = [i \in 1 .. Smaller(PageLen, n - a * PageLen) |->
                                       Before(r.file, r.part) + a * PageLen + i]
===============================================================================
