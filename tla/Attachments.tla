---------------------------- MODULE Attachments ----------------------------
(***************************************************************************)
(* The attachment cache: files of one message on disk, the rows that say   *)
(* which file holds which part, the paths that wait for the reaper, and    *)
(* the fetches under way.                                                  *)
(*                                                                         *)
(*   apps/desktop/electron/attachments/service.ts  ensureCached            *)
(*   apps/desktop/electron/attachments/cache.ts    readCached, writeCached *)
(*   apps/desktop/electron/attachments/paths.ts    uniqueFilename          *)
(*   apps/desktop/electron/attachments/reaper.ts   AttachmentReaper        *)
(*   packages/store/src/queries/attachments.ts     the two tables          *)
(*   packages/store/src/db.ts                      the trigger             *)
(*                                                                         *)
(* The parts of the message have the same name, so a path is the number    *)
(* behind it: scan.pdf is 1, scan-1.pdf is 2.  The check that a path is    *)
(* inside the folder, modes, sizes, progress and the .part file are left   *)
(* out.  Renaming a file and writing its row are one turn, so nothing but  *)
(* the death of the app comes between them: LandsDies.                     *)
(***************************************************************************)
EXTENDS Naturals, FiniteSets, FiniteSetsExt

CONSTANTS
  Parts,
  NoPart,
  MaxNames,    \* Bound: numbers behind a name (999 in the code).
  Batch,       \* Paths of a sweep (200).
  MaxFetches,  \* Bound: fetches of a part at the same time.
  MaxLosses,   \* Bound: how often the message goes.
  MaxDeaths,   \* Bound: how often the app dies in a sweep or a landing.
  MaxRefusals, \* Bound: sweeps in which the disk will not give up a file.
  MaxRemovals  \* Bound: files removed by hand.

Names == 1..MaxNames

VARIABLES
  here,      \* The message is in the store.
  row,       \* attachment_files: the path of a part, 0 when there is no row.
  file,      \* What is on the disk under a path: the bytes of a part, or NoPart.
  orphans,   \* orphan_attachments, as the set of its paths.
  fetching,  \* How many fetches of a part are under way.
  left,      \* History: files that no row and no orphan knows of any more.
  emptied,   \* History: a file was removed by hand.
  counts     \* losses, deaths, refusals, removals

vars == <<here, row, file, orphans, fetching, left, emptied, counts>>

Counted(what, most) == counts[what] < most /\ counts' = [counts EXCEPT ![what] = @ + 1]

Exists(n) == file[n] # NoPart

Init ==
  /\ here = TRUE
  /\ row = [p \in Parts |-> 0]
  /\ file = [n \in Names |-> NoPart]
  /\ orphans = {}
  /\ fetching = [p \in Parts |-> 0]
  /\ left = {}
  /\ emptied = FALSE
  /\ counts = [losses |-> 0, deaths |-> 0, refusals |-> 0, removals |-> 0]

-----------------------------------------------------------------------------
(* Opening a part. *)

(* A fault: a deleted row takes its path with it. *)
FaultyOrphaned(ps) == orphans

(* attachment_files_orphan: a row that is deleted leaves its path behind,  *)
(* whichever way the delete came down.                                     *)
Orphaned(ps) == orphans \cup {row[p] : p \in {q \in ps : row[q] # 0}}

(* readCached misses: a row without its file is forgotten, and the bytes   *)
(* are asked for.                                                          *)
Open(p) ==
  /\ here
  /\ row[p] # 0 => ~Exists(row[p])
  /\ fetching[p] < MaxFetches
  /\ orphans' = Orphaned({p})
  /\ row' = [row EXCEPT ![p] = 0]
  /\ fetching' = [fetching EXCEPT ![p] = @ + 1]
  /\ UNCHANGED <<here, file, left, emptied, counts>>

(* A fault: any name that no other row has will do. *)
FaultyTaken(n, p) == \E q \in Parts \ {p} : row[q] = n

(* The name of another file; the part's own file is being replaced. *)
Taken(n, p) == n # row[p] /\ Exists(n)

(* uniqueFilename *)
NameFor(p) == Min({n \in Names : ~Taken(n, p)})

(* writeCached: the bytes go under a free name.  When the message went     *)
(* meanwhile the row is refused, and when the part was fetched twice it    *)
(* may get a new name: either way a file is left behind.                   *)
Lands(p) ==
  /\ fetching[p] > 0 /\ \E n \in Names : ~Taken(n, p)
  /\ fetching' = [fetching EXCEPT ![p] = @ - 1]
  /\ LET n == NameFor(p)
     IN  /\ file' = [file EXCEPT ![n] = p]
         /\ IF here
            THEN /\ row' = [row EXCEPT ![p] = n]
                 /\ left' = (left \ {n}) \cup {m \in {row[p]} \ {0, n} : Exists(m)}
            ELSE left' = left \cup {n} /\ UNCHANGED row
  /\ UNCHANGED <<here, orphans, emptied, counts>>

(* The app dies when the file has its name and no row yet, or the old one. *)
LandsDies(p) ==
  /\ fetching[p] > 0 /\ \E n \in Names : ~Taken(n, p)
  /\ Counted("deaths", MaxDeaths)
  /\ fetching' = [q \in Parts |-> 0]
  /\ LET n == NameFor(p)
     IN  file' = [file EXCEPT ![n] = p] /\ left' = left \cup ({n} \ {row[p]})
  /\ UNCHANGED <<here, row, orphans, emptied>>

(* Signed out, gone in Gmail, the wrong size: a toast. *)
Fails(p) ==
  /\ fetching[p] > 0
  /\ fetching' = [fetching EXCEPT ![p] = @ - 1]
  /\ UNCHANGED <<here, row, file, orphans, left, emptied, counts>>

-----------------------------------------------------------------------------
(* The message goes, and may come back; the reaper. *)

(* The message is deleted, or its thread or account: its rows cascade. *)
MessageGoes ==
  /\ here /\ Counted("losses", MaxLosses)
  /\ here' = FALSE
  /\ orphans' = Orphaned(Parts)
  /\ row' = [p \in Parts |-> 0]
  /\ UNCHANGED <<file, fetching, left, emptied>>

(* The account is added again. *)
MessageReturns ==
  /\ ~here /\ here' = TRUE
  /\ UNCHANGED <<row, file, orphans, fetching, left, emptied, counts>>

Batches == {B \in SUBSET orphans : Cardinality(B) = Min({Batch, Cardinality(orphans)})}

Without(B) == [n \in Names |-> IF n \in B THEN NoPart ELSE file[n]]

(* Of the paths that were taken, those in gone are unlinked; the file of   *)
(* another stays, and nothing knows of it but a row that names it.         *)
Unlinks(taken, gone) ==
  /\ orphans' = orphans \ taken
  /\ file' = Without(gone)
  /\ left' = (left \ gone) \cup {n \in taken \ gone : Exists(n) /\ \A p \in Parts : row[p] # n}

(* sweep: on start and every ten minutes, a batch of paths is taken from   *)
(* the table and unlinked.  A file "the disk will not give up right now"   *)
(* is passed over (unlinkOrphans): its path is taken all the same.         *)
Sweep(B) ==
  /\ B # {}
  /\ \/ Unlinks(B, B) /\ UNCHANGED counts
     \/ /\ \E kept \in SUBSET {n \in B : Exists(n)} : kept # {} /\ Unlinks(B, B \ kept)
        /\ Counted("refusals", MaxRefusals)
  /\ UNCHANGED <<here, row, fetching, emptied>>

(* The app dies in a sweep: what was taken and not unlinked is forgotten,  *)
(* and so are the fetches.                                                 *)
SweepDies ==
  /\ orphans # {} /\ Counted("deaths", MaxDeaths)
  /\ \E B \in Batches : \E taken \in SUBSET B : \E gone \in SUBSET taken :
       (gone # {} => taken = B) /\ Unlinks(taken, gone)
  /\ fetching' = [p \in Parts |-> 0]
  /\ UNCHANGED <<here, row, emptied>>

(* "the folder was emptied by hand" (queries/attachments.ts:52) *)
RemovedByHand(n) ==
  /\ Exists(n) /\ Counted("removals", MaxRemovals)
  /\ file' = Without({n})
  /\ left' = left \ {n}
  /\ emptied' = TRUE
  /\ UNCHANGED <<here, row, orphans, fetching>>

Next ==
  \/ \E p \in Parts : Open(p) \/ Lands(p) \/ LandsDies(p) \/ Fails(p)
  \/ MessageGoes \/ MessageReturns
  \/ \E B \in Batches : Sweep(B)
  \/ SweepDies
  \/ \E n \in Names : RemovedByHand(n)

(* The oldest go first, so every path has its turn. *)
Swept(n) == \E B \in Batches : n \in B /\ Sweep(B)

Spec == Init /\ [][Next]_vars /\ \A n \in Names : WF_vars(Swept(n))

-----------------------------------------------------------------------------
(* Properties. *)

(* What opens as a part is that part, though both have the same name, are  *)
(* fetched at the same time, and the message goes and comes back before    *)
(* the reaper ran; unless a file was removed by hand (cache.ts:74).        *)
RightBytes == ~emptied => \A p \in Parts : row[p] # 0 => file[row[p]] = p

(* No file stays on disk without a row ("Deleting the message must not     *)
(* leave the file behind", db.ts:187), but those of left, which the code   *)
(* gives up in five ways: it landed when the message was gone, the part    *)
(* was fetched twice, the app died before its row was written or between   *)
(* taking its path and the unlink, or the unlink failed.                   *)
Reaped == <>[](\A n \in Names : Exists(n) => n \in left \/ \E p \in Parts : row[p] = n)

(* The same without the exceptions: nobody's file stays for good. *)
NothingLeft == <>[](\A n \in Names : Exists(n) => \E p \in Parts : row[p] = n)

(* A file that was removed by hand is fetched again, and stays then: "The  *)
(* delete trigger sends the path to orphan_attachments, which is harmless" *)
(* (queries/attachments.ts:54).                                            *)
SweepIsHarmless == [][\A p \in Parts : row[p] # 0 /\ Exists(row[p]) /\ row'[p] = row[p] /\ counts' = counts
                        => file'[row[p]] # NoPart]_vars
=============================================================================
