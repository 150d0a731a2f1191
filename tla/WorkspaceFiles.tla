---- MODULE WorkspaceFiles ----
(***************************************************************************)
(* The Agent's own file operations: write_workspace_file with its          *)
(* precondition, staging and atomic publication, beside another process of *)
(* the machine that edits, replaces, links or removes the same target or   *)
(* puts another directory in the parent's place; and the paged reads of    *)
(* files and directories beside one that adds and removes entries.         *)
(*                                                                         *)
(* Paths are abstracted to the directory a parent names (an identity) and  *)
(* the entry of the target in it; contents are small values, a digest is   *)
(* the content it is the digest of.                                        *)
(***************************************************************************)
EXTENDS Naturals, Sequences, FiniteSets, SequencesExt

CONSTANTS Dirs,         \* directories the parent's path may come to name
          Contents,     \* what the target may hold; the writer's is "new"
          Names,        \* of a listed directory, as numbers in their order
          NameCost,     \* bytes an entry takes in the answer
          PageEntries, PageBytes, ScanLimit,
          MaxFileRead, FileSize,
          MaxOutside    \* steps of the other process

New == "new"
Absent == [kind |-> "absent", ino |-> 0, content |-> "", links |-> 0]
File(ino, content) == [kind |-> "file", ino |-> ino, content |-> content, links |-> 1]

VARIABLES surface,   \* "write", "list" or "read"
          named,     \* the directory the canonical parent names now
          entry,     \* directory -> the target's entry
          disk,      \* directory -> the entry a crash would leave
          temp,      \* directory -> whether a staged file lies in it
          writer,    \* the call in progress
          displaced, \* what publication replaced, and whether it was touched since the last check
          entries, reader, outside

filesVars == <<surface, named, entry, disk, temp, writer, displaced, entries, reader, outside>>

ASSUME FilesConstants ==
    /\ {PageEntries, PageBytes, ScanLimit, MaxFileRead, FileSize, MaxOutside} \subseteq Nat
    /\ New \notin Contents

Idle == [pc |-> "idle", create |-> FALSE, expected |-> "", handle |-> "none",
         initial |-> Absent, syncs |-> FALSE, told |-> "none", touched |-> FALSE]
NoReader == [cursor |-> 0, got |-> <<>>, present |-> {}, done |-> FALSE, failed |-> FALSE]
NothingDisplaced == [done |-> FALSE, was |-> Absent, meant |-> Absent, expected |-> "", touched |-> FALSE]

FilesInit ==
    /\ surface \in {"write", "list", "read"}
    /\ named \in (IF surface = "write" THEN Dirs ELSE {CHOOSE d \in Dirs : TRUE})
    /\ \E first \in {Absent} \cup {File(1, c) : c \in Contents} :
          entry = [d \in Dirs |-> IF d = named THEN first ELSE Absent]
    /\ disk = entry /\ temp = [d \in Dirs |-> FALSE]
    /\ writer = Idle /\ displaced = NothingDisplaced
    /\ entries \in (IF surface = "list" THEN SUBSET Names ELSE {{}})
    /\ reader = NoReader /\ outside = 0

writeSide == <<named, entry, disk, temp, writer, displaced>>
readSide == <<entries, reader>>

-----------------------------------------------------------------------------
(* write_file.                                                             *)

\* Before anything is touched: sizes, the precondition's form, the parent
\* reopened from an allowed root and found to be the directory its path names.
StartWrite(create, expected) ==
    /\ surface = "write" /\ writer.pc = "idle"
    /\ writer' = [Idle EXCEPT !.pc = "inspect", !.create = create, !.expected = expected, !.handle = named]
    /\ UNCHANGED <<named, entry, disk, temp, displaced>>

\* inspect_target: no symlink, a regular file with one link, its digest.
Inspectable(e) == e.kind = "file" => e.links = 1
PreconditionHolds(e) ==
    /\ e.kind # "symlink"
    /\ IF writer.create THEN e = Absent ELSE e.kind = "file" /\ e.content = writer.expected

Refuse == writer' = [Idle EXCEPT !.pc = "told", !.told = "refused", !.handle = writer.handle]

Unproven == writer' = [Idle EXCEPT !.pc = "told", !.told = "unproven", !.handle = writer.handle]

InspectTarget ==
    /\ writer.pc = "inspect"
    /\ LET e == entry[writer.handle]
       IN IF Inspectable(e) /\ PreconditionHolds(e)
          THEN writer' = [writer EXCEPT !.pc = "stage", !.initial = e]
          ELSE Refuse
    /\ UNCHANGED <<named, entry, disk, temp, displaced>>

\* preflight_parent_sync, then a fresh temporary file with the bytes, synced.
\* Whatever fails here is a refusal, and what was staged is removed.
StageBytes ==
    /\ writer.pc = "stage"
    /\ \/ \E syncs \in BOOLEAN : writer' = [writer EXCEPT !.pc = "reprove", !.syncs = syncs]
          /\ temp' = [temp EXCEPT ![writer.handle] = TRUE]
       \/ Refuse /\ UNCHANGED temp
    /\ UNCHANGED <<named, entry, disk, displaced>>

\* An error before publication: the staged file is removed, and when even that
\* fails the outcome is not proven.
CleanUpAndRefuse ==
    \/ Refuse /\ temp' = [temp EXCEPT ![writer.handle] = FALSE]
    \/ Unproven /\ UNCHANGED temp

\* reprove_parent and the deny list, once more: a link put in the target's
\* place is followed, and denied when it leads into a denied directory.
ReproveParent ==
    /\ writer.pc = "reprove"
    /\ \/ /\ named = writer.handle
          /\ writer' = [writer EXCEPT !.pc = IF writer.create THEN "link" ELSE "recheck"]
          /\ UNCHANGED temp
       \/ (named # writer.handle \/ entry[writer.handle].kind = "symlink") /\ CleanUpAndRefuse
    /\ UNCHANGED <<named, entry, disk, displaced>>

Publish(dir, e) ==
    /\ entry' = [entry EXCEPT ![dir] = e]
    /\ displaced' = [done |-> TRUE, was |-> entry[dir], meant |-> writer.initial,
                     expected |-> writer.expected, touched |-> writer.touched]
    /\ writer' = [writer EXCEPT !.pc = "sync"]

\* Creation: hard_link fails when the name has appeared.
PublishByLink ==
    /\ writer.pc = "link"
    /\ \/ /\ entry[writer.handle] = Absent
          /\ Publish(writer.handle, File(9, New))
          /\ temp' = [temp EXCEPT ![writer.handle] = FALSE]
       \/ entry[writer.handle] # Absent /\ CleanUpAndRefuse /\ UNCHANGED <<entry, displaced>>
       \/ \* the link, or removing the temporary name after it, fails
          /\ Unproven
          /\ \/ UNCHANGED <<entry, displaced>>
             \/ /\ entry[writer.handle] = Absent
                /\ entry' = [entry EXCEPT ![writer.handle] = File(9, New)]
                /\ displaced' = [NothingDisplaced EXCEPT !.done = TRUE]
          /\ \E left \in BOOLEAN : temp' = [temp EXCEPT ![writer.handle] = left]
    /\ UNCHANGED <<named, disk>>

\* Replacement: the target is inspected again and must be the same file with
\* the expected content.
RecheckTarget ==
    /\ writer.pc = "recheck"
    /\ LET e == entry[writer.handle]
       IN IF Inspectable(e) /\ e.ino = writer.initial.ino /\ PreconditionHolds(e)
          THEN writer' = [writer EXCEPT !.pc = "rename", !.touched = FALSE] /\ UNCHANGED temp
          ELSE CleanUpAndRefuse
    /\ UNCHANGED <<named, entry, disk, displaced>>
PublishByRename ==
    /\ writer.pc = "rename"
    /\ \/ Publish(writer.handle, File(9, New)) /\ temp' = [temp EXCEPT ![writer.handle] = FALSE]
       \/ Unproven /\ UNCHANGED <<entry, displaced>>
          /\ \E left \in BOOLEAN : temp' = [temp EXCEPT ![writer.handle] = left]
    /\ UNCHANGED <<named, disk>>

\* Mutant: the receipt does not wait for the sync.
ReportBeforeSync ==
    /\ writer.pc = "sync"
    /\ writer' = [writer EXCEPT !.pc = "told", !.told = "written"]
    /\ UNCHANGED <<named, entry, temp, displaced, disk>>

\* sync_parent where the filesystem can; the receipt only after it.
SyncAndReport ==
    /\ writer.pc = "sync"
    /\ \/ /\ writer' = [writer EXCEPT !.pc = "told", !.told = "written"]
          /\ disk' = IF writer.syncs THEN [disk EXCEPT ![writer.handle] = entry[writer.handle]] ELSE disk
       \/ writer.syncs /\ Unproven /\ UNCHANGED disk
    /\ UNCHANGED <<named, entry, temp, displaced>>
-----------------------------------------------------------------------------
(* The other process, and the machine.                                     *)

Touch == writer' = [writer EXCEPT !.touched = TRUE]

OutsiderChanges(d) ==
    /\ surface = "write" /\ outside < MaxOutside /\ outside' = outside + 1
    /\ \/ \E c \in Contents : /\ entry[d].kind = "file"      \* an edit in place
                              /\ entry' = [entry EXCEPT ![d].content = c]
       \/ \E c \in Contents : entry' = [entry EXCEPT ![d] = File(2 + outside, c)]
       \/ entry[d] # Absent /\ entry' = [entry EXCEPT ![d] = Absent]
       \/ entry[d].kind = "file" /\ entry' = [entry EXCEPT ![d].links = 2]
       \/ entry' = [entry EXCEPT ![d] = [Absent EXCEPT !.kind = "symlink", !.ino = 2 + outside]]
    /\ disk' = [disk EXCEPT ![d] = entry'[d]]      \* another process syncs for itself
    /\ IF d = writer.handle THEN Touch ELSE UNCHANGED writer
    /\ UNCHANGED <<named, temp, displaced>>

OutsiderMovesParent ==
    /\ surface = "write" /\ outside < MaxOutside /\ outside' = outside + 1
    /\ \E d \in Dirs \ {named} : named' = d
    /\ UNCHANGED <<entry, disk, temp, writer, displaced>>

\* Power is lost: what was not synced may be gone, and so is the call.
Crash ==
    /\ surface = "write" /\ outside < MaxOutside /\ outside' = outside + 1
    /\ \E keep \in BOOLEAN : entry' = [d \in Dirs |-> IF keep THEN entry[d] ELSE disk[d]]
    /\ disk' = entry'
    /\ writer' = IF writer.pc = "told" THEN writer
                 ELSE [Idle EXCEPT !.pc = "told", !.told = "lost", !.handle = writer.handle]
    /\ UNCHANGED <<named, temp, displaced>>

-----------------------------------------------------------------------------
(* Paged directory listings and ranged reads.                              *)

Sorted(s) == SetToSortSeq(s, LAMBDA a, b : a < b)
CostOf(seq) == FoldLeft(LAMBDA sum, n : sum + NameCost[n], 0, seq)

\* list_directory_page: the entries after the cursor, as many as fit.
PageAfter(all, after) ==
    LET rest == SelectSeq(Sorted(all), LAMBDA n : n > after)
        fits == {k \in 0..Len(rest) : k <= PageEntries /\ CostOf(SubSeq(rest, 1, k)) <= PageBytes}
        k == CHOOSE m \in fits : \A j \in fits : j <= m
    IN [names |-> SubSeq(rest, 1, k), truncated |-> Len(rest) > k,
        error |-> \/ Cardinality(all) > ScanLimit
                  \/ Len(rest) > 0 /\ k = 0
                  \/ k < Len(rest) /\ k < PageEntries /\ NameCost[rest[k + 1]] > PageBytes]
ListPage ==
    /\ surface = "list" /\ ~reader.done /\ ~reader.failed
    /\ LET page == PageAfter(entries, reader.cursor)
           shown == IF reader.got = <<>> /\ reader.cursor = 0 THEN entries ELSE reader.present
       IN reader' = IF page.error THEN [reader EXCEPT !.failed = TRUE]
                    ELSE [reader EXCEPT !.got = @ \o page.names, !.present = shown,
                                        !.cursor = IF page.truncated THEN Last(page.names) ELSE @,
                                        !.done = ~page.truncated]
    /\ UNCHANGED <<entries, outside>>

OutsiderAddsOrRemoves(n) ==
    /\ surface = "list" /\ outside < MaxOutside /\ outside' = outside + 1
    /\ IF n \in entries
       THEN entries' = entries \ {n} /\ reader' = [reader EXCEPT !.present = @ \ {n}]
       ELSE entries' = entries \cup {n} /\ UNCHANGED reader

\* read_file_range: one byte more than asked tells whether there is more.
ReadRange(max) ==
    /\ surface = "read" /\ ~reader.done /\ ~reader.failed
    /\ LET left == FileSize - reader.cursor
           n == IF left > max THEN max ELSE left
       IN reader' = IF max = 0 \/ max > MaxFileRead THEN [reader EXCEPT !.failed = TRUE]
                    ELSE [reader EXCEPT !.got = @ \o [i \in 1..n |-> reader.cursor + i],
                                        !.cursor = @ + n, !.done = ~(left > max)]
    /\ UNCHANGED <<entries, outside>>

-----------------------------------------------------------------------------
WriteNext ==
    \/ \E c \in Contents : StartWrite(FALSE, c)
    \/ StartWrite(TRUE, "")
    \/ InspectTarget \/ StageBytes \/ ReproveParent \/ PublishByLink
    \/ RecheckTarget \/ PublishByRename \/ SyncAndReport

FilesNext ==
    \/ WriteNext /\ UNCHANGED <<surface, readSide, outside>>
    \/ ((\E d \in Dirs : OutsiderChanges(d)) \/ OutsiderMovesParent \/ Crash)
       /\ UNCHANGED <<surface, readSide>>
    \/ (ListPage \/ (\E n \in Names : OutsiderAddsOrRemoves(n)) \/ (\E max \in 0..(MaxFileRead + 1) : ReadRange(max)))
       /\ UNCHANGED <<surface, writeSide>>

FilesSpec == FilesInit /\ [][FilesNext]_filesVars

-----------------------------------------------------------------------------
(* Properties.                                                             *)

\* The answer to a write is the truth: a refusal means nothing was published
\* and no staged file is left behind; a receipt means the bytes were published
\* and, where the parent can be synced, that a crash keeps them as long as
\* nobody else touches the file.
WriteAnswersAreTrue ==
    /\ writer.told = "refused" => ~displaced.done /\ ~temp[writer.handle]
    /\ writer.told = "written" =>
          /\ displaced.done
          /\ writer.syncs /\ ~writer.touched => disk[writer.handle].content = New

\* There is no blind overwrite: what publication displaced is what the caller
\* named (nothing, for a creation), unless another process changed it between
\* the last inspection and the rename, which the design concedes.
NoBlindOverwrite ==
    displaced.done /\ ~displaced.touched =>
       IF displaced.meant = Absent THEN displaced.was = Absent
       ELSE displaced.was = File(displaced.meant.ino, displaced.expected)

\* A ranged read followed to its end is the file, whatever ranges it was read in.
RangesJoin == surface = "read" /\ reader.done => reader.got = [i \in 1..FileSize |-> i]

\* Paging loses and repeats nothing that stays: a client that follows the
\* cursors to the end has every entry that was there all along, each once and
\* in order; and ranges of a file join.
PagingIsComplete ==
    /\ surface = "list" => \A i, j \in 1..Len(reader.got) : i < j => reader.got[i] < reader.got[j]
    /\ surface = "list" /\ reader.done => reader.present \subseteq Range(reader.got)
    /\ RangesJoin

\* A write is answered truthfully and never replaces what its caller has not seen, and
\* pages of a listing or a file join without loss, whatever others do to the directory.
WorkspaceSafe == WriteAnswersAreTrue /\ NoBlindOverwrite /\ PagingIsComplete
====
