---- MODULE BrowserStaging ----
(***************************************************************************)
(* The Agent's private staging of files for browser uploads and downloads, *)
(* and the end of an interaction context on the device.  The Agent runs    *)
(* one operation at a time; an end that arrives meanwhile waits.  Every    *)
(* handle owns a directory; dirs is what is on the disk.  The file checks  *)
(* (a direct regular file, of the size the backend reported) are the       *)
(* choice between a good and a bad file.  A removal is best effort: the    *)
(* record goes, and the directory goes unless the file system refuses.     *)
(***************************************************************************)
EXTENDS Naturals, FiniteSets

CONSTANTS StagingContexts, FileNames, MaxHandle, MaxSession,
          UploadLimit, DownloadLimit   \* MAX_BROWSER_UPLOAD_FILES and _DOWNLOAD_FILES

VARIABLES era,        \* the device session's generation
          uploads,    \* records of BrowserUploadStagingBroker
          pending, completed,   \* records of BrowserDownloadStagingBroker
          dirs, lastHandle,
          strays,     \* history: directories an I/O error left without a record
          inUse,     \* the operation the Agent runs
          ends        \* pending_backend_session_ends

stagingVars == <<era, uploads, pending, completed, dirs, strays, lastHandle, inUse, ends>>

ASSUME StagingConstants ==
    {MaxHandle, MaxSession, UploadLimit, DownloadLimit} \subseteq Nat

NoWork == [kind |-> "none"]

StagingInit ==
    /\ era = 1 /\ uploads = {} /\ pending = {} /\ completed = {} /\ dirs = {}
    /\ strays = {}
    /\ lastHandle = 0 /\ inUse = NoWork /\ ends = {}

\* The loop takes the next frame only when no operation runs, and drains the
\* ends that waited for one before it does.
StagingIdle == inUse = NoWork /\ ends = {}

OfContext(records, c) == {r \in records : r.ctx = c}
Handles(records) == {r.handle : r \in records}

\* let _ = fs::remove_dir_all(..) of each directory: the caller never learns.
RemoveDirs(hs) == \E left \in SUBSET hs :
                     dirs' = dirs \ (hs \ left) /\ strays' = strays \cup left

\* A new directory is not recorded: it was never made or removed again, or it is
\* left when an early return follows its creation or when its removal fails.
NotRecorded(h) == \/ UNCHANGED <<dirs, strays>>
                  \/ dirs' = dirs \cup {h} /\ strays' = strays \cup {h}

-----------------------------------------------------------------------------
(* Uploads.                                                                *)

\* stage: a directory, its permissions, a file in it, then the record.
StageUpload(c) ==
    /\ StagingIdle /\ lastHandle < MaxHandle
    /\ Cardinality(OfContext(uploads, c)) < UploadLimit
    /\ lastHandle' = lastHandle + 1
    /\ \/ /\ uploads' = uploads \cup {[handle |-> lastHandle', ctx |-> c, era |-> era]}
          /\ dirs' = dirs \cup {lastHandle'}
          /\ UNCHANGED strays
       \/ NotRecorded(lastHandle') /\ UNCHANGED uploads
    /\ UNCHANGED <<era, pending, completed, inUse, ends>>

\* resolve, for every handle of the command: its context, its generation and
\* a proven file.
Resolves(hs, c) ==
    \A h \in hs : h \in dirs /\ \E r \in uploads : r.handle = h /\ r.ctx = c /\ r.era = era

\* consume_handles: all of them, or none when one is not this context's.
Consumable(hs, c) == \A h \in hs : \E r \in uploads : r.handle = h /\ r.ctx = c /\ r.era = era
Consume(hs, c) ==
    IF Consumable(hs, c)
    THEN uploads' = {r \in uploads : r.handle \notin hs} /\ RemoveDirs(hs)
    ELSE UNCHANGED <<uploads, dirs, strays>>

BeginUpload(c, hs, good) ==
    /\ StagingIdle
    /\ IF Resolves(hs, c) /\ good
       THEN /\ inUse' = [kind |-> "upload", ctx |-> c, handles |-> hs]
            /\ UNCHANGED <<uploads, dirs, strays>>
       ELSE Consume(hs, c) /\ UNCHANGED inUse
    /\ UNCHANGED <<era, pending, completed, lastHandle, ends>>

\* Completed or refused by the backend: the files are spent.  Of an unknown
\* outcome: they stay, for the backend may still read them.
EndUpload(known) ==
    /\ inUse.kind = "upload"
    /\ IF known THEN Consume(inUse.handles, inUse.ctx) ELSE UNCHANGED <<uploads, dirs, strays>>
    /\ inUse' = NoWork
    /\ UNCHANGED <<era, pending, completed, lastHandle, ends>>

-----------------------------------------------------------------------------
(* Downloads.                                                              *)

Named(records, c, n) == {r \in records : r.ctx = c /\ r.name = n}

\* prepare: room, no pending download of that name, and no completed one
\* unless the caller wants to replace it.
MayDownload(c, n, overwrite) ==
    /\ Cardinality(OfContext(pending, c)) + Cardinality(OfContext(completed, c)) < DownloadLimit
    /\ Named(pending, c, n) = {}
    /\ overwrite \/ Named(completed, c, n) = {}

BeginDownload(c, n, overwrite) ==
    /\ StagingIdle /\ lastHandle < MaxHandle /\ MayDownload(c, n, overwrite)
    /\ lastHandle' = lastHandle + 1
    /\ LET p == [handle |-> lastHandle', ctx |-> c, name |-> n, era |-> era,
                 overwrite |-> overwrite]
       IN \/ /\ pending' = pending \cup {p} /\ dirs' = dirs \cup {lastHandle'}
             /\ inUse' = [kind |-> "download", record |-> p]
             /\ UNCHANGED strays
          \/ NotRecorded(lastHandle') /\ UNCHANGED <<pending, inUse>>
    /\ UNCHANGED <<era, uploads, completed, ends>>

\* abort: the record goes, and its directory if it can.
AbortRunning ==
    /\ pending' = pending \ {inUse.record}
    /\ RemoveDirs({inUse.record.handle})
    /\ UNCHANGED completed

Replaced(p) == IF p.overwrite THEN Named(completed, p.ctx, p.name) ELSE {}

\* finalize of a good file of the promised size: it becomes the download of that
\* name, replacing the older one.
FinalizeGood ==
    LET p == inUse.record IN
    /\ pending' = pending \ {p}
    /\ completed' = (completed \ Replaced(p))
                       \cup {[handle |-> p.handle, ctx |-> p.ctx, name |-> p.name]}
    /\ RemoveDirs(Handles(Replaced(p)))

\* The older one has gone and no fresh handle can be made for the new one.
FinalizeUnnamed ==
    LET p == inUse.record IN
    /\ pending' = pending \ {p} /\ completed' = completed \ Replaced(p)
    /\ \E left \in SUBSET Handles(Replaced(p)) :
          /\ dirs' = dirs \ (Handles(Replaced(p)) \ left)
          /\ strays' = strays \cup left \cup {p.handle}

FinalizeDownload(good) ==
    /\ inUse.kind = "download"
    /\ IF good THEN FinalizeGood \/ FinalizeUnnamed ELSE AbortRunning
    /\ inUse' = NoWork
    /\ UNCHANGED <<era, uploads, lastHandle, ends>>

\* The backend failed, or answered something else.
AbortDownload ==
    /\ inUse.kind = "download"
    /\ AbortRunning
    /\ inUse' = NoWork
    /\ UNCHANGED <<era, uploads, lastHandle, ends>>

\* Cancelled, timed out or of unknown outcome: the backend may still write.
LeaveDownload ==
    /\ inUse.kind = "download" /\ inUse' = NoWork
    /\ UNCHANGED <<era, uploads, pending, completed, dirs, strays, lastHandle, ends>>

-----------------------------------------------------------------------------
(* The end of contexts and of sessions.                                    *)

\* cleanup_context of both brokers.
Without(cs) ==
    LET gone == {r \in uploads \cup pending \cup completed : r.ctx \in cs} IN
    /\ uploads' = uploads \ gone /\ pending' = pending \ gone /\ completed' = completed \ gone
    /\ RemoveDirs(Handles(gone))

\* Mutant: the files of a running operation go with their context.
EndContextAtOnce(c) ==
    /\ Without({c})
    /\ UNCHANGED <<era, lastHandle, inUse, ends>>

\* BackendSessionEnd: at once when nothing runs, else when the operation ends.
EndContext(c) ==
    /\ inUse = NoWork => ends = {}
    /\ IF StagingIdle THEN Without({c}) /\ UNCHANGED ends
       ELSE ends' = ends \cup {c} /\ UNCHANGED <<uploads, pending, completed, dirs, strays>>
    /\ UNCHANGED <<era, lastHandle, inUse>>

\* drain_backend_session_ends, right after the operation's completion.
DrainEnds ==
    /\ inUse = NoWork /\ ends # {}
    /\ Without(ends) /\ ends' = {}
    /\ UNCHANGED <<era, lastHandle, inUse>>

\* A new session: cleanup_all of both brokers; ends that waited are lost.
NextSession ==
    /\ inUse = NoWork /\ era < MaxSession /\ era' = era + 1
    /\ uploads' = {} /\ pending' = {} /\ completed' = {} /\ ends' = {}
    /\ RemoveDirs(Handles(uploads \cup pending \cup completed))
    /\ UNCHANGED <<lastHandle, inUse>>

\* A new Agent process removes what its predecessor left before it serves, or
\* does not start (create_private_root).
NewProcess ==
    /\ era < MaxSession /\ era' = era + 1
    /\ uploads' = {} /\ pending' = {} /\ completed' = {} /\ ends' = {}
    /\ dirs' = {} /\ strays' = {} /\ inUse' = NoWork
    /\ UNCHANGED lastHandle

StagingNext ==
    \/ \E c \in StagingContexts :
          \/ StageUpload(c) \/ EndContext(c)
          \/ \E hs \in (SUBSET (1..lastHandle)) \ {{}}, b \in BOOLEAN : BeginUpload(c, hs, b)
          \/ \E n \in FileNames, overwrite \in BOOLEAN : BeginDownload(c, n, overwrite)
    \/ \E b \in BOOLEAN : EndUpload(b) \/ FinalizeDownload(b)
    \/ AbortDownload \/ LeaveDownload \/ DrainEnds \/ NextSession \/ NewProcess

StagingSpec == StagingInit /\ [][StagingNext]_stagingVars

-----------------------------------------------------------------------------
(* The files of the running operation are on the disk as long as it runs,   *)
(* whatever contexts are closed meanwhile (drain_backend_session_ends only   *)
(* when nothing is active).                                                *)
FilesOutliveTheirUse ==
    /\ inUse.kind = "upload" => inUse.handles \subseteq dirs
    /\ inUse.kind = "download" => inUse.record.handle \in dirs

(* A context has at most one finished download of a name, every record has  *)
(* its directory, and a directory that no record answers for is one that a   *)
(* failed set-up or removal left, which nothing uses again until the next    *)
(* process removes it (prepare, finalize and its replacement, abort,         *)
(* cleanup).  The code does not promise more: it drops the record whether    *)
(* the removal worked or not.                                               *)
DownloadsAreAccounted ==
    LET recorded == Handles(uploads \cup pending \cup completed) IN
    /\ \A r, q \in completed : r.ctx = q.ctx /\ r.name = q.name => r = q
    /\ dirs = recorded \cup strays
    /\ recorded \cap strays = {}

\* Staged files are there while they are used, and what no record answers for is what
\* the file system refused to remove or to set up.
StagingSafe == FilesOutliveTheirUse /\ DownloadsAreAccounted
====
