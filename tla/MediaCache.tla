----------------------------- MODULE MediaCache -----------------------------
(***************************************************************************)
(* Saved attachments and the media cache beside them (media_cache.go,       *)
(* planSavedAttachment in media_download.go): processes that share a cache *)
(* root publish one photo or document to several targets, through a cache  *)
(* entry made of a data file and a metadata file.  Published files are     *)
(* clones, hard links or copies.  The mutex of a cache is of one process.  *)
(* A kind the cache does not take goes the way of a file overwritten.      *)
(***************************************************************************)
EXTENDS Naturals, Sequences, FiniteSets

CONSTANTS
    Workers,     \* processes; the temporary download of one has its name
    Targets,     \* files attachments are saved to
    Batches,     \* worker -> the sequences of targets of one message batch
    MaxChanges,  \* bound on edits, deletions and ageing
    MaxHalts     \* bound on killed workers

ASSUME CacheConstants ==
    /\ Workers \cap Targets = {} /\ "data" \notin Workers \cup Targets
    /\ \A w \in Workers : Batches[w] \subseteq Seq(Targets) \ {<< >>}
    /\ MaxChanges \in Nat /\ MaxHalts \in Nat

\* mediaTargetPath: the name of a file has the message and the position of the
\* attachment.  Processes that run at once have sessions and media directories
\* of their own; what they share is the cache in the parent directory.
ASSUME UniqueTargets ==
    \A w \in Workers : \A b \in Batches[w] : \A i, k \in DOMAIN b : b[i] = b[k] => i = k
ASSUME SeparateTargets ==
    \A v, w \in Workers : \A b \in Batches[v], c \in Batches[w] :
        v # w => \A i \in DOMAIN b, k \in DOMAIN c : b[i] # c[k]

Paths == Targets \cup Workers \cup {"data"}

VARIABLES
    content,   \* path -> what the file holds
    linked,    \* path -> the other paths of the same inode
    meta,      \* the metadata file; a whole one has the hash of the whole file
    pruned,    \* workers that pruned
    job,       \* worker -> its batch
    saved,     \* targets the last run reported as saved
    excused,   \* targets somebody edited, edited during the publication, or a
               \* kill left half written
    changes, halts

cacheVars == <<content, linked, meta, pruned, job, saved, excused, changes, halts>>

NoJob == [pc |-> "idle"]

CacheInit ==
    /\ content = [x \in Paths |-> "none"] /\ linked = [x \in Paths |-> {}]
    /\ meta = "none" /\ pruned = {} /\ job = [w \in Workers |-> NoJob]
    /\ saved = {} /\ excused = {} /\ changes = 0 /\ halts = 0

CacheTypeOK ==
    /\ content \in [Paths -> {"none", "part", "whole", "edited"}]
    /\ linked \in [Paths -> SUBSET Paths]
    /\ \A x \in Paths : \A y \in linked[x] : x \in linked[y] /\ content[x] = content[y]
    /\ meta \in {"none", "fresh", "old", "bad"} /\ pruned \subseteq Workers
    /\ saved \subseteq Targets /\ excused \subseteq Targets
    /\ changes \in 0..MaxChanges /\ halts \in 0..MaxHalts

Exists(x) == content[x] # "none"

\* x is a new inode with that content, or no file any more.
Renewed(x, what) ==
    /\ content' = [content EXCEPT ![x] = what]
    /\ linked' = [y \in Paths |-> IF y = x THEN {} ELSE linked[y] \ {x}]

\* publishMediaFileAtomic: a clone or copy, or a link, is renamed to x.
Published(x, y) ==
    \/ Renewed(x, content[y])
    \/ /\ content' = [content EXCEPT ![x] = content[y]]
       /\ LET inode == ({y} \cup linked[y]) \ {x}
          IN  linked' = [z \in Paths |-> IF z = x THEN inode
                                         ELSE IF z \in inode THEN (linked[z] \ {x}) \cup {x}
                                         ELSE linked[z] \ {x}]

Saved(w, t) ==
    /\ saved' = saved \cup {t}
    /\ excused' = IF job[w].raced THEN excused \cup {t} ELSE excused \ {t}

At(w, pc)      == job[w].pc = pc
Goes(w, pc)    == job' = [job EXCEPT ![w].pc = pc]
Current(w)     == IF job[w].publishing THEN job[w].group[job[w].at] ELSE Head(job[w].todo)
Kept(vs)       == UNCHANGED <<vs, changes, halts>>

\* After the current target: the next one.
NextTarget(w) ==
    LET j == job[w] IN
    job' = [job EXCEPT ![w] =
        IF j.publishing THEN [j EXCEPT !.pc = "publish", !.at = j.at + 1]
        ELSE [j EXCEPT !.pc = "plan", !.todo = Tail(j.todo)]]

\* A miss: the target joins the download; after it, the file is copied.
Miss(w) ==
    LET j == job[w] IN
    job' = [job EXCEPT ![w] =
        IF j.publishing THEN [j EXCEPT !.pc = "copy"]
        ELSE [j EXCEPT !.pc = "plan", !.todo = Tail(j.todo), !.group = Append(j.group, Head(j.todo))]]

-----------------------------------------------------------------------------
(* Planning: planSavedAttachment *)

StartBatch(w, batch, overwrite) ==
    /\ At(w, "idle")
    /\ overwrite => Len(batch) = 1
    /\ job' = [job EXCEPT ![w] = [pc |-> "plan", todo |-> batch, group |-> << >>, at |-> 1,
                                  overwrite |-> overwrite, cached |-> FALSE,
                                  publishing |-> FALSE, raced |-> FALSE, from |-> w]]
    /\ saved' = {t \in saved : \A i \in DOMAIN batch : batch[i] # t}
    /\ Kept(<<content, linked, meta, pruned, excused>>)

\* A file that is there is taken as it is.
KeepExisting(w) ==
    /\ At(w, "plan") /\ job[w].todo # << >>
    /\ Exists(Current(w)) /\ ~job[w].overwrite
    /\ saved' = saved \cup {Current(w)}
    /\ NextTarget(w)
    /\ Kept(<<content, linked, meta, pruned, excused>>)

RemoveExisting(w) ==
    /\ At(w, "plan") /\ job[w].todo # << >>
    /\ Exists(Current(w)) /\ job[w].overwrite
    /\ Renewed(Current(w), "none") /\ UNCHANGED job
    /\ Kept(<<meta, pruned, saved, excused>>)

PlanTarget(w) ==
    /\ At(w, "plan") /\ job[w].todo # << >> /\ ~Exists(Current(w))
    /\ IF job[w].overwrite THEN Miss(w)
       ELSE job' = [job EXCEPT ![w].pc = IF w \in pruned THEN "check" ELSE "prune",
                               ![w].cached = TRUE]
    /\ Kept(<<content, linked, meta, pruned, saved, excused>>)

\* The download goes to a temporary file, and to the target itself if there is
\* no cache or the temporary file cannot be made.
BeginDownload(w) ==
    /\ At(w, "plan") /\ job[w].todo = << >> /\ job[w].group # << >>
    /\ \E cached \in {FALSE, job[w].cached} :
         LET from == IF cached THEN w ELSE Head(job[w].group) IN
         /\ job' = [job EXCEPT ![w].pc = "transfer", ![w].cached = cached, ![w].from = from,
                               ![w].raced = FALSE]
         /\ Renewed(from, "part")
    /\ Kept(<<meta, pruned, saved, excused>>)

EndPlan(w) ==
    /\ At(w, "plan") /\ job[w].todo = << >> /\ job[w].group = << >>
    /\ job' = [job EXCEPT ![w] = NoJob] /\ pruned' = pruned \ {w}
    /\ Kept(<<content, linked, meta, saved, excused>>)

-----------------------------------------------------------------------------
(* The cache: pruneLocked, loadValidEntryLocked, Restore, Store *)

\* Entries that are old or cannot be read are removed, and old data without
\* metadata.
Prune(w) ==
    /\ At(w, "prune") /\ pruned' = pruned \cup {w}
    /\ \/ /\ Goes(w, IF meta \in {"old", "bad"} THEN "prune metadata" ELSE "check")
          /\ UNCHANGED <<content, linked>>
       \/ /\ meta = "none" /\ Exists("data")
          /\ Goes(w, "prune data") /\ UNCHANGED <<content, linked>>
    /\ Kept(<<meta, saved, excused>>)

RemoveMetadata(w) ==
    /\ job[w].pc \in {"prune metadata", "remove metadata"}
    /\ meta' = "none"
    /\ Goes(w, IF At(w, "prune metadata") THEN "prune data" ELSE "remove data")
    /\ Kept(<<content, linked, pruned, saved, excused>>)

RemoveData(w) ==
    /\ job[w].pc \in {"prune data", "remove data"}
    /\ Renewed("data", "none")
    /\ IF At(w, "prune data") THEN Goes(w, "check") ELSE Miss(w)
    /\ Kept(<<meta, pruned, saved, excused>>)

Valid == meta \in {"fresh", "old"} /\ content["data"] = "whole"

CheckEntry(w) ==
    /\ At(w, "check")
    /\ IF meta = "none" THEN Miss(w)
       ELSE job' = [job EXCEPT ![w].pc = IF Valid THEN "restore" ELSE "remove metadata",
                               ![w].raced = @ /\ job[w].publishing]
    /\ Kept(<<content, linked, meta, pruned, saved, excused>>)

\* The data may have been removed or replaced since it was checked.
RestoreTarget(w) ==
    /\ At(w, "restore")
    /\ \/ /\ Exists("data") /\ Published(Current(w), "data")
          /\ Saved(w, Current(w)) /\ Goes(w, "touch")
       \/ Miss(w) /\ UNCHANGED <<content, linked, saved, excused>>
    /\ Kept(<<meta, pruned>>)

\* LastUsedAt is written, also where another process removed the entry.
TouchEntry(w) ==
    /\ At(w, "touch")
    /\ meta' \in {"fresh", meta} /\ NextTarget(w)
    /\ Kept(<<content, linked, pruned, saved, excused>>)

StoreData(w) ==
    /\ At(w, "store data")
    /\ \/ Published("data", w) /\ Goes(w, "store metadata")
       \/ Goes(w, "copy") /\ UNCHANGED <<content, linked>>
    /\ Kept(<<meta, pruned, saved, excused>>)

StoreMetadata(w) ==
    /\ At(w, "store metadata")
    /\ \/ meta' = "fresh" /\ Goes(w, "store target") /\ UNCHANGED <<content, linked>>
       \/ Renewed("data", "none") /\ Goes(w, "copy") /\ UNCHANGED meta
    /\ Kept(<<pruned, saved, excused>>)

StoreTarget(w) ==
    /\ At(w, "store target")
    /\ \/ /\ Exists("data") /\ Published(Current(w), "data")
          /\ Saved(w, Current(w)) /\ NextTarget(w)
       \/ Goes(w, "copy") /\ UNCHANGED <<content, linked, saved, excused>>
    /\ Kept(<<meta, pruned>>)

-----------------------------------------------------------------------------
(* The download: savedMediaDownload *)

Transferred(w) ==
    /\ At(w, "transfer")
    /\ Renewed(job[w].from, "whole")
    /\ job' = [job EXCEPT ![w].pc = "publish", ![w].publishing = TRUE]
    /\ Kept(<<meta, pruned, saved, excused>>)

\* Mutant: what a failed transfer wrote stays.
TransferFailsAndStays(w) ==
    /\ At(w, "transfer")
    /\ UNCHANGED <<content, linked>>
    /\ job' = [job EXCEPT ![w] = NoJob] /\ pruned' = pruned \ {w}
    /\ Kept(<<meta, saved, excused>>)

TransferFails(w) ==
    /\ At(w, "transfer")
    /\ Renewed(job[w].from, "none")
    /\ job' = [job EXCEPT ![w] = NoJob] /\ pruned' = pruned \ {w}
    /\ Kept(<<meta, saved, excused>>)

PublishGroup(w) ==
    /\ At(w, "publish") /\ job[w].at <= Len(job[w].group)
    /\ IF ~job[w].cached /\ job[w].from = Current(w)
       THEN Saved(w, Current(w)) /\ NextTarget(w)
       ELSE /\ Goes(w, IF ~job[w].cached THEN "copy"
                       ELSE IF job[w].at = 1 THEN "store data" ELSE "check")
            /\ UNCHANGED <<saved, excused>>
    /\ Kept(<<content, linked, meta, pruned>>)

CopySource(w) ==
    /\ At(w, "copy") /\ NextTarget(w)
    /\ \/ Published(Current(w), job[w].from) /\ Saved(w, Current(w))
       \/ UNCHANGED <<content, linked, saved, excused>>
    /\ Kept(<<meta, pruned>>)

EndGroup(w) ==
    /\ At(w, "publish") /\ job[w].at > Len(job[w].group)
    /\ Renewed(w, "none")
    /\ job' = [job EXCEPT ![w] = NoJob] /\ pruned' = pruned \ {w}
    /\ Kept(<<meta, saved, excused>>)

\* A temporary file that a killed process leaves is never used again.
HaltWorker(w) ==
    /\ ~At(w, "idle") /\ halts < MaxHalts
    /\ Renewed(w, "none")
    /\ excused' = IF At(w, "transfer") THEN excused \cup ({job[w].from} \cap Targets) ELSE excused
    /\ job' = [job EXCEPT ![w] = NoJob] /\ pruned' = pruned \ {w} /\ halts' = halts + 1
    /\ UNCHANGED <<meta, saved, changes>>

-----------------------------------------------------------------------------
(* The world *)

\* Somebody edits a saved file in place, and all files of its inode with it.
EditFile(t) ==
    /\ content[t] = "whole" /\ changes < MaxChanges
    /\ LET inode == {t} \cup linked[t] IN
       /\ content' = [x \in Paths |-> IF x \in inode THEN "edited" ELSE content[x]]
       /\ excused' = excused \cup (inode \cap Targets)
    /\ job' = [w \in Workers |-> IF At(w, "idle") THEN job[w] ELSE [job[w] EXCEPT !.raced = TRUE]]
    /\ changes' = changes + 1
    /\ UNCHANGED <<linked, meta, pruned, saved, halts>>

DeleteFile(t) ==
    /\ Exists(t) /\ changes < MaxChanges /\ \A w \in Workers : At(w, "idle")
    /\ Renewed(t, "none") /\ saved' = saved \ {t} /\ changes' = changes + 1
    /\ UNCHANGED <<meta, pruned, job, excused, halts>>

\* The entry gets old, or another version of the program wrote it.
AgeEntry ==
    /\ meta = "fresh" /\ changes < MaxChanges
    /\ meta' \in {"old", "bad"} /\ changes' = changes + 1
    /\ UNCHANGED <<content, linked, pruned, job, saved, excused, halts>>

CacheStep(w) ==
    \/ KeepExisting(w) \/ RemoveExisting(w) \/ PlanTarget(w) \/ BeginDownload(w) \/ EndPlan(w)
    \/ Prune(w) \/ RemoveMetadata(w) \/ RemoveData(w) \/ CheckEntry(w) \/ RestoreTarget(w)
    \/ TouchEntry(w) \/ StoreData(w) \/ StoreMetadata(w) \/ StoreTarget(w)
    \/ Transferred(w) \/ TransferFails(w) \/ PublishGroup(w) \/ CopySource(w) \/ EndGroup(w)

CacheNext ==
    \/ \E w \in Workers : CacheStep(w) \/ HaltWorker(w)
    \/ \E w \in Workers, overwrite \in BOOLEAN : \E b \in Batches[w] : StartBatch(w, b, overwrite)
    \/ \E t \in Targets : EditFile(t) \/ DeleteFile(t)
    \/ AgeEntry

CacheSpec == CacheInit /\ [][CacheNext]_cacheVars

-----------------------------------------------------------------------------
(* Properties *)

\* A target that is reported as saved holds the whole file, in whatever order
\* processes restore, store, prune and fail, and also where an edit of another
\* target reached the cache through a hard link: excused are targets edited
\* themselves, published while somebody edited, or left by a kill in the middle
\* of a direct download (media_cache.go:105-130, media_download.go:250-284).
SavedIsWhole == \A t \in saved : content[t] = "whole" \/ t \in excused
=============================================================================
