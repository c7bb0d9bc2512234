------------------------------- MODULE Download -------------------------------
(***************************************************************************)
(* server/download.go with PullModel, DELETE and the prune at startup: one *)
(* blob, downloaded in parts, that several models share.                   *)
(*                                                                         *)
(* A blobDownload outlives the request that made it, is shared by later    *)
(* requests through blobDownloadManager, and leaves part files from which  *)
(* a later one resumes.  Each model is pulled by one request at a time.    *)
(* A part is PartSize units; data[k] of them are in the partial file.      *)
(*                                                                         *)
(* Some definitions have a second form with a telling name, a plausible    *)
(* mistake that the properties must catch.                                 *)
(***************************************************************************)
EXTENDS Integers, Sequences, FiniteSetsExt

CONSTANTS
  Models,
  NParts, PartSize,
  MaxRetries,     \* failures of a part that end the download
  DiskFaults,     \* which of the operations on files below may fail
  Deliveries,     \* {TRUE}, or BOOLEAN if the registry may deliver wrong bytes
  NoPrune,        \* OLLAMA_NOPRUNE
  MaxPulls,       \* bound: pulls that begin
  MaxUpsets       \* bound: DELETE requests, and times the server is killed

Parts == 0 .. NParts - 1

(* Opening and writing the part files and manifests, removing part files,  *)
(* and what run does with the partial file.                                *)
Faults == {"open", "write", "remove", "partial"}

ASSUME DownloadAssumption ==
  /\ IsFiniteSet(Models) /\ NParts \in Nat \ {0} /\ PartSize \in Nat \ {0}
  /\ MaxRetries \in Nat \ {0}
  /\ DiskFaults \subseteq Faults /\ TRUE \in Deliveries /\ Deliveries \subseteq BOOLEAN
  /\ NoPrune \in BOOLEAN /\ MaxPulls \in Nat /\ MaxUpsets \in Nat

VARIABLES
  files,      \* what is on disk
  objs,       \* the blobDownloads of this server, in the order they were made
  manager,    \* blobDownloadManager: the index of a download, or 0
  pulls,      \* the state of each model's pull
  deleting,   \* what the DELETE of a model knows of the manifest of each model
  robbed,     \* history: models that a DELETE took the blob from although their
              \* pull had seen it, or wrote its manifest after the DELETE looked
  unpruned,   \* history: a server started with what a killed one left of a download,
              \* and none has started since without any model
  counts      \* events so far, for the bounds

vars == <<files, objs, manager, pulls, deleting, robbed, unpruned, counts>>

(* A part file: missing, unreadable, or the Completed it records.          *)
PartFile == {-2, -1} \cup 0 .. PartSize
Missing == -2
Torn == -1

Files ==
  [blob : {"absent", "good", "bad"}, parts : [Parts -> PartFile],
   partial : BOOLEAN, data : [Parts -> 0 .. PartSize], len : 0 .. NParts * PartSize,
   spoilt : BOOLEAN,             \* a wrong unit is in the partial file
   manifests : [Models -> {"none", "torn", "ok"}]]

(* parts[k] is the Completed of part k, Missing if b.Parts lacks it; job   *)
(* where its goroutine is; removed counts the part files removed.          *)
Obj ==
  [at : {"prepare", "abandoned", "start", "url", "chunks", "remove", "rename", "delete", "close", "done"},
   parts : [Parts -> {Missing} \cup 0 .. PartSize], job : [Parts -> {"get", "save", "stop"}],
   tries : [Parts -> 0 .. MaxRetries], removed : 0 .. NParts, refs : 0 .. Cardinality(Models),
   hasCancel : BOOLEAN, cancelled : BOOLEAN, failed : BOOLEAN]

Pull ==
  [at : {"none", "store", "prepare", "head", "newPart", "acquire", "wait", "verify", "manifest",
         "writing", "stuck"},
   obj : 0 .. MaxPulls, cacheHit : BOOLEAN]

(* DELETE has found the model; no manifest has been looked for yet; it is  *)
(* in the list of files; it was not there.  "late" is history: it was      *)
(* written since.                                                          *)
Knowledge == {"none", "found", "ahead", "listed", "passed", "late"}
NotDeleting == [q \in Models |-> "none"]

NewObj ==
  [at |-> "prepare", parts |-> [k \in Parts |-> Missing], job |-> [k \in Parts |-> "get"],
   tries |-> [k \in Parts |-> 0], removed |-> 0, refs |-> 0, hasCancel |-> FALSE,
   cancelled |-> FALSE, failed |-> FALSE]
NoPull == [at |-> "none", obj |-> 0, cacheHit |-> FALSE]

TypeOK ==
  /\ files \in Files /\ Len(objs) <= MaxPulls /\ \A o \in 1 .. Len(objs) : objs[o] \in Obj
  /\ manager \in 0 .. Len(objs) /\ pulls \in [Models -> Pull]
  /\ deleting \in [Models -> [Models -> Knowledge]] /\ robbed \subseteq Models /\ unpruned \in BOOLEAN
  /\ counts \in [pulls : 0 .. MaxPulls, upsets : 0 .. MaxUpsets]

EmptyPartial(f) ==
  [f EXCEPT !.partial = FALSE, !.data = [k \in Parts |-> 0], !.len = 0, !.spoilt = FALSE]
NoFiles ==
  [blob |-> "absent", parts |-> [k \in Parts |-> Missing], partial |-> FALSE,
   data |-> [k \in Parts |-> 0], len |-> 0, spoilt |-> FALSE,
   manifests |-> [m \in Models |-> "none"]]

Init ==
  /\ files = NoFiles /\ objs = <<>> /\ manager = 0 /\ pulls = [m \in Models |-> NoPull]
  /\ deleting = [m \in Models |-> NotDeleting] /\ robbed = {} /\ unpruned = FALSE
  /\ counts = [pulls |-> 0, upsets |-> 0]

Present(parts) == {k \in Parts : parts[k] # Missing}
Ended(m) == [pulls EXCEPT ![m] = NoPull]
Goes(m, at) == [pulls EXCEPT ![m].at = at]

-----------------------------------------------------------------------------
(* downloadBlob, up to Wait.                                               *)

(* A blob that is there is a cache hit.                                    *)
Stat(m) ==
  /\ pulls[m].at = "none" /\ counts.pulls < MaxPulls
  /\ pulls' = [pulls EXCEPT ![m] =
       [obj |-> 0, cacheHit |-> files.blob # "absent",
        at |-> IF files.blob # "absent" THEN "verify" ELSE "store"]]
  /\ counts' = [counts EXCEPT !.pulls = @ + 1]
  /\ UNCHANGED <<files, objs, manager, deleting, robbed, unpruned>>

LoadOrStore(m) ==
  /\ pulls[m].at = "store"
  /\ IF manager # 0
     THEN /\ pulls' = [pulls EXCEPT ![m].at = "acquire", ![m].obj = manager]
          /\ UNCHANGED <<objs, manager>>
     ELSE /\ objs' = Append(objs, NewObj) /\ manager' = Len(objs')
          /\ pulls' = [pulls EXCEPT ![m].at = "prepare", ![m].obj = Len(objs')]
  /\ UNCHANGED <<files, deleting, robbed, unpruned, counts>>

(* Prepare fails: the download is forgotten, and whoever waits for it      *)
(* waits for a channel that is never closed.                               *)
PrepareFails(m) ==
  /\ objs' = [objs EXCEPT ![pulls[m].obj] =
       [NewObj EXCEPT !.at = "abandoned", !.refs = objs[pulls[m].obj].refs]]
  /\ manager' = 0
  /\ pulls' = Ended(m) /\ UNCHANGED <<deleting, robbed, unpruned, counts>>

(* Prepare reads the part files there are; a part is as far as they say.   *)
PrepareRead(m) ==
  /\ pulls[m].at = "prepare" /\ \A k \in Parts : files.parts[k] # Torn
  /\ IF Present(files.parts) = {}
     THEN pulls' = Goes(m, "head") /\ UNCHANGED objs
     ELSE /\ pulls' = Goes(m, "acquire")
          /\ objs' = [objs EXCEPT ![pulls[m].obj].at = "start",
                                  ![pulls[m].obj].parts = files.parts]
  /\ UNCHANGED <<files, manager, deleting, robbed, unpruned, counts>>

PrepareUnreadable(m) ==
  /\ pulls[m].at = "prepare" /\ \E k \in Parts : files.parts[k] = Torn
  /\ PrepareFails(m) /\ UNCHANGED files

(* The HEAD request, which fails too if the client leaves.                 *)
PrepareHead(m) ==
  /\ pulls[m].at = "head" /\ pulls' = Goes(m, "newPart")
  /\ UNCHANGED <<files, objs, manager, deleting, robbed, unpruned, counts>>

HeadFails(m) == pulls[m].at = "head" /\ PrepareFails(m) /\ UNCHANGED files

(* newPart, for one part after the other; then go download.Run.            *)
NewPart(m) ==
  LET o == pulls[m].obj
      k == Cardinality(Present(objs[o].parts))
  IN  /\ pulls[m].at = "newPart"
      /\ files' = [files EXCEPT !.parts[k] = 0]
      /\ objs' = [objs EXCEPT ![o].parts[k] = 0, ![o].at = IF k + 1 = NParts THEN "start" ELSE @]
      /\ pulls' = IF k + 1 = NParts THEN Goes(m, "acquire") ELSE pulls
      /\ UNCHANGED <<manager, deleting, robbed, unpruned, counts>>

(* Writing a part file fails before or after the file is there.            *)
WriteFaults == DiskFaults \cap {"open", "write"}
Damaged(f, k, fault) == IF fault = "write" THEN [f EXCEPT !.parts[k] = Torn] ELSE f

NewPartFails(m) ==
  \E fault \in WriteFaults :
    /\ pulls[m].at = "newPart" /\ PrepareFails(m)
    /\ files' = Damaged(files, Cardinality(Present(objs[pulls[m].obj].parts)), fault)

-----------------------------------------------------------------------------
(* Wait.                                                                   *)

AcquireFirst(m) ==
  /\ pulls[m].at = "acquire" /\ pulls' = Goes(m, "wait")
  /\ objs' = [objs EXCEPT ![pulls[m].obj].refs = Max({@, 1})]
  /\ UNCHANGED <<files, manager, deleting, robbed, unpruned, counts>>
Acquire(m) ==
  /\ pulls[m].at = "acquire" /\ pulls' = Goes(m, "wait")
  /\ objs' = [objs EXCEPT ![pulls[m].obj].refs = @ + 1]
  /\ UNCHANGED <<files, manager, deleting, robbed, unpruned, counts>>

(* The last one to release cancels the download.                           *)
Released(o) == [objs EXCEPT ![o].refs = @ - 1, ![o].cancelled = @ \/ objs[o].refs = 1]

Return(m) ==
  LET o == pulls[m].obj
  IN  /\ pulls[m].at = "wait" /\ objs[o].at = "done"
      /\ objs' = Released(o)
      /\ pulls' = IF objs[o].failed THEN Ended(m) ELSE Goes(m, "verify")
      /\ UNCHANGED <<files, manager, deleting, robbed, unpruned, counts>>

(* release calls a CancelFunc that run has not set yet.                    *)
Panics(m) == objs[pulls[m].obj].refs = 1 /\ ~objs[pulls[m].obj].hasCancel

(* The client leaves.                                                      *)
Leave(m) ==
  /\ pulls[m].at = "wait" /\ ~Panics(m)
  /\ objs' = Released(pulls[m].obj) /\ pulls' = Ended(m)
  /\ UNCHANGED <<files, manager, deleting, robbed, unpruned, counts>>

(* The client has left and nobody receives the progress this pull sends:   *)
(* it blocks for good and keeps its reference.                             *)
Block(m) ==
  /\ \/ pulls[m].at = "wait" /\ pulls' = Goes(m, "stuck")
     \/ pulls[m].at \in {"verify", "manifest"} /\ pulls' = [pulls EXCEPT ![m] = [NoPull EXCEPT !.at = "stuck"]]
  /\ UNCHANGED <<files, objs, manager, deleting, robbed, unpruned, counts>>

-----------------------------------------------------------------------------
(* blobDownload.run.                                                       *)

Total(o) == PartSize * Cardinality(Present(objs[o].parts))

(* The partial file is opened as it is, and truncated or extended.         *)
OpenedAfresh(f, total) == [EmptyPartial(f) EXCEPT !.partial = TRUE, !.len = total]
Opened(f, total) ==
  [f EXCEPT !.partial = TRUE, !.len = total,
            !.data = [k \in Parts |-> Max({0, Min({@[k], total - k * PartSize})})]]

RunStartForgotten(o) ==
  /\ objs[o].at = "start"
  /\ objs' = [objs EXCEPT ![o].at = "url", ![o].hasCancel = TRUE]
  /\ files' = Opened(files, Total(o)) /\ manager' = 0
  /\ UNCHANGED <<pulls, deleting, robbed, unpruned, counts>>
RunStart(o) ==
  /\ objs[o].at = "start"
  /\ objs' = [objs EXCEPT ![o].at = "url", ![o].hasCancel = TRUE]
  /\ files' = Opened(files, Total(o))
  /\ UNCHANGED <<manager, pulls, deleting, robbed, unpruned, counts>>

(* The partial file cannot be opened, closed or renamed, or a part file    *)
(* cannot be removed.                                                      *)
RunFails(o) ==
  /\ objs[o].at \in {"start", "remove", "rename"}
  /\ (IF objs[o].at = "remove" /\ objs[o].removed > 0 THEN "remove" ELSE "partial") \in DiskFaults
  /\ objs' = [objs EXCEPT ![o].at = "delete", ![o].hasCancel = TRUE, ![o].failed = TRUE]
  /\ UNCHANGED <<files, manager, pulls, deleting, robbed, unpruned, counts>>

(* The direct URL: retried until it is there, for 30 s or until cancelled. *)
RunUrl(o) ==
  \E ok \in BOOLEAN :
    /\ objs[o].at = "url" /\ (ok => ~objs[o].cancelled)
    /\ objs' = [objs EXCEPT ![o].at = IF ok THEN "chunks" ELSE "delete", ![o].failed = ~ok,
                            ![o].job = [k \in Parts |->
                              IF objs[o].parts[k] \in 0 .. PartSize - 1 THEN "get" ELSE "stop"]]
    /\ UNCHANGED <<files, manager, pulls, deleting, robbed, unpruned, counts>>

Stopped(o) == objs[o].cancelled \/ objs[o].failed

(* downloadChunk of part k writes n more units, all there are or fewer (a  *)
(* connection that ends, stalls or is cancelled).                          *)
Chunk(o, k) ==
  \E n \in 1 .. PartSize - objs[o].parts[k], right \in Deliveries :
    /\ objs[o].at = "chunks" /\ objs[o].job[k] = "get" /\ ~Stopped(o)
    /\ files' = [files EXCEPT !.data[k] = Max({@, objs[o].parts[k] + n}),
                              !.len = Max({@, k * PartSize + objs[o].parts[k] + n}),
                              !.spoilt = @ \/ ~right]
    /\ objs' = [objs EXCEPT ![o].parts[k] = @ + n, ![o].job[k] = "save"]
    /\ UNCHANGED <<manager, pulls, deleting, robbed, unpruned, counts>>

(* writePart.                                                              *)
SavePart(o, k) ==
  /\ objs[o].at = "chunks" /\ objs[o].job[k] = "save"
  /\ files' = [files EXCEPT !.parts[k] = objs[o].parts[k]]
  /\ objs' = [objs EXCEPT ![o].job[k] = "get"]
  /\ UNCHANGED <<manager, pulls, deleting, robbed, unpruned, counts>>

(* A failed try is retried; the last one fails the download, as does one   *)
(* that finds the disk full.                                               *)
TryFails(o, k, retry) ==
  \E full \in {FALSE, "write" \in DiskFaults} :
    LET last == full \/ objs[o].tries[k] + 1 = MaxRetries
    IN  objs' = [objs EXCEPT ![o].tries[k] = @ + 1, ![o].failed = @ \/ last,
                             ![o].job[k] = IF last THEN "stop" ELSE retry]

ChunkFails(o, k) ==
  /\ objs[o].at = "chunks" /\ objs[o].job[k] = "get" /\ objs[o].parts[k] < PartSize
  /\ ~Stopped(o) /\ TryFails(o, k, "get")
  /\ UNCHANGED <<files, manager, pulls, deleting, robbed, unpruned, counts>>

SaveFails(o, k) ==
  \E fault \in WriteFaults :
    /\ objs[o].at = "chunks" /\ objs[o].job[k] = "save"
    /\ TryFails(o, k, IF objs[o].parts[k] = PartSize THEN "save" ELSE "get")
    /\ files' = Damaged(files, k, fault)
    /\ UNCHANGED <<manager, pulls, deleting, robbed, unpruned, counts>>

(* The next tick of the watcher sees that the part is complete.            *)
ChunkDone(o, k) ==
  /\ objs[o].at = "chunks" /\ objs[o].job[k] = "get" /\ objs[o].parts[k] = PartSize
  /\ objs' = [objs EXCEPT ![o].job[k] = "stop"]
  /\ UNCHANGED <<files, manager, pulls, deleting, robbed, unpruned, counts>>

(* Another part failed, or nobody wants the download.                      *)
ChunkCancelled(o, k) ==
  /\ objs[o].at = "chunks" /\ objs[o].job[k] = "get" /\ Stopped(o)
  /\ objs' = [objs EXCEPT ![o].job[k] = "stop", ![o].failed = TRUE]
  /\ UNCHANGED <<files, manager, pulls, deleting, robbed, unpruned, counts>>

(* g.Wait.                                                                 *)
ChunksDoneRegardless(o) ==
  /\ objs[o].at = "chunks" /\ \A k \in Parts : objs[o].job[k] = "stop"
  /\ objs' = [objs EXCEPT ![o].at = "remove"]
  /\ UNCHANGED <<files, manager, pulls, deleting, robbed, unpruned, counts>>
ChunksDone(o) ==
  /\ objs[o].at = "chunks" /\ \A k \in Parts : objs[o].job[k] = "stop"
  /\ objs' = [objs EXCEPT ![o].at = IF objs[o].failed THEN "delete" ELSE "remove"]
  /\ UNCHANGED <<files, manager, pulls, deleting, robbed, unpruned, counts>>

(* The part files go, by their number from 0 on; one that is missing fails *)
(* the download.                                                           *)
RemovePart(o) ==
  LET i == objs[o].removed
      n == Cardinality(Present(objs[o].parts))
      ok == files.parts[i] # Missing
  IN  /\ objs[o].at = "remove"
      /\ files' = [files EXCEPT !.parts[i] = Missing]
      /\ objs' = [objs EXCEPT ![o].removed = @ + 1, ![o].failed = ~ok,
                              ![o].at = IF ~ok THEN "delete" ELSE IF i + 1 = n THEN "rename" ELSE @]
      /\ UNCHANGED <<manager, pulls, deleting, robbed, unpruned, counts>>

Whole(f) == (\A k \in Parts : f.data[k] = PartSize) /\ f.len = NParts * PartSize /\ ~f.spoilt

Rename(o) ==
  /\ objs[o].at = "rename"
  /\ files' = [EmptyPartial(files) EXCEPT !.blob = IF Whole(files) THEN "good" ELSE "bad"]
  /\ objs' = [objs EXCEPT ![o].at = "delete"]
  /\ robbed' = IF files'.blob = "good" THEN {} ELSE robbed
  /\ UNCHANGED <<manager, pulls, deleting, unpruned, counts>>

(* The deferred calls: the download leaves the manager, then wakes those   *)
(* who wait for it, who look at its error only.                            *)
RunDelete(o) ==
  /\ objs[o].at = "delete" /\ objs' = [objs EXCEPT ![o].at = "close"] /\ manager' = 0
  /\ UNCHANGED <<files, pulls, deleting, robbed, unpruned, counts>>

RunCloseOnSuccess(o) ==
  /\ objs[o].at = "close" /\ ~objs[o].failed
  /\ objs' = [objs EXCEPT ![o] = [NewObj EXCEPT !.at = "done", !.refs = objs[o].refs,
                                     !.hasCancel = TRUE]]
  /\ UNCHANGED <<files, manager, pulls, deleting, robbed, unpruned, counts>>
RunClose(o) ==
  /\ objs[o].at = "close"
  /\ objs' = [objs EXCEPT ![o] = [NewObj EXCEPT !.at = "done", !.refs = objs[o].refs,
                                     !.hasCancel = TRUE, !.failed = objs[o].failed]]
  /\ UNCHANGED <<files, manager, pulls, deleting, robbed, unpruned, counts>>

Run(o) ==
  \/ RunStart(o) \/ RunUrl(o) \/ ChunksDone(o) \/ RemovePart(o) \/ Rename(o)
  \/ RunFails(o) \/ RunDelete(o) \/ RunClose(o)
  \/ \E k \in Parts :
       \/ Chunk(o, k) \/ SavePart(o, k) \/ ChunkFails(o, k) \/ SaveFails(o, k)
       \/ ChunkDone(o, k) \/ ChunkCancelled(o, k)

-----------------------------------------------------------------------------
(* The rest of PullModel.                                                  *)

(* A cache hit is not verified; a blob with another digest is removed.     *)
Verify(m) ==
  LET ok == pulls[m].cacheHit \/ files.blob = "good"
  IN  /\ pulls[m].at = "verify"
      /\ pulls' = IF ok THEN Goes(m, "manifest") ELSE Ended(m)
      /\ files' = IF ok THEN files ELSE [files EXCEPT !.blob = "absent"]
      /\ UNCHANGED <<objs, manager, deleting, robbed, unpruned, counts>>

(* os.WriteFile empties the file and fills it.                             *)
WriteManifest(m) ==
  /\ pulls[m].at = "manifest" /\ pulls' = Goes(m, "writing")
  /\ files' = [files EXCEPT !.manifests[m] = "torn"]
  /\ UNCHANGED <<objs, manager, deleting, robbed, unpruned, counts>>

(* A file that a DELETE removed meanwhile is gone.                         *)
FinishManifest(m) ==
  /\ pulls[m].at = "writing" /\ pulls' = Ended(m)
  /\ files' = [files EXCEPT !.manifests[m] = IF @ = "torn" THEN "ok" ELSE @]
  /\ deleting' = [d \in Models |->
       [deleting[d] EXCEPT ![m] = IF @ = "passed" /\ files.manifests[m] = "torn" THEN "late" ELSE @]]
  /\ UNCHANGED <<objs, manager, robbed, unpruned, counts>>

ManifestFails(m) ==
  \E fault \in WriteFaults :
    /\ pulls[m].at = (IF fault = "open" THEN "manifest" ELSE "writing") /\ pulls' = Ended(m)
    /\ UNCHANGED <<files, objs, manager, deleting, robbed, unpruned, counts>>

-----------------------------------------------------------------------------
(* DELETE, and the end of the server.                                      *)

(* The manifest is read, then removed, perhaps while a pull writes it.     *)
(* One DELETE of a model at a time.                                        *)
DeleteHandler(m) ==
  /\ files.manifests[m] = "ok" /\ deleting[m] = NotDeleting /\ counts.upsets < MaxUpsets
  /\ deleting' = [deleting EXCEPT ![m] = [q \in Models |-> "found"]]
  /\ counts' = [counts EXCEPT !.upsets = @ + 1]
  /\ UNCHANGED <<files, objs, manager, pulls, robbed, unpruned>>

DeleteManifest(m) ==
  /\ deleting[m] = [q \in Models |-> "found"]
  /\ files' = [files EXCEPT !.manifests[m] = "none"]
  /\ deleting' = [deleting EXCEPT ![m] = [q \in Models |-> "ahead"]]
  /\ UNCHANGED <<objs, manager, pulls, robbed, unpruned, counts>>

(* Layer.Remove lists the manifests, reads the listed ones one by one, and *)
(* then removes the blob.  Nothing keeps others from writing or removing   *)
(* manifests meanwhile.                                                    *)
ListManifests(m) ==
  /\ deleting[m] = [q \in Models |-> "ahead"]
  /\ deleting' = [deleting EXCEPT ![m] =
       [q \in Models |-> IF files.manifests[q] = "none" THEN "passed" ELSE "listed"]]
  /\ UNCHANGED <<files, objs, manager, pulls, robbed, unpruned, counts>>

(* A manifest that names the blob keeps it.  One that is unreadable, or    *)
(* goes just when it is opened, is ignored.                                *)
ReadManifestAnyway(m, q) ==
  /\ deleting[m][q] = "listed"
  /\ deleting' = [deleting EXCEPT ![m][q] = "passed"]
  /\ UNCHANGED <<files, objs, manager, pulls, robbed, unpruned, counts>>
ReadManifest(m, q) ==
  /\ deleting[m][q] = "listed"
  /\ deleting' = IF files.manifests[q] = "ok" THEN [deleting EXCEPT ![m] = NotDeleting]
                 ELSE [deleting EXCEPT ![m][q] = "passed"]
  /\ UNCHANGED <<files, objs, manager, pulls, robbed, unpruned, counts>>

(* The removal ends if a listed manifest is gone, as if the layer were.    *)
MissManifest(m, q) ==
  /\ deleting[m][q] = "listed" /\ files.manifests[q] = "none"
  /\ deleting' = [deleting EXCEPT ![m] = NotDeleting]
  /\ UNCHANGED <<files, objs, manager, pulls, robbed, unpruned, counts>>

HasSeen(m) ==
  \/ pulls[m].at \in {"manifest", "writing"}
  \/ pulls[m].at = "verify" /\ pulls[m].cacheHit
RemoveLayer(m) ==
  /\ \A q \in Models : deleting[m][q] \in {"passed", "late"}
  /\ deleting' = [deleting EXCEPT ![m] = NotDeleting]
  /\ files' = [files EXCEPT !.blob = "absent"]
  /\ robbed' = robbed \cup {q \in Models : HasSeen(q) \/ deleting[m][q] = "late"}
  /\ UNCHANGED <<objs, manager, pulls, unpruned, counts>>

RemoveLayers(m) ==
  \/ ListManifests(m) \/ RemoveLayer(m)
  \/ \E q \in Models : ReadManifest(m, q) \/ MissManifest(m, q)

(* Serve prunes, unless a manifest is unreadable: partial downloads and    *)
(* blobs without a manifest go.                                            *)
SkipsPrune(f) == NoPrune \/ \E m \in Models : f.manifests[m] = "torn"
Pruned(f) ==
  IF SkipsPrune(f) THEN f
  ELSE [EmptyPartial(f) EXCEPT !.parts = [k \in Parts |-> Missing],
          !.blob = IF \E m \in Models : f.manifests[m] = "ok" THEN @ ELSE "absent"]

Restart(f) ==
  /\ files' = Pruned(f) /\ objs' = <<>> /\ manager' = 0
  /\ pulls' = [m \in Models |-> NoPull]
  /\ deleting' = [m \in Models |-> NotDeleting]
  /\ unpruned' = \/ SkipsPrune(f) /\ (f.partial \/ Present(f.parts) # {})
                 \/ unpruned /\ (SkipsPrune(f) \/ \E m \in Models : f.manifests[m] = "ok")
  /\ UNCHANGED robbed

(* The part files that are being written.                                  *)
Writing ==
  {k \in Parts : \E o \in 1 .. Len(objs) : objs[o].at = "chunks" /\ objs[o].job[k] = "save"}
  \cup {Cardinality(Present(objs[pulls[m].obj].parts)) :
          m \in {q \in Models : pulls[q].at = "newPart"}}

Crash ==
  \E torn \in SUBSET Writing :
    /\ counts.upsets < MaxUpsets /\ counts' = [counts EXCEPT !.upsets = @ + 1]
    /\ Restart([files EXCEPT !.parts = [k \in Parts |-> IF k \in torn THEN Torn ELSE @[k]]])

(* A client leaves and the server panics.                                  *)
LeavePanics(m) ==
  /\ pulls[m].at = "wait" /\ Panics(m) /\ Restart(files) /\ UNCHANGED counts

-----------------------------------------------------------------------------
PullStep(m) ==
  \/ LoadOrStore(m) \/ PrepareRead(m) \/ PrepareUnreadable(m) \/ PrepareHead(m) \/ HeadFails(m)
  \/ NewPart(m) \/ NewPartFails(m) \/ Acquire(m) \/ Return(m) \/ Verify(m)
  \/ WriteManifest(m) \/ FinishManifest(m) \/ ManifestFails(m)

Next ==
  \/ \E m \in Models :
       \/ Stat(m) \/ PullStep(m) \/ Leave(m) \/ LeavePanics(m) \/ Block(m)
       \/ DeleteHandler(m) \/ DeleteManifest(m) \/ RemoveLayers(m)
  \/ \E o \in 1 .. Len(objs) : Run(o)
  \/ Crash

Spec == Init /\ [][Next]_vars

(* Goroutines run on; the registry answers in the end; requests go on      *)
(* unless they wait.                                                       *)
FairSpec ==
  /\ Spec
  /\ \A o \in 1 .. MaxPulls : WF_vars(o <= Len(objs) /\ Run(o))
  /\ \A m \in Models : WF_vars(PullStep(m))
=============================================================================
