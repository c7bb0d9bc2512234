-------------------------- MODULE DownloadProperties --------------------------
(***************************************************************************)
(* What Download promises.                                                 *)
(***************************************************************************)
EXTENDS Download

(* A model with a manifest has its blob, with the right contents: whatever *)
(* fails, is cancelled, shared or killed.  Not if a DELETE took the blob   *)
(* after the pull had seen it, or finished its manifest after the DELETE   *)
(* had looked for it (Layer.Remove), nor after a start that kept the part  *)
(* files of a killed server.                                               *)
ManifestIntactUnlessRobbed ==
  ~unpruned =>
    \A m \in Models \ robbed : files.manifests[m] = "ok" => files.blob = "good"

(* What a part file records as completed is in the partial file: a resumed *)
(* download skips nothing that is missing.                                 *)
CompletedWritten ==
  ~unpruned => \A k \in Parts : files.parts[k] <= files.data[k]

Active(o) == objs[o].at \notin {"abandoned", "delete", "close", "done"}

(* At most one download is at work on the part files and the partial file, *)
(* though they are made anew while others still wait for an old one.       *)
OneWriter ==
  \A o1, o2 \in 1 .. Len(objs) : Active(o1) /\ Active(o2) => o1 = o2

(* blobDownload.references is the number of pulls that are in Wait, so     *)
(* that the last of them cancels the download and no other.                *)
RefsExact ==
  \A o \in 1 .. Len(objs) :
    objs[o].refs = Cardinality({m \in Models : pulls[m].obj = o /\ pulls[m].at \in {"wait", "stuck"}})

(* To readers of the blobs and manifests the downloads are BlobPull.       *)
Abstract ==
  INSTANCE BlobPull WITH
    blob <- files.blob = "good",
    manifests <- {m \in Models : files.manifests[m] = "ok"},
    pull <- [m \in Models |->
      IF pulls[m].at \in {"none", "stuck"} THEN "none" ELSE IF HasSeen(m) THEN "seen" ELSE "pulling"],
    deleting <- {m \in Models : deleting[m] # NotDeleting},
    unfound <- [m \in Models |-> {q \in Models : deleting[m][q] \in {"passed", "late"}}]

(* Every step of the downloads is a step of BlobPull or changes nothing    *)
(* it knows of, unless a start kept the part files of a killed server.     *)
ImplementsPull == Abstract!Init /\ [][unpruned \/ Abstract!Next]_(Abstract!vars)

(* A pull that waits for a download whose run has begun gets an answer.    *)
WaitersReturn ==
  \A m \in Models :
    (pulls[m].at = "wait" /\ objs[pulls[m].obj].at \notin {"prepare", "abandoned"})
      ~> pulls[m].at # "wait"

(* "Cancelled pulls are resumed from where they left off, and multiple     *)
(* calls will share the same download progress" (docs/api.md): what is     *)
(* recorded as completed is given up only when the blob is complete.       *)
ResumesWhereLeftOff ==
  [][\A k \in Parts :
       files.parts[k] > 0 /\ files'.parts[k] < files.parts[k]
         => \E o \in 1 .. Len(objs) : objs[o].at = "remove"]_vars
=============================================================================
