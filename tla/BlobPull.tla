------------------------------- MODULE BlobPull -------------------------------
(***************************************************************************)
(* What pulling models that share a blob promises, whatever the downloads  *)
(* do: a pull succeeds only after the whole blob was there under its name, *)
(* nothing else is ever seen under that name, and the blob goes only when  *)
(* a deletion has, since it began, found each model without a manifest, at *)
(* one time or another: not if it finds one that was there all along.      *)
(***************************************************************************)
CONSTANT Models

VARIABLES
  blob,       \* the whole blob is there
  manifests,  \* the models that have a manifest
  pull,       \* "none", "pulling", "seen": it has seen the blob
  deleting,   \* the models that are being deleted
  unfound     \* the models that the deletion of a model has found without a manifest

vars == <<blob, manifests, pull, deleting, unfound>>

Init ==
  /\ blob = FALSE /\ manifests = {} /\ pull = [m \in Models |-> "none"]
  /\ deleting = {} /\ unfound = [m \in Models |-> {}]

Begin(m) ==
  /\ pull[m] = "none" /\ pull' = [pull EXCEPT ![m] = "pulling"]
  /\ UNCHANGED <<blob, manifests, deleting, unfound>>

(* A download may outlive the pulls that wanted it.                        *)
Publish == blob' = TRUE /\ UNCHANGED <<manifests, pull, deleting, unfound>>

See(m) ==
  /\ blob /\ pull[m] \in {"none", "pulling"} /\ pull' = [pull EXCEPT ![m] = "seen"]
  /\ UNCHANGED <<blob, manifests, deleting, unfound>>

(* The manifest is written over the old one, so it may be missing before.  *)
Hide(m) ==
  /\ pull[m] = "seen" /\ manifests' = manifests \ {m} /\ UNCHANGED <<blob, pull, deleting, unfound>>
Succeed(m) ==
  /\ pull[m] = "seen" /\ manifests' = manifests \cup {m}
  /\ pull' = [pull EXCEPT ![m] = "none"] /\ UNCHANGED <<blob, deleting, unfound>>

Fail(m) ==
  /\ pull[m] # "none" /\ pull' = [pull EXCEPT ![m] = "none"]
  /\ UNCHANGED <<blob, manifests, deleting, unfound>>

(* A deletion removes the manifest, looks for the others and ends without  *)
(* the blob or, if it found none, takes it.                                *)
Delete(m) ==
  /\ m \in manifests \ deleting /\ deleting' = deleting \cup {m}
  /\ UNCHANGED <<blob, manifests, pull, unfound>>
Drop(m) ==
  /\ m \in deleting /\ unfound[m] = {} /\ manifests' = manifests \ {m}
  /\ UNCHANGED <<blob, pull, deleting, unfound>>
Look(m, qs) ==
  /\ m \in deleting /\ qs \cap manifests = {}
  /\ unfound' = [unfound EXCEPT ![m] = @ \cup qs]
  /\ UNCHANGED <<blob, manifests, pull, deleting>>
Over(m) ==
  /\ m \in deleting /\ deleting' = deleting \ {m}
  /\ unfound' = [unfound EXCEPT ![m] = {}] /\ UNCHANGED <<manifests, pull>>
Keep(m) == Over(m) /\ UNCHANGED blob
Evict(m) == Over(m) /\ unfound[m] = Models /\ blob' = FALSE

(* The server ends and starts: no pull survives, a blob nobody needs may.  *)
Restart ==
  /\ pull' = [m \in Models |-> "none"] /\ UNCHANGED manifests
  /\ deleting' = {} /\ unfound' = [m \in Models |-> {}]
  /\ UNCHANGED blob \/ (manifests = {} /\ blob' = FALSE)

Next ==
  \/ Publish \/ Restart
  \/ \E m \in Models :
       \/ Begin(m) \/ See(m) \/ Hide(m) \/ Succeed(m) \/ Fail(m)
       \/ Delete(m) \/ Drop(m) \/ Keep(m) \/ Evict(m) \/ \E qs \in SUBSET Models : Look(m, qs)

Spec == Init /\ [][Next]_vars
=============================================================================
