------------------------------ MODULE Uploads ------------------------------
(***************************************************************************)
(* User-level image uploads (internal/upload, the blob half of             *)
(* internal/workspace/imagestore.go): a blob on disk and a metadata row,   *)
(* written and removed in separate steps by concurrent uploads, a delete   *)
(* and the hourly orphan sweep, while messages start to refer to them.     *)
(***************************************************************************)
EXTENDS Naturals, FiniteSets

CONSTANTS
  Ids,         \* one upload each
  MaxFiles,    \* the per-user quota
  Clients,     \* bound: uploads under way at a time
  MaxFaults    \* bound: failed store operations

VARIABLES
  blob,        \* ids with a file on disk
  urow,        \* id -> "none", "fresh" or "stale": the row, and its age
  ref,         \* ids some message of the user refers to
  up,          \* id -> "idle", "admitted", "stored", "done", "failed"
  del,         \* id -> "idle", "checked", "rowgone": Service.Delete
  sweep,       \* the pass: what it listed and, per id, where it is
  ufaults,
  late         \* observed: referred to, or recorded, after a remover had checked

uploadVars == <<blob, urow, ref, up, del, sweep, ufaults, late>>

UploadsTypeOK ==
  /\ blob \subseteq Ids /\ ref \subseteq Ids /\ late \subseteq Ids
  /\ urow \in [Ids -> {"none", "fresh", "stale"}]
  /\ up \in [Ids -> {"idle", "admitted", "stored", "done", "failed"}]
  /\ del \in [Ids -> {"idle", "checked", "rowgone"}]
  /\ sweep \in [Ids -> {"idle", "listed", "norow", "stale", "remove"}]

UploadsInit ==
  /\ blob = {} /\ urow = [i \in Ids |-> "none"] /\ ref = {} /\ up = [i \in Ids |-> "idle"]
  /\ del = [i \in Ids |-> "idle"] /\ sweep = [i \in Ids |-> "idle"] /\ ufaults = 0 /\ late = {}

ListByUser == {i \in Ids : urow[i] # "none"}

\* A remover has looked at the references and will not look again.
Checked(i) == del[i] # "idle" \/ sweep[i] = "remove"

Fails == ufaults < MaxFaults /\ ufaults' = ufaults + 1

\* The blob store: writes and removals, a removal of what is gone included.
Put(i) == blob \cup {i}
Remove(i) == blob \ {i}

-----------------------------------------------------------------------------
(* Service.Upload.                                                         *)

\* checkQuota, on a snapshot of the rows.
CheckQuota == Cardinality(ListByUser) < MaxFiles

Admit(i) ==
  /\ up[i] = "idle" /\ CheckQuota
  /\ Cardinality({j \in Ids : up[j] \in {"admitted", "stored"}}) < Clients
  /\ up' = [up EXCEPT ![i] = "admitted"]
  /\ UNCHANGED <<blob, urow, ref, del, sweep, ufaults, late>>

\* The image is decoded and encoded again, or refused before anything is written.
SaveUserUpload(i) ==
  /\ up[i] = "admitted"
  /\ \/ up' = [up EXCEPT ![i] = "stored"] /\ blob' = Put(i)
     \/ up' = [up EXCEPT ![i] = "failed"] /\ UNCHANGED blob
  /\ UNCHANGED <<urow, ref, del, sweep, ufaults, late>>

Create(i) ==
  /\ up[i] = "stored"
  /\ up' = [up EXCEPT ![i] = "done"] /\ urow' = [urow EXCEPT ![i] = "fresh"]
  /\ late' = IF Checked(i) \/ sweep[i] = "norow" \/ i \notin blob THEN late \cup {i} ELSE late
  /\ UNCHANGED <<blob, ref, del, sweep, ufaults>>

\* The insert fails: the blob is removed again, best effort.
CreateFails(i) ==
  /\ up[i] = "stored" /\ Fails
  /\ up' = [up EXCEPT ![i] = "failed"]
  /\ blob' \in {Remove(i), blob}
  /\ UNCHANGED <<urow, ref, del, sweep, late>>

\* A message carries the path the upload returned.
Refer(i) ==
  /\ up[i] = "done" /\ i \notin ref /\ ref' = ref \cup {i}
  /\ late' = IF Checked(i) \/ urow[i] = "none" THEN late \cup {i} ELSE late
  /\ UNCHANGED <<blob, urow, up, del, sweep, ufaults>>

Age(i) ==
  /\ urow[i] = "fresh" /\ urow' = [urow EXCEPT ![i] = "stale"]
  /\ UNCHANGED <<blob, ref, up, del, sweep, ufaults, late>>

-----------------------------------------------------------------------------
(* Service.Delete.                                                         *)

ReferencedByMessage(i) == i \in ref

\* Get, the ownership check and ReferencedByMessage.  Bound: one delete at a time.
CheckDelete(i) ==
  /\ (\A j \in Ids : del[j] = "idle") /\ urow[i] # "none" /\ ~ReferencedByMessage(i)
  /\ del' = [del EXCEPT ![i] = "checked"]
  /\ UNCHANGED <<blob, urow, ref, up, sweep, ufaults, late>>

DeleteRow(i) ==
  /\ del[i] = "checked"
  /\ \/ del' = [del EXCEPT ![i] = "rowgone"] /\ urow' = [urow EXCEPT ![i] = "none"] /\ UNCHANGED ufaults
     \/ Fails /\ del' = [del EXCEPT ![i] = "idle"] /\ UNCHANGED urow
  /\ UNCHANGED <<blob, ref, up, sweep, late>>

\* The blob after the record; a failure is terminal (ErrBlobRemovalFailed).
DeleteBlob(i) ==
  /\ del[i] = "rowgone" /\ del' = [del EXCEPT ![i] = "idle"]
  /\ \/ blob' = Remove(i) /\ UNCHANGED ufaults
     \/ Fails /\ UNCHANGED blob
  /\ UNCHANGED <<urow, ref, up, sweep, late>>

-----------------------------------------------------------------------------
(* SweepOrphans.                                                           *)

ListUserUploads ==
  /\ \A i \in Ids : sweep[i] = "idle"
  /\ blob # {} /\ sweep' = [i \in Ids |-> IF i \in blob THEN "listed" ELSE "idle"]
  /\ UNCHANGED <<blob, urow, ref, up, del, ufaults, late>>

SweepTo(i, pc) == sweep' = [sweep EXCEPT ![i] = pc]

\* store.Get: a recent row keeps its blob, whatever refers to it.
SweepGet(i) ==
  /\ sweep[i] = "listed" /\ \A j \in Ids : sweep[j] \in {"idle", "listed"}
  /\ SweepTo(i, CASE urow[i] = "none" -> "norow" [] urow[i] = "fresh" -> "idle" [] urow[i] = "stale" -> "stale")
  /\ UNCHANGED <<blob, urow, ref, up, del, ufaults, late>>

\* A database error aborts the pass.
SweepAborts ==
  /\ \E i \in Ids : sweep[i] \in {"listed", "norow", "stale"}
  /\ Fails /\ sweep' = [i \in Ids |-> "idle"]
  /\ UNCHANGED <<blob, urow, ref, up, del, late>>

\* The references; a stale row goes before its blob.
SweepReferences(i) ==
  /\ sweep[i] \in {"norow", "stale"}
  /\ SweepTo(i, IF ReferencedByMessage(i) THEN "idle" ELSE "remove")
  /\ urow' = IF sweep[i] = "stale" /\ ~ReferencedByMessage(i) THEN [urow EXCEPT ![i] = "none"] ELSE urow
  /\ UNCHANGED <<blob, ref, up, del, ufaults, late>>

SweepRemove(i) ==
  /\ sweep[i] = "remove" /\ SweepTo(i, "idle")
  /\ \/ blob' = Remove(i) /\ UNCHANGED ufaults
     \/ Fails /\ UNCHANGED blob
  /\ UNCHANGED <<urow, ref, up, del, late>>

UploadsNext ==
  \/ ListUserUploads \/ SweepAborts
  \/ \E i \in Ids :
       \/ Admit(i) \/ SaveUserUpload(i) \/ Create(i) \/ CreateFails(i) \/ Refer(i) \/ Age(i)
       \/ CheckDelete(i) \/ DeleteRow(i) \/ DeleteBlob(i)
       \/ SweepGet(i) \/ SweepReferences(i) \/ SweepRemove(i)

-----------------------------------------------------------------------------
(* Properties.                                                             *)

\* An image that a message refers to stays readable, unless the reference or
\* the row came while a delete or the sweep had already checked.
ReferencedImagesSurvive == \A i \in (ref \ late) : i \in blob

\* Uploads that race past the snapshot overshoot the quota by less than their
\* number.
OvershootBounded == Cardinality(ListByUser) <= MaxFiles + Clients - 1

\* A reference never breaks: deletion is refused rather than let history lose an
\* image.  Violated by a message stored after the reference check.
HistoryKeepsImages == \A i \in ref : urow[i] # "none" => i \in blob
=============================================================================
