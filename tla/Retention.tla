----------------------------- MODULE Retention -----------------------------
(***************************************************************************)
(* How sessions and their image directories are removed: the hourly image  *)
(* sweep (internal/workspace/imagestore.go), the conversation sweep        *)
(* (internal/session/sweep.go), the hard deletes of a session and of an    *)
(* account (internal/adminapi, internal/chatapi), beside uploads into the  *)
(* sessions.  A directory outlives its row unless its remover cleans it;   *)
(* each removal is tried once, its failure is logged, and the process may  *)
(* stop before it.                                                         *)
(***************************************************************************)
EXTENDS Naturals, Sequences, FiniteSets, SequencesExt

CONSTANTS
  Sessions,    \* the sessions of one user
  Page,        \* rows per page of a sweep
  MaxPasses,   \* bound: passes of each sweep
  MaxStirs     \* bound: hard deletes, repeated ends, images of ended sessions and stops of the server

VARIABLES
  sess,        \* session -> "none", "active", "ended", "gone"
  ended,       \* ended sessions in the order of (ended_at, id)
  cut,         \* how many of them ended before the cutoff
  img,         \* sessions with image files
  isweep, csweep,   \* the image and the conversation sweep
  purge,       \* session -> "idle", "rowgone": a hard delete
  acct,        \* the deletion of the account
  put,         \* session -> "idle", "authorized": an image upload
  stirs,
  moved,       \* observed: sessions whose end time moved or whose images came late
  missed,      \* observed: sessions whose row is gone and whose remover failed or stopped
  left         \* observed: eligible sessions a conversation pass left

retentionVars == <<sess, ended, cut, img, isweep, csweep, purge, acct, put, stirs, moved, missed, left>>

Resting == [pc |-> "idle", cursor |-> 0, page |-> <<>>, full |-> FALSE, goal |-> {}, passes |-> 0]

RetentionTypeOK ==
  /\ sess \in [Sessions -> {"none", "active", "ended", "gone"}]
  /\ Range(ended) = {s \in Sessions : sess[s] = "ended"} /\ cut \in 0..Len(ended)
  /\ img \subseteq Sessions /\ moved \subseteq Sessions /\ missed \subseteq Sessions
  /\ purge \in [Sessions -> {"idle", "rowgone"}] /\ put \in [Sessions -> {"idle", "authorized"}]
  /\ \A w \in {isweep, csweep} : w.pc \in {"idle", "list", "delete", "clean"} /\ Len(w.page) <= Page

RetentionInit ==
  /\ sess = [s \in Sessions |-> "none"] /\ ended = <<>> /\ cut = 0 /\ img = {}
  /\ isweep = Resting /\ csweep = Resting
  /\ purge = [s \in Sessions |-> "idle"] /\ acct = [pc |-> "none", ids |-> {}]
  /\ put = [s \in Sessions |-> "idle"] /\ stirs = 0 /\ moved = {} /\ missed = {} /\ left = {}

-----------------------------------------------------------------------------
(* The user.                                                               *)

\* Bounded, when it counts.
Stir(counts) == IF counts THEN stirs < MaxStirs /\ stirs' = stirs + 1 ELSE UNCHANGED stirs

CreateSession(s) ==
  /\ sess[s] = "none" /\ acct.pc \notin {"rowgone", "gone"} /\ sess' = [sess EXCEPT ![s] = "active"]
  /\ moved' = IF acct.pc = "captured" THEN moved \cup {s} ELSE moved
  /\ UNCHANGED <<ended, cut, img, isweep, csweep, purge, acct, put, missed, left, stirs>>

\* serveImageUpload: the authorization, then the file.  Bound: one image of a
\* session at a time.
Authorize(s) ==
  /\ sess[s] \in {"active", "ended"} /\ put[s] = "idle" /\ s \notin img
  /\ put' = [put EXCEPT ![s] = "authorized"]
  /\ Stir(sess[s] = "ended")
  /\ UNCHANGED <<sess, ended, cut, img, isweep, csweep, purge, acct, moved, missed, left>>

SaveImage(s) ==
  /\ put[s] = "authorized" /\ put' = [put EXCEPT ![s] = "idle"] /\ img' = img \cup {s}
  /\ moved' = IF sess[s] # "active" THEN moved \cup {s} ELSE moved
  /\ UNCHANGED <<sess, ended, cut, isweep, csweep, purge, acct, missed, left, stirs>>

Old == {ended[i] : i \in 1..cut}

\* The end list, and the length of its old part, without s.
Without(s) == IF sess[s] = "ended" THEN RemoveAt(ended, CHOOSE i \in DOMAIN ended : ended[i] = s) ELSE ended
OldWithout(s) == IF s \in Old THEN cut - 1 ELSE cut

\* DeleteSessionForUser stamps the end anew each time.
EndRow(s) ==
  /\ sess' = [sess EXCEPT ![s] = "ended"]
  /\ ended' = Append(Without(s), s) /\ cut' = OldWithout(s)

\* serveDeleteSession: the soft delete.
EndSession(s) ==
  /\ sess[s] \in {"active", "ended"} /\ EndRow(s)
  /\ moved' = IF sess[s] = "ended" THEN moved \cup {s} ELSE moved
  /\ Stir(sess[s] = "ended")
  /\ UNCHANGED <<img, isweep, csweep, purge, acct, put, missed, left>>

\* Time: another session's end falls before the cutoff.
Age ==
  /\ cut < Len(ended) /\ cut' = cut + 1
  /\ UNCHANGED <<sess, ended, img, isweep, csweep, purge, acct, put, moved, missed, left, stirs>>

-----------------------------------------------------------------------------
(* Removal.                                                                *)

\* A hard delete whose row is gone and whose images are not done yet.
Cleaning(s) ==
  \/ purge[s] = "rowgone" \/ acct.pc = "rowgone"
  \/ csweep.pc = "clean" /\ Head(csweep.page) = s

\* ImageStore.DeleteSessionImages for each of ids: some may fail, which is only logged.
RemoveImages(ids) ==
  \E failed \in SUBSET (ids \cap img) : img' = img \ (ids \ failed) /\ missed' = missed \cup failed

\* The pass ends early: it promises nothing.
Aborted(w) == [w EXCEPT !.pc = "idle", !.page = <<>>, !.goal = {}]

\* The process stops, and with it every pass and every request.
ServerStops ==
  /\ Stir(TRUE)
  /\ missed' = missed \cup {s \in img : sess[s] = "gone" /\ Cleaning(s)}
  /\ isweep' = Aborted(isweep) /\ csweep' = Aborted(csweep)
  /\ purge' = [s \in Sessions |-> "idle"] /\ put' = [s \in Sessions |-> "idle"]
  /\ acct' = [acct EXCEPT !.pc = CASE @ = "captured" -> "none" [] @ = "rowgone" -> "gone" [] OTHER -> @]
  /\ UNCHANGED <<sess, ended, cut, img, moved, left>>

-----------------------------------------------------------------------------
(* Rows.                                                                   *)

\* A page resumes strictly after the cursor's row.
Resume(i) == i + 1

\* ListEndedSessionsEndedBefore: a cursor whose row is gone gives no rows.
ListEnded(cursor) ==
  LET at == {i \in DOMAIN ended : ended[i] = cursor}
      from == IF cursor = 0 THEN 1 ELSE Resume(CHOOSE i \in at : TRUE)
      to == IF cut < from + Page - 1 THEN cut ELSE from + Page - 1
  IN IF cursor # 0 /\ at = {} THEN <<>> ELSE SubSeq(ended, from, to)

\* The row of s and all that cascades from it.
DeleteRow(s) ==
  /\ sess' = [sess EXCEPT ![s] = "gone"]
  /\ ended' = Without(s) /\ cut' = OldWithout(s)

-----------------------------------------------------------------------------
(* SweepEndedSessionImages.                                                *)

Begin(w, goal) == [w EXCEPT !.pc = "list", !.cursor = 0, !.goal = goal, !.passes = @ + 1]

\* One more page, or the end of the pass.
Listed(w) ==
  LET page == ListEnded(w.cursor) IN
  IF page = <<>> THEN [w EXCEPT !.pc = "idle"]
  ELSE [w EXCEPT !.pc = "delete", !.page = page, !.full = Len(page) = Page]

\* The last row of a page becomes the cursor; a short page ends the pass.
Advanced(w) ==
  LET id == Head(w.page) IN
  IF Len(w.page) > 1 THEN [w EXCEPT !.pc = "delete", !.page = Tail(@)]
  ELSE [w EXCEPT !.page = <<>>, !.cursor = id, !.pc = IF w.full THEN "list" ELSE "idle"]

ImagePass ==
  /\ isweep.pc = "idle" /\ isweep.passes < MaxPasses /\ isweep' = Begin(isweep, Old \cap img)
  /\ UNCHANGED <<sess, ended, cut, img, csweep, purge, acct, put, moved, missed, left, stirs>>

ImageList ==
  /\ isweep.pc = "list" /\ isweep' = Listed(isweep)
  /\ UNCHANGED <<sess, ended, cut, img, csweep, purge, acct, put, moved, missed, left, stirs>>

\* The list fails: the pass returns.
ImageListFails ==
  /\ isweep.pc = "list" /\ isweep' = Aborted(isweep)
  /\ UNCHANGED <<sess, ended, cut, img, csweep, purge, acct, put, moved, missed, left, stirs>>

\* A removal that fails is passed over: the next pass lists the session again.
DeleteSessionImages ==
  LET s == Head(isweep.page) IN
  /\ isweep.pc = "delete"
  /\ \/ img' = img \ {s} /\ isweep' = Advanced(isweep)
     \/ UNCHANGED img /\ isweep' = Advanced([isweep EXCEPT !.goal = @ \ {s}])
  /\ UNCHANGED <<sess, ended, cut, csweep, purge, acct, put, moved, missed, left, stirs>>

-----------------------------------------------------------------------------
(* SweepEndedConversations.                                                *)

ConversationPass ==
  /\ csweep.pc = "idle" /\ csweep.passes < MaxPasses /\ csweep' = Begin(csweep, Old)
  /\ UNCHANGED <<sess, ended, cut, img, isweep, purge, acct, put, moved, missed, left, stirs>>

ConversationList ==
  /\ csweep.pc = "list" /\ csweep' = Listed(csweep)
  /\ left' = IF csweep'.pc = "idle" THEN csweep.goal \cap Old ELSE left
  /\ UNCHANGED <<sess, ended, cut, img, isweep, purge, acct, put, moved, missed, stirs>>

ConversationListFails ==
  /\ csweep.pc = "list" /\ csweep' = Aborted(csweep)
  /\ UNCHANGED <<sess, ended, cut, img, isweep, purge, acct, put, moved, missed, left, stirs>>

\* DeleteSession; a row that is gone already, or a failure, is logged and passed over.
ConversationDelete ==
  LET s == Head(csweep.page) IN
  /\ csweep.pc = "delete"
  /\ \/ csweep' = Advanced([csweep EXCEPT !.goal = @ \ {s}]) /\ UNCHANGED <<sess, ended, cut>>
     \/ sess[s] # "gone" /\ csweep' = [csweep EXCEPT !.pc = "clean"] /\ DeleteRow(s)
  /\ UNCHANGED <<img, isweep, purge, acct, put, moved, missed, left, stirs>>

\* The cleanup hook.
ConversationClean ==
  /\ csweep.pc = "clean" /\ RemoveImages({Head(csweep.page)}) /\ csweep' = Advanced(csweep)
  /\ UNCHANGED <<sess, ended, cut, isweep, purge, acct, put, moved, left, stirs>>

-----------------------------------------------------------------------------
(* Hard deletes.                                                           *)

\* deleteSession and purgeDeleteSession: the run is stopped, the row goes.
PurgeSession(s) ==
  /\ purge[s] = "idle" /\ sess[s] \in {"active", "ended"}
  /\ purge' = [purge EXCEPT ![s] = "rowgone"] /\ DeleteRow(s)
  /\ Stir(TRUE)
  /\ UNCHANGED <<img, isweep, csweep, acct, put, moved, missed, left>>

PurgeImages(s) ==
  /\ purge[s] = "rowgone" /\ purge' = [purge EXCEPT ![s] = "idle"] /\ RemoveImages({s})
  /\ UNCHANGED <<sess, ended, cut, isweep, csweep, acct, put, moved, left, stirs>>

\* Mutant: the sessions are looked up after the rows have cascaded.
CapturedAfter == {}

\* SessionIDsForUser, read before the account goes.
SessionIDsForUser == {s \in Sessions : sess[s] \in {"active", "ended"}}

\* deleteUser and deleteMe.
CaptureSessions ==
  /\ acct.pc = "none" /\ acct' = [pc |-> "captured", ids |-> SessionIDsForUser]
  /\ Stir(TRUE)
  /\ UNCHANGED <<sess, ended, cut, img, isweep, csweep, purge, put, moved, missed, left>>

\* The delete is refused or fails: the captured ids are forgotten.
AccountStays ==
  /\ acct.pc = "captured" /\ acct' = [acct EXCEPT !.pc = "none"]
  /\ UNCHANGED <<sess, ended, cut, img, isweep, csweep, purge, put, moved, missed, left, stirs>>

DeleteAccount ==
  /\ acct.pc = "captured" /\ acct' = [acct EXCEPT !.pc = "rowgone"]
  /\ sess' = [s \in Sessions |-> IF sess[s] = "none" THEN "none" ELSE "gone"]
  /\ ended' = <<>> /\ cut' = 0
  /\ UNCHANGED <<img, isweep, csweep, purge, put, moved, missed, left, stirs>>

PurgeUserImages ==
  /\ acct.pc = "rowgone" /\ acct' = [acct EXCEPT !.pc = "gone"] /\ RemoveImages(acct.ids)
  /\ UNCHANGED <<sess, ended, cut, isweep, csweep, purge, put, moved, left, stirs>>

RetentionNext ==
  \/ Age \/ ServerStops \/ ImagePass \/ ImageList \/ ImageListFails \/ DeleteSessionImages
  \/ ConversationPass \/ ConversationList \/ ConversationListFails \/ ConversationDelete \/ ConversationClean
  \/ CaptureSessions \/ AccountStays \/ DeleteAccount \/ PurgeUserImages
  \/ \E s \in Sessions : CreateSession(s) \/ Authorize(s) \/ SaveImage(s) \/ EndSession(s) \/ PurgeSession(s) \/ PurgeImages(s)

-----------------------------------------------------------------------------
(* Properties.                                                             *)

\* The images of a session that is gone are gone with it, whichever of its
\* removers ran, unless the session or the image came when the remover had
\* already looked, or that one attempt failed or the process stopped before it.
NoOrphanImages == \A s \in img : sess[s] = "gone" /\ ~Cleaning(s) => s \in moved \cup missed

\* An image pass that came to its end removed what was due when it began but
\* for the removals that failed, over any number of pages, unless an end time
\* moved or images came meanwhile.
ImagePassComplete ==
  isweep.pc = "idle" /\ moved = {} /\ (\A s \in Sessions : sess[s] # "gone") => isweep.goal \cap img = {}

\* A conversation pass deletes every session that was due when it began.  Violated:
\* the cursor names a session of the page that was just deleted, and the next page's
\* subquery then finds nothing.
ConversationPassComplete == moved = {} => left = {}
=============================================================================
