------------------------------- MODULE MCRecord -------------------------------
(***************************************************************************)
(* What the server writes down and shows on small instances: the step      *)
(* ledger, the history fold, uploads, retention, the Redis stream and the  *)
(* SSE frames.  They share no state, so one of them moves (focus) while    *)
(* the others rest in their initial state.                                 *)
(***************************************************************************)
EXTENDS Integers, Sequences, FiniteSets

CONSTANTS
  Runs, Calls, MaxRequests, MaxFaults, MaxCrashes,     \* Ledger
  Images, MaxFiles, MaxUploads,                        \* Uploads
  Sessions, Page, MaxPasses, MaxStirs,                 \* Retention
  Scale, Buffer, Count, MaxLen, MaxEntries, MaxErrors, \* RedisStream
  ToolCalls, MaxFrameEvents                            \* Frames

ASSUME UploadsAssumption == IsFiniteSet(Images) /\ MaxFiles \in Nat /\ MaxUploads \in Nat \ {0}
ASSUME RetentionAssumption == 0 \notin Sessions /\ Page \in Nat \ {0}
ASSUME StreamAssumption == Buffer \in Nat /\ Count \in Nat \ {0} /\ MaxLen \in Nat /\ MaxEntries \in Nat
ASSUME FramesAssumption == MaxFrameEvents \in Nat

VARIABLES
  focus,
  nextId, steps, msgs, usage, total, row, loop, call, verdict, faults, crashes,
  responses, bare, flight, dropped,
  stored, turn, reader, at, heap, calls, cur, bubbles,
  blob, urow, ref, up, del, sweep, ufaults, late,
  sess, ended, cut, img, isweep, csweep, purge, acct, put, stirs, moved, missed, left,
  stream, clock, sent, armed, poller, chan, got, skipped,
  enc, out, ends, outcome, emitted

ledgerVars == <<nextId, steps, msgs, usage, total, row, loop, call, verdict, faults, crashes,
                responses, bare, flight, dropped>>
historyVars == <<stored, turn, reader, at, heap, calls, cur, bubbles>>
uploadVars == <<blob, urow, ref, up, del, sweep, ufaults, late>>
retentionVars == <<sess, ended, cut, img, isweep, csweep, purge, acct, put, stirs, moved, missed, left>>
redisVars == <<stream, clock, sent, armed, poller, chan, got, skipped>>
frameVars == <<enc, out, ends, outcome, emitted>>
vars == <<focus, ledgerVars, historyVars, uploadVars, retentionVars, redisVars, frameVars>>

L == INSTANCE Ledger
H == INSTANCE History WITH MaxMessages <- 4, msgs <- bubbles
U == INSTANCE Uploads WITH Ids <- Images, Clients <- MaxUploads
R == INSTANCE Retention
S == INSTANCE RedisStream
F == INSTANCE Frames

Init ==
  /\ focus \in {"ledger", "history", "uploads", "retention", "redis", "frames"}
  /\ L!LedgerInit /\ H!HistoryInit /\ U!UploadsInit /\ R!RetentionInit /\ S!RedisInit /\ F!FramesInit

Only(f, step) == focus = f /\ step /\ UNCHANGED focus

Next ==
  \/ Only("ledger", L!LedgerNext)
       /\ UNCHANGED <<historyVars, uploadVars, retentionVars, redisVars, frameVars>>
  \/ Only("history", H!HistoryNext)
       /\ UNCHANGED <<ledgerVars, uploadVars, retentionVars, redisVars, frameVars>>
  \/ Only("uploads", U!UploadsNext)
       /\ UNCHANGED <<ledgerVars, historyVars, retentionVars, redisVars, frameVars>>
  \/ Only("retention", R!RetentionNext)
       /\ UNCHANGED <<ledgerVars, historyVars, uploadVars, redisVars, frameVars>>
  \/ Only("redis", S!RedisNext)
       /\ UNCHANGED <<ledgerVars, historyVars, uploadVars, retentionVars, frameVars>>
  \/ Only("frames", F!FramesNext)
       /\ UNCHANGED <<ledgerVars, historyVars, uploadVars, retentionVars, redisVars>>

Spec == Init /\ [][Next]_vars

\* The ledger: a stored message is the result of the step that provisioned its
\* id although the calls of a batch race for one; after a crash reconciliation
\* calls a run interrupted exactly when an effect was under way; every response
\* is billed once.
LedgerSound ==
  /\ L!LedgerTypeOK /\ L!ResultsBindToSteps /\ L!RecoveryTellsTruth
  /\ L!SpendCountedOnce

\* Reading back: the history fold shows every stored call once, in order and
\* with no result but its own, and loses no usage and no error; paging shows
\* every message once; and catching up on the Redis stream from any offset is
\* complete.
HistoryFaithful == H!HistoryTypeOK /\ H!FoldFaithful /\ L!PagesCover /\ S!ReadIsComplete

\* Images: one that a message refers to outlives deletes and sweeps, the quota
\* overshoots by less than the uploads under way, and the images of a session
\* that is gone go with it, whichever remover ran and over any number of pages,
\* but where that remover's one attempt failed or was cut off.
ImagesKept ==
  /\ U!UploadsTypeOK /\ U!ReferencedImagesSurvive /\ U!OvershootBounded
  /\ R!RetentionTypeOK /\ R!NoOrphanImages /\ R!ImagePassComplete

\* The Redis stream: a subscriber sees entries in order and none twice through
\* drops, errors, trimming and expiry.
LiveStreamSound == S!RedisTypeOK /\ S!LiveInOrder

\* The SSE frames: what a client decodes is well formed at every moment, and the
\* finish says how the run ended, but where the stream is finished under a run that
\* goes on or without its status.
FramesSound == F!FramesTypeOK /\ F!StreamWellFormed /\ F!CutOffIsShown

\* Violated, see AnsweredCallsShowResults in History: the call a stored tool
\* result answers shows that result.
AnsweredCallsShowResults == H!AnsweredCallsShowResults

\* Violated, see ConversationPassComplete in Retention: a conversation pass
\* deletes every session that was due when it began.
ConversationPassComplete == R!ConversationPassComplete
=============================================================================
