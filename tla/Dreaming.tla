------------------------------- MODULE Dreaming -------------------------------
(***************************************************************************)
(* Offline consolidation of conversations into ONE user's long-term memory *)
(* (internal/dreaming) and the memory store it shares with the user's own  *)
(* memory tools (internal/memory).  Every server instance has a Runner,    *)
(* which starts scheduled and manual passes; a pass reads the messages     *)
(* beyond each session's watermark, has the model fold what they teach     *)
(* into the store, and only then advances the watermark.  Each database    *)
(* statement and each model call may fail.                                 *)
(*                                                                         *)
(* A memory's content is the set of facts it states: a fact is the message *)
(* that taught it, or what the user wrote.  The model's answers are the    *)
(* faithful ones the prompt asks for: they merge, refine or add, and drop  *)
(* no fact.                                                                *)
(***************************************************************************)
EXTENDS Integers, Sequences, FiniteSets, FiniteSetsExt

CONSTANTS
  Servers,     \* server instances
  Sess,        \* the user's sessions
  Cap,         \* live memories the pool may hold
  MaxMsgs,     \* bound: messages of a session
  MaxMems,     \* bound: memories ever stored
  MaxFaults    \* bound: failures, crashes, panics and uses of the memory tools

VARIABLES
  head,        \* per session: messages stored
  dreamed,     \* per session: dreamed_seq
  mems,        \* the memories in order of creation
  dlock,       \* the instance whose connection holds the advisory lock
  single,      \* instances whose Runner is running
  pass,        \* per instance: the pass and its locals
  faults,      \* faults and tool calls so far
  known,       \* observed: facts of conversations ever stored
  lost,        \* observed: facts in memories that were evicted, edited or forgotten
  doubled      \* observed: a pass stored what was already live

dreamVars == <<head, dreamed, mems, dlock, single, pass, faults, known, lost, doubled>>

NoServer == "none"
Said == <<"user", 0>>
Facts == Sess \X (1..MaxMsgs)
Kinds == {"scheduled", "manual"}
Working == {"scan", "next", "extract", "consolidate", "update", "add", "remove", "caps", "mark", "purge"}
NoAnswer == [upd |-> 0, into |-> {}, add |-> {}, rem |-> 0]
Idle == [pc |-> "idle", kind |-> "scheduled", todo |-> {}, sess |-> CHOOSE s \in Sess : TRUE,
         upto |-> 0, new |-> {}, live |-> {}, ans |-> NoAnswer, done |-> 0, spent |-> FALSE]

Ending == [Idle EXCEPT !.pc = "release"]

DreamTypeOK ==
  /\ dreamed \in [Sess -> 0..MaxMsgs] /\ head \in [Sess -> 0..MaxMsgs]
  /\ Len(mems) <= MaxMems
  /\ \A k \in DOMAIN mems : mems[k].state \in {"live", "deprecated", "deleted"}
                         /\ mems[k].content \subseteq Facts \cup {Said}
  /\ dlock \in Servers \cup {NoServer}
  /\ single \subseteq Servers
  /\ \A i \in Servers : pass[i].pc \in Working \cup {"idle", "claim", "release", "unlock", "vanished"}

DreamInit ==
  /\ head = [s \in Sess |-> 0]
  /\ dreamed = [s \in Sess |-> 0]
  /\ mems = <<>>
  /\ dlock = NoServer
  /\ single = {}
  /\ pass = [i \in Servers |-> Idle]
  /\ faults = 0
  /\ known = {} /\ lost = {} /\ doubled = FALSE

-----------------------------------------------------------------------------
(* The memory store.                                                       *)

ListByScope == {k \in DOMAIN mems : mems[k].state # "deleted"}
LiveOf(all) == {k \in all : mems[k].state = "live"}
Live == LiveOf(ListByScope)
LiveFacts == UNION {mems[k].content : k \in Live}

Store(content) ==
  /\ mems' = Append(mems, [content |-> content, state |-> "live"])
  /\ known' = known \cup (content \cap Facts)

\* An UPDATE by id: it also matches a deprecated row.
Update(k, content) ==
  /\ mems' = [mems EXCEPT ![k].content = content]
  /\ known' = known \cup (content \cap Facts)

Deprecate(ks) ==
  mems' = [k \in DOMAIN mems |-> IF k \in ks /\ mems[k].state = "live"
                                 THEN [mems[k] EXCEPT !.state = "deprecated"] ELSE mems[k]]

Erase(ks) ==
  mems' = [k \in DOMAIN mems |-> IF k \in ks THEN [content |-> {}, state |-> "deleted"] ELSE mems[k]]

\* overCap: the oldest live ones, so that at most Cap remain.
OverCap(live) == {k \in live : Cardinality({l \in live : l >= k}) > Cap}

ToolCall ==
  /\ faults < MaxFaults
  /\ faults' = faults + 1
  /\ UNCHANGED <<head, dreamed, dlock, single, pass, doubled>>

WriteMemory ==
  /\ ToolCall
  /\ Len(mems) < MaxMems
  /\ Store({Said})
  /\ UNCHANGED lost

EditMemory(k) ==
  /\ ToolCall
  /\ k \in ListByScope
  /\ Update(k, {Said})
  /\ lost' = lost \cup mems[k].content

ForgetMemory(k) ==
  /\ ToolCall
  /\ k \in ListByScope
  /\ Erase({k})
  /\ lost' = lost \cup mems[k].content
  /\ UNCHANGED known

-----------------------------------------------------------------------------
(* The runner of an instance.                                              *)

StoreSame == UNCHANGED <<mems, known, lost, doubled>>

NewMessage(s) ==
  /\ head[s] < MaxMsgs
  /\ head' = [head EXCEPT ![s] = @ + 1]
  /\ UNCHANGED <<dreamed, dlock, single, pass, faults>> /\ StoreSame

Begin(i, kind) ==
  /\ pass[i].pc = "idle" /\ i \notin single
  /\ single' = single \cup {i}
  /\ pass' = [pass EXCEPT ![i] = [Idle EXCEPT !.pc = "claim", !.kind = kind]]
  /\ UNCHANGED <<head, dreamed, dlock, faults>> /\ StoreSame

TryAcquire(i) == dlock = NoServer

Abort(i) == single' = single \ {i} /\ pass' = [pass EXCEPT ![i] = Idle]

\* claimCrossInstance; abort when the lock is held elsewhere or taking it failed.
ClaimCrossInstance(i) ==
  /\ pass[i].pc = "claim"
  /\ \/ /\ TryAcquire(i)
        /\ dlock' = i
        /\ pass' = [pass EXCEPT ![i].pc = "scan"]
        /\ UNCHANGED <<single, faults>>
     \/ ~TryAcquire(i) /\ Abort(i) /\ UNCHANGED <<dlock, faults>>
     \/ faults < MaxFaults /\ faults' = faults + 1 /\ Abort(i) /\ UNCHANGED dlock
  /\ UNCHANGED <<head, dreamed>> /\ StoreSame

\* finish: the cross-instance lock first, then the single flight.
Release(i) ==
  /\ pass[i].pc = "release"
  /\ dlock' = NoServer
  /\ pass' = [pass EXCEPT ![i].pc = "unlock"]
  /\ UNCHANGED <<head, dreamed, single, faults>> /\ StoreSame

Finish(i) ==
  /\ pass[i].pc = "unlock"
  /\ single' = single \ {i}
  /\ pass' = [pass EXCEPT ![i] = Idle]
  /\ UNCHANGED <<head, dreamed, dlock, faults>> /\ StoreSame

-----------------------------------------------------------------------------
(* The worker.                                                             *)

Undreamed == {s \in Sess : head[s] > dreamed[s]}

\* PendingSessions: each with the watermark to start from.
PendingSessions(i) ==
  /\ pass[i].pc = "scan"
  /\ pass' = [pass EXCEPT ![i].pc = "next", ![i].todo = {<<s, dreamed[s]>> : s \in Undreamed}]
  /\ UNCHANGED <<head, dreamed, dlock, single, faults>> /\ StoreSame

Episodes(s, after) == {s} \X ((after + 1)..head[s])

\* The loop of runOver.  Out of sessions or of tokens: purge, unless a manual
\* pass found nothing to learn from and compacts the store.
NextSession(i) ==
  /\ pass[i].pc = "next"
  /\ \/ \E t \in pass[i].todo :
          /\ ~pass[i].spent
          /\ pass' = [pass EXCEPT ![i].pc = "extract", ![i].todo = @ \ {t}, ![i].sess = t[1],
                                  ![i].new = Episodes(t[1], t[2]), ![i].upto = head[t[1]],
                                  ![i].done = 1]
     \/ /\ pass[i].todo = {} \/ pass[i].spent
        /\ pass' = [pass EXCEPT ![i].pc = IF pass[i].kind = "manual" /\ pass[i].done = 0
                                             /\ ~pass[i].spent
                                          THEN "consolidate" ELSE "purge",
                                ![i].new = {}]
  /\ UNCHANGED <<head, dreamed, dlock, single, faults>> /\ StoreSame

\* Where runOver goes on with a batch that was not folded in.
DeferredAt == "next"

\* extract and compress: they may leave no allowance for the consolidation.
ExtractAndCompress(i) ==
  /\ pass[i].pc = "extract"
  /\ \/ pass' = [pass EXCEPT ![i].pc = "consolidate"]
     \/ pass' = [pass EXCEPT ![i].pc = DeferredAt, ![i].spent = TRUE]
  /\ UNCHANGED <<head, dreamed, dlock, single, faults>> /\ StoreSame

\* The answers to consolidatePrompt: add the new facts, fold them into a memory,
\* or merge two memories, the survivor written before the absorbed one is removed.
Answers(live, new) ==
  {[NoAnswer EXCEPT !.add = new]}
  \cup {[NoAnswer EXCEPT !.upd = k, !.into = mems[k].content \cup new] : k \in live}
  \cup UNION {{[upd |-> k, into |-> mems[k].content \cup mems[l].content, add |-> new, rem |-> l] :
                 l \in live \ {k}} : k \in live}

\* Mutant: the removals come first.
RemovesFirst == [first |-> "remove", remove |-> "update", update |-> "add", add |-> "caps"]

\* "Order matters: update, add, remove".
EditOrder == [first |-> "update", update |-> "add", add |-> "remove", remove |-> "caps"]

\* consolidate up to the model's answer; nothing new and nothing stored skips the call.
Consolidate(i) ==
  /\ pass[i].pc = "consolidate"
  /\ \E ans \in Answers(Live, pass[i].new), spent \in BOOLEAN :
       pass' = [pass EXCEPT ![i].pc = EditOrder["first"], ![i].live = {mems[k].content : k \in Live},
                            ![i].ans = ans, ![i].spent = @ \/ spent]
  /\ UNCHANGED <<head, dreamed, dlock, single, faults>> /\ StoreSame

\* A memory forgotten meanwhile fails the pass with ErrNotFound.
ApplyUpdate(i) ==
  /\ pass[i].pc = "update"
  /\ LET ans == pass[i].ans IN
     \/ /\ ans.upd = 0
        /\ UNCHANGED <<mems, known>>
        /\ pass' = [pass EXCEPT ![i].pc = EditOrder["update"]]
     \/ /\ ans.upd # 0 /\ mems[ans.upd].state # "deleted"
        /\ Update(ans.upd, ans.into)
        /\ pass' = [pass EXCEPT ![i].pc = EditOrder["update"]]
     \/ /\ ans.upd # 0 /\ mems[ans.upd].state = "deleted"
        /\ UNCHANGED <<mems, known>>
        /\ pass' = [pass EXCEPT ![i] = Ending]
  /\ UNCHANGED <<head, dreamed, dlock, single, faults, lost, doubled>>

HasLiveContent(live, content) == content \in live

ApplyAdd(i) ==
  /\ pass[i].pc = "add"
  /\ LET ans == pass[i].ans IN
     \/ /\ ans.add = {} \/ HasLiveContent(pass[i].live, ans.add)
        /\ UNCHANGED <<mems, known, doubled>>
     \/ /\ ans.add # {} /\ ~HasLiveContent(pass[i].live, ans.add)
        /\ Len(mems) < MaxMems
        /\ Store(ans.add)
        /\ doubled' = (doubled \/ \E k \in Live : mems[k].content = ans.add)
  /\ pass' = [pass EXCEPT ![i].pc = EditOrder["add"]]
  /\ UNCHANGED <<head, dreamed, dlock, single, faults, lost>>

ApplyRemove(i) ==
  /\ pass[i].pc = "remove"
  /\ Deprecate({pass[i].ans.rem})
  /\ pass' = [pass EXCEPT ![i].pc = EditOrder["remove"]]
  /\ UNCHANGED <<head, dreamed, dlock, single, faults, known, lost, doubled>>

\* A compaction has no watermark to advance.
EnforceCaps(i) ==
  /\ pass[i].pc = "caps"
  /\ Deprecate(OverCap(Live))
  /\ lost' = lost \cup UNION {mems[k].content : k \in OverCap(Live)}
  /\ pass' = [pass EXCEPT ![i].pc = IF pass[i].done = 0 THEN "purge" ELSE "mark",
                          ![i].live = {}, ![i].ans = NoAnswer, ![i].new = {}]
  /\ UNCHANGED <<head, dreamed, dlock, single, faults, known, doubled>>

\* MarkDreamedSeq never moves the watermark backwards.
MarkProcessed(i) ==
  LET s == pass[i].sess IN
  /\ pass[i].pc = "mark"
  /\ dreamed' = [dreamed EXCEPT ![s] = Max({@, pass[i].upto})]
  /\ pass' = [pass EXCEPT ![i].pc = "next", ![i].sess = Idle.sess, ![i].upto = 0]
  /\ UNCHANGED <<head, dlock, single, faults>> /\ StoreSame

\* purge: what was deprecated long enough ago; a failure is only logged.
PurgeDeprecated(i) ==
  /\ pass[i].pc = "purge"
  /\ \E ks \in SUBSET {k \in DOMAIN mems : mems[k].state = "deprecated"} : Erase(ks)
  /\ pass' = [pass EXCEPT ![i] = Ending]
  /\ UNCHANGED <<head, dreamed, dlock, single, faults, known, lost, doubled>>

Fault ==
  /\ faults < MaxFaults
  /\ faults' = faults + 1
  /\ UNCHANGED <<head, dreamed>> /\ StoreSame

\* A statement or a model call fails, or the pass times out.
PassFails(i) ==
  /\ Fault
  /\ pass[i].pc \in Working
  /\ pass' = [pass EXCEPT ![i] = Ending]
  /\ UNCHANGED <<dlock, single>>

\* TriggerForUser recovers and finishes.  RunScheduled does not: the scheduler recovers,
\* and the single flight and the connection with the advisory lock stay taken.
Panic(i) ==
  /\ Fault
  /\ pass[i].pc \in Working
  /\ pass' = [pass EXCEPT ![i] = [Idle EXCEPT !.pc = IF pass[i].kind = "manual"
                                                       THEN "release" ELSE "vanished"]]
  /\ UNCHANGED <<dlock, single>>

\* The process dies and restarts; its connection takes the advisory lock with it.
Crash(i) ==
  /\ Fault
  /\ pass[i].pc # "idle"
  /\ pass' = [pass EXCEPT ![i] = Idle]
  /\ single' = single \ {i}
  /\ dlock' = IF dlock = i THEN NoServer ELSE dlock

Step(i) ==
  \/ ClaimCrossInstance(i) \/ Release(i) \/ Finish(i) \/ PendingSessions(i) \/ NextSession(i)
  \/ ExtractAndCompress(i) \/ Consolidate(i) \/ ApplyUpdate(i) \/ ApplyAdd(i) \/ ApplyRemove(i)
  \/ EnforceCaps(i) \/ MarkProcessed(i) \/ PurgeDeprecated(i)

DreamNext ==
  \/ \E i \in Servers : Step(i) \/ PassFails(i) \/ Panic(i) \/ Crash(i) \/ \E kind \in Kinds : Begin(i, kind)
  \/ \E s \in Sess : NewMessage(s)
  \/ WriteMemory
  \/ \E k \in DOMAIN mems : EditMemory(k) \/ ForgetMemory(k)

DreamSpec == DreamInit /\ [][DreamNext]_dreamVars

-----------------------------------------------------------------------------
(* Properties.                                                             *)

\* A message at or below the watermark was learned from: what it taught has been in the
\* store ("a silent, permanent loss" otherwise), whatever failed and whichever batch ran
\* out of allowance.
WatermarkMeansLearned ==
  \A s \in Sess : {s} \X (1..dreamed[s]) \subseteq known

\* What was learned stays in some live memory unless it was evicted by a cap or the user
\* removed it: a merge interrupted between its statements loses nothing.
LearnedStaysKnown == known \subseteq LiveFacts \cup lost

\* No pass stores a memory that is already there: not a retry after a partial failure and
\* not a pass of another instance over the same episodes.
AddsOnce == ~doubled

\* A pass that started ends and lets the next one start, whatever fails in it, on this
\* instance or on the other, unless it is a scheduled pass that panicked.
PassEnds == \A i \in Servers : i \in single ~> i \notin single \/ pass[i].pc = "vanished"

\* A panic "must still release the single-flight + cross-instance locks, or every later
\* trigger would fail with ErrBusy".  Violated by a scheduled pass.
PanicReleases == \A i \in Servers : i \in single ~> i \notin single
=============================================================================
