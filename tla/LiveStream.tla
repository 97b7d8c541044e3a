----------------------------- MODULE LiveStream -----------------------------
(***************************************************************************)
(* Live delivery of ONE session's content frames: memBroker                *)
(* (internal/session/streambroker.go) and the attach loop of the clients   *)
(* (internal/chatapi/attach.go), with as much of a run's life as they      *)
(* observe.  Frames are published concurrently (parallel tool calls,       *)
(* subagents, writes of session state), retained in a bounded ring and     *)
(* sent to bounded channels that drop when full.                           *)
(*                                                                         *)
(* An absent stream entry is one without offset, frames or subscribers.    *)
(***************************************************************************)
EXTENDS Naturals, Sequences, FiniteSets

CONSTANTS
  Publishers,   \* goroutines that publish frames
  Clients,      \* attached HTTP clients
  Capacity,     \* frames the ring retains (1024)
  Buffer,       \* frames a subscriber's channel holds (256)
  AllowCancelRun, \* Runtime.CancelRun may settle a run whose worker unwinds
  MaxRuns,      \* bound: runs
  MaxFrames     \* bound: frames published in a behaviour

ASSUME SizesAssumption ==
  /\ Capacity \in Nat \ {0}
  /\ Buffer \in Nat \ {0}
  /\ AllowCancelRun \in BOOLEAN
ASSUME BoundsAssumption == MaxRuns \in Nat /\ MaxFrames \in Nat

Runs == 1..MaxRuns
Session == 0              \* the run id of a session-scoped frame (empty)
Ids == 1..MaxFrames
Frame == [id : Ids, off : Ids, run : Runs \cup {Session}]
Idle == [todo |-> {}, frame |-> <<>>]

VARIABLES
  \* ------------------------------------------------- the runtime
  run,       \* the newest run, or Session when there was none
  phase,     \* how far its settlement is
  working,   \* the runs whose worker still executes
  \* ------------------------------------------------- memBroker
  next, ring, subs,      \* liveStream: last offset, retained frames, subscribers
  pub,                   \* a Publish past its lock: the frame and whom to send it
  \* ------------------------------------------------- clients
  pc, crun,              \* control point of attach, and the run it follows
  chan,                  \* the content channel
  lifecycle,             \* the run's terminal event is in the lifecycle channel
  terminal,              \* ... and was received
  maxOff, view,          \* maxOffset, and the frames the client was sent
  \* ------------------------------------------------- observed
  sent,      \* the run of every published frame, by id
  gone       \* the frames that the ring evicted or dropped when it was cleared

runVars == <<run, phase, working>>
broker == <<next, ring, subs, pub>>
client == <<pc, crun, chan, lifecycle, terminal, maxOff, view>>
vars == <<runVars, broker, client, sent, gone>>

Phases == {"settled", "running", "ended", "released", "cleared"}
ClientPC == {"idle", "lifecycle", "catchUp", "check", "follow", "drain", "closed"}

TypeOK ==
  /\ run \in Runs \cup {Session}
  /\ phase \in Phases
  /\ working \in SUBSET Runs
  /\ next \in 0..MaxFrames
  /\ ring \in Seq(Frame) /\ Len(ring) <= Capacity
  /\ subs \in SUBSET Clients
  /\ pub \in [Publishers -> [todo : SUBSET Clients, frame : Frame \cup {<<>>}]]
  /\ pc \in [Clients -> ClientPC]
  /\ crun \in [Clients -> Runs \cup {Session}]
  /\ chan \in [Clients -> Seq(Frame)] /\ \A c \in Clients : Len(chan[c]) <= Buffer
  /\ lifecycle \in [Clients -> BOOLEAN]
  /\ terminal \in [Clients -> BOOLEAN]
  /\ maxOff \in [Clients -> 0..MaxFrames]
  /\ view \in [Clients -> Seq(Frame)]
  /\ sent \in Seq(Runs \cup {Session})
  /\ gone \in SUBSET Ids

Init ==
  /\ run = Session /\ phase = "settled" /\ working = {}
  /\ next = 0 /\ ring = <<>> /\ subs = {}
  /\ pub = [p \in Publishers |-> Idle]
  /\ pc = [c \in Clients |-> "idle"]
  /\ crun = [c \in Clients |-> Session]
  /\ chan = [c \in Clients |-> <<>>]
  /\ lifecycle = [c \in Clients |-> FALSE]
  /\ terminal = [c \in Clients |-> FALSE]
  /\ maxOff = [c \in Clients |-> 0]
  /\ view = [c \in Clients |-> <<>>]
  /\ sent = <<>> /\ gone = {}

IdsOf(frames) == {frames[i].id : i \in DOMAIN frames}

-----------------------------------------------------------------------------
(* The life of a run, as the clients see it.                               *)

\* Runtime.ActiveRun: the in-memory lock, else the run row.
ActiveRun == phase # "settled"

StartRun ==
  /\ ~ActiveRun /\ run < MaxRuns
  /\ run' = run + 1
  /\ phase' = "running"
  /\ working' = working \cup {run + 1}
  /\ UNCHANGED <<broker, client, sent, gone>>

\* The worker's terminal event: stored, then published on the lifecycle bus.
\* Its tools have returned by then.
EmitTerminal(r) ==
  /\ r \in working
  /\ \A p \in Publishers : pub[p] # Idle => pub[p].frame.run # r
  /\ working' = working \ {r}
  /\ phase' = IF r = run /\ phase = "running" THEN "ended" ELSE phase
  /\ lifecycle' = [c \in Clients |->
       lifecycle[c] \/ (crun[c] = r /\ pc[c] \notin {"idle", "lifecycle", "closed"})]
  /\ UNCHANGED <<run, broker, pc, crun, chan, terminal, maxOff, view, sent, gone>>

\* CompleteRunForRun removes the lock: at the end of the worker, or early by
\* CancelRun while the worker still unwinds.
ReleaseLock ==
  /\ phase = "ended" \/ (phase = "running" /\ AllowCancelRun)
  /\ phase' = "released"
  /\ UNCHANGED <<run, working, broker, client, sent, gone>>

\* ... then memBroker.Settle drops the retained frames, and an entry nobody
\* follows with them ...
Settle ==
  /\ phase = "released"
  /\ phase' = "cleared"
  /\ ring' = <<>>
  /\ gone' = gone \cup IdsOf(ring)
  /\ next' = IF subs = {} THEN 0 ELSE next
  /\ UNCHANGED <<run, working, subs, pub, client, sent>>

\* ... and only then the row is settled.
UpdateRunStatus ==
  /\ phase = "cleared"
  /\ phase' = "settled"
  /\ UNCHANGED <<run, working, broker, client, sent, gone>>

-----------------------------------------------------------------------------
(* memBroker.Publish.                                                      *)

\* Evict the oldest frames above the capacity.
Retain(frames) ==
  IF Len(frames) > Capacity
  THEN SubSeq(frames, Len(frames) - Capacity + 1, Len(frames))
  ELSE frames

\* Under the lock: offset, ring and a snapshot of the subscribers.  A run's
\* goroutines publish until its worker ends; SetSessionStateKV publishes a
\* session-scoped frame when no run is active.
PublishAppend(p, r) ==
  LET f == [id |-> Len(sent) + 1, off |-> next + 1, run |-> r] IN
  /\ pub[p] = Idle
  /\ Len(sent) < MaxFrames
  /\ r \in working \/ (r = Session /\ ~ActiveRun)
  /\ next' = next + 1
  /\ ring' = Retain(Append(ring, f))
  /\ gone' = gone \cup (IdsOf(ring) \ IdsOf(ring'))
  /\ sent' = Append(sent, r)
  /\ pub' = [pub EXCEPT ![p] = IF subs = {} THEN Idle ELSE [todo |-> subs, frame |-> f]]
  /\ UNCHANGED <<runVars, subs, client>>

\* After the unlock: send to each channel of the snapshot, or drop.
PublishSend(p, c) ==
  LET left == pub[p].todo \ {c} IN
  /\ c \in pub[p].todo
  /\ chan' = [chan EXCEPT ![c] = IF Len(@) < Buffer THEN Append(@, pub[p].frame) ELSE @]
  /\ pub' = [pub EXCEPT ![p] = IF left = {} THEN Idle ELSE [@ EXCEPT !.todo = left]]
  /\ UNCHANGED <<runVars, next, ring, subs, pc, crun, lifecycle, terminal, maxOff, view,
                 sent, gone>>

-----------------------------------------------------------------------------
(* attach.                                                                 *)

Goto(c, l) == pc' = [pc EXCEPT ![c] = l]

RunScoped(f, c) == f.run = crun[c] \/ f.run = Session

\* A frame this client accepts and has not been sent.
Fresh(f, c) == RunScoped(f, c) /\ f.off > maxOff[c]

\* A set of indices, in increasing order.
Increasing(I) ==
  CHOOSE f \in [1..Cardinality(I) -> I] : \A j, k \in DOMAIN f : j < k => f[j] < f[k]

\* The frames of the ring at these indices, oldest first.
RingAt(I) == LET at == Increasing(I) IN [k \in 1..Cardinality(I) |-> ring[at[k]]]

\* Broker.Read after maxOffset, filtered.
Retained(c) == RingAt({i \in DOMAIN ring : Fresh(ring[i], c)})

\* Write the frames, oldest first, and advance maxOffset.
EmitStream(c, frames) ==
  /\ view' = [view EXCEPT ![c] = @ \o frames]
  /\ maxOff' = [maxOff EXCEPT ![c] = IF frames = <<>> THEN @ ELSE frames[Len(frames)].off]

\* The unsubscribe func: the entry of a settled stream goes with its last client.
\* A send that is already under way lands in a channel nobody reads.
Unsubscribe(c) ==
  /\ subs' = subs \ {c}
  /\ next' = IF subs' = {} /\ ring = <<>> THEN 0 ELSE next
  /\ chan' = [chan EXCEPT ![c] = <<>>]
  /\ pub' = [p \in Publishers |->
       IF pub[p].todo \subseteq {c} THEN Idle ELSE [pub[p] EXCEPT !.todo = @ \ {c}]]

SubscribeContent(c) ==
  /\ pc[c] = "idle" /\ ActiveRun
  /\ crun' = [crun EXCEPT ![c] = run]
  /\ subs' = subs \cup {c}
  /\ Goto(c, "lifecycle")
  /\ UNCHANGED <<runVars, next, ring, pub, chan, lifecycle, terminal, maxOff, view, sent, gone>>

SubscribeLifecycle(c) ==
  /\ pc[c] = "lifecycle"
  /\ Goto(c, "catchUp")
  /\ UNCHANGED <<runVars, broker, crun, chan, lifecycle, terminal, maxOff, view, sent, gone>>

CatchUp(c) ==
  /\ pc[c] = "catchUp"
  /\ EmitStream(c, Retained(c))
  /\ Goto(c, "check")
  /\ UNCHANGED <<runVars, broker, crun, chan, lifecycle, terminal, sent, gone>>

\* The one-shot check for a run that settled meanwhile.
CheckSettled(c) ==
  /\ pc[c] = "check"
  /\ Goto(c, IF ActiveRun THEN "follow" ELSE "drain")
  /\ UNCHANGED <<runVars, broker, crun, chan, lifecycle, terminal, maxOff, view, sent, gone>>

\* Mutant: a hole is not filled.
NoGap(c, f) == <<>>

\* fillGap: the retained frames between maxOffset and the one that arrived.
Gap(c, f) ==
  IF f.off > maxOff[c] + 1
  THEN RingAt({i \in DOMAIN ring : Fresh(ring[i], c) /\ ring[i].off < f.off})
  ELSE <<>>

ReceiveContent(c) ==
  LET f == Head(chan[c]) IN
  /\ pc[c] = "follow" /\ chan[c] # <<>>
  /\ chan' = [chan EXCEPT ![c] = Tail(@)]
  /\ EmitStream(c, IF Fresh(f, c) THEN Gap(c, f) \o <<f>> ELSE <<>>)
  /\ UNCHANGED <<runVars, broker, pc, crun, lifecycle, terminal, sent, gone>>

ReceiveLifecycle(c) ==
  /\ pc[c] = "follow" /\ lifecycle[c]
  /\ lifecycle' = [lifecycle EXCEPT ![c] = FALSE]
  /\ terminal' = [terminal EXCEPT ![c] = TRUE]
  /\ UNCHANGED <<runVars, broker, pc, crun, chan, maxOff, view, sent, gone>>

\* Mutant: the poll waits for the terminal event.
PollTerminalOnly(c) ==
  /\ pc[c] = "follow" /\ terminal[c]
  /\ Goto(c, "drain")
  /\ UNCHANGED <<runVars, broker, crun, chan, lifecycle, terminal, maxOff, view, sent, gone>>

\* The settle poll: the terminal event was seen, or (after a silence) no run of
\* the SESSION is active any more.
SettlePoll(c) ==
  /\ pc[c] = "follow"
  /\ terminal[c] \/ ~ActiveRun
  /\ Goto(c, "drain")
  /\ UNCHANGED <<runVars, broker, crun, chan, lifecycle, terminal, maxOff, view, sent, gone>>

\* drainContent: what is queued is written without looking for holes ...
DrainContent(c) ==
  LET f == Head(chan[c]) IN
  /\ pc[c] = "drain" /\ chan[c] # <<>>
  /\ chan' = [chan EXCEPT ![c] = Tail(@)]
  /\ EmitStream(c, IF Fresh(f, c) THEN <<f>> ELSE <<>>)
  /\ UNCHANGED <<runVars, broker, pc, crun, lifecycle, terminal, sent, gone>>

\* ... then what the ring still has; settleFinish and the deferred unsubscribes.
DrainRetained(c) ==
  /\ pc[c] = "drain" /\ chan[c] = <<>>
  /\ EmitStream(c, Retained(c))
  /\ Goto(c, "closed")
  /\ Unsubscribe(c)
  /\ UNCHANGED <<runVars, ring, crun, lifecycle, terminal, sent, gone>>

Forget(c) ==
  /\ Goto(c, "idle")
  /\ crun' = [crun EXCEPT ![c] = Session]
  /\ lifecycle' = [lifecycle EXCEPT ![c] = FALSE]
  /\ terminal' = [terminal EXCEPT ![c] = FALSE]
  /\ maxOff' = [maxOff EXCEPT ![c] = 0]
  /\ view' = [view EXCEPT ![c] = <<>>]

\* The response is complete; the client may attach again.
Return(c) ==
  /\ pc[c] = "closed"
  /\ Forget(c)
  /\ UNCHANGED <<runVars, broker, chan, sent, gone>>

\* The client goes away while it follows.
Disconnect(c) ==
  /\ pc[c] = "follow"
  /\ Forget(c)
  /\ Unsubscribe(c)
  /\ UNCHANGED <<runVars, ring, sent, gone>>

-----------------------------------------------------------------------------
RunStep ==
  \/ (\E r \in Runs : EmitTerminal(r)) \/ ReleaseLock \/ Settle \/ UpdateRunStatus

AttachStep(c) ==
  \/ SubscribeLifecycle(c) \/ CatchUp(c) \/ CheckSettled(c)
  \/ ReceiveContent(c) \/ ReceiveLifecycle(c) \/ SettlePoll(c)
  \/ DrainContent(c) \/ DrainRetained(c) \/ Return(c)

Next ==
  \/ StartRun \/ RunStep
  \/ \E p \in Publishers :
       \/ \E r \in Runs \cup {Session} : PublishAppend(p, r)
       \/ \E c \in Clients : PublishSend(p, c)
  \/ \E c \in Clients : SubscribeContent(c) \/ AttachStep(c) \/ Disconnect(c)

Spec == Init /\ [][Next]_vars

\* Runs end, settlement proceeds, sends never block, and a connected client's
\* handler is scheduled.
Fairness ==
  /\ WF_vars(RunStep)
  /\ \A p \in Publishers : WF_vars(\E c \in Clients : PublishSend(p, c))
  /\ \A c \in Clients : WF_vars(AttachStep(c))

FairSpec == Spec /\ Fairness

-----------------------------------------------------------------------------
(* Properties.                                                             *)

\* However two Publish calls interleave their sends, and whether a frame arrives
\* by catch-up, live or through a filled hole, a client is sent every frame at
\* most once and in the order of publication.
ViewInOrder ==
  \A c \in Clients : \A i, j \in DOMAIN view[c] : i < j => view[c][i].id < view[c][j].id

\* A client never sees a frame of another run, also when a cancelled run's
\* goroutines still publish into its successor's stream or when the offsets have
\* restarted.
OnlyItsRun ==
  \A c \in Clients : \A i \in DOMAIN view[c] : view[c][i].run \in {crun[c], Session}

\* The frames of its run that a client missed although it was sent a later one.
Holes(c) ==
  {id \in DOMAIN sent : /\ sent[id] = crun[c]
                        /\ id \notin IdsOf(view[c])
                        /\ \E i \in DOMAIN view[c] : id < view[c][i].id}

\* While a client follows a run, a frame that its channel dropped is recovered
\* from the ring: only what the ring itself lost is missing.
FollowHasNoHole ==
  \A c \in Clients : pc[c] \in {"check", "follow"} => Holes(c) \subseteq gone

\* What a client is sent is its run as it was published: in order, nothing twice,
\* nothing of another run, and without holes the ring could have filled.
ViewFaithful == TypeOK /\ ViewInOrder /\ OnlyItsRun /\ FollowHasNoHole

\* "a final broker Read recovers frames dropped for this slow consumer that are
\* still retained in the ring": a drained client has missed nothing that the ring
\* still held.  Violated: the drain writes queued frames past a hole first.
DrainRecoversRetained ==
  \A c \in Clients : pc[c] \in {"follow", "drain", "closed"} => Holes(c) \subseteq gone

\* A client's response ends, also when its run settled without a terminal event,
\* or with one that was published before the client subscribed.
AttachEnds ==
  \A c \in Clients : pc[c] # "idle" ~> pc[c] = "idle"
=============================================================================
