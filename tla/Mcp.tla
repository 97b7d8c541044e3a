--------------------------------- MODULE Mcp ---------------------------------
(***************************************************************************)
(* One MCP server entry of the tool runtime: the clients built for its     *)
(* successive configurations (internal/mcp/client.go), the manager that    *)
(* reconciles them with the setting (servers.go, wire_chat.go applyMCP),   *)
(* the background connect loops (main.go reconnectMCP) and the tool calls  *)
(* of running chats, which keep the client they were bound to.  The MCP    *)
(* server and the SDK session are external.                                *)
(***************************************************************************)
EXTENDS Naturals, FiniteSets

CONSTANTS
  Boot,          \* whether the first configuration came with the boot
  Callers,       \* tool calls that may be under way
  MaxClients,    \* bound: configurations of the entry
  MaxSessions,   \* bound: handshakes that succeed
  MaxDrops       \* bound: sessions the server drops

VARIABLES
  current,       \* the manager's client, 0 when the entry is not configured
  built,         \* clients built so far
  held,          \* per client: its session, 0 for nil
  loop,          \* per client: its connect loop
  cancels,       \* mcpCancels: the client whose loop the entry's function stops
  session,       \* per session: how it is
  caller,        \* per call: its client and where it is
  drops

mcpVars == <<current, built, held, loop, cancels, session, caller, drops>>

Clients == 1..MaxClients
SessionIds == 1..MaxSessions
Idle == [pc |-> "idle", client |-> 0, old |-> 0, tried |-> FALSE]

McpTypeOK ==
  /\ current \in 0..built /\ built <= MaxClients /\ cancels \in 0..built
  /\ held \in [Clients -> 0..MaxSessions]
  /\ loop \in [Clients -> {"none", "run", "stopping"}]
  /\ session \in [SessionIds -> {"none", "open", "dead", "closed"}]
  /\ \A c \in Callers : caller[c].pc \in {"idle", "call", "wait", "close", "dial"}

McpInit ==
  /\ built = (IF Boot THEN 1 ELSE 0) /\ current = built
  /\ held = [c \in Clients |-> 0] /\ cancels = 0 /\ drops = 0
  /\ loop = [c \in Clients |-> IF c <= built THEN "run" ELSE "none"]
  /\ session = [s \in SessionIds |-> "none"] /\ caller = [c \in Callers |-> Idle]

-----------------------------------------------------------------------------
(* Sessions.                                                               *)

Fresh == CHOOSE s \in SessionIds : session[s] = "none" /\ \A t \in 1..(s - 1) : session[t] # "none"
CanDial == \E s \in SessionIds : session[s] = "none"

\* Connect's last step: the new session and tool set replace the old ones; the
\* session that was there is not closed.
Install(c) ==
  /\ CanDial /\ session' = [session EXCEPT ![Fresh] = "open"]
  /\ held' = [held EXCEPT ![c] = Fresh]

\* session.Close
Closed(s) == IF s = 0 THEN session ELSE [session EXCEPT ![s] = "closed"]

\* The server restarts or reaps an idle session.
Drop(s) ==
  /\ session[s] = "open" /\ drops < MaxDrops /\ drops' = drops + 1
  /\ session' = [session EXCEPT ![s] = "dead"]
  /\ UNCHANGED <<current, built, held, loop, cancels, caller>>

-----------------------------------------------------------------------------
(* reconnectMCP.  A failed handshake is retried and changes nothing.       *)

LoopConnects(c) ==
  /\ loop[c] = "run" /\ Install(c) /\ loop' = [loop EXCEPT ![c] = "none"]
  /\ UNCHANGED <<current, built, cancels, caller, drops>>

\* A cancelled loop leaves when its attempt fails; an attempt that was about
\* to succeed still installs its session.
LoopStops(c) ==
  /\ loop[c] = "stopping" /\ loop' = [loop EXCEPT ![c] = "none"]
  /\ \/ UNCHANGED <<held, session>>
     \/ Install(c)
  /\ UNCHANGED <<current, built, cancels, caller, drops>>

-----------------------------------------------------------------------------
(* Manager.Apply and applyMCP.                                             *)

\* Client.Close, of the client that leaves the manager.
CloseClient(c) ==
  /\ session' = (IF c = 0 THEN session ELSE Closed(held[c]))
  /\ held' = (IF c = 0 THEN held ELSE [held EXCEPT ![c] = 0])

\* The loop that applyMCP starts for an added client.
Added(c) == "run"

\* A new entry, or one whose configuration changed: the old client is closed
\* and a new one built.  Only a removed name's loop is cancelled.
ApplyChanged ==
  /\ built < MaxClients /\ built' = built + 1 /\ current' = built + 1
  /\ CloseClient(current)
  /\ loop' = [loop EXCEPT ![built + 1] = Added(built + 1)]
  /\ cancels' = built + 1
  /\ UNCHANGED <<caller, drops>>

ApplyRemoved ==
  /\ current # 0 /\ current' = 0 /\ CloseClient(current)
  /\ loop' = IF cancels # 0 /\ loop[cancels] = "run" THEN [loop EXCEPT ![cancels] = "stopping"] ELSE loop
  /\ cancels' = 0
  /\ UNCHANGED <<built, caller, drops>>

-----------------------------------------------------------------------------
(* Client.call.                                                            *)

CallTo(k, pc) == caller' = [caller EXCEPT ![k].pc = pc]

\* A run calls a tool it bound when the client was in the manager.
Begin(k) ==
  /\ caller[k].pc = "idle"
  /\ \E c \in 1..built : caller' = [caller EXCEPT ![k] = [pc |-> "call", client |-> c, old |-> 0, tried |-> FALSE]]
  /\ UNCHANGED <<current, built, held, loop, cancels, session, drops>>

\* callTool reads the session; without one the call ends in an error.
ReadSession(k) ==
  LET s == held[caller[k].client] IN
  /\ caller[k].pc = "call"
  /\ caller' = [caller EXCEPT ![k] = IF s = 0 THEN Idle ELSE [@ EXCEPT !.pc = "wait", !.old = s]]
  /\ UNCHANGED <<current, built, held, loop, cancels, session, drops>>

\* The session answers, or is found dead, which leads to one reconnect.
CallTool(k) ==
  /\ caller[k].pc = "wait"
  /\ caller' = [caller EXCEPT ![k] =
       IF session[@.old] # "open" /\ ~@.tried THEN [@ EXCEPT !.pc = "close", !.tried = TRUE] ELSE Idle]
  /\ UNCHANGED <<current, built, held, loop, cancels, session, drops>>

\* reconnect: whatever session the client has by now is closed.
CloseOld(k) ==
  /\ caller[k].pc = "close" /\ CallTo(k, "dial")
  /\ session' = Closed(held[caller[k].client])
  /\ UNCHANGED <<current, built, held, loop, cancels, drops>>

Redial(k) ==
  /\ caller[k].pc = "dial"
  /\ \/ Install(caller[k].client) /\ CallTo(k, "call")
     \/ UNCHANGED <<held, session>> /\ caller' = [caller EXCEPT ![k] = Idle]
  /\ UNCHANGED <<current, built, loop, cancels, drops>>

McpNext ==
  \/ ApplyChanged \/ ApplyRemoved
  \/ \E s \in SessionIds : Drop(s)
  \/ \E c \in Clients : LoopConnects(c) \/ LoopStops(c)
  \/ \E k \in Callers : Begin(k) \/ ReadSession(k) \/ CallTool(k) \/ CloseOld(k) \/ Redial(k)

-----------------------------------------------------------------------------
(* Properties.                                                             *)

\* Whatever the console edits and whoever reconnects meanwhile, the configured
\* server's client has a session (dead ones are replaced by the next call) or
\* a loop that is still trying to get one; no edit strands it.
ServerIsServed == current # 0 => held[current] # 0 \/ loop[current] = "run"

\* wire_chat.go: "removed servers' loops are cancelled."  Violated: the loop of
\* a server the process booted with is not in mcpCancels, and the entry of a
\* rebuilt server is overwritten without being called, so a loop goes on for a
\* client that is no longer managed and leaves it an open session.
RemovedLoopsStop == current = 0 => \A c \in Clients : loop[c] # "run"
=============================================================================
