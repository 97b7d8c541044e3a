------------------------------ MODULE MCPlatform ------------------------------
(***************************************************************************)
(* The platform services: the edges a request enters and leaves by,        *)
(* accounts and teams, budgets, and the registries of models, MCP servers  *)
(* and skills.  They share no state, so one of them moves (focus) while    *)
(* the others rest in one initial state.                                   *)
(***************************************************************************)
EXTENDS Integers, Sequences, FiniteSets

CONSTANTS
  Reqs,                                                    \* requests, of every service
  Hosts, Addrs, Public, MaxHops,                           \* Guard
  Hooks, EventWindow, Grace, Ahead, MaxSends, MaxHookEdits,    \* Inbound
  Emails, IPs, Logins, MaxFailures, FailWindow, Lockout,  \* Throttle
  MaxKeys, MaxNow, MaxWrong,
  Senders, MaxAttempts, DailyCodes, MaxCodes, MaxGuesses,  \* Otp
  Mail, Phone, Life, MaxTokens, MaxChanges, MaxBirths,     \* Accounts
  Users, Edits, MaxWrites,                                 \* Teams
  Costs, Budgets, Months, MaxRuns, MaxBudgetEdits,         \* Quota
  Keys, Tunings, IdleTTL, MaxTicks, MaxTunings,            \* Quota, the request limiter
  Providers, Loads, TTL, MaxClock, MaxEdits,               \* Catalog
  Boot, ToolCallers, MaxClients, MaxSessions, MaxDrops,    \* Mcp
  SkillIds, Saves, Bases, MaxSaves, MaxSwitches            \* Skills

ASSUME ReqsAssumption == IsFiniteSet(Reqs) /\ "free" \notin Reqs
ASSUME InboundAssumption ==
  /\ EventWindow \in Nat /\ Grace \in Nat /\ Ahead \in Nat
  /\ MaxHookEdits \in Nat /\ "none" \notin Hooks
ASSUME ThrottleAssumption ==
  /\ MaxFailures \in Nat \ {0} /\ FailWindow \in Nat \ {0} /\ Lockout \in Nat
  /\ FailWindow <= Lockout /\ 1 < Lockout    \* an attempt lasts a tick at most
ASSUME OtpAssumption ==
  /\ IsFiniteSet(Senders) /\ MaxCodes \in Nat
  /\ MaxAttempts \in Nat \ {0} /\ DailyCodes \in Nat \ {0}
ASSUME AccountsAssumption == Mail # Phone /\ Life \in Nat /\ MaxTokens \in Nat
ASSUME TeamsAssumption == IsFiniteSet(Users) /\ Users # {} /\ "platform" \notin Users
ASSUME BudgetAssumption ==
  /\ IsFiniteSet(Costs) /\ Costs # {} /\ Costs \subseteq Nat
  /\ Budgets \subseteq Nat \ {0} /\ Months \subseteq Nat \ {0} /\ 1 \in Months
ASSUME TuningAssumption ==
  IsFiniteSet(Tunings) /\ Tunings # {} /\ Tunings \subseteq Nat \X Nat /\ IdleTTL \in Nat

ASSUME CatalogAssumption == Providers \subseteq Nat \ {0} /\ TTL \in Nat
ASSUME McpAssumption == Boot \in BOOLEAN /\ MaxClients \in Nat \ {0} /\ MaxSessions \in Nat
ASSUME SkillsAssumption ==
  SkillIds \subseteq Nat /\ IsFiniteSet(Saves) /\ "none" \notin Saves /\ Bases \subseteq Nat /\ MaxSaves \in Nat

VARIABLES
  focus,
  dns, allowHosts, allowNets, request,
  hook, event, nonces, tag, ireq, sent, iedits, started, ileft, lost, idled, fired,
  clock, byPair, byMail, attempt, failed, pairLog, mailLog,
  codes, sentToday, sender, verify, received, unrecorded, guesses, wrongs, unbumped, granted,
  user, link, tokens, req, bootLock, ssoLock, bootstrap, issued, births, changes, cut,
  role, tedit, writes, overlapped, upserted,
  time, prov, chosen, edit, target, lists, load, count, seenOn,
  budget, month, billed, gate, runs, bedits, cap,
  tick, rate, burst, sweeping, bucket, asked, tunings, served, tunedAt,
  current, built, held, loop, cancels, session, caller, drops,
  skill, versions, rowLock, save, written, switched, walk, acked, collided

guardVars == <<dns, allowHosts, allowNets, request>>
inboundVars == <<hook, event, nonces, tag, ireq, sent, iedits, started, ileft, lost, idled, fired>>
throttleVars == <<clock, byPair, byMail, attempt, failed, pairLog, mailLog>>
otpVars == <<codes, sentToday, sender, verify, received, unrecorded, guesses, wrongs, unbumped, granted>>
accountVars == <<user, link, tokens, req, bootLock, ssoLock, bootstrap, issued, births, changes, cut>>
teamVars == <<role, tedit, writes, overlapped, upserted>>
catalogVars == <<time, prov, chosen, edit, target, lists, load, count, seenOn>>
quotaVars == <<budget, month, billed, gate, runs, bedits, cap>>
limitVars == <<tick, rate, burst, sweeping, bucket, asked, tunings, served, tunedAt>>
mcpVars == <<current, built, held, loop, cancels, session, caller, drops>>
skillVars == <<skill, versions, rowLock, save, written, switched, walk, acked, collided>>

edgeVars == <<guardVars, inboundVars>>
identityVars == <<throttleVars, otpVars, accountVars, teamVars>>
limitsVars == <<quotaVars, limitVars>>
registryVars == <<catalogVars, mcpVars, skillVars>>
vars == <<focus, edgeVars, identityVars, limitsVars, registryVars>>

\* Limiting off, and two ways to have it on.
ThreeTunings == {<<0, 0>>, <<1, 1>>, <<1, 2>>}

G == INSTANCE Guard
I == INSTANCE Inbound WITH Window <- EventWindow, MaxEdits <- MaxHookEdits, req <- ireq, left <- ileft
H == INSTANCE Throttle WITH Clients <- Logins, Window <- FailWindow
O == INSTANCE Otp WITH Quota <- DailyCodes
A == INSTANCE Accounts
T == INSTANCE Teams WITH edit <- tedit
C == INSTANCE Catalog
Q == INSTANCE Quota
M == INSTANCE Mcp WITH Callers <- ToolCallers
K == INSTANCE Skills WITH Ids <- SkillIds

Init ==
  /\ focus \in {"guard", "inbound", "throttle", "otp", "accounts", "teams", "catalog", "quota", "limit", "mcp", "skills"}
  /\ G!GuardInit /\ (focus # "guard" => allowHosts = {} /\ allowNets = {} /\ \A h \in Hosts : dns[h] = {})
  /\ I!InboundInit /\ (focus # "inbound" => \A w \in DOMAIN hook : hook[w].target)
  /\ H!ThrottleInit /\ O!OtpInit
  /\ A!AccountsInit /\ (focus # "accounts" => bootstrap)
  /\ T!TeamsInit /\ C!CatalogInit
  /\ Q!QuotaInit /\ (focus # "quota" => \A s \in DOMAIN budget : budget[s] = 1)
  /\ Q!LimitInit /\ (focus # "limit" => rate = 0)
  /\ M!McpInit
  /\ K!SkillsInit /\ (focus # "skills" => skill[1].scope = "user")

Only(f, step) == focus = f /\ step /\ UNCHANGED focus

Edges ==
  /\ \/ Only("guard", G!GuardNext) /\ UNCHANGED inboundVars
     \/ Only("inbound", I!InboundNext) /\ UNCHANGED guardVars
  /\ UNCHANGED <<identityVars, limitsVars, registryVars>>

Identity ==
  /\ \/ Only("throttle", H!ThrottleNext) /\ UNCHANGED <<otpVars, accountVars, teamVars>>
     \/ Only("otp", O!OtpNext) /\ UNCHANGED <<throttleVars, accountVars, teamVars>>
     \/ Only("accounts", A!AccountsNext) /\ UNCHANGED <<throttleVars, otpVars, teamVars>>
     \/ Only("teams", T!TeamsNext) /\ UNCHANGED <<throttleVars, otpVars, accountVars>>
  /\ UNCHANGED <<edgeVars, limitsVars, registryVars>>

Limits ==
  /\ \/ Only("quota", Q!QuotaNext) /\ UNCHANGED limitVars
     \/ Only("limit", Q!LimitNext) /\ UNCHANGED quotaVars
  /\ UNCHANGED <<edgeVars, identityVars, registryVars>>

Registries ==
  /\ \/ Only("catalog", C!CatalogNext) /\ UNCHANGED <<mcpVars, skillVars>>
     \/ Only("mcp", M!McpNext) /\ UNCHANGED <<catalogVars, skillVars>>
     \/ Only("skills", K!SkillsNext) /\ UNCHANGED <<catalogVars, mcpVars>>
  /\ UNCHANGED <<edgeVars, identityVars, limitsVars>>

Next == Edges \/ Identity \/ Limits \/ Registries

Spec == Init /\ [][Next]_vars

\* The edges: an outbound request dials only addresses that were vetted after
\* the last resolution, redirects included; an inbound event starts at most one
\* run however often it is sent, unless a request idled out of its window, and a
\* refused start leaves an empty session only where its DELETE failed.
EdgesHold ==
  /\ G!GuardTypeOK /\ G!DialsOnlyVetted
  /\ I!InboundTypeOK /\ I!EventRunsOnce /\ I!NoEmptySessionLeft

\* The tag of a target session, which decides whose notify_url learns of its
\* runs, belongs to a webhook that did start a run there and stays with the
\* first one.
TagIsFirstToFire == I!TagIsFirstToFire

\* Accounts: concurrent sign-ups make one bootstrap administrator; a revoked
\* login is not revived by a renewal in flight; a one-time code is spent once;
\* edits of a team that do not overlap leave it an owner.
AccountsSound ==
  /\ A!AccountsTypeOK /\ A!OneBootstrapAdmin /\ A!RevokedStaysRevoked
  /\ O!OtpTypeOK /\ O!CodeSpentOnce
  /\ T!TeamsTypeOK /\ T!ChecksKeepAnOwner

\* Budgets: the failures a lockout counts are the ones that happened, codes
\* sent, tokens billed and requests let through exceed their limit by no more
\* than the requests that were already under way.
LimitsHold ==
  /\ H!ThrottleTypeOK /\ H!GateMatchesBudget /\ O!SendsBounded
  /\ Q!QuotaTypeOK /\ Q!OverspendBounded
  /\ Q!LimitTypeOK /\ Q!RateHolds

\* Registries: a resolved model was current at most a cache lifetime ago and a
\* team's choice refers to a provider that exists; a configured MCP server is
\* connected or a loop is still dialling it; saves of a skill that overlap
\* serialize, and one that stays visible is found while others move.
RegistriesSound ==
  /\ C!CatalogTypeOK /\ C!StaleBounded /\ C!ReferencesStand
  /\ M!McpTypeOK /\ M!ServerIsServed
  /\ K!SkillsTypeOK /\ K!SavesSerialize /\ K!WalkFindsWhatStays
=============================================================================
