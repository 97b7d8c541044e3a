------------------------------- MODULE Catalog -------------------------------
(***************************************************************************)
(* The model-provider registry (internal/providerreg/pgstore.go) edited    *)
(* through internal/adminapi/providers.go, and the resolution of a team's  *)
(* model through two TTL caches (resolver.go, cache.go): one of targets,   *)
(* one of model lists, the first filled from the second.                   *)
(***************************************************************************)
EXTENDS Naturals, FiniteSets

CONSTANTS
  Providers,     \* system providers, a set of naturals: the order of creation
  Loads,         \* resolutions under way
  TTL,           \* WithCacheTTL in ticks
  MaxClock,      \* bound: the clock
  MaxEdits       \* bound: registry edits

VARIABLES
  time,
  prov,          \* providers rows and, per provider, its enabled and default models
  chosen,        \* team_provider_settings of the team; 0 for none
  edit,          \* a deletion and an assignment that are checked and not yet written
  target,        \* the targets cache, one key
  lists,         \* the models cache
  load,          \* per resolution: control point and what it has read
  count,         \* edits so far
  seenOn         \* observed: when a provider, and a model of it, was last enabled

Models == {1, 2}
NoRow == [here |-> FALSE, on |-> FALSE, def |-> FALSE, models |-> {}, main |-> 0]
Miss == [hit |-> FALSE]
NoLoad == [pc |-> "idle"]
Refused == [p |-> 0, m |-> 0]   \* ErrNoProvider, cached like an answer

CatalogTypeOK ==
  /\ \A p \in Providers : prov[p].models \subseteq Models /\ prov[p].main \in Models \cup {0}
  /\ chosen \in Providers \cup {0}
  /\ \A l \in Loads : load[l].pc \in {"idle", "models", "put"}

CatalogInit ==
  /\ time = 0 /\ count = 0 /\ chosen = 0
  /\ prov = [p \in Providers |-> [here |-> TRUE, on |-> TRUE, def |-> p = 1, models |-> Models, main |-> 1]]
  /\ edit = [delete |-> 0, assign |-> 0]
  /\ target = Miss /\ lists = [p \in Providers |-> Miss]
  /\ load = [l \in Loads |-> NoLoad]
  /\ seenOn = [p \in Providers |-> [on |-> 0, models |-> [m \in Models |-> 0]]]

-----------------------------------------------------------------------------
(* The registry.                                                           *)

\* What a row shows while it is enabled, for the observer.
Observe(rows) ==
  seenOn' = [p \in Providers |->
    [on |-> IF prov[p].on \/ rows[p].on THEN time ELSE seenOn[p].on,
     models |-> [m \in Models |-> IF m \in prov[p].models \cup rows[p].models THEN time ELSE seenOn[p].models[m]]]]

Edited(rows) ==
  /\ count < MaxEdits /\ count' = count + 1
  /\ prov' = rows
  /\ Observe(rows)

NewProvider == [NoRow EXCEPT !.here = TRUE, !.on = TRUE]

\* createSystemProvider: a name conflict changes nothing.
CreateProvider(p) ==
  /\ ~prov[p].here
  /\ Edited([prov EXCEPT ![p] = NewProvider])
  /\ UNCHANGED <<time, chosen, edit, target, lists, load>>

\* updateSystemProvider: only the fields that are given.
UpdateProvider(p) ==
  /\ prov[p].here
  /\ Edited([prov EXCEPT ![p].on = ~@])
  /\ UNCHANGED <<time, chosen, edit, target, lists, load>>

\* SetDefaultProvider, one transaction over the system rows.
SetDefaultProvider(p) ==
  /\ prov[p].here /\ ~prov[p].def
  /\ Edited([q \in Providers |-> [prov[q] EXCEPT !.def = q = p]])
  /\ UNCHANGED <<time, chosen, edit, target, lists, load>>

\* DeleteProvider's checks ...
CheckDelete(p) ==
  /\ edit.delete = 0 /\ count < MaxEdits
  /\ prov[p].here /\ ~prov[p].def /\ chosen # p
  /\ edit' = [edit EXCEPT !.delete = p]
  /\ UNCHANGED <<time, prov, chosen, target, lists, load, count, seenOn>>

\* ON DELETE RESTRICT of team_provider_settings.
Deletable(p) == chosen # p

\* ... and its DELETE; the models cascade.
DeleteProvider ==
  /\ edit.delete # 0
  /\ Edited(IF Deletable(edit.delete) THEN [prov EXCEPT ![edit.delete] = NoRow] ELSE prov)
  /\ edit' = [edit EXCEPT !.delete = 0]
  /\ UNCHANGED <<time, chosen, target, lists, load>>

\* CreateModel, UpdateModel, DeleteModel, SetDefaultModel: a model appears or
\* is enabled, disappears or is disabled (a default one is only disabled), or
\* becomes the only default.
ModelEdits(p, m) ==
  {[prov[p] EXCEPT !.models = IF m \in @ THEN @ \ {m} ELSE @ \cup {m}],
   [prov[p] EXCEPT !.main = m]}

\* The model routes, for a provider of the route's scope.
EditModel(p, m) ==
  /\ prov[p].here
  /\ \E row \in ModelEdits(p, m) : row # prov[p] /\ Edited([prov EXCEPT ![p] = row])
  /\ UNCHANGED <<time, chosen, edit, target, lists, load>>

\* SetTeamAssignment's checks ...
CheckAssign(p) ==
  /\ edit.assign = 0 /\ count < MaxEdits
  /\ prov[p].here /\ prov[p].on
  /\ edit' = [edit EXCEPT !.assign = p]
  /\ UNCHANGED <<time, prov, chosen, target, lists, load, count, seenOn>>

\* ... and its upsert, which the foreign key refuses for a row that has gone.
SetTeamAssignment ==
  /\ edit.assign # 0 /\ count < MaxEdits /\ count' = count + 1
  /\ chosen' = IF prov[edit.assign].here THEN edit.assign ELSE chosen
  /\ edit' = [edit EXCEPT !.assign = 0]
  /\ UNCHANGED <<time, prov, target, lists, load, seenOn>>

ClearTeamAssignment ==
  /\ chosen # 0 /\ count < MaxEdits /\ count' = count + 1
  /\ chosen' = 0
  /\ UNCHANGED <<time, prov, edit, target, lists, load, seenOn>>

-----------------------------------------------------------------------------
(* Resolution.                                                             *)

First(S) == CHOOSE p \in S : \A q \in S : p <= q

\* PlatformDefault: the enabled default, else the first enabled.
PlatformDefault ==
  LET on == {p \in Providers : prov[p].here /\ prov[p].on}
      def == {p \in on : prov[p].def}
  IN IF def # {} THEN First(def) ELSE IF on # {} THEN First(on) ELSE 0

\* modelFor over a list: the enabled default, else the first enabled.
ModelFor(list) ==
  IF list.main \in list.models THEN list.main ELSE IF list.models # {} THEN First(list.models) ELSE 0

\* Mutant: an entry is served whatever its age.
AliveForever(e, t) == TRUE

\* The expiry of ttlCache.get and evictLocked.
Alive(e, t) == t <= e.until

Fresh(e) == IF e.hit THEN Alive(e, time) ELSE FALSE

Loading(p, team) == [pc |-> IF p = 0 THEN "put" ELSE "models", p |-> p, m |-> 0, team |-> team, at |-> time]

\* Resolve, ResolveForTeam: the cached target, or the team's provider if it
\* stands and is enabled, else the platform default; ErrNoProvider is cached.
Resolve(l) ==
  /\ load[l].pc = "idle"
  /\ LET own == chosen # 0 /\ prov[chosen].on IN
     IF Fresh(target) THEN UNCHANGED load
     ELSE load' = [load EXCEPT ![l] = Loading(IF own THEN chosen ELSE PlatformDefault, own)]
  /\ UNCHANGED <<time, prov, chosen, edit, target, lists, count, seenOn>>

\* listModels, through its own cache; a team's provider without an enabled
\* model gives way to the platform default.
ListModels(l) ==
  /\ load[l].pc = "models"
  /\ LET p == load[l].p
         now == [hit |-> TRUE, until |-> time + TTL, models |-> prov[p].models, main |-> prov[p].main]
         list == IF Fresh(lists[p]) THEN lists[p] ELSE now
         m == ModelFor(list)
     IN /\ lists' = [lists EXCEPT ![p] = list]
        /\ load' = [load EXCEPT ![l] = IF m = 0 /\ @.team THEN [Loading(PlatformDefault, FALSE) EXCEPT !.at = load[l].at]
                                       ELSE [@ EXCEPT !.pc = "put", !.m = m]]
  /\ UNCHANGED <<time, prov, chosen, edit, target, count, seenOn>>

\* put; the answer given is the entry: a provider without an enabled model is ErrNoProvider.
PutTarget(l) ==
  /\ load[l].pc = "put"
  /\ LET answer == IF load[l].m = 0 THEN Refused ELSE [p |-> load[l].p, m |-> load[l].m] IN
     target' = [hit |-> TRUE, until |-> time + TTL, p |-> answer.p, m |-> answer.m]
  /\ load' = [load EXCEPT ![l] = NoLoad]
  /\ UNCHANGED <<time, prov, chosen, edit, lists, count, seenOn>>

\* evictLocked at the cap: an entry is dropped.
Evict ==
  /\ target.hit
  /\ target' = Miss
  /\ UNCHANGED <<time, prov, chosen, edit, lists, load, count, seenOn>>

\* An entry past its time is a miss for every reader.
Kept(e) == IF e.hit THEN IF Alive(e, time + 1) THEN e ELSE Miss ELSE Miss

\* A resolution takes less than one tick more.
ClockTick ==
  /\ time < MaxClock
  /\ \A l \in Loads : load[l].pc # "idle" => load[l].at = time
  /\ time' = time + 1
  /\ seenOn' = [p \in Providers |->
       [on |-> IF prov[p].on THEN time + 1 ELSE seenOn[p].on,
        models |-> [m \in Models |-> IF m \in prov[p].models THEN time + 1 ELSE seenOn[p].models[m]]]]
  /\ target' = Kept(target) /\ lists' = [p \in Providers |-> Kept(lists[p])]
  /\ UNCHANGED <<prov, chosen, edit, load, count>>

CatalogNext ==
  \/ DeleteProvider \/ SetTeamAssignment \/ ClearTeamAssignment \/ Evict \/ ClockTick
  \/ \E p \in Providers :
       \/ CreateProvider(p) \/ UpdateProvider(p) \/ SetDefaultProvider(p)
       \/ CheckDelete(p) \/ CheckAssign(p)
       \/ \E m \in Models : EditModel(p, m)
  \/ \E l \in Loads : Resolve(l) \/ ListModels(l) \/ PutTarget(l)

-----------------------------------------------------------------------------
(* Properties.                                                             *)

\* An edit takes effect in bounded time: a disabled provider is used for one
\* TTL at most, a disabled model for two (a target filled from a cached list),
\* each plus the resolution under way.
StaleBounded ==
  Fresh(target) /\ target.p # 0 =>
    /\ time <= seenOn[target.p].on + TTL + 1
    /\ time <= seenOn[target.p].models[target.m] + 2 * TTL + 1

\* A checked deletion and a checked assignment that race never leave the team
\* with a provider that is gone, and at most one provider is the default.
ReferencesStand ==
  /\ chosen # 0 => prov[chosen].here
  /\ \A p, q \in Providers : prov[p].def /\ prov[q].def => p = q
=============================================================================
