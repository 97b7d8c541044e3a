-------------------------------- MODULE Skills --------------------------------
(***************************************************************************)
(* Skills of one name (internal/skill/pgstore.go) in the scopes of one     *)
(* user, its team and the system: a pointer row per scope and the versions *)
(* behind it, edited through internal/skillapi and read by the agent's     *)
(* load tools.  A handler first checks that the skill is in its scope and  *)
(* then acts, each statement a step; Put is a transaction, whose writes    *)
(* show at its commit and whose row locks hold until then.                 *)
(***************************************************************************)
EXTENDS Naturals, Sequences, FiniteSets

CONSTANTS
  Ids,          \* ids of pointer rows, 1..n, never reused
  Saves,        \* requests under way
  Bases,        \* overrides_version an editor may send
  MaxSaves,     \* bound: saves and rollbacks
  MaxSwitches   \* bound: times a skill is enabled or disabled

VARIABLES
  skill,        \* id -> row of skills: [st, scope, ver, base, review, on]
  versions,     \* id -> its skill_versions, content by version
  rowLock,      \* id -> the request that holds the row, or "none"
  save,         \* request -> [pc, of, scope, id, ver, base, content, flag]
  written,      \* saves so far; its number is a save's content
  switched,     \* SetEnabled so far
  walk,         \* a resolution by name: [at, steady]
  acked,        \* what clients were told is saved and did not delete: [id, ver, content]
  collided      \* whether a save failed on a version that existed

skillVars == <<skill, versions, rowLock, save, written, switched, walk, acked, collided>>

Priority == <<"user", "system", "team">>     \* AccessibleScopes: the order of a caller's scopes
Scopes == {"user", "team", "system"}
None == 0
Free == [st |-> "free", scope |-> "user", ver |-> 0, base |-> 0, review |-> FALSE, on |-> FALSE]
Idle == [pc |-> "idle", of |-> None, scope |-> "user", id |-> None, ver |-> 0, base |-> 0, content |-> 0, flag |-> {}]
Fresh(scope, base) == [Free EXCEPT !.st = "live", !.scope = scope, !.ver = 1, !.base = base, !.on = TRUE]
NoWalk == [at |-> 0, steady |-> {}]

\* One scope has a skill of the name.
SkillsInit ==
  /\ \E scope \in Scopes : skill = [i \in Ids |-> IF i = 1 THEN Fresh(scope, 0) ELSE Free]
  /\ versions = [i \in Ids |-> IF i = 1 THEN <<0>> ELSE <<>>]
  /\ rowLock = [i \in Ids |-> "none"]
  /\ save = [r \in Saves |-> Idle] /\ written = 0 /\ switched = 0
  /\ walk = NoWalk /\ acked = {} /\ collided = FALSE

Live == {i \in Ids : skill[i].st = "live"}
At(scope) == {i \in Live : skill[i].scope = scope}       \* at most one: idx_skills_identity
Visible == {i \in Live : skill[i].on}
\* An insert that has not committed holds its identity against others.
Inserting(scope) == \E q \in Saves : save[q].pc = "inserted" /\ save[q].scope = scope
Claimed == {save[q].id : q \in {p \in Saves : save[p].pc = "inserted"}}
Mine(r, i) == rowLock[i] \in {r, "none"}
Unlocked(r) == [i \in Ids |-> IF rowLock[i] = r THEN "none" ELSE rowLock[i]]

Go(r, pc) == save' = [save EXCEPT ![r].pc = pc]
Leave(r) == save' = [save EXCEPT ![r] = Idle] /\ rowLock' = Unlocked(r)
Tables == <<skill, versions>>
Records == <<written, switched, acked, collided>>

\* A save that a request made of a skill (of, if it is about one) as its editor
\* sent it, with the version of the lower scope's skill the editor started from.
ToSkill(r, of, scope, base) ==
  /\ save[r].pc = "idle" /\ written < MaxSaves
  /\ save' = [save EXCEPT ![r] = [Idle EXCEPT !.pc = "put", !.of = of, !.scope = scope, !.base = base,
                                                !.content = written + 1]]
  /\ written' = written + 1
  /\ UNCHANGED <<Tables, rowLock, switched, acked, collided>>

\* createMySkill, createTeamSkill and createSystemSkill.
CreateSkill(r, scope, base) == ToSkill(r, None, scope, base)

\* LoadDir, at every boot that names a directory: one save per skill in it.
LoadDir(r) == ToSkill(r, None, "system", 0)

\* authorizeSkillScope: the skill is in the route's scope now.
Authorized(scope, i) == i \in At(scope)

UpdateScopedSkill(r, scope, i, base) == Authorized(scope, i) /\ ToSkill(r, i, scope, base)

\* The single-skill operations; what they do comes in a later step.
ScopedSkill(r, scope, i, op) ==
  /\ save[r].pc = "idle" /\ Authorized(scope, i)
  /\ op = "switch" => switched < MaxSwitches
  /\ op = "rollback" => written < MaxSaves
  /\ op = "move" => scope = "user"
  /\ save' = [save EXCEPT ![r] = [Idle EXCEPT !.pc = op, !.of = i, !.id = i]]
  /\ switched' = IF op = "switch" THEN switched + 1 ELSE switched
  /\ written' = IF op = "rollback" THEN written + 1 ELSE written
  /\ UNCHANGED <<Tables, rowLock, acked, collided>>

\* Rollback: VersionAt reads the old content and the row's scope of this moment;
\* the content is then saved as a new one.  A version that does not exist is refused.
Rollback(r, v) ==
  LET i == save[r].id IN
  /\ save[r].pc = "rollback"
  /\ \/ /\ i \in Live /\ v \in DOMAIN versions[i]
        /\ save' = [save EXCEPT ![r] = [Idle EXCEPT !.pc = "put", !.of = i, !.scope = skill[i].scope,
                                                     !.content = versions[i][v]]]
        /\ UNCHANGED rowLock
     \/ (i \notin Live \/ v \notin DOMAIN versions[i]) /\ Leave(r)
  /\ UNCHANGED <<Tables, Records>>

\* Put, the lookup: SELECT ... FOR UPDATE waits for the row and keeps it.
PutLookup(r) ==
  /\ save[r].pc = "put"
  /\ \/ \E i \in At(save[r].scope) :
          /\ Mine(r, i)
          /\ rowLock' = [rowLock EXCEPT ![i] = r]
          /\ save' = [save EXCEPT ![r].pc = "bump", ![r].id = i, ![r].ver = skill[i].ver + 1]
     \/ At(save[r].scope) = {} /\ Go(r, "insert") /\ UNCHANGED rowLock
  /\ UNCHANGED <<Tables, Records>>

\* The INSERT waits for one of the same identity and fails if that committed.
PutInsert(r) ==
  /\ save[r].pc = "insert" /\ ~Inserting(save[r].scope)
  /\ \/ /\ At(save[r].scope) = {}
        /\ \E i \in Ids \ Claimed :
             /\ skill[i].st = "free" /\ \A j \in Ids \ Claimed : skill[j].st = "free" => i <= j
             /\ save' = [save EXCEPT ![r].pc = "inserted", ![r].id = i, ![r].ver = 1]
        /\ UNCHANGED rowLock
     \/ At(save[r].scope) # {} /\ Leave(r)
  /\ UNCHANGED <<Tables, Records>>

\* higherScopes: the scopes whose skills shadow this one's.
HigherScopes(scope) ==
  CASE scope = "system" -> {"team", "user"} [] scope = "team" -> {"user"} [] scope = "user" -> {}

\* The UPDATE of current_version, and the flags on overrides of an older version;
\* both wait for the rows they write and keep them.
PutBump(r) ==
  LET i == save[r].id
      flag == {j \in Live : skill[j].scope \in HigherScopes(skill[i].scope) /\ skill[j].base < save[r].ver} IN
  /\ save[r].pc = "bump" /\ i \in Live
  /\ \A j \in flag \cup {i} : Mine(r, j)
  /\ rowLock' = [j \in Ids |-> IF j \in flag \cup {i} THEN r ELSE rowLock[j]]
  /\ save' = [save EXCEPT ![r].pc = "bumped", ![r].flag = flag]
  /\ UNCHANGED <<Tables, Records>>

Insertable(r) == save[r].ver \notin DOMAIN versions[save[r].id]     \* UNIQUE(skill_id, version)

\* The INSERT of the version and the commit, after which the client is told; a
\* version that exists fails the transaction.
PutCommit(r) ==
  LET s == save[r] IN
  /\ s.pc \in {"inserted", "bumped"}
  /\ versions' = IF Insertable(r) THEN [versions EXCEPT ![s.id] = Append(@, s.content)] ELSE versions
  /\ skill' =
       CASE ~Insertable(r) -> skill
         [] Insertable(r) /\ s.pc = "inserted" -> [skill EXCEPT ![s.id] = Fresh(s.scope, s.base)]
         [] OTHER -> [i \in Ids |-> [skill[i] EXCEPT !.ver = IF i = s.id THEN s.ver ELSE @,
                                                     !.review = @ \/ i \in s.flag]]
  /\ acked' = IF Insertable(r) THEN acked \cup {[id |-> s.id, ver |-> s.ver, content |-> s.content]} ELSE acked
  /\ collided' = (collided \/ ~Insertable(r))
  /\ Leave(r)
  /\ UNCHANGED <<written, switched>>

\* A statement fails or the client is gone: the deferred Rollback, or nothing yet.
Abort(r) ==
  /\ save[r].pc # "idle" /\ Leave(r)
  /\ UNCHANGED <<Tables, Records>>

\* Delete: the versions go with the row.  A row that is gone is ErrNotFound.
Delete(r) ==
  LET i == save[r].id IN
  /\ save[r].pc = "delete" /\ Mine(r, i)
  /\ skill' = IF i \in Live THEN [skill EXCEPT ![i] = [Free EXCEPT !.st = "gone"]] ELSE skill
  /\ versions' = IF i \in Live THEN [versions EXCEPT ![i] = <<>>] ELSE versions
  /\ acked' = {a \in acked : a.id # i}
  /\ Leave(r) /\ UNCHANGED <<written, switched, collided>>

\* SetEnabled with the other value; the one it has changes nothing.
SetEnabled(r) ==
  LET i == save[r].id IN
  /\ save[r].pc = "switch" /\ Mine(r, i)
  /\ skill' = IF i \in Live THEN [skill EXCEPT ![i].on = ~@] ELSE skill
  /\ Leave(r) /\ UNCHANGED <<versions, Records>>

\* MoveToTeam: the row is still the user's, the team has none of the name, and the
\* UPDATE, which the unique index refuses if that changed; it changes nothing but
\* the pointer row, whose override bookkeeping starts anew.
MoveCheck(r) ==
  /\ save[r].pc = "move"
  /\ IF save[r].id \in At("user") /\ At("team") = {}
     THEN Go(r, "moving") /\ UNCHANGED rowLock
     ELSE Leave(r)
  /\ UNCHANGED <<Tables, Records>>
MoveToTeam(r) ==
  LET i == save[r].id IN
  /\ save[r].pc = "moving" /\ Mine(r, i) /\ ~Inserting("team")
  /\ skill' = IF i \in At("user") /\ At("team") = {}
              THEN [skill EXCEPT ![i].scope = "team", ![i].base = 0, ![i].review = FALSE]
              ELSE skill
  /\ Leave(r) /\ UNCHANGED <<versions, Records>>

Step(r) ==
  \/ PutLookup(r) \/ PutInsert(r) \/ PutBump(r) \/ PutCommit(r) \/ Abort(r)
  \/ \E v \in 1..(MaxSaves + 1) : Rollback(r, v)
  \/ Delete(r) \/ SetEnabled(r) \/ MoveCheck(r) \/ MoveToTeam(r)

Begin(r) ==
  \/ LoadDir(r)
  \/ \E scope \in Scopes, base \in Bases :
       CreateSkill(r, scope, base) \/ \E i \in Ids : UpdateScopedSkill(r, scope, i, base)
  \/ \E scope \in Scopes, i \in Ids, op \in {"rollback", "delete", "switch", "move"} : ScopedSkill(r, scope, i, op)

\* Get, behind LoadL1 and the script tool: one SELECT per scope in the order the
\* caller's scopes are in, the first enabled skill wins.  steady observes which skills the agent
\* could see all the while.
Get ==
  /\ walk.at = 0 /\ walk' = [at |-> 1, steady |-> Visible]
  /\ UNCHANGED <<Tables, rowLock, save, Records>>
GetScope ==
  /\ walk.at \in 1..3
  /\ walk' = IF At(Priority[walk.at]) \cap Visible = {} THEN [walk EXCEPT !.at = @ + 1] ELSE NoWalk
  /\ UNCHANGED <<Tables, rowLock, save, Records>>
GetNothing == walk.at = 4 /\ walk' = NoWalk /\ UNCHANGED <<Tables, rowLock, save, Records>>

SkillsNext ==
  \/ (\E r \in Saves : Begin(r) \/ Step(r)) /\ walk' = [walk EXCEPT !.steady = @ \cap Visible']
  \/ Get \/ GetScope \/ GetNothing

SkillsTypeOK ==
  /\ skill \in [Ids -> [st : {"free", "live", "gone"}, scope : Scopes, ver : 0..(MaxSaves + 1),
                        base : {0} \cup Bases, review : BOOLEAN, on : BOOLEAN]]
  /\ \A i \in Ids : rowLock[i] \in Saves \cup {"none"}
  /\ walk.at \in 0..4 /\ walk.steady \subseteq Ids /\ collided \in BOOLEAN

\* Saves of one skill that overlap "serialize on the version bump": none fails on a
\* version another one took, what a client was told is saved stays under its version
\* through later saves, rollbacks and moves, and the current version of a skill exists.
SavesSerialize ==
  /\ ~collided
  /\ \A a \in acked : a.ver \in DOMAIN versions[a.id] /\ versions[a.id][a.ver] = a.content
  /\ \A i \in Live : skill[i].ver = Len(versions[i])

\* A resolution takes one statement per scope while skills move between scopes, are
\* switched or deleted: a skill the agent could see all the while is not missed.
WalkFindsWhatStays == walk.at = 4 => walk.steady = {}

\* "the update applies to THIS skill, so it must already exist in the scope (a PUT to
\* a foreign or missing id is not an upsert)".  Violated when the skill is deleted or
\* moved between the check and the save, which then makes a new one.
UpdateIsNoUpsert == \A r \in Saves : save[r].pc = "inserted" => save[r].of = None

\* "scope priority user > team > system".  Violated: AccessibleScopes puts the system
\* before the teams, so that a system skill hides the team's override of it.
TeamShadowsSystem ==
  walk.at \in 1..3 /\ Priority[walk.at] = "system" /\ At("system") \cap Visible # {}
    => At("team") \cap walk.steady = {}
=============================================================================
