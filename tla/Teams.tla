-------------------------------- MODULE Teams --------------------------------
(***************************************************************************)
(* The memberships of one team (internal/identity/admin.go, store.go,      *)
(* store_admin.go) behind the routes of internal/adminapi/teams.go and     *)
(* guards.go.  A role change or a removal checks the owners in one         *)
(* statement and writes in another; requests overlap.                      *)
(***************************************************************************)
EXTENDS Naturals, FiniteSets

CONSTANTS
  Users,         \* accounts
  Edits,         \* requests under way
  MaxWrites      \* bound: writes to the team

VARIABLES
  role,          \* team_memberships
  edit,          \* per request: what it is about to write
  writes,
  overlapped,    \* observed: a checked write came after another one's
  upserted       \* observed: an add named somebody who was a member already

teamVars == <<role, edit, writes, overlapped, upserted>>

Roles == {"owner", "admin", "member"}
NoEdit == [to |-> "idle", of |-> CHOOSE u \in Users : TRUE, at |-> 0]
Owners == {u \in Users : role[u] = "owner"}
Members == {u \in Users : role[u] # "none"}

TeamsTypeOK ==
  /\ role \in [Users -> Roles \cup {"none"}]
  /\ \A e \in Edits : edit[e].to \in Roles \cup {"none", "idle"} /\ edit[e].of \in Users

TeamsInit ==
  /\ role = [u \in Users |-> "none"]
  /\ edit = [e \in Edits |-> NoEdit]
  /\ writes = 0 /\ overlapped = FALSE /\ upserted = FALSE

Wrote == writes < MaxWrites /\ writes' = writes + 1

\* Store.CreateTeam: the team and its owner in one transaction.
Founded(u) == [role EXCEPT ![u] = "owner"]

\* createTeam, createTeamForOwner.
CreateTeam(u) ==
  /\ Members = {} /\ Wrote
  /\ role' = Founded(u)
  /\ UNCHANGED <<edit, overlapped, upserted>>

\* requireTeamRole: a member of at least that role, or a platform administrator.
Rank(r) == [none |-> 0, member |-> 1, admin |-> 2, owner |-> 3][r]
AtLeast(caller, least) == IF caller = "platform" THEN TRUE ELSE Rank(role[caller]) >= Rank(least)
Callers == Users \cup {"platform"}

\* addMember and AddMemberByEmail: only an owner adds an owner; the write is
\* an upsert, whatever role the account had.
MayAdd(c, to) == AtLeast(c, IF to = "owner" THEN "owner" ELSE "admin")

AddMember(u, to) ==
  /\ Members # {} /\ Wrote
  /\ \E c \in Callers : MayAdd(c, to)
  /\ role' = [role EXCEPT ![u] = to]
  /\ upserted' = (upserted \/ (role[u] = "owner" /\ to # "owner"))
  /\ UNCHANGED <<edit, overlapped>>

\* CountOwners, for an owner who would stop being one.
OwnersRemain(u, to) == role[u] = "owner" /\ to # "owner" => Cardinality(Owners) > 1

\* ChangeMemberRole's checks, behind an owner's route.
ChangeMemberRole(e, u, to) ==
  /\ edit[e] = NoEdit /\ to \in Roles
  /\ role[u] # "none" /\ \E c \in Callers : AtLeast(c, "owner")
  /\ OwnersRemain(u, to)
  /\ edit' = [edit EXCEPT ![e] = [to |-> to, of |-> u, at |-> writes]]
  /\ UNCHANGED <<role, writes, overlapped, upserted>>

\* RemoveMember's checks: oneself, or an administrator of the team.
RemoveMember(e, u) ==
  /\ edit[e] = NoEdit
  /\ role[u] # "none"
  /\ OwnersRemain(u, "none")
  /\ edit' = [edit EXCEPT ![e] = [to |-> "none", of |-> u, at |-> writes]]
  /\ UNCHANGED <<role, writes, overlapped, upserted>>

\* The upsert or the delete of a checked request.
WriteMember(e) ==
  /\ edit[e] # NoEdit /\ Wrote
  /\ role' = [role EXCEPT ![edit[e].of] = edit[e].to]
  /\ overlapped' = (overlapped \/ edit[e].at # writes)
  /\ edit' = [edit EXCEPT ![e] = NoEdit]
  /\ UNCHANGED upserted

\* DeleteTeam; the memberships cascade.
DeleteTeam ==
  /\ Members # {} /\ Wrote
  /\ role' = [u \in Users |-> "none"]
  /\ edit' = [e \in Edits |-> NoEdit]
  /\ UNCHANGED <<overlapped, upserted>>

TeamsNext ==
  \/ DeleteTeam
  \/ \E u \in Users : CreateTeam(u) \/ \E to \in Roles : AddMember(u, to)
  \/ \E e \in Edits :
       \/ WriteMember(e)
       \/ \E u \in Users : RemoveMember(e, u) \/ \E to \in Roles : ChangeMemberRole(e, u, to)

-----------------------------------------------------------------------------
(* Properties.                                                             *)

\* A team keeps an owner.  Violated by two overlapping edits, and by addMember's
\* upsert, which demotes without a check.
TeamKeepsAnOwner == Members # {} => Owners # {}

\* Role changes and removals that do not overlap never leave a team without
\* an owner.
ChecksKeepAnOwner == overlapped \/ upserted \/ TeamKeepsAnOwner
=============================================================================
