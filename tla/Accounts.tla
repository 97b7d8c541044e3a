------------------------------- MODULE Accounts -------------------------------
(***************************************************************************)
(* Accounts and sessions (internal/identity: store.go, service.go,         *)
(* admin.go, store_admin.go, phone.go; internal/oidc/handler.go): the      *)
(* three ways an account comes to be, the requests that mint, slide and    *)
(* revoke bearer tokens, and the administrator's actions.  A request is a  *)
(* sequence of statements; every statement (or transaction) is one step.   *)
(***************************************************************************)
EXTENDS Naturals, FiniteSets

CONSTANTS
  Mail, Phone,   \* the two accounts: by e-mail (sign-up or SSO), by phone number
  Reqs,          \* requests under way
  Life,          \* tokenTTL in ticks; renewed below Life (tokenSlidingRenewThreshold)
  MaxTokens,     \* bound: tokens of a behaviour
  MaxChanges,    \* bound: administrator actions and password changes
  MaxBirths      \* bound: accounts created

VARIABLES
  user,          \* users rows: "birth" 0 is no row; "boot" says who made it admin
  link,          \* user_identities: the birth of the account the SSO subject is tied to
  tokens,        \* auth_tokens rows
  req,           \* per request: control point, account, the password it checked, token
  bootLock,      \* the bootstrap advisory lock
  ssoLock,       \* the advisory lock of the SSO subject
  bootstrap,     \* Store.firstAccountAdmin
  issued, births, changes,
  cut            \* observed, per account: tokens issued up to its last revocation

Ids == {Mail, Phone}
Absent == [birth |-> 0, off |-> FALSE, pw |-> 0, boot |-> "no"]
Idle == [kind |-> "none", pc |-> "idle", id |-> Mail, birth |-> 0, first |-> FALSE, tok |-> 0]
Here(i) == user[i].birth > 0
Free(r) == req' = [req EXCEPT ![r] = Idle]

AccountsTypeOK ==
  /\ \A i \in Ids : user[i].birth \in Nat /\ user[i].boot \in {"no", "signup", "phone", "sso"}
  /\ \A t \in tokens : t.id \in 1..MaxTokens /\ t.owner \in Ids /\ t.left \in 0..Life
  /\ {bootLock, ssoLock} \subseteq Reqs \cup {"free"}

AccountsInit ==
  /\ user = [i \in Ids |-> Absent] /\ link = 0 /\ tokens = {}
  /\ req = [r \in Reqs |-> Idle]
  /\ bootLock = "free" /\ ssoLock = "free" /\ bootstrap \in BOOLEAN
  /\ issued = 0 /\ births = 0 /\ changes = 0
  /\ cut = [i \in Ids |-> 0]

-----------------------------------------------------------------------------
(* Creating accounts: one transaction counts, another statement inserts.   *)

\* pg_advisory_xact_lock(bootstrapAdminLockKey), only with the bootstrap on.
TakesBootLock(r) == bootstrap => bootLock = "free"

CountUsers == Cardinality({i \in Ids : Here(i)})

\* CreateUser (sign-up) and CreatePhoneUser up to the insert.
BeginCreate(r, kind) ==
  /\ req[r].pc = "idle" /\ births < MaxBirths
  /\ kind = "phone" => ~Here(Phone)
  /\ TakesBootLock(r)
  /\ bootLock' = IF bootstrap THEN r ELSE bootLock
  /\ req' = [req EXCEPT ![r] =
       [Idle EXCEPT !.kind = kind, !.pc = "insert", !.id = IF kind = "phone" THEN Phone ELSE Mail,
                    !.first = bootstrap /\ CountUsers = 0]]
  /\ UNCHANGED <<user, link, tokens, ssoLock, bootstrap, issued, births, changes, cut>>

NewUser(kind, first) ==
  [birth |-> births + 1, off |-> FALSE, pw |-> IF kind = "signup" THEN 1 ELSE 0,
   boot |-> IF first THEN kind ELSE "no"]

\* The insert: a unique violation is ErrUserExists.  A phone sign-in goes on
\* to its token.
InsertUser(r) ==
  LET q == req[r] IN
  /\ q.pc = "insert" /\ q.kind \in {"signup", "phone"}
  /\ births < MaxBirths
  /\ bootLock' = IF bootLock = r THEN "free" ELSE bootLock
  /\ IF Here(q.id) THEN Free(r) /\ UNCHANGED <<user, births>>
     ELSE /\ user' = [user EXCEPT ![q.id] = NewUser(q.kind, q.first)]
          /\ births' = births + 1
          /\ IF q.kind = "signup" THEN Free(r)
             ELSE req' = [req EXCEPT ![r].pc = "issue", ![r].birth = births + 1]
  /\ UNCHANGED <<link, tokens, ssoLock, bootstrap, issued, changes, cut>>

\* ProvisionExternalUser up to the insert or the link: the subject's own
\* lock, the existing link, the account that holds the e-mail.
BeginProvision(r) ==
  /\ req[r].pc = "idle" /\ births < MaxBirths
  /\ ssoLock = "free"
  /\ IF link > 0
     THEN /\ \E i \in Ids : user[i].birth = link /\ ~user[i].off
                            /\ req' = [req EXCEPT ![r] = [Idle EXCEPT !.kind = "sso", !.pc = "issue",
                                                                    !.id = i, !.birth = link]]
          /\ UNCHANGED ssoLock
     ELSE /\ ssoLock' = r
          /\ req' = [req EXCEPT ![r] =
               [Idle EXCEPT !.kind = "sso", !.pc = IF Here(Mail) THEN "link" ELSE "insert",
                            !.birth = user[Mail].birth, !.first = bootstrap /\ CountUsers = 0]]
  /\ UNCHANGED <<user, link, tokens, bootLock, bootstrap, issued, births, changes, cut>>

\* The SSO insert and link, or the link alone; a lost race with a sign-up or
\* a deletion is an error.
FinishProvision(r) ==
  LET q == req[r]
      fails == IF q.pc = "insert" THEN Here(Mail) ELSE user[Mail].birth # q.birth
      b == IF q.pc = "insert" THEN births + 1 ELSE q.birth
  IN
  /\ q.kind = "sso" /\ q.pc \in {"insert", "link"}
  /\ q.pc = "insert" => births < MaxBirths
  /\ ssoLock' = "free"
  /\ IF fails THEN Free(r) /\ UNCHANGED <<user, link, births>>
     ELSE /\ user' = IF q.pc = "insert" THEN [user EXCEPT ![Mail] = NewUser("sso", q.first)] ELSE user
          /\ births' = IF q.pc = "insert" THEN births + 1 ELSE births
          /\ link' = b
          /\ IF user[Mail].off THEN Free(r)
             ELSE req' = [req EXCEPT ![r].pc = "issue", ![r].birth = b]
  /\ UNCHANGED <<tokens, bootLock, bootstrap, issued, changes, cut>>

-----------------------------------------------------------------------------
(* Tokens.                                                                 *)

\* The credentials were right and the account enabled when it was read; the
\* token comes later.
SignIn(r, i) ==
  /\ req[r].pc = "idle" /\ issued < MaxTokens
  /\ Here(i) /\ ~user[i].off
  /\ req' = [req EXCEPT ![r] = [Idle EXCEPT !.kind = "login", !.pc = "issue", !.id = i,
                                            !.birth = user[i].birth]]
  /\ UNCHANGED <<user, link, tokens, bootLock, ssoLock, bootstrap, issued, births, changes, cut>>

Login(r) == \E i \in Ids : user[i].pw > 0 /\ SignIn(r, i)

\* A number nobody holds yet makes its account first.
VerifyPhoneOTP(r) == SignIn(r, Phone) \/ BeginCreate(r, "phone")

\* CreateToken; the foreign key refuses an account deleted meanwhile.
IssueToken(r) ==
  LET q == req[r] IN
  /\ q.pc = "issue" /\ issued < MaxTokens
  /\ IF user[q.id].birth = q.birth
     THEN /\ tokens' = tokens \cup {[id |-> issued + 1, owner |-> q.id, left |-> Life]}
          /\ issued' = issued + 1
     ELSE UNCHANGED <<tokens, issued>>
  /\ Free(r)
  /\ UNCHANGED <<user, link, bootLock, ssoLock, bootstrap, births, changes, cut>>

\* Authenticate: an unexpired token of an enabled account; below the
\* threshold its expiry is slid in a later statement.
Authenticate(r) ==
  /\ req[r].pc = "idle"
  /\ \E t \in tokens :
       /\ t.left > 0 /\ ~user[t.owner].off /\ t.left < Life
       /\ req' = [req EXCEPT ![r] = [Idle EXCEPT !.kind = "auth", !.pc = "extend", !.id = t.owner, !.tok = t.id]]
  /\ UNCHANGED <<user, link, tokens, bootLock, ssoLock, bootstrap, issued, births, changes, cut>>

\* Mutant: the renewal inserts the row when it finds none.
ExtendUpserts(r) ==
  {t \in tokens : t.id # req[r].tok} \cup {[id |-> req[r].tok, owner |-> req[r].id, left |-> Life]}

\* ExtendToken: an update, so a row deleted meanwhile stays deleted.
Extended(r) == {IF t.id = req[r].tok THEN [t EXCEPT !.left = Life] ELSE t : t \in tokens}

ExtendToken(r) ==
  /\ req[r].pc = "extend"
  /\ tokens' = Extended(r)
  /\ Free(r)
  /\ UNCHANGED <<user, link, bootLock, ssoLock, bootstrap, issued, births, changes, cut>>

\* Logout, RevokeToken and RevokeOtherTokens: any of an account's tokens.
DeleteTokens ==
  /\ \E i \in Ids : \E gone \in SUBSET {t \in tokens : t.owner = i} :
       gone # {} /\ tokens' = tokens \ gone
  /\ UNCHANGED <<user, link, req, bootLock, ssoLock, bootstrap, issued, births, changes, cut>>

\* Time passes; SweepExpired drops what has expired.
Age ==
  /\ \E t \in tokens : t.left > 0
  /\ tokens' = {[t EXCEPT !.left = IF @ > 0 THEN @ - 1 ELSE 0] : t \in tokens}
  /\ UNCHANGED <<user, link, req, bootLock, ssoLock, bootstrap, issued, births, changes, cut>>

SweepExpired ==
  /\ \E t \in tokens : t.left = 0
  /\ tokens' = {t \in tokens : t.left > 0}
  /\ UNCHANGED <<user, link, req, bootLock, ssoLock, bootstrap, issued, births, changes, cut>>

-----------------------------------------------------------------------------
(* Password changes and administration.                                    *)

\* The DELETE FROM auth_tokens of SetPassword and SetUserDisabled.
RevokeAll(i) == {t \in tokens : t.owner # i}

\* ChangePassword: the caller's current password is verified.
ChangePassword(i) == Here(i) /\ ~user[i].off /\ user[i].pw > 0

\* The recovery by phone works without a password, the one by e-mail does not.
ResetPasswordByPhone(i) == i = Phone /\ Here(i) /\ ~user[i].off
ResetPasswordByEmail(i) == i = Mail /\ Here(i) /\ ~user[i].off /\ user[i].pw > 0

\* Self service: the account is read and checked, the transaction comes later.
ReadForPassword(r) ==
  /\ req[r].pc = "idle" /\ changes < MaxChanges
  /\ \E i \in Ids :
       /\ ChangePassword(i) \/ ResetPasswordByPhone(i) \/ ResetPasswordByEmail(i)
       /\ req' = [req EXCEPT ![r] = [Idle EXCEPT !.kind = "password", !.pc = "set", !.id = i, !.birth = user[i].birth]]
  /\ UNCHANGED <<user, link, tokens, bootLock, ssoLock, bootstrap, issued, births, changes, cut>>

\* The transaction of SetPassword.
StorePassword(i) ==
  /\ user' = [user EXCEPT ![i].pw = 1]
  /\ tokens' = RevokeAll(i)
  /\ cut' = [cut EXCEPT ![i] = issued]

SetPassword(r) ==
  LET q == req[r] IN
  /\ q.pc = "set" /\ changes < MaxChanges
  /\ changes' = changes + 1
  /\ IF user[q.id].birth = q.birth THEN StorePassword(q.id) ELSE UNCHANGED <<user, tokens, cut>>
  /\ Free(r)
  /\ UNCHANGED <<link, bootLock, ssoLock, bootstrap, issued, births>>

\* ResetPassword by an administrator: any account, a disabled one too.
ResetPassword(i) ==
  /\ Here(i) /\ changes < MaxChanges
  /\ StorePassword(i)
  /\ changes' = changes + 1
  /\ UNCHANGED <<link, req, bootLock, ssoLock, bootstrap, issued, births>>

\* SetUserDisabled by an administrator other than the account.
SetUserDisabled(i, off) ==
  /\ Here(i) /\ user[i].off # off /\ changes < MaxChanges
  /\ user' = [user EXCEPT ![i].off = off]
  /\ tokens' = IF off THEN RevokeAll(i) ELSE tokens
  /\ cut' = IF off THEN [cut EXCEPT ![i] = issued] ELSE cut
  /\ changes' = changes + 1
  /\ UNCHANGED <<link, req, bootLock, ssoLock, bootstrap, issued, births>>

\* DeleteUser (DeleteAccount, DeleteSelf): tokens and link cascade.
DeleteUser(i) ==
  /\ Here(i) /\ changes < MaxChanges
  /\ user' = [user EXCEPT ![i] = Absent]
  /\ tokens' = RevokeAll(i)
  /\ link' = IF link = user[i].birth THEN 0 ELSE link
  /\ cut' = [cut EXCEPT ![i] = issued]
  /\ changes' = changes + 1
  /\ UNCHANGED <<req, bootLock, ssoLock, bootstrap, issued, births>>

AccountsNext ==
  \/ DeleteTokens \/ Age \/ SweepExpired
  \/ \E i \in Ids : DeleteUser(i) \/ ResetPassword(i) \/ \E off \in BOOLEAN : SetUserDisabled(i, off)
  \/ \E r \in Reqs :
       \/ BeginCreate(r, "signup") \/ InsertUser(r) \/ BeginProvision(r) \/ FinishProvision(r)
       \/ Login(r) \/ VerifyPhoneOTP(r) \/ IssueToken(r) \/ Authenticate(r) \/ ExtendToken(r)
       \/ ReadForPassword(r) \/ SetPassword(r)

-----------------------------------------------------------------------------
(* Properties.                                                             *)

\* Two first sign-ups that race, by e-mail and by phone, make one bootstrap
\* administrator (an SSO provision takes another lock and is not ordered
\* against them).
OneBootstrapAdmin ==
  Cardinality({i \in Ids : user[i].boot \in {"signup", "phone"}}) <= 1

\* A token that stood when its account was disabled, deleted or given a new
\* password is gone for good: no renewal under way brings it back, and
\* re-enabling or re-creating the account does not either.
RevokedStaysRevoked == \A t \in tokens : t.id > cut[t.owner] /\ Here(t.owner)
=============================================================================
