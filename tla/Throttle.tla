------------------------------- MODULE Throttle -------------------------------
(***************************************************************************)
(* The login throttler (internal/identity/throttle.go) and the handlers    *)
(* that use it (http.go: Check, the credential work, then Fail or Success).*)
(* Failures are counted per (e-mail, address) pair and per e-mail; each    *)
(* map is capped.  The OTP verify throttler (otpthrottle.go) is the same   *)
(* machine with the pair dimension alone.                                  *)
(***************************************************************************)
EXTENDS Naturals, FiniteSets

CONSTANTS
  Emails, IPs,
  Clients,       \* requests under way at the same time
  MaxFailures,   \* loginMaxFailures
  Window,        \* loginFailWindow in ticks
  Lockout,       \* loginLockout in ticks
  MaxKeys,       \* throttleMaxKeys
  MaxNow,        \* bound: the clock
  MaxWrong       \* bound: failures of a behaviour

VARIABLES
  clock,
  byPair, byMail,   \* per dimension: the failures and the locks
  attempt,          \* per client: the pair whose credentials are checked, and since when
  failed,           \* failures so far, which tells those of one tick apart
  pairLog, mailLog  \* observed, per dimension: the failures since the last success, which of
                    \* them came while the key was locked, and keys the full map refused

Pairs == Emails \X IPs
NoAttempt == <<>>
Pair(c) == <<attempt[c][1], attempt[c][2]>>

NewLoginThrottler(keys) == [fails |-> [k \in keys |-> {}], until |-> [k \in keys |-> 0]]
NewLog(keys) == [all |-> [k \in keys |-> {}], late |-> [k \in keys |-> {}], refused |-> {}]

\* One append to the slice of a key.
Failure == [n |-> failed + 1, at |-> clock]

Times(d, keys) ==
  /\ DOMAIN d.fails = keys /\ d.until \in [keys -> Nat]
  /\ \A k \in keys : \A x \in d.fails[k] : x.n \in 1..failed /\ x.at \in 1..clock

ThrottleTypeOK ==
  /\ clock \in Nat
  /\ Times(byPair, Pairs) /\ Times(byMail, Emails)
  /\ \A c \in Clients : attempt[c] = NoAttempt \/ attempt[c] \in Emails \X IPs \X Nat

ThrottleInit ==
  /\ clock = 1
  /\ byPair = NewLoginThrottler(Pairs) /\ byMail = NewLoginThrottler(Emails)
  /\ attempt = [c \in Clients |-> NoAttempt]
  /\ failed = 0 /\ pairLog = NewLog(Pairs) /\ mailLog = NewLog(Emails)

-----------------------------------------------------------------------------
(* One dimension.                                                          *)

\* pruneMap
Prune(d, k) ==
  [fails |-> [d.fails EXCEPT ![k] = {x \in @ : x.at + Window > clock}], until |-> d.until]

Forget(d, k) == [fails |-> [d.fails EXCEPT ![k] = {}], until |-> [d.until EXCEPT ![k] = 0]]

LockExpired(d, k) == d.until[k] > 0 /\ clock >= d.until[k]

\* What Check does to one dimension before it counts.
Refresh(d, k) == Prune(IF LockExpired(d, k) THEN Forget(d, k) ELSE d, k)

\* sweepAll over one map.
SweepAll(d) ==
  [fails |-> [k \in DOMAIN d.fails |-> Refresh(d, k).fails[k]],
   until |-> [k \in DOMAIN d.until |-> Refresh(d, k).until[k]]]

Tracked(d) == {k \in DOMAIN d.fails : d.fails[k] # {}}
Full(d) == Cardinality(Tracked(d)) >= MaxKeys

\* admitMap's verdict, the sweep of a full map already done.
Admit(d, k) == k \in Tracked(d) \/ ~Full(d)

\* The append of Fail, and the lock at the threshold.
Record(d, k) ==
  LET seen == d.fails[k] \cup {Failure}
  IN [fails |-> [d.fails EXCEPT ![k] = seen],
      until |-> IF Cardinality(seen) >= MaxFailures THEN [d.until EXCEPT ![k] = clock + Lockout] ELSE d.until]

Locked(d, k) == (d.until[k] > clock) \/ Cardinality(Refresh(d, k).fails[k]) >= MaxFailures

\* What the log of a dimension notes of a failure and of a success.
Noted(log, d, k, admitted) ==
  [all |-> [log.all EXCEPT ![k] = @ \cup {Failure}],
   late |-> IF d.until[k] > clock THEN [log.late EXCEPT ![k] = @ \cup {Failure}] ELSE log.late,
   refused |-> IF admitted THEN log.refused ELSE log.refused \cup {k}]
Cleared(log, k) ==
  [all |-> [log.all EXCEPT ![k] = {}], late |-> [log.late EXCEPT ![k] = {}],
   refused |-> log.refused \ {k}]

-----------------------------------------------------------------------------
(* The throttler.                                                          *)

\* Check's verdict.
Allowed(e, ip) == ~Locked(byPair, <<e, ip>>) /\ ~Locked(byMail, e)

\* Check leaves the dimension whose lock still holds, and what it did not
\* come to, as they are.
Check(e, ip) ==
  LET k == <<e, ip>> IN
  IF byPair.until[k] > clock THEN UNCHANGED <<byPair, byMail>>
  ELSE IF byMail.until[e] > clock
    THEN /\ byPair' = IF LockExpired(byPair, k) THEN Forget(byPair, k) ELSE byPair
         /\ UNCHANGED byMail
    ELSE byPair' = Refresh(byPair, k) /\ byMail' = Refresh(byMail, e)

\* Mutant: a pair map at its cap also keeps the failure from the e-mail count.
FailEarlyReturn(e, ip) ==
  LET k == <<e, ip>>
      p1 == Prune(byPair, k)
      full == Full(p1)
      p2 == IF full THEN SweepAll(p1) ELSE p1
      m2 == Prune(IF full THEN SweepAll(byMail) ELSE byMail, e)
      ok == Admit(p2, k)
  IN /\ byPair' = IF ok THEN Record(p2, k) ELSE p2
     /\ byMail' = IF ok THEN Record(m2, e) ELSE m2
     /\ pairLog' = Noted(pairLog, byPair, k, ok) /\ mailLog' = Noted(mailLog, byMail, e, TRUE)

\* Fail: each dimension is admitted and recorded on its own; finding a map
\* full sweeps both.
Fail(e, ip) ==
  LET k == <<e, ip>>
      p1 == Prune(byPair, k)
      full == Full(p1)
      p2 == IF full THEN SweepAll(p1) ELSE p1
      p3 == IF Admit(p2, k) THEN Record(p2, k) ELSE p2
      m1 == Prune(IF full THEN SweepAll(byMail) ELSE byMail, e)
      m2 == IF Full(m1) THEN SweepAll(m1) ELSE m1
  IN /\ byPair' = IF Full(m1) THEN SweepAll(p3) ELSE p3
     /\ byMail' = IF Admit(m2, e) THEN Record(m2, e) ELSE m2
     /\ pairLog' = Noted(pairLog, byPair, k, Admit(p2, k))
     /\ mailLog' = Noted(mailLog, byMail, e, Admit(m2, e))

Success(e, ip) ==
  /\ byPair' = Forget(byPair, <<e, ip>>)
  /\ byMail' = Forget(byMail, e)
  /\ pairLog' = Cleared(pairLog, <<e, ip>>) /\ mailLog' = Cleared(mailLog, e)

-----------------------------------------------------------------------------
(* The handlers: the gate, the credential work of another goroutine's      *)
(* length, and its outcome.                                                *)

Gate(c) ==
  /\ attempt[c] = NoAttempt
  /\ \E e \in Emails, ip \in IPs :
       /\ Check(e, ip)
       /\ attempt' = [attempt EXCEPT ![c] = IF Allowed(e, ip) THEN <<e, ip, clock>> ELSE NoAttempt]
  /\ UNCHANGED <<clock, failed, pairLog, mailLog>>

\* Wrong credentials or a disabled account: both count.
LoginFails(c) ==
  /\ attempt[c] # NoAttempt /\ failed < MaxWrong /\ failed' = failed + 1
  /\ Fail(attempt[c][1], attempt[c][2])
  /\ attempt' = [attempt EXCEPT ![c] = NoAttempt]
  /\ UNCHANGED clock

LoginSucceeds(c) ==
  /\ attempt[c] # NoAttempt
  /\ Success(attempt[c][1], attempt[c][2])
  /\ attempt' = [attempt EXCEPT ![c] = NoAttempt]
  /\ UNCHANGED <<clock, failed>>

\* A failed lookup or insert, or the hand-over to the second factor: the
\* throttler hears nothing.
LoginOther(c) ==
  /\ attempt[c] # NoAttempt
  /\ attempt' = [attempt EXCEPT ![c] = NoAttempt]
  /\ UNCHANGED <<clock, byPair, byMail, failed, pairLog, mailLog>>

\* Credential work takes less than a lockout: a failure that outlasted its own
\* lock would be forgotten with it.
Tick ==
  /\ clock < MaxNow
  /\ \A c \in Clients : attempt[c] # NoAttempt => attempt[c][3] = clock
  /\ clock' = clock + 1
  /\ UNCHANGED <<byPair, byMail, attempt, failed, pairLog, mailLog>>

\* Sign-up, and code verification with the pair dimension alone, are
\* throttled by the same protocol.
Throttled(c) == Gate(c) \/ LoginFails(c) \/ LoginSucceeds(c) \/ LoginOther(c)

ThrottleNext == Tick \/ \E c \in Clients : Throttled(c)

-----------------------------------------------------------------------------
(* Properties.                                                             *)

\* The reference: MaxFailures of these failures fell within one window, and the last of
\* them less than a lockout ago.
Crowded(x, these) == Cardinality({y \in these : y.n <= x.n /\ x.at < y.at + Window}) >= MaxFailures
Exhausted(these) == \E x \in these : Crowded(x, these) /\ clock < x.at + Lockout

Timely(log, k) == log.all[k] \ log.late[k]

\* The gate is closed for the pairs whose budget, or whose e-mail's budget over every
\* address, is used up since the last success, and for no other: neither pruning, an
\* expired lock nor a sweep loses or doubles a count, and a pair map at its cap does not
\* stop the e-mail's count.  It owes that to the failures it admitted and that came while
\* the gate was open: one that was under way when the lock came may go with the lock.
GateMatchesBudget ==
  \A e \in Emails, ip \in IPs :
    /\ e \notin mailLog.refused /\ Exhausted(Timely(mailLog, e)) => ~Allowed(e, ip)
    /\ <<e, ip>> \notin pairLog.refused /\ Exhausted(Timely(pairLog, <<e, ip>>)) => ~Allowed(e, ip)
    /\ ~Allowed(e, ip) => Exhausted(mailLog.all[e]) \/ Exhausted(pairLog.all[<<e, ip>>])

\* throttle.go, Fail: "When either sliding window holds loginMaxFailures or more failures,
\* that dimension is locked for loginLockout".  Violated with three failures: a lock that
\* expires clears the history, also of a failure that was under way when the lock came and
\* fell within the window of the next ones.
WindowLocks ==
  \A e \in Emails : e \notin mailLog.refused /\ Exhausted(mailLog.all[e]) =>
    \A ip \in IPs : ~Allowed(e, ip)
=============================================================================
