--------------------------------- MODULE Otp ---------------------------------
(***************************************************************************)
(* One-time codes of one address (internal/identity/phone.go,              *)
(* phone_store.go, emailreset.go): sending under the cooldown and the daily*)
(* quota of otpthrottle.go, and consumeOTP, the gate of sign-in, password  *)
(* reset and phone binding.  Requests run at the same time, each statement *)
(* a step of its own that may fail: it runs on the request's context, which*)
(* ends with the client's connection, so it may also have been done.       *)
(***************************************************************************)
EXTENDS Integers, Sequences, FiniteSets

CONSTANTS
  Reqs,          \* requests that present a code
  Senders,       \* requests that ask for one
  MaxAttempts,   \* otpMaxAttempts
  Quota,         \* otpDailyPerPhone
  MaxCodes,      \* bound: codes of a behaviour
  MaxGuesses     \* bound: codes delivered and codes presented, together

VARIABLES
  codes,         \* phone_otps rows of the address, oldest first
  sentToday,     \* OTPThrottler.sentPhone
  sender,        \* per sender: control point
  verify,        \* per request: control point, the row it read, the code it was given
  received,      \* observed: codes the provider delivered
  unrecorded,    \* observed: those among them the throttle did not count
  guesses,       \* observed: codes presented
  wrongs,        \* observed: wrong codes compared, per row
  unbumped,      \* observed: those among them whose count failed
  granted        \* observed: operations a row let through

otpVars == <<codes, sentToday, sender, verify, received, unrecorded, guesses, wrongs, unbumped, granted>>

Row == [attempts |-> 0, used |-> FALSE, live |-> TRUE, warm |-> TRUE]
Resting == [pc |-> "idle", row |-> 0, code |-> 0]

OtpTypeOK ==
  /\ \A i \in DOMAIN codes : codes[i].attempts \in Nat /\ codes[i].warm \in BOOLEAN
  /\ sentToday \in Nat
  /\ sender \in [Senders -> {"idle", "sending", "storing", "recording"}]
  /\ \A r \in Reqs : verify[r].pc \in {"idle", "compare", "bump", "burn", "consume"}

OtpInit ==
  /\ codes = <<>> /\ sentToday = 0
  /\ sender = [s \in Senders |-> "idle"]
  /\ verify = [r \in Reqs |-> Resting]
  /\ received = 0 /\ unrecorded = 0 /\ guesses = 0
  /\ wrongs = [i \in 1..MaxCodes |-> 0] /\ unbumped = [i \in 1..MaxCodes |-> 0]
  /\ granted = [i \in 1..MaxCodes |-> 0]

-----------------------------------------------------------------------------
(* Sending.                                                                *)

AllowSend == sentToday < Quota

\* RecentOTPCreatedAt against otpCooldown.
Cooled == codes # <<>> => ~codes[Len(codes)].warm

\* serveRequestCode up to the provider's call.
RequestCode(s) ==
  /\ sender[s] = "idle"
  /\ AllowSend /\ Cooled
  /\ sender' = [sender EXCEPT ![s] = "sending"]
  /\ UNCHANGED <<codes, sentToday, verify, received, unrecorded, guesses, wrongs, unbumped, granted>>

More == received < MaxCodes /\ received + guesses < MaxGuesses

\* provider.Send fails, or delivers the code and then fails: nothing is written.
SendFails(s) ==
  /\ sender[s] = "sending"
  /\ \/ UNCHANGED <<received, unrecorded>>
     \/ More /\ received' = received + 1 /\ unrecorded' = unrecorded + 1
  /\ sender' = [sender EXCEPT ![s] = "idle"]
  /\ UNCHANGED <<codes, sentToday, verify, guesses, wrongs, unbumped, granted>>

SendCode(s) ==
  /\ sender[s] = "sending" /\ More
  /\ received' = received + 1
  /\ sender' = [sender EXCEPT ![s] = "storing"]
  /\ UNCHANGED <<codes, sentToday, verify, unrecorded, guesses, wrongs, unbumped, granted>>

\* The rows of codes delivered are at most MaxCodes.
Stored == Len(codes) < MaxCodes /\ codes' = Append(codes, Row)

CreateOTP(s) ==
  /\ sender[s] = "storing"
  /\ Stored
  /\ sender' = [sender EXCEPT ![s] = "recording"]
  /\ UNCHANGED <<sentToday, verify, received, unrecorded, guesses, wrongs, unbumped, granted>>

\* CreateOTP fails, after the INSERT or before: the answer is 500, the quota not charged.
CreateFails(s) ==
  /\ sender[s] = "storing"
  /\ Stored \/ UNCHANGED codes
  /\ unrecorded' = unrecorded + 1
  /\ sender' = [sender EXCEPT ![s] = "idle"]
  /\ UNCHANGED <<sentToday, verify, received, guesses, wrongs, unbumped, granted>>

\* RecordSend; admit refuses an address it does not track when the map is full of others.
RecordSend(s) ==
  /\ sender[s] = "recording"
  /\ \/ sentToday' = sentToday + 1 /\ UNCHANGED unrecorded
     \/ sentToday = 0 /\ unrecorded' = unrecorded + 1 /\ UNCHANGED sentToday
  /\ sender' = [sender EXCEPT ![s] = "idle"]
  /\ UNCHANGED <<codes, verify, received, guesses, wrongs, unbumped, granted>>

\* The cooldown passes before the code's lifetime does, and the older row ages first.
Cool(i) ==
  /\ codes[i].live
  /\ \A j \in 1..(i - 1) : ~codes[j].warm /\ (codes[j].live => codes[i].warm)
  /\ codes' = [codes EXCEPT ![i] = IF @.warm THEN [@ EXCEPT !.warm = FALSE]
                                             ELSE [@ EXCEPT !.live = FALSE]]
  /\ UNCHANGED <<sentToday, sender, verify, received, unrecorded, guesses, wrongs, unbumped, granted>>

-----------------------------------------------------------------------------
(* consumeOTP.                                                             *)

\* LatestOTP's rows.
Pending == {i \in DOMAIN codes : ~codes[i].used /\ codes[i].live}
Latest == CHOOSE i \in Pending : \A j \in Pending : j <= i

\* The read and the check of the attempts it brought; the code presented is the one of that
\* row or another, 0.
LatestOTP(r) ==
  /\ verify[r].pc = "idle" /\ received + guesses < MaxGuesses
  /\ IF Pending = {} \/ codes[Latest].attempts >= MaxAttempts THEN UNCHANGED verify
     ELSE \E c \in {0, Latest} :
            verify' = [verify EXCEPT ![r] = [pc |-> "compare", row |-> Latest, code |-> c]]
  /\ guesses' = guesses + 1
  /\ UNCHANGED <<codes, sentToday, sender, received, unrecorded, wrongs, unbumped, granted>>

Compare(r) ==
  LET v == verify[r] IN
  /\ v.pc = "compare"
  /\ verify' = [verify EXCEPT ![r].pc = IF v.code = v.row THEN "consume" ELSE "bump"]
  /\ wrongs' = IF v.code = v.row THEN wrongs ELSE [wrongs EXCEPT ![v.row] = @ + 1]
  /\ UNCHANGED <<codes, sentToday, sender, received, unrecorded, guesses, unbumped, granted>>

\* The RETURNING value of BumpOTPAttempts.
Bumped(i) == codes[i].attempts + 1

\* The count and its answer; a row used up meanwhile gives none.
BumpOTPAttempts(r) ==
  LET i == verify[r].row IN
  /\ verify[r].pc = "bump"
  /\ IF codes[i].used THEN UNCHANGED codes
     ELSE codes' = [codes EXCEPT ![i].attempts = Bumped(i)]
  /\ verify' = [verify EXCEPT ![r] =
       IF ~codes[i].used /\ Bumped(i) >= MaxAttempts THEN [@ EXCEPT !.pc = "burn"] ELSE Resting]
  /\ UNCHANGED <<sentToday, sender, received, unrecorded, guesses, wrongs, unbumped, granted>>

\* Its error is ignored, whether or not the attempt is counted.
BumpFails(r) ==
  LET i == verify[r].row IN
  /\ verify[r].pc = "bump"
  /\ \/ /\ ~codes[i].used
        /\ codes' = [codes EXCEPT ![i].attempts = Bumped(i)]
        /\ UNCHANGED unbumped
     \/ /\ UNCHANGED codes
        /\ unbumped' = [unbumped EXCEPT ![i] = @ + 1]
  /\ verify' = [verify EXCEPT ![r] = Resting]
  /\ UNCHANGED <<sentToday, sender, received, unrecorded, guesses, wrongs, granted>>

\* The update of the code that reached the cap; its error is ignored.
Burn(r) ==
  /\ verify[r].pc = "burn"
  /\ \/ codes' = [codes EXCEPT ![verify[r].row].used = TRUE]
     \/ UNCHANGED codes
  /\ verify' = [verify EXCEPT ![r] = Resting]
  /\ UNCHANGED <<sentToday, sender, received, unrecorded, guesses, wrongs, unbumped, granted>>

\* The rows ConsumeOTP's update affects.
Consumable(i) == ~codes[i].used

\* The right code: only the request whose update hit the row goes on.
ConsumeOTP(r) ==
  LET v == verify[r] IN
  /\ v.pc = "consume"
  /\ codes' = [codes EXCEPT ![v.row].used = TRUE]
  /\ granted' = IF Consumable(v.row) THEN [granted EXCEPT ![v.row] = @ + 1] ELSE granted
  /\ verify' = [verify EXCEPT ![r] = Resting]
  /\ UNCHANGED <<sentToday, sender, received, unrecorded, guesses, wrongs, unbumped>>

\* Its error ends the request, whether or not the code is used up.
ConsumeFails(r) ==
  /\ verify[r].pc = "consume"
  /\ \/ codes' = [codes EXCEPT ![verify[r].row].used = TRUE]
     \/ UNCHANGED codes
  /\ verify' = [verify EXCEPT ![r] = Resting]
  /\ UNCHANGED <<sentToday, sender, received, unrecorded, guesses, wrongs, unbumped, granted>>

Send(s) ==
  RequestCode(s) \/ SendFails(s) \/ SendCode(s) \/ CreateOTP(s) \/ CreateFails(s) \/ RecordSend(s)

Consume(r) ==
  \/ LatestOTP(r) \/ Compare(r) \/ BumpOTPAttempts(r) \/ BumpFails(r) \/ Burn(r)
  \/ ConsumeOTP(r) \/ ConsumeFails(r)

OtpNext ==
  \/ \E s \in Senders : Send(s)
  \/ \E i \in DOMAIN codes : Cool(i)
  \/ \E r \in Reqs : Consume(r)

-----------------------------------------------------------------------------
(* Properties.                                                             *)

\* Requests that race with the same right code share one success; wrong codes that race
\* exceed the attempt cap by the requests under way and by the attempts whose count failed.
CodeSpentOnce ==
  /\ \A i \in DOMAIN codes : granted[i] <= 1
  /\ \A i \in DOMAIN codes : wrongs[i] <= MaxAttempts + Cardinality(Reqs) - 1 + unbumped[i]

\* The daily quota is exceeded by the sends under way and by those that were not counted.
SendsBounded == received <= Quota + Cardinality(Senders) - 1 + unrecorded

\* "Attempt-capped" and "a daily quota per number": both violated, a request that ends with
\* its connection is not counted.
CapsHold ==
  /\ \A i \in DOMAIN codes : wrongs[i] <= MaxAttempts + Cardinality(Reqs) - 1
  /\ received <= Quota + Cardinality(Senders) - 1
=============================================================================
