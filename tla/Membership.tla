----------------------------- MODULE Membership ------------------------------
(***************************************************************************)
(* Signing up with an address (src/routes/auth.js): the registration waits *)
(* in email_verifications, with its password, for the code that was mailed *)
(* to the address, and several visitors may register the same address.     *)
(* Each registration and each mailed code has a number.                    *)
(***************************************************************************)
EXTENDS Integers, FiniteSets

CONSTANTS
  Visitors,  \* who call, one call each
  Passwords,
  LastCode,  \* bound: codes that are mailed
  MaxAttempts, \* wrong codes after which the registration is dropped: 6 in the code
  MaxGuesses \* bound: wrong codes entered

VARIABLES
  pending,  \* the row of email_verifications, or none
  mailed,   \* history: the password each mailed code was meant for
  account,  \* the row of users with the address: none, or its password and how complete it is
  visit,    \* the open call of each visitor
  guesses   \* history: codes that were compared with the last one mailed

signUpVars == <<pending, mailed, account, visit, guesses>>

NoPending == [code |-> 0, password |-> "none", attempts |-> 0, expired |-> FALSE]
NoAccount == [password |-> "none", code |-> 0, welcomed |-> FALSE]
NoVisit == [at |-> "idle", password |-> "none", entered |-> 0, row |-> NoPending]

SignUpInit ==
  /\ pending = NoPending
  /\ mailed = <<>>
  /\ account = NoAccount
  /\ visit = [v \in Visitors |-> NoVisit]
  /\ guesses = 0

Mailed == DOMAIN mailed
NextCode == Cardinality(Mailed) + 1
Mail(code, password) ==
  /\ code <= LastCode
  /\ mailed' = [c \in Mailed \union {code} |-> IF c = code THEN password ELSE mailed[c]]
  /\ guesses' = 0
Leaves(v) == visit' = [visit EXCEPT ![v] = NoVisit]

\* The address is free; then the password is hashed,
Register(v, password) ==
  /\ visit[v] = NoVisit
  /\ account = NoAccount
  /\ visit' = [visit EXCEPT ![v] = [NoVisit EXCEPT !.at = "hashing", !.password = password]]
  /\ UNCHANGED <<pending, mailed, account, guesses>>

\* and the row written, also over the one of another registration.
StorePending(v) ==
  /\ visit[v].at = "hashing"
  /\ Mail(NextCode, visit[v].password)
  /\ pending' = [NoPending EXCEPT !.code = NextCode, !.password = visit[v].password]
  /\ Leaves(v)
  /\ UNCHANGED account

\* A new code for the same registration.
Resend ==
  /\ pending # NoPending
  /\ Mail(NextCode, pending.password)
  /\ pending' = [pending EXCEPT !.code = NextCode, !.attempts = 0, !.expired = FALSE]
  /\ UNCHANGED <<account, visit>>

TenMinutesPass ==
  /\ pending # NoPending
  /\ pending' = [pending EXCEPT !.expired = TRUE]
  /\ UNCHANGED <<mailed, account, visit, guesses>>

------------------------------------------------------------------------------
(* Verification *)

\* The row is read, whole; what follows goes by this copy. Zero is a wrong code.
Verify(v, code) ==
  /\ visit[v] = NoVisit
  /\ pending # NoPending
  /\ code \in Mailed \union {0}
  /\ visit' = [visit EXCEPT ![v] = [NoVisit EXCEPT !.at = "verifying", !.entered = code, !.row = pending]]
  /\ UNCHANGED <<pending, mailed, account, guesses>>

Hopeless(row) == row.expired \/ row.attempts >= MaxAttempts

Drop(v) ==
  /\ visit[v].at = "verifying" /\ Hopeless(visit[v].row)
  /\ pending' = NoPending
  /\ Leaves(v)
  /\ UNCHANGED <<mailed, account, guesses>>

\* attempts=attempts+1, on the row of the address as it is now.
WrongCode(v) ==
  /\ visit[v].at = "verifying" /\ ~Hopeless(visit[v].row) /\ visit[v].entered # visit[v].row.code
  /\ guesses < MaxGuesses
  /\ pending' = IF pending = NoPending THEN NoPending ELSE [pending EXCEPT !.attempts = @ + 1]
  /\ guesses' = IF visit[v].row.code = Cardinality(Mailed) THEN guesses + 1 ELSE guesses
  /\ Leaves(v)
  /\ UNCHANGED <<mailed, account>>

RightCode(v) == visit[v].at = "verifying" /\ ~Hopeless(visit[v].row) /\ visit[v].entered = visit[v].row.code

\* Faulty: takes the password of the registration that is pending now.
PasswordReread(v) == pending.password

PasswordOf(v) == visit[v].row.password

\* The row of users; a second one with the address is refused.
CreateUser(v) ==
  /\ RightCode(v)
  /\ account = NoAccount
  /\ account' = [password |-> PasswordOf(v), code |-> visit[v].entered, welcomed |-> FALSE]
  /\ visit' = [visit EXCEPT ![v].at = "welcoming"]
  /\ UNCHANGED <<pending, mailed, guesses>>

\* "Email already registered", found by the SELECT; the pending row goes.
AlreadyRegistered(v) ==
  /\ RightCode(v)
  /\ account # NoAccount
  /\ pending' = NoPending
  /\ Leaves(v)
  /\ UNCHANGED <<mailed, account, guesses>>

\* The chat with the assistant, the channels and the reward, one statement after the
\* other, then the pending row goes.
Welcome(v) ==
  /\ visit[v].at = "welcoming"
  /\ account' = [account EXCEPT !.welcomed = TRUE]
  /\ pending' = NoPending
  /\ Leaves(v)
  /\ UNCHANGED <<mailed, guesses>>

\* One of them fails: the account stays as it is.
FailWelcome(v) ==
  /\ visit[v].at = "welcoming"
  /\ Leaves(v)
  /\ UNCHANGED <<pending, mailed, account, guesses>>

SignUpNext ==
  \/ Resend \/ TenMinutesPass
  \/ \E v \in Visitors :
       \/ \E password \in Passwords : Register(v, password)
       \/ StorePending(v)
       \/ \E code \in 0..LastCode : Verify(v, code)
       \/ Drop(v) \/ WrongCode(v) \/ CreateUser(v) \/ AlreadyRegistered(v) \/ Welcome(v) \/ FailWelcome(v)

------------------------------------------------------------------------------
\* The password of an account is the one for which the code that opened it was mailed,
\* although another visitor may register the address again at any moment.
CodeProvesPassword == account # NoAccount => account.code \in Mailed /\ mailed[account.code] = account.password

\* Does not hold: no more than six wrong codes are compared with the one that was mailed.
GuessesLimited == guesses <= MaxAttempts

\* Does not hold: a new account is welcomed.
AccountWelcomed == account # NoAccount /\ (\A v \in Visitors : visit[v].at # "welcoming") => account.welcomed

------------------------------------------------------------------------------
(***************************************************************************)
(* The row of a user: blocking, roles and the Pro subscription.  It is     *)
(* written by the notices of the payment provider (src/routes/payment.js), *)
(* by administrators (admin.js) and wizards (wizard.js), and by the user's *)
(* own requests, which end a subscription that has lapsed (auth.js,        *)
(* payment.js).  Every handler reads the row and writes it later.  Time    *)
(* and periods are counted in units of 30 days.                            *)
(***************************************************************************)
CONSTANTS
  Notices,   \* of the provider for one payment: confirmed, finished, repeats
  LastDay,   \* bound of time
  WizardDays, \* what a wizard's own subscription lasts
  MaxGiven   \* bound of given, before the last grants

ASSUME AccessAssumption == WizardDays \in Nat

VARIABLES
  today,
  member,   \* the row: role, blocked, status, expiry; or gone
  notices,  \* how far each notice is, with the expiry it read
  wizard,   \* the wizard's call: what it will do, after it has looked at the role
  appoint,  \* the administrator's call
  look,     \* the user's request: it found the subscription lapsed
  given     \* history: units of Pro time given so far

accessVars == <<today, member, notices, wizard, appoint, look, given>>

Never == -1
NewMember == [there |-> TRUE, role |-> "user", blocked |-> FALSE, status |-> "free", expiry |-> Never]
Lapsed(u) == u.status = "active" /\ u.expiry # Never /\ u.expiry < today

AccessInit ==
  /\ today = 0
  /\ member = NewMember
  /\ notices = [n \in Notices |-> [at |-> "coming", read |-> Never]]
  /\ wizard = "idle"
  /\ appoint = "idle"
  /\ look = "idle"
  /\ given = 0

\* A row that is gone is not updated.
Update(row) == member' = IF member.there THEN row ELSE member

DayPassesBy ==
  /\ today < LastDay
  /\ today' = today + 1
  /\ UNCHANGED <<member, notices, wizard, appoint, look, given>>

\* Faulty: leaves the expiry to another statement.
ActiveUntilUnset(until) == [member EXCEPT !.status = "active"]

ActiveUntil(until) == [member EXCEPT !.status = "active", !.expiry = until]
Free == [member EXCEPT !.status = "free", !.expiry = Never]

------------------------------------------------------------------------------
(* Payments *)

\* "confirmed" and "finished" are told apart by nothing; either reads the expiry,
ReadExpiry(n) ==
  /\ notices[n].at = "coming"
  /\ notices' = [notices EXCEPT ![n] = [at |-> "read", read |-> member.expiry]]
  /\ UNCHANGED <<today, member, wizard, appoint, look, given>>

\* Faulty: what is left is added once more.
ExtendedTwice(read) == IF read # Never /\ read > today THEN read + (read - today) + 1 ELSE today + 1

\* and adds 30 days to it, or to now when it has passed.
Extended(read) == IF read # Never /\ read > today THEN read + 1 ELSE today + 1

Extend(n) ==
  /\ notices[n].at = "read"
  /\ notices' = [notices EXCEPT ![n].at = "done"]
  /\ Update(ActiveUntil(Extended(notices[n].read)))
  /\ given' = given + 1
  /\ UNCHANGED <<today, wizard, appoint, look>>

\* GET /me, POST /login and GET /payment/status: the row is read, and found lapsed,
SeeLapsed ==
  /\ look = "idle" /\ member.there
  /\ Lapsed(member)
  /\ look' = "lapsed"
  /\ UNCHANGED <<today, member, notices, wizard, appoint, given>>

\* then the status is written, whatever it is by now.
EndLapsed ==
  /\ look = "lapsed"
  /\ Update([member EXCEPT !.status = "free"])
  /\ look' = "idle"
  /\ UNCHANGED <<today, notices, wizard, appoint, given>>

------------------------------------------------------------------------------
(* Administrators and wizards *)

Powers == {"block", "unblock", "grant", "free", "delete"}

\* One UPDATE each; the delete is four statements, of which the last takes everything.
Exercise(power) ==
  CASE power = "block" -> Update([member EXCEPT !.blocked = TRUE])
    [] power = "unblock" -> Update([member EXCEPT !.blocked = FALSE])
    [] power = "grant" -> Update(ActiveUntil(today + 1))
    [] power = "free" -> Update(Free)
    [] power = "delete" -> member' = [NewMember EXCEPT !.there = FALSE]

Gives(power) == given' = IF power = "grant" THEN given + 1 ELSE given

\* An administrator does not look at the row.
Administer(power) ==
  /\ given < MaxGiven
  /\ Exercise(power)
  /\ Gives(power)
  /\ UNCHANGED <<today, notices, wizard, appoint, look>>

\* Appointed are users, and dismissed are wizards, by the role that was read.
ReadRole(call) ==
  /\ appoint = "idle" /\ member.there /\ given < MaxGiven
  /\ member.role = IF call = "appoint" THEN "user" ELSE "wizard"
  /\ appoint' = call
  /\ UNCHANGED <<today, member, notices, wizard, look, given>>

Appoint ==
  /\ appoint = "appoint"
  /\ Update([ActiveUntil(today + WizardDays) EXCEPT !.role = "wizard"])
  /\ appoint' = "idle"
  /\ given' = given + WizardDays
  /\ UNCHANGED <<today, notices, wizard, look>>

\* The subscription stays.
Dismiss ==
  /\ appoint = "dismiss"
  /\ Update([member EXCEPT !.role = "user"])
  /\ appoint' = "idle"
  /\ UNCHANGED <<today, notices, wizard, look, given>>

\* loadTarget: a wizard acts on those whose role is user,
LoadTarget(power) ==
  /\ wizard = "idle" /\ member.there /\ given < MaxGiven
  /\ member.role = "user"
  /\ wizard' = power
  /\ UNCHANGED <<today, member, notices, appoint, look, given>>

\* when it looked.
WizardActs ==
  /\ wizard # "idle"
  /\ Exercise(wizard)
  /\ Gives(wizard)
  /\ wizard' = "idle"
  /\ UNCHANGED <<today, notices, appoint, look>>

AccessNext ==
  \/ DayPassesBy \/ SeeLapsed \/ EndLapsed \/ Appoint \/ Dismiss \/ WizardActs
  \/ \E n \in Notices : ReadExpiry(n) \/ Extend(n)
  \/ \E power \in Powers : Administer(power) \/ LoadTarget(power)
  \/ \E call \in {"appoint", "dismiss"} : ReadRole(call)

------------------------------------------------------------------------------
\* Whoever has Pro has it until a day, and for no longer than it was given in total: the
\* notices, the wizards, the administrators and the user's own requests write the status
\* and the expiry of one row in any order.
ProIsGiven ==
  member.status = "active" => member.expiry # Never /\ member.expiry - today <= given

\* Does not hold: a wizard changes no wizard.
WizardsSpared == member.role = "wizard" /\ wizard # "idle" => wizard' = wizard

\* Does not hold: a subscription that has been renewed is not ended.
RenewalStands == member.status = "active" /\ ~Lapsed(member) /\ look = "lapsed" => look' = look

\* Does not hold: the notices of one payment give its 30 days once.
PaidOncePerPayment == Cardinality({n \in Notices : notices[n].at = "done"}) <= 1
==============================================================================
