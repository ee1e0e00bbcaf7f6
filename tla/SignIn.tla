-------------------------------- MODULE SignIn --------------------------------
(***************************************************************************)
(* Signing in to one account, and the links mailed to its owner            *)
(* (src/auth.py, src/verification.py, the session check of src/app.py).    *)
(* A client is one request at a time: a login form, a reset form, a        *)
(* verification link, a request for another mail.  Each transaction is one *)
(* step, so requests interleave.                                           *)
(***************************************************************************)
EXTENDS Integers, FiniteSets

CONSTANTS
  Clients,
  Wrong,        \* a password that never was the account's
  MaxLinks,     \* links ever mailed for one purpose (bound of the model)
  ResendLimit,  \* RESEND_LIMIT
  MaxFailures,  \* _MAX_LOGIN_ATTEMPTS
  MaxForgot,    \* _FORGOT_LIMIT
  MaxEpoch,     \* session_epoch (bound of the model)
  MaxRequests,  \* requests of the clients (bound of the model)
  MaxFaults     \* requests that die half-way (bound of the model)

ASSUME SignInAssumption ==
  /\ {MaxLinks, ResendLimit, MaxFailures, MaxForgot, MaxEpoch} \subseteq Nat \ {0}
  /\ {MaxRequests, MaxFaults} \subseteq Nat /\ Wrong \notin Nat
  /\ IsFiniteSet(Clients) /\ Clients # {}

Purposes == {"verify", "reset"}

\* A link; `fresh' holds for 24 hours, the life of a link and the window in which
\* mails are counted.
Link == [state : {"none", "live", "used", "superseded"}, fresh : BOOLEAN]

VARIABLES
  account,   \* the users row; passwords are numbered as they are set
  links,     \* email_tokens, per purpose in the order of their issue
  failures,  \* failed logins of the last five minutes from the clients' address
  forgotten, \* reset mails asked for from there in the last ten minutes
  cookies,   \* session cookies that were ever set; the password is history
  client,    \* program counter and locals of each request
  requests,
  faults

vars == <<account, links, failures, forgotten, cookies, client, requests, faults>>

Passwords == 0..MaxLinks

Account == [password : Passwords, epoch : 0..MaxEpoch, suspended : BOOLEAN, verified : BOOLEAN]

Client == [pc      : {"idle", "verify",                 \* login
                      "peeked", "change",               \* reset form
                      "confirm",                        \* verification link
                      "record", "ask", "issue"},        \* another mail
           typed   : Passwords \cup {Wrong},
           seen    : Account,
           purpose : Purposes,
           link    : 1..MaxLinks]

NewAccount == [password |-> 0, epoch |-> 0, suspended |-> FALSE, verified |-> FALSE]

Rest == [pc |-> "idle", typed |-> Wrong, seen |-> NewAccount, purpose |-> "verify", link |-> 1]

TypeOK ==
  /\ account \in Account
  /\ links \in [Purposes -> [1..MaxLinks -> Link]]
  /\ failures \in 0..(MaxFailures + Cardinality(Clients) - 1)
  /\ forgotten \in 0..(MaxForgot + Cardinality(Clients))
  /\ cookies \subseteq [epoch : 0..MaxEpoch, password : Passwords]
  /\ client \in [Clients -> Client]
  /\ requests \in 0..MaxRequests
  /\ faults \in 0..MaxFaults

\* After registration: a session of epoch 0 and the first verification mail.
Init ==
  /\ account = NewAccount
  /\ links = [p \in Purposes |-> [n \in 1..MaxLinks |->
                IF p = "verify" /\ n = 1 THEN [state |-> "live", fresh |-> TRUE]
                                         ELSE [state |-> "none", fresh |-> FALSE]]]
  /\ failures = 0
  /\ forgotten = 0
  /\ cookies = {[epoch |-> 0, password |-> 0]}
  /\ client = [c \in Clients |-> Rest]
  /\ requests = 0
  /\ faults = 0

Becomes(c, j) == client' = [client EXCEPT ![c] = j]
Goto(c, step) == Becomes(c, [client[c] EXCEPT !.pc = step])
Idle(c) == client[c].pc = "idle"

\* Client c starts another request.
Begin(c, j) ==
  /\ Idle(c)
  /\ requests < MaxRequests /\ requests' = requests + 1
  /\ Becomes(c, j)

-----------------------------------------------------------------------------
(* Sessions.                                                               *)

\* _session_user: suspension and epoch are looked up on every request.
Accepted(cookie) == ~ account.suspended /\ cookie.epoch = account.epoch

SignedIn == \E cookie \in cookies : Accepted(cookie)

\* (slip: off by one)
ReadAccountOnceMore(c, typed) ==
  /\ failures <= MaxFailures
  /\ Begin(c, [Rest EXCEPT !.pc = "verify", !.typed = typed, !.seen = account])
  /\ UNCHANGED <<account, links, failures, forgotten, cookies, faults>>

\* _login_multi_mode: the throttle, then the row ...
ReadAccount(c, typed) ==
  /\ failures < MaxFailures
  /\ Begin(c, [Rest EXCEPT !.pc = "verify", !.typed = typed, !.seen = account])
  /\ UNCHANGED <<account, links, failures, forgotten, cookies, faults>>

\* ... then the password against that row, which takes long.
RejectLogin(c) ==
  /\ client[c].pc = "verify"
  /\ client[c].typed # client[c].seen.password
  /\ failures' = failures + 1
  /\ Becomes(c, Rest)
  /\ UNCHANGED <<account, links, forgotten, cookies, requests, faults>>

AcceptLogin(c) ==
  /\ client[c].pc = "verify"
  /\ client[c].typed = client[c].seen.password
  /\ failures' = 0
  /\ cookies' = IF client[c].seen.suspended THEN cookies
                ELSE cookies \cup {[epoch |-> client[c].seen.epoch,
                                    password |-> client[c].typed]}
  /\ Becomes(c, Rest)
  /\ UNCHANGED <<account, links, forgotten, requests, faults>>

\* logout: any cookie of the account ends all its sessions, even an expired one.
Logout ==
  /\ cookies # {}
  /\ account.epoch < MaxEpoch
  /\ account' = [account EXCEPT !.epoch = @ + 1]
  /\ UNCHANGED <<links, failures, forgotten, cookies, client, requests, faults>>

\* A failed login, or a request for a reset mail, leaves its window.
ForgetFailure ==
  /\ failures > 0 /\ failures' = failures - 1
  /\ UNCHANGED <<account, links, forgotten, cookies, client, requests, faults>>

ForgetForgotten ==
  /\ forgotten > 0 /\ forgotten' = forgotten - 1
  /\ UNCHANGED <<account, links, failures, cookies, client, requests, faults>>

-----------------------------------------------------------------------------
(* Links.                                                                  *)

Issued(p) == {n \in 1..MaxLinks : links[p][n].state # "none"}
Recent(p) == {n \in Issued(p) : links[p][n].fresh}

\* The conditional update of consume_token, and the look of peek_token.
Usable(p, n) == links[p][n] = [state |-> "live", fresh |-> TRUE]

Spend(p, n) == links' = [links EXCEPT ![p][n].state = "used"]

\* resend_verification: only for a session of an account not verified yet.
AskVerification(c) ==
  /\ SignedIn /\ ~ account.verified
  /\ Begin(c, [Rest EXCEPT !.pc = "ask", !.purpose = "verify"])
  /\ UNCHANGED <<account, links, failures, forgotten, cookies, faults>>

\* forgot_submit: the throttle of the address is checked ...
AskReset(c) ==
  /\ forgotten < MaxForgot
  /\ Begin(c, [Rest EXCEPT !.pc = "record", !.purpose = "reset"])
  /\ UNCHANGED <<account, links, failures, forgotten, cookies, faults>>

\* ... and counted after the account was found; a thread sends the mail.
RecordReset(c) ==
  /\ client[c].pc = "record"
  /\ forgotten' = forgotten + 1
  /\ Goto(c, "ask")
  /\ UNCHANGED <<account, links, failures, cookies, requests, faults>>

\* resend_allowed
ResendAllowed(p) == Cardinality(Recent(p)) < ResendLimit

AskAllowed(c) ==
  /\ client[c].pc = "ask"
  /\ IF ResendAllowed(client[c].purpose) THEN Goto(c, "issue") ELSE Becomes(c, Rest)
  /\ UNCHANGED <<account, links, failures, forgotten, cookies, requests, faults>>

\* issue_token: the new link replaces the one before it; the unique index of
\* unconsumed links makes this one step.
IssueLink(c) ==
  /\ client[c].pc = "issue"
  /\ LET p == client[c].purpose
         n == Cardinality(Issued(p)) + 1 IN
     /\ n <= MaxLinks
     /\ links' = [links EXCEPT ![p] = [k \in 1..MaxLinks |->
          IF k = n THEN [state |-> "live", fresh |-> TRUE]
          ELSE IF @[k].state = "live" THEN [@[k] EXCEPT !.state = "superseded"] ELSE @[k]]]
  /\ Becomes(c, Rest)
  /\ UNCHANGED <<account, failures, forgotten, cookies, requests, faults>>

\* reset_submit: the link is looked at, the form is checked ...
SubmitReset(c, n) ==
  /\ Usable("reset", n)
  /\ Begin(c, [Rest EXCEPT !.pc = "peeked", !.link = n])
  /\ UNCHANGED <<account, links, failures, forgotten, cookies, faults>>

\* (slip: the look at the link is trusted)
ConsumeResetBlindly(c) ==
  /\ client[c].pc = "peeked"
  /\ Spend("reset", client[c].link) /\ Goto(c, "change")
  /\ UNCHANGED <<account, failures, forgotten, cookies, requests, faults>>

\* ... the link is consumed, unless that has happened meanwhile ...
ConsumeReset(c) ==
  /\ client[c].pc = "peeked"
  /\ IF Usable("reset", client[c].link)
     THEN Spend("reset", client[c].link) /\ Goto(c, "change")
     ELSE Becomes(c, Rest) /\ UNCHANGED links
  /\ UNCHANGED <<account, failures, forgotten, cookies, requests, faults>>

\* ... and the password is changed, with the epoch, in another transaction.
ChangePassword(c) ==
  /\ client[c].pc = "change"
  /\ account.epoch < MaxEpoch
  /\ account' = [account EXCEPT !.password = @ + 1, !.epoch = @ + 1]
  /\ Becomes(c, Rest)
  /\ UNCHANGED <<links, failures, forgotten, cookies, requests, faults>>

\* verify_email: likewise in two transactions.
OpenVerification(c, n) ==
  /\ Usable("verify", n)
  /\ Spend("verify", n)
  /\ Begin(c, [Rest EXCEPT !.pc = "confirm"])
  /\ UNCHANGED <<account, failures, forgotten, cookies, faults>>

Confirm(c) ==
  /\ client[c].pc = "confirm"
  /\ account' = [account EXCEPT !.verified = TRUE]
  /\ Becomes(c, Rest)
  /\ UNCHANGED <<links, failures, forgotten, cookies, requests, faults>>

-----------------------------------------------------------------------------
\* admin_suspend and admin_unsuspend.
SetSuspended ==
  /\ account' = [account EXCEPT !.suspended = ~ @]
  /\ UNCHANGED <<links, failures, forgotten, cookies, client, requests, faults>>

\* A request dies between two of its transactions.
Die(c) ==
  /\ ~ Idle(c)
  /\ faults < MaxFaults /\ faults' = faults + 1
  /\ Becomes(c, Rest)
  /\ UNCHANGED <<account, links, failures, forgotten, cookies, requests>>

\* Twenty-four hours pass.
Day ==
  /\ \E p \in Purposes : Recent(p) # {}
  /\ links' = [p \in Purposes |-> [n \in 1..MaxLinks |-> [links[p][n] EXCEPT !.fresh = FALSE]]]
  /\ UNCHANGED <<account, failures, forgotten, cookies, client, requests, faults>>

Request(c) == \/ \E typed \in 0..account.password \cup {Wrong} : ReadAccount(c, typed)
              \/ RejectLogin(c) \/ AcceptLogin(c)
              \/ AskVerification(c) \/ AskReset(c) \/ RecordReset(c)
              \/ AskAllowed(c) \/ IssueLink(c)
              \/ \E n \in 1..MaxLinks : SubmitReset(c, n) \/ OpenVerification(c, n)
              \/ ConsumeReset(c) \/ ChangePassword(c) \/ Confirm(c)
              \/ Die(c)

Next == \/ \E c \in Clients : Request(c)
        \/ Logout \/ SetSuspended \/ ForgetFailure \/ ForgetForgotten \/ Day

Spec == Init /\ [][Next]_vars

-----------------------------------------------------------------------------
\* A session is accepted only if it was opened with the password the account has
\* now: changing the password ends every other session, also one whose login was
\* under way.
AcceptedMeansCurrent ==
  \A cookie \in cookies : Accepted(cookie) => cookie.password = account.password

\* Every change of the password, made or under way, has spent a reset link of its own.
ChangesSpendLinks ==
  account.password + Cardinality({c \in Clients : client[c].pc = "change"})
    <= Cardinality({n \in Issued("reset") : links["reset"][n].state = "used"})

\* A link works only as long as no newer one of its purpose was mailed.
NewestLinkOnly ==
  \A p \in Purposes : \A n \in Issued(p) :
    links[p][n].state # "used" /\ links'[p][n].state = "used" => n + 1 \notin Issued(p)

\* The limit on mails is checked before a mail is counted: requests that overlap
\* overshoot it, by less than their number.
MailsAreLimited ==
  \A p \in Purposes : Cardinality(Recent(p)) < ResendLimit + Cardinality(Clients)

\* The same of passwords tried from one address.
TriesAreLimited ==
  failures + Cardinality({c \in Clients : client[c].pc = "verify"})
    < MaxFailures + Cardinality(Clients)
=============================================================================
