------------------------------- MODULE Accounts -------------------------------
(***************************************************************************)
(* The accounts of a hosted deployment (src/auth.py, src/invites.py,       *)
(* src/plans.py, the admin pages of src/app.py, the clean-up job of        *)
(* src/scheduler.py): signing up with an invite code, what admins do to    *)
(* other accounts, the three ways an account is deleted, and the           *)
(* subscription that must not outlive it.                                  *)
(*                                                                         *)
(* A worker is one request, or the clean-up job.  The guard of an admin    *)
(* action and its update are one step: on PostgreSQL they share one        *)
(* transaction under an advisory lock.  Stripe and the hooks the billing   *)
(* overlay registers are not in src/; they are modelled from how src/ uses *)
(* them.                                                                   *)
(***************************************************************************)
EXTENDS Integers, FiniteSets

CONSTANTS
  Users,       \* rows of users that may come into being
  Emails,
  Codes,       \* invite codes that may be minted
  Requests,    \* workers that serve requests
  Sweepers,    \* workers that run cleanup_pending_accounts
  Admins,      \* users that are there from the start, as admins
  Nobody,
  MaxPresses,  \* requests (bound of the model)
  MaxFaults    \* hooks and guards that fail (bound of the model)

Workers == Requests \cup Sweepers

\* A code is used by a user, or in one of these states.
CodeStates == {"unminted", "free", "revoked"}

\* A deployment starts with an admin, and the clean-up job serves no requests.
Deployment ==
  /\ IsFiniteSet(Users) /\ Admins \subseteq Users /\ Admins # {}
  /\ Requests \cap Sweepers = {}
  /\ CodeStates \cap Users = {}
  /\ MaxPresses \in Nat /\ MaxFaults \in Nat

VARIABLES
  users,    \* the users rows
  codes,    \* invite_codes
  charged,  \* users with a live subscription at Stripe
  worker,   \* program counter and locals of each worker
  presses,
  faults,
  late,     \* users whose checkout ended while a deletion was past its hook, or
            \* past its guard, or whose hook failed (history)
  robbed,   \* users the clean-up job deleted while they had a subscription (history)
  resigned  \* an admin's account was deleted (history)

vars == <<users, codes, charged, worker, presses, faults, late, robbed, resigned>>
history == <<late, robbed, resigned>>

User == [there     : {"never", "yes", "deleted"},
         email     : Emails \cup {Nobody},
         admin     : BOOLEAN,
         suspended : BOOLEAN,
         plan      : {"trial", "paid"},
         trial     : {"pending", "running"},          \* trial_ends_at: none, or some
         paying    : BOOLEAN,                         \* stripe_subscription_id
         old       : BOOLEAN]                         \* PENDING_ACCOUNT_TTL_DAYS

NoUser == [there |-> "never", email |-> Nobody, admin |-> FALSE, suspended |-> FALSE,
           plan |-> "trial", trial |-> "pending", paying |-> FALSE, old |-> FALSE]

Steps == {"idle", "signup",                     \* register_submit
          "act",                                \* an admin action, authorised
          "guard", "hook", "delete"}            \* a deletion

Operations == {"none", "suspend", "unsuspend", "promote", "demote", "plan", "extend",
               "mint", "revoke", "remove"}

Worker == [pc    : Steps,
           op    : Operations,
           email : Emails \cup {Nobody},
           code  : Codes \cup {Nobody},
           user  : Users \cup {Nobody},    \* whom it is done to
           todo  : SUBSET Users]           \* accounts the clean-up selected

Rest == [pc |-> "idle", op |-> "none", email |-> Nobody, code |-> Nobody,
         user |-> Nobody, todo |-> {}]

TypeOK ==
  /\ users \in [Users -> User]
  /\ codes \in [Codes -> CodeStates \cup Users]
  /\ charged \subseteq Users
  /\ worker \in [Workers -> Worker]
  /\ presses \in 0..MaxPresses
  /\ faults \in 0..MaxFaults
  /\ late \subseteq Users /\ robbed \subseteq Users
  /\ resigned \in BOOLEAN

Init ==
  /\ users = [u \in Users |-> IF u \in Admins
                THEN [NoUser EXCEPT !.there = "yes", !.admin = TRUE, !.plan = "paid"]
                ELSE NoUser]
  /\ codes \in [Codes -> {"unminted", "free"}]
  /\ charged = {}
  /\ worker = [w \in Workers |-> Rest]
  /\ presses = 0
  /\ faults = 0
  /\ late = {} /\ robbed = {} /\ resigned = FALSE

Present == {u \in Users : users[u].there = "yes"}

Becomes(w, j) == worker' = [worker EXCEPT ![w] = j]
Goto(w, step) == Becomes(w, [worker[w] EXCEPT !.pc = step])

Begin(w, j) ==
  /\ w \in Requests /\ worker[w].pc = "idle"
  /\ presses < MaxPresses /\ presses' = presses + 1
  /\ Becomes(w, j)

Finish(w) == Becomes(w, Rest)

-----------------------------------------------------------------------------
(* Signing up.                                                             *)

Taken(email) == \E u \in Present : users[u].email = email

\* register_submit: a friendly look at the address and the code ...
SignUp(w, email, code) ==
  /\ ~ Taken(email)
  /\ codes[code] = "free"
  /\ Begin(w, [Rest EXCEPT !.pc = "signup", !.email = email, !.code = code])
  /\ UNCHANGED <<users, codes, charged, faults, history>>

\* Ids have no meaning: the rows come into being in any fixed order.
Unborn == {u \in Users : users[u].there = "never"}
NextRow == CHOOSE u \in Unborn : TRUE

NewUser(email) == [NoUser EXCEPT !.there = "yes", !.email = email]

\* ... then the row and the code it consumes, both or neither (validate_and_consume).
StoreSignUp(w) ==
  /\ worker[w].pc = "signup"
  /\ Unborn # {}
  /\ IF Taken(worker[w].email) \/ codes[worker[w].code] # "free"
     THEN UNCHANGED <<users, codes>>
     ELSE /\ users' = [users EXCEPT ![NextRow] = NewUser(worker[w].email)]
          /\ codes' = [codes EXCEPT ![worker[w].code] = NextRow]
  /\ Finish(w)
  /\ UNCHANGED <<charged, presses, faults, history>>

-----------------------------------------------------------------------------
(* Admins.                                                                 *)

\* AuthMiddleware and _require_admin look at the database once, before the action.
Authorise(w, a, op, u) ==
  /\ a \in Present /\ users[a].admin /\ ~ users[a].suspended
  /\ op \in {"suspend", "demote", "remove"} => u # a
  /\ op \in {"plan", "extend"} => u \notin Admins     \* (bound of the model)
  /\ u \in Present
  /\ Begin(w, [Rest EXCEPT !.pc = "act", !.op = op, !.user = u])
  /\ UNCHANGED <<users, codes, charged, faults, history>>

AuthoriseCode(w, a, op, code) ==
  /\ a \in Present /\ users[a].admin /\ ~ users[a].suspended
  /\ Begin(w, [Rest EXCEPT !.pc = "act", !.op = op, !.code = code])
  /\ UNCHANGED <<users, codes, charged, faults, history>>

AdminBits    == {u \in Present : users[u].admin}
ActiveAdmins == {u \in AdminBits : ~ users[u].suspended}

\* _admin_guard_last_admin
MayDemote(u)  == Cardinality(AdminBits) > 1
MaySuspend(u) == u \in ActiveAdmins => Cardinality(ActiveAdmins) > 1
MayRemove(u)  == u \in AdminBits => Cardinality(AdminBits) > 1

Acts(w, op) == worker[w].pc = "act" /\ worker[w].op = op

Amend(w, new) ==
  /\ users' = [users EXCEPT ![worker[w].user] =
                 IF worker[w].user \in Present THEN new ELSE @]
  /\ Finish(w)
  /\ UNCHANGED <<codes, charged, presses, faults, history>>

The(w) == users[worker[w].user]

Suspend(w) ==
  /\ Acts(w, "suspend")
  /\ Amend(w, [The(w) EXCEPT !.suspended = @ \/ MaySuspend(worker[w].user)])

Unsuspend(w) == Acts(w, "unsuspend") /\ Amend(w, [The(w) EXCEPT !.suspended = FALSE])

Promote(w) == Acts(w, "promote") /\ Amend(w, [The(w) EXCEPT !.admin = TRUE])

\* (slip: the caller is an admin, so there is another one)
DemoteAnyway(w) == Acts(w, "demote") /\ Amend(w, [The(w) EXCEPT !.admin = FALSE])

Demote(w) ==
  /\ Acts(w, "demote")
  /\ Amend(w, [The(w) EXCEPT !.admin = @ /\ ~ MayDemote(worker[w].user)])

SetPlan(w) ==
  /\ Acts(w, "plan")
  /\ \E plan \in {"trial", "paid"} : Amend(w, [The(w) EXCEPT !.plan = plan])

ExtendTrial(w) ==
  /\ Acts(w, "extend")
  /\ Amend(w, [The(w) EXCEPT !.trial = IF The(w).plan = "trial" THEN "running" ELSE @])

\* admin_generate_invites
MintCode(w) ==
  /\ Acts(w, "mint")
  /\ codes[worker[w].code] = "unminted"
  /\ codes' = [codes EXCEPT ![worker[w].code] = "free"]
  /\ Finish(w)
  /\ UNCHANGED <<users, charged, presses, faults, history>>

RevokeCode(w) ==
  /\ Acts(w, "revoke")
  /\ codes' = [codes EXCEPT ![worker[w].code] = IF @ = "free" THEN "revoked" ELSE @]
  /\ Finish(w)
  /\ UNCHANGED <<users, charged, presses, faults, history>>

\* admin_delete_user: the guard, in a transaction that ends before the hooks run.
Remove(w) ==
  /\ Acts(w, "remove")
  /\ IF worker[w].user \in Present /\ MayRemove(worker[w].user)
     THEN Goto(w, "hook") ELSE Finish(w)
  /\ UNCHANGED <<users, codes, charged, presses, faults, history>>

-----------------------------------------------------------------------------
(* The other ways to delete an account.                                    *)

\* delete_account_submit: the owner, with the password; nobody asks for admins.
DeleteOwn(w, u) ==
  /\ u \in Present /\ ~ users[u].suspended
  /\ Begin(w, [Rest EXCEPT !.pc = "hook", !.user = u])
  /\ UNCHANGED <<users, codes, charged, faults, history>>

\* plans.trial_pending
Pending(u) == users[u].plan = "trial" /\ users[u].trial = "pending"

Abandoned(u) == u \in Present /\ Pending(u) /\ users[u].old

\* cleanup_pending_accounts: the accounts without a subscription id ...
SelectAbandoned(w) ==
  /\ w \in Sweepers /\ worker[w].pc = "idle"
  /\ \E u \in Users : Abandoned(u) /\ ~ users[u].paying
  /\ Becomes(w, [Rest EXCEPT !.pc = "guard",
                             !.todo = {u \in Users : Abandoned(u) /\ ~ users[u].paying}])
  /\ UNCHANGED <<users, codes, charged, presses, faults, history>>

\* The clean-up goes on with the next account.
NextAccount(w) == Becomes(w, [worker[w] EXCEPT !.pc = "guard", !.user = Nobody])

\* ... one after the other: a guard asks Stripe, and skips the account if it has a
\* subscription or if asking fails.
AskGuards(w) ==
  /\ worker[w].pc = "guard" /\ worker[w].todo # {}
  /\ \E u \in worker[w].todo :
       LET next == [worker[w] EXCEPT !.todo = @ \ {u}] IN
       \/ /\ u \notin charged
          /\ Becomes(w, [next EXCEPT !.pc = "hook", !.user = u])
          /\ UNCHANGED faults
       \/ /\ u \in charged
          /\ Becomes(w, next) /\ UNCHANGED faults
       \/ /\ faults < MaxFaults /\ faults' = faults + 1
          /\ Becomes(w, next)
  /\ UNCHANGED <<users, codes, charged, presses, history>>

EndSweep(w) ==
  /\ worker[w].pc = "guard" /\ worker[w].todo = {}
  /\ Finish(w)
  /\ UNCHANGED <<users, codes, charged, presses, faults, history>>

\* The deletion hook cancels the subscription; it vetoes if it cannot, and any
\* other exception is logged.
RunHooks(w) ==
  /\ worker[w].pc = "hook"
  /\ LET u == worker[w].user IN
     \/ /\ charged' = charged \ {u}
        /\ robbed' = IF w \in Sweepers /\ u \in charged THEN robbed \cup {u} ELSE robbed
        /\ Goto(w, "delete") /\ UNCHANGED <<faults, late>>
     \/ /\ faults < MaxFaults /\ faults' = faults + 1
        /\ IF w \in Sweepers THEN NextAccount(w) ELSE Finish(w)
        /\ UNCHANGED <<charged, late, robbed>>
     \/ /\ faults < MaxFaults /\ faults' = faults + 1
        /\ late' = late \cup {u}
        /\ Goto(w, "delete") /\ UNCHANGED <<charged, robbed>>
  /\ UNCHANGED <<users, codes, presses, resigned>>

\* _hard_delete_user, without another look at the account.
Delete(w) ==
  /\ worker[w].pc = "delete"
  /\ LET u == worker[w].user IN
     /\ users' = [users EXCEPT ![u] = [NoUser EXCEPT !.there = "deleted"]]
     /\ resigned' = (resigned \/ u \in AdminBits)
  /\ IF w \in Sweepers THEN NextAccount(w) ELSE Finish(w)
  /\ UNCHANGED <<codes, charged, presses, faults, late, robbed>>

-----------------------------------------------------------------------------
(* Stripe, and time.                                                       *)

\* The user ends the checkout; the webhook may come later, or never.
Checkout(u) ==
  /\ u \in Present /\ u \notin charged
  /\ Pending(u)
  /\ presses < MaxPresses /\ presses' = presses + 1
  /\ charged' = charged \cup {u}
  /\ late' = IF \E w \in Workers : worker[w].user = u /\ worker[w].pc \in {"hook", "delete"}
             THEN late \cup {u} ELSE late
  /\ UNCHANGED <<users, codes, worker, faults, robbed, resigned>>

Webhook(u) ==
  /\ u \in Present /\ u \in charged /\ ~ users[u].paying
  /\ users' = [users EXCEPT ![u].paying = TRUE, ![u].trial = "running"]
  /\ UNCHANGED <<codes, charged, worker, presses, faults, history>>

\* The account passes the age of the clean-up; that matters only while it is pending.
GrowOld(u) ==
  /\ u \in Present /\ ~ users[u].old /\ Pending(u)
  /\ users' = [users EXCEPT ![u].old = TRUE]
  /\ UNCHANGED <<codes, charged, worker, presses, faults, history>>

-----------------------------------------------------------------------------
Route(w) ==
  \/ \E e \in Emails, k \in Codes : SignUp(w, e, k)
  \/ StoreSignUp(w)
  \/ \E u \in Users : DeleteOwn(w, u)
  \/ \E a, u \in Users, op \in Operations \ {"none", "mint", "revoke"} : Authorise(w, a, op, u)
  \/ \E a \in Users, k \in Codes, op \in {"mint", "revoke"} : AuthoriseCode(w, a, op, k)
  \/ Suspend(w) \/ Unsuspend(w) \/ Promote(w) \/ Demote(w) \/ SetPlan(w) \/ ExtendTrial(w)
  \/ MintCode(w) \/ RevokeCode(w) \/ Remove(w)

Sweep(w) == SelectAbandoned(w) \/ AskGuards(w) \/ EndSweep(w)

Deletion(w) == RunHooks(w) \/ Delete(w)

World == \E u \in Users : Checkout(u) \/ Webhook(u) \/ GrowOld(u)

Next == (\E w \in Workers : Route(w) \/ Sweep(w) \/ Deletion(w)) \/ World

Spec == Init /\ [][Next]_vars

-----------------------------------------------------------------------------
\* Everyone who signed up has used a code of their own, and no address has two accounts.
OneCodeEach ==
  /\ \A u \in Present \ Admins : \E k \in Codes : codes[k] = u
  /\ \A u, v \in Present \ Admins : users[u].email = users[v].email => u = v

\* However admins' requests overlap, an admin remains, unless an admin's account
\* was deleted: neither by its owner nor by another admin is that guarded to the end.
AnAdminRemains == AdminBits # {} \/ resigned

\* Nobody pays for a deleted account, unless the checkout ended too late for the
\* deletion to see it, or the hook failed without a veto.
NoOrphanedCharge == \A u \in charged : users[u].there = "deleted" => u \in late

\* The clean-up job takes an account with a subscription only if the checkout
\* ended after its guard had asked Stripe.
PayersAreSpared == robbed \subseteq late
=============================================================================
