----------------------------- MODULE OAuthConnect -----------------------------
(***************************************************************************)
(* Connecting a Mastodon account with OAuth (src/oauth.py, oauth_connect   *)
(* and oauth_callback of src/app.py) on a hosted deployment, for one       *)
(* instance: the client the deployment registered there, the one-time      *)
(* states, the cookie that binds a flow to a browser, and what becomes of  *)
(* a flow when its user is deleted, when the settings change or when a     *)
(* deployment starts and purges old states.  The instance and the browsers *)
(* are modelled from what the two routes send them and expect back.        *)
(***************************************************************************)
EXTENDS Naturals, FiniteSets

CONSTANTS
  Users, Browsers, States,
  Requests,
  Nobody,
  MaxClients,   \* clients registered at the instance (bound of the model)
  MaxCookies,   \* bindings handed out (bound of the model)
  MaxCallbacks  \* callbacks (bound of the model)

Bounds ==
  /\ MaxClients \in Nat /\ MaxCookies \in Nat /\ MaxCallbacks \in Nat
  /\ Nobody \notin Users

VARIABLES
  users,     \* users that have not been deleted
  accounts,  \* accounts rows: whose they are, and who started the flow (history)
  states,    \* oauth_states, and the authorize URL a state went out with
  app,       \* the oauth_apps row of the instance
  settings,  \* APP_WEBSITE and CALLBACK_URL: before and after a change
  cookie,    \* OAUTH_SESSION_COOKIE of each browser
  clients, bindings, callbacks, \* clients registered, bindings handed out, callbacks received
  worker,
  used,      \* how often a state was accepted (history)
  unsettled, \* two registrations overlapped, or the settings changed (history)
  late       \* users deleted while a callback of theirs knew them already (history)

vars == <<users, accounts, states, app, settings, cookie, clients, bindings, callbacks,
          worker, used, unsettled, late>>

State == [there   : {"never", "open", "lapsed", "consumed", "gone"},
          user    : Users \cup {Nobody},
          binding : 0..MaxCookies,
          client  : 0..MaxClients]
NoState == [there |-> "never", user |-> Nobody, binding |-> 0, client |-> 0]

Worker == [pc      : {"idle", "register", "save", "sign", "reread", "exchange", "store"},
           user    : Users \cup {Nobody},
           binding : 0..MaxCookies,
           client  : 0..MaxClients,
           state   : States \cup {Nobody},
           browser : Browsers \cup {Nobody}]
Rest == [pc |-> "idle", user |-> Nobody, binding |-> 0, client |-> 0, state |-> Nobody,
         browser |-> Nobody]

TypeOK ==
  /\ users \subseteq Users
  /\ accounts \subseteq [user : Users, starter : Users]
  /\ states \in [States -> State]
  /\ app \in [client : 0..MaxClients, for : 0..1]
  /\ settings \in 0..1
  /\ cookie \in [Browsers -> 0..MaxCookies]
  /\ clients \in 0..MaxClients /\ bindings \in 0..MaxCookies /\ callbacks \in 0..MaxCallbacks
  /\ worker \in [Requests -> Worker]
  /\ used \in [States -> Nat]
  /\ unsettled \in BOOLEAN
  /\ late \subseteq Users

Init ==
  /\ users = Users
  /\ accounts = {}
  /\ states = [s \in States |-> NoState]
  /\ app = [client |-> 0, for |-> 0]
  /\ settings = 0
  /\ cookie = [b \in Browsers |-> 0]
  /\ clients = 0 /\ bindings = 0 /\ callbacks = 0
  /\ worker = [w \in Requests |-> Rest]
  /\ used = [s \in States |-> 0]
  /\ unsettled = FALSE
  /\ late = {}

Becomes(w, j) == worker' = [worker EXCEPT ![w] = j]
Finish(w) == Becomes(w, Rest)

-----------------------------------------------------------------------------
(* oauth_connect: get_authorize_url, that is get_or_create_app and          *)
(* _sign_state, and then the cookie.                                        *)

\* The registration is still what the settings ask for.
Cached == app.client # 0 /\ app.for = settings

Registering == {w \in Requests : worker[w].pc \in {"register", "save"}}

Connect(w, u, b) ==
  /\ worker[w].pc = "idle" /\ u \in users
  /\ LET binding == IF cookie[b] # 0 THEN cookie[b] ELSE bindings + 1
         job     == [Rest EXCEPT !.user = u, !.browser = b, !.binding = binding]
     IN
     /\ binding <= MaxCookies
     /\ bindings' = IF cookie[b] # 0 THEN bindings ELSE binding
     /\ \/ /\ Cached
           /\ Becomes(w, [job EXCEPT !.pc = "sign", !.client = app.client])
           /\ UNCHANGED unsettled
        \/ /\ ~ Cached
           /\ Becomes(w, [job EXCEPT !.pc = "register"])
           /\ unsettled' = (unsettled \/ Registering # {})
  /\ UNCHANGED <<users, accounts, states, app, settings, cookie, clients, callbacks, used, late>>

\* The instance registers a client, or does not answer.
Register(w) ==
  /\ worker[w].pc = "register"
  /\ \/ /\ clients < MaxClients /\ clients' = clients + 1
        /\ Becomes(w, [worker[w] EXCEPT !.pc = "save", !.client = clients + 1])
     \/ Finish(w) /\ UNCHANGED clients
  /\ UNCHANGED <<users, accounts, states, app, settings, cookie, bindings, callbacks, used,
                 unsettled, late>>

\* The upsert: the last writer wins.
SaveApp(w) ==
  /\ worker[w].pc = "save"
  /\ app' = [client |-> worker[w].client, for |-> settings]
  /\ Becomes(w, [worker[w] EXCEPT !.pc = "sign"])
  /\ UNCHANGED <<users, accounts, states, settings, cookie, clients, bindings, callbacks, used,
                 unsettled, late>>

SignState(w) ==
  /\ worker[w].pc = "sign"
  /\ \E s \in States : states[s].there = "never"
  /\ LET s == CHOOSE s \in States : states[s].there = "never" IN
     states' = [states EXCEPT ![s] = [there |-> "open", user |-> worker[w].user,
                                      binding |-> worker[w].binding,
                                      client |-> worker[w].client]]
  /\ cookie' = [cookie EXCEPT ![worker[w].browser] = worker[w].binding]
  /\ Finish(w)
  /\ UNCHANGED <<users, accounts, app, settings, clients, bindings, callbacks, used, unsettled, late>>

-----------------------------------------------------------------------------
(* oauth_callback.  A callback may come again (reload), and in any browser. *)

\* (slip: the state is marked by the callback that stores the account)
VerifyOnly(w, s, b) ==
  /\ worker[w].pc = "idle" /\ cookie[b] # 0
  /\ states[s].there = "open" /\ states[s].binding = cookie[b]
  /\ callbacks < MaxCallbacks /\ callbacks' = callbacks + 1
  /\ used' = [used EXCEPT ![s] = @ + 1]
  /\ Becomes(w, [Rest EXCEPT !.pc = "reread", !.state = s, !.client = states[s].client,
                             !.browser = b])
  /\ UNCHANGED <<users, accounts, states, app, settings, cookie, clients, bindings, unsettled, late>>

\* _verify_state: one conditional UPDATE.
Verify(w, s, b) ==
  /\ worker[w].pc = "idle" /\ cookie[b] # 0
  /\ states[s].there = "open" /\ states[s].binding = cookie[b]
  /\ callbacks < MaxCallbacks /\ callbacks' = callbacks + 1
  /\ states' = [states EXCEPT ![s].there = "consumed"]
  /\ used' = [used EXCEPT ![s] = @ + 1]
  /\ Becomes(w, [Rest EXCEPT !.pc = "reread", !.state = s, !.client = states[s].client,
                             !.browser = b])
  /\ UNCHANGED <<users, accounts, app, settings, cookie, clients, bindings, unsettled, late>>

\* verify_state reads the user in a second transaction; without a user the callback ends.
Reread(w) ==
  /\ worker[w].pc = "reread"
  /\ IF states[worker[w].state].there = "consumed"
     THEN Becomes(w, [worker[w] EXCEPT !.pc = "exchange", !.user = states[worker[w].state].user])
     ELSE Finish(w)
  /\ UNCHANGED <<users, accounts, states, app, settings, cookie, clients, bindings, callbacks,
                 used, unsettled, late>>

\* exchange_code: with the client of the row, which must be the one the code was issued to.
Exchange(w) ==
  LET job == worker[w] IN
  /\ job.pc = "exchange"
  /\ \/ app.client = job.client /\ Becomes(w, [job EXCEPT !.pc = "store"]) /\ UNCHANGED cookie
     \/ Finish(w) /\ cookie' = [cookie EXCEPT ![job.browser] = 0]
  /\ UNCHANGED <<users, accounts, states, app, settings, clients, bindings, callbacks, used,
                 unsettled, late>>

\* The upsert into accounts; whether the user still exists is not asked.
StoreAccount(w) ==
  LET job == worker[w] IN
  /\ job.pc = "store"
  /\ accounts' = {a \in accounts : a.user # job.user}
                   \cup {[user |-> job.user, starter |-> states[job.state].user]}
  /\ cookie' = [cookie EXCEPT ![job.browser] = 0]
  /\ Finish(w)
  /\ UNCHANGED <<users, states, app, settings, clients, bindings, callbacks, used, unsettled, late>>

-----------------------------------------------------------------------------
(* What happens meanwhile.                                                  *)

\* STATE_TTL_SECONDS pass.
Lapse(s) ==
  /\ states[s].there = "open"
  /\ states' = [states EXCEPT ![s].there = "lapsed"]
  /\ UNCHANGED <<users, accounts, app, settings, cookie, clients, bindings, callbacks, worker,
                 used, unsettled, late>>

\* An instance of the deployment starts: init_db purges, perhaps under changed settings.
Start ==
  /\ states' = [s \in States |->
       IF states[s].there \in {"lapsed", "consumed"} THEN [states[s] EXCEPT !.there = "gone"]
       ELSE states[s]]
  /\ \/ UNCHANGED <<settings, unsettled>>
     \/ settings = 0 /\ settings' = 1 /\ unsettled' = TRUE
  /\ UNCHANGED <<users, accounts, app, cookie, clients, bindings, callbacks, worker, used, late>>

\* _hard_delete_user
DeleteUser(u) ==
  /\ u \in users
  /\ users' = users \ {u}
  /\ accounts' = {a \in accounts : a.user # u}
  /\ states' = [s \in States |-> IF states[s].user = u
                                 THEN [states[s] EXCEPT !.there = "gone"] ELSE states[s]]
  /\ late' = IF \E w \in Requests : worker[w].user = u /\ worker[w].pc # "idle"
             THEN late \cup {u} ELSE late
  /\ UNCHANGED <<app, settings, cookie, clients, bindings, callbacks, worker, used, unsettled>>

-----------------------------------------------------------------------------
Flow(w) ==
  \/ \E u \in Users, b \in Browsers : Connect(w, u, b)
  \/ Register(w) \/ SaveApp(w) \/ SignState(w)
  \/ \E s \in States, b \in Browsers : Verify(w, s, b)
  \/ Reread(w) \/ Exchange(w) \/ StoreAccount(w)

Next ==
  \/ \E w \in Requests : Flow(w)
  \/ \E s \in States : Lapse(s)
  \/ Start
  \/ \E u \in Users : DeleteUser(u)

Spec == Init /\ [][Next]_vars

-----------------------------------------------------------------------------
\* However often a callback comes, in whatever browser, a state is accepted once.
StatesAreUsedOnce == \A s \in States : used[s] <= 1

\* An account is stored for the user who started its flow, even when the state's row
\* disappears while the callback runs.
AccountsGoToTheirStarter == \A a \in accounts : a.user = a.starter

\* A deleted user leaves no account behind, unless a request of theirs was running.
DeletedUsersLeaveNothing == \A a \in accounts : a.user \in users \cup late

\* A flow in progress can be completed with the client of the row, unless two
\* registrations overlapped or the settings changed.
ClientsStayValid ==
  unsettled \/ \A s \in States : states[s].there \in {"open", "consumed"} =>
                                   states[s].client = app.client
=============================================================================
