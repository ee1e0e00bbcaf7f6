---------------------------- MODULE Destinations ----------------------------
(***************************************************************************)
(* The destinations of one tenant (the account tables of src/app.py) and   *)
(* the echoes that point at them: connecting under the plan's cap,         *)
(* reconnecting without the credential, disconnecting, saving an echo, and *)
(* the boost flags.                                                        *)
(*                                                                         *)
(* A request reads (cap, dependent echoes, stored credential) and then     *)
(* writes, and no lock spans the two: SQLite opens the transaction at the  *)
(* first write, PostgreSQL reads what is committed.  So every route is a   *)
(* step that checks and a step that writes.  What the routes fetch before  *)
(* they check (token, room, webhook) changes no state.                     *)
(***************************************************************************)
EXTENDS Integers, FiniteSets

CONSTANTS
  Keys,       \* what identifies a destination: address, room, repository ...
  Mastodon, Bluesky, Webhooks, GitHub, Microblog,  \* keys of the kinds that differ
  Given,      \* keys connected at the start
  Rows,       \* ids of destination rows; ids are never used again
  Echoes,     \* ids of echoes
  Requests,
  Nobody,
  Cap,        \* max_destinations of the plan
  MaxPresses  \* requests (bound of the model)

Bounds ==
  /\ IsFiniteSet(Keys) /\ IsFiniteSet(Rows) /\ IsFiniteSet(Requests) /\ Requests # {}
  /\ Cap \in Nat /\ MaxPresses \in Nat
  /\ Given \subseteq Keys
  /\ Cardinality(Given) <= Cap /\ Cardinality(Given) <= Cardinality(Rows)
  /\ Mastodon \cup Bluesky \cup Webhooks \cup GitHub \cup Microblog \subseteq Keys
  /\ Webhooks \cap (GitHub \cup Microblog) = {} /\ GitHub \cap Microblog = {}
  /\ Nobody \notin Keys \cup Rows \cup Echoes

VARIABLES
  rows,      \* destination rows, of all account tables
  echoes,    \* echoes, with the columns that matter here
  worker,    \* program counter and locals of each request
  presses,
  crossed,   \* a request stored a row while another was past the cap (history)
  torn,      \* rows whose disconnection overlapped the saving of an echo (history)
  boostedAt, \* where the boost of an echo was switched on (history)
  late       \* echoes whose boost was switched on during an edit (history)

vars == <<rows, echoes, worker, presses, crossed, torn, boostedAt, late>>
history == <<boostedAt, late>>

\* A secret is the number of the request that submitted it.
Blank == 0        \* a field left empty, a column without a secret
Clear == -1       \* the sentinel "{}"
Secrets == Clear..MaxPresses

Row == [there : {"never", "yes", "gone"}, key : Keys \cup {Nobody},
        secret : Secrets, boost : BOOLEAN]
NoRow == [there |-> "never", key |-> Nobody, secret |-> Blank, boost |-> FALSE]

Echo == [there : {"never", "yes", "deleted"}, row : Rows \cup {Nobody}, boost : BOOLEAN]
NoEcho == [there |-> "never", row |-> Nobody, boost |-> FALSE]

Worker == [pc     : {"idle", "store", "drop", "insert", "update", "boost"},
           keys   : SUBSET Keys,
           secret : Secrets,
           blank  : BOOLEAN,               \* the credential field was left empty
           row    : Rows \cup {Nobody},
           from   : Rows \cup {Nobody},    \* the destination an edited echo had
           echo   : Echoes \cup {Nobody},
           boost  : BOOLEAN]

Rest == [pc |-> "idle", keys |-> {}, secret |-> Blank, blank |-> FALSE, row |-> Nobody,
         from |-> Nobody, echo |-> Nobody, boost |-> FALSE]

TypeOK ==
  /\ rows \in [Rows -> Row]
  /\ echoes \in [Echoes -> Echo]
  /\ worker \in [Requests -> Worker]
  /\ presses \in 0..MaxPresses
  /\ crossed \in BOOLEAN
  /\ torn \subseteq Rows /\ late \subseteq Echoes
  /\ boostedAt \in [Echoes -> Rows \cup {Nobody}]

Present    == {r \in Rows : rows[r].there = "yes"}
Unborn     == {r \in Rows : rows[r].there = "never"}
LiveEchoes == {e \in Echoes : echoes[e].there = "yes"}
Known(k)   == {r \in Present : rows[r].key = k}

\* An assignment of rows to keys; ids have no meaning.
Placing(ks, ids) == CHOOSE at \in [ks -> ids] : \A j, k \in ks : at[j] = at[k] => j = k

Init ==
  /\ LET at == Placing(Given, Rows) IN
     rows = [r \in Rows |-> IF \E k \in Given : at[k] = r
               THEN [NoRow EXCEPT !.there = "yes", !.key = CHOOSE k \in Given : at[k] = r]
               ELSE NoRow]
  /\ echoes = [e \in Echoes |-> NoEcho]
  /\ worker = [w \in Requests |-> Rest]
  /\ presses = 0
  /\ crossed = FALSE
  /\ torn = {} /\ late = {}
  /\ boostedAt = [e \in Echoes |-> Nobody]

Becomes(w, j) ==
  /\ worker' = [worker EXCEPT ![w] = j]
  /\ torn' = torn \cup
       {r \in Rows : \E v, x \in Requests :
          /\ worker'[v].pc = "drop" /\ worker'[v].row = r
          /\ worker'[x].pc \in {"insert", "update"} /\ worker'[x].row = r}

Begin(w, j) ==
  /\ worker[w].pc = "idle"
  /\ presses < MaxPresses /\ presses' = presses + 1
  /\ Becomes(w, j)
  /\ UNCHANGED <<rows, echoes, crossed, history>>

Finish(w) == Becomes(w, Rest) /\ UNCHANGED presses

-----------------------------------------------------------------------------
(* Connecting.                                                             *)

\* The rows the cap sees as new: Bluesky counts a reconnection, too, and a
\* micro.blog token brings all its blogs.
New(ks) == {k \in ks : Known(k) = {} \/ k \in Bluesky}

\* _check_destination_cap, and the sum in add_microblog_account
Fits(ks) == New(ks) = {} \/ Cardinality(Present) + Cardinality(New(ks)) <= Cap

\* What a form connects: one destination, or all blogs of a micro.blog token.
Forms == {{k} : k \in Keys \ Microblog} \cup (IF Microblog = {} THEN {} ELSE {Microblog})

\* What a form may submit: only webhooks and GitHub accept an empty or a clearing
\* field, and GitHub only for a row that exists.
Submitted(k) ==
  {presses + 1}
    \cup (IF k \in Webhooks \/ (k \in GitHub /\ Known(k) # {}) THEN {Blank, Clear} ELSE {})

\* What the route resolves before it writes: GitHub looks up the stored token for an
\* empty field, a webhook without a row has nothing to clear.
Resolved(k, secret) ==
  CASE k \in GitHub /\ secret = Blank -> rows[CHOOSE r \in Known(k) : TRUE].secret
    [] k \in Webhooks /\ secret = Clear /\ Known(k) = {} -> Blank
    [] OTHER -> secret

Connect(w, ks) ==
  /\ Fits(ks)
  /\ \E secret \in {s \in Secrets : \A k \in ks : s \in Submitted(k)} :
       Begin(w, [Rest EXCEPT !.pc = "store", !.keys = ks, !.blank = secret = Blank,
                             !.secret = LET k == CHOOSE k \in ks : TRUE
                                        IN Resolved(k, secret)])

\* The upsert: CASE WHEN excluded ... of the webhook and GitHub tables.
Upserted(row, secret) ==
  [row EXCEPT !.secret = CASE secret = Clear -> Blank
                           [] secret = Blank -> row.secret
                           [] OTHER -> secret]

Store(w) ==
  LET job   == worker[w]
      fresh == {k \in job.keys : Known(k) = {}}
  IN
  /\ job.pc = "store"
  /\ Cardinality(fresh) <= Cardinality(Unborn)
  /\ LET at == Placing(fresh, Unborn) IN
     rows' = [r \in Rows |->
       IF r \in Present /\ rows[r].key \in job.keys THEN Upserted(rows[r], job.secret)
       ELSE IF \E k \in fresh : at[k] = r
       THEN [NoRow EXCEPT !.there = "yes", !.key = CHOOSE k \in fresh : at[k] = r,
                          !.secret = job.secret]
       ELSE rows[r]]
  /\ crossed' = (crossed \/ \E v \in Requests \ {w} : worker[v].pc = "store")
  /\ Finish(w)
  /\ UNCHANGED <<echoes, history>>

-----------------------------------------------------------------------------
(* Disconnecting.                                                          *)

\* (slip: only boosted echoes are seen)
SomeDependents(r) == {e \in LiveEchoes : echoes[e].row = r /\ echoes[e].boost}

Dependents(r) == {e \in LiveEchoes : echoes[e].row = r}

\* _dependent_echo_count_tx ...
Disconnect(w, r) ==
  /\ r \in Present
  /\ Dependents(r) = {}
  /\ Begin(w, [Rest EXCEPT !.pc = "drop", !.row = r])

\* ... and the DELETE.
DropRow(w) ==
  /\ worker[w].pc = "drop"
  /\ rows' = [rows EXCEPT ![worker[w].row] =
                [NoRow EXCEPT !.there = "gone", !.key = rows[worker[w].row].key]]
  /\ Finish(w)
  /\ UNCHANGED <<echoes, crossed, history>>

-----------------------------------------------------------------------------
(* Echoes.                                                                 *)

\* add_echo: the destination must be there ...
AddEcho(w, r) ==
  /\ r \in Present
  /\ Begin(w, [Rest EXCEPT !.pc = "insert", !.row = r])

\* ... and the row is inserted.
InsertEcho(w) ==
  /\ worker[w].pc = "insert"
  /\ \E e \in Echoes : echoes[e].there = "never"
  /\ LET e == CHOOSE e \in Echoes : echoes[e].there = "never" IN
     echoes' = [echoes EXCEPT ![e] = [NoEcho EXCEPT !.there = "yes", !.row = worker[w].row]]
  /\ Finish(w)
  /\ UNCHANGED <<rows, crossed, history>>

\* edit_echo: the echo is read, the new destination must be there ...
EditEcho(w, e, r) ==
  /\ e \in LiveEchoes /\ r \in Present
  /\ Begin(w, [Rest EXCEPT !.pc = "update", !.echo = e, !.row = r,
                           !.from = echoes[e].row, !.boost = echoes[e].boost])

\* ... and the row is updated; a boost that was read does not move along.
UpdateEcho(w) ==
  LET job == worker[w] IN
  /\ job.pc = "update"
  /\ echoes' = [echoes EXCEPT ![job.echo].row = job.row,
                              ![job.echo].boost = @ /\ ~ (job.boost /\ job.from # job.row)]
  /\ Finish(w)
  /\ UNCHANGED <<rows, crossed, history>>

\* delete_echo
DeleteEcho(e) ==
  /\ e \in LiveEchoes
  /\ presses < MaxPresses /\ presses' = presses + 1
  /\ echoes' = [echoes EXCEPT ![e].there = "deleted"]
  /\ UNCHANGED <<rows, worker, crossed, torn, history>>

AccountBoosted(r) == r \in Present /\ rows[r].boost

\* toggle_echo_booster: one conditional UPDATE.
FlipEchoBoost(e) ==
  /\ e \in LiveEchoes /\ ~ AccountBoosted(echoes[e].row)
  /\ rows[echoes[e].row].key \in Mastodon
  /\ presses < MaxPresses /\ presses' = presses + 1
  /\ echoes' = [echoes EXCEPT ![e].boost = ~ @]
  /\ boostedAt' = [boostedAt EXCEPT ![e] = echoes[e].row]
  /\ late' = IF \E w \in Requests : worker[w].pc = "update" /\ worker[w].echo = e
             THEN late \cup {e} ELSE late
  /\ UNCHANGED <<rows, worker, crossed, torn>>

\* toggle_booster: the flag of an account is read ...
ReadAccountBoost(w, r) ==
  /\ r \in Present /\ rows[r].key \in Mastodon
  /\ Begin(w, [Rest EXCEPT !.pc = "boost", !.row = r, !.boost = ~ rows[r].boost])

\* ... and written.
WriteAccountBoost(w) ==
  /\ worker[w].pc = "boost"
  /\ rows' = [rows EXCEPT ![worker[w].row].boost =
                IF worker[w].row \in Present THEN worker[w].boost ELSE @]
  /\ Finish(w)
  /\ UNCHANGED <<echoes, crossed, history>>

-----------------------------------------------------------------------------
Connecting(w) == Store(w) \/ \E ks \in Forms : Connect(w, ks)

Disconnecting(w) == DropRow(w) \/ \E r \in Rows : Disconnect(w, r)

SavingEchoes(w) ==
  \/ InsertEcho(w) \/ UpdateEcho(w) \/ WriteAccountBoost(w)
  \/ \E r \in Rows : AddEcho(w, r) \/ ReadAccountBoost(w, r)
  \/ \E e \in Echoes, r \in Rows : EditEcho(w, e, r)

Next ==
  \/ \E w \in Requests : Connecting(w) \/ Disconnecting(w) \/ SavingEchoes(w)
  \/ \E e \in Echoes : DeleteEcho(e) \/ FlipEchoBoost(e)

Spec == Init /\ [][Next]_vars

-----------------------------------------------------------------------------
\* The destinations stay within the plan's cap, unless a request stored one while another
\* was past the cap; and then each of the others adds no more than what it brings itself.
CapIsNearlyKept ==
  \/ Cardinality(Present) <= Cap
  \/ crossed /\ \E ks \in Forms :
       Cardinality(Present) <= Cap + Cardinality(ks) * (Cardinality(Requests) - 1)

\* A live echo points at a destination that exists, unless the destination was being
\* disconnected while an echo to it was being saved.
NoDanglingEcho ==
  \A e \in LiveEchoes : echoes[e].row \in Present \cup torn

\* The boost of an echo was switched on for the destination the echo has, unless that
\* happened while an edit had already read the flag.
BoostStaysHome ==
  \A e \in Echoes : echoes[e].boost => boostedAt[e] = echoes[e].row \/ e \in late

\* Saving a form with its credential left empty changes no stored credential of these keys.
KeepsSecret(ks) ==
  \A w \in Requests, r \in Present :
    /\ worker[w].pc = "store" /\ worker[w].blank /\ worker'[w].pc = "idle"
    /\ rows[r].key \in worker[w].keys \cap ks
    => rows'[r].secret = rows[r].secret
=============================================================================
