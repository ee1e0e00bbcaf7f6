------------------------------- MODULE Senders -------------------------------
(***************************************************************************)
(* The senders of src/scheduler.py and the clients they call: what each of *)
(* the nine kinds of destination does between the claim of a row and its   *)
(* final state, for one item of one echo.  Workers overlap and die,        *)
(* replies get lost, claims lapse, sessions expire and rotate, the owner   *)
(* reconnects or deletes the account.                                      *)
(***************************************************************************)
EXTENDS PostedItems, FiniteSets, Sequences

CONSTANTS
  Kinds,       \* the kinds of destination (of the nine in _DESTINATION_HANDLERS)
  NImages,     \* images of the item
  MaxSessions, \* Bluesky sessions (bound of the model)
  MaxClaims,   \* attempts, reclaims included (bound of the model)
  MaxEvents    \* lost replies, crashes and acts of the owner or the server (bound)

\* What the proofs assume of the constants.
Bounds ==
  /\ {NImages, MaxClaims, MaxEvents} \subseteq Nat /\ MaxSessions \in Nat \ {0}
  /\ IsFiniteSet(Workers)

VARIABLES
  kind,    \* the destination of the echo
  row,     \* its posted_items row
  account, \* the account row
  server,  \* the destination
  worker,  \* the dispatches under way
  posts,   \* what the destination published for the item
  claims,
  events,
  excuses, \* times nobody could know that the item was out already (history)
  harm     \* something made delivery hopeless (history)

vars == <<kind, row, account, server, worker, posts, claims, events, excuses, harm>>

Sessions == 1..MaxSessions
Images   == 1..NImages

\* What a request may be answered instead of being carried out; "limited" is GitHub's
\* 403 with a spent budget, "none" a request that never arrived.
Replies == {"400", "401", "403", "404", "410", "409", "429", "500", "limited", "none"}

\* The replies that no retry can change, by the error classes of each client.
MastodonRefuses  == {"401", "403"}
MicroblogRefuses == {"401", "403"}
MatrixRefuses    == {"401", "403"}
DiscordRefuses   == {"400", "401", "404"}
TelegramRefuses  == {"400", "401", "404"}
WebhookRefuses   == {"400", "401", "403", "404", "409", "410"}
GitHubRefuses    == {"401", "403", "404", "409"}

Hopeless(k) ==
  CASE k = "mastodon"  -> MastodonRefuses
    [] k = "microblog" -> MicroblogRefuses
    [] k = "matrix"    -> MatrixRefuses
    [] k = "discord"   -> DiscordRefuses
    [] k = "telegram"  -> TelegramRefuses
    [] k = "webhook"   -> WebhookRefuses
    [] k = "github"    -> GitHubRefuses
    [] OTHER           -> {}

\* Destinations that recognise a repeated request by its key: Mastodon's Idempotency-Key,
\* Matrix's transaction id.
Keyed(k) == k \in {"mastodon", "matrix"}

ImagesOf(k) ==
  CASE k \in {"mastodon", "bluesky", "email"} -> NImages
    [] k \in {"matrix", "telegram"}           -> IF NImages = 0 THEN 0 ELSE 1
    [] OTHER                                  -> 0

Idle == [pc |-> "idle", password |-> 0, session |-> 0, cached |-> 0, image |-> 0, images |-> <<>>,
         skipped |-> {}, again |-> "no", sha |-> 0, verdict |-> "none"]

Account == [there : BOOLEAN, password : 0..1, session : 0..MaxSessions, fresh : BOOLEAN]

Server == [password : 0..1, access : SUBSET Sessions, refresh : SUBSET Sessions,
           last : 0..MaxSessions, file : Nat, forgot : BOOLEAN]

Post == [images : Seq(Images), skipped : SUBSET Images]

Steps == {"idle", "account", "session", "store", "look", "images", "guard", "send",
          "reread", "login", "restore", "extra", "settle"}

Job == [pc : Steps,
        password : 0..1, session : 0..MaxSessions, cached : 0..MaxSessions,
        image : 0..NImages, images : Seq(Images), skipped : SUBSET Images,
        again : {"no", "images", "send"}, sha : Nat,
        verdict : {"none", "success", "failed", "refused"}]

TypeOK ==
  /\ kind \in Kinds
  /\ row \in Row
  /\ account \in Account
  /\ server \in Server
  /\ worker \in [Workers -> Job]
  /\ posts \in Seq(Post)
  /\ claims \in 0..MaxClaims /\ events \in 0..MaxEvents /\ excuses \in Nat /\ harm \in BOOLEAN

Init ==
  /\ kind \in Kinds
  /\ row = Absent
  /\ account = [there |-> TRUE, password |-> 0, session |-> 1, fresh |-> TRUE]
  /\ server = [password |-> 0, access |-> {1}, refresh |-> {1}, last |-> 1, file |-> 1, forgot |-> FALSE]
  /\ worker = [w \in Workers |-> Idle]
  /\ posts = <<>>
  /\ claims = 0 /\ events = 0 /\ excuses = 0 /\ harm = FALSE

At(w, pc) == worker[w].pc = pc
Goto(w, pc) == worker' = [worker EXCEPT ![w].pc = pc]

\* The dispatch ends with this verdict, which _finalize_success or _fail_post records.
Verdict(w, v) == worker' = [worker EXCEPT ![w].pc = "settle", ![w].verdict = v]

Event == events < MaxEvents /\ events' = events + 1

-----------------------------------------------------------------------------
(* Claim, account, session.                                                *)

\* Published, and not yet recorded.
Unrecorded(w) == At(w, "extra") \/ (At(w, "settle") /\ worker[w].verdict = "success")

\* Past the guard, with the request still to be answered (a new login included).
Sending(w) == At(w, "send") \/ (worker[w].pc \in {"reread", "login", "restore"} /\ worker[w].again = "send")

\* Nobody can know that w has published, or is about to, once w has lost its claim.
Unknowable(w) == Owns(row, w) /\ (Sending(w) \/ Unrecorded(w))

\* _claim_post.  A claim that lapses after its holder's guard may repeat the item.
Claim(w) ==
  /\ At(w, "idle") /\ Claimable(row) /\ claims < MaxClaims
  /\ row' = ClaimRow(row, w)
  /\ claims' = claims + 1
  /\ excuses' = excuses + (IF \E v \in Workers : Unknowable(v) THEN 1 ELSE 0)
  /\ worker' = [worker EXCEPT ![w] = [Idle EXCEPT !.pc = "account"]]
  /\ UNCHANGED <<kind, account, server, posts, events, harm>>

FirstStep == IF kind = "bluesky" THEN "session" ELSE IF kind = "github" THEN "look"
             ELSE IF ImagesOf(kind) = 0 THEN "guard" ELSE "images"

\* _destination_account: a missing account is final.
FindAccount(w) ==
  /\ At(w, "account")
  /\ IF account.there
     THEN worker' = [worker EXCEPT
            ![w].pc = FirstStep,
            ![w].password = account.password, ![w].session = account.session,
            ![w].cached = IF account.fresh THEN account.session ELSE 0]
     ELSE Verdict(w, "refused")
  /\ UNCHANGED <<kind, row, account, server, posts, claims, events, excuses, harm>>

\* A stored template or credential that cannot be rendered or decrypted, an empty or too
\* large text: final, except for the kinds that retry it.
Prepare(w) ==
  /\ At(w, "account") /\ account.there /\ Event
  /\ Verdict(w, IF kind \in {"webhook", "github", "discord", "telegram"} THEN "refused" ELSE "failed")
  /\ harm' = (harm \/ kind \in {"webhook", "github", "discord", "telegram"})
  /\ UNCHANGED <<kind, row, account, server, posts, claims, excuses>>

\* The PDS opens session s (create_session, refresh_session).
Opened(sv) == [sv EXCEPT !.last = @ + 1, !.access = @ \cup {sv.last + 1}, !.refresh = @ \cup {sv.last + 1}]

\* _bsky_session with a session that has not expired.
UseCachedSession(w) ==
  /\ At(w, "session") /\ worker[w].cached # 0
  /\ worker' = [worker EXCEPT ![w].pc = "images"]
  /\ UNCHANGED <<kind, row, account, server, posts, claims, events, excuses, harm>>

\* refresh_session: the refresh token is good for one use; any failure leads to a login.
Refresh(w) ==
  /\ At(w, "session") /\ worker[w].cached = 0 /\ server.last < MaxSessions
  /\ worker[w].session \in server.refresh
  /\ server' = [Opened(server) EXCEPT !.refresh = @ \ {worker[w].session}]
  /\ worker' = [worker EXCEPT ![w].pc = "store", ![w].session = server.last + 1]
  /\ UNCHANGED <<kind, row, account, posts, claims, events, excuses, harm>>

\* create_session after a failed refresh: a wrong password is an exception like any other.
Login(w) ==
  /\ At(w, "session") /\ worker[w].cached = 0 /\ server.last < MaxSessions
  /\ \/ /\ worker[w].password = server.password
        /\ server' = Opened(server)
        /\ worker' = [worker EXCEPT ![w].pc = "store", ![w].session = server.last + 1]
        /\ UNCHANGED events
     \/ /\ worker[w].password # server.password
        /\ Verdict(w, "failed") /\ UNCHANGED <<server, events>>
     \/ Event /\ Verdict(w, "failed") /\ UNCHANGED server
  /\ UNCHANGED <<kind, row, account, posts, claims, excuses, harm>>

\* The new session goes to the account row, if it is still there.
StoreSession(w) ==
  /\ worker[w].pc \in {"store", "restore"}
  /\ account' = IF account.there
                THEN [account EXCEPT !.session = worker[w].session, !.fresh = TRUE] ELSE account
  /\ Goto(w, IF At(w, "store") THEN "images" ELSE worker[w].again)
  /\ UNCHANGED <<kind, row, server, posts, claims, events, excuses, harm>>

-----------------------------------------------------------------------------
(* A rejected session: one login, one more try.                            *)

Alive(w) == worker[w].session \in server.access

\* _bsky_call_with_reauth: the first rejection leads to a login, the second is final.
Reject(w) ==
  /\ kind = "bluesky" /\ ~ Alive(w)
  /\ IF worker[w].again # worker[w].pc
     THEN worker' = [worker EXCEPT ![w].again = worker[w].pc, ![w].pc = "reread"]
     ELSE Verdict(w, "refused")

\* _bsky_reauth: the password is read again; without the row the case is closed.
Reread(w) ==
  /\ At(w, "reread")
  /\ IF account.there
     THEN worker' = [worker EXCEPT ![w].pc = "login", ![w].password = account.password]
     ELSE Verdict(w, "refused")
  /\ UNCHANGED <<kind, row, account, server, posts, claims, events, excuses, harm>>

Relogin(w) ==
  /\ At(w, "login")
  /\ \/ /\ worker[w].password = server.password /\ server.last < MaxSessions
        /\ server' = Opened(server)
        /\ worker' = [worker EXCEPT ![w].pc = "restore", ![w].session = server.last + 1]
        /\ UNCHANGED events
     \/ /\ worker[w].password # server.password
        /\ Verdict(w, "refused") /\ UNCHANGED <<server, events>>
     \/ Event /\ Verdict(w, "failed") /\ UNCHANGED server
  /\ UNCHANGED <<kind, row, account, posts, claims, excuses, harm>>

-----------------------------------------------------------------------------
(* Images, one by one; one that cannot be had is skipped.                  *)

Done(w) == worker[w].image

\* (slip: the retry resumes at the number of images uploaded)
TakeByCount(w) ==
  [worker EXCEPT ![w].images = Append(@, Len(worker[w].images) + 1),
                 ![w].image = @ + 1]

Take(w) == [worker EXCEPT ![w].images = Append(@, Done(w) + 1), ![w].image = @ + 1]

SkipImage(w) ==
  /\ At(w, "images") /\ Done(w) < ImagesOf(kind)
  /\ worker' = [worker EXCEPT ![w].skipped = @ \cup {Done(w) + 1}, ![w].image = @ + 1]
  /\ UNCHANGED <<kind, row, account, server, posts, claims, events, excuses, harm>>

UploadImage(w) ==
  /\ At(w, "images") /\ Done(w) < ImagesOf(kind)
  /\ \/ /\ kind = "bluesky" => Alive(w)
        /\ worker' = Take(w)
     \/ Reject(w)
  /\ UNCHANGED <<kind, row, account, server, posts, claims, events, excuses, harm>>

\* upload_media of Mastodon refuses the token: the post is given up, not sent without.
RefuseImage(w) ==
  /\ At(w, "images") /\ Done(w) < ImagesOf(kind) /\ Event
  /\ Verdict(w, "refused") /\ harm' = TRUE
  /\ UNCHANGED <<kind, row, account, server, posts, claims, excuses>>

ImagesDone(w) ==
  /\ At(w, "images") /\ Done(w) = ImagesOf(kind)
  /\ Goto(w, "guard")
  /\ UNCHANGED <<kind, row, account, server, posts, claims, events, excuses, harm>>

\* get_file_sha, which may be refused as well; a 404 says that the file is to be created.
LookUpFile(w) ==
  /\ At(w, "look")
  /\ \/ /\ worker' = [worker EXCEPT ![w].pc = "guard", ![w].sha = server.file]
        /\ UNCHANGED <<events, harm>>
     \/ /\ Event
        /\ \E reply \in Replies \ {"404"} :
             /\ Verdict(w, IF reply \in Hopeless(kind) THEN "refused" ELSE "failed")
             /\ harm' = (harm \/ reply \in {"400", "401", "403", "409", "410"})
  /\ UNCHANGED <<kind, row, account, server, posts, claims, excuses>>

-----------------------------------------------------------------------------
(* The irreversible request.                                               *)

\* _guard_claim
Guard(w) ==
  /\ At(w, "guard")
  /\ Goto(w, IF Owns(row, w) THEN "send" ELSE "idle")
  /\ UNCHANGED <<kind, row, account, server, posts, claims, events, excuses, harm>>

\* The destination carries the request out, unless it knows its key.
Accepts(w) ==
  /\ kind = "bluesky" => Alive(w)
  /\ kind = "github" => worker[w].sha = server.file

Publish(w) ==
  /\ posts' = IF Keyed(kind) /\ posts # <<>> /\ ~ server.forgot THEN posts
              ELSE Append(posts, [images |-> worker[w].images, skipped |-> worker[w].skipped])
  /\ server' = IF kind = "github" THEN [server EXCEPT !.file = @ + 1] ELSE server

\* The answer arrives, or it is lost and the dispatch counts as failed.
Send(w) ==
  /\ At(w, "send") /\ Accepts(w)
  /\ Publish(w)
  /\ \/ /\ IF kind \in {"mastodon", "matrix"} THEN Goto(w, "extra") ELSE Verdict(w, "success")
        /\ UNCHANGED <<events, excuses>>
     \/ /\ Event /\ Verdict(w, "failed")
        /\ excuses' = excuses + (IF Owns(row, w) THEN 1 ELSE 0)
  /\ UNCHANGED <<kind, row, account, claims, harm>>

SessionRejected(w) ==
  /\ At(w, "send") /\ Reject(w)
  /\ UNCHANGED <<kind, row, account, server, posts, claims, events, excuses, harm>>

\* GitHub's answer to a sha that is not the file's.
StaleSha(w) ==
  /\ At(w, "send") /\ ~ Accepts(w)
  /\ Verdict(w, IF "409" \in Hopeless(kind) THEN "refused" ELSE "failed")
  /\ UNCHANGED <<kind, row, account, server, posts, claims, events, excuses, harm>>

\* Any other refusal.
Refuse(w) ==
  /\ At(w, "send") /\ Event
  /\ \E reply \in Replies :
       /\ Verdict(w, IF reply \in Hopeless(kind) THEN "refused" ELSE "failed")
       /\ harm' = (harm \/ reply \in {"400", "401", "403", "404", "409", "410"})
  /\ UNCHANGED <<kind, row, account, server, posts, claims, excuses>>

\* The boost of a Mastodon post (_maybe_boost), the image event of Matrix: what follows
\* the post, and whose failure is logged.
SendExtra(w) ==
  /\ At(w, "extra")
  /\ Verdict(w, "success")
  /\ UNCHANGED <<kind, row, account, server, posts, claims, events, excuses, harm>>

\* _finalize_success, _fail_post
Settle(w) ==
  /\ At(w, "settle")
  /\ row' = CASE worker[w].verdict = "success" -> FinalizeRow(row, w, "success")
              [] worker[w].verdict = "failed"  -> FailRow(row, w, FALSE)
              [] OTHER                         -> FailRow(row, w, TRUE)
  /\ worker' = [worker EXCEPT ![w] = Idle]
  /\ UNCHANGED <<kind, account, server, posts, claims, events, excuses, harm>>

-----------------------------------------------------------------------------
(* What goes on around a dispatch.                                         *)

Crash(w) ==
  /\ ~ At(w, "idle") /\ Event
  /\ excuses' = excuses + (IF Owns(row, w) /\ Unrecorded(w) THEN 1 ELSE 0)
  /\ worker' = [worker EXCEPT ![w] = Idle]
  /\ UNCHANGED <<kind, row, account, server, posts, claims, harm>>

Tick ==
  /\ row' = AgeRow(row) /\ row' # row
  /\ UNCHANGED <<kind, account, server, worker, posts, claims, events, excuses, harm>>

\* The PDS drops an access token early (hopeless, if a dispatch has just logged in with
\* it); the cached expiry passes.
ExpireSession ==
  /\ kind = "bluesky" /\ Event
  /\ \/ \E s \in server.access :
          /\ server' = [server EXCEPT !.access = @ \ {s}]
          /\ harm' = (harm \/ \E w \in Workers : worker[w].again # "no" /\ worker[w].session = s)
          /\ UNCHANGED account
     \/ account.fresh /\ account' = [account EXCEPT !.fresh = FALSE] /\ UNCHANGED <<server, harm>>
  /\ UNCHANGED <<kind, row, worker, posts, claims, excuses>>

\* The owner revokes the app password; connects again with another one; disconnects.
RevokePassword ==
  /\ kind = "bluesky" /\ Event /\ server.password = 0
  /\ server' = [server EXCEPT !.password = 1, !.access = {}, !.refresh = {}]
  /\ harm' = TRUE
  /\ UNCHANGED <<kind, row, account, worker, posts, claims, excuses>>

Reconnect ==
  /\ kind = "bluesky" /\ Event /\ account.there /\ server.last < MaxSessions
  /\ server' = Opened(server)
  /\ account' = [account EXCEPT !.password = server.password, !.session = server.last + 1, !.fresh = TRUE]
  /\ UNCHANGED <<kind, row, worker, posts, claims, excuses, harm>>

DeleteAccount ==
  /\ account.there /\ Event
  /\ account' = [account EXCEPT !.there = FALSE] /\ harm' = TRUE
  /\ UNCHANGED <<kind, row, server, worker, posts, claims, excuses>>

\* The window in which a key is remembered passes; somebody else commits the file.
Forget ==
  /\ Keyed(kind) /\ Event /\ ~ server.forgot /\ server' = [server EXCEPT !.forgot = TRUE]
  /\ UNCHANGED <<kind, row, account, worker, posts, claims, excuses, harm>>

Commit ==
  /\ kind = "github" /\ Event /\ server' = [server EXCEPT !.file = @ + 1] /\ harm' = TRUE
  /\ UNCHANGED <<kind, row, account, worker, posts, claims, excuses>>

-----------------------------------------------------------------------------
\* The senders, each with the steps it takes between account and verdict.
Attach(w)  == SkipImage(w) \/ UploadImage(w) \/ ImagesDone(w)
Deliver(w) == Guard(w) \/ Send(w) \/ Refuse(w)

SendMastodon(w)  == kind = "mastodon" /\ (Attach(w) \/ RefuseImage(w) \/ Deliver(w) \/ SendExtra(w))
SendEmail(w)     == kind = "email" /\ (Attach(w) \/ Deliver(w))
OpenSession(w)   == UseCachedSession(w) \/ Refresh(w) \/ Login(w) \/ StoreSession(w)
Reauth(w)        == SessionRejected(w) \/ Reread(w) \/ Relogin(w)
SendBluesky(w)   == kind = "bluesky" /\ (OpenSession(w) \/ Attach(w) \/ Deliver(w) \/ Reauth(w))
SendMicroblog(w) == kind = "microblog" /\ Deliver(w)
SendMatrix(w)    == kind = "matrix" /\ (Attach(w) \/ Deliver(w) \/ SendExtra(w))
SendDiscord(w)   == kind = "discord" /\ Deliver(w)
SendTelegram(w)  == kind = "telegram" /\ (Attach(w) \/ Deliver(w))
SendWebhook(w)   == kind = "webhook" /\ Deliver(w)
SendGitHub(w)    == kind = "github" /\ (LookUpFile(w) \/ Deliver(w) \/ StaleSha(w))

Dispatch(w) ==
  \/ Claim(w) \/ FindAccount(w) \/ Prepare(w) \/ Settle(w)
  \/ SendMastodon(w) \/ SendEmail(w) \/ SendBluesky(w) \/ SendMicroblog(w) \/ SendMatrix(w)
  \/ SendDiscord(w) \/ SendTelegram(w) \/ SendWebhook(w) \/ SendGitHub(w)

Next ==
  \/ \E w \in Workers : Dispatch(w) \/ Crash(w)
  \/ Tick \/ ExpireSession \/ RevokePassword \/ Reconnect \/ DeleteAccount \/ Forget \/ Commit

Spec == Init /\ [][Next]_vars

-----------------------------------------------------------------------------
\* An item is published twice only if nobody could know that it was out: the answer was
\* lost, the sender died, or its claim lapsed after the guard.  Where requests carry a
\* key even that repeats nothing, as long as the destination remembers it.
NoUnexplainedPost ==
  /\ Len(posts) <= 1 + excuses
  /\ Keyed(kind) /\ ~ server.forgot => Len(posts) <= 1

\* Every post shows the item's images once and in order, except those that could not be
\* had: neither a rejected session in the middle of the uploads nor a token without the
\* right to upload makes one disappear or appear twice.  (Matrix gets the image it has
\* uploaded in an event of its own after the text, which may fail.)
PostsAreWhole ==
  \A k \in 1..Len(posts) :
    LET p == posts[k] IN
    /\ \A i, j \in 1..Len(p.images) : i < j => p.images[i] < p.images[j]
    /\ {p.images[i] : i \in 1..Len(p.images)} = (1..ImagesOf(kind)) \ p.skipped

\* As long as the account is there, its password good and the destination has refused
\* nothing, an item is given up only after all its attempts, whatever sessions expire
\* and whoever else uses the refresh token first.
GivenUpForCause ==
  row.status = "gave_up" /\ ~ harm /\ excuses = 0 => MaxAttempts > 0 /\ row.attempts >= MaxAttempts
=============================================================================
