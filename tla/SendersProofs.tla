---------------------------- MODULE SendersProofs ----------------------------
(***************************************************************************)
(* What holds of the senders for any number of workers, images, sessions,  *)
(* attempts, lost replies, crashes and acts of owner and server, and for   *)
(* every kind of destination: an item appears twice only if nobody could   *)
(* know that it was out; every post shows the images that could be had,    *)
(* once and in order; and no item is given up without a cause.             *)
(***************************************************************************)
EXTENDS Senders, PostedItemsProofs, FiniteSetTheorems, SequenceTheorems

-----------------------------------------------------------------------------
(* Types.                                                                  *)

\* A worker that goes for a new session knows what to do with it; nothing was uploaded or
\* retried before it had a session; GitHub has neither sessions nor images.
LocalsSet(k, j) ==
  /\ j.pc \in {"reread", "login", "restore"} => j.again # "no"
  /\ j.pc \in {"account", "session", "store", "look"} => j.image = 0 /\ j.again = "no"
  /\ k = "github" => j.pc \notin {"session", "store", "images", "reread", "login", "restore"}
  /\ j.image <= ImagesOf(k)
  /\ j.pc = "look" => k = "github"

TypeInv == TypeOK /\ \A w \in Workers : LocalsSet(kind, worker[w])

-----------------------------------------------------------------------------
(* Duplicates.                                                             *)

\* Workers that lost their claim and may still publish: each was counted when it lost it.
Excused   == {w \in Workers : Sending(w) /\ ~ Owns(row, w)}
\* The one post that needs no excuse is out: its row says so, or is about to.
Recording == row.status = "success" \/ \E w \in Workers : Owns(row, w) /\ Unrecorded(w)

CountInv == Len(posts) + Cardinality(Excused) <= excuses + (IF Recording THEN 1 ELSE 0)

\* While the destination remembers the key, the first post is the only one.
KeyInv == Keyed(kind) /\ ~ server.forgot => Len(posts) <= 1

-----------------------------------------------------------------------------
(* Images.                                                                 *)

\* The first n images once and in order, but for those skipped.
Whole(images, skipped, n) ==
  /\ \A i, j \in 1..Len(images) : i < j => images[i] < images[j]
  /\ {images[i] : i \in 1..Len(images)} = (1..n) \ skipped
  /\ skipped \subseteq 1..n

\* Past the uploads, a new login for the request included.
AllTaken(j) == \/ j.pc \in {"guard", "send"}
               \/ j.pc \in {"reread", "login", "restore"} /\ j.again = "send"

ImagesInv ==
  /\ \A w \in Workers :
       /\ Whole(worker[w].images, worker[w].skipped, worker[w].image)
       /\ AllTaken(worker[w]) => worker[w].image = ImagesOf(kind)
  /\ \A k \in 1..Len(posts) : Whole(posts[k].images, posts[k].skipped, ImagesOf(kind))

-----------------------------------------------------------------------------
(* Giving up.                                                              *)

Clean == ~ harm /\ excuses = 0

\* Nobody has lost a claim past the guard, and no dispatch was refused for good; the
\* password is the one of the start, a session opened by the dispatch is good, and the
\* file is the one that was looked at.
CleanWorker(w) ==
  /\ worker[w].password = 0
  /\ Sending(w) => Owns(row, w)
  /\ At(w, "settle") => worker[w].verdict \in {"success", "failed"}
  /\ worker[w].again # "no" /\ worker[w].pc \in {"restore", "images", "guard", "send"} => Alive(w)
  /\ kind = "github" /\ worker[w].pc \in {"guard", "send"} /\ Owns(row, w)
       => worker[w].sha = server.file

CauseInv == Clean =>
  /\ row.status = "gave_up" => MaxAttempts > 0 /\ row.attempts >= MaxAttempts
  /\ account.there /\ account.password = 0 /\ server.password = 0
  /\ \A w \in Workers : CleanWorker(w)

IInv == TypeInv /\ CountInv /\ KeyInv /\ ImagesInv /\ CauseInv

-----------------------------------------------------------------------------
(* Types.                                                                  *)

LEMMA ImagesOfType ==
  ASSUME Bounds, NEW k
  PROVE  /\ ImagesOf(k) \in 0..NImages
         /\ k \notin {"mastodon", "bluesky", "email", "matrix", "telegram"} => ImagesOf(k) = 0
BY DEF ImagesOf, Bounds

LEMMA IdleType == Bounds => Idle \in Job /\ LocalsSet(kind, Idle)
<1>1. <<>> \in Seq(Images) /\ {} \in SUBSET Images
  OBVIOUS
<1> QED BY <1>1, ImagesOfType DEF Idle, Job, Steps, LocalsSet, Bounds

\* The workers' part of the invariant, and the rest.
WorkersOK == worker \in [Workers -> Job] /\ \A w \in Workers : LocalsSet(kind, worker[w])
TableOK ==
  /\ kind \in Kinds
  /\ row \in Row
  /\ account \in Account
  /\ server \in Server
  /\ posts \in Seq(Post)
  /\ claims \in 0..MaxClaims /\ events \in 0..MaxEvents /\ excuses \in Nat /\ harm \in BOOLEAN

LEMMA TypeParts ==
  /\ TypeInv <=> TableOK /\ WorkersOK
  /\ TypeInv' <=> TableOK' /\ WorkersOK'
BY DEF TypeInv, TypeOK, TableOK, WorkersOK

LEMMA MoveType ==
  ASSUME WorkersOK, NEW w \in Workers, NEW j \in Job, LocalsSet(kind, j), UNCHANGED kind,
         worker' = [worker EXCEPT ![w] = j]
  PROVE  WorkersOK'
<1>1. worker' \in [Workers -> Job]
  BY DEF WorkersOK
<1>2. ASSUME NEW v \in Workers PROVE LocalsSet(kind', worker'[v])
  <2>1. CASE v = w
    BY <2>1 DEF WorkersOK
  <2>2. CASE v # w
    BY <2>2 DEF WorkersOK
  <2> QED BY <2>1, <2>2
<1> QED BY <1>1, <1>2 DEF WorkersOK

LEMMA GotoType ==
  ASSUME WorkersOK, NEW w \in Workers, UNCHANGED kind,
         NEW p \in Steps \ {"reread", "login", "restore", "account", "session", "store", "look"},
         p = "images" => kind # "github",
         Goto(w, p)
  PROVE  WorkersOK'
<1> DEFINE j == [worker[w] EXCEPT !.pc = p]
<1>1. worker[w] \in Job /\ worker[w].image <= ImagesOf(kind)
  BY DEF WorkersOK, LocalsSet
<1>2. j \in Job
  BY <1>1 DEF Job
<1>3. j.pc = p /\ j.image = worker[w].image
  BY <1>1 DEF Job
<1>4. worker' = [worker EXCEPT ![w] = j]
  BY DEF Goto
<1> HIDE DEF j
<1>5. LocalsSet(kind, j)
  BY <1>1, <1>3 DEF LocalsSet
<1> QED BY <1>2, <1>4, <1>5, MoveType

LEMMA VerdictType ==
  ASSUME WorkersOK, NEW w \in Workers, UNCHANGED kind,
         NEW v \in {"success", "failed", "refused"}, Verdict(w, v)
  PROVE  WorkersOK'
<1> DEFINE j == [worker[w] EXCEPT !.pc = "settle", !.verdict = v]
<1>1. worker[w] \in Job /\ worker[w].image <= ImagesOf(kind)
  BY DEF WorkersOK, LocalsSet
<1>2. j \in Job /\ j.pc = "settle" /\ j.image = worker[w].image
  BY <1>1 DEF Job, Steps
<1>3. worker' = [worker EXCEPT ![w] = j]
  BY DEF Verdict
<1> HIDE DEF j
<1>4. LocalsSet(kind, j)
  BY <1>1, <1>2 DEF LocalsSet
<1> QED BY <1>2, <1>3, <1>4, MoveType

\* Steps that change one field or two of a worker's locals.
LEMMA LocalsType ==
  ASSUME WorkersOK, Bounds, NEW w \in Workers
  PROVE  /\ worker[w] \in Job /\ LocalsSet(kind, worker[w])
         /\ \A p \in Steps : [worker[w] EXCEPT !.pc = p] \in Job
         /\ \A p \in Steps, s \in 0..MaxSessions : [worker[w] EXCEPT !.pc = p, !.session = s] \in Job
         /\ \A p \in Steps, n \in 0..1 : [worker[w] EXCEPT !.pc = p, !.password = n] \in Job
         /\ \A p \in Steps, n \in Nat : [worker[w] EXCEPT !.pc = p, !.sha = n] \in Job
         /\ \A p \in Steps, a \in {"images", "send"} : [worker[w] EXCEPT !.again = a, !.pc = p] \in Job
BY DEF WorkersOK, Job

LEMMA SessionType ==
  ASSUME TypeInv, Bounds, server.last < MaxSessions
  PROVE  /\ server.last + 1 \in Sessions /\ server.last + 1 \in 0..MaxSessions
         /\ Opened(server) \in Server
<1>1. server \in Server /\ MaxSessions \in Nat
  BY DEF TypeInv, TypeOK, Bounds
<1>2. server.last + 1 \in Sessions /\ server.last + 1 \in 0..MaxSessions
  BY <1>1 DEF Sessions, Server
<1>3. Opened(server) \in Server
  BY <1>1, <1>2 DEF Opened, Server
<1> QED BY <1>2, <1>3

LEMMA ClaimType ==
  ASSUME TypeInv, Bounds, NEW w \in Workers, Claim(w)
  PROVE  TypeInv'
<1> DEFINE j == [Idle EXCEPT !.pc = "account"]
<1>1. j \in Job /\ j.pc = "account" /\ j.image = 0 /\ j.again = "no"
  BY IdleType DEF Idle, Job, Steps
<1>2. worker' = [worker EXCEPT ![w] = j]
  BY DEF Claim
<1> HIDE DEF j
<1>3. LocalsSet(kind, j)
  BY <1>1, ImagesOfType DEF LocalsSet, Bounds
<1>4. WorkersOK'
  BY <1>1, <1>2, <1>3, MoveType, TypeParts DEF Claim
<1>5. row' \in Row
  BY ClaimRowType DEF Claim, TypeInv, TypeOK
<1>6. excuses' \in Nat /\ claims' \in 0..MaxClaims
  BY DEF Claim, TypeInv, TypeOK, Bounds
<1>7. TableOK'
  BY <1>5, <1>6, TypeParts DEF Claim, TableOK
<1> QED BY <1>4, <1>7, TypeParts

LEMMA FindAccountType ==
  ASSUME TypeInv, Bounds, NEW w \in Workers, FindAccount(w)
  PROVE  TypeInv'
<1> DEFINE p == FirstStep
           c == IF account.fresh THEN account.session ELSE 0
           j == [worker[w] EXCEPT !.pc = p, !.password = account.password,
                                  !.session = account.session, !.cached = c]
<1>1. WorkersOK /\ TableOK /\ UNCHANGED kind
  BY TypeParts DEF FindAccount
<1>2. TableOK'
  BY <1>1 DEF FindAccount, TableOK
<1>3. CASE ~ account.there
  BY <1>1, <1>2, <1>3, VerdictType, TypeParts DEF FindAccount
<1>4. CASE account.there
  <2>1. /\ p \in Steps /\ p \in {"session", "look", "guard", "images"}
        /\ p = "look" => kind = "github"
        /\ kind = "github" => p = "look"
    BY DEF FirstStep, Steps
  <2>2. account.password \in 0..1 /\ account.session \in 0..MaxSessions /\ c \in 0..MaxSessions
    BY <1>1 DEF TableOK, Account, Bounds
  <2>3. worker[w] \in Job /\ worker[w].image = 0 /\ worker[w].again = "no"
    BY <1>1 DEF WorkersOK, LocalsSet, FindAccount, At
  <2>4. worker' = [worker EXCEPT ![w] = j]
    BY <1>4 DEF FindAccount
  <2> HIDE DEF p, c
  <2>5. j \in Job /\ j.pc = p /\ j.image = 0 /\ j.again = "no"
    BY <2>1, <2>2, <2>3 DEF Job
  <2> HIDE DEF j
  <2>6. LocalsSet(kind, j)
    BY <2>1, <2>5, ImagesOfType DEF LocalsSet, Bounds
  <2> QED BY <1>1, <1>2, <2>4, <2>5, <2>6, MoveType, TypeParts
<1> QED BY <1>3, <1>4

LEMMA SessionStepType ==
  ASSUME TypeInv, Bounds, NEW w \in Workers,
         UseCachedSession(w) \/ Refresh(w) \/ Login(w) \/ StoreSession(w)
  PROVE  TypeInv'
<1> USE DEF Steps
<1>1. WorkersOK /\ TableOK /\ worker[w] \in Job /\ LocalsSet(kind, worker[w])
  BY TypeParts DEF WorkersOK
<1>2. ASSUME NEW p \in Steps, worker' = [worker EXCEPT ![w].pc = p, ![w].session = server.last + 1],
             p = "store", At(w, "session"), server.last < MaxSessions, UNCHANGED kind
      PROVE  WorkersOK'
  <2> DEFINE j == [worker[w] EXCEPT !.pc = p, !.session = server.last + 1]
  <2>1. j \in Job
    BY <1>1, <1>2, SessionType, LocalsType
  <2>2. j.pc = p /\ j.image = worker[w].image /\ j.again = worker[w].again
    BY <1>1 DEF Job
  <2>3. worker' = [worker EXCEPT ![w] = j]
    BY <1>2
  <2> HIDE DEF j
  <2>4. LocalsSet(kind, j)
    BY <1>1, <1>2, <2>2 DEF LocalsSet, At
  <2> QED BY <1>1, <1>2, <2>1, <2>3, <2>4, MoveType
<1>3. ASSUME worker[w].pc \in {"session", "store", "restore"} PROVE kind # "github"
  BY <1>1, <1>3 DEF LocalsSet
<1>4. CASE UseCachedSession(w)
  <2>1. Goto(w, "images") /\ UNCHANGED <<kind, row, account, server, posts, claims, events, excuses, harm>>
    BY <1>4 DEF UseCachedSession, Goto
  <2>2. WorkersOK'
    BY <1>1, <1>3, <1>4, <2>1, GotoType DEF UseCachedSession, At
  <2> QED BY <1>1, <2>1, <2>2, TypeParts DEF TableOK
<1>5. CASE Refresh(w)
  <2>1. WorkersOK'
    BY <1>2, <1>5 DEF Refresh
  <2>2. TableOK'
    <3> DEFINE sv == Opened(server)
    <3>1. server' = [sv EXCEPT !.refresh = sv.refresh \ {worker[w].session}]
      BY <1>5 DEF Refresh
    <3>2. sv \in Server
      BY <1>5, SessionType DEF Refresh
    <3> HIDE DEF sv
    <3>3. server' \in Server
      BY <3>1, <3>2 DEF Server
    <3> QED BY <1>1, <1>5, <3>3 DEF Refresh, TableOK
  <2> QED BY <2>1, <2>2, TypeParts
<1>6. CASE Login(w)
  <2>1. WorkersOK'
    BY <1>1, <1>2, <1>6, VerdictType DEF Login
  <2>2. events' \in 0..MaxEvents
    BY <1>1, <1>6 DEF Login, Event, TableOK, Bounds
  <2>3. server' = server \/ server' = Opened(server)
    BY <1>6 DEF Login
  <2>4. TableOK'
    BY <1>1, <1>6, <2>2, <2>3, SessionType DEF Login, TableOK
  <2> QED BY <2>1, <2>4, TypeParts
<1>7. CASE StoreSession(w)
  <2>1. account' \in Account
    BY <1>1, <1>7 DEF StoreSession, TableOK, Account, Job
  <2>2. TableOK'
    BY <1>1, <1>7, <2>1 DEF StoreSession, TableOK
  <2>3. UNCHANGED kind /\ Goto(w, IF At(w, "store") THEN "images" ELSE worker[w].again)
    BY <1>7 DEF StoreSession
  <2>4. CASE At(w, "store")
    <3>1. Goto(w, "images")
      BY <2>3, <2>4
    <3>2. WorkersOK'
      BY <1>1, <1>3, <2>3, <2>4, <3>1, GotoType DEF At
    <3> QED BY <2>2, <3>2, TypeParts
  <2>5. CASE worker[w].pc = "restore"
    <3>1. Goto(w, worker[w].again)
      BY <2>3, <2>5 DEF At
    <3>2. worker[w].again \in {"images", "send"}
      BY <1>1, <2>5 DEF LocalsSet, Job
    <3>3. WorkersOK'
      BY <1>1, <1>3, <2>3, <2>5, <3>1, <3>2, GotoType
    <3> QED BY <2>2, <3>3, TypeParts
  <2> QED BY <1>7, <2>4, <2>5 DEF StoreSession, At
<1> QED BY <1>4, <1>5, <1>6, <1>7

\* The rest of a retry after a rejected session.
LEMMA RejectType ==
  ASSUME WorkersOK, Bounds, NEW w \in Workers, UNCHANGED kind, Reject(w),
         At(w, "images") \/ At(w, "send")
  PROVE  WorkersOK'
<1> USE DEF Steps
<1> DEFINE a == worker[w].pc
           j == [worker[w] EXCEPT !.again = a, !.pc = "reread"]
<1>1. CASE worker[w].again = a
  <2>1. Verdict(w, "refused")
    BY <1>1 DEF Reject
  <2> QED BY <2>1, VerdictType
<1>2. CASE worker[w].again # a
  <2>1. worker[w] \in Job /\ LocalsSet(kind, worker[w]) /\ a \in {"images", "send"}
    BY DEF WorkersOK, At
  <2>2. worker' = [worker EXCEPT ![w] = j]
    BY <1>2 DEF Reject
  <2> HIDE DEF a
  <2>3. j \in Job /\ j.pc = "reread" /\ j.again # "no" /\ j.image = worker[w].image
    BY <2>1 DEF Job
  <2> HIDE DEF j
  <2>4. LocalsSet(kind, j)
    BY <2>1, <2>3 DEF LocalsSet, Reject
  <2> QED BY <2>2, <2>3, <2>4, MoveType
<1> QED BY <1>1, <1>2

LEMMA ReauthType ==
  ASSUME TypeInv, Bounds, NEW w \in Workers, SessionRejected(w) \/ Reread(w) \/ Relogin(w)
  PROVE  TypeInv'
<1> USE DEF Steps
<1>1. WorkersOK /\ TableOK /\ worker[w] \in Job /\ LocalsSet(kind, worker[w])
  BY TypeParts DEF WorkersOK
<1>2. CASE SessionRejected(w)
  <2>1. WorkersOK'
    BY <1>1, <1>2, RejectType DEF SessionRejected
  <2> QED BY <1>1, <1>2, <2>1, TypeParts DEF SessionRejected, TableOK
<1>3. CASE Reread(w)
  <2> DEFINE j == [worker[w] EXCEPT !.pc = "login", !.password = account.password]
  <2>1. UNCHANGED kind /\ (Verdict(w, "refused") \/ worker' = [worker EXCEPT ![w] = j])
    BY <1>3 DEF Reread
  <2>2. j \in Job /\ j.pc = "login" /\ j.again = worker[w].again /\ j.image = worker[w].image
    BY <1>1 DEF Job, TableOK, Account
  <2> HIDE DEF j
  <2>3. LocalsSet(kind, j)
    BY <1>1, <1>3, <2>2 DEF LocalsSet, Reread, At
  <2>4. WorkersOK'
    BY <1>1, <2>1, <2>2, <2>3, MoveType, VerdictType
  <2> QED BY <1>1, <1>3, <2>4, TypeParts DEF Reread, TableOK
<1>4. CASE Relogin(w)
  <2> DEFINE j == [worker[w] EXCEPT !.pc = "restore", !.session = server.last + 1]
  <2>1. /\ UNCHANGED kind
        /\ \/ server.last < MaxSessions /\ worker' = [worker EXCEPT ![w] = j]
           \/ Verdict(w, "refused")
           \/ Verdict(w, "failed")
    BY <1>4 DEF Relogin
  <2>2. WorkersOK'
    <3>1. CASE server.last < MaxSessions /\ worker' = [worker EXCEPT ![w] = j]
      <4>1. j \in Job
        BY <1>1, <3>1, SessionType, LocalsType
      <4>2. j.pc = "restore" /\ j.again = worker[w].again /\ j.image = worker[w].image
        BY <1>1 DEF Job
      <4> HIDE DEF j
      <4>3. LocalsSet(kind, j)
        BY <1>1, <1>4, <4>2 DEF LocalsSet, Relogin, At
      <4> QED BY <1>1, <2>1, <3>1, <4>1, <4>3, MoveType
    <3> QED BY <1>1, <2>1, <3>1, VerdictType
  <2>3. events' \in 0..MaxEvents
    BY <1>1, <1>4 DEF Relogin, Event, TableOK, Bounds
  <2>4. server' = server \/ (server.last < MaxSessions /\ server' = Opened(server))
    BY <1>4 DEF Relogin
  <2>5. TableOK'
    BY <1>1, <1>4, <2>3, <2>4, SessionType DEF Relogin, TableOK
  <2> QED BY <2>2, <2>5, TypeParts
<1> QED BY <1>2, <1>3, <1>4

LEMMA AttachType ==
  ASSUME TypeInv, Bounds, NEW w \in Workers, Attach(w) \/ RefuseImage(w)
  PROVE  TypeInv'
<1> USE DEF Steps
<1>1. WorkersOK /\ TableOK /\ worker[w] \in Job /\ LocalsSet(kind, worker[w])
  BY TypeParts DEF WorkersOK
<1>2. ASSUME At(w, "images"), Done(w) < ImagesOf(kind)
      PROVE  Done(w) + 1 \in Images /\ Done(w) + 1 <= ImagesOf(kind) /\ Done(w) + 1 \in 0..NImages
  BY <1>1, <1>2, ImagesOfType DEF Done, Job, Images, Bounds
<1>3. CASE SkipImage(w)
  <2> DEFINE n == Done(w) + 1
             j == [worker[w] EXCEPT !.skipped = worker[w].skipped \cup {n}, !.image = n]
  <2>1. worker' = [worker EXCEPT ![w] = j]
    BY <1>3 DEF SkipImage, Done
  <2>2. n \in Images /\ n <= ImagesOf(kind) /\ n \in 0..NImages
    BY <1>2, <1>3 DEF SkipImage
  <2> HIDE DEF n
  <2>3. j \in Job /\ j.pc = "images" /\ j.image = n
    BY <1>1, <1>3, <2>2 DEF Job, SkipImage, At
  <2> HIDE DEF j
  <2>4. LocalsSet(kind, j)
    BY <1>1, <1>3, <2>2, <2>3 DEF LocalsSet, SkipImage, At
  <2>5. WorkersOK'
    BY <1>1, <1>3, <2>1, <2>3, <2>4, MoveType DEF SkipImage
  <2> QED BY <1>1, <1>3, <2>5, TypeParts DEF SkipImage, TableOK
<1>4. CASE UploadImage(w)
  <2> DEFINE n == Done(w) + 1
             s == Append(worker[w].images, n)
             j == [worker[w] EXCEPT !.images = s, !.image = n]
  <2>0. UNCHANGED kind /\ At(w, "images") /\ (worker' = Take(w) \/ Reject(w))
    BY <1>4 DEF UploadImage
  <2>1. ASSUME worker' = Take(w) PROVE WorkersOK'
    <3>1. worker' = [worker EXCEPT ![w] = j]
      BY <2>1 DEF Take, Done
    <3>2. n \in Images /\ n <= ImagesOf(kind) /\ n \in 0..NImages
      BY <1>2, <1>4 DEF UploadImage
    <3> HIDE DEF n
    <3>3. s \in Seq(Images)
      BY <1>1, <3>2 DEF Job
    <3> HIDE DEF s
    <3>4. j \in Job /\ j.pc = "images" /\ j.image = n
      BY <1>1, <2>0, <3>2, <3>3 DEF Job, At
    <3> HIDE DEF j
    <3>5. LocalsSet(kind, j)
      BY <1>1, <2>0, <3>2, <3>4 DEF LocalsSet, At
    <3> QED BY <1>1, <2>0, <3>1, <3>4, <3>5, MoveType
  <2>2. WorkersOK'
    BY <1>1, <2>0, <2>1, RejectType
  <2> QED BY <1>1, <1>4, <2>2, TypeParts DEF UploadImage, TableOK
<1>5. CASE ImagesDone(w)
  <2>1. WorkersOK'
    BY <1>1, <1>5, GotoType DEF ImagesDone
  <2> QED BY <1>1, <1>5, <2>1, TypeParts DEF ImagesDone, TableOK
<1>6. CASE RefuseImage(w)
  <2>1. WorkersOK'
    BY <1>1, <1>6, VerdictType DEF RefuseImage
  <2>2. events' \in 0..MaxEvents
    BY <1>1, <1>6 DEF RefuseImage, Event, TableOK, Bounds
  <2> QED BY <1>1, <1>6, <2>1, <2>2, TypeParts DEF RefuseImage, TableOK
<1> QED BY <1>3, <1>4, <1>5, <1>6 DEF Attach

LEMMA DeliverType ==
  ASSUME TypeInv, Bounds, NEW w \in Workers,
         Prepare(w) \/ LookUpFile(w) \/ Deliver(w) \/ StaleSha(w) \/ SendExtra(w)
  PROVE  TypeInv'
<1> USE DEF Steps
<1>1. WorkersOK /\ TableOK /\ worker[w] \in Job /\ LocalsSet(kind, worker[w])
  BY TypeParts DEF WorkersOK
<1>2. ASSUME Event PROVE events' \in 0..MaxEvents
  BY <1>1, <1>2 DEF Event, TableOK, Bounds
<1>3. CASE Prepare(w)
  <2>1. UNCHANGED kind /\ (Verdict(w, "refused") \/ Verdict(w, "failed"))
    BY <1>3 DEF Prepare
  <2>2. WorkersOK'
    BY <1>1, <2>1, VerdictType
  <2>3. TableOK'
    BY <1>1, <1>2, <1>3 DEF Prepare, TableOK
  <2> QED BY <2>2, <2>3, TypeParts
<1>4. CASE LookUpFile(w)
  <2> DEFINE j == [worker[w] EXCEPT !.pc = "guard", !.sha = server.file]
  <2>1. /\ UNCHANGED kind
        /\ worker' = [worker EXCEPT ![w] = j] \/ Verdict(w, "refused") \/ Verdict(w, "failed")
    BY <1>4 DEF LookUpFile
  <2>2. j \in Job /\ j.pc = "guard" /\ j.image = worker[w].image
    BY <1>1 DEF Job, TableOK, Server
  <2> HIDE DEF j
  <2>3. LocalsSet(kind, j)
    BY <1>1, <2>2 DEF LocalsSet
  <2>4. WorkersOK'
    BY <1>1, <2>1, <2>2, <2>3, MoveType, VerdictType
  <2>5. events' \in 0..MaxEvents /\ harm' \in BOOLEAN
    BY <1>1, <1>2, <1>4 DEF LookUpFile, TableOK
  <2>6. TableOK'
    BY <1>1, <1>4, <2>5 DEF LookUpFile, TableOK
  <2> QED BY <2>4, <2>6, TypeParts
<1>5. CASE Guard(w)
  <2>1. UNCHANGED kind /\ (Goto(w, "send") \/ Goto(w, "idle"))
    BY <1>5 DEF Guard
  <2>2. WorkersOK'
    BY <1>1, <2>1, GotoType
  <2> QED BY <1>1, <1>5, <2>2, TypeParts DEF Guard, TableOK
<1>6. CASE Send(w)
  <2>1. UNCHANGED kind /\ (Goto(w, "extra") \/ Verdict(w, "success") \/ Verdict(w, "failed"))
    BY <1>6 DEF Send
  <2>2. WorkersOK'
    BY <1>1, <2>1, GotoType, VerdictType
  <2>3. posts' \in Seq(Post)
    <3> DEFINE post == [images |-> worker[w].images, skipped |-> worker[w].skipped]
    <3>1. post \in Post
      BY <1>1 DEF Job, Post
    <3>2. posts' = posts \/ posts' = Append(posts, post)
      BY <1>6 DEF Send, Publish
    <3> HIDE DEF post
    <3> QED BY <1>1, <3>1, <3>2 DEF TableOK
  <2>4. server' \in Server
    BY <1>1, <1>6 DEF Send, Publish, TableOK, Server
  <2>5. events' \in 0..MaxEvents /\ excuses' \in Nat
    BY <1>1, <1>2, <1>6 DEF Send, TableOK
  <2>6. TableOK'
    BY <1>1, <1>6, <2>3, <2>4, <2>5 DEF Send, TableOK
  <2> QED BY <2>2, <2>6, TypeParts
<1>7. CASE Refuse(w) \/ StaleSha(w)
  <2>1. UNCHANGED kind /\ (Verdict(w, "refused") \/ Verdict(w, "failed"))
    BY <1>7 DEF Refuse, StaleSha
  <2>2. WorkersOK'
    BY <1>1, <2>1, VerdictType
  <2>3. events' \in 0..MaxEvents /\ harm' \in BOOLEAN
    BY <1>1, <1>2, <1>7 DEF Refuse, StaleSha, TableOK
  <2>4. TableOK'
    BY <1>1, <1>7, <2>3 DEF Refuse, StaleSha, TableOK
  <2> QED BY <2>2, <2>4, TypeParts
<1>8. CASE SendExtra(w)
  <2>1. WorkersOK'
    BY <1>1, <1>8, VerdictType DEF SendExtra
  <2> QED BY <1>1, <1>8, <2>1, TypeParts DEF SendExtra, TableOK
<1> QED BY <1>3, <1>4, <1>5, <1>6, <1>7, <1>8 DEF Deliver

LEMMA EndType ==
  ASSUME TypeInv, Bounds, NEW w \in Workers, Settle(w) \/ Crash(w)
  PROVE  TypeInv'
<1>1. WorkersOK /\ TableOK /\ worker' = [worker EXCEPT ![w] = Idle] /\ UNCHANGED kind
  BY TypeParts DEF Settle, Crash
<1>2. WorkersOK'
  BY <1>1, IdleType, MoveType
<1>3. CASE Settle(w)
  <2>1. row' \in Row
    BY <1>1, <1>3, FinalizeRowType, FailRowType DEF Settle, TableOK, Statuses
  <2> QED BY <1>1, <1>2, <1>3, <2>1, TypeParts DEF Settle, TableOK
<1>4. CASE Crash(w)
  <2>1. events' \in 0..MaxEvents /\ excuses' \in Nat
    BY <1>1, <1>4 DEF Crash, Event, TableOK, Bounds
  <2> QED BY <1>1, <1>2, <1>4, <2>1, TypeParts DEF Crash, TableOK
<1> QED BY <1>3, <1>4

World == Tick \/ ExpireSession \/ RevokePassword \/ Reconnect \/ DeleteAccount \/ Forget \/ Commit

LEMMA ServerType ==
  ASSUME NEW sv \in Server
  PROVE  /\ [sv EXCEPT !.forgot = TRUE] \in Server
         /\ [sv EXCEPT !.file = sv.file + 1] \in Server
         /\ [sv EXCEPT !.password = 1, !.access = {}, !.refresh = {}] \in Server
<1>1. [sv EXCEPT !.forgot = TRUE] \in Server
  BY DEF Server
<1>2. [sv EXCEPT !.file = sv.file + 1] \in Server
  BY DEF Server
<1>3. [sv EXCEPT !.password = 1] \in Server
  BY DEF Server
<1>4. \A t \in Server : [t EXCEPT !.access = {}] \in Server
  BY DEF Server
<1>5. \A t \in Server : [t EXCEPT !.refresh = {}] \in Server
  BY DEF Server
<1> QED BY <1>1, <1>2, <1>3, <1>4, <1>5

LEMMA WorldType ==
  ASSUME TypeInv, Bounds, World
  PROVE  TypeInv'
<1>1. WorkersOK /\ TableOK
  BY TypeParts
<1>2. UNCHANGED <<kind, worker, posts, claims, excuses>>
  BY DEF World, Tick, ExpireSession, RevokePassword, Reconnect, DeleteAccount, Forget, Commit
<1>3. WorkersOK'
  BY <1>1, <1>2 DEF WorkersOK
<1>4. ASSUME Event PROVE events' \in 0..MaxEvents
  BY <1>1, <1>4 DEF Event, TableOK, Bounds
<1>5. CASE Tick
  BY <1>1, <1>2, <1>3, <1>5, AgeRowType, TypeParts DEF Tick, TableOK
<1>6. CASE ExpireSession
  <2>1. events' \in 0..MaxEvents /\ harm' \in BOOLEAN
    BY <1>1, <1>4, <1>6 DEF ExpireSession, TableOK
  <2>2. server' \in Server /\ account' \in Account
    BY <1>1, <1>6 DEF ExpireSession, TableOK, Server, Account
  <2> QED BY <1>1, <1>2, <1>3, <1>6, <2>1, <2>2, TypeParts DEF ExpireSession, TableOK
<1>7. CASE RevokePassword
  <2>1. server' \in Server
    <3>1. server \in Server
      BY <1>1 DEF TableOK
    <3>2. server' = [[[server EXCEPT !.password = 1] EXCEPT !.access = {}] EXCEPT !.refresh = {}]
      BY <1>7 DEF RevokePassword
    <3> QED BY <3>1, <3>2, ServerType
  <2> QED BY <1>1, <1>2, <1>3, <1>4, <1>7, <2>1, TypeParts DEF RevokePassword, TableOK
<1>8. CASE Reconnect
  <2>1. server' \in Server
    BY <1>8, SessionType DEF Reconnect
  <2>2. account' \in Account
    BY <1>1, <1>8, SessionType DEF Reconnect, TableOK, Server, Account
  <2> QED BY <1>1, <1>2, <1>3, <1>4, <1>8, <2>1, <2>2, TypeParts DEF Reconnect, TableOK
<1>9. CASE DeleteAccount
  <2>1. account' \in Account
    BY <1>1, <1>9 DEF DeleteAccount, TableOK, Account
  <2> QED BY <1>1, <1>2, <1>3, <1>4, <1>9, <2>1, TypeParts DEF DeleteAccount, TableOK
<1>10. CASE Forget \/ Commit
  <2>1. server' \in Server /\ harm' \in BOOLEAN /\ Event /\ UNCHANGED <<row, account>>
    <3>1. server \in Server /\ harm \in BOOLEAN
      BY <1>1 DEF TableOK
    <3>2. \/ server' = [server EXCEPT !.forgot = TRUE]
          \/ server' = [server EXCEPT !.file = server.file + 1]
      BY <1>10 DEF Forget, Commit
    <3>3. server' \in Server
      BY <3>1, <3>2, ServerType
    <3> QED BY <1>10, <3>1, <3>3 DEF Forget, Commit
  <2> QED BY <1>1, <1>2, <1>3, <1>4, <2>1, TypeParts DEF TableOK
<1> QED BY <1>5, <1>6, <1>7, <1>8, <1>9, <1>10 DEF World

\* What a step is: GitHub's two steps happen for that kind only.
LEMMA StepCases ==
  ASSUME Next
  PROVE  \/ \E w \in Workers :
              \/ Claim(w) \/ FindAccount(w) \/ Prepare(w) \/ OpenSession(w) \/ Reauth(w)
              \/ Attach(w) \/ RefuseImage(w) \/ Deliver(w) \/ SendExtra(w)
              \/ kind = "github" /\ (LookUpFile(w) \/ StaleSha(w))
              \/ Settle(w) \/ Crash(w)
         \/ World
BY DEF Next, World, Dispatch, SendMastodon, SendEmail, SendBluesky, SendMicroblog, SendMatrix,
       SendDiscord, SendTelegram, SendWebhook, SendGitHub

LEMMA TypeStep == Bounds /\ TypeInv /\ [Next]_vars => TypeInv'
<1> SUFFICES ASSUME Bounds, TypeInv, [Next]_vars PROVE TypeInv'
  OBVIOUS
<1>1. CASE UNCHANGED vars
  BY <1>1, TypeParts DEF vars, TableOK, WorkersOK
<1>2. CASE Next
  BY <1>2, StepCases, ClaimType, FindAccountType, SessionStepType, ReauthType, AttachType,
     DeliverType, EndType, WorldType DEF OpenSession, Reauth
<1> QED BY <1>1, <1>2

LEMMA TypeInit == Bounds /\ Init => TypeInv
<1> SUFFICES ASSUME Bounds, Init PROVE TypeInv
  OBVIOUS
<1>1. row \in Row
  BY AttemptAssumption DEF Init, Absent, Row, Statuses
<1>2. WorkersOK
  BY IdleType DEF Init, WorkersOK
<1>3. posts \in Seq(Post)
  BY DEF Init
<1>4. server \in Server /\ account \in Account
  BY DEF Init, Server, Account, Bounds, Sessions
<1>5. TableOK
  <2>1. 0 \in 0..MaxClaims /\ 0 \in 0..MaxEvents
    BY DEF Bounds
  <2> QED BY <1>1, <1>3, <1>4, <2>1 DEF Init, TableOK
<1> QED BY <1>2, <1>5, TypeParts

-----------------------------------------------------------------------------
(* Images.                                                                 *)

Others(w) == \A v \in Workers \ {w} : worker'[v] = worker[v]

\* What w has taken of the images stays as it is.
Keeps(w) == /\ worker'[w].images = worker[w].images /\ worker'[w].skipped = worker[w].skipped
            /\ worker'[w].image = worker[w].image
            /\ AllTaken(worker'[w]) => AllTaken(worker[w]) \/ worker[w].image = ImagesOf(kind)

LEMMA WholeEmpty == Whole(<<>>, {}, 0)
BY DEF Whole

LEMMA WholeSkip ==
  ASSUME NEW s, NEW sk, NEW n \in Nat, Whole(s, sk, n)
  PROVE  Whole(s, sk \cup {n + 1}, n + 1)
<1>1. 1..(n + 1) = (1..n) \cup {n + 1} /\ n + 1 \notin 1..n
  OBVIOUS
<1>2. (1..(n + 1)) \ (sk \cup {n + 1}) = (1..n) \ sk
  BY <1>1
<1>3. sk \cup {n + 1} \subseteq 1..(n + 1)
  BY <1>1 DEF Whole
<1> QED BY <1>2, <1>3 DEF Whole

LEMMA WholeTake ==
  ASSUME NEW s \in Seq(Images), NEW sk, NEW n \in Nat, n + 1 \in Images, Whole(s, sk, n)
  PROVE  Whole(Append(s, n + 1), sk, n + 1)
<1> DEFINE t == Append(s, n + 1)
<1>1. /\ Len(t) = Len(s) + 1 /\ Len(s) \in Nat /\ t[Len(s) + 1] = n + 1
      /\ \A i \in 1..Len(s) : t[i] = s[i]
  OBVIOUS
<1> HIDE DEF t
<1>2. \A i \in 1..Len(s) : s[i] \in 1..n
  BY DEF Whole
<1>3. ASSUME NEW i \in 1..Len(t), NEW j \in 1..Len(t), i < j PROVE t[i] < t[j]
  <2>1. CASE j \in 1..Len(s)
    BY <1>1, <1>3, <2>1 DEF Whole
  <2>2. CASE j = Len(s) + 1
    <3>1. i \in 1..Len(s)
      BY <1>1, <1>3, <2>2
    <3> QED BY <1>1, <1>2, <2>2, <3>1
  <2> QED BY <1>1, <2>1, <2>2
<1>4. {t[i] : i \in 1..Len(t)} = {s[i] : i \in 1..Len(s)} \cup {n + 1}
  <2>1. 1..Len(t) = (1..Len(s)) \cup {Len(s) + 1}
    BY <1>1
  <2> QED BY <1>1, <2>1
<1>5. {t[i] : i \in 1..Len(t)} = (1..(n + 1)) \ sk
  <2>1. {s[i] : i \in 1..Len(s)} = (1..n) \ sk /\ sk \subseteq 1..n
    BY DEF Whole
  <2> HIDE DEF Whole
  <2>2. n + 1 \notin sk /\ 1..(n + 1) = (1..n) \cup {n + 1}
    BY <2>1
  <2> QED BY <1>4, <2>1, <2>2
<1>6. sk \subseteq 1..(n + 1)
  BY DEF Whole
<1>7. \A i, j \in 1..Len(t) : i < j => t[i] < t[j]
  BY <1>3
<1> QED BY <1>5, <1>6, <1>7 DEF Whole, t

\* The steps that neither start nor end a dispatch, nor take or skip an image.
LEMMA KeepsSteps ==
  ASSUME TypeInv, Bounds, NEW w \in Workers,
         \/ FindAccount(w) \/ Prepare(w) \/ OpenSession(w) \/ Reauth(w) \/ ImagesDone(w)
         \/ RefuseImage(w) \/ Deliver(w) \/ SendExtra(w)
         \/ kind = "github" /\ (LookUpFile(w) \/ StaleSha(w))
         \/ At(w, "images") /\ Reject(w)
  PROVE  Others(w) /\ Keeps(w)
<1>1. worker \in [Workers -> Job] /\ worker[w] \in Job /\ LocalsSet(kind, worker[w])
  BY DEF TypeInv, TypeOK
<1>2. ASSUME NEW v, Verdict(w, v) PROVE Others(w) /\ Keeps(w)
  BY <1>1, <1>2 DEF Verdict, Others, Keeps, AllTaken, Job
<1>3. ASSUME NEW p, Goto(w, p), 
             p \in {"idle", "images", "extra", "settle"} \/ AllTaken(worker[w])
             \/ worker[w].image = ImagesOf(kind)
      PROVE  Others(w) /\ Keeps(w)
  BY <1>1, <1>3 DEF Goto, Others, Keeps, AllTaken, Job
<1>4. CASE FindAccount(w)
  <2>1. CASE ~ account.there
    BY <1>2, <1>4, <2>1 DEF FindAccount
  <2>2. CASE account.there
    <3> DEFINE b == worker'[w]
    <3>1. /\ Others(w) /\ b.images = worker[w].images /\ b.skipped = worker[w].skipped
          /\ b.image = worker[w].image
          /\ b.pc = FirstStep
      BY <1>1, <1>4, <2>2 DEF FindAccount, Others, Job
    <3>2. worker[w].image = 0
      BY <1>1, <1>4 DEF FindAccount, At, LocalsSet
    <3> QED BY <3>1, <3>2 DEF Keeps, AllTaken, FirstStep
  <2> QED BY <2>1, <2>2
<1>5. CASE Prepare(w) \/ RefuseImage(w) \/ SendExtra(w) \/ StaleSha(w) \/ Refuse(w)
  BY <1>2, <1>5 DEF Prepare, RefuseImage, SendExtra, StaleSha, Refuse
<1>6. CASE UseCachedSession(w) \/ ImagesDone(w) \/ Guard(w)
  <2>1. CASE UseCachedSession(w)
    BY <1>3, <2>1 DEF UseCachedSession, Goto
  <2>2. CASE ImagesDone(w)
    BY <1>3, <2>2 DEF ImagesDone, Done
  <2>3. CASE Guard(w)
    BY <1>3, <2>3 DEF Guard, At, AllTaken
  <2> QED BY <1>6, <2>1, <2>2, <2>3
<1>7. CASE StoreSession(w)
  <2>1. CASE At(w, "store")
    BY <1>3, <1>7, <2>1 DEF StoreSession
  <2>2. CASE worker[w].pc = "restore"
    BY <1>1, <1>3, <1>7, <2>2 DEF StoreSession, At, AllTaken, LocalsSet, Job
  <2> QED BY <1>7, <2>1, <2>2 DEF StoreSession, At
<1>8. CASE Refresh(w) \/ Login(w)
  <2>1. \/ Verdict(w, "failed")
        \/ worker' = [worker EXCEPT ![w].pc = "store", ![w].session = server.last + 1]
    BY <1>8 DEF Refresh, Login
  <2>2. CASE worker' = [worker EXCEPT ![w].pc = "store", ![w].session = server.last + 1]
    BY <1>1, <2>2 DEF Others, Keeps, AllTaken, Job
  <2> QED BY <1>2, <2>1, <2>2
<1>9. ASSUME Reject(w), At(w, "images") \/ At(w, "send") PROVE Others(w) /\ Keeps(w)
  <2>1. CASE worker[w].again # worker[w].pc
    BY <1>1, <1>9, <2>1 DEF Reject, Others, Keeps, AllTaken, Job, At
  <2>2. CASE worker[w].again = worker[w].pc
    BY <1>2, <1>9, <2>2 DEF Reject
  <2> QED BY <2>1, <2>2
<1>10. CASE SessionRejected(w)
  BY <1>9, <1>10 DEF SessionRejected
<1>11. CASE Reread(w)
  <2>1. \/ Verdict(w, "refused")
        \/ worker' = [worker EXCEPT ![w].pc = "login", ![w].password = account.password]
    BY <1>11 DEF Reread
  <2>2. CASE worker' = [worker EXCEPT ![w].pc = "login", ![w].password = account.password]
    BY <1>1, <1>11, <2>2 DEF Others, Keeps, AllTaken, Job, Reread, At
  <2> QED BY <1>2, <2>1, <2>2
<1>12. CASE Relogin(w)
  <2>1. \/ Verdict(w, "refused")
        \/ Verdict(w, "failed")
        \/ worker' = [worker EXCEPT ![w].pc = "restore", ![w].session = server.last + 1]
    BY <1>12 DEF Relogin
  <2>2. CASE worker' = [worker EXCEPT ![w].pc = "restore", ![w].session = server.last + 1]
    BY <1>1, <1>12, <2>2 DEF Others, Keeps, AllTaken, Job, Relogin, At
  <2> QED BY <1>2, <2>1, <2>2
<1>13. CASE Send(w)
  <2>1. Goto(w, "extra") \/ Verdict(w, "success") \/ Verdict(w, "failed")
    BY <1>13 DEF Send
  <2> QED BY <1>2, <1>3, <2>1
<1>14. CASE kind = "github" /\ LookUpFile(w)
  <2>1. \/ Verdict(w, "refused")
        \/ Verdict(w, "failed")
        \/ worker' = [worker EXCEPT ![w].pc = "guard", ![w].sha = server.file]
    BY <1>14 DEF LookUpFile
  <2>2. CASE worker' = [worker EXCEPT ![w].pc = "guard", ![w].sha = server.file]
    <3>1. worker[w].image = 0 /\ ImagesOf(kind) = 0
      BY <1>1, <1>14, ImagesOfType DEF LookUpFile, At, LocalsSet
    <3> QED BY <1>1, <2>2, <3>1 DEF Others, Keeps, Job
  <2> QED BY <1>2, <2>1, <2>2
<1> QED BY <1>4, <1>5, <1>6, <1>7, <1>8, <1>9, <1>10, <1>11, <1>12, <1>13, <1>14
        DEF OpenSession, Reauth, Deliver

LEMMA ImagesKept ==
  ASSUME ImagesInv, NEW w \in Workers, Others(w), UNCHANGED <<kind, posts>>,
         Whole(worker'[w].images, worker'[w].skipped, worker'[w].image),
         AllTaken(worker'[w]) => worker'[w].image = ImagesOf(kind)
  PROVE  ImagesInv'
<1>1. \A v \in Workers : /\ Whole(worker'[v].images, worker'[v].skipped, worker'[v].image)
                         /\ AllTaken(worker'[v]) => worker'[v].image = ImagesOf(kind)
  BY DEF Others, ImagesInv
<1>2. kind' = kind /\ posts' = posts
  OBVIOUS
<1> QED BY <1>1, <1>2 DEF ImagesInv

\* Only Send adds a post, with all the images.
LEMMA ImagesWorker ==
  ASSUME TypeInv, Bounds, ImagesInv, NEW w \in Workers,
         \/ Claim(w) \/ FindAccount(w) \/ Prepare(w) \/ OpenSession(w) \/ Reauth(w)
         \/ Attach(w) \/ RefuseImage(w) \/ Deliver(w) \/ SendExtra(w)
         \/ kind = "github" /\ (LookUpFile(w) \/ StaleSha(w))
         \/ Settle(w) \/ Crash(w)
  PROVE  ImagesInv'
<1>1. worker \in [Workers -> Job] /\ worker[w] \in Job
  BY DEF TypeInv, TypeOK
<1>2. /\ Whole(worker[w].images, worker[w].skipped, worker[w].image)
      /\ AllTaken(worker[w]) => worker[w].image = ImagesOf(kind)
  BY DEF ImagesInv
<1>3. ASSUME Keeps(w), Others(w), UNCHANGED <<kind, posts>> PROVE ImagesInv'
  BY <1>2, <1>3, ImagesKept DEF Keeps
<1>4. ASSUME NEW p \in {"account", "idle"}, worker' = [worker EXCEPT ![w] = [Idle EXCEPT !.pc = p]],
             UNCHANGED <<kind, posts>>
      PROVE  ImagesInv'
  <2>1. /\ Others(w) /\ worker'[w].images = <<>> /\ worker'[w].skipped = {} /\ worker'[w].image = 0
        /\ ~ AllTaken(worker'[w])
    BY <1>1, <1>4 DEF Others, Idle, AllTaken
  <2> QED BY <1>4, <2>1, WholeEmpty, ImagesKept
<1>5. CASE Claim(w) \/ Settle(w) \/ Crash(w)
  <2>1. [Idle EXCEPT !.pc = "idle"] = Idle
    BY DEF Idle
  <2> QED BY <1>4, <1>5, <2>1 DEF Claim, Settle, Crash
<1>6. CASE SkipImage(w)
  <2>1. /\ Others(w) /\ worker'[w].images = worker[w].images /\ worker'[w].pc = "images"
        /\ worker'[w].skipped = worker[w].skipped \cup {worker[w].image + 1}
        /\ worker'[w].image = worker[w].image + 1 /\ UNCHANGED <<kind, posts>>
    BY <1>1, <1>6 DEF SkipImage, Others, Done, At, Job
  <2>2. worker[w].image \in Nat
    BY <1>1 DEF Job, Bounds
  <2>3. ~ AllTaken(worker'[w])
    BY <2>1 DEF AllTaken
  <2> QED BY <1>2, <2>1, <2>2, <2>3, WholeSkip, ImagesKept
<1>7. CASE UploadImage(w)
  <2>1. UNCHANGED <<kind, posts>> /\ At(w, "images") /\ (worker' = Take(w) \/ Reject(w))
    BY <1>7 DEF UploadImage
  <2>2. CASE worker' = Take(w)
    <3>1. /\ Others(w) /\ worker'[w].images = Append(worker[w].images, worker[w].image + 1)
          /\ worker'[w].skipped = worker[w].skipped /\ worker'[w].pc = "images"
          /\ worker'[w].image = worker[w].image + 1
      BY <1>1, <2>1, <2>2 DEF Take, Others, Done, At, Job
    <3>2. worker[w].image \in Nat /\ worker[w].image + 1 \in Images /\ worker[w].images \in Seq(Images)
      <4>1. worker[w].image < ImagesOf(kind)
        BY <1>7 DEF UploadImage, Done
      <4> QED BY <1>1, <4>1, ImagesOfType DEF Job, Images, Bounds
    <3>3. ~ AllTaken(worker'[w])
      BY <3>1 DEF AllTaken
    <3> QED BY <1>2, <2>1, <3>1, <3>2, <3>3, WholeTake, ImagesKept
  <2>3. CASE Reject(w)
    BY <1>3, <2>1, <2>3, KeepsSteps
  <2> QED BY <2>1, <2>2, <2>3
<1>8. CASE Send(w)
  <2> DEFINE post == [images |-> worker[w].images, skipped |-> worker[w].skipped]
  <2>1. Others(w) /\ Keeps(w) /\ UNCHANGED kind
    BY <1>8, KeepsSteps DEF Deliver, Send
  <2>2. worker[w].image = ImagesOf(kind)
    BY <1>2, <1>8 DEF Send, At, AllTaken
  <2>3. \A v \in Workers : /\ Whole(worker'[v].images, worker'[v].skipped, worker'[v].image)
                           /\ AllTaken(worker'[v]) => worker'[v].image = ImagesOf(kind)
    BY <1>2, <2>1 DEF Others, Keeps, ImagesInv
  <2>4. Whole(post.images, post.skipped, ImagesOf(kind))
    BY <1>2, <2>2
  <2>5. posts' = posts \/ posts' = Append(posts, post)
    BY <1>8 DEF Send, Publish
  <2> HIDE DEF post
  <2>6. posts \in Seq(Post)
    BY DEF TypeInv, TypeOK
  <2>7. \A k \in 1..Len(posts') : posts'[k] = post \/ (k \in 1..Len(posts) /\ posts'[k] = posts[k])
    BY <2>5, <2>6
  <2>8. \A k \in 1..Len(posts') : Whole(posts'[k].images, posts'[k].skipped, ImagesOf(kind))
    BY <2>4, <2>7 DEF ImagesInv
  <2> QED BY <2>1, <2>3, <2>8 DEF ImagesInv
<1>9. ASSUME \/ FindAccount(w) \/ Prepare(w) \/ OpenSession(w) \/ Reauth(w) \/ ImagesDone(w)
             \/ RefuseImage(w) \/ Guard(w) \/ Refuse(w) \/ SendExtra(w)
             \/ kind = "github" /\ (LookUpFile(w) \/ StaleSha(w))
      PROVE  ImagesInv'
  <2>1. UNCHANGED <<kind, posts>>
    BY <1>9 DEF FindAccount, Prepare, OpenSession, UseCachedSession, Refresh, Login, StoreSession,
       Reauth, SessionRejected, Reread, Relogin, ImagesDone, RefuseImage, Guard, Refuse, SendExtra,
       LookUpFile, StaleSha
  <2>2. Others(w) /\ Keeps(w)
    BY <1>9, KeepsSteps DEF Deliver
  <2> QED BY <1>3, <2>1, <2>2
<1> QED BY <1>5, <1>6, <1>7, <1>8, <1>9 DEF Attach, Deliver

LEMMA ImagesStep == Bounds /\ TypeInv /\ ImagesInv /\ [Next]_vars => ImagesInv'
<1> SUFFICES ASSUME Bounds, TypeInv, ImagesInv, [Next]_vars PROVE ImagesInv'
  OBVIOUS
<1>1. ASSUME UNCHANGED <<kind, worker, posts>> PROVE ImagesInv'
  BY <1>1 DEF ImagesInv
<1>2. CASE UNCHANGED vars
  BY <1>1, <1>2 DEF vars
<1>3. CASE World
  BY <1>1, <1>3 DEF World, Tick, ExpireSession, RevokePassword, Reconnect, DeleteAccount, Forget, Commit
<1>4. CASE Next
  BY <1>3, <1>4, StepCases, ImagesWorker
<1> QED BY <1>2, <1>4

LEMMA ImagesInit == Init => ImagesInv
<1> SUFFICES ASSUME Init PROVE ImagesInv
  OBVIOUS
<1>1. \A w \in Workers : worker[w] = Idle
  BY DEF Init
<1>2. Idle.images = <<>> /\ Idle.skipped = {} /\ Idle.image = 0 /\ ~ AllTaken(Idle)
  BY DEF Idle, AllTaken
<1>3. Len(posts) = 0
  BY DEF Init
<1>4. \A w \in Workers : /\ Whole(worker[w].images, worker[w].skipped, worker[w].image)
                         /\ ~ AllTaken(worker[w])
  BY <1>1, <1>2, WholeEmpty
<1>5. 1..Len(posts) = {}
  BY <1>3
<1> QED BY <1>4, <1>5 DEF ImagesInv

\* Every post shows the images that could be had, once and in order, whatever sessions are
\* rejected in the middle of the uploads (_bsky_call_with_reauth) and for any number of images.
THEOREM ImagesArrive ==
  ASSUME Bounds
  PROVE  Spec => []PostsAreWhole
<1>1. ImagesInv => PostsAreWhole
  BY DEF ImagesInv, Whole, PostsAreWhole
<1> QED BY <1>1, TypeInit, TypeStep, ImagesInit, ImagesStep, PTL DEF Spec

-----------------------------------------------------------------------------
(* Giving up.                                                              *)

\* Harm and excuses are for ever: who is clean after a step was clean before it.
LEMMA CleanBefore ==
  ASSUME TypeInv, Bounds, Next, Clean'
  PROVE  Clean /\ UNCHANGED <<harm, excuses>>
<1>1. harm \in BOOLEAN /\ excuses \in Nat
  BY DEF TypeInv, TypeOK
<1>2. harm' = FALSE /\ excuses' = 0
  <2>1. harm' \in BOOLEAN
    BY TypeStep DEF TypeInv, TypeOK
  <2> QED BY <2>1 DEF Clean
<1>3. (harm => harm') /\ excuses' >= excuses
  <2>1. CASE World
    BY <1>1, <2>1 DEF World, Tick, ExpireSession, RevokePassword, Reconnect, DeleteAccount, Forget, Commit
  <2>2. ASSUME NEW w \in Workers, Claim(w) \/ FindAccount(w) \/ Prepare(w) \/ OpenSession(w) \/ Reauth(w)
        PROVE  (harm => harm') /\ excuses' >= excuses
    BY <1>1, <2>2 DEF Claim, FindAccount, Prepare, OpenSession, UseCachedSession, Refresh, Login,
       StoreSession, Reauth, SessionRejected, Reread, Relogin
  <2>3. ASSUME NEW w \in Workers, Attach(w) \/ RefuseImage(w) \/ Deliver(w) \/ SendExtra(w)
        PROVE  (harm => harm') /\ excuses' >= excuses
    BY <1>1, <2>3 DEF Attach, SkipImage, UploadImage, ImagesDone, RefuseImage, Deliver, Guard, Send,
       Refuse, SendExtra
  <2>4. ASSUME NEW w \in Workers, LookUpFile(w) \/ StaleSha(w) \/ Settle(w) \/ Crash(w)
        PROVE  (harm => harm') /\ excuses' >= excuses
    <3>1. excuses' = excuses \/ excuses' = excuses + 1
      <4>1. CASE LookUpFile(w) \/ StaleSha(w) \/ Settle(w)
        BY <4>1 DEF LookUpFile, StaleSha, Settle
      <4>2. CASE Crash(w)
        BY <1>1, <4>2 DEF Crash
      <4> QED BY <2>4, <4>1, <4>2
    <3>2. harm => harm'
      BY <2>4 DEF LookUpFile, StaleSha, Settle, Crash
    <3> QED BY <1>1, <3>1, <3>2
  <2> QED BY <2>1, <2>2, <2>3, <2>4, StepCases
<1>4. excuses = 0
  BY <1>1, <1>2, <1>3
<1> QED BY <1>1, <1>2, <1>3, <1>4 DEF Clean

\* The parts of CauseInv, and those of a step that leaves all but w's dispatch alone.
Tried    == row.status = "gave_up" => MaxAttempts > 0 /\ row.attempts >= MaxAttempts
Standing == account.there /\ account.password = 0 /\ server.password = 0

Dispatched(w) ==
  /\ Others(w)
  /\ UNCHANGED <<kind, row>>
  /\ server.access \subseteq server'.access /\ server'.file = server.file

LEMMA OthersClean ==
  ASSUME NEW w \in Workers, Dispatched(w), NEW v \in Workers, v # w, CleanWorker(v)
  PROVE  CleanWorker(v)'
<1>1. worker'[v] = worker[v]
  BY DEF Dispatched, Others
<1>2. Sending(v)' <=> Sending(v)
  BY <1>1 DEF Sending, At
<1>3. Owns(row, v)' <=> Owns(row, v)
  BY DEF Dispatched, Owns
<1>4. Alive(v) => Alive(v)'
  BY <1>1 DEF Dispatched, Alive
<1>5. At(v, "settle")' <=> At(v, "settle")
  BY <1>1 DEF At
<1>6. server'.file = server.file /\ kind' = kind
  BY DEF Dispatched
<1> QED BY <1>1, <1>2, <1>3, <1>4, <1>5, <1>6 DEF CleanWorker

LEMMA DispatchedClean ==
  ASSUME Clean, CauseInv, NEW w \in Workers, Dispatched(w), CleanWorker(w)', Standing'
  PROVE  CauseInv'
<1>1. Tried /\ \A v \in Workers : CleanWorker(v)
  BY DEF CauseInv, Tried
<1>2. \A v \in Workers : CleanWorker(v)'
  BY <1>1, OthersClean
<1>3. Tried'
  BY <1>1 DEF Dispatched, Tried
<1> QED BY <1>2, <1>3 DEF CauseInv, Tried, Standing

\* A dispatch that goes on to a step where nothing but its password and its claim count.
LEMMA GoesOn ==
  ASSUME NEW w \in Workers, worker'[w].password = 0,
         ~ AllTaken(worker'[w]), worker'[w].pc \notin {"restore", "images", "settle"}
  PROVE  CleanWorker(w)'
<1>1. worker'[w].pc \notin {"guard", "send"} /\ ~ (worker'[w].pc \in {"reread", "login"} /\ worker'[w].again = "send")
  BY DEF AllTaken
<1> QED BY <1>1 DEF CleanWorker, Sending, At

LEMMA EndsClean ==
  ASSUME NEW w \in Workers, worker'[w].password = 0, worker'[w].pc = "settle",
         worker'[w].verdict \in {"success", "failed"}
  PROVE  CleanWorker(w)'
BY DEF CleanWorker, Sending, At

\* While nothing has gone wrong for good, a reply that no retry can change is harm.
LEMMA HopelessHarms ==
  ASSUME NEW reply \in Hopeless(kind)
  PROVE  reply \in {"400", "401", "403", "404", "409", "410"}
BY DEF Hopeless, MastodonRefuses, MicroblogRefuses, MatrixRefuses, DiscordRefuses, TelegramRefuses,
       WebhookRefuses, GitHubRefuses

LEMMA CauseSession ==
  ASSUME TypeInv, Bounds, Clean, Clean', UNCHANGED <<harm, excuses>>, CauseInv, NEW w \in Workers,
         FindAccount(w) \/ Prepare(w) \/ OpenSession(w) \/ Reauth(w)
  PROVE  CauseInv'
<1>1. worker \in [Workers -> Job] /\ worker[w] \in Job /\ LocalsSet(kind, worker[w])
  BY DEF TypeInv, TypeOK
<1>2. CleanWorker(w) /\ Standing /\ worker[w].password = 0 /\ harm' = FALSE
  <2>1. harm' \in BOOLEAN
    BY DEF TypeInv, TypeOK
  <2> QED BY <2>1 DEF CauseInv, CleanWorker, Standing, Clean
<1>3. Others(w) /\ UNCHANGED <<kind, row>>
  BY KeepsSteps DEF FindAccount, Prepare, OpenSession, UseCachedSession, Refresh, Login, StoreSession,
     Reauth, SessionRejected, Reread, Relogin
<1>4. ASSUME UNCHANGED server \/ server' = Opened(server) \/
             server' = [Opened(server) EXCEPT !.refresh = Opened(server).refresh \ {worker[w].session}]
      PROVE  Dispatched(w) /\ server'.password = server.password
  <2>1. server \in Server
    BY DEF TypeInv, TypeOK
  <2> QED BY <1>3, <1>4, <2>1 DEF Dispatched, Opened, Server
<1>5. ASSUME NEW v \in {"success", "failed"}, Verdict(w, v) PROVE CleanWorker(w)'
  <2>1. worker'[w].password = 0 /\ worker'[w].pc = "settle" /\ worker'[w].verdict \in {"success", "failed"}
    BY <1>1, <1>2, <1>5 DEF Verdict, Job
  <2> QED BY <2>1, EndsClean
<1>6. CASE FindAccount(w)
  <2>1. /\ worker'[w].password = 0 /\ worker'[w].again = worker[w].again
        /\ worker'[w].pc = FirstStep
    BY <1>1, <1>2, <1>6 DEF FindAccount, Standing, Job
  <2>2. worker[w].again = "no"
    BY <1>1, <1>6 DEF FindAccount, At, LocalsSet
  <2>3. CleanWorker(w)'
    BY <1>3, <2>1, <2>2 DEF CleanWorker, Sending, At, FirstStep
  <2> QED BY <1>2, <1>4, <1>6, <2>3, DispatchedClean DEF FindAccount, Standing
<1>7. CASE Prepare(w)
  <2>1. Verdict(w, "failed")
    BY <1>2, <1>7 DEF Prepare
  <2> QED BY <1>2, <1>4, <1>5, <1>7, <2>1, DispatchedClean DEF Prepare, Standing
<1>8. CASE UseCachedSession(w)
  <2>1. /\ worker'[w].password = 0 /\ worker'[w].again = "no" /\ worker'[w].pc = "images"
        /\ kind # "github"
    BY <1>1, <1>2, <1>8 DEF UseCachedSession, At, LocalsSet, Job
  <2>2. CleanWorker(w)'
    BY <2>1 DEF CleanWorker, Sending, At
  <2> QED BY <1>2, <1>4, <1>8, <2>2, DispatchedClean DEF UseCachedSession, Standing
<1>9. CASE Refresh(w) \/ Login(w)
  <2>1. \/ Verdict(w, "failed")
        \/ worker' = [worker EXCEPT ![w].pc = "store", ![w].session = server.last + 1]
    BY <1>9 DEF Refresh, Login
  <2>2. ASSUME worker' = [worker EXCEPT ![w].pc = "store", ![w].session = server.last + 1]
        PROVE  CleanWorker(w)'
    <3>1. worker'[w].password = 0 /\ worker'[w].pc = "store"
      BY <1>1, <1>2, <2>2 DEF Job
    <3> QED BY <3>1, GoesOn DEF AllTaken
  <2>3. CleanWorker(w)'
    BY <1>5, <2>1, <2>2
  <2>4. Dispatched(w) /\ server'.password = server.password
    BY <1>4, <1>9 DEF Refresh, Login
  <2> QED BY <1>2, <1>9, <2>3, <2>4, DispatchedClean DEF Refresh, Login, Standing
<1>10. CASE StoreSession(w)
  <2>1. account' = [account EXCEPT !.session = worker[w].session, !.fresh = TRUE]
    BY <1>2, <1>10 DEF StoreSession, Standing
  <2>2. Standing'
    <3>1. account \in Account
      BY DEF TypeInv, TypeOK
    <3> QED BY <1>2, <1>10, <2>1, <3>1 DEF StoreSession, Standing, Account
  <2>3. worker'[w] = [worker[w] EXCEPT !.pc = IF At(w, "store") THEN "images" ELSE worker[w].again]
    BY <1>1, <1>10 DEF StoreSession, Goto
  <2>4. CASE At(w, "store")
    <3>1. worker'[w].password = 0 /\ worker'[w].again = "no" /\ worker'[w].pc = "images"
      BY <1>1, <1>2, <2>3, <2>4 DEF At, LocalsSet, Job
    <3>2. kind' # "github"
      BY <1>1, <1>3, <2>4 DEF At, LocalsSet
    <3>3. CleanWorker(w)'
      BY <3>1, <3>2 DEF CleanWorker, Sending, At
    <3> QED BY <1>2, <1>4, <1>10, <2>2, <3>3, DispatchedClean DEF StoreSession
  <2>5. CASE worker[w].pc = "restore"
    <3>1. /\ worker'[w].password = 0 /\ worker'[w].again = worker[w].again
          /\ worker'[w].pc = worker[w].again /\ worker[w].again \in {"images", "send"}
          /\ worker'[w].session = worker[w].session
      BY <1>1, <1>2, <2>3, <2>5 DEF At, LocalsSet, Job
    <3>2. kind' # "github"
      BY <1>1, <1>3, <2>5 DEF LocalsSet
    <3>3. Alive(w)'
      BY <1>2, <1>10, <2>5, <3>1 DEF CleanWorker, Alive, StoreSession
    <3>4. Sending(w)' => Owns(row, w)'
      BY <1>2, <1>3, <2>5, <3>1 DEF CleanWorker, Sending, At
    <3>5. CleanWorker(w)'
      BY <3>1, <3>2, <3>3, <3>4 DEF CleanWorker, At
    <3> QED BY <1>2, <1>4, <1>10, <2>2, <3>5, DispatchedClean DEF StoreSession
  <2> QED BY <1>10, <2>4, <2>5 DEF StoreSession, At
<1>11. CASE SessionRejected(w)
  <2>1. worker[w].again # "send"
    BY <1>2, <1>11 DEF SessionRejected, At, Reject, CleanWorker
  <2>2. worker' = [worker EXCEPT ![w].again = "send", ![w].pc = "reread"]
    BY <1>11, <2>1 DEF SessionRejected, At, Reject
  <2>3. worker'[w].password = 0 /\ worker'[w].pc = "reread"
    BY <1>1, <1>2, <2>2 DEF Job
  <2>4. Owns(row, w)'
    BY <1>2, <1>3, <1>11 DEF SessionRejected, CleanWorker, Sending
  <2>5. CleanWorker(w)'
    BY <2>3, <2>4 DEF CleanWorker, At
  <2> QED BY <1>2, <1>4, <1>11, <2>5, DispatchedClean DEF SessionRejected, Standing
<1>12. CASE Reread(w)
  <2>1. worker' = [worker EXCEPT ![w].pc = "login", ![w].password = account.password]
    BY <1>2, <1>12 DEF Reread, Standing
  <2>2. worker'[w].password = 0 /\ worker'[w].pc = "login" /\ worker'[w].again = worker[w].again
    BY <1>1, <1>2, <2>1 DEF Job, Standing
  <2>3. Sending(w)' => Owns(row, w)'
    BY <1>2, <1>3, <1>12, <2>2 DEF Reread, CleanWorker, Sending, At
  <2>4. CleanWorker(w)'
    BY <2>2, <2>3 DEF CleanWorker, At
  <2> QED BY <1>2, <1>4, <1>12, <2>4, DispatchedClean DEF Reread, Standing
<1>13. CASE Relogin(w)
  <2>1. \/ Verdict(w, "failed") /\ UNCHANGED server
        \/ /\ worker' = [worker EXCEPT ![w].pc = "restore", ![w].session = server.last + 1]
           /\ server' = Opened(server)
    BY <1>2, <1>13 DEF Relogin, Standing, CleanWorker
  <2>2. ASSUME worker' = [worker EXCEPT ![w].pc = "restore", ![w].session = server.last + 1],
               server' = Opened(server)
        PROVE  CleanWorker(w)'
    <3>1. /\ worker'[w].password = 0 /\ worker'[w].pc = "restore" /\ worker'[w].again = worker[w].again
          /\ worker'[w].session = server.last + 1
      BY <1>1, <1>2, <2>2 DEF Job
    <3>2. Alive(w)'
      <4>1. server \in Server
        BY DEF TypeInv, TypeOK
      <4> QED BY <2>2, <3>1, <4>1 DEF Alive, Opened, Server
    <3>3. Sending(w)' => Owns(row, w)'
      BY <1>2, <1>3, <1>13, <3>1 DEF Relogin, CleanWorker, Sending, At
    <3> QED BY <3>1, <3>2, <3>3 DEF CleanWorker, At
  <2>3. CleanWorker(w)'
    BY <1>5, <2>1, <2>2
  <2>4. Dispatched(w) /\ server'.password = server.password
    BY <1>4, <2>1
  <2> QED BY <1>2, <1>13, <2>3, <2>4, DispatchedClean DEF Relogin, Standing
<1> QED BY <1>6, <1>7, <1>8, <1>9, <1>10, <1>11, <1>12, <1>13 DEF OpenSession, Reauth

LEMMA CauseDispatch ==
  ASSUME TypeInv, Bounds, Clean, Clean', UNCHANGED <<harm, excuses>>, CauseInv, NEW w \in Workers,
         \/ Attach(w) \/ RefuseImage(w) \/ Guard(w) \/ Refuse(w) \/ SendExtra(w)
         \/ kind = "github" /\ (LookUpFile(w) \/ StaleSha(w))
         \/ Crash(w)
  PROVE  CauseInv'
<1>1. worker \in [Workers -> Job] /\ worker[w] \in Job /\ LocalsSet(kind, worker[w])
  BY DEF TypeInv, TypeOK
<1>2. CleanWorker(w) /\ Standing /\ worker[w].password = 0 /\ harm' = FALSE
  <2>1. harm' \in BOOLEAN
    BY DEF TypeInv, TypeOK
  <2> QED BY <2>1 DEF CauseInv, CleanWorker, Standing, Clean
<1>3. UNCHANGED <<kind, row, account, server>>
  BY DEF Attach, SkipImage, UploadImage, ImagesDone, RefuseImage, Guard, Refuse, SendExtra, LookUpFile,
         StaleSha, Crash
<1>4. Standing'
  BY <1>2, <1>3 DEF Standing
<1>5. ASSUME NEW v \in {"success", "failed"}, Verdict(w, v) PROVE CauseInv'
  <2>1. /\ Others(w) /\ worker'[w].password = 0 /\ worker'[w].pc = "settle"
        /\ worker'[w].verdict \in {"success", "failed"}
    BY <1>1, <1>2, <1>5 DEF Verdict, Others, Job
  <2>2. Dispatched(w)
    BY <1>3, <2>1 DEF Dispatched
  <2> QED BY <1>4, <2>1, <2>2, EndsClean, DispatchedClean
<1>6. ASSUME Others(w), CleanWorker(w)' PROVE CauseInv'
  <2>1. Dispatched(w)
    BY <1>3, <1>6 DEF Dispatched
  <2> QED BY <1>4, <1>6, <2>1, DispatchedClean
\* A worker among its images knows no file, and no worker at its images is past the guard.
<1>7. ASSUME Others(w), At(w, "images"), worker'[w].pc \in {"images", "guard"},
             worker'[w].password = 0, worker'[w].again = worker[w].again,
             worker'[w].session = worker[w].session
      PROVE  CauseInv'
  <2>1. kind' # "github"
    BY <1>1, <1>3, <1>7 DEF LocalsSet, At
  <2>2. worker'[w].again # "no" => Alive(w)'
    BY <1>2, <1>3, <1>7 DEF CleanWorker, Alive, At
  <2>3. ~ Sending(w)' /\ ~ At(w, "settle")'
    BY <1>7 DEF Sending, At
  <2> QED BY <1>6, <1>7, <2>1, <2>2, <2>3 DEF CleanWorker
<1>8. CASE SkipImage(w)
  BY <1>1, <1>2, <1>7, <1>8 DEF SkipImage, Others, At, Job
<1>9. CASE UploadImage(w)
  <2>1. At(w, "images") /\ (worker' = Take(w) \/ Reject(w))
    BY <1>9 DEF UploadImage
  <2>2. CASE worker' = Take(w)
    <3>1. /\ Others(w) /\ worker'[w].pc = "images" /\ worker'[w].password = 0
          /\ worker'[w].again = worker[w].again /\ worker'[w].session = worker[w].session
      BY <1>1, <1>2, <2>1, <2>2 DEF Take, Others, At, Job
    <3> QED BY <1>7, <2>1, <3>1
  <2>3. CASE Reject(w)
    <3>1. worker[w].again # "images"
      BY <1>2, <2>1, <2>3 DEF At, Reject, CleanWorker
    <3>2. worker' = [worker EXCEPT ![w].again = "images", ![w].pc = "reread"]
      BY <2>1, <2>3, <3>1 DEF At, Reject
    <3>3. /\ Others(w) /\ worker'[w].password = 0 /\ worker'[w].pc = "reread"
          /\ worker'[w].again = "images"
      BY <1>1, <1>2, <3>2 DEF Others, Job
    <3> QED BY <1>6, <3>3, GoesOn DEF AllTaken
  <2> QED BY <2>1, <2>2, <2>3
<1>10. CASE ImagesDone(w)
  BY <1>1, <1>2, <1>7, <1>10 DEF ImagesDone, Goto, Others, Job
<1>11. CASE RefuseImage(w)
  BY <1>2, <1>11 DEF RefuseImage
<1>12. CASE Guard(w)
  <2>1. CASE Owns(row, w)
    <3>1. worker'[w] = [worker[w] EXCEPT !.pc = "send"] /\ Others(w)
      BY <1>1, <1>12, <2>1 DEF Guard, Goto, Others
    <3>2. /\ worker'[w].password = 0 /\ worker'[w].pc = "send" /\ worker'[w].again = worker[w].again
          /\ worker'[w].session = worker[w].session /\ worker'[w].sha = worker[w].sha
      BY <1>1, <1>2, <3>1 DEF Job
    <3>3. Owns(row, w)'
      BY <1>3, <2>1
    <3>4. worker'[w].again # "no" => Alive(w)'
      BY <1>2, <1>3, <1>12, <3>2 DEF Guard, CleanWorker, Alive, At
    <3>5. kind' = "github" => worker'[w].sha = server'.file
      BY <1>2, <1>3, <1>12, <2>1, <3>2 DEF Guard, CleanWorker, At
    <3>6. CleanWorker(w)'
      BY <3>2, <3>3, <3>4, <3>5 DEF CleanWorker, At
    <3> QED BY <1>6, <3>1, <3>6
  <2>2. CASE ~ Owns(row, w)
    <3>1. Others(w) /\ worker'[w].pc = "idle" /\ worker'[w].password = 0
      BY <1>1, <1>2, <1>12, <2>2 DEF Guard, Goto, Others, Job
    <3> QED BY <1>6, <3>1, GoesOn DEF AllTaken
  <2> QED BY <2>1, <2>2
<1>13. CASE Refuse(w)
  <2>1. Verdict(w, "failed")
    BY <1>2, <1>13, HopelessHarms DEF Refuse
  <2> QED BY <1>5, <2>1
<1>14. CASE SendExtra(w)
  BY <1>5, <1>14 DEF SendExtra
<1>15. CASE kind = "github" /\ LookUpFile(w)
  <2>1. \/ Verdict(w, "failed")
        \/ worker' = [worker EXCEPT ![w].pc = "guard", ![w].sha = server.file]
    BY <1>2, <1>15, HopelessHarms DEF LookUpFile
  <2>2. ASSUME worker' = [worker EXCEPT ![w].pc = "guard", ![w].sha = server.file]
        PROVE  CauseInv'
    <3>1. worker[w].again = "no"
      BY <1>1, <1>15 DEF LookUpFile, At, LocalsSet
    <3>2. /\ Others(w) /\ worker'[w].password = 0 /\ worker'[w].pc = "guard"
          /\ worker'[w].again = "no" /\ worker'[w].sha = server.file
      BY <1>1, <1>2, <2>2, <3>1 DEF Others, Job
    <3>3. CleanWorker(w)'
      BY <1>3, <3>2 DEF CleanWorker, Sending, At
    <3> QED BY <1>6, <3>2, <3>3
  <2> QED BY <1>5, <2>1, <2>2
<1>16. CASE kind = "github" /\ StaleSha(w)
  <2>1. At(w, "send") /\ worker[w].sha # server.file
    BY <1>16 DEF StaleSha, Accepts
  <2>2. Owns(row, w)
    BY <1>2, <2>1 DEF CleanWorker, Sending
  <2> QED BY <1>2, <1>16, <2>1, <2>2 DEF CleanWorker, At
<1>17. CASE Crash(w)
  <2>1. Others(w) /\ worker'[w].pc = "idle" /\ worker'[w].password = 0
    BY <1>1, <1>17 DEF Crash, Others, Idle
  <2> QED BY <1>6, <2>1, GoesOn DEF AllTaken
<1> QED BY <1>8, <1>9, <1>10, <1>11, <1>12, <1>13, <1>14, <1>15, <1>16, <1>17 DEF Attach

\* A request leaves nobody with a stale version of the file: who owns the claim sent it.
LEMMA CauseSend ==
  ASSUME TypeInv, Bounds, Clean, Clean', CauseInv, NEW w \in Workers, Send(w)
  PROVE  CauseInv'
<1>1. worker \in [Workers -> Job] /\ worker[w] \in Job /\ server \in Server
  BY DEF TypeInv, TypeOK
<1>2. Standing /\ Tried /\ \A v \in Workers : CleanWorker(v)
  BY DEF CauseInv, Tried, Standing
<1>3. UNCHANGED <<kind, row, account>> /\ server'.access = server.access
      /\ server'.password = server.password
  BY <1>1 DEF Send, Publish, Server
<1>4. Owns(row, w)
  BY <1>2 DEF Send, CleanWorker, Sending
<1>5. ASSUME NEW v \in Workers, v # w PROVE CleanWorker(v)'
  <2>1. worker'[v] = worker[v]
    BY <1>1, <1>5 DEF Send, Goto, Verdict
  <2>2. ~ Owns(row, v) /\ ~ Owns(row, v)'
    BY <1>3, <1>4, <1>5 DEF Owns
  <2>3. CleanWorker(v)
    BY <1>2
  <2>4. ~ Sending(v)'
    BY <2>1, <2>2, <2>3 DEF CleanWorker, Sending, At
  <2> QED BY <1>3, <2>1, <2>2, <2>3, <2>4 DEF CleanWorker, Alive, At
<1>6. worker'[w].password = 0 /\ worker'[w].pc \in {"extra", "settle"}
      /\ (worker'[w].pc = "settle" => worker'[w].verdict \in {"success", "failed"})
  <2>1. worker[w].password = 0
    BY <1>2 DEF CleanWorker
  <2>2. Goto(w, "extra") \/ Verdict(w, "success") \/ Verdict(w, "failed")
    BY DEF Send
  <2> QED BY <1>1, <2>1, <2>2 DEF Goto, Verdict, Job
<1>7. CleanWorker(w)'
  BY <1>6 DEF CleanWorker, Sending, At
<1>8. Standing' /\ Tried'
  BY <1>2, <1>3 DEF Standing, Tried
<1> QED BY <1>5, <1>7, <1>8 DEF CauseInv, Tried, Standing

\* A claim that takes nothing from a worker past the guard.
LEMMA CauseClaim ==
  ASSUME TypeInv, Bounds, Clean, Clean', CauseInv, NEW w \in Workers, Claim(w)
  PROVE  CauseInv'
<1>1. worker \in [Workers -> Job] /\ row \in Row
  BY DEF TypeInv, TypeOK
<1>2. Standing /\ \A v \in Workers : CleanWorker(v)
  BY DEF CauseInv, Standing
<1>3. UNCHANGED <<kind, account, server>> /\ row' = ClaimRow(row, w)
      /\ worker' = [worker EXCEPT ![w] = [Idle EXCEPT !.pc = "account"]]
  BY DEF Claim
<1>4. \A v \in Workers : ~ Unknowable(v)
  BY DEF Claim, Clean
<1>5. row'.status = "pending" /\ row'.token = w
  BY <1>1, <1>3 DEF ClaimRow, Row
<1>6. ASSUME NEW v \in Workers, v # w PROVE CleanWorker(v)'
  <2>1. worker'[v] = worker[v]
    BY <1>1, <1>3, <1>6
  <2>2. ~ Owns(row, v)'
    BY <1>5, <1>6 DEF Owns
  <2>3. CleanWorker(v)
    BY <1>2
  <2>4. ~ Sending(v)
    BY <1>4, <2>3 DEF CleanWorker, Unknowable
  <2>5. ~ Sending(v)'
    BY <2>1, <2>4 DEF Sending, At
  <2>6. (At(v, "settle")' <=> At(v, "settle")) /\ (Alive(v)' <=> Alive(v))
    BY <1>3, <2>1 DEF At, Alive
  <2> QED BY <2>1, <2>2, <2>3, <2>5, <2>6 DEF CleanWorker
<1>7. worker'[w].password = 0 /\ worker'[w].pc = "account"
  BY <1>1, <1>3 DEF Idle
<1>8. CleanWorker(w)'
  BY <1>7, GoesOn DEF AllTaken
<1>9. Standing' /\ Tried'
  BY <1>2, <1>3, <1>5 DEF Standing, Tried
<1> QED BY <1>6, <1>8, <1>9 DEF CauseInv, Tried, Standing

\* The row is given up at the limit of attempts, since no verdict is `refused'.
LEMMA CauseSettle ==
  ASSUME TypeInv, Bounds, Clean, CauseInv, NEW w \in Workers, Settle(w)
  PROVE  CauseInv'
<1>1. worker \in [Workers -> Job] /\ worker[w] \in Job /\ row \in Row
  BY DEF TypeInv, TypeOK
<1>2. Standing /\ Tried /\ \A v \in Workers : CleanWorker(v)
  BY DEF CauseInv, Tried, Standing
<1>3. UNCHANGED <<kind, account, server>> /\ worker' = [worker EXCEPT ![w] = Idle]
  BY DEF Settle
<1>4. row' = FinalizeRow(row, w, "success") \/ row' = FailRow(row, w, FALSE)
  <2>1. worker[w].verdict \in {"success", "failed"}
    BY <1>2 DEF Settle, CleanWorker
  <2> QED BY <2>1 DEF Settle
<1>5. ~ Owns(row, w) => row' = row
  BY <1>4 DEF FinalizeRow, FailRow
<1>6. Owns(row, w) => row'.status # "pending"
  BY <1>1, <1>4 DEF FinalizeRow, FailRow, FailureStatus, Row
<1>7. Tried'
  <2>1. CASE ~ Owns(row, w)
    BY <1>2, <1>5, <2>1 DEF Tried
  <2>2. CASE Owns(row, w)
    <3>1. row'.attempts = row.attempts /\ row'.status \in {"success", FailureStatus(row, FALSE)}
      BY <1>1, <1>4, <2>2 DEF FinalizeRow, FailRow, Row
    <3> QED BY <3>1 DEF FailureStatus, Tried
  <2> QED BY <2>1, <2>2
<1>8. ASSUME NEW v \in Workers, v # w PROVE CleanWorker(v)'
  <2>1. worker'[v] = worker[v] /\ CleanWorker(v)
    BY <1>1, <1>2, <1>3, <1>8
  <2>2. Owns(row, v)' <=> Owns(row, v)
    BY <1>5, <1>6, <1>8 DEF Owns
  <2>3. Sending(v)' <=> Sending(v)
    BY <2>1 DEF Sending, At
  <2> QED BY <1>3, <2>1, <2>2, <2>3 DEF CleanWorker, Alive, At
<1>9. CleanWorker(w)'
  <2>1. worker'[w].password = 0 /\ worker'[w].pc = "idle"
    BY <1>1, <1>3 DEF Idle
  <2> QED BY <2>1, GoesOn DEF AllTaken
<1>10. Standing'
  BY <1>2, <1>3 DEF Standing
<1> QED BY <1>7, <1>8, <1>9, <1>10 DEF CauseInv, Tried, Standing

\* What owner, server and clock may do without harm.
LEMMA CauseWorld ==
  ASSUME TypeInv, Bounds, Clean, Clean', CauseInv, World
  PROVE  CauseInv'
<1>1. server \in Server /\ account \in Account /\ row \in Row /\ harm' = FALSE /\ harm' \in BOOLEAN
  BY TypeStep, WorldType DEF TypeInv, TypeOK, Clean
<1>2. Standing /\ Tried /\ \A v \in Workers : CleanWorker(v)
  BY DEF CauseInv, Tried, Standing
<1>3. UNCHANGED <<kind, worker>>
  BY DEF World, Tick, ExpireSession, RevokePassword, Reconnect, DeleteAccount, Forget, Commit
<1>4. ~ RevokePassword /\ ~ DeleteAccount /\ ~ Commit
  BY <1>1 DEF RevokePassword, DeleteAccount, Commit
<1>5. row'.status = row.status /\ row'.token = row.token /\ row'.attempts = row.attempts
  BY <1>1, <1>4 DEF World, Tick, ExpireSession, Reconnect, Forget, AgeRow, Row
<1>6. Standing' /\ server'.file = server.file
  BY <1>1, <1>2, <1>4 DEF World, Tick, ExpireSession, Reconnect, Forget, Standing, Opened, Server, Account
<1>7. ASSUME NEW v \in Workers, worker[v].again # "no", Alive(v) PROVE Alive(v)'
  <2>1. CASE ExpireSession
    <3>1. UNCHANGED server \/ \E s \in server.access : /\ server' = [server EXCEPT !.access = server.access \ {s}]
                                                       /\ worker[v].session # s
      BY <1>1, <1>7, <2>1 DEF ExpireSession
    <3> QED BY <1>1, <1>3, <1>7, <3>1 DEF Alive, Server
  <2>2. CASE Tick \/ Reconnect \/ Forget
    BY <1>1, <1>3, <1>7, <2>2 DEF Tick, Reconnect, Forget, Opened, Server, Alive
  <2> QED BY <1>4, <2>1, <2>2 DEF World
<1>8. ASSUME NEW v \in Workers PROVE CleanWorker(v)'
  <2>1. CleanWorker(v) /\ worker'[v] = worker[v]
    BY <1>2, <1>3
  <2>2. (Owns(row, v)' <=> Owns(row, v)) /\ (Sending(v)' <=> Sending(v))
    BY <1>5, <2>1 DEF Owns, Sending, At
  <2> QED BY <1>3, <1>6, <1>7, <2>1, <2>2 DEF CleanWorker, At
<1>9. Tried'
  BY <1>2, <1>5 DEF Tried
<1> QED BY <1>6, <1>8, <1>9 DEF CauseInv, Tried, Standing

LEMMA CauseStep == Bounds /\ TypeInv /\ CauseInv /\ [Next]_vars => CauseInv'
<1> SUFFICES ASSUME Bounds, TypeInv, CauseInv, [Next]_vars PROVE CauseInv'
  OBVIOUS
<1>1. CASE UNCHANGED vars
  BY <1>1 DEF vars, CauseInv, Clean, CleanWorker, Sending, At, Alive
<1>2. CASE Next
  <2>1. CASE ~ Clean'
    BY <2>1 DEF CauseInv
  <2>2. CASE Clean'
    <3>1. Clean /\ UNCHANGED <<harm, excuses>>
      BY <1>2, <2>2, CleanBefore
    <3> QED BY <1>2, <2>2, <3>1, StepCases, CauseSession, CauseDispatch, CauseSend, CauseClaim,
               CauseSettle, CauseWorld DEF Deliver
  <2> QED BY <2>1, <2>2
<1> QED BY <1>1, <1>2

LEMMA CauseInit == Init => CauseInv
BY DEF Init, CauseInv, CleanWorker, Sending, At, Idle, Absent

\* As long as neither owner nor destination did something final, an item is given up only
\* after all its attempts (_fail_post), whatever sessions expire, for any number of workers.
THEOREM GivenUpWithCause ==
  ASSUME Bounds
  PROVE  Spec => []GivenUpForCause
<1>1. CauseInv => GivenUpForCause
  BY DEF CauseInv, Clean, GivenUpForCause
<1> QED BY <1>1, TypeInit, TypeStep, CauseInit, CauseStep, PTL DEF Spec

-----------------------------------------------------------------------------
(* Duplicates.                                                             *)

LEMMA ExcusedFinite ==
  ASSUME Bounds
  PROVE  /\ IsFiniteSet(Excused) /\ Cardinality(Excused) \in Nat
         /\ \A S : S \subseteq Excused => IsFiniteSet(S) /\ Cardinality(S) \in Nat
                                       /\ Cardinality(S) <= Cardinality(Excused)
<1>1. IsFiniteSet(Excused)
  BY FS_Subset DEF Excused, Bounds
<1>2. Cardinality(Excused) \in Nat
  BY <1>1, FS_CardinalityType
<1>3. ASSUME NEW S, S \subseteq Excused
      PROVE  IsFiniteSet(S) /\ Cardinality(S) \in Nat /\ Cardinality(S) <= Cardinality(Excused)
  BY <1>1, <1>3, FS_Subset, FS_CardinalityType
<1> QED BY <1>1, <1>2, <1>3

\* A step that publishes nothing, loses nobody's claim and no record of a post.
Quiet(w) ==
  /\ Others(w) /\ UNCHANGED <<row, posts, excuses>>
  /\ Sending(w)' => Sending(w) \/ Owns(row, w)
  /\ Unrecorded(w) => Unrecorded(w)'

LEMMA CountQuiet ==
  ASSUME TypeInv, Bounds, CountInv, NEW w \in Workers, Quiet(w)
  PROVE  CountInv'
<1>1. ASSUME NEW v \in Workers
      PROVE  /\ Owns(row, v)' <=> Owns(row, v)
             /\ Sending(v)' => Sending(v) \/ Owns(row, v)
             /\ Unrecorded(v) => Unrecorded(v)'
  BY DEF Quiet, Others, Owns, Sending, Unrecorded, At
<1>2. Excused' \subseteq Excused
  BY <1>1 DEF Excused
<1>3. Recording => Recording'
  BY <1>1 DEF Recording, Quiet
<1>4. Cardinality(Excused') \in Nat /\ Cardinality(Excused') <= Cardinality(Excused)
      /\ Cardinality(Excused) \in Nat
  BY <1>2, ExcusedFinite
<1>5. Len(posts) \in Nat /\ excuses \in Nat /\ posts' = posts /\ excuses' = excuses
  BY DEF TypeInv, TypeOK, Quiet
<1> QED BY <1>3, <1>4, <1>5 DEF CountInv

LEMMA QuietSteps ==
  ASSUME TypeInv, Bounds, NEW w \in Workers,
         \/ FindAccount(w) \/ Prepare(w) \/ OpenSession(w) \/ Reauth(w)
         \/ Attach(w) \/ RefuseImage(w) \/ Guard(w) \/ Refuse(w) \/ SendExtra(w)
         \/ kind = "github" /\ (LookUpFile(w) \/ StaleSha(w))
  PROVE  Quiet(w)
<1>1. worker \in [Workers -> Job] /\ worker[w] \in Job /\ LocalsSet(kind, worker[w])
  BY DEF TypeInv, TypeOK
<1>2. UNCHANGED <<row, posts, excuses>>
  BY DEF FindAccount, Prepare, OpenSession, UseCachedSession, Refresh, Login, StoreSession, Reauth,
         SessionRejected, Reread, Relogin, Attach, SkipImage, UploadImage, ImagesDone, RefuseImage,
         Guard, Refuse, SendExtra, LookUpFile, StaleSha
\* Most steps are of a worker that has published nothing, and not on the way to a request.
<1>3. ASSUME ~ Unrecorded(w), Others(w), ~ AllTaken(worker'[w]) \/ worker'[w].pc = "guard"
      PROVE  Quiet(w)
  <2>1. ~ Sending(w)'
    BY <1>3 DEF AllTaken, Sending, At
  <2> QED BY <1>2, <1>3, <2>1 DEF Quiet
<1>4. ASSUME NEW v, ~ Unrecorded(w), Verdict(w, v) PROVE Quiet(w)
  <2>1. Others(w) /\ worker'[w].pc = "settle"
    BY <1>1, <1>4 DEF Verdict, Others, Job
  <2> QED BY <1>3, <1>4, <2>1 DEF AllTaken
<1>5. ASSUME worker[w].pc \in Steps \ {"extra", "settle"} PROVE ~ Unrecorded(w)
  BY <1>5 DEF Unrecorded, At
<1>6. CASE FindAccount(w)
  <2>1. ~ Unrecorded(w)
    BY <1>1, <1>5, <1>6 DEF FindAccount, At, Steps
  <2>2. \/ Verdict(w, "refused")
        \/ Others(w) /\ worker'[w].pc = FirstStep
    BY <1>1, <1>6 DEF FindAccount, Others, Job
  <2> QED BY <1>3, <1>4, <2>1, <2>2 DEF FirstStep, AllTaken
<1>7. CASE Prepare(w) \/ Refuse(w) \/ StaleSha(w) \/ RefuseImage(w)
  <2>1. ~ Unrecorded(w)
    BY <1>5, <1>7 DEF Prepare, Refuse, StaleSha, RefuseImage, At, Steps
  <2> QED BY <1>4, <1>7, <2>1 DEF Prepare, Refuse, StaleSha, RefuseImage
<1>8. CASE UseCachedSession(w) \/ Refresh(w) \/ Login(w)
  <2>1. ~ Unrecorded(w)
    BY <1>5, <1>8 DEF UseCachedSession, Refresh, Login, At, Steps
  <2>2. \/ Verdict(w, "failed")
        \/ worker' = [worker EXCEPT ![w].pc = "images"]
        \/ worker' = [worker EXCEPT ![w].pc = "store", ![w].session = server.last + 1]
    BY <1>8 DEF UseCachedSession, Refresh, Login
  <2>3. \/ Verdict(w, "failed")
        \/ Others(w) /\ worker'[w].pc \in {"images", "store"}
    BY <1>1, <2>2 DEF Others, Job
  <2> QED BY <1>3, <1>4, <2>1, <2>3 DEF AllTaken
<1>9. CASE StoreSession(w)
  <2>1. Others(w) /\ worker'[w] = [worker[w] EXCEPT !.pc = IF At(w, "store") THEN "images" ELSE worker[w].again]
    BY <1>1, <1>9 DEF StoreSession, Goto, Others
  <2>2. worker'[w].pc \in {"images", "send"} /\ (worker'[w].pc = "send" => Sending(w))
    BY <1>1, <1>9, <2>1 DEF StoreSession, At, LocalsSet, Sending, Job
  <2>3. Sending(w)' => Sending(w)
    BY <2>2 DEF Sending, At
  <2>4. ~ Unrecorded(w)
    BY <1>5, <1>9 DEF StoreSession, Steps
  <2> QED BY <1>2, <2>1, <2>3, <2>4 DEF Quiet
<1>10. ASSUME At(w, "images") \/ At(w, "send"), Reject(w) PROVE Quiet(w)
  <2>1. ~ Unrecorded(w)
    BY <1>5, <1>10 DEF At, Steps
  <2>2. CASE worker[w].again = worker[w].pc
    BY <1>4, <1>10, <2>1, <2>2 DEF Reject
  <2>3. CASE worker[w].again # worker[w].pc
    <3>1. worker' = [worker EXCEPT ![w].again = worker[w].pc, ![w].pc = "reread"]
      BY <1>10, <2>3 DEF Reject
    <3>2. Others(w) /\ worker'[w].pc = "reread" /\ worker'[w].again = worker[w].pc
      BY <1>1, <3>1 DEF Others, Job
    <3>3. Sending(w)' => Sending(w)
      BY <1>10, <3>2 DEF Sending, At
    <3> QED BY <1>2, <2>1, <3>2, <3>3 DEF Quiet
  <2> QED BY <2>2, <2>3
<1>11. CASE SessionRejected(w)
  BY <1>10, <1>11 DEF SessionRejected
<1>12. CASE Reread(w) \/ Relogin(w)
  <2>1. ~ Unrecorded(w)
    BY <1>5, <1>12 DEF Reread, Relogin, At, Steps
  <2>2. \/ Verdict(w, "refused")
        \/ Verdict(w, "failed")
        \/ worker' = [worker EXCEPT ![w].pc = "login", ![w].password = account.password]
        \/ worker' = [worker EXCEPT ![w].pc = "restore", ![w].session = server.last + 1]
    BY <1>12 DEF Reread, Relogin
  <2>3. \/ Verdict(w, "refused")
        \/ Verdict(w, "failed")
        \/ Others(w) /\ worker'[w].pc \in {"login", "restore"} /\ worker'[w].again = worker[w].again
    BY <1>1, <2>2 DEF Others, Job
  <2>4. ASSUME Others(w), worker'[w].pc \in {"login", "restore"}, worker'[w].again = worker[w].again
        PROVE  Quiet(w)
    <3>1. Sending(w)' => Sending(w)
      BY <1>12, <2>4 DEF Reread, Relogin, Sending, At
    <3> QED BY <1>2, <2>1, <2>4, <3>1 DEF Quiet
  <2> QED BY <1>4, <2>1, <2>3, <2>4
<1>13. CASE SkipImage(w) \/ ImagesDone(w)
  <2>1. ~ Unrecorded(w)
    BY <1>5, <1>13 DEF SkipImage, ImagesDone, At, Steps
  <2>2. Others(w) /\ worker'[w].pc \in {"images", "guard"}
    BY <1>1, <1>13 DEF SkipImage, ImagesDone, Goto, Others, At, Job
  <2> QED BY <1>3, <2>1, <2>2 DEF AllTaken
<1>14. CASE UploadImage(w)
  <2>1. At(w, "images") /\ (worker' = Take(w) \/ Reject(w))
    BY <1>14 DEF UploadImage
  <2>2. ASSUME worker' = Take(w) PROVE Quiet(w)
    <3>1. Others(w) /\ worker'[w].pc = "images" /\ ~ Unrecorded(w)
      BY <1>1, <1>5, <2>1, <2>2 DEF Take, Others, At, Job, Steps
    <3> QED BY <1>3, <3>1 DEF AllTaken
  <2> QED BY <1>10, <2>1, <2>2
<1>15. CASE Guard(w)
  <2>1. Others(w) /\ worker'[w].pc = IF Owns(row, w) THEN "send" ELSE "idle"
    BY <1>1, <1>15 DEF Guard, Goto, Others, Job
  <2>2. ~ Unrecorded(w)
    BY <1>5, <1>15 DEF Guard, At, Steps
  <2>3. Sending(w)' => Owns(row, w)
    BY <2>1 DEF Sending, At
  <2> QED BY <1>2, <2>1, <2>2, <2>3 DEF Quiet
<1>16. CASE SendExtra(w)
  <2>1. Others(w) /\ worker'[w].pc = "settle" /\ worker'[w].verdict = "success"
    BY <1>1, <1>16 DEF SendExtra, Verdict, Others, Job
  <2>2. Unrecorded(w)' /\ ~ Sending(w)'
    BY <2>1 DEF Unrecorded, Sending, At
  <2> QED BY <1>2, <2>1, <2>2 DEF Quiet
<1>17. CASE LookUpFile(w)
  <2>1. ~ Unrecorded(w)
    BY <1>5, <1>17 DEF LookUpFile, At, Steps
  <2>2. \/ Verdict(w, "refused")
        \/ Verdict(w, "failed")
        \/ worker' = [worker EXCEPT ![w].pc = "guard", ![w].sha = server.file]
    BY <1>17 DEF LookUpFile
  <2>3. ASSUME worker' = [worker EXCEPT ![w].pc = "guard", ![w].sha = server.file] PROVE Quiet(w)
    <3>1. Others(w) /\ worker'[w].pc = "guard"
      BY <1>1, <2>3 DEF Others, Job
    <3> QED BY <1>3, <2>1, <3>1
  <2> QED BY <1>4, <2>1, <2>2, <2>3
<1> QED BY <1>6, <1>7, <1>8, <1>9, <1>11, <1>12, <1>13, <1>14, <1>15, <1>16, <1>17
        DEF OpenSession, Reauth, Attach

\* A request takes its place: an excuse given when the claim was lost, the one post that
\* needs none, or the excuse of the answer that is lost now.
LEMMA CountSend ==
  ASSUME TypeInv, Bounds, CountInv, NEW w \in Workers, Send(w)
  PROVE  CountInv'
<1>1. worker \in [Workers -> Job] /\ worker[w] \in Job /\ posts \in Seq(Post) /\ excuses \in Nat
  BY DEF TypeInv, TypeOK
<1>2. row' = row /\ worker[w].pc = "send"
  BY DEF Send, At
<1>3. \/ (worker'[w].pc = "extra" \/ (worker'[w].pc = "settle" /\ worker'[w].verdict = "success"))
         /\ excuses' = excuses
      \/ worker'[w].pc = "settle" /\ excuses' = excuses + (IF Owns(row, w) THEN 1 ELSE 0)
  BY <1>1 DEF Send, Goto, Verdict, Job
<1>4. \A v \in Workers : v # w => worker'[v] = worker[v]
  BY <1>1 DEF Send, Goto, Verdict
<1>5. Sending(w) /\ ~ Sending(w)' /\ ~ Unrecorded(w)
  BY <1>2, <1>3 DEF Sending, Unrecorded, At
<1>6. ASSUME NEW v \in Workers, v # w
      PROVE  /\ Owns(row, v)' <=> Owns(row, v)
             /\ Sending(v)' <=> Sending(v)
             /\ Unrecorded(v)' <=> Unrecorded(v)
  BY <1>2, <1>4, <1>6 DEF Owns, Sending, Unrecorded, At
<1>7. Excused' = Excused \ {w}
  BY <1>2, <1>5, <1>6 DEF Excused
<1>8. Len(posts') <= Len(posts) + 1 /\ Len(posts) \in Nat /\ Len(posts') \in Nat
  <2> DEFINE post == [images |-> worker[w].images, skipped |-> worker[w].skipped]
  <2>1. posts' = posts \/ posts' = Append(posts, post)
    BY DEF Send, Publish
  <2> HIDE DEF post
  <2> QED BY <1>1, <2>1
<1>9. CASE ~ Owns(row, w)
  <2>1. w \in Excused
    BY <1>5, <1>9 DEF Excused
  <2>2. Cardinality(Excused') = Cardinality(Excused) - 1
    BY <1>7, <2>1, ExcusedFinite, FS_RemoveElement
  <2>3. Recording => Recording'
    BY <1>2, <1>5, <1>6 DEF Recording
  <2>4. excuses' = excuses /\ Cardinality(Excused) \in Nat
    BY <1>1, <1>3, <1>9, ExcusedFinite
  <2> QED BY <1>1, <1>8, <2>2, <2>3, <2>4 DEF CountInv
<1>10. CASE Owns(row, w)
  <2>1. Excused' = Excused
    BY <1>7, <1>10 DEF Excused
  <2>2. ~ Recording
    <3>1. row.status = "pending" /\ \A v \in Workers : Owns(row, v) => v = w
      BY <1>10 DEF Owns
    <3> QED BY <1>5, <3>1 DEF Recording
  <2>3. Recording' \/ excuses' = excuses + 1
    <3>1. Owns(row, w)'
      BY <1>2, <1>10
    <3>2. Unrecorded(w)' \/ excuses' = excuses + 1
      BY <1>3, <1>10 DEF Unrecorded, At
    <3> QED BY <3>1, <3>2 DEF Recording
  <2>4. excuses' \in {excuses, excuses + 1} /\ Cardinality(Excused) \in Nat
    BY <1>1, <1>3, <1>10, ExcusedFinite
  <2>5. Len(posts) + Cardinality(Excused) <= excuses
    BY <1>1, <2>2 DEF CountInv
  <2>6. Len(posts') + Cardinality(Excused) <= excuses' + (IF Recording' THEN 1 ELSE 0)
    <3>1. CASE Recording'
      BY <1>1, <1>8, <2>4, <2>5, <3>1
    <3>2. CASE ~ Recording'
      BY <1>1, <1>8, <2>3, <2>4, <2>5, <3>2
    <3> QED BY <3>1, <3>2
  <2> QED BY <2>1, <2>6 DEF CountInv
<1> QED BY <1>9, <1>10

\* A claim takes the row from a worker past the guard: that is the excuse.
LEMMA CountClaim ==
  ASSUME TypeInv, Bounds, CountInv, NEW w \in Workers, Claim(w)
  PROVE  CountInv'
<1>1. worker \in [Workers -> Job] /\ row \in Row /\ posts \in Seq(Post) /\ excuses \in Nat
  BY DEF TypeInv, TypeOK
<1>2. row'.status = "pending" /\ row'.token = w
  BY <1>1 DEF Claim, ClaimRow, Row
<1>3. worker' = [worker EXCEPT ![w] = [Idle EXCEPT !.pc = "account"]] /\ posts' = posts
      /\ worker[w].pc = "idle"
  BY DEF Claim, At
<1>4. \A v \in Workers : v # w => worker'[v] = worker[v]
  BY <1>1, <1>3
<1>5. ~ Sending(w) /\ ~ Sending(w)' /\ ~ Unrecorded(w) /\ ~ Unrecorded(w)'
  <2>1. worker'[w].pc = "account"
    BY <1>1, <1>3 DEF Idle
  <2> QED BY <1>3, <2>1 DEF Sending, Unrecorded, At
<1>6. \A v \in Workers : v # w => (Sending(v)' <=> Sending(v))
  BY <1>4 DEF Sending, At
<1>7. Excused' = {v \in Workers : Sending(v)}
  BY <1>2, <1>5, <1>6 DEF Excused, Owns
<1>8. row.status # "success"
  BY DEF Claim, Claimable
<1>9. Cardinality(Excused) \in Nat /\ Len(posts) \in Nat
  BY <1>1, ExcusedFinite
<1>10. CASE \E v \in Workers : Unknowable(v)
  <2>1. PICK v \in Workers : Unknowable(v)
    BY <1>10
  <2>2. \A u \in Workers : Owns(row, u) => u = v
    BY <2>1 DEF Unknowable, Owns
  <2>3. excuses' = excuses + 1
    BY <1>10 DEF Claim
  <2>4. CASE Sending(v)
    <3>1. ~ Unrecorded(v)
      BY <2>4 DEF Sending, Unrecorded, At
    <3>2. ~ Recording
      BY <1>8, <2>2, <3>1 DEF Recording
    <3>3. Excused' = Excused \cup {v} /\ v \notin Excused
      BY <1>7, <2>1, <2>2, <2>4 DEF Excused, Unknowable
    <3>4. Cardinality(Excused') = Cardinality(Excused) + 1
      BY <3>3, ExcusedFinite, FS_AddElement
    <3> QED BY <1>1, <1>3, <1>9, <2>3, <3>2, <3>4 DEF CountInv
  <2>5. CASE ~ Sending(v)
    <3>1. Excused' = Excused
      BY <1>7, <2>2, <2>5 DEF Excused
    <3> QED BY <1>1, <1>3, <1>9, <2>3, <3>1 DEF CountInv
  <2> QED BY <2>4, <2>5
<1>11. CASE ~ \E v \in Workers : Unknowable(v)
  <2>1. excuses' = excuses
    BY <1>1, <1>11 DEF Claim
  <2>2. Excused' = Excused
    BY <1>7, <1>11 DEF Excused, Unknowable
  <2>3. ~ Recording
    BY <1>8, <1>11 DEF Recording, Unknowable
  <2> QED BY <1>1, <1>3, <1>9, <2>1, <2>2, <2>3 DEF CountInv
<1> QED BY <1>10, <1>11

\* The one post is recorded, or its record is lost with its sender.
LEMMA CountEnd ==
  ASSUME TypeInv, Bounds, CountInv, NEW w \in Workers, Settle(w) \/ Crash(w)
  PROVE  CountInv'
<1>1. worker \in [Workers -> Job] /\ row \in Row /\ posts \in Seq(Post) /\ excuses \in Nat
  BY DEF TypeInv, TypeOK
<1>2. worker' = [worker EXCEPT ![w] = Idle] /\ posts' = posts
  BY DEF Settle, Crash
<1>3. \A v \in Workers : v # w => worker'[v] = worker[v]
  BY <1>1, <1>2
<1>4. ~ Sending(w)' /\ ~ Unrecorded(w)'
  <2>1. worker'[w].pc = "idle"
    BY <1>1, <1>2 DEF Idle
  <2> QED BY <2>1 DEF Sending, Unrecorded, At
<1>5. ASSUME NEW v \in Workers, v # w
      PROVE  /\ Sending(v)' <=> Sending(v)
             /\ Unrecorded(v)' <=> Unrecorded(v)
  BY <1>3, <1>5 DEF Sending, Unrecorded, At
<1>6. Cardinality(Excused) \in Nat /\ Len(posts) \in Nat
  BY <1>1, ExcusedFinite
<1>7. ASSUME ~ Owns(row, w), row' = row, excuses' = excuses PROVE CountInv'
  <2>1. Excused' \subseteq Excused
    BY <1>4, <1>5, <1>7 DEF Excused, Owns
  <2>2. Recording => Recording'
    BY <1>5, <1>7 DEF Recording, Owns
  <2>3. Cardinality(Excused') \in Nat /\ Cardinality(Excused') <= Cardinality(Excused)
    BY <2>1, ExcusedFinite
  <2> QED BY <1>1, <1>2, <1>6, <1>7, <2>2, <2>3 DEF CountInv
<1>8. ASSUME Owns(row, w) PROVE \A v \in Workers : Owns(row, v) => v = w
  BY <1>8 DEF Owns
<1>9. CASE Settle(w)
  <2>1. CASE ~ Owns(row, w)
    <3>1. row' = row
      BY <1>9, <2>1 DEF Settle, FinalizeRow, FailRow
    <3> QED BY <1>7, <1>9, <2>1, <3>1 DEF Settle
  <2>2. CASE Owns(row, w)
    <3>1. row'.status # "pending" /\ (worker[w].verdict = "success" => row'.status = "success")
      BY <1>1, <1>9, <2>2 DEF Settle, FinalizeRow, FailRow, FailureStatus, Row
    <3>2. Excused' \subseteq Excused
      BY <1>4, <1>5, <1>8, <2>2 DEF Excused
    <3>3. Recording => Recording'
      <4>1. row.status # "success"
        BY <2>2 DEF Owns
      <4>2. Recording => Unrecorded(w)
        BY <1>8, <2>2, <4>1 DEF Recording
      <4>3. Unrecorded(w) => worker[w].verdict = "success"
        BY <1>9 DEF Settle, Unrecorded, At
      <4> QED BY <3>1, <4>2, <4>3 DEF Recording
    <3>4. Cardinality(Excused') \in Nat /\ Cardinality(Excused') <= Cardinality(Excused)
      BY <3>2, ExcusedFinite
    <3>5. excuses' = excuses
      BY <1>9 DEF Settle
    <3> QED BY <1>1, <1>2, <1>6, <3>3, <3>4, <3>5 DEF CountInv
  <2> QED BY <2>1, <2>2
<1>10. CASE Crash(w)
  <2>1. row' = row /\ excuses' = excuses + (IF Owns(row, w) /\ Unrecorded(w) THEN 1 ELSE 0)
    BY <1>10 DEF Crash
  <2>2. CASE ~ Owns(row, w)
    BY <1>1, <1>7, <2>1, <2>2
  <2>3. CASE Owns(row, w)
    <3>1. Excused' \subseteq Excused
      BY <1>4, <1>5, <2>1 DEF Excused, Owns
    <3>2. Cardinality(Excused') \in Nat /\ Cardinality(Excused') <= Cardinality(Excused)
      BY <3>1, ExcusedFinite
    <3>3. CASE Unrecorded(w)
      <4>1. excuses' = excuses + 1
        BY <2>1, <2>3, <3>3
      <4> QED BY <1>1, <1>2, <1>6, <3>2, <4>1 DEF CountInv
    <3>4. CASE ~ Unrecorded(w)
      <4>1. excuses' = excuses
        BY <1>1, <2>1, <3>4
      <4>2. ~ Recording
        BY <1>8, <2>3, <3>4 DEF Recording, Owns
      <4> QED BY <1>1, <1>2, <1>6, <3>2, <4>1, <4>2 DEF CountInv
    <3> QED BY <3>3, <3>4
  <2> QED BY <2>2, <2>3
<1> QED BY <1>9, <1>10

LEMMA CountStep == Bounds /\ TypeInv /\ CountInv /\ [Next]_vars => CountInv'
<1> SUFFICES ASSUME Bounds, TypeInv, CountInv, [Next]_vars PROVE CountInv'
  OBVIOUS
<1>1. ASSUME UNCHANGED <<worker, posts, excuses>>, row'.status = row.status, row'.token = row.token
      PROVE  CountInv'
  <2>1. Excused' = Excused /\ (Recording' <=> Recording)
    BY <1>1 DEF Excused, Recording, Sending, Unrecorded, At, Owns
  <2> QED BY <1>1, <2>1 DEF CountInv
<1>2. CASE UNCHANGED vars
  BY <1>1, <1>2 DEF vars
<1>3. CASE World
  <2>1. row'.status = row.status /\ row'.token = row.token
    BY <1>3, RowFate DEF World, Tick, ExpireSession, RevokePassword, Reconnect, DeleteAccount, Forget, Commit
  <2> QED BY <1>1, <1>3, <2>1 DEF World, Tick, ExpireSession, RevokePassword, Reconnect, DeleteAccount,
             Forget, Commit
<1>4. CASE Next
  BY <1>3, <1>4, StepCases, QuietSteps, CountQuiet, CountSend, CountClaim, CountEnd DEF Deliver
<1> QED BY <1>2, <1>4

\* Only Send publishes, and the destination never remembers what it forgot.
LEMMA KeyStep == TypeInv /\ KeyInv /\ [Next]_vars => KeyInv'
<1> SUFFICES ASSUME TypeInv, KeyInv, [Next]_vars PROVE KeyInv'
  OBVIOUS
<1>1. posts \in Seq(Post) /\ server \in Server
  BY DEF TypeInv, TypeOK
<1>2. ASSUME UNCHANGED <<kind, posts>>, server.forgot => server'.forgot
      PROVE  KeyInv'
  <2>1. kind' = kind /\ posts' = posts
    BY <1>2
  <2> QED BY <1>2, <2>1 DEF KeyInv, Keyed
<1>3. CASE UNCHANGED vars
  BY <1>2, <1>3 DEF vars
<1>4. CASE World
  <2>1. UNCHANGED <<kind, posts>>
    BY <1>4 DEF World, Tick, ExpireSession, RevokePassword, Reconnect, DeleteAccount, Forget, Commit
  <2>2. CASE Tick \/ DeleteAccount
    BY <1>2, <2>1, <2>2 DEF Tick, DeleteAccount
  <2>3. CASE ExpireSession
    <3>1. UNCHANGED server \/ \E s \in server.access : server' = [server EXCEPT !.access = server.access \ {s}]
      BY <2>3 DEF ExpireSession
    <3> QED BY <1>1, <1>2, <2>1, <3>1 DEF Server
  <2>4. CASE RevokePassword
    BY <1>1, <1>2, <2>1, <2>4 DEF RevokePassword, Server
  <2>5. CASE Reconnect
    BY <1>1, <1>2, <2>1, <2>5 DEF Reconnect, Opened, Server
  <2>6. CASE Forget \/ Commit
    BY <1>1, <1>2, <2>1, <2>6 DEF Forget, Commit, Server
  <2> QED BY <1>4, <2>2, <2>3, <2>4, <2>5, <2>6 DEF World
<1>5. ASSUME NEW w \in Workers, Refresh(w) \/ Login(w) \/ Relogin(w) PROVE KeyInv'
  <2>1. UNCHANGED <<kind, posts>>
    BY <1>5 DEF Refresh, Login, Relogin
  <2>2. \/ UNCHANGED server \/ server' = Opened(server)
        \/ server' = [Opened(server) EXCEPT !.refresh = Opened(server).refresh \ {worker[w].session}]
    BY <1>5 DEF Refresh, Login, Relogin
  <2> QED BY <1>1, <1>2, <2>1, <2>2 DEF Opened, Server
<1>6. ASSUME NEW w \in Workers, Send(w) PROVE KeyInv'
  <2> DEFINE post == [images |-> worker[w].images, skipped |-> worker[w].skipped]
  <2>1. kind' = kind /\ server'.forgot = server.forgot
    BY <1>1, <1>6 DEF Send, Publish, Server
  <2>2. posts' = IF Keyed(kind) /\ posts # <<>> /\ ~ server.forgot THEN posts ELSE Append(posts, post)
    BY <1>6 DEF Send, Publish
  <2> HIDE DEF post
  <2>3. CASE posts = <<>>
    <3>1. posts' = <<>> \/ Len(posts') = 1
      BY <1>1, <2>2, <2>3
    <3> QED BY <2>1, <2>2, <2>3, <3>1 DEF KeyInv, Keyed
  <2>4. CASE posts # <<>> /\ Keyed(kind) /\ ~ server.forgot
    BY <2>1, <2>2, <2>4 DEF KeyInv, Keyed
  <2>5. CASE ~ (Keyed(kind) /\ ~ server.forgot)
    BY <2>1, <2>5 DEF KeyInv, Keyed
  <2> QED BY <2>3, <2>4, <2>5
<1>7. ASSUME NEW w \in Workers,
             \/ Claim(w) \/ FindAccount(w) \/ Prepare(w) \/ UseCachedSession(w) \/ StoreSession(w)
             \/ SessionRejected(w) \/ Reread(w) \/ Attach(w) \/ RefuseImage(w) \/ Guard(w)
             \/ Refuse(w) \/ SendExtra(w) \/ LookUpFile(w) \/ StaleSha(w) \/ Settle(w) \/ Crash(w)
      PROVE  KeyInv'
  <2>1. UNCHANGED <<kind, posts, server>>
    BY <1>7 DEF Claim, FindAccount, Prepare, UseCachedSession, StoreSession, SessionRejected, Reread,
       Attach, SkipImage, UploadImage, ImagesDone, RefuseImage, Guard, Refuse, SendExtra, LookUpFile,
       StaleSha, Settle, Crash
  <2> QED BY <1>2, <2>1
<1>8. CASE Next
  BY <1>4, <1>5, <1>6, <1>7, <1>8, StepCases DEF OpenSession, Reauth, Deliver
<1> QED BY <1>3, <1>8

LEMMA CountInit == Init => CountInv /\ KeyInv
<1> SUFFICES ASSUME Init PROVE CountInv /\ KeyInv
  OBVIOUS
<1>1. Len(posts) = 0 /\ excuses = 0
  BY DEF Init
<1>2. Excused = {}
  BY DEF Init, Excused, Sending, At, Idle
<1>3. Cardinality(Excused) = 0
  BY <1>2, FS_EmptySet
<1> QED BY <1>1, <1>3 DEF CountInv, KeyInv

LEMMA CountMeans ==
  ASSUME Bounds, TypeInv, CountInv, KeyInv
  PROVE  NoUnexplainedPost
<1>1. Len(posts) \in Nat /\ excuses \in Nat /\ Cardinality(Excused) \in Nat
  BY ExcusedFinite DEF TypeInv, TypeOK
<1>2. Len(posts) <= 1 + excuses
  <2>1. CASE Recording
    BY <1>1, <2>1 DEF CountInv
  <2>2. CASE ~ Recording
    BY <1>1, <2>2 DEF CountInv
  <2> QED BY <2>1, <2>2
<1> QED BY <1>2 DEF KeyInv, NoUnexplainedPost

\* A dispatch publishes an item again only if nobody could know that it was out: the answer
\* was lost, or the sender, or its claim lapsed past _guard_claim.  For every kind of
\* destination and any number of workers; with a key in the request, not even then.
THEOREM RepeatsAreExplained ==
  ASSUME Bounds
  PROVE  Spec => []NoUnexplainedPost
BY CountMeans, TypeInit, TypeStep, CountInit, CountStep, KeyStep, PTL DEF Spec

\* Every variable of the senders keeps its type.
THEOREM TypeCorrect ==
  ASSUME Bounds
  PROVE  Spec => []TypeOK
<1>1. TypeInv => TypeOK
  BY DEF TypeInv
<1> QED BY <1>1, TypeInit, TypeStep, PTL DEF Spec

-----------------------------------------------------------------------------
(* The inductive invariant as a whole, for the composition.                *)

LEMMA InvInit == Bounds /\ Init => IInv
BY TypeInit, ImagesInit, CauseInit, CountInit DEF IInv

LEMMA InvStep == Bounds /\ IInv /\ [Next]_vars => IInv'
BY TypeStep, ImagesStep, CauseStep, CountStep, KeyStep DEF IInv

LEMMA InvImplies ==
  Bounds /\ IInv => TypeOK /\ NoUnexplainedPost /\ PostsAreWhole /\ GivenUpForCause
BY CountMeans DEF IInv, TypeInv, ImagesInv, Whole, PostsAreWhole, CauseInv, Clean, GivenUpForCause
=============================================================================
