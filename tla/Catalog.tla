------------------------------- MODULE Catalog -------------------------------
(***************************************************************************)
(* The feeds and folders of one tenant (feed, folder and OPML routes of    *)
(* src/app.py), the muted phrases of a feed, and what a check that runs    *)
(* meanwhile leaves in them (check_feed and _store_feed_items of           *)
(* src/scheduler.py).  As in the other routes, a request reads and then    *)
(* writes, and nothing keeps another request out between the two.          *)
(***************************************************************************)
EXTENDS Integers, FiniteSets

CONSTANTS
  Feeds,      \* ids of feeds
  Urls,
  Folders,
  Phrases,    \* phrases that may be muted
  Requests, Checks,  \* workers: requests, and runs of check_feed
  Nobody,
  Cap,        \* max_feeds of the plan
  MaxPresses  \* requests and checks (bound of the model)

Bounds ==
  /\ IsFiniteSet(Feeds) /\ Cap \in Nat \ {0} /\ MaxPresses \in Nat
  /\ Nobody \notin Feeds \cup Urls \cup Folders \cup Phrases

Workers == Requests \cup Checks

VARIABLES
  feeds,     \* the feeds rows
  folders,   \* folders that exist
  worker,    \* program counter and locals
  presses,
  overtaken, \* requests past the cap since when another one stored a feed or moved one (history)
  crossed,   \* feeds that such requests stored (history)
  torn,      \* folders deleted while a request was about to put a feed into them (history)
  muted,     \* phrases muted by an answered request and not unmuted since (history)
  clashed,   \* feeds whose muted phrases two requests rewrote at the same time, or a form (history)
  moved      \* feeds edited while a check, or another edit, was at them, or deleted while
             \* a check was (history)

vars == <<feeds, folders, worker, presses, overtaken, crossed, torn, muted, clashed, moved>>
cap == <<overtaken, crossed>>

Feed == [there  : {"never", "yes", "deleted"},
         url    : Urls \cup {Nobody},
         folder : Folders \cup {Nobody},
         mutes  : SUBSET Phrases,
         cursor : Urls \cup {Nobody},   \* the URL the cursor was taken from
         items  : BOOLEAN]              \* there are feed_items rows

NoFeed == [there |-> "never", url |-> Nobody, folder |-> Nobody, mutes |-> {},
           cursor |-> Nobody, items |-> FALSE]

Worker == [pc     : {"idle", "add", "import", "edit", "file", "clear", "mute", "unmute", "fetched",
                     "close"},
           feed   : Feeds \cup {Nobody},
           url    : Urls \cup {Nobody},
           folder : Folders \cup {Nobody},
           mutes  : SUBSET Phrases,
           phrase : Phrases \cup {Nobody},
           was    : Urls \cup {Nobody},   \* the URL an edit read
           todo   : SUBSET Urls,          \* outlines an import has not come to
           known  : SUBSET Urls]          \* existing_urls of an import

Rest == [pc |-> "idle", feed |-> Nobody, url |-> Nobody, folder |-> Nobody, mutes |-> {},
         phrase |-> Nobody, was |-> Nobody, todo |-> {}, known |-> {}]

TypeOK ==
  /\ feeds \in [Feeds -> Feed]
  /\ folders \subseteq Folders
  /\ worker \in [Workers -> Worker]
  /\ presses \in 0..MaxPresses
  /\ overtaken \subseteq Requests /\ crossed \in Nat
  /\ torn \subseteq Folders
  /\ muted \in [Feeds -> SUBSET Phrases]
  /\ clashed \subseteq Feeds /\ moved \subseteq Feeds

Live   == {f \in Feeds : feeds[f].there = "yes"}
At(u)  == {f \in Live : feeds[f].url = u}
Unborn == {f \in Feeds : feeds[f].there = "never"}
Taken  == {feeds[f].url : f \in Live}

\* Requests that the cap has let pass and that have not stored their feed.
Past == {w \in Requests : worker[w].pc \in {"add", "import"} /\ worker[w].url # Nobody}

\* One feed to begin with, and all folders.
Init ==
  /\ \E f \in Feeds, u \in Urls :
       /\ f = CHOOSE g \in Feeds : TRUE
       /\ feeds = [g \in Feeds |-> IF g = f THEN [NoFeed EXCEPT !.there = "yes", !.url = u]
                                            ELSE NoFeed]
  /\ folders = Folders
  /\ worker = [w \in Workers |-> Rest]
  /\ presses = 0
  /\ overtaken = {} /\ crossed = 0
  /\ torn = {} /\ clashed = {} /\ moved = {}
  /\ muted = [f \in Feeds |-> {}]

\* A worker goes on; two that are at the same thing are remembered.
Becomes(w, j) ==
  /\ worker' = [worker EXCEPT ![w] = j]
  /\ LET at(S) == {v \in Workers : worker'[v].pc \in S} IN
     /\ torn' = torn \cup {d \in Folders : \E v \in at({"clear"}), x \in at({"add", "import", "edit", "file"}) :
                             worker'[v].folder = d /\ worker'[x].folder = d}
     /\ clashed' = clashed \cup {f \in Feeds : \E v \in at({"mute", "unmute"}), x \in at({"mute", "unmute", "edit"}) :
                                   v # x /\ worker'[v].feed = f /\ worker'[x].feed = f}
     /\ moved' = moved \cup {f \in Feeds : \E v \in at({"edit"}), x \in at({"edit", "fetched", "close"}) :
                               v # x /\ worker'[v].feed = f /\ worker'[x].feed = f}

Begin(w, kind, j) ==
  /\ w \in kind /\ worker[w].pc = "idle"
  /\ presses < MaxPresses /\ presses' = presses + 1
  /\ Becomes(w, j)
  /\ UNCHANGED <<feeds, folders, cap, muted>>

Finish(w) == Becomes(w, Rest) /\ UNCHANGED presses

-----------------------------------------------------------------------------
(* Adding feeds.                                                           *)

\* plans.check_feed_allowance, for a URL that is new
UnderCap(u) == At(u) # {} \/ Cardinality(Live) < Cap

\* A folder that is not there is forgotten.
Filed(d) == IF d \in folders THEN d ELSE Nobody

\* add_feed
AddFeed(w, u, d) ==
  /\ UnderCap(u)
  /\ Begin(w, Requests, [Rest EXCEPT !.pc = "add", !.url = u, !.folder = Filed(d)])

\* The insert of a URL that no live feed has.
Inserted(u, d) ==
  LET f == CHOOSE f \in Unborn : TRUE IN
  [feeds EXCEPT ![f] = [NoFeed EXCEPT !.there = "yes", !.url = u, !.folder = d]]

\* ON CONFLICT (user_id, url) DO UPDATE SET folder_id
Refiled(u, d) ==
  [f \in Feeds |-> IF f \in At(u) THEN [feeds[f] EXCEPT !.folder = d] ELSE feeds[f]]

\* A write of feeds: the others past the cap may not know of it.
Overtakes(w) ==
  /\ crossed' = IF w \in overtaken /\ ~ (Taken' \subseteq Taken) THEN crossed + 1 ELSE crossed
  /\ overtaken' = (overtaken \ {w}) \cup (IF Taken' \subseteq Taken THEN {} ELSE Past \ {w})

StoreFeed(w) ==
  LET u == worker[w].url
      d == worker[w].folder IN
  /\ worker[w].pc = "add"
  /\ At(u) = {} => Unborn # {}
  /\ feeds' = IF At(u) = {} THEN Inserted(u, d) ELSE Refiled(u, d)
  /\ Overtakes(w)
  /\ Finish(w)
  /\ UNCHANGED <<folders, muted>>

\* import_opml reads the URLs and the folders there are (the outlines are in one of
\* them, or in none) ...
ImportOpml(w, us, d) ==
  /\ us # {}
  /\ Begin(w, Requests, [Rest EXCEPT !.pc = "import", !.todo = us, !.folder = Filed(d),
                                     !.known = {feeds[f].url : f \in Live}])

\* ... and goes through the outlines: known ones, and those over the cap, are skipped ...
TakeOutline(w) ==
  /\ worker[w].pc = "import" /\ worker[w].url = Nobody /\ worker[w].todo # {}
  /\ \E u \in worker[w].todo :
       LET next == [worker[w] EXCEPT !.todo = @ \ {u}] IN
       Becomes(w, IF u \in worker[w].known \/ Cardinality(Live) >= Cap THEN next
                  ELSE [next EXCEPT !.url = u])
  /\ UNCHANGED <<feeds, folders, presses, cap, muted>>

\* ... the others inserted, unless another request was faster.
InsertOutline(w) ==
  LET u == worker[w].url IN
  /\ worker[w].pc = "import" /\ u # Nobody
  /\ At(u) = {} => Unborn # {}
  /\ feeds' = IF At(u) = {} THEN Inserted(u, worker[w].folder) ELSE feeds
  /\ Overtakes(w)
  /\ Becomes(w, [worker[w] EXCEPT !.known = @ \cup {u}, !.url = Nobody])
  /\ UNCHANGED <<folders, presses, muted>>

EndImport(w) ==
  /\ worker[w].pc = "import" /\ worker[w].url = Nobody /\ worker[w].todo = {}
  /\ Finish(w)
  /\ UNCHANGED <<feeds, folders, cap, muted>>

-----------------------------------------------------------------------------
(* Changing feeds.                                                         *)

\* edit_feed reads the URL; the form brings the muted phrases as it was filled in.
EditFeed(w, f, u, d, ms) ==
  /\ f \in Live
  /\ Begin(w, Requests, [Rest EXCEPT !.pc = "edit", !.feed = f, !.url = u, !.folder = Filed(d),
                                     !.mutes = ms, !.was = feeds[f].url])

\* (slip: the cursor is kept)
WriteEditKeepingCursor(w) ==
  LET job == worker[w] IN
  /\ job.pc = "edit" /\ At(job.url) \subseteq {job.feed}
  /\ feeds' = [feeds EXCEPT ![job.feed] = IF job.feed \in Live
       THEN [@ EXCEPT !.url = job.url, !.folder = job.folder, !.mutes = job.mutes] ELSE @]
  /\ muted' = [muted EXCEPT ![job.feed] = job.mutes]
  /\ Overtakes(w)
  /\ Finish(w)
  /\ UNCHANGED folders

\* The write; a new URL takes the cursor away.
WriteEdit(w) ==
  LET job == worker[w]
      new == [feeds[job.feed] EXCEPT !.url = job.url, !.folder = job.folder, !.mutes = job.mutes]
  IN
  /\ job.pc = "edit"
  /\ IF job.feed \in Live /\ At(job.url) \subseteq {job.feed}
     THEN /\ feeds' = [feeds EXCEPT ![job.feed] =
                         IF job.was # job.url THEN [new EXCEPT !.cursor = Nobody] ELSE new]
          /\ muted' = [muted EXCEPT ![job.feed] = job.mutes]
     ELSE UNCHANGED <<feeds, muted>>   \* the feed is gone, or the URL is another feed's (error 500)
  /\ Overtakes(w)
  /\ Finish(w)
  /\ UNCHANGED folders

\* set_feed_folder
FileFeed(w, f, d) ==
  /\ f \in Live /\ d \in folders \cup {Nobody}
  /\ Begin(w, Requests, [Rest EXCEPT !.pc = "file", !.feed = f, !.folder = d])

WriteFolder(w) ==
  /\ worker[w].pc = "file"
  /\ feeds' = [feeds EXCEPT ![worker[w].feed].folder = worker[w].folder]
  /\ Finish(w)
  /\ UNCHANGED <<folders, cap, muted>>

\* delete_folder
DeleteFolder(w, d) ==
  /\ d \in folders
  /\ Begin(w, Requests, [Rest EXCEPT !.pc = "clear", !.folder = d])

\* The feeds leave the folder, then it goes, in one transaction.
DropFolder(w) ==
  /\ worker[w].pc = "clear"
  /\ feeds' = [f \in Feeds |-> IF feeds[f].folder = worker[w].folder
                               THEN [feeds[f] EXCEPT !.folder = Nobody] ELSE feeds[f]]
  /\ folders' = folders \ {worker[w].folder}
  /\ Finish(w)
  /\ UNCHANGED <<cap, muted>>

\* delete_feed: the row loses its URL, the reader's items go with it.
DeleteFeed(f) ==
  /\ f \in Live
  /\ presses < MaxPresses /\ presses' = presses + 1
  /\ feeds' = [feeds EXCEPT ![f] = [@ EXCEPT !.there = "deleted", !.url = Nobody, !.items = FALSE]]
  /\ moved' = IF \E w \in Checks : worker[w].feed = f THEN moved \cup {f} ELSE moved
  /\ UNCHANGED <<folders, worker, cap, torn, muted, clashed>>

\* reader_mute and reader_unmute: the phrases are read ...
Mute(w, f, p) ==
  /\ f \in Live
  /\ Begin(w, Requests, [Rest EXCEPT !.pc = "mute", !.feed = f, !.phrase = p,
                                     !.mutes = feeds[f].mutes])

Unmute(w, f, p) ==
  /\ f \in Live
  /\ Begin(w, Requests, [Rest EXCEPT !.pc = "unmute", !.feed = f, !.phrase = p,
                                     !.mutes = feeds[f].mutes])

\* ... and written as a whole, if the phrase makes a difference to what was read.
WriteMutes(w) ==
  LET job == worker[w]
      new == IF job.pc = "mute" THEN job.mutes \cup {job.phrase} ELSE job.mutes \ {job.phrase}
  IN
  /\ job.pc \in {"mute", "unmute"}
  /\ feeds' = [feeds EXCEPT ![job.feed].mutes = IF new # job.mutes THEN new ELSE @]
  /\ muted' = [muted EXCEPT ![job.feed] = IF job.pc = "mute" THEN @ \cup {job.phrase}
                                                             ELSE @ \ {job.phrase}]
  /\ Finish(w)
  /\ UNCHANGED <<folders, cap>>

-----------------------------------------------------------------------------
(* A check of the feed (FeedDelivery has the rest of it).                  *)

StartCheck(w, f) ==
  /\ f \in Live
  /\ \A v \in Checks : worker[v].feed # f     \* the feed's lease
  /\ Begin(w, Checks, [Rest EXCEPT !.pc = "fetched", !.feed = f, !.was = feeds[f].url])

\* _store_feed_items: by the feed's id, whatever has become of it.
StoreItems(w) ==
  /\ worker[w].pc = "fetched"
  /\ feeds' = [feeds EXCEPT ![worker[w].feed].items = TRUE]
  /\ Becomes(w, [worker[w] EXCEPT !.pc = "close"])
  /\ UNCHANGED <<folders, presses, cap, muted>>

\* _update_cursor: behind the lease, which neither an edit nor a deletion takes away.
WriteCursor(w) ==
  /\ worker[w].pc = "close"
  /\ feeds' = [feeds EXCEPT ![worker[w].feed].cursor = worker[w].was]
  /\ Finish(w)
  /\ UNCHANGED <<folders, cap, muted>>

-----------------------------------------------------------------------------
Adding(w) ==
  \/ \E u \in Urls, d \in Folders \cup {Nobody} : AddFeed(w, u, d)
  \/ StoreFeed(w)
  \/ \E us \in SUBSET Urls, d \in Folders \cup {Nobody} : ImportOpml(w, us, d)
  \/ TakeOutline(w) \/ InsertOutline(w) \/ EndImport(w)

Changing(w) ==
  \/ \E f \in Feeds, u \in Urls, d \in Folders \cup {Nobody}, ms \in SUBSET Phrases :
       EditFeed(w, f, u, d, ms)
  \/ \E f \in Feeds, d \in Folders \cup {Nobody} : FileFeed(w, f, d)
  \/ \E d \in Folders : DeleteFolder(w, d)
  \/ \E f \in Feeds, p \in Phrases : Mute(w, f, p) \/ Unmute(w, f, p)
  \/ WriteEdit(w) \/ WriteFolder(w) \/ DropFolder(w) \/ WriteMutes(w)

Checking(w) == StoreItems(w) \/ WriteCursor(w) \/ \E f \in Feeds : StartCheck(w, f)

Next ==
  \/ \E w \in Workers : Adding(w) \/ Changing(w) \/ Checking(w)
  \/ \E f \in Feeds : DeleteFeed(f)

Spec == Init /\ [][Next]_vars

-----------------------------------------------------------------------------
\* The feeds stay within the plan's cap, but for those stored by a request that was overtaken
\* between its check of the cap and its insert.
FeedCapIsNearlyKept == Cardinality(Live) <= Cap + crossed

\* A feed is in a folder that exists, unless the folder was being deleted while a request
\* was putting a feed into it.
NoDanglingFolder ==
  \A f \in Feeds : feeds[f].folder \in folders \cup torn \cup {Nobody}

\* A phrase that a request muted stays muted until one unmutes it, unless another request
\* was rewriting the phrases of the feed at the same time.
MutesAddUp ==
  \A f \in Feeds : f \in clashed \/ muted[f] \subseteq feeds[f].mutes

\* A cursor was taken from the URL the feed has, unless the URL was edited while a check
\* of the feed was running, or another edit.
CursorFitsUrl ==
  \A f \in Live : feeds[f].cursor \in {Nobody, feeds[f].url} \/ f \in moved

\* Of a deleted feed no items are kept, unless a check of it was running.
DeletedFeedsKeepNothing ==
  \A f \in Feeds : feeds[f].there = "deleted" /\ feeds[f].items => f \in moved
=============================================================================
