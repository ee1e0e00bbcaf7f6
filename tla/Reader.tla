-------------------------------- MODULE Reader --------------------------------
(***************************************************************************)
(* The reader's items of one feed (_store_feed_items of src/scheduler.py,  *)
(* prune_feed_items of src/database.py, the reader routes of src/app.py):  *)
(* what a check stores and prunes, the pages a reader scrolls through      *)
(* while checks go on, and marking everything read with its undo.          *)
(***************************************************************************)
EXTENDS Naturals, FiniteSets

CONSTANTS
  Items,     \* items the feed may publish
  Date,      \* the date of each item; 0: none
  MaxId,     \* rows stored (bound of the model)
  Cap,       \* READER_MAX_ITEMS_PER_FEED
  StarCap,   \* READER_MAX_STARRED_PER_FEED; 0: none
  PageSize,  \* READER_PAGE_SIZE
  MaxActs    \* checks and requests that change rows (bound of the model)

Bounds ==
  /\ IsFiniteSet(Items) /\ Date \in [Items -> Nat]
  /\ MaxId \in Nat /\ Cap \in Nat /\ StarCap \in Nat /\ PageSize \in Nat \ {0} /\ MaxActs \in Nat

Ids == 1..MaxId

VARIABLES
  rows,      \* feed_items: id -> item, read, starred; ids grow
  nextId,
  page,      \* the list a reader scrolls through, and what it has shown
  stays,     \* rows visible in the list since it was opened (history)
  marking,   \* a "mark all read" between its SELECT and its UPDATE, and the undo list
  lost,      \* rows marked read that the undo list lacks (history)
  meanwhile, \* rows that became unread between SELECT and UPDATE (history)
  acts

vars == <<rows, nextId, page, stays, marking, lost, meanwhile, acts>>

Row == [item : Items, read : BOOLEAN, star : BOOLEAN]

TypeOK ==
  /\ \E S \in SUBSET Ids : rows \in [S -> Row]
  /\ nextId \in 1..MaxId + 1
  /\ page \in [view : {"none", "all", "unread"}, cursor : 0..MaxId, date : Nat,
               shown : SUBSET Ids, twice : BOOLEAN, done : BOOLEAN]
  /\ stays \subseteq Ids
  /\ marking \in [pc : {"idle", "update", "done"}, ids : SUBSET Ids]
  /\ lost \subseteq Ids /\ meanwhile \subseteq Ids
  /\ acts \in 0..MaxActs

NoPage == [view |-> "none", cursor |-> 0, date |-> 0, shown |-> {}, twice |-> FALSE, done |-> FALSE]

Init ==
  /\ rows = [i \in {} |-> [item |-> CHOOSE x \in Items : TRUE, read |-> FALSE, star |-> FALSE]]
  /\ nextId = 1
  /\ page = NoPage
  /\ stays = {}
  /\ marking = [pc |-> "idle", ids |-> {}]
  /\ lost = {} /\ meanwhile = {}
  /\ acts = 0

There == DOMAIN rows

Visible(rs, view) == {i \in DOMAIN rs : view = "all" \/ (view = "unread" /\ ~ rs[i].read)}

\* Every step: what has disappeared from the list does not count as staying.
Watch == stays' = stays \cap Visible(rows', page.view)

Act == acts < MaxActs /\ acts' = acts + 1

-----------------------------------------------------------------------------
(* Checks.                                                                 *)

\* ORDER BY published_at IS NULL, published_at DESC, id DESC
BeforeBy(d, i, e, j) ==
  \/ d # 0 /\ e = 0
  \/ d # 0 /\ e # 0 /\ d > e
  \/ d = e /\ i > j

DateOf(rs, i) == Date[rs[i].item]

\* (slip: without "published_at IS NULL", as PostgreSQL sorts)
NewestNullsFirst(rs, S, n) ==
  {i \in S : Cardinality({j \in S : \/ DateOf(rs, j) = 0 /\ DateOf(rs, i) # 0
                                    \/ DateOf(rs, j) > DateOf(rs, i) /\ DateOf(rs, i) # 0
                                    \/ DateOf(rs, j) = DateOf(rs, i) /\ j > i}) < n}

\* The first n of S in that order.
Newest(rs, S, n) ==
  {i \in S : Cardinality({j \in S : BeforeBy(DateOf(rs, j), j, DateOf(rs, i), i)}) < n}

Only(rs, S) == [i \in S |-> rs[i]]

\* prune_feed_items
Pruned(rs) ==
  LET starred == {i \in DOMAIN rs : rs[i].star}
      plain   == DOMAIN rs \ starred
  IN Only(rs, Newest(rs, plain, Cap)
                \cup (IF StarCap = 0 THEN starred ELSE Newest(rs, starred, StarCap)))

\* _store_feed_items: the items without a row get the next ids, in the order of the
\* document; the rows there are keep their flags; then the feed is pruned.
Check(doc) ==
  LET new == {x \in doc : \A i \in There : rows[i].item # x}
      ids == nextId .. nextId + Cardinality(new) - 1
  IN
  /\ Act
  /\ ids \subseteq Ids
  /\ \E at \in [ids -> new] :
       /\ \A i, j \in ids : at[i] = at[j] => i = j
       /\ rows' = Pruned([i \in There \cup ids |->
            IF i \in ids THEN [item |-> at[i], read |-> FALSE, star |-> FALSE] ELSE rows[i]])
  /\ nextId' = nextId + Cardinality(new)
  /\ meanwhile' = IF marking.pc = "update" THEN meanwhile \cup ids ELSE meanwhile
  /\ Watch
  /\ UNCHANGED <<page, marking, lost>>

-----------------------------------------------------------------------------
(* The list: keyset pagination.                                            *)

Open(view) ==
  /\ page.view = "none"
  /\ page' = [NoPage EXCEPT !.view = view]
  /\ stays' = Visible(rows, view)
  /\ UNCHANGED <<rows, nextId, marking, lost, meanwhile, acts>>

\* (slip: rows of the cursor's date are taken for shown)
AfterByDate(i) ==
  \/ page.cursor = 0
  \/ page.date # 0 /\ (DateOf(rows, i) = 0 \/ DateOf(rows, i) < page.date)
  \/ page.date = 0 /\ DateOf(rows, i) = 0 /\ i < page.cursor

\* _reader_keyset
After(i) ==
  \/ page.cursor = 0
  \/ page.date # 0 /\ \/ DateOf(rows, i) = 0
                      \/ DateOf(rows, i) < page.date
                      \/ DateOf(rows, i) = page.date /\ i < page.cursor
  \/ page.date = 0 /\ DateOf(rows, i) = 0 /\ i < page.cursor

\* reader_page: the next page; a cursor is given only if there is more.
More ==
  LET list == {i \in Visible(rows, page.view) : After(i)}
      got  == Newest(rows, list, PageSize)
      last == CHOOSE i \in got : Newest(rows, got, Cardinality(got) - 1) = got \ {i}
  IN
  /\ page.view # "none" /\ ~ page.done
  /\ page' = [page EXCEPT !.shown = @ \cup got,
                          !.twice = @ \/ got \cap page.shown # {},
                          !.done = got = list,
                          !.cursor = IF got = list THEN @ ELSE last,
                          !.date = IF got = list THEN @ ELSE DateOf(rows, last)]
  /\ UNCHANGED <<rows, nextId, stays, marking, lost, meanwhile, acts>>

Close ==
  /\ page.view # "none"
  /\ page' = NoPage /\ stays' = {}
  /\ UNCHANGED <<rows, nextId, marking, lost, meanwhile, acts>>

-----------------------------------------------------------------------------
(* Flags.                                                                  *)

ToggleRead(i) ==
  /\ i \in There /\ Act
  /\ rows' = [rows EXCEPT ![i].read = ~ @]
  /\ meanwhile' = IF marking.pc = "update" THEN meanwhile \cup {i} ELSE meanwhile
  /\ Watch
  /\ UNCHANGED <<nextId, page, marking, lost>>

ToggleStar(i) ==
  /\ i \in There /\ Act
  /\ rows' = [rows EXCEPT ![i].star = ~ @]
  /\ Watch
  /\ UNCHANGED <<nextId, page, marking, lost, meanwhile>>

\* reader_mark_read: what has been scrolled past.
MarkShown ==
  /\ page.shown # {} /\ Act
  /\ rows' = [i \in There |-> IF i \in page.shown THEN [rows[i] EXCEPT !.read = TRUE] ELSE rows[i]]
  /\ Watch
  /\ UNCHANGED <<nextId, page, marking, lost, meanwhile>>

Unread == {i \in There : ~ rows[i].read}

\* reader_mark_all_read: the ids for the undo ...
SelectUnread ==
  /\ marking.pc = "idle" /\ Act
  /\ marking' = [pc |-> "update", ids |-> Unread]
  /\ meanwhile' = {} /\ lost' = {}
  /\ UNCHANGED <<rows, nextId, page, stays>>

\* ... and the UPDATE, which marks whatever is unread by then.
UpdateUnread ==
  /\ marking.pc = "update"
  /\ rows' = [i \in There |-> [rows[i] EXCEPT !.read = TRUE]]
  /\ lost' = Unread \ marking.ids
  /\ marking' = [marking EXCEPT !.pc = "done"]
  /\ Watch
  /\ UNCHANGED <<nextId, page, meanwhile, acts>>

\* reader_mark_unread: the undo.
Undo ==
  /\ marking.pc = "done" /\ Act
  /\ rows' = [i \in There |-> IF i \in marking.ids THEN [rows[i] EXCEPT !.read = FALSE] ELSE rows[i]]
  /\ marking' = [pc |-> "idle", ids |-> {}]
  /\ Watch
  /\ UNCHANGED <<nextId, page, lost, meanwhile>>

-----------------------------------------------------------------------------
Next ==
  \/ \E doc \in SUBSET Items : Check(doc)
  \/ \E view \in {"all", "unread"} : Open(view)
  \/ More \/ Close
  \/ \E i \in Ids : ToggleRead(i) \/ ToggleStar(i)
  \/ MarkShown \/ SelectUnread \/ UpdateUnread \/ Undo

Spec == Init /\ [][Next]_vars

-----------------------------------------------------------------------------
\* Whoever scrolls to the end has seen every row that was in the list all the time, and
\* no row twice, whatever checks and other requests stored, pruned or marked meanwhile.
PagesAreComplete == ~ page.twice /\ (page.done => stays \subseteq page.shown)

\* The undo of "mark all read" knows every row that was marked, except those that became
\* unread after the list was made.
UndoKnowsWhatWasMarked == lost \subseteq meanwhile

\* A row that a check removes is older than the rows of its kind that the check keeps, and
\* a starred row goes only for other starred ones.
OnlyTheOldestGo ==
  \A i \in There \ DOMAIN rows' :
    LET kin == {j \in DOMAIN rows' : rows'[j].star = rows[i].star} IN
    /\ Cardinality(kin) >= IF rows[i].star THEN StarCap ELSE Cap
    /\ rows[i].star => StarCap # 0
    /\ \A j \in kin : Date[rows[i].item] = 0 \/ Date[rows'[j].item] >= Date[rows[i].item]
=============================================================================
