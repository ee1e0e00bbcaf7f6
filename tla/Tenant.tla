-------------------------------- MODULE Tenant --------------------------------
(***************************************************************************)
(* The system besides delivery: the parts of Routes, and the senders of    *)
(* one item (E, taken together with their proofs).  The parts share no     *)
(* variable, so a behaviour moves one part and leaves the others at rest:  *)
(* what holds of a part alone holds here.                                  *)
(***************************************************************************)
EXTENDS Routes

CONSTANTS
  Kinds, NImages, MaxSessions, MaxClaims, MaxEvents,  \* Senders
  ReclaimTicks, MaxAttempts, AttemptBound, Backoff    \* the row they share

VARIABLES
  part,  \* the part that moves
  sendKind, sendRow, sendAccount, sendServer, sendWorker, sendPosts, sendClaims, sendEvents,
  sendExcuses, sendHarm

sendVars == <<sendKind, sendRow, sendAccount, sendServer, sendWorker, sendPosts, sendClaims,
              sendEvents, sendExcuses, sendHarm>>

E == INSTANCE SendersProofs WITH
  Workers <- Requests, Null <- Nobody,
  kind <- sendKind, row <- sendRow, account <- sendAccount, server <- sendServer,
  worker <- sendWorker, posts <- sendPosts, claims <- sendClaims, events <- sendEvents,
  excuses <- sendExcuses, harm <- sendHarm

ASSUME SendersAssumption == E!Bounds

\* The assumptions of PostedItems, for the row that the senders share.
ASSUME RowAssumption ==
  /\ Nobody \notin Requests /\ Nobody \notin Nat
  /\ ReclaimTicks \in Nat \ {0} /\ MaxAttempts \in Nat
  /\ AttemptBound \in Nat /\ AttemptBound > MaxAttempts
  /\ Backoff \in [0..AttemptBound -> Nat \ {0}]

-----------------------------------------------------------------------------
Parts == {"sign_in", "accounts", "oauth", "destinations", "catalog", "reader", "senders"}

\* The variables of a part that does not move.
AtRest == "at rest"
signInRests ==
  /\ account = AtRest /\ links = AtRest /\ failures = AtRest /\ forgotten = AtRest
  /\ cookies = AtRest /\ client = AtRest /\ requests = AtRest /\ faults = AtRest
accountRests ==
  /\ accountUsers = AtRest /\ accountCodes = AtRest /\ accountCharged = AtRest
  /\ accountWorker = AtRest /\ accountPresses = AtRest /\ accountFaults = AtRest
  /\ accountLate = AtRest /\ accountRobbed = AtRest /\ accountResigned = AtRest
oauthRests ==
  /\ oauthUsers = AtRest /\ oauthAccounts = AtRest /\ oauthStates = AtRest /\ oauthApp = AtRest
  /\ oauthSettings = AtRest /\ oauthCookie = AtRest /\ oauthClients = AtRest /\ oauthBindings = AtRest
  /\ oauthCallbacks = AtRest /\ oauthWorker = AtRest /\ oauthUsed = AtRest /\ oauthUnsettled = AtRest
  /\ oauthLate = AtRest
destRests ==
  /\ destRows = AtRest /\ destEchoes = AtRest /\ destWorker = AtRest /\ destPresses = AtRest
  /\ destCrossed = AtRest /\ destTorn = AtRest /\ destBoostedAt = AtRest /\ destLate = AtRest
feedRests ==
  /\ feedFeeds = AtRest /\ feedFolders = AtRest /\ feedWorker = AtRest /\ feedPresses = AtRest
  /\ feedOvertaken = AtRest /\ feedCrossed = AtRest /\ feedTorn = AtRest /\ feedMuted = AtRest
  /\ feedClashed = AtRest /\ feedMoved = AtRest
itemRests ==
  /\ itemRows = AtRest /\ itemNextId = AtRest /\ itemPage = AtRest /\ itemStays = AtRest
  /\ itemMarking = AtRest /\ itemLost = AtRest /\ itemMeanwhile = AtRest /\ itemActs = AtRest
sendRests ==
  /\ sendKind = AtRest /\ sendRow = AtRest /\ sendAccount = AtRest /\ sendServer = AtRest
  /\ sendWorker = AtRest /\ sendPosts = AtRest /\ sendClaims = AtRest /\ sendEvents = AtRest
  /\ sendExcuses = AtRest /\ sendHarm = AtRest

TenantInit ==
  /\ part \in Parts
  /\ IF part = "sign_in"      THEN Init   ELSE signInRests
  /\ IF part = "accounts"     THEN A!Init ELSE accountRests
  /\ IF part = "oauth"        THEN C!Init ELSE oauthRests
  /\ IF part = "destinations" THEN D!Init ELSE destRests
  /\ IF part = "catalog"      THEN F!Init ELSE feedRests
  /\ IF part = "reader"       THEN R!Init ELSE itemRests
  /\ IF part = "senders"      THEN E!Init ELSE sendRests

TenantNext ==
  \/ part = "sign_in" /\ Next
     /\ UNCHANGED <<part, accountVars, oauthVars, destVars, feedVars, itemVars, sendVars>>
  \/ part = "accounts" /\ A!Next
     /\ UNCHANGED <<part, vars, oauthVars, destVars, feedVars, itemVars, sendVars>>
  \/ part = "oauth" /\ C!Next
     /\ UNCHANGED <<part, accountVars, vars, destVars, feedVars, itemVars, sendVars>>
  \/ part = "destinations" /\ D!Next
     /\ UNCHANGED <<part, accountVars, vars, oauthVars, feedVars, itemVars, sendVars>>
  \/ part = "catalog" /\ F!Next
     /\ UNCHANGED <<part, accountVars, vars, oauthVars, destVars, itemVars, sendVars>>
  \/ part = "reader" /\ R!Next
     /\ UNCHANGED <<part, accountVars, vars, oauthVars, destVars, feedVars, sendVars>>
  \/ part = "senders" /\ E!Next
     /\ UNCHANGED <<part, accountVars, vars, oauthVars, destVars, feedVars, itemVars>>

allVars == <<part, vars, accountVars, oauthVars, destVars, feedVars, itemVars, sendVars>>

TenantSpec == TenantInit /\ [][TenantNext]_allVars

-----------------------------------------------------------------------------
\* Every variable of every part keeps its type.
PartsTypeOK ==
  CASE part = "sign_in" -> TypeOK   [] part = "accounts" -> A!TypeOK [] part = "oauth" -> C!TypeOK
    [] part = "catalog" -> F!TypeOK [] part = "reader" -> R!TypeOK   [] part = "senders" -> E!TypeOK
    [] part = "destinations" -> D!TypeOK

\* Sign-in: no session outlives the password or the suspension it was accepted under, a
\* change of the password spends the links, and neither mails nor tries exceed their limits.
SignInIsSound ==
  part = "sign_in" => AcceptedMeansCurrent /\ ChangesSpendLinks /\ MailsAreLimited /\ TriesAreLimited

\* Accounts: everyone who signed up used a code of their own and has an address of their
\* own; an admin remains, whatever admins do to each other at once; nobody pays for a
\* deleted account, and the clean-up takes nobody who pays, except where a checkout ends
\* after the deletion has asked.
AccountsAreSound ==
  part = "accounts" => /\ A!OneCodeEach /\ A!AnAdminRemains
                       /\ A!NoOrphanedCharge /\ A!PayersAreSpared

\* OAuth: a state is good once, an account goes to the user who started the flow and does
\* not outlive them, and a flow can be completed with the stored client.
ConnectionsAreSound ==
  part = "oauth" => /\ C!StatesAreUsedOnce /\ C!AccountsGoToTheirStarter
                    /\ C!DeletedUsersLeaveNothing /\ C!ClientsStayValid

\* Destinations: the cap of the plan, the rows that echoes point at, and the boost of an
\* echo, under requests that overlap.
DestinationsAreSound ==
  part = "destinations" => D!CapIsNearlyKept /\ D!NoDanglingEcho /\ D!BoostStaysHome

\* Feeds and folders: the cap of the plan, the folders feeds are in, the phrases muted, the
\* cursor and the items of a feed, under requests and checks that overlap.
CatalogIsSound ==
  part = "catalog" => /\ F!FeedCapIsNearlyKept /\ F!NoDanglingFolder /\ F!MutesAddUp
                      /\ F!CursorFitsUrl /\ F!DeletedFeedsKeepNothing

\* The reader: pages and the undo of "mark all read" are complete while checks go on.
ReaderIsSound == part = "reader" => R!PagesAreComplete /\ R!UndoKnowsWhatWasMarked

\* The senders: no item twice, no image lost, nothing given up without a cause.
SendersAreSound ==
  part = "senders" => E!NoUnexplainedPost /\ E!PostsAreWhole /\ E!GivenUpForCause

\* What no step may do: accept a superseded link, lose the headers of a webhook that is
\* connected again with the field left blank, prune a newer item before an older one.
StepsAreSound ==
  [][/\ part = "sign_in"      => NewestLinkOnly
     /\ part = "destinations" => D!KeepsSecret(Webhooks)
     /\ part = "reader"       => R!OnlyTheOldestGo]_allVars
=============================================================================
