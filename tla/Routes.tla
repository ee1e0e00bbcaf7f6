-------------------------------- MODULE Routes --------------------------------
(***************************************************************************)
(* What the routes of the web application do besides delivery: signing in  *)
(* (SignIn, which this module extends); signing up, and what admins and    *)
(* the clean-up job do to accounts (A); connecting accounts over OAuth (C); *)
(* keeping destinations and echoes (D), feeds and folders (F), and the     *)
(* items of the reader (R).  Each part has variables of its own, named for *)
(* it; Tenant says how the parts make one system.                          *)
(***************************************************************************)
EXTENDS SignIn

CONSTANTS
  Requests, Nobody,                                   \* of every part
  AccountUsers, Admins, Emails, Codes, Sweepers,      \* Accounts
  AccountPresses, AccountFaults,
  Users, Browsers, States,                            \* OAuthConnect
  MaxClients, MaxCookies, MaxCallbacks,
  Keys, Mastodon, Bluesky, Webhooks, GitHub, Microblog, Given,  \* Destinations
  Rows, Echoes, DestCap, DestPresses,
  Feeds, Urls, Folders, Phrases, Checks, FeedCap, FeedPresses,  \* Catalog
  Items, Date, MaxId, ItemCap, StarCap, PageSize, MaxActs       \* Reader

VARIABLES
  accountUsers, accountCodes, accountCharged, accountWorker, accountPresses, accountFaults,
  accountLate, accountRobbed, accountResigned,
  oauthUsers, oauthAccounts, oauthStates, oauthApp, oauthSettings, oauthCookie, oauthClients,
  oauthBindings, oauthCallbacks, oauthWorker, oauthUsed, oauthUnsettled, oauthLate,
  destRows, destEchoes, destWorker, destPresses, destCrossed, destTorn, destBoostedAt, destLate,
  feedFeeds, feedFolders, feedWorker, feedPresses, feedOvertaken, feedCrossed, feedTorn,
  feedMuted, feedClashed, feedMoved,
  itemRows, itemNextId, itemPage, itemStays, itemMarking, itemLost, itemMeanwhile, itemActs

oauthVars == <<oauthUsers, oauthAccounts, oauthStates, oauthApp, oauthSettings, oauthCookie,
               oauthClients, oauthBindings, oauthCallbacks, oauthWorker, oauthUsed,
               oauthUnsettled, oauthLate>>
destVars == <<destRows, destEchoes, destWorker, destPresses, destCrossed, destTorn, destBoostedAt,
              destLate>>
feedVars == <<feedFeeds, feedFolders, feedWorker, feedPresses, feedOvertaken, feedCrossed,
              feedTorn, feedMuted, feedClashed, feedMoved>>
itemVars == <<itemRows, itemNextId, itemPage, itemStays, itemMarking, itemLost, itemMeanwhile,
              itemActs>>
accountVars == <<accountUsers, accountCodes, accountCharged, accountWorker, accountPresses,
                 accountFaults, accountLate, accountRobbed, accountResigned>>

A == INSTANCE Accounts WITH
  Users <- AccountUsers, MaxPresses <- AccountPresses, MaxFaults <- AccountFaults,
  users <- accountUsers, codes <- accountCodes, charged <- accountCharged,
  worker <- accountWorker, presses <- accountPresses, faults <- accountFaults,
  late <- accountLate, robbed <- accountRobbed, resigned <- accountResigned

C == INSTANCE OAuthConnect WITH
  users <- oauthUsers, accounts <- oauthAccounts, states <- oauthStates, app <- oauthApp,
  settings <- oauthSettings, cookie <- oauthCookie, clients <- oauthClients,
  bindings <- oauthBindings, callbacks <- oauthCallbacks, worker <- oauthWorker,
  used <- oauthUsed, unsettled <- oauthUnsettled, late <- oauthLate

D == INSTANCE Destinations WITH
  Cap <- DestCap, MaxPresses <- DestPresses,
  rows <- destRows, echoes <- destEchoes, worker <- destWorker, presses <- destPresses,
  crossed <- destCrossed, torn <- destTorn, boostedAt <- destBoostedAt, late <- destLate

F == INSTANCE Catalog WITH
  Cap <- FeedCap, MaxPresses <- FeedPresses,
  feeds <- feedFeeds, folders <- feedFolders, worker <- feedWorker, presses <- feedPresses,
  overtaken <- feedOvertaken, crossed <- feedCrossed, torn <- feedTorn, muted <- feedMuted,
  clashed <- feedClashed, moved <- feedMoved

R == INSTANCE Reader WITH
  Cap <- ItemCap,
  rows <- itemRows, nextId <- itemNextId, page <- itemPage, stays <- itemStays,
  marking <- itemMarking, lost <- itemLost, meanwhile <- itemMeanwhile, acts <- itemActs

ASSUME DeploymentAssumption == A!Deployment
ASSUME BoundsAssumption == C!Bounds /\ D!Bounds /\ F!Bounds /\ R!Bounds
=============================================================================
