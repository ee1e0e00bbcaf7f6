---------------------------- MODULE TenantProofs ----------------------------
(***************************************************************************)
(* The invariants of Tenant: the part that moves keeps its own invariant   *)
(* (RoutesProofs, SendersProofs), and the others rest.                     *)
(***************************************************************************)
EXTENDS Tenant, RoutesProofs

-----------------------------------------------------------------------------
(* All parts.                                                              *)

\* The part that moves keeps its own invariant.
TenantInv ==
  /\ part \in Parts
  /\ part = "sign_in"     => IInv /\ NewestInv
  /\ part = "accounts"    => AccountIInv
  /\ part = "oauth"       => OAuthIInv
  /\ part = "destinations"=> DestIInv
  /\ part = "catalog"     => FeedIInv
  /\ part = "reader"      => ItemIInv
  /\ part = "senders"     => E!IInv

LEMMA Assumed == A!Deployment /\ C!Bounds /\ D!Bounds /\ F!Bounds /\ R!Bounds /\ E!Bounds
BY DeploymentAssumption, BoundsAssumption, SendersAssumption

LEMMA TenantInvInit == TenantInit => TenantInv
<1> SUFFICES ASSUME TenantInit PROVE TenantInv
  OBVIOUS
<1>1. part = "sign_in" => IInv /\ NewestInv
  BY Assumed, InitOK, NewestInit DEF TenantInit
<1>2. part = "accounts" => AccountIInv
  BY Assumed, AccountInvInit DEF TenantInit
<1>3. part = "oauth" => OAuthIInv
  BY Assumed, OAuthInvInit DEF TenantInit
<1>4. part = "destinations" => DestIInv
  BY Assumed, DestInvInit DEF TenantInit
<1>5. part = "catalog" => FeedIInv
  BY Assumed, FeedInvInit DEF TenantInit
<1>6. part = "reader" => ItemIInv
  BY Assumed, ItemInvInit DEF TenantInit
<1>7. part = "senders" => E!IInv
  BY Assumed, E!InvInit, RowAssumption DEF TenantInit
<1> QED BY <1>1, <1>2, <1>3, <1>4, <1>5, <1>6, <1>7 DEF TenantInit, TenantInv

LEMMA TenantInvStep == TenantInv /\ [TenantNext]_allVars => TenantInv'
<1> SUFFICES ASSUME TenantInv, [TenantNext]_allVars PROVE TenantInv'
  OBVIOUS
<1> part \in Parts /\ part' = part
  BY DEF TenantInv, TenantNext, allVars
<1>1. CASE part = "sign_in"
  <2>1. [Next]_vars
    BY <1>1 DEF TenantNext, allVars, vars
  <2> QED BY <1>1, <2>1, StepOK, NewestStep DEF TenantInv
<1>2. CASE part = "accounts"
  <2>1. [A!Next]_A!vars
    BY <1>2 DEF TenantNext, allVars, accountVars, A!vars
  <2> QED BY <1>2, <2>1, Assumed, AccountInvStep DEF TenantInv
<1>3. CASE part = "oauth"
  <2>1. [C!Next]_C!vars
    BY <1>3 DEF TenantNext, allVars, oauthVars, C!vars
  <2> QED BY <1>3, <2>1, Assumed, OAuthInvStep DEF TenantInv
<1>4. CASE part = "destinations"
  <2>1. [D!Next]_D!vars
    BY <1>4 DEF TenantNext, allVars, destVars, D!vars
  <2> QED BY <1>4, <2>1, Assumed, DestInvStep DEF TenantInv
<1>5. CASE part = "catalog"
  <2>1. [F!Next]_F!vars
    BY <1>5 DEF TenantNext, allVars, feedVars, F!vars
  <2> QED BY <1>5, <2>1, Assumed, FeedInvStep DEF TenantInv
<1>6. CASE part = "reader"
  <2>1. [R!Next]_R!vars
    BY <1>6 DEF TenantNext, allVars, itemVars, R!vars
  <2> QED BY <1>6, <2>1, Assumed, ItemInvStep DEF TenantInv
<1>7. CASE part = "senders"
  <2>1. [E!Next]_E!vars
    BY <1>7 DEF TenantNext, allVars, sendVars, E!vars
  <2> QED BY <1>7, <2>1, Assumed, E!InvStep, RowAssumption DEF TenantInv
<1> QED BY <1>1, <1>2, <1>3, <1>4, <1>5, <1>6, <1>7 DEF Parts

LEMMA TenantInvHolds == TenantSpec => []TenantInv
BY TenantInvInit, TenantInvStep, PTL DEF TenantSpec

\* Every variable of the part that moves keeps its type, whatever is pressed and in
\* whatever order requests, checks, callbacks and jobs overlap.
THEOREM PartsKeepTheirTypes == TenantSpec => []PartsTypeOK
<1>1. TenantInv => PartsTypeOK
  BY Assumed, RowAssumption, Means, AccountInvImplies, OAuthInvImplies, DestInvImplies, FeedInvImplies,
     ItemInvImplies, E!InvImplies DEF TenantInv, Parts, PartsTypeOK
<1> QED BY <1>1, TenantInvHolds, PTL

\* A session is good for the password and the epoch it was accepted under, a change of
\* the password spends a link, and mails and tries are limited (_session_user,
\* consume_token, resend_allowed, _login_multi_mode).
THEOREM SignInHolds == TenantSpec => []SignInIsSound
<1>1. TenantInv => SignInIsSound
  BY Means DEF TenantInv, SignInIsSound
<1> QED BY <1>1, TenantInvHolds, PTL

\* One code and one address for each user, an admin always, no charge for the deleted, and
\* a clean-up that spares payers (register_submit, _hard_delete_user,
\* cleanup_pending_accounts).
THEOREM AccountsHold == TenantSpec => []AccountsAreSound
<1>1. TenantInv => AccountsAreSound
  BY AccountInvImplies DEF TenantInv, AccountsAreSound
<1> QED BY <1>1, TenantInvHolds, PTL

\* A state is accepted once, an account goes to whoever started its flow, a deleted user
\* leaves no account unless a request of theirs was running, and a flow can be completed
\* with the stored client unless registrations overlapped or the settings changed, for any
\* number of overlapping flows (oauth_connect, oauth_callback, get_or_create_app).
THEOREM ConnectionsHold == TenantSpec => []ConnectionsAreSound
<1>1. TenantInv => ConnectionsAreSound
  BY OAuthInvImplies DEF TenantInv, ConnectionsAreSound
<1> QED BY <1>1, TenantInvHolds, PTL

\* Requests that pass the cap of the plan together exceed it by no more than they bring;
\* an echo points at a destination that is connected unless its disconnection overlapped
\* the saving; and the boost of an echo was switched on for the destination it has, unless
\* that overlapped an edit (the routes of destinations and echoes).
THEOREM DestinationsHold == TenantSpec => []DestinationsAreSound
<1>1. TenantInv => DestinationsAreSound
  BY Assumed, DestInvImplies DEF TenantInv, DestinationsAreSound
<1> QED BY <1>1, TenantInvHolds, PTL

\* The feeds of a tenant exceed the cap by no more than the requests that were overtaken
\* behind it; a feed is in a folder that exists, mutes what was asked, has a cursor of its
\* own URL and leaves no items behind, unless requests or checks overlapped at it (the
\* routes of feeds and folders, check_feed).
THEOREM CatalogHolds == TenantSpec => []CatalogIsSound
<1>1. TenantInv => CatalogIsSound
  BY Assumed, FeedInvImplies DEF TenantInv, CatalogIsSound
<1> QED BY <1>1, TenantInvHolds, PTL

\* A reader who scrolls sees every row that stays in the list once, and the undo of "mark
\* all read" lists every row that it marked, while checks store and prune.
THEOREM ReaderHolds == TenantSpec => []ReaderIsSound
<1>1. TenantInv => ReaderIsSound
  BY ItemInvImplies DEF TenantInv, ReaderIsSound
<1> QED BY <1>1, TenantInvHolds, PTL

\* A sender posts an item again only when nobody could know that it was out, posts it with
\* its images or with none, and gives up only for a cause.
THEOREM SendersHold == TenantSpec => []SendersAreSound
<1>1. TenantInv => SendersAreSound
  BY Assumed, RowAssumption, E!InvImplies DEF TenantInv, SendersAreSound
<1> QED BY <1>1, TenantInvHolds, PTL

\* No step spends a link after a newer one was mailed, drops the headers of a webhook whose
\* field was left blank, or prunes a newer item of a kind while an older one of it stays
\* (consume_token, add_webhook_account, prune_feed_items).
THEOREM StepsHold == TenantSpec => StepsAreSound
<1>1. ASSUME TenantInv, [TenantNext]_allVars
      PROVE  /\ part = "sign_in"      => NewestLinkOnly
             /\ part = "destinations" => D!KeepsSecret(Webhooks)
             /\ part = "reader"       => R!OnlyTheOldestGo
  <2>1. ASSUME part = "sign_in" PROVE NewestLinkOnly
    <3>1. [Next]_vars
      BY <1>1, <2>1 DEF TenantNext, allVars
    <3> QED BY <1>1, <2>1, <3>1, NewestStep DEF TenantInv
  <2>2. ASSUME part = "destinations" PROVE D!KeepsSecret(Webhooks)
    <3>1. [D!Next]_D!vars
      BY <1>1, <2>2 DEF TenantNext, allVars, destVars, D!vars
    <3> QED BY <1>1, <2>2, <3>1, Assumed, DestSecretsKept DEF TenantInv
  <2>3. ASSUME part = "reader" PROVE R!OnlyTheOldestGo
    <3>1. [R!Next]_R!vars
      BY <1>1, <2>3 DEF TenantNext, allVars, itemVars, R!vars
    <3> QED BY <1>1, <2>3, <3>1, Assumed, ItemOldestGo DEF TenantInv
  <2> QED BY <2>1, <2>2, <2>3
<1> QED BY <1>1, TenantInvHolds, PTL DEF TenantSpec, StepsAreSound
=============================================================================
