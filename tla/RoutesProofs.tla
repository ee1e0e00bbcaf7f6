---------------------------- MODULE RoutesProofs ----------------------------
(***************************************************************************)
(* The invariants of the parts of Routes, for any number of overlapping    *)
(* requests, checks, callbacks and clean-up jobs and any limits.  Each     *)
(* part has an inductive invariant, lemmas that its initial states satisfy *)
(* it and its steps keep it, and a lemma that says what follows from it:   *)
(*                                                                         *)
(*   sign-in       IInv, NewestInv   no prefix                             *)
(*   OAuth         OAuthIInv         OAuth...                              *)
(*   destinations  DestIInv          Dest...                               *)
(*   catalog       FeedIInv          Feed...                               *)
(*   reader        ItemIInv          Item...                               *)
(*   accounts      AccountIInv       Account...                            *)
(***************************************************************************)
EXTENDS Routes, FiniteSetTheorems, TLAPS


-----------------------------------------------------------------------------
(* The inductive invariant.                                                *)

\* What was read of the account is not newer than the account, and it is older where
\* the password is another one.
NoNewer(epoch, password) ==
  epoch <= account.epoch /\ (epoch = account.epoch => password = account.password)

SessionInv ==
  /\ \A cookie \in cookies : NoNewer(cookie.epoch, cookie.password)
  /\ \A c \in Clients : client[c].pc = "verify" =>
       NoNewer(client[c].seen.epoch, client[c].seen.password)

Doing(pc)  == {c \in Clients : client[c].pc = pc}
Issuing(p) == {c \in Clients : client[c].pc = "issue" /\ client[c].purpose = p}
Spent      == {n \in 1..MaxLinks : links["reset"][n].state = "used"}

\* A request that has passed a limit holds a place above it until it is counted.
TriesInv  == failures + Cardinality(Doing("verify")) < MaxFailures + Cardinality(Clients)
ForgotInv == forgotten + Cardinality(Doing("record")) < MaxForgot + Cardinality(Clients)
MailsInv  == \A p \in Purposes :
  Cardinality(Recent(p)) + Cardinality(Issuing(p)) < ResendLimit + Cardinality(Clients)
SpentInv  == account.password + Cardinality(Doing("change")) <= Cardinality(Spent)

\* Links are issued in order: those after the last one are still to come.
IssueInv  == \A p \in Purposes : \A n \in 1..MaxLinks :
  n > Cardinality(Issued(p)) => links[p][n].state = "none"

IInv == TypeOK /\ SessionInv /\ TriesInv /\ ForgotInv /\ MailsInv /\ SpentInv /\ IssueInv

-----------------------------------------------------------------------------
(* Counting.                                                               *)

LEMMA ClientCount == IsFiniteSet(Clients) /\ Cardinality(Clients) \in Nat /\ Cardinality(Clients) >= 1
<1>1. IsFiniteSet(Clients) /\ Clients # {}
  BY SignInAssumption
<1>2. Cardinality(Clients) \in Nat
  BY <1>1, FS_CardinalityType
<1>3. Cardinality(Clients) # 0
  BY <1>1, FS_EmptySet
<1> QED BY <1>1, <1>2, <1>3

\* Two sets of clients that differ in c at most.
LEMMA SetMoves ==
  ASSUME NEW c \in Clients, NEW S \in SUBSET Clients, NEW T \in SUBSET Clients, S \ {c} = T \ {c}
  PROVE  /\ Cardinality(S) \in Nat /\ Cardinality(T) \in Nat
         /\ (c \in S <=> c \in T) => Cardinality(T) = Cardinality(S)
         /\ c \in S /\ c \notin T => Cardinality(T) = Cardinality(S) - 1
         /\ c \notin S /\ c \in T => /\ Cardinality(T) = Cardinality(S) + 1
                                     /\ Cardinality(T) <= Cardinality(Clients)
<1>1. /\ IsFiniteSet(S) /\ IsFiniteSet(T) /\ Cardinality(T) <= Cardinality(Clients)
  BY ClientCount, FS_Subset
<1>2. Cardinality(S) \in Nat /\ Cardinality(T) \in Nat
  BY <1>1, FS_CardinalityType
<1>3. (c \in S <=> c \in T) => S = T
  OBVIOUS
<1>4. c \in S /\ c \notin T => Cardinality(T) = Cardinality(S) - 1
  <2>1. c \in S /\ c \notin T => T = S \ {c}
    OBVIOUS
  <2> QED BY <1>1, <2>1, FS_RemoveElement
<1>5. c \notin S /\ c \in T => Cardinality(T) = Cardinality(S) + 1
  <2>1. c \notin S /\ c \in T => T = S \cup {c}
    OBVIOUS
  <2> QED BY <1>1, <2>1, FS_AddElement
<1> QED BY <1>1, <1>2, <1>3, <1>4, <1>5

\* How the numbers of clients at a step change when client c moves.
LEMMA DoingMoves ==
  ASSUME TypeOK, NEW c \in Clients, NEW j, Becomes(c, j), NEW pc
  PROVE  LET old == Cardinality(Doing(pc)) new == Cardinality(Doing(pc)') IN
         /\ old \in Nat /\ new \in Nat
         /\ (client[c].pc = pc <=> j.pc = pc) => new = old
         /\ client[c].pc = pc /\ j.pc # pc => new = old - 1
         /\ client[c].pc # pc /\ j.pc = pc => new = old + 1 /\ new <= Cardinality(Clients)
<1>1. \A d \in Clients : client'[d] = IF d = c THEN j ELSE client[d]
  BY DEF Becomes, TypeOK
<1>2. Doing(pc) \in SUBSET Clients /\ Doing(pc)' \in SUBSET Clients
  BY DEF Doing
<1>3. Doing(pc) \ {c} = Doing(pc)' \ {c}
  BY <1>1 DEF Doing
<1>4. (c \in Doing(pc) <=> client[c].pc = pc) /\ (c \in Doing(pc)' <=> j.pc = pc)
  BY <1>1 DEF Doing
<1> HIDE DEF Doing
<1> QED BY <1>2, <1>3, <1>4, SetMoves

LEMMA IssuingMoves ==
  ASSUME TypeOK, NEW c \in Clients, NEW j, Becomes(c, j), NEW p
  PROVE  LET old  == Cardinality(Issuing(p))
             new  == Cardinality(Issuing(p)')
             was  == client[c].pc = "issue" /\ client[c].purpose = p
             is   == j.pc = "issue" /\ j.purpose = p IN
         /\ old \in Nat /\ new \in Nat
         /\ (was <=> is) => new = old
         /\ was /\ ~ is => new = old - 1
         /\ ~ was /\ is => new = old + 1 /\ new <= Cardinality(Clients)
<1>1. \A d \in Clients : client'[d] = IF d = c THEN j ELSE client[d]
  BY DEF Becomes, TypeOK
<1>2. Issuing(p) \in SUBSET Clients /\ Issuing(p)' \in SUBSET Clients
  BY DEF Issuing
<1>3. Issuing(p) \ {c} = Issuing(p)' \ {c}
  BY <1>1 DEF Issuing
<1>4. /\ c \in Issuing(p) <=> client[c].pc = "issue" /\ client[c].purpose = p
      /\ c \in Issuing(p)' <=> j.pc = "issue" /\ j.purpose = p
  BY <1>1 DEF Issuing
<1> HIDE DEF Issuing
<1> QED BY <1>2, <1>3, <1>4, SetMoves

LEMMA LinkCounts ==
  /\ \A p \in Purposes : /\ IsFiniteSet(Recent(p)) /\ Cardinality(Recent(p)) \in Nat
                         /\ IsFiniteSet(Issued(p)) /\ Cardinality(Issued(p)) \in Nat
  /\ IsFiniteSet(Spent) /\ Cardinality(Spent) \in Nat /\ Cardinality(Spent) <= MaxLinks
<1>1. IsFiniteSet(1..MaxLinks) /\ Cardinality(1..MaxLinks) = MaxLinks
  BY SignInAssumption, FS_Interval
<1>2. /\ Spent \in SUBSET (1..MaxLinks)
      /\ \A p \in Purposes : Recent(p) \in SUBSET (1..MaxLinks) /\ Issued(p) \in SUBSET (1..MaxLinks)
  BY DEF Spent, Recent, Issued
<1> HIDE DEF Spent, Recent, Issued
<1> QED BY <1>1, <1>2, FS_Subset, FS_CardinalityType

-----------------------------------------------------------------------------
(* What one client's move leaves of the invariant.                         *)

\* The account stays, and no cookie is added.
LEMMA SessionKept ==
  ASSUME IInv, NEW c \in Clients, NEW j, Becomes(c, j), account' = account, cookies' = cookies,
         j.pc = "verify" => NoNewer(j.seen.epoch, j.seen.password)
  PROVE  SessionInv'
<1>1. \A d \in Clients : client'[d] = IF d = c THEN j ELSE client[d]
  BY DEF Becomes, IInv, TypeOK
<1> QED BY <1>1 DEF IInv, SessionInv, NoNewer

LEMMA RestIsClient == Rest \in Client /\ Rest.pc = "idle"
BY SignInAssumption DEF Rest, Client, NewAccount, Account, Passwords, Purposes

\* A client that goes on with its request.
LEMMA GotoClient ==
  ASSUME TypeOK, NEW c \in Clients, NEW step,
         step \in {"idle", "verify", "peeked", "change", "confirm", "record", "ask", "issue"}
  PROVE  LET j == [client[c] EXCEPT !.pc = step] IN
         j \in Client /\ j.pc = step /\ j.purpose = client[c].purpose /\ j.seen = client[c].seen
BY DEF TypeOK, Client

LEMMA TypeKept ==
  ASSUME TypeOK, NEW c \in Clients, NEW j \in Client, Becomes(c, j)
  PROVE  client' \in [Clients -> Client]
BY DEF TypeOK, Becomes

\* The step spends no link and issues none, counts no failure and no mail asked for.
LEMMA CalmStep ==
  ASSUME IInv, NEW c \in Clients, NEW j \in Client, Becomes(c, j),
         UNCHANGED <<account, links, failures, forgotten, cookies>>,
         requests' \in 0..MaxRequests, faults' \in 0..MaxFaults,
         j.pc = "verify" => /\ NoNewer(j.seen.epoch, j.seen.password)
                            /\ client[c].pc = "verify" \/ failures < MaxFailures,
         j.pc = "record" => client[c].pc = "record" \/ forgotten < MaxForgot,
         j.pc = "issue"  => \/ client[c].pc = "issue" /\ client[c].purpose = j.purpose
                            \/ ResendAllowed(j.purpose),
         j.pc = "change" => client[c].pc = "change"
  PROVE  IInv'
<1>1. TypeOK'
  BY TypeKept DEF IInv, TypeOK
<1>2. SessionInv'
  BY SessionKept
<1>3. failures \in Nat /\ forgotten \in Nat /\ account.password \in Nat
  BY ClientCount, SignInAssumption DEF IInv, TypeOK, Account, Passwords
<1>4. MaxFailures \in Nat /\ MaxForgot \in Nat /\ ResendLimit \in Nat /\ Cardinality(Clients) \in Nat
  BY SignInAssumption, ClientCount
<1>5. TriesInv'
  BY <1>3, <1>4, DoingMoves DEF IInv, TriesInv
<1>6. ForgotInv'
  BY <1>3, <1>4, DoingMoves DEF IInv, ForgotInv
<1>7. MailsInv'
  <2> SUFFICES ASSUME NEW p \in Purposes
               PROVE  Cardinality(Recent(p)) + Cardinality(Issuing(p)') < ResendLimit + Cardinality(Clients)
    BY DEF MailsInv, Recent, Issued
  <2>1. Cardinality(Recent(p)) \in Nat
    BY LinkCounts
  <2>2. Cardinality(Recent(p)) + Cardinality(Issuing(p)) < ResendLimit + Cardinality(Clients)
    BY DEF IInv, MailsInv
  <2> QED BY <1>4, <2>1, <2>2, IssuingMoves DEF ResendAllowed, IInv
<1>8. SpentInv'
  <2>1. Spent' = Spent
    BY DEF Spent
  <2>2. Cardinality(Doing("change")') <= Cardinality(Doing("change"))
        /\ Cardinality(Doing("change")') \in Nat /\ Cardinality(Doing("change")) \in Nat
    BY DoingMoves DEF IInv
  <2> QED BY <1>3, <2>1, <2>2, LinkCounts DEF IInv, SpentInv
<1>9. IssueInv'
  BY DEF IInv, IssueInv, Issued
<1> QED BY <1>1, <1>2, <1>5, <1>6, <1>7, <1>8, <1>9 DEF IInv

-----------------------------------------------------------------------------
(* The steps that only move their client.                                  *)

LEMMA BeginStep ==
  ASSUME IInv, NEW c \in Clients, NEW j \in Client, Begin(c, j),
         UNCHANGED <<account, links, failures, forgotten, cookies, faults>>,
         j.pc = "verify" => /\ NoNewer(j.seen.epoch, j.seen.password)
                            /\ failures < MaxFailures,
         j.pc = "record" => forgotten < MaxForgot,
         j.pc \notin {"issue", "change"}
  PROVE  IInv'
<1>1. requests' \in 0..MaxRequests /\ faults' \in 0..MaxFaults /\ Becomes(c, j)
  BY SignInAssumption DEF Begin, IInv, TypeOK
<1> QED BY <1>1, CalmStep

LEMMA CalmSteps ==
  ASSUME IInv, NEW c \in Clients,
         \/ \E typed \in 0..account.password \cup {Wrong} : ReadAccount(c, typed)
         \/ AskVerification(c) \/ AskReset(c) \/ AskAllowed(c) \/ Die(c)
         \/ \E n \in 1..MaxLinks : SubmitReset(c, n)
  PROVE  IInv'
<1>1. ASSUME NEW typed \in 0..account.password \cup {Wrong}, ReadAccount(c, typed) PROVE IInv'
  <2> DEFINE j == [Rest EXCEPT !.pc = "verify", !.typed = typed, !.seen = account]
  <2>1. account \in Account /\ account.password \in 0..MaxLinks /\ MaxLinks \in Nat
    BY SignInAssumption DEF IInv, TypeOK, Account, Passwords
  <2>2. typed \in Passwords \cup {Wrong}
    BY <2>1 DEF Passwords
  <2>3. j \in Client /\ j.pc = "verify" /\ j.seen = account
    BY <2>1, <2>2, RestIsClient DEF Client
  <2>4. account.epoch \in Nat
    BY SignInAssumption DEF IInv, TypeOK, Account
  <2>5. NoNewer(account.epoch, account.password)
    BY <2>4 DEF NoNewer
  <2>6. Begin(c, j) /\ failures < MaxFailures
        /\ UNCHANGED <<account, links, failures, forgotten, cookies, faults>>
    BY <1>1 DEF ReadAccount
  <2> HIDE DEF j
  <2> QED BY <2>3, <2>5, <2>6, BeginStep
<1>2. CASE AskVerification(c)
  <2> DEFINE j == [Rest EXCEPT !.pc = "ask", !.purpose = "verify"]
  <2>1. j \in Client /\ j.pc = "ask"
    BY RestIsClient DEF Client, Purposes
  <2> QED BY <1>2, <2>1, BeginStep DEF AskVerification
<1>3. CASE AskReset(c)
  <2> DEFINE j == [Rest EXCEPT !.pc = "record", !.purpose = "reset"]
  <2>1. j \in Client /\ j.pc = "record"
    BY RestIsClient DEF Client, Purposes
  <2> QED BY <1>3, <2>1, BeginStep DEF AskReset
<1>4. ASSUME NEW n \in 1..MaxLinks, SubmitReset(c, n) PROVE IInv'
  <2> DEFINE j == [Rest EXCEPT !.pc = "peeked", !.link = n]
  <2>1. j \in Client /\ j.pc = "peeked"
    BY RestIsClient DEF Client
  <2> QED BY <1>4, <2>1, BeginStep DEF SubmitReset
<1>5. ASSUME UNCHANGED <<account, links, failures, forgotten, cookies>>, Becomes(c, Rest),
             requests' \in 0..MaxRequests, faults' \in 0..MaxFaults
      PROVE  IInv'
  BY <1>5, RestIsClient, CalmStep
<1>6. requests \in 0..MaxRequests /\ faults \in 0..MaxFaults
  BY DEF IInv, TypeOK
<1>7. CASE AskAllowed(c)
  <2> DEFINE j == [client[c] EXCEPT !.pc = "issue"]
  <2>1. j \in Client /\ j.pc = "issue" /\ j.purpose = client[c].purpose
    BY GotoClient DEF IInv
  <2>2. CASE ResendAllowed(client[c].purpose)
    <3>1. Becomes(c, j)
      BY <1>7, <2>2 DEF AskAllowed, Goto
    <3> HIDE DEF j
    <3> QED BY <1>6, <1>7, <2>1, <2>2, <3>1, CalmStep DEF AskAllowed
  <2>3. CASE ~ ResendAllowed(client[c].purpose)
    BY <1>5, <1>6, <1>7, <2>3 DEF AskAllowed
  <2> QED BY <2>2, <2>3
<1>8. CASE Die(c)
  <2>1. faults' \in 0..MaxFaults
    BY <1>8, SignInAssumption DEF Die, IInv, TypeOK
  <2> QED BY <1>5, <1>6, <1>8, <2>1 DEF Die
<1> QED BY <1>1, <1>2, <1>3, <1>4, <1>7, <1>8

-----------------------------------------------------------------------------
(* The steps that count, write or spend.                                   *)

\* The constants, as the numbers they are.
LEMMA Numbers ==
  /\ MaxFailures \in Nat \ {0} /\ MaxForgot \in Nat \ {0} /\ ResendLimit \in Nat \ {0}
  /\ MaxLinks \in Nat \ {0} /\ MaxEpoch \in Nat \ {0}
BY SignInAssumption

LEMMA RejectStep ==
  ASSUME IInv, NEW c \in Clients, RejectLogin(c)
  PROVE  IInv'
<1>1. /\ client[c].pc = "verify" /\ failures' = failures + 1 /\ Becomes(c, Rest)
      /\ UNCHANGED <<account, links, forgotten, cookies, requests, faults>>
  BY DEF RejectLogin
<1>2. /\ Cardinality(Doing("verify")') = Cardinality(Doing("verify")) - 1
      /\ Cardinality(Doing("verify")) \in Nat /\ Cardinality(Doing("verify")') \in Nat
      /\ Cardinality(Doing("record")') = Cardinality(Doing("record"))
      /\ Cardinality(Doing("change")') = Cardinality(Doing("change"))
  BY <1>1, RestIsClient, DoingMoves DEF IInv
<1>3. \A p : Cardinality(Issuing(p)') = Cardinality(Issuing(p))
  BY <1>1, RestIsClient, IssuingMoves DEF IInv
<1>4. TriesInv'
  BY <1>1, <1>2, ClientCount, Numbers DEF IInv, TypeOK, TriesInv
<1>5. failures' \in 0..(MaxFailures + Cardinality(Clients) - 1)
  BY <1>1, <1>2, <1>4, ClientCount, Numbers DEF TriesInv, IInv, TypeOK
<1>6. TypeOK'
  BY <1>1, <1>5, RestIsClient, TypeKept DEF IInv, TypeOK
<1>7. SessionInv'
  BY <1>1, RestIsClient, SessionKept
<1>8. MailsInv'
  BY <1>1, <1>3 DEF IInv, MailsInv, Recent, Issued
<1>9. ForgotInv' /\ SpentInv' /\ IssueInv'
  BY <1>1, <1>2 DEF IInv, ForgotInv, SpentInv, Spent, IssueInv, Issued
<1> QED BY <1>4, <1>6, <1>7, <1>8, <1>9 DEF IInv

\* The cookie is the one of the row that was read, which is not newer than the account.
LEMMA AcceptStep ==
  ASSUME IInv, NEW c \in Clients, AcceptLogin(c)
  PROVE  IInv'
<1> DEFINE new == [epoch |-> client[c].seen.epoch, password |-> client[c].typed]
<1>1. /\ client[c].pc = "verify" /\ client[c].typed = client[c].seen.password
      /\ failures' = 0 /\ Becomes(c, Rest)
      /\ cookies' \subseteq cookies \cup {new}
      /\ UNCHANGED <<account, links, forgotten, requests, faults>>
  BY DEF AcceptLogin
<1>2. /\ Cardinality(Doing("verify")') \in Nat
      /\ Cardinality(Doing("verify")') < Cardinality(Clients)
      /\ Cardinality(Doing("record")') = Cardinality(Doing("record"))
      /\ Cardinality(Doing("change")') = Cardinality(Doing("change"))
  <2>1. /\ Cardinality(Doing("verify")') = Cardinality(Doing("verify")) - 1
        /\ Cardinality(Doing("verify")) \in Nat /\ Cardinality(Doing("verify")') \in Nat
        /\ Cardinality(Doing("record")') = Cardinality(Doing("record"))
        /\ Cardinality(Doing("change")') = Cardinality(Doing("change"))
    BY <1>1, RestIsClient, DoingMoves DEF IInv
  <2>2. Cardinality(Doing("verify")) <= Cardinality(Clients)
    BY ClientCount, FS_Subset DEF Doing
  <2> QED BY <2>1, <2>2, ClientCount
<1>3. \A p : Cardinality(Issuing(p)') = Cardinality(Issuing(p))
  BY <1>1, RestIsClient, IssuingMoves DEF IInv
<1>4. TriesInv' /\ failures' \in 0..(MaxFailures + Cardinality(Clients) - 1)
  BY <1>1, <1>2, ClientCount, Numbers DEF TriesInv
<1>5. new \in [epoch : 0..MaxEpoch, password : Passwords]
  <2>1. client[c] \in Client
    BY DEF IInv, TypeOK
  <2>2. client[c].seen.epoch \in 0..MaxEpoch /\ client[c].seen.password \in Passwords
    BY <2>1 DEF Client, Account
  <2> QED BY <1>1, <2>2
<1>6. TypeOK'
  BY <1>1, <1>4, <1>5, RestIsClient, TypeKept DEF IInv, TypeOK
<1>7. SessionInv'
  <2>1. NoNewer(new.epoch, new.password)
    BY <1>1 DEF IInv, SessionInv
  <2>2. \A d \in Clients : client'[d] = IF d = c THEN Rest ELSE client[d]
    BY <1>1 DEF Becomes, IInv, TypeOK
  <2> HIDE DEF new
  <2>3. \A cookie \in cookies' : NoNewer(cookie.epoch, cookie.password)
    BY <1>1, <2>1 DEF IInv, SessionInv
  <2> QED BY <1>1, <2>2, <2>3, RestIsClient DEF IInv, SessionInv, NoNewer
<1>8. MailsInv'
  BY <1>1, <1>3 DEF IInv, MailsInv, Recent, Issued
<1>9. ForgotInv' /\ SpentInv' /\ IssueInv'
  BY <1>1, <1>2 DEF IInv, ForgotInv, SpentInv, Spent, IssueInv, Issued
<1> QED BY <1>4, <1>6, <1>7, <1>8, <1>9 DEF IInv

LEMMA RecordStep ==
  ASSUME IInv, NEW c \in Clients, RecordReset(c)
  PROVE  IInv'
<1> DEFINE j == [client[c] EXCEPT !.pc = "ask"]
<1>1. /\ client[c].pc = "record" /\ forgotten' = forgotten + 1 /\ Becomes(c, j)
      /\ UNCHANGED <<account, links, failures, cookies, requests, faults>>
  BY DEF RecordReset, Goto
<1>2. j \in Client /\ j.pc = "ask"
  BY GotoClient DEF IInv
<1> HIDE DEF j
<1>3. /\ Cardinality(Doing("record")') = Cardinality(Doing("record")) - 1
      /\ Cardinality(Doing("record")) \in Nat /\ Cardinality(Doing("record")') \in Nat
      /\ Cardinality(Doing("verify")') = Cardinality(Doing("verify"))
      /\ Cardinality(Doing("change")') = Cardinality(Doing("change"))
  BY <1>1, <1>2, DoingMoves DEF IInv
<1>4. \A p : Cardinality(Issuing(p)') = Cardinality(Issuing(p))
  BY <1>1, <1>2, IssuingMoves DEF IInv
<1>5. ForgotInv'
  BY <1>1, <1>3, ClientCount, Numbers DEF IInv, TypeOK, ForgotInv
<1>6. forgotten' \in 0..(MaxForgot + Cardinality(Clients))
  BY <1>1, <1>3, <1>5, ClientCount, Numbers DEF ForgotInv, IInv, TypeOK
<1>7. TypeOK'
  BY <1>1, <1>2, <1>6, TypeKept DEF IInv, TypeOK
<1>8. SessionInv'
  BY <1>1, <1>2, SessionKept
<1>9. MailsInv'
  BY <1>1, <1>4 DEF IInv, MailsInv, Recent, Issued
<1>10. TriesInv' /\ SpentInv' /\ IssueInv'
  BY <1>1, <1>3 DEF IInv, TriesInv, SpentInv, Spent, IssueInv, Issued
<1> QED BY <1>5, <1>7, <1>8, <1>9, <1>10 DEF IInv

\* One mail more, and one request less that is about to send one.
LEMMA IssueStep ==
  ASSUME IInv, NEW c \in Clients, IssueLink(c)
  PROVE  IInv'
<1>0. client[c].purpose \in Purposes
  BY DEF IInv, TypeOK, Client
<1> PICK p \in Purposes : client[c].purpose = p
  BY <1>0
<1> PICK n : n = Cardinality(Issued(p)) + 1
  OBVIOUS
<1> DEFINE written == [k \in 1..MaxLinks |->
             IF k = n THEN [state |-> "live", fresh |-> TRUE]
             ELSE IF links[p][k].state = "live"
                  THEN [links[p][k] EXCEPT !.state = "superseded"] ELSE links[p][k]]
<1>1. /\ client[c].pc = "issue" /\ n <= MaxLinks /\ links' = [links EXCEPT ![p] = written]
      /\ Becomes(c, Rest)
      /\ UNCHANGED <<account, failures, forgotten, cookies, requests, faults>>
  BY DEF IssueLink
<1>2. /\ Cardinality(Doing("record")') = Cardinality(Doing("record"))
      /\ Cardinality(Doing("verify")') = Cardinality(Doing("verify"))
      /\ Cardinality(Doing("change")') = Cardinality(Doing("change"))
  BY <1>1, RestIsClient, DoingMoves DEF IInv
<1>3. p \in Purposes /\ links \in [Purposes -> [1..MaxLinks -> Link]]
  BY DEF IInv, TypeOK, Client
<1>4. written \in [1..MaxLinks -> Link]
  <2>1. \A k \in 1..MaxLinks : links[p][k] \in Link
    BY <1>3
  <2>2. /\ [state |-> "live", fresh |-> TRUE] \in Link
        /\ \A l \in Link : [l EXCEPT !.state = "superseded"] \in Link
    BY DEF Link
  <2> QED BY <2>1, <2>2
<1>5. /\ \A q \in Purposes : links'[q] = IF q = p THEN written ELSE links[q]
      /\ links' \in [Purposes -> [1..MaxLinks -> Link]]
  <2> HIDE DEF written
  <2> QED BY <1>1, <1>3, <1>4
<1>6. TypeOK'
  BY <1>1, <1>5, RestIsClient, TypeKept DEF IInv, TypeOK
<1>7. SessionInv'
  BY <1>1, RestIsClient, SessionKept
<1>8. TriesInv' /\ ForgotInv'
  BY <1>1, <1>2 DEF IInv, TriesInv, ForgotInv
<1>11. /\ n \in 1..MaxLinks /\ links[p][n].state = "none"
       /\ IsFiniteSet(Issued(p)) /\ Cardinality(Issued(p)) \in Nat
       /\ Issued(p)' = Issued(p) \cup {n} /\ n \notin Issued(p)
  <2>1. IsFiniteSet(Issued(p)) /\ Cardinality(Issued(p)) \in Nat
    BY <1>3, LinkCounts
  <2>2. n \in 1..MaxLinks /\ n > Cardinality(Issued(p))
    BY <1>1, <2>1, Numbers
  <2>3. links[p][n].state = "none"
    BY <1>3, <2>2 DEF IInv, IssueInv
  <2>4. \A k \in 1..MaxLinks : written[k].state # "none" <=> k = n \/ links[p][k].state # "none"
    BY <1>3 DEF Link
  <2>5. Issued(p)' = Issued(p) \cup {n}
    <3> HIDE DEF written
    <3> QED BY <1>3, <1>5, <2>2, <2>4 DEF Issued
  <2>6. n \notin Issued(p)
    BY <2>3 DEF Issued
  <2> QED BY <2>1, <2>2, <2>3, <2>5, <2>6
<1>12. IssueInv'
  <2> SUFFICES ASSUME NEW q \in Purposes, NEW k \in 1..MaxLinks, k > Cardinality(Issued(q)')
               PROVE  links'[q][k].state = "none"
    BY DEF IssueInv
  <2>1. CASE q = p
    <3>1. Cardinality(Issued(p)') = n
      BY <1>11, FS_AddElement
    <3>2. k # n /\ k > Cardinality(Issued(p))
      BY <1>11, <2>1, <3>1
    <3>3. links[p][k].state = "none"
      BY <1>3, <3>2 DEF IInv, IssueInv
    <3>4. written[k] = links[p][k]
      BY <3>2, <3>3
    <3> HIDE DEF written
    <3> QED BY <1>3, <1>5, <2>1, <3>3, <3>4
  <2>2. CASE q # p
    <3>1. links'[q] = links[q]
      BY <1>5, <2>2
    <3>2. Issued(q)' = Issued(q)
      BY <3>1 DEF Issued
    <3> QED BY <3>1, <3>2 DEF IInv, IssueInv
  <2> QED BY <2>1, <2>2
<1>9. SpentInv'
  <2>1. \A k \in 1..MaxLinks : links'["reset"][k].state = "used" <=> links["reset"][k].state = "used"
    <3>1. CASE p = "reset"
      <4>1. \A k \in 1..MaxLinks : written[k].state = "used" <=> links[p][k].state = "used"
        BY <1>3, <1>11
      <4> HIDE DEF written
      <4> QED BY <1>5, <3>1, <4>1 DEF Purposes
    <3>2. CASE p # "reset"
      BY <1>5, <3>2 DEF Purposes
    <3> QED BY <3>1, <3>2
  <2>2. Spent' = Spent
    BY <2>1 DEF Spent
  <2> QED BY <1>1, <1>2, <2>2 DEF IInv, SpentInv
<1>10. MailsInv'
  <2> SUFFICES ASSUME NEW q \in Purposes
               PROVE  Cardinality(Recent(q)') + Cardinality(Issuing(q)')
                        < ResendLimit + Cardinality(Clients)
    BY DEF MailsInv
  <2>1. Cardinality(Recent(q)) + Cardinality(Issuing(q)) < ResendLimit + Cardinality(Clients)
    BY DEF IInv, MailsInv
  <2>2. CASE q # p
    <3>1. Recent(q)' = Recent(q)
      BY <1>5, <2>2 DEF Recent, Issued
    <3>2. Cardinality(Issuing(q)') = Cardinality(Issuing(q))
      BY <1>1, <2>2, RestIsClient, IssuingMoves DEF IInv
    <3> QED BY <2>1, <3>1, <3>2
  <2>3. CASE q = p
    <3>1. Recent(p)' \subseteq Recent(p) \cup {n}
      <4>1. \A k \in 1..MaxLinks : k # n => written[k].fresh = links[p][k].fresh
        BY <1>3 DEF Link
      <4> HIDE DEF written
      <4> QED BY <1>3, <1>5, <1>11, <4>1 DEF Recent, Issued
    <3>2. Cardinality(Recent(p)') <= Cardinality(Recent(p)) + 1 /\ Cardinality(Recent(p)') \in Nat
      <4>1. IsFiniteSet(Recent(p)) /\ n \notin Recent(p)
        BY <1>3, <1>11, LinkCounts DEF Recent
      <4>2. /\ IsFiniteSet(Recent(p) \cup {n})
            /\ Cardinality(Recent(p) \cup {n}) = Cardinality(Recent(p)) + 1
        BY <4>1, FS_AddElement
      <4> QED BY <3>1, <4>2, FS_Subset, FS_CardinalityType
    <3>3. /\ Cardinality(Issuing(p)') = Cardinality(Issuing(p)) - 1
          /\ Cardinality(Issuing(p)) \in Nat /\ Cardinality(Issuing(p)') \in Nat
      BY <1>1, RestIsClient, IssuingMoves DEF IInv
    <3> QED BY <1>3, <2>1, <2>3, <3>2, <3>3, LinkCounts, ClientCount, Numbers
  <2> QED BY <2>2, <2>3
<1> QED BY <1>6, <1>7, <1>8, <1>9, <1>10, <1>12 DEF IInv

\* Spending a link counts it among the spent ones, and leaves every other count.
LEMMA Spending ==
  ASSUME IInv, NEW p \in Purposes, NEW n \in 1..MaxLinks, Usable(p, n), Spend(p, n)
  PROVE  /\ links' \in [Purposes -> [1..MaxLinks -> Link]]
         /\ \A q \in Purposes : Issued(q)' = Issued(q) /\ Recent(q)' = Recent(q)
         /\ Cardinality(Spent') = Cardinality(Spent) + IF p = "reset" THEN 1 ELSE 0
         /\ IssueInv'
<1>1. links \in [Purposes -> [1..MaxLinks -> Link]] /\ links[p][n].state = "live"
  BY DEF IInv, TypeOK, Usable
<1>2. \A q \in Purposes : \A k \in 1..MaxLinks :
        links'[q][k] = IF q = p /\ k = n THEN [links[q][k] EXCEPT !.state = "used"] ELSE links[q][k]
  BY <1>1 DEF Spend
<1>3. \A l \in Link : [l EXCEPT !.state = "used"] \in Link
  BY DEF Link
<1>4. [links[p] EXCEPT ![n].state = "used"] \in [1..MaxLinks -> Link]
  BY <1>1, <1>3
<1>5. links' \in [Purposes -> [1..MaxLinks -> Link]]
  BY <1>1, <1>4 DEF Spend
<1>6. \A q \in Purposes : \A k \in 1..MaxLinks :
        /\ links'[q][k].state = "none" <=> links[q][k].state = "none"
        /\ links'[q][k].fresh = links[q][k].fresh
        /\ links'[q][k].state = "used" <=> links[q][k].state = "used" \/ (q = p /\ k = n)
  <2> SUFFICES ASSUME NEW q \in Purposes, NEW k \in 1..MaxLinks
               PROVE  /\ links'[q][k].state = "none" <=> links[q][k].state = "none"
                      /\ links'[q][k].fresh = links[q][k].fresh
                      /\ links'[q][k].state = "used" <=> links[q][k].state = "used" \/ (q = p /\ k = n)
    OBVIOUS
  <2>1. links[q][k] \in Link
    BY <1>1
  <2>2. CASE q = p /\ k = n
    BY <1>1, <1>2, <2>1, <2>2 DEF Link
  <2>3. CASE ~ (q = p /\ k = n)
    <3>1. links'[q][k] = links[q][k]
      BY <1>2, <2>3
    <3> QED BY <2>3, <3>1
  <2> QED BY <2>2, <2>3
<1>7. \A q \in Purposes : Issued(q)' = Issued(q)
  BY <1>6 DEF Issued
<1>8. \A q \in Purposes : Recent(q)' = Recent(q)
  BY <1>6, <1>7 DEF Recent, Issued
<1>9. Cardinality(Spent') = Cardinality(Spent) + IF p = "reset" THEN 1 ELSE 0
  <2>3. \A k \in 1..MaxLinks :
          links'["reset"][k].state = "used" <=> links["reset"][k].state = "used" \/ (p = "reset" /\ k = n)
    BY <1>6 DEF Purposes
  <2>1. CASE p = "reset"
    <3>1. Spent' = Spent \cup {n} /\ n \notin Spent
      BY <1>1, <2>1, <2>3 DEF Spent
    <3> QED BY <2>1, <3>1, LinkCounts, FS_AddElement
  <2>2. CASE p # "reset"
    <3>1. Spent' = Spent
      BY <2>2, <2>3 DEF Spent
    <3> QED BY <2>2, <3>1, LinkCounts
  <2> QED BY <2>1, <2>2
<1>10. IssueInv'
  BY <1>6, <1>7 DEF IInv, IssueInv
<1> QED BY <1>5, <1>7, <1>8, <1>9, <1>10

\* The spent link stands for the change that is now under way.
LEMMA ConsumeStep ==
  ASSUME IInv, NEW c \in Clients, ConsumeReset(c)
  PROVE  IInv'
<1> DEFINE j == [client[c] EXCEPT !.pc = "change"]
<1>1. /\ client[c].pc = "peeked"
      /\ UNCHANGED <<account, failures, forgotten, cookies, requests, faults>>
  BY DEF ConsumeReset
<1>2. j \in Client /\ j.pc = "change"
  BY GotoClient DEF IInv
<1>3. CASE Usable("reset", client[c].link)
  <2>1. Spend("reset", client[c].link) /\ Becomes(c, j)
    BY <1>3 DEF ConsumeReset, Goto
  <2>2. client[c].link \in 1..MaxLinks /\ "reset" \in Purposes
    BY DEF IInv, TypeOK, Client, Purposes
  <2> HIDE DEF j
  <2>3. /\ links' \in [Purposes -> [1..MaxLinks -> Link]] /\ IssueInv'
        /\ \A q \in Purposes : Recent(q)' = Recent(q)
        /\ Cardinality(Spent') = Cardinality(Spent) + 1
    BY <1>3, <2>1, <2>2, Spending
  <2>4. /\ Cardinality(Doing("change")') = Cardinality(Doing("change")) + 1
        /\ Cardinality(Doing("change")) \in Nat
        /\ Cardinality(Doing("record")') = Cardinality(Doing("record"))
        /\ Cardinality(Doing("verify")') = Cardinality(Doing("verify"))
    BY <1>1, <1>2, <2>1, DoingMoves DEF IInv
  <2>5. \A p : Cardinality(Issuing(p)') = Cardinality(Issuing(p))
    BY <1>1, <1>2, <2>1, IssuingMoves DEF IInv
  <2>6. TypeOK'
    BY <1>1, <1>2, <2>1, <2>3, TypeKept DEF IInv, TypeOK
  <2>7. SessionInv'
    BY <1>1, <1>2, <2>1, SessionKept
  <2>8. TriesInv' /\ ForgotInv'
    BY <1>1, <2>4 DEF IInv, TriesInv, ForgotInv
  <2>9. MailsInv'
    BY <2>3, <2>5 DEF IInv, MailsInv
  <2>10. SpentInv'
    <3>1. account.password \in Nat /\ Cardinality(Spent) \in Nat
      BY LinkCounts, SignInAssumption DEF IInv, TypeOK, Account, Passwords
    <3> QED BY <1>1, <2>3, <2>4, <3>1 DEF IInv, SpentInv
  <2> QED BY <2>3, <2>6, <2>7, <2>8, <2>9, <2>10 DEF IInv
<1>4. CASE ~ Usable("reset", client[c].link)
  <2>1. Becomes(c, Rest) /\ links' = links
    BY <1>4 DEF ConsumeReset
  <2>2. requests' \in 0..MaxRequests /\ faults' \in 0..MaxFaults
    BY <1>1 DEF IInv, TypeOK
  <2> QED BY <1>1, <2>1, <2>2, RestIsClient, CalmStep
<1> QED BY <1>3, <1>4

\* The password that a spent link stands for; what was read before is older now.
LEMMA ChangeStep ==
  ASSUME IInv, NEW c \in Clients, ChangePassword(c)
  PROVE  IInv'
<1>1. /\ client[c].pc = "change" /\ account.epoch < MaxEpoch /\ Becomes(c, Rest)
      /\ account' = [account EXCEPT !.password = @ + 1, !.epoch = @ + 1]
      /\ UNCHANGED <<links, failures, forgotten, cookies, requests, faults>>
  BY DEF ChangePassword
<1>2. /\ Cardinality(Doing("change")') = Cardinality(Doing("change")) - 1
      /\ Cardinality(Doing("change")) \in Nat /\ Cardinality(Doing("change")') \in Nat
      /\ Cardinality(Doing("record")') = Cardinality(Doing("record"))
      /\ Cardinality(Doing("verify")') = Cardinality(Doing("verify"))
  BY <1>1, RestIsClient, DoingMoves DEF IInv
<1>3. \A p : Cardinality(Issuing(p)') = Cardinality(Issuing(p))
  BY <1>1, RestIsClient, IssuingMoves DEF IInv
<1>4. /\ account \in Account /\ account.password \in Nat /\ account.epoch \in Nat
      /\ MaxEpoch \in Nat /\ MaxLinks \in Nat
  BY SignInAssumption DEF IInv, TypeOK, Account, Passwords
<1>5. account'.password = account.password + 1 /\ account'.epoch = account.epoch + 1
  BY <1>1, <1>4 DEF Account
<1>6. Spent' = Spent
  BY <1>1 DEF Spent
<1>7. SpentInv' /\ account'.password <= MaxLinks
  BY <1>2, <1>4, <1>5, <1>6, LinkCounts DEF IInv, SpentInv
<1>8. account' \in Account
  <2>1. account.password + 1 \in Passwords /\ account.epoch + 1 \in 0..MaxEpoch
    BY <1>1, <1>4, <1>5, <1>7 DEF Passwords
  <2> QED BY <1>1, <1>4, <2>1 DEF Account
<1>9. TypeOK'
  BY <1>1, <1>8, RestIsClient, TypeKept DEF IInv, TypeOK
<1>10. SessionInv'
  <2>1. \A epoch \in Nat, password \in Passwords : NoNewer(epoch, password) => NoNewer(epoch, password)'
    BY <1>4, <1>5 DEF NoNewer
  <2>2. \A d \in Clients : client'[d] = IF d = c THEN Rest ELSE client[d]
    BY <1>1 DEF Becomes, IInv, TypeOK
  <2>3. \A cookie \in cookies' : cookie \in cookies /\ cookie.epoch \in Nat
                                                       /\ cookie.password \in Passwords
    BY <1>1, <1>4 DEF IInv, TypeOK
  <2>4. \A d \in Clients : client[d].seen.epoch \in Nat
    BY <1>4 DEF IInv, TypeOK, Client, Account
  <2>5. \A cookie \in cookies' : NoNewer(cookie.epoch, cookie.password)'
    BY <2>1, <2>3 DEF IInv, SessionInv
  <2>6. \A d \in Clients : client'[d].pc = "verify" =>
          NoNewer(client[d].seen.epoch, client[d].seen.password)' /\ client'[d] = client[d]
    BY <2>2, <2>4, <1>5, <1>4, RestIsClient DEF IInv, SessionInv, NoNewer
  <2> QED BY <2>2, <2>5, <2>6, <1>5, RestIsClient DEF SessionInv, NoNewer
<1>11. MailsInv'
  BY <1>1, <1>3 DEF IInv, MailsInv, Recent, Issued
<1>12. TriesInv' /\ ForgotInv' /\ IssueInv'
  BY <1>1, <1>2 DEF IInv, TriesInv, ForgotInv, IssueInv, Issued
<1> QED BY <1>7, <1>9, <1>10, <1>11, <1>12 DEF IInv

LEMMA VerificationSteps ==
  ASSUME IInv, NEW c \in Clients,
         (\E n \in 1..MaxLinks : OpenVerification(c, n)) \/ Confirm(c)
  PROVE  IInv'
<1>1. ASSUME NEW n \in 1..MaxLinks, OpenVerification(c, n) PROVE IInv'
  <2> DEFINE j == [Rest EXCEPT !.pc = "confirm"]
  <2>1. /\ Usable("verify", n) /\ Spend("verify", n) /\ Becomes(c, j) /\ Idle(c)
        /\ requests' \in 0..MaxRequests /\ "verify" \in Purposes
        /\ UNCHANGED <<account, failures, forgotten, cookies, faults>>
    <3>1. /\ Usable("verify", n) /\ Spend("verify", n) /\ Begin(c, j)
          /\ UNCHANGED <<account, failures, forgotten, cookies, faults>>
      BY <1>1 DEF OpenVerification
    <3> HIDE DEF j
    <3> QED BY <3>1, SignInAssumption DEF Begin, IInv, TypeOK, Purposes
  <2>2. j \in Client /\ j.pc = "confirm"
    BY RestIsClient DEF Client
  <2> HIDE DEF j
  <2>3. /\ links' \in [Purposes -> [1..MaxLinks -> Link]] /\ IssueInv'
        /\ \A q \in Purposes : Recent(q)' = Recent(q)
        /\ Cardinality(Spent') = Cardinality(Spent)
    BY <2>1, LinkCounts, Spending
  <2>4. /\ Cardinality(Doing("change")') = Cardinality(Doing("change"))
        /\ Cardinality(Doing("record")') = Cardinality(Doing("record"))
        /\ Cardinality(Doing("verify")') = Cardinality(Doing("verify"))
    BY <2>1, <2>2, DoingMoves DEF IInv, Idle
  <2>5. \A p : Cardinality(Issuing(p)') = Cardinality(Issuing(p))
    BY <2>1, <2>2, IssuingMoves DEF IInv, Idle
  <2>6. TypeOK'
    BY <2>1, <2>2, <2>3, TypeKept DEF IInv, TypeOK
  <2>7. SessionInv'
    BY <2>1, <2>2, SessionKept
  <2>8. TriesInv' /\ ForgotInv' /\ MailsInv' /\ SpentInv'
    BY <2>1, <2>3, <2>4, <2>5 DEF IInv, TriesInv, ForgotInv, MailsInv, SpentInv
  <2> QED BY <2>3, <2>6, <2>7, <2>8 DEF IInv
<1>2. CASE Confirm(c)
  <2>1. /\ client[c].pc = "confirm" /\ Becomes(c, Rest)
        /\ account' = [account EXCEPT !.verified = TRUE]
        /\ UNCHANGED <<links, failures, forgotten, cookies, requests, faults>>
    BY <1>2 DEF Confirm
  <2>2. /\ Cardinality(Doing("change")') = Cardinality(Doing("change"))
        /\ Cardinality(Doing("record")') = Cardinality(Doing("record"))
        /\ Cardinality(Doing("verify")') = Cardinality(Doing("verify"))
    BY <2>1, RestIsClient, DoingMoves DEF IInv
  <2>3. \A p : Cardinality(Issuing(p)') = Cardinality(Issuing(p))
    BY <2>1, RestIsClient, IssuingMoves DEF IInv
  <2>4. account' \in Account /\ account'.password = account.password /\ account'.epoch = account.epoch
    BY <2>1 DEF IInv, TypeOK, Account
  <2>5. TypeOK'
    BY <2>1, <2>4, RestIsClient, TypeKept DEF IInv, TypeOK
  <2>6. SessionInv'
    <3>1. \A d \in Clients : client'[d] = IF d = c THEN Rest ELSE client[d]
      BY <2>1 DEF Becomes, IInv, TypeOK
    <3> QED BY <2>1, <2>4, <3>1, RestIsClient DEF IInv, SessionInv, NoNewer
  <2>7. MailsInv'
    BY <2>1, <2>3 DEF IInv, MailsInv, Recent, Issued
  <2>8. TriesInv' /\ ForgotInv' /\ IssueInv' /\ SpentInv'
    BY <2>1, <2>2, <2>4 DEF IInv, TriesInv, ForgotInv, IssueInv, Issued, SpentInv, Spent
  <2> QED BY <2>5, <2>6, <2>7, <2>8 DEF IInv
<1> QED BY <1>1, <1>2

-----------------------------------------------------------------------------
(* The steps of no client.                                                 *)

LEMMA AccountSteps ==
  ASSUME IInv, Logout \/ SetSuspended
  PROVE  IInv'
<1>1. /\ UNCHANGED <<links, failures, forgotten, cookies, client, requests, faults>>
      /\ account' \in Account /\ account'.password = account.password
      /\ account.epoch \in Nat /\ account'.epoch \in {account.epoch, account.epoch + 1}
  <2>1. account \in Account /\ MaxEpoch \in Nat
    BY SignInAssumption DEF IInv, TypeOK
  <2>2. CASE Logout
    BY <2>1, <2>2 DEF Logout, Account
  <2>3. CASE SetSuspended
    <3>1. \A b \in BOOLEAN : [account EXCEPT !.suspended = b] \in Account
      BY <2>1 DEF Account
    <3>2. (~ account.suspended) \in BOOLEAN
      OBVIOUS
    <3>3. account' = [account EXCEPT !.suspended = ~ account.suspended]
          /\ UNCHANGED <<links, failures, forgotten, cookies, client, requests, faults>>
      BY <2>3 DEF SetSuspended
    <3>4. account' \in Account
      BY <3>1, <3>2, <3>3
    <3>5. account'.password = account.password /\ account'.epoch = account.epoch
      BY <2>1, <3>3 DEF Account
    <3>6. account.epoch \in Nat
      BY <2>1 DEF Account
    <3> QED BY <3>3, <3>4, <3>5, <3>6
  <2> QED BY <2>2, <2>3
<1>2. TypeOK'
  BY <1>1 DEF IInv, TypeOK
<1>3. SessionInv'
  <2>1. MaxEpoch \in Nat
    BY SignInAssumption
  <2>2. /\ \A cookie \in cookies : cookie.epoch \in Nat
        /\ \A d \in Clients : client[d].seen.epoch \in Nat
    BY <2>1 DEF IInv, TypeOK, Client, Account
  <2> QED BY <1>1, <2>2 DEF IInv, SessionInv, NoNewer
<1>4. TriesInv' /\ ForgotInv' /\ MailsInv' /\ IssueInv' /\ SpentInv'
  BY <1>1 DEF IInv, TriesInv, ForgotInv, MailsInv, IssueInv, SpentInv,
              Doing, Issuing, Recent, Issued, Spent
<1> QED BY <1>2, <1>3, <1>4 DEF IInv

LEMMA WindowSteps ==
  ASSUME IInv, ForgetFailure \/ ForgetForgotten
  PROVE  IInv'
<1>1. /\ UNCHANGED <<account, links, cookies, client, requests, faults>>
      /\ failures \in Nat /\ failures' \in Nat /\ failures' <= failures
      /\ forgotten \in Nat /\ forgotten' \in Nat /\ forgotten' <= forgotten
  BY ClientCount, Numbers DEF ForgetFailure, ForgetForgotten, IInv, TypeOK
<1>2. \A pc : Doing(pc)' = Doing(pc) /\ Cardinality(Doing(pc)) \in Nat
  <2>1. \A pc : Doing(pc)' = Doing(pc) /\ Doing(pc) \in SUBSET Clients
    BY <1>1 DEF Doing
  <2> HIDE DEF Doing
  <2> QED BY <2>1, ClientCount, FS_Subset, FS_CardinalityType
<1>3. TypeOK'
  BY <1>1, ClientCount, Numbers DEF IInv, TypeOK
<1>4. SessionInv'
  BY <1>1 DEF IInv, SessionInv, NoNewer
<1>5. TriesInv' /\ ForgotInv'
  BY <1>1, <1>2, ClientCount, Numbers DEF IInv, TriesInv, ForgotInv
<1>6. MailsInv' /\ IssueInv' /\ SpentInv'
  BY <1>1 DEF IInv, MailsInv, IssueInv, SpentInv, Doing, Issuing, Recent, Issued, Spent
<1> QED BY <1>3, <1>4, <1>5, <1>6 DEF IInv

LEMMA DayStep ==
  ASSUME IInv, Day
  PROVE  IInv'
<1>1. /\ UNCHANGED <<account, failures, forgotten, cookies, client, requests, faults>>
      /\ links' = [p \in Purposes |-> [n \in 1..MaxLinks |-> [links[p][n] EXCEPT !.fresh = FALSE]]]
  BY DEF Day
<1>2. \A p \in Purposes : \A n \in 1..MaxLinks :
        /\ links'[p][n] \in Link /\ links'[p][n].state = links[p][n].state
        /\ links'[p][n].fresh = FALSE
  <2>1. \A l \in Link : /\ [l EXCEPT !.fresh = FALSE] \in Link
                        /\ [l EXCEPT !.fresh = FALSE].state = l.state
                        /\ [l EXCEPT !.fresh = FALSE].fresh = FALSE
    BY DEF Link
  <2>2. \A p \in Purposes : \A n \in 1..MaxLinks : links[p][n] \in Link
    BY DEF IInv, TypeOK
  <2> QED BY <1>1, <2>1, <2>2
<1>3. \A p \in Purposes : Issued(p)' = Issued(p) /\ Recent(p)' = {}
  BY <1>2 DEF Issued, Recent
<1>4. Spent' = Spent
  BY <1>2 DEF Spent, Purposes
<1>5. TypeOK'
  <2>1. links' \in [Purposes -> [1..MaxLinks -> Link]]
    <3>1. \A p \in Purposes : [n \in 1..MaxLinks |-> [links[p][n] EXCEPT !.fresh = FALSE]]
                                \in [1..MaxLinks -> Link]
      BY <1>1, <1>2
    <3> QED BY <1>1, <3>1
  <2> QED BY <1>1, <2>1 DEF IInv, TypeOK
<1>6. SessionInv'
  BY <1>1 DEF IInv, SessionInv, NoNewer
<1>7. MailsInv'
  <2> SUFFICES ASSUME NEW p \in Purposes
               PROVE  Cardinality({}) + Cardinality(Issuing(p)) < ResendLimit + Cardinality(Clients)
    BY <1>1, <1>3 DEF MailsInv, Issuing
  <2>1. Issuing(p) \in SUBSET Clients
    BY DEF Issuing
  <2>2. Cardinality(Issuing(p)) \in Nat /\ Cardinality(Issuing(p)) <= Cardinality(Clients)
    BY <2>1, ClientCount, FS_Subset, FS_CardinalityType
  <2> QED BY <2>2, ClientCount, Numbers, FS_EmptySet
<1>8. IssueInv'
  BY <1>2, <1>3 DEF IInv, IssueInv
<1>9. TriesInv' /\ ForgotInv' /\ SpentInv'
  BY <1>1, <1>4 DEF IInv, TriesInv, ForgotInv, SpentInv, Doing
<1> QED BY <1>5, <1>6, <1>7, <1>8, <1>9 DEF IInv

-----------------------------------------------------------------------------
LEMMA InitOK == Init => IInv
<1> SUFFICES ASSUME Init PROVE IInv
  OBVIOUS
<1>1. /\ \A c \in Clients : client[c] = Rest
      /\ \A p \in Purposes : \A n \in 1..MaxLinks :
           links[p][n] = IF p = "verify" /\ n = 1 THEN [state |-> "live", fresh |-> TRUE]
                                                  ELSE [state |-> "none", fresh |-> FALSE]
  BY DEF Init
<1>2. \A p \in Purposes : /\ Issued(p) = IF p = "verify" THEN {1} ELSE {}
                          /\ Recent(p) \subseteq {1}
  BY <1>1, Numbers DEF Issued, Recent
<1>3. IsFiniteSet({}) /\ Cardinality({}) = 0 /\ IsFiniteSet({1}) /\ Cardinality({1}) = 1
  BY FS_EmptySet, FS_Singleton
<1>4. /\ \A pc : pc # "idle" => Cardinality(Doing(pc)) = 0
      /\ \A p : Cardinality(Issuing(p)) = 0
  <2>1. (\A pc : pc # "idle" => Doing(pc) = {}) /\ \A p : Issuing(p) = {}
    BY <1>1, RestIsClient DEF Doing, Issuing
  <2> QED BY <1>3, <2>1
<1>5. TypeOK
  <2>1. links \in [Purposes -> [1..MaxLinks -> Link]]
    BY DEF Init, Link
  <2>2. /\ account \in Account /\ cookies \subseteq [epoch : 0..MaxEpoch, password : Passwords]
        /\ client \in [Clients -> Client] /\ requests \in 0..MaxRequests /\ faults \in 0..MaxFaults
    BY SignInAssumption, RestIsClient DEF Init, Account, NewAccount, Passwords
  <2>3. /\ failures \in 0..(MaxFailures + Cardinality(Clients) - 1)
        /\ forgotten \in 0..(MaxForgot + Cardinality(Clients))
    BY Numbers, ClientCount DEF Init
  <2> QED BY <2>1, <2>2, <2>3 DEF TypeOK
<1>6. SessionInv
  BY <1>1, RestIsClient DEF Init, SessionInv, NoNewer, NewAccount
<1>7. TriesInv /\ ForgotInv
  BY <1>4, Numbers, ClientCount DEF Init, TriesInv, ForgotInv
<1>8. MailsInv
  <2>1. \A p \in Purposes : Cardinality(Recent(p)) <= 1 /\ Cardinality(Recent(p)) \in Nat
    BY <1>2, <1>3, FS_Subset, FS_CardinalityType
  <2> QED BY <1>4, <2>1, Numbers, ClientCount DEF MailsInv
<1>9. SpentInv
  BY <1>4, LinkCounts DEF Init, NewAccount, SpentInv
<1>10. IssueInv
  <2> SUFFICES ASSUME NEW p \in Purposes, NEW n \in 1..MaxLinks, n > Cardinality(Issued(p))
               PROVE  links[p][n].state = "none"
    BY DEF IssueInv
  <2>1. p = "verify" => Cardinality(Issued(p)) = 1
    BY <1>2, <1>3
  <2> QED BY <1>1, <2>1
<1> QED BY <1>5, <1>6, <1>7, <1>8, <1>9, <1>10 DEF IInv

LEMMA StepOK == IInv /\ [Next]_vars => IInv'
<1> SUFFICES ASSUME IInv, [Next]_vars PROVE IInv'
  OBVIOUS
<1>1. ASSUME NEW c \in Clients, Request(c) PROVE IInv'
  BY <1>1, CalmSteps, RejectStep, AcceptStep, RecordStep, IssueStep, ConsumeStep, ChangeStep,
     VerificationSteps DEF Request
<1>2. CASE Logout \/ SetSuspended
  BY <1>2, AccountSteps
<1>3. CASE ForgetFailure \/ ForgetForgotten
  BY <1>3, WindowSteps
<1>4. CASE Day
  BY <1>4, DayStep
<1>5. CASE UNCHANGED vars
  BY <1>5 DEF vars, IInv, TypeOK, SessionInv, NoNewer, TriesInv, ForgotInv, MailsInv, SpentInv,
              IssueInv, Doing, Issuing, Issued, Recent, Spent
<1> QED BY <1>1, <1>2, <1>3, <1>4, <1>5 DEF Next

LEMMA InvariantHolds == Spec => []IInv
BY InitOK, StepOK, PTL DEF Spec

LEMMA Means == IInv =>
  /\ TypeOK /\ AcceptedMeansCurrent /\ ChangesSpendLinks /\ MailsAreLimited /\ TriesAreLimited
<1> SUFFICES ASSUME IInv
             PROVE  /\ TypeOK /\ AcceptedMeansCurrent
                    /\ ChangesSpendLinks /\ MailsAreLimited /\ TriesAreLimited
  OBVIOUS
<1>1. TypeOK /\ AcceptedMeansCurrent
  BY DEF IInv, SessionInv, NoNewer, AcceptedMeansCurrent, Accepted
<1>2. ChangesSpendLinks
  <2>1. {n \in Issued("reset") : links["reset"][n].state = "used"} = Spent
    BY DEF Issued, Spent
  <2> QED BY <2>1 DEF IInv, SpentInv, ChangesSpendLinks, Doing
<1>3. TriesAreLimited
  BY DEF IInv, TriesInv, TriesAreLimited, Doing
<1>4. ASSUME NEW p \in Purposes
      PROVE  Cardinality(Recent(p)) < ResendLimit + Cardinality(Clients)
  <2>1. Issuing(p) \in SUBSET Clients
    BY DEF Issuing
  <2>2. Cardinality(Issuing(p)) \in Nat
    BY <2>1, ClientCount, FS_Subset, FS_CardinalityType
  <2> QED BY <2>2, LinkCounts, ClientCount, Numbers DEF IInv, MailsInv
<1> QED BY <1>1, <1>2, <1>3, <1>4 DEF MailsAreLimited

\* No session is accepted under a password that is not the account's now: neither a
\* cookie set before the change nor one that a login under way sets after it
\* (_session_user against _login_multi_mode and reset_submit).
THEOREM SessionsAreCurrent == Spec => [](TypeOK /\ AcceptedMeansCurrent)
BY Means, InvariantHolds, PTL

\* One reset link buys one change of the password at most, however often its form is
\* submitted and wherever a request dies (consume_token).
THEOREM LinksAreSpent == Spec => []ChangesSpendLinks
BY Means, InvariantHolds, PTL

\* Requests that pass a limit together exceed it by less than their number: the mails of
\* resend_allowed and the tries of the login throttle.
THEOREM LimitsHold == Spec => [](MailsAreLimited /\ TriesAreLimited)
BY Means, InvariantHolds, PTL

-----------------------------------------------------------------------------
(* The newest link.                                                        *)

NewestInv == \A p \in Purposes : \A m, n \in 1..MaxLinks :
  m < n /\ links[p][m].state = "live" => links[p][n].state = "none"

\* A step issues the next link, spends one that works, or lets links age.
Issues == \E p \in Purposes : \E n \in Nat :
  /\ n = Cardinality(Issued(p)) + 1
  /\ links' = [links EXCEPT ![p] = [k \in 1..MaxLinks |->
       IF k = n THEN [state |-> "live", fresh |-> TRUE]
       ELSE IF links[p][k].state = "live" THEN [links[p][k] EXCEPT !.state = "superseded"]
                                          ELSE links[p][k]]]
Spends == \E p \in Purposes : \E n \in 1..MaxLinks : Usable(p, n) /\ Spend(p, n)
Ages   == \A p \in Purposes : \A n \in 1..MaxLinks : links'[p][n].state = links[p][n].state

LEMMA LinkSteps ==
  ASSUME IInv, [Next]_vars
  PROVE  Issues \/ Spends \/ Ages
<1>1. links \in [Purposes -> [1..MaxLinks -> Link]] /\ client \in [Clients -> Client]
  BY DEF IInv, TypeOK
<1>2. ASSUME UNCHANGED links PROVE Ages
  BY <1>2 DEF Ages
<1>3. ASSUME NEW c \in Clients, IssueLink(c) PROVE Issues
  <2>1. client[c].purpose \in Purposes
    BY <1>1 DEF Client
  <2>2. Cardinality(Issued(client[c].purpose)) + 1 \in Nat
    BY <2>1, LinkCounts
  <2> QED BY <1>1, <1>3, <2>1, <2>2 DEF IssueLink, Issues
<1>4. ASSUME NEW c \in Clients, ConsumeReset(c) PROVE Spends \/ Ages
  <2>1. client[c].link \in 1..MaxLinks /\ "reset" \in Purposes
    BY <1>1 DEF Client, Purposes
  <2> QED BY <1>2, <1>4, <2>1 DEF ConsumeReset, Spends
<1>5. ASSUME NEW c \in Clients, NEW n \in 1..MaxLinks, OpenVerification(c, n) PROVE Spends
  BY <1>5 DEF OpenVerification, Spends, Purposes
<1>6. ASSUME Day PROVE Ages
  <2> SUFFICES ASSUME NEW p \in Purposes, NEW n \in 1..MaxLinks
               PROVE  links'[p][n].state = links[p][n].state
    BY DEF Ages
  <2>1. links[p][n] \in Link
    BY <1>1
  <2>2. links'[p][n] = [links[p][n] EXCEPT !.fresh = FALSE]
    BY <1>6 DEF Day
  <2> QED BY <2>1, <2>2 DEF Link
<1>7. ASSUME NEW c \in Clients, Request(c) PROVE Issues \/ Spends \/ Ages
  <2>1. CASE UNCHANGED links
    BY <1>2, <2>1
  <2>2. CASE links' # links
    <3>1. IssueLink(c) \/ ConsumeReset(c) \/ \E n \in 1..MaxLinks : OpenVerification(c, n)
      BY <1>7, <2>2 DEF Request, ReadAccount, RejectLogin, AcceptLogin, AskVerification, AskReset,
                        RecordReset, AskAllowed, SubmitReset, ChangePassword, Confirm, Die
    <3> QED BY <1>3, <1>4, <1>5, <3>1
  <2> QED BY <2>1, <2>2
<1>8. ASSUME Logout \/ SetSuspended \/ ForgetFailure \/ ForgetForgotten \/ UNCHANGED vars PROVE Ages
  BY <1>2, <1>8 DEF Logout, SetSuspended, ForgetFailure, ForgetForgotten, vars
<1> QED BY <1>6, <1>7, <1>8 DEF Next

LEMMA NewestStep ==
  ASSUME IInv, NewestInv, [Next]_vars
  PROVE  NewestInv' /\ NewestLinkOnly
<1>1. links \in [Purposes -> [1..MaxLinks -> Link]] /\ MaxLinks \in Nat
  BY SignInAssumption DEF IInv, TypeOK
<1>2. CASE Issues
  <2>1. PICK p \in Purposes, n \in Nat :
          /\ n = Cardinality(Issued(p)) + 1
          /\ links' = [links EXCEPT ![p] = [k \in 1..MaxLinks |->
               IF k = n THEN [state |-> "live", fresh |-> TRUE]
               ELSE IF links[p][k].state = "live" THEN [links[p][k] EXCEPT !.state = "superseded"]
                                                  ELSE links[p][k]]]
    BY <1>2 DEF Issues
  <2>2. \A q \in Purposes \ {p} : links'[q] = links[q]
    BY <1>1, <2>1
  <2>3. \A k \in 1..MaxLinks : links'[p][k] =
          IF k = n THEN [state |-> "live", fresh |-> TRUE]
          ELSE IF links[p][k].state = "live" THEN [links[p][k] EXCEPT !.state = "superseded"]
                                             ELSE links[p][k]
    BY <1>1, <2>1
  <2>4. \A k \in 1..MaxLinks :
          /\ links'[p][k].state = "live" => k = n
          /\ links'[p][k].state = "used" => links[p][k].state = "used"
          /\ k > n => links'[p][k].state = "none"
    <3> SUFFICES ASSUME NEW k \in 1..MaxLinks
                 PROVE  /\ links'[p][k].state = "live" => k = n
                        /\ links'[p][k].state = "used" => links[p][k].state = "used"
                        /\ k > n => links'[p][k].state = "none"
      OBVIOUS
    <3>1. links[p][k] \in Link
      BY <1>1
    <3>2. k > n => links[p][k].state = "none"
      BY <1>1, <2>1, LinkCounts DEF IInv, IssueInv
    <3>3. CASE k = n
      <4>1. links'[p][k] = [state |-> "live", fresh |-> TRUE]
        BY <2>3, <3>3
      <4>2. links'[p][k].state = "live" /\ ~ (k > n)
        BY <3>3, <4>1
      <4> QED BY <3>3, <4>2
    <3>4. CASE k # n /\ links[p][k].state = "live"
      <4>1. links'[p][k] = [links[p][k] EXCEPT !.state = "superseded"]
        BY <2>3, <3>4
      <4>2. links'[p][k].state = "superseded"
        BY <3>1, <4>1 DEF Link
      <4> QED BY <3>2, <3>4, <4>2
    <3>5. CASE k # n /\ links[p][k].state # "live"
      <4>1. links'[p][k] = links[p][k]
        BY <2>3, <3>5
      <4> QED BY <3>2, <3>5, <4>1
    <3> QED BY <3>3, <3>4, <3>5
  <2>5. NewestInv'
    BY <1>1, <2>1, <2>2, <2>4 DEF NewestInv
  <2>6. NewestLinkOnly
    BY <2>2, <2>4 DEF NewestLinkOnly, Issued
  <2> QED BY <2>5, <2>6
<1>3. CASE Spends
  <2>1. PICK p \in Purposes, n \in 1..MaxLinks : Usable(p, n) /\ Spend(p, n)
    BY <1>3 DEF Spends
  <2>2. /\ \A q \in Purposes, k \in 1..MaxLinks :
             q # p \/ k # n => links'[q][k] = links[q][k]
        /\ links'[p][n].state = "used" /\ links[p][n].state = "live"
    BY <1>1, <2>1 DEF Spend, Usable, Link
  <2>3. NewestInv'
    BY <2>2 DEF NewestInv
  <2>4. n + 1 \notin Issued(p)
    BY <1>1, <2>2 DEF NewestInv, Issued
  <2>5. NewestLinkOnly
    BY <2>2, <2>4 DEF NewestLinkOnly, Issued
  <2> QED BY <2>3, <2>5
<1>4. CASE Ages
  BY <1>4 DEF Ages, NewestInv, NewestLinkOnly, Issued
<1> QED BY <1>2, <1>3, <1>4, LinkSteps

LEMMA NewestInit == Init => NewestInv
<1> SUFFICES ASSUME Init PROVE NewestInv
  OBVIOUS
<1>1. \A p \in Purposes, n \in 1..MaxLinks :
        links[p][n].state = IF p = "verify" /\ n = 1 THEN "live" ELSE "none"
  BY DEF Init
<1> QED BY <1>1 DEF NewestInv

\* A link works only as long as no newer one of its purpose was mailed: issue_token
\* replaces the one before it, and consume_token takes no link that was replaced.
THEOREM OldLinksAreDead == Spec => [][NewestLinkOnly]_vars
<1>1. IInv /\ NewestInv /\ [Next]_vars => NewestInv' /\ [NewestLinkOnly]_vars
  BY NewestStep
<1> QED BY <1>1, NewestInit, InvariantHolds, PTL DEF Spec

-----------------------------------------------------------------------------
(* The inductive invariant.                                                *)

\* Whom the deployment knows, or forgot while a request of theirs was running.
OAuthRemembered == oauthUsers \cup oauthLate

\* A state is accepted only while it is open, and belongs to who started the flow.
OAuthStateInv == \A s \in States :
  /\ oauthUsed[s] <= 1
  /\ oauthStates[s].there \in {"never", "open", "lapsed"} => oauthUsed[s] = 0
  /\ oauthStates[s].there = "never" => oauthStates[s].user = Nobody
  /\ oauthStates[s].there \in {"open", "lapsed", "consumed"}
       => oauthStates[s].user \in OAuthRemembered

\* A request acts for a user; past the second read of the state, for the user of the state.
OAuthFlowInv == \A w \in Requests :
  LET job == oauthWorker[w] IN
  /\ job.pc \in {"register", "save", "sign", "exchange", "store"} => job.user \in OAuthRemembered
  /\ job.pc \in {"reread", "exchange", "store"} => job.state \in States
  /\ job.pc \in {"exchange", "store"} => /\ oauthStates[job.state].there # "never"
                                         /\ oauthStates[job.state].user = job.user

OAuthAccountInv == \A a \in oauthAccounts : a.user = a.starter /\ a.user \in OAuthRemembered

\* Until registrations overlap or the settings change, the first client is the only one.
OAuthClientInv ==
  ~ oauthUnsettled =>
    /\ oauthSettings = 0 /\ oauthApp.for = 0
    /\ \A v, w \in C!Registering : v = w
    /\ C!Registering # {} => oauthApp.client = 0
    /\ \A w \in Requests : oauthWorker[w].pc = "save" => oauthWorker[w].client # 0
    /\ \A w \in Requests : oauthWorker[w].pc = "sign"
         => oauthApp.client # 0 /\ oauthWorker[w].client = oauthApp.client
    /\ \A s \in States : oauthStates[s].there \in {"open", "consumed"} =>
                           oauthApp.client # 0 /\ oauthStates[s].client = oauthApp.client

OAuthIInv == C!TypeOK /\ OAuthStateInv /\ OAuthFlowInv /\ OAuthAccountInv /\ OAuthClientInv

-----------------------------------------------------------------------------
LEMMA OAuthRestType == C!Bounds => C!Rest \in C!Worker /\ C!NoState \in C!State
BY DEF C!Bounds, C!Rest, C!Worker, C!NoState, C!State

LEMMA OAuthInvInit == C!Bounds /\ C!Init => OAuthIInv
<1> SUFFICES ASSUME C!Bounds, C!Init PROVE OAuthIInv
  OBVIOUS
<1>1. C!Rest \in C!Worker /\ C!NoState \in C!State /\ C!Rest.pc = "idle"
      /\ C!NoState.there = "never" /\ C!NoState.user = Nobody
  BY OAuthRestType DEF C!Rest, C!NoState
<1>2. 0 \in 0..MaxClients /\ 0 \in 0..MaxCookies /\ 0 \in 0..MaxCallbacks /\ 0 \in 0..1 /\ 0 \in Nat
  BY DEF C!Bounds
<1>3. C!TypeOK
  BY <1>1, <1>2 DEF C!Init, C!TypeOK
<1>4. OAuthStateInv
  BY <1>1 DEF C!Init, OAuthStateInv
<1>5. OAuthFlowInv /\ OAuthAccountInv
  BY <1>1 DEF C!Init, OAuthFlowInv, OAuthAccountInv
<1>6. OAuthClientInv
  BY <1>1 DEF C!Init, OAuthClientInv, C!Registering
<1> QED BY <1>3, <1>4, <1>5, <1>6 DEF OAuthIInv

\* A request that goes on keeps its invariants, if those of its next step hold.
LEMMA OAuthMoves ==
  ASSUME NEW w \in Requests, NEW j \in C!Worker, C!Becomes(w, j),
      oauthWorker \in [Requests -> C!Worker]
  PROVE  /\ oauthWorker' \in [Requests -> C!Worker]
         /\ oauthWorker'[w] = j
         /\ \A v \in Requests \ {w} : oauthWorker'[v] = oauthWorker[v]
BY DEF C!Becomes

\* A request that ends.
OAuthIdles(w) ==
  /\ oauthWorker' \in [Requests -> C!Worker] /\ oauthWorker'[w].pc = "idle"
  /\ \A v \in Requests \ {w} : oauthWorker'[v] = oauthWorker[v]

LEMMA OAuthRestsIdle ==
  ASSUME C!Bounds, NEW w \in Requests, C!Becomes(w, C!Rest), oauthWorker \in [Requests -> C!Worker]
  PROVE  OAuthIdles(w)
<1>1. C!Rest \in C!Worker /\ C!Rest.pc = "idle"
  BY OAuthRestType DEF C!Rest
<1> QED BY <1>1, OAuthMoves DEF OAuthIdles

LEMMA OAuthRests ==
  ASSUME C!Bounds, OAuthIInv, NEW w \in Requests, C!Becomes(w, C!Rest),
         UNCHANGED <<oauthUsers, oauthAccounts, oauthStates, oauthApp, oauthSettings, oauthClients,
                     oauthBindings, oauthCallbacks, oauthUsed,
                     oauthUnsettled, oauthLate>>,
         oauthCookie' \in [Browsers -> 0..MaxCookies]
  PROVE  OAuthIInv'
<1>1. OAuthIdles(w)
  BY OAuthRestsIdle DEF OAuthIInv, C!TypeOK
<1>2. C!TypeOK'
  BY <1>1 DEF OAuthIInv, C!TypeOK, OAuthIdles
<1>3. OAuthStateInv' /\ OAuthAccountInv'
  BY DEF OAuthIInv, OAuthStateInv, OAuthAccountInv, OAuthRemembered
<1>4. OAuthFlowInv'
  BY <1>1 DEF OAuthIInv, OAuthFlowInv, OAuthRemembered, OAuthIdles
<1>5. C!Registering' \subseteq C!Registering
  BY <1>1 DEF C!Registering, OAuthIdles
<1>6. OAuthClientInv'
  BY <1>1, <1>5 DEF OAuthIInv, OAuthClientInv, OAuthIdles
<1> QED BY <1>2, <1>3, <1>4, <1>6 DEF OAuthIInv

LEMMA OAuthConnectStep ==
  ASSUME C!Bounds, OAuthIInv, NEW w \in Requests, NEW u \in Users, NEW b \in Browsers,
      C!Connect(w, u, b)
  PROVE  OAuthIInv'
<1> DEFINE binding == IF oauthCookie[b] # 0 THEN oauthCookie[b] ELSE oauthBindings + 1
           job     == [C!Rest EXCEPT !.user = u, !.browser = b, !.binding = binding]
           cached  == [job EXCEPT !.pc = "sign", !.client = oauthApp.client]
           fresh   == [job EXCEPT !.pc = "register"]
<1>1. /\ oauthWorker[w].pc = "idle" /\ u \in oauthUsers /\ binding <= MaxCookies
      /\ oauthBindings' = IF oauthCookie[b] # 0 THEN oauthBindings ELSE binding
      /\ \/ C!Cached /\ C!Becomes(w, cached) /\ UNCHANGED oauthUnsettled
         \/ ~ C!Cached /\ C!Becomes(w, fresh)
              /\ oauthUnsettled' = (oauthUnsettled \/ C!Registering # {})
      /\ UNCHANGED <<oauthUsers, oauthAccounts, oauthStates, oauthApp, oauthSettings, oauthCookie,
           oauthClients, oauthCallbacks, oauthUsed, oauthLate>>
  BY DEF C!Connect
<1>2. binding \in 0..MaxCookies /\ oauthBindings' \in 0..MaxCookies
  BY <1>1 DEF C!Bounds, OAuthIInv, C!TypeOK
<1> HIDE DEF binding
<1>3. job \in C!Worker /\ job.user = u
  BY <1>2, OAuthRestType DEF C!Rest, C!Worker
<1>4. cached \in C!Worker /\ cached.pc = "sign" /\ cached.client = oauthApp.client
    /\ cached.user = u
  BY <1>2, OAuthRestType DEF C!Rest, C!Worker, OAuthIInv, C!TypeOK
<1>5. fresh \in C!Worker /\ fresh.pc = "register" /\ fresh.user = u
  BY <1>2, OAuthRestType DEF C!Rest, C!Worker
<1> HIDE DEF job, cached, fresh
<1>6. oauthWorker' \in [Requests -> C!Worker] /\ \A v \in Requests \ {w} :
    oauthWorker'[v] = oauthWorker[v]
  BY <1>1, <1>4, <1>5, OAuthMoves DEF OAuthIInv, C!TypeOK
<1>7. /\ oauthWorker'[w].user = u
      /\ \/ oauthWorker'[w].pc = "sign" /\ oauthWorker'[w].client = oauthApp.client /\ C!Cached /\ oauthUnsettled' = oauthUnsettled
         \/ oauthWorker'[w].pc = "register" /\ ~ C!Cached
              /\ oauthUnsettled' = (oauthUnsettled \/ C!Registering # {})
  BY <1>1, <1>4, <1>5, OAuthMoves DEF OAuthIInv, C!TypeOK
<1>8. C!TypeOK'
  BY <1>1, <1>2, <1>6, <1>7 DEF OAuthIInv, C!TypeOK
<1>9. OAuthStateInv' /\ OAuthAccountInv'
  BY <1>1 DEF OAuthIInv, OAuthStateInv, OAuthAccountInv, OAuthRemembered
<1>10. OAuthFlowInv'
  BY <1>1, <1>6, <1>7 DEF OAuthIInv, OAuthFlowInv, OAuthRemembered
<1>11. OAuthClientInv'
  <2> SUFFICES ASSUME ~ oauthUnsettled' PROVE OAuthClientInv'
    BY DEF OAuthClientInv
  <2>1. ~ oauthUnsettled
    BY <1>7
  <2>2. CASE oauthWorker'[w].pc = "sign"
    <3>1. C!Registering' = C!Registering
      BY <1>1, <1>6, <2>2 DEF C!Registering
    <3> QED BY <1>1, <1>6, <1>7, <2>1, <2>2, <3>1 DEF OAuthIInv, OAuthClientInv, C!Cached
  <2>3. CASE oauthWorker'[w].pc = "register"
    <3>1. C!Registering = {} /\ ~ C!Cached
      BY <1>7, <2>3
    <3>2. C!Registering' = {w}
      BY <1>6, <2>3, <3>1 DEF C!Registering
    <3>3. oauthApp.client = 0
      BY <2>1, <3>1 DEF C!Cached, OAuthIInv, OAuthClientInv
    <3> QED BY <1>1, <1>6, <2>1, <2>3, <3>2, <3>3 DEF OAuthIInv, OAuthClientInv
  <2> QED BY <1>7, <2>2, <2>3
<1> QED BY <1>8, <1>9, <1>10, <1>11 DEF OAuthIInv

LEMMA OAuthRegisterStep ==
  ASSUME C!Bounds, OAuthIInv, NEW w \in Requests, C!Register(w)
  PROVE  OAuthIInv'
<1> DEFINE next == [oauthWorker[w] EXCEPT !.pc = "save", !.client = oauthClients + 1]
<1>1. /\ oauthWorker[w].pc = "register" /\ oauthWorker[w] \in C!Worker
      /\ \/ oauthClients < MaxClients /\ oauthClients' = oauthClients + 1 /\ C!Becomes(w, next)
         \/ C!Becomes(w, C!Rest) /\ UNCHANGED oauthClients
      /\ UNCHANGED <<oauthUsers, oauthAccounts, oauthStates, oauthApp, oauthSettings, oauthCookie,
                     oauthBindings, oauthCallbacks, oauthUsed,
                     oauthUnsettled, oauthLate>>
  BY DEF C!Register, C!Finish, OAuthIInv, C!TypeOK
<1>2. CASE oauthClients < MaxClients /\ oauthClients' = oauthClients + 1 /\ C!Becomes(w, next)
  <2>1. oauthClients \in Nat /\ oauthClients + 1 \in 0..MaxClients
    BY <1>2 DEF C!Bounds, OAuthIInv, C!TypeOK
  <2>2. next \in C!Worker /\ next.pc = "save" /\ next.client # 0 /\ next.user = oauthWorker[w].user
    <3>1. PICK c \in 0..MaxClients : c = oauthClients + 1 /\ c # 0
      BY <2>1
    <3>2. next = [oauthWorker[w] EXCEPT !.pc = "save", !.client = c]
      BY <3>1
    <3> HIDE DEF next
    <3> QED BY <1>1, <3>1, <3>2 DEF C!Worker
  <2> HIDE DEF next
  <2>3. /\ oauthWorker' \in [Requests -> C!Worker] /\ \A v \in Requests \ {w} : oauthWorker'[v] = oauthWorker[v]
        /\ oauthWorker'[w].pc = "save" /\ oauthWorker'[w].client # 0
             /\ oauthWorker'[w].user = oauthWorker[w].user
    BY <1>2, <2>2, OAuthMoves DEF OAuthIInv, C!TypeOK
  <2>4. C!TypeOK'
    BY <1>1, <1>2, <2>1, <2>3 DEF OAuthIInv, C!TypeOK
  <2>5. OAuthStateInv' /\ OAuthAccountInv'
    BY <1>1 DEF OAuthIInv, OAuthStateInv, OAuthAccountInv, OAuthRemembered
  <2>6. OAuthFlowInv'
    BY <1>1, <2>3 DEF OAuthIInv, OAuthFlowInv, OAuthRemembered
  <2>7. C!Registering' = C!Registering
    BY <1>1, <2>3 DEF C!Registering
  <2>8. OAuthClientInv'
    BY <1>1, <2>3, <2>7 DEF OAuthIInv, OAuthClientInv
  <2> QED BY <2>4, <2>5, <2>6, <2>8 DEF OAuthIInv
<1>3. CASE C!Becomes(w, C!Rest) /\ UNCHANGED oauthClients
  <2>1. oauthCookie' \in [Browsers -> 0..MaxCookies]
    BY <1>1 DEF OAuthIInv, C!TypeOK
  <2> QED BY <1>1, <1>3, <2>1, OAuthRests
<1> QED BY <1>1, <1>2, <1>3

LEMMA OAuthSaveAppStep ==
  ASSUME C!Bounds, OAuthIInv, NEW w \in Requests, C!SaveApp(w)
  PROVE  OAuthIInv'
<1> DEFINE next == [oauthWorker[w] EXCEPT !.pc = "sign"]
<1>1. /\ oauthWorker[w].pc = "save" /\ oauthWorker[w] \in C!Worker
      /\ oauthApp' = [client |-> oauthWorker[w].client, for |-> oauthSettings]
      /\ C!Becomes(w, next)
      /\ UNCHANGED <<oauthUsers, oauthAccounts, oauthStates, oauthSettings, oauthCookie,
                     oauthClients, oauthBindings, oauthCallbacks, oauthUsed,
                     oauthUnsettled, oauthLate>>
  BY DEF C!SaveApp, OAuthIInv, C!TypeOK
<1>2. /\ next \in C!Worker /\ next.pc = "sign" /\ next.client = oauthWorker[w].client
      /\ next.user = oauthWorker[w].user
  BY <1>1 DEF C!Worker
<1> HIDE DEF next
<1>3. /\ oauthWorker' \in [Requests -> C!Worker] /\ \A v \in Requests \ {w} : oauthWorker'[v] = oauthWorker[v]
      /\ oauthWorker'[w].pc = "sign" /\ oauthWorker'[w].client = oauthWorker[w].client
      /\ oauthWorker'[w].user = oauthWorker[w].user
  BY <1>1, <1>2, OAuthMoves DEF OAuthIInv, C!TypeOK
<1>4. oauthApp'.client = oauthWorker[w].client /\ oauthApp'.for = oauthSettings
      /\ oauthApp' \in [client : 0..MaxClients, for : 0..1]
  BY <1>1 DEF C!Worker, OAuthIInv, C!TypeOK
<1>5. C!TypeOK'
  BY <1>1, <1>3, <1>4 DEF OAuthIInv, C!TypeOK
<1>6. OAuthStateInv' /\ OAuthAccountInv'
  BY <1>1 DEF OAuthIInv, OAuthStateInv, OAuthAccountInv, OAuthRemembered
<1>7. OAuthFlowInv'
  BY <1>1, <1>3 DEF OAuthIInv, OAuthFlowInv, OAuthRemembered
<1>8. OAuthClientInv'
  <2> SUFFICES ASSUME ~ oauthUnsettled PROVE OAuthClientInv'
    BY <1>1 DEF OAuthClientInv
  <2>1. w \in C!Registering /\ oauthWorker[w].client # 0 /\ oauthSettings = 0
    BY <1>1 DEF OAuthIInv, OAuthClientInv, C!Registering
  <2>2. oauthApp.client = 0 /\ C!Registering = {w}
    BY <2>1 DEF OAuthIInv, OAuthClientInv
  <2>3. C!Registering' = {}
    BY <1>3, <2>2 DEF C!Registering
  <2>4. /\ \A s \in States : oauthStates[s].there \notin {"open", "consumed"}
        /\ \A v \in Requests : oauthWorker[v].pc # "sign"
        /\ \A v \in Requests \ {w} : oauthWorker[v].pc # "save"
    BY <2>2 DEF OAuthIInv, OAuthClientInv, C!Registering
  <2> QED BY <1>1, <1>3, <1>4, <2>1, <2>3, <2>4 DEF OAuthClientInv
<1> QED BY <1>5, <1>6, <1>7, <1>8 DEF OAuthIInv

LEMMA OAuthSignStateStep ==
  ASSUME C!Bounds, OAuthIInv, NEW w \in Requests, C!SignState(w)
  PROVE  OAuthIInv'
<1>1. PICK s \in States : /\ oauthStates[s].there = "never"
        /\ oauthStates' = [oauthStates EXCEPT ![s] = [there |-> "open",
                                                      user |-> oauthWorker[w].user,
                                                      binding |-> oauthWorker[w].binding,
                                                      client |-> oauthWorker[w].client]]
  BY DEF C!SignState
<1>2. /\ oauthWorker[w].pc = "sign" /\ oauthWorker[w] \in C!Worker
      /\ oauthCookie' = [oauthCookie EXCEPT ![oauthWorker[w].browser] = oauthWorker[w].binding]
      /\ C!Becomes(w, C!Rest)
      /\ UNCHANGED <<oauthUsers, oauthAccounts, oauthApp, oauthSettings, oauthClients,
           oauthBindings, oauthCallbacks, oauthUsed, oauthUnsettled, oauthLate>>
  BY DEF C!SignState, C!Finish, OAuthIInv, C!TypeOK
<1>3. oauthStates \in [States -> C!State] /\ oauthWorker[w].user \in OAuthRemembered
  BY <1>2 DEF OAuthIInv, C!TypeOK, OAuthFlowInv
<1>4. /\ oauthStates'[s].there = "open" /\ oauthStates'[s].user = oauthWorker[w].user
      /\ oauthStates'[s].client = oauthWorker[w].client
      /\ \A t \in States \ {s} : oauthStates'[t] = oauthStates[t]
  BY <1>1, <1>3
<1>5. oauthStates' \in [States -> C!State] /\ oauthCookie' \in [Browsers -> 0..MaxCookies]
  BY <1>1, <1>2, <1>3 DEF C!State, C!Worker, OAuthIInv, C!TypeOK
<1>6. OAuthIdles(w)
  BY <1>2, OAuthRestsIdle DEF OAuthIInv, C!TypeOK
<1>7. C!TypeOK'
  BY <1>2, <1>5, <1>6 DEF OAuthIInv, C!TypeOK, OAuthIdles
<1>8. OAuthStateInv'
  BY <1>1, <1>2, <1>3, <1>4 DEF OAuthIInv, OAuthStateInv, OAuthRemembered
<1>9. OAuthAccountInv'
  BY <1>2 DEF OAuthIInv, OAuthAccountInv, OAuthRemembered
<1>10. OAuthFlowInv'
  BY <1>1, <1>2, <1>4, <1>6 DEF OAuthIInv, OAuthFlowInv, OAuthRemembered, OAuthIdles
<1>11. OAuthClientInv'
  <2> SUFFICES ASSUME ~ oauthUnsettled PROVE OAuthClientInv'
    BY <1>2 DEF OAuthClientInv
  <2>1. oauthWorker[w].client = oauthApp.client /\ oauthApp.client # 0
    BY <1>2 DEF OAuthIInv, OAuthClientInv
  <2>2. C!Registering' = C!Registering
    BY <1>2, <1>6 DEF C!Registering, OAuthIdles
  <2> QED BY <1>2, <1>4, <1>6, <2>1, <2>2 DEF OAuthIInv, OAuthClientInv, OAuthIdles
<1> QED BY <1>7, <1>8, <1>9, <1>10, <1>11 DEF OAuthIInv

LEMMA OAuthVerifyStep ==
  ASSUME C!Bounds, OAuthIInv, NEW w \in Requests, NEW s \in States, NEW b \in Browsers,
      C!Verify(w, s, b)
  PROVE  OAuthIInv'
<1> DEFINE next == [C!Rest EXCEPT !.pc = "reread", !.state = s, !.client = oauthStates[s].client,
                                  !.browser = b]
<1>1. /\ oauthWorker[w].pc = "idle" /\ oauthStates[s].there = "open"
      /\ oauthCallbacks < MaxCallbacks /\ oauthCallbacks' = oauthCallbacks + 1
      /\ oauthStates' = [oauthStates EXCEPT ![s].there = "consumed"]
      /\ oauthUsed' = [oauthUsed EXCEPT ![s] = @ + 1]
      /\ C!Becomes(w, next)
      /\ UNCHANGED <<oauthUsers, oauthAccounts, oauthApp, oauthSettings, oauthCookie, oauthClients,
           oauthBindings, oauthUnsettled, oauthLate>>
  BY DEF C!Verify
<1>2. oauthStates \in [States -> C!State] /\ oauthUsed \in [States -> Nat] /\ oauthUsed[s] = 0
      /\ oauthStates[s] \in C!State
  BY <1>1 DEF OAuthIInv, C!TypeOK, OAuthStateInv
<1>3. next \in C!Worker /\ next.pc = "reread" /\ next.state = s
  BY <1>2, OAuthRestType DEF C!Rest, C!Worker, C!State
<1> HIDE DEF next
<1>4. /\ oauthWorker' \in [Requests -> C!Worker] /\ \A v \in Requests \ {w} : oauthWorker'[v] = oauthWorker[v]
      /\ oauthWorker'[w].pc = "reread" /\ oauthWorker'[w].state = s
  BY <1>1, <1>3, OAuthMoves DEF OAuthIInv, C!TypeOK
<1>5. /\ oauthStates'[s] = [oauthStates[s] EXCEPT !.there = "consumed"]
      /\ \A t \in States \ {s} : oauthStates'[t] = oauthStates[t]
      /\ oauthUsed'[s] = 1 /\ \A t \in States \ {s} : oauthUsed'[t] = oauthUsed[t]
      /\ oauthUsed' \in [States -> Nat]
  BY <1>1, <1>2
<1>6. /\ oauthStates'[s].there = "consumed" /\ oauthStates'[s].user = oauthStates[s].user
      /\ oauthStates'[s].client = oauthStates[s].client /\ oauthStates' \in [States -> C!State]
  BY <1>1, <1>2, <1>5 DEF C!State
<1>7. oauthCallbacks' \in 0..MaxCallbacks
  BY <1>1 DEF C!Bounds, OAuthIInv, C!TypeOK
<1>8. C!TypeOK'
  BY <1>1, <1>4, <1>5, <1>6, <1>7 DEF OAuthIInv, C!TypeOK
<1>9. OAuthStateInv'
  BY <1>1, <1>5, <1>6 DEF OAuthIInv, OAuthStateInv, OAuthRemembered
<1>10. OAuthAccountInv'
  BY <1>1 DEF OAuthIInv, OAuthAccountInv, OAuthRemembered
<1>11. OAuthFlowInv'
  BY <1>1, <1>4, <1>5, <1>6 DEF OAuthIInv, OAuthFlowInv, OAuthRemembered
<1>12. C!Registering' = C!Registering
  BY <1>1, <1>4 DEF C!Registering
<1>13. OAuthClientInv'
  BY <1>1, <1>4, <1>5, <1>6, <1>12 DEF OAuthIInv, OAuthClientInv
<1> QED BY <1>8, <1>9, <1>10, <1>11, <1>13 DEF OAuthIInv

LEMMA OAuthRereadStep ==
  ASSUME C!Bounds, OAuthIInv, NEW w \in Requests, C!Reread(w)
  PROVE  OAuthIInv'
<1> DEFINE s    == oauthWorker[w].state
           next == [oauthWorker[w] EXCEPT !.pc = "exchange", !.user = oauthStates[s].user]
<1>1. /\ oauthWorker[w].pc = "reread" /\ oauthWorker[w] \in C!Worker /\ s \in States
      /\ \/ oauthStates[s].there = "consumed" /\ C!Becomes(w, next)
         \/ C!Becomes(w, C!Rest)
      /\ UNCHANGED <<oauthUsers, oauthAccounts, oauthStates, oauthApp, oauthSettings, oauthCookie,
                     oauthClients, oauthBindings, oauthCallbacks,
                     oauthUsed, oauthUnsettled, oauthLate>>
  BY DEF C!Reread, C!Finish, OAuthIInv, C!TypeOK, OAuthFlowInv
<1>2. CASE oauthStates[s].there = "consumed" /\ C!Becomes(w, next)
  <2>1. oauthStates[s] \in C!State /\ oauthStates[s].user \in OAuthRemembered
    BY <1>1, <1>2 DEF OAuthIInv, C!TypeOK, OAuthStateInv
  <2>2. /\ next \in C!Worker /\ next.pc = "exchange" /\ next.user = oauthStates[s].user
        /\ next.state = s
    BY <1>1, <2>1 DEF C!Worker, C!State
  <2> HIDE DEF next
  <2>3. /\ oauthWorker' \in [Requests -> C!Worker] /\ \A v \in Requests \ {w} : oauthWorker'[v] = oauthWorker[v]
        /\ oauthWorker'[w].pc = "exchange" /\ oauthWorker'[w].user = oauthStates[s].user
             /\ oauthWorker'[w].state = s
    BY <1>2, <2>2, OAuthMoves DEF OAuthIInv, C!TypeOK
  <2>4. C!TypeOK'
    BY <1>1, <2>3 DEF OAuthIInv, C!TypeOK
  <2>5. OAuthStateInv' /\ OAuthAccountInv'
    BY <1>1 DEF OAuthIInv, OAuthStateInv, OAuthAccountInv, OAuthRemembered
  <2>6. OAuthFlowInv'
    BY <1>1, <1>2, <2>1, <2>3 DEF OAuthIInv, OAuthFlowInv, OAuthRemembered
  <2>7. C!Registering' = C!Registering
    BY <1>1, <2>3 DEF C!Registering
  <2>8. OAuthClientInv'
    BY <1>1, <2>3, <2>7 DEF OAuthIInv, OAuthClientInv
  <2> QED BY <2>4, <2>5, <2>6, <2>8 DEF OAuthIInv
<1>3. CASE C!Becomes(w, C!Rest)
  <2>1. oauthCookie' \in [Browsers -> 0..MaxCookies]
    BY <1>1 DEF OAuthIInv, C!TypeOK
  <2> QED BY <1>1, <1>3, <2>1, OAuthRests
<1> QED BY <1>1, <1>2, <1>3

LEMMA OAuthCookieTaken ==
  ASSUME C!Bounds, OAuthIInv, NEW b, oauthCookie' = [oauthCookie EXCEPT ![b] = 0]
  PROVE  oauthCookie' \in [Browsers -> 0..MaxCookies]
<1>1. 0 \in 0..MaxCookies /\ oauthCookie \in [Browsers -> 0..MaxCookies]
  BY DEF C!Bounds, OAuthIInv, C!TypeOK
<1> QED BY <1>1

LEMMA OAuthExchangeStep ==
  ASSUME C!Bounds, OAuthIInv, NEW w \in Requests, C!Exchange(w)
  PROVE  OAuthIInv'
<1> DEFINE next == [oauthWorker[w] EXCEPT !.pc = "store"]
<1>1. /\ oauthWorker[w].pc = "exchange" /\ oauthWorker[w] \in C!Worker
      /\ \/ C!Becomes(w, next) /\ UNCHANGED oauthCookie
         \/ C!Becomes(w, C!Rest) /\ oauthCookie'
              = [oauthCookie EXCEPT ![oauthWorker[w].browser] = 0]
      /\ UNCHANGED <<oauthUsers, oauthAccounts, oauthStates, oauthApp, oauthSettings, oauthClients,
                     oauthBindings, oauthCallbacks, oauthUsed,
                     oauthUnsettled, oauthLate>>
  BY DEF C!Exchange, C!Finish, OAuthIInv, C!TypeOK
<1>2. CASE C!Becomes(w, next) /\ UNCHANGED oauthCookie
  <2>1. /\ next \in C!Worker /\ next.pc = "store" /\ next.user = oauthWorker[w].user
        /\ next.state = oauthWorker[w].state
    BY <1>1 DEF C!Worker
  <2> HIDE DEF next
  <2>2. /\ oauthWorker' \in [Requests -> C!Worker] /\ \A v \in Requests \ {w} : oauthWorker'[v] = oauthWorker[v]
        /\ oauthWorker'[w].pc = "store" /\ oauthWorker'[w].user = oauthWorker[w].user
        /\ oauthWorker'[w].state = oauthWorker[w].state
    BY <1>2, <2>1, OAuthMoves DEF OAuthIInv, C!TypeOK
  <2>3. C!TypeOK'
    BY <1>1, <1>2, <2>2 DEF OAuthIInv, C!TypeOK
  <2>4. OAuthStateInv' /\ OAuthAccountInv'
    BY <1>1 DEF OAuthIInv, OAuthStateInv, OAuthAccountInv, OAuthRemembered
  <2>5. OAuthFlowInv'
    BY <1>1, <2>2 DEF OAuthIInv, OAuthFlowInv, OAuthRemembered
  <2>6. C!Registering' = C!Registering
    BY <1>1, <2>2 DEF C!Registering
  <2>7. OAuthClientInv'
    BY <1>1, <2>2, <2>6 DEF OAuthIInv, OAuthClientInv
  <2> QED BY <2>3, <2>4, <2>5, <2>7 DEF OAuthIInv
<1>3. CASE C!Becomes(w, C!Rest) /\ oauthCookie' = [oauthCookie EXCEPT ![oauthWorker[w].browser] = 0]
  <2>1. oauthCookie' \in [Browsers -> 0..MaxCookies]
    BY <1>3, OAuthCookieTaken
  <2> QED BY <1>1, <1>3, <2>1, OAuthRests
<1> QED BY <1>1, <1>2, <1>3

LEMMA OAuthStoreAccountStep ==
  ASSUME C!Bounds, OAuthIInv, NEW w \in Requests, C!StoreAccount(w)
  PROVE  OAuthIInv'
<1> DEFINE u == oauthWorker[w].user
<1>1. /\ oauthWorker[w].pc = "store" /\ oauthWorker[w].state \in States
      /\ oauthAccounts' = {a \in oauthAccounts : a.user # u}
                            \cup {[user |-> u, starter |-> oauthStates[oauthWorker[w].state].user]}
      /\ oauthCookie' = [oauthCookie EXCEPT ![oauthWorker[w].browser] = 0]
      /\ C!Becomes(w, C!Rest)
      /\ UNCHANGED <<oauthUsers, oauthStates, oauthApp, oauthSettings, oauthClients, oauthBindings,
           oauthCallbacks, oauthUsed, oauthUnsettled, oauthLate>>
  BY DEF C!StoreAccount, C!Finish, OAuthIInv, OAuthFlowInv
<1>2. oauthStates[oauthWorker[w].state].user = u /\ u \in OAuthRemembered /\ u \in Users
  BY <1>1 DEF OAuthIInv, OAuthFlowInv, C!TypeOK, OAuthRemembered
<1>3. oauthAccounts' \subseteq oauthAccounts \cup {[user |-> u, starter |-> u]}
  BY <1>1, <1>2
<1> HIDE DEF u
<1>4. OAuthAccountInv' /\ oauthAccounts' \subseteq [user : Users, starter : Users]
  BY <1>1, <1>2, <1>3 DEF OAuthIInv, OAuthAccountInv, C!TypeOK, OAuthRemembered
<1>5. OAuthIdles(w)
  BY <1>1, OAuthRestsIdle DEF OAuthIInv, C!TypeOK
<1>6. oauthCookie' \in [Browsers -> 0..MaxCookies]
  BY <1>1, OAuthCookieTaken
<1>7. C!TypeOK'
  BY <1>1, <1>4, <1>5, <1>6 DEF OAuthIInv, C!TypeOK, OAuthIdles
<1>8. OAuthStateInv'
  BY <1>1 DEF OAuthIInv, OAuthStateInv, OAuthRemembered
<1>9. OAuthFlowInv'
  BY <1>1, <1>5 DEF OAuthIInv, OAuthFlowInv, OAuthRemembered, OAuthIdles
<1>10. C!Registering' = C!Registering
  BY <1>1, <1>5 DEF C!Registering, OAuthIdles
<1>11. OAuthClientInv'
  BY <1>1, <1>5, <1>10 DEF OAuthIInv, OAuthClientInv, OAuthIdles
<1> QED BY <1>4, <1>7, <1>8, <1>9, <1>11 DEF OAuthIInv

LEMMA OAuthLapseStep ==
  ASSUME C!Bounds, OAuthIInv, NEW s \in States, C!Lapse(s)
  PROVE  OAuthIInv'
<1>1. /\ oauthStates[s].there = "open" /\ oauthStates \in [States -> C!State] /\ oauthStates[s] \in C!State
      /\ oauthStates' = [oauthStates EXCEPT ![s].there = "lapsed"]
      /\ UNCHANGED <<oauthUsers, oauthAccounts, oauthApp, oauthSettings, oauthCookie, oauthClients,
                     oauthBindings, oauthCallbacks, oauthWorker,
                     oauthUsed, oauthUnsettled, oauthLate>>
  BY DEF C!Lapse, OAuthIInv, C!TypeOK
<1>2. /\ oauthStates'[s].there = "lapsed" /\ oauthStates'[s].user = oauthStates[s].user
      /\ oauthStates' \in [States -> C!State]
      /\ \A t \in States \ {s} : oauthStates'[t] = oauthStates[t]
  BY <1>1 DEF C!State
<1>3. C!TypeOK'
  BY <1>1, <1>2 DEF OAuthIInv, C!TypeOK
<1>4. OAuthStateInv' /\ OAuthAccountInv'
  BY <1>1, <1>2 DEF OAuthIInv, OAuthStateInv, OAuthAccountInv, OAuthRemembered
<1>5. OAuthFlowInv'
  BY <1>1, <1>2 DEF OAuthIInv, OAuthFlowInv, OAuthRemembered
<1>6. OAuthClientInv'
  BY <1>1, <1>2 DEF OAuthIInv, OAuthClientInv, C!Registering
<1> QED BY <1>3, <1>4, <1>5, <1>6 DEF OAuthIInv

\* Rows of oauth_states that disappear keep, for callbacks that know them, whose they were.
LEMMA OAuthGone ==
  ASSUME OAuthIInv, NEW S \in SUBSET States,
         oauthStates' = [s \in States |-> IF s \in S THEN [oauthStates[s] EXCEPT !.there = "gone"]
                                                     ELSE oauthStates[s]]
  PROVE  /\ oauthStates' \in [States -> C!State]
         /\ \A s \in States : /\ oauthStates'[s].user = oauthStates[s].user
                               /\ oauthStates'[s].client = oauthStates[s].client
                               /\ IF s \in S THEN oauthStates'[s].there = "gone"
                                             ELSE oauthStates'[s].there = oauthStates[s].there
BY DEF OAuthIInv, C!TypeOK, C!State

LEMMA OAuthStartStep ==
  ASSUME C!Bounds, OAuthIInv, C!Start
  PROVE  OAuthIInv'
<1> DEFINE S == {s \in States : oauthStates[s].there \in {"lapsed", "consumed"}}
<1>1. oauthStates' = [s \in States |-> IF s \in S THEN [oauthStates[s] EXCEPT !.there = "gone"]
                                                  ELSE oauthStates[s]]
  BY DEF C!Start
<1>2. /\ \/ UNCHANGED <<oauthSettings, oauthUnsettled>>
         \/ oauthSettings' = 1 /\ oauthUnsettled' = TRUE
      /\ UNCHANGED <<oauthUsers, oauthAccounts, oauthApp, oauthCookie, oauthClients, oauthBindings,
           oauthCallbacks, oauthWorker, oauthUsed, oauthLate>>
  BY DEF C!Start
<1>3. /\ oauthStates' \in [States -> C!State]
      /\ \A s \in States : /\ oauthStates'[s].user = oauthStates[s].user
                            /\ oauthStates'[s].client = oauthStates[s].client
                            /\ oauthStates'[s].there \in {"gone", oauthStates[s].there}
  <2>1. /\ oauthStates' \in [States -> C!State]
        /\ \A s \in States : /\ oauthStates'[s].user = oauthStates[s].user
                              /\ oauthStates'[s].client = oauthStates[s].client
                              /\ IF s \in S THEN oauthStates'[s].there = "gone"
                                            ELSE oauthStates'[s].there = oauthStates[s].there
    BY <1>1, OAuthGone
  <2> QED BY <2>1
<1>4. oauthSettings' \in 0..1 /\ oauthUnsettled' \in BOOLEAN
  <2>1. CASE UNCHANGED <<oauthSettings, oauthUnsettled>>
    BY <2>1 DEF OAuthIInv, C!TypeOK
  <2>2. CASE oauthSettings' = 1 /\ oauthUnsettled' = TRUE
    BY <2>2
  <2> QED BY <1>2, <2>1, <2>2
<1>5. C!TypeOK'
  BY <1>2, <1>3, <1>4 DEF OAuthIInv, C!TypeOK
<1>6. OAuthStateInv' /\ OAuthAccountInv'
  BY <1>2, <1>3 DEF OAuthIInv, OAuthStateInv, OAuthAccountInv, OAuthRemembered
<1>7. OAuthFlowInv'
  BY <1>2, <1>3 DEF OAuthIInv, OAuthFlowInv, OAuthRemembered
<1>8. OAuthClientInv'
  BY <1>2, <1>3 DEF OAuthIInv, OAuthClientInv, C!Registering
<1> QED BY <1>5, <1>6, <1>7, <1>8 DEF OAuthIInv

LEMMA OAuthDeleteUserStep ==
  ASSUME C!Bounds, OAuthIInv, NEW u \in Users, C!DeleteUser(u)
  PROVE  OAuthIInv'
<1> DEFINE S == {s \in States : oauthStates[s].user = u}
<1>1. oauthStates' = [s \in States |-> IF s \in S THEN [oauthStates[s] EXCEPT !.there = "gone"]
                                                  ELSE oauthStates[s]]
  BY DEF C!DeleteUser
<1>2. /\ oauthUsers' = oauthUsers \ {u}
      /\ oauthAccounts' = {a \in oauthAccounts : a.user # u}
      /\ oauthLate' = IF \E w \in Requests : oauthWorker[w].user = u /\ oauthWorker[w].pc # "idle"
                      THEN oauthLate \cup {u} ELSE oauthLate
      /\ UNCHANGED <<oauthApp, oauthSettings, oauthCookie, oauthClients, oauthBindings,
           oauthCallbacks, oauthWorker, oauthUsed, oauthUnsettled>>
  BY DEF C!DeleteUser
<1>3. /\ oauthStates' \in [States -> C!State]
      /\ \A s \in States : /\ oauthStates'[s].user = oauthStates[s].user
                            /\ oauthStates'[s].client = oauthStates[s].client
                            /\ IF oauthStates[s].user = u THEN oauthStates'[s].there = "gone"
                                                          ELSE oauthStates'[s].there
                                                              = oauthStates[s].there
  <2>1. /\ oauthStates' \in [States -> C!State]
        /\ \A s \in States : /\ oauthStates'[s].user = oauthStates[s].user
                              /\ oauthStates'[s].client = oauthStates[s].client
                              /\ IF s \in S THEN oauthStates'[s].there = "gone"
                                            ELSE oauthStates'[s].there = oauthStates[s].there
    BY <1>1, OAuthGone
  <2> QED BY <2>1
<1>4. OAuthRemembered \ {u} \subseteq OAuthRemembered'
      /\ ((\E w \in Requests : oauthWorker[w].user = u /\ oauthWorker[w].pc # "idle")
           => u \in OAuthRemembered')
  BY <1>2 DEF OAuthRemembered
<1>5. C!TypeOK'
  BY <1>2, <1>3 DEF OAuthIInv, C!TypeOK
<1>6. OAuthStateInv' /\ OAuthAccountInv'
  BY <1>2, <1>3, <1>4 DEF OAuthIInv, OAuthStateInv, OAuthAccountInv
<1>7. OAuthFlowInv'
  <2> SUFFICES ASSUME NEW w \in Requests
               PROVE  LET job == oauthWorker[w] IN
                      /\ job.pc \in {"register", "save", "sign", "exchange", "store"} =>
                           job.user \in OAuthRemembered'
                      /\ job.pc \in {"reread", "exchange", "store"} => job.state \in States
                      /\ job.pc \in {"exchange", "store"} => /\ oauthStates'[job.state].there # "never"
                                                             /\ oauthStates'[job.state].user
                                                                  = job.user
    BY <1>2 DEF OAuthFlowInv
  <2> QED BY <1>3, <1>4 DEF OAuthIInv, OAuthFlowInv
<1>8. OAuthClientInv'
  BY <1>2, <1>3 DEF OAuthIInv, OAuthClientInv, C!Registering
<1> QED BY <1>5, <1>6, <1>7, <1>8 DEF OAuthIInv

LEMMA OAuthInvStep == C!Bounds /\ OAuthIInv /\ [C!Next]_C!vars => OAuthIInv'
<1> SUFFICES ASSUME C!Bounds, OAuthIInv, [C!Next]_C!vars PROVE OAuthIInv'
  OBVIOUS
<1>1. CASE UNCHANGED C!vars
  BY <1>1 DEF C!vars, OAuthIInv, C!TypeOK, OAuthStateInv, OAuthFlowInv, OAuthAccountInv,
     OAuthClientInv, OAuthRemembered, C!Registering
<1>2. ASSUME NEW w \in Requests, C!Flow(w) PROVE OAuthIInv'
  BY <1>2, OAuthConnectStep, OAuthRegisterStep, OAuthSaveAppStep, OAuthSignStateStep,
     OAuthVerifyStep, OAuthRereadStep,
     OAuthExchangeStep, OAuthStoreAccountStep DEF C!Flow
<1> QED BY <1>1, <1>2, OAuthLapseStep, OAuthStartStep, OAuthDeleteUserStep DEF C!Next

LEMMA OAuthInvImplies ==
  OAuthIInv => C!TypeOK /\ C!StatesAreUsedOnce /\ C!AccountsGoToTheirStarter /\ C!DeletedUsersLeaveNothing
               /\ C!ClientsStayValid
BY DEF OAuthIInv, OAuthStateInv, OAuthAccountInv, OAuthClientInv, OAuthRemembered,
   C!StatesAreUsedOnce,
       C!AccountsGoToTheirStarter, C!DeletedUsersLeaveNothing, C!ClientsStayValid

-----------------------------------------------------------------------------
(* The inductive invariant.                                                *)

DestDoing(pc) == {w \in Requests : destWorker[w].pc = pc}

\* Which locals are meaningful at which step.
DestLocalsInv == \A w \in Requests :
  LET job == destWorker[w] IN
  /\ IF job.pc = "store" THEN job.keys \in D!Forms ELSE job.keys = {}
  /\ job.pc \in {"drop", "insert", "update", "boost"} => job.row \in Rows
  /\ job.pc = "update" => job.echo \in Echoes

\* No destination has two rows.
DestPlacedInv == \A r, s \in D!Present : destRows[r].key = destRows[s].key => r = s

DestConnected == {destRows[r].key : r \in D!Present}
DestComing    == UNION {destWorker[w].keys : w \in Requests}

\* The form that brings most.
DestLargest == IF Microblog # {} THEN Microblog ELSE CHOOSE ks \in D!Forms : TRUE

\* A request past the cap has room, until another one stores; and all of them together
\* never bring more than the first of them and what each of the others brings.
DestCapInv ==
  /\ ~ destCrossed => /\ Cardinality(DestConnected) <= DestCap
                      /\ \A w \in DestDoing("store") :
                           Cardinality(DestConnected \cup destWorker[w].keys) <= DestCap
  /\ destCrossed => D!Forms # {}
  /\ D!Forms # {} => Cardinality(DestConnected \cup DestComing)
                       <= DestCap + Cardinality(DestLargest) * (Cardinality(Requests) - 1)

\* A destination that is being disconnected has no echoes, and gets none unnoticed.
DestEchoInv ==
  /\ D!NoDanglingEcho
  /\ \A w \in DestDoing("insert") \cup DestDoing("update") :
       destWorker[w].row \in D!Present \cup destTorn
  /\ \A w \in DestDoing("drop") :
       /\ \A e \in D!LiveEchoes : destEchoes[e].row = destWorker[w].row
            => destWorker[w].row \in destTorn
       /\ \A v \in DestDoing("insert") \cup DestDoing("update") :
            destWorker[v].row = destWorker[w].row => destWorker[w].row \in destTorn

\* An edit that read the boost read where it had been switched on.
DestBoostInv ==
  /\ D!BoostStaysHome
  /\ \A w \in DestDoing("update") : destWorker[w].echo \notin destLate =>
       /\ destEchoes[destWorker[w].echo].boost => destWorker[w].boost
       /\ destWorker[w].boost => destBoostedAt[destWorker[w].echo] = destWorker[w].from

DestSecretInv == \A w \in DestDoing("store") :
  destWorker[w].blank /\ destWorker[w].keys \cap Webhooks # {} => destWorker[w].secret = D!Blank

DestIInv == D!TypeOK /\ DestLocalsInv /\ DestPlacedInv /\ DestCapInv /\ DestEchoInv /\ DestBoostInv
    /\ DestSecretInv

-----------------------------------------------------------------------------
(* Counting.                                                               *)

\* The operators of FiniteSets, as D! knows them.
LEMMA DestSets ==
  \A S : (D!IsFiniteSet(S) <=> IsFiniteSet(S)) /\ D!Cardinality(S) = Cardinality(S)
<1>1. \A S : D!IsFiniteSet(S) <=> IsFiniteSet(S)
  BY DEF D!IsFiniteSet, IsFiniteSet
<1>2. \A S : D!Cardinality(S) = Cardinality(S)
  BY <1>1, Zenon DEF D!Cardinality, Cardinality
<1> QED BY <1>1, <1>2

LEMMA DestKeySets ==
  ASSUME D!Bounds, NEW S \in SUBSET Keys
  PROVE  /\ IsFiniteSet(S) /\ Cardinality(S) \in Nat
         /\ \A T \in SUBSET S : Cardinality(T) \in Nat /\ Cardinality(T) <= Cardinality(S)
<1>1. IsFiniteSet(Keys)
  BY DestSets DEF D!Bounds
<1>2. IsFiniteSet(S) /\ Cardinality(S) \in Nat
  BY <1>1, FS_Subset, FS_CardinalityType
<1>3. ASSUME NEW T \in SUBSET S
      PROVE  Cardinality(T) \in Nat /\ Cardinality(T) <= Cardinality(S)
  BY <1>2, FS_Subset, FS_CardinalityType
<1> QED BY <1>2, <1>3

\* Keys get different rows, if there are enough.
LEMMA DestPlacingPlaces ==
  ASSUME NEW ks, NEW ids, IsFiniteSet(ks), IsFiniteSet(ids), Cardinality(ks) <= Cardinality(ids)
  PROVE  /\ D!Placing(ks, ids) \in [ks -> ids]
         /\ \A j, k \in ks : D!Placing(ks, ids)[j] = D!Placing(ks, ids)[k] => k = j
<1>1. Cardinality(ks) \in Nat /\ Cardinality(ids) \in Nat
  BY FS_CardinalityType
<1>2. PICK f : f \in Bijection(1..Cardinality(ks), ks)
  BY FS_CardinalityType DEF ExistsBijection
<1>3. PICK g : g \in Bijection(1..Cardinality(ids), ids)
  BY FS_CardinalityType DEF ExistsBijection
<1>4. /\ f \in [1..Cardinality(ks) -> ks]
      /\ \A k \in ks : \E i \in 1..Cardinality(ks) : f[i] = k
  BY <1>2 DEF Bijection, Surjection
<1>5. /\ g \in [1..Cardinality(ids) -> ids]
      /\ \A i, j \in 1..Cardinality(ids) : g[i] = g[j] => i = j
  BY <1>3 DEF Bijection, Injection, IsInjective
<1> DEFINE no(k) == CHOOSE i \in 1..Cardinality(ks) : f[i] = k
           at    == [k \in ks |-> g[no(k)]]
<1>6. \A k \in ks : no(k) \in 1..Cardinality(ks) /\ f[no(k)] = k
  BY <1>4
<1>7. \A k \in ks : no(k) \in 1..Cardinality(ids)
  BY <1>1, <1>6
<1> HIDE DEF no
<1>8. at \in [ks -> ids]
  BY <1>5, <1>7
<1>9. \A j, k \in ks : at[j] = at[k] => k = j
  BY <1>5, <1>6, <1>7
<1> HIDE DEF at
<1> QED BY <1>8, <1>9 DEF D!Placing

LEMMA DestPresentCount ==
  ASSUME D!Bounds, D!TypeOK, DestPlacedInv
  PROVE  /\ DestConnected \subseteq Keys \cup {Nobody}
         /\ Cardinality(D!Present) = Cardinality(DestConnected)
         /\ IsFiniteSet(DestConnected)
<1> DEFINE f == [r \in D!Present |-> destRows[r].key]
<1>1. IsFiniteSet(D!Present)
  BY DestSets, FS_Subset DEF D!Bounds, D!Present
<1>2. f \in Bijection(D!Present, DestConnected)
  BY DEF Bijection, Injection, Surjection, IsInjective, DestPlacedInv, DestConnected
<1>3. Cardinality(D!Present) = Cardinality(DestConnected) /\ IsFiniteSet(DestConnected)
  BY <1>1, <1>2, FS_Bijection DEF ExistsBijection
<1>4. DestConnected \subseteq Keys \cup {Nobody}
  BY DEF DestConnected, D!Present, D!TypeOK, D!Row
<1> QED BY <1>3, <1>4

LEMMA DestLargestForm ==
  ASSUME D!Bounds, D!Forms # {}
  PROVE  /\ DestLargest \in D!Forms /\ DestLargest # {} /\ IsFiniteSet(DestLargest)
         /\ Cardinality(DestLargest) \in Nat
         /\ \A ks \in D!Forms : ks = DestLargest \/ \E k : ks = {k}
<1>1. DestLargest \in D!Forms /\ \A ks \in D!Forms : ks = DestLargest \/ \E k : ks = {k}
  BY DEF DestLargest, D!Forms
<1>2. DestLargest # {} /\ DestLargest \subseteq Keys
  <2>1. \A ks \in D!Forms : ks # {} /\ ks \subseteq Keys
    BY DEF D!Forms, D!Bounds
  <2> QED BY <1>1, <2>1
<1> QED BY <1>1, <1>2, DestKeySets

\* What the other requests may still bring.
LEMMA DestOthersBring ==
  ASSUME D!Bounds, DestLocalsInv, D!Forms # {}, NEW w \in Requests
  PROVE  LET U == UNION {destWorker[v].keys : v \in Requests \ {w}} IN
         /\ IsFiniteSet(U)
         /\ Cardinality(U) <= Cardinality(DestLargest) * (Cardinality(Requests) - 1)
<1> DEFINE others == Requests \ {w}
           U == UNION {destWorker[v].keys : v \in others}
           P == others \X DestLargest
           h == [p \in P |-> IF destWorker[p[1]].keys = DestLargest THEN p[2]
                             ELSE CHOOSE k \in destWorker[p[1]].keys : TRUE]
           T == {h[p] : p \in P}
<1>1. /\ IsFiniteSet(others) /\ Cardinality(others) = Cardinality(Requests) - 1
      /\ Cardinality(others) \in Nat
  BY DestSets, FS_RemoveElement, FS_CardinalityType DEF D!Bounds
<1>2. IsFiniteSet(DestLargest) /\ Cardinality(DestLargest) \in Nat /\ DestLargest # {}
  BY DestLargestForm
<1>3. IsFiniteSet(P) /\ Cardinality(P) = Cardinality(others) * Cardinality(DestLargest)
  BY <1>1, <1>2, FS_Product
<1>4. h \in Surjection(P, T)
  BY DEF Surjection
<1>5. IsFiniteSet(T) /\ Cardinality(T) <= Cardinality(P)
  BY <1>3, <1>4, FS_Surjection
<1>6. U \subseteq T
  <2> SUFFICES ASSUME NEW v \in others, NEW k \in destWorker[v].keys PROVE k \in T
    OBVIOUS
  <2>1. destWorker[v].keys = DestLargest \/ destWorker[v].keys = {k}
    <3>1. destWorker[v].keys \in D!Forms
      BY DEF DestLocalsInv
    <3> QED BY <3>1, DestLargestForm
  <2>2. CASE destWorker[v].keys = DestLargest
    <3>1. <<v, k>> \in P /\ h[<<v, k>>] = k
      BY <2>2
    <3> QED BY <3>1
  <2>3. CASE destWorker[v].keys # DestLargest
    <3>1. PICK x : x \in DestLargest
      BY <1>2
    <3>2. <<v, x>> \in P /\ h[<<v, x>>] = k
      BY <2>1, <2>3, <3>1
    <3> QED BY <3>2
  <2> QED BY <2>2, <2>3
<1>7. IsFiniteSet(U) /\ Cardinality(U) <= Cardinality(T)
  BY <1>5, <1>6, FS_Subset
<1>8. Cardinality(U) \in Nat /\ Cardinality(T) \in Nat
  BY <1>5, <1>7, FS_CardinalityType
<1>9. Cardinality(U) <= Cardinality(DestLargest) * (Cardinality(Requests) - 1)
  <2>1. Cardinality(U) <= Cardinality(others) * Cardinality(DestLargest)
    BY <1>3, <1>5, <1>7, <1>8, FS_CardinalityType
  <2>2. Cardinality(others) * Cardinality(DestLargest)
      = Cardinality(DestLargest) * Cardinality(others)
    BY <1>1, <1>2
  <2> QED BY <1>1, <2>1, <2>2
<1> QED BY <1>7, <1>9

LEMMA DestMostAllowed ==
  ASSUME D!Bounds, D!Forms # {}
  PROVE  /\ DestCap + Cardinality(DestLargest) * (Cardinality(Requests) - 1) \in Int
         /\ DestCap <= DestCap + Cardinality(DestLargest) * (Cardinality(Requests) - 1)
<1>1. Cardinality(DestLargest) \in Nat
  BY DestLargestForm
<1>2. Cardinality(Requests) - 1 \in Nat
  <2>1. Cardinality(Requests) \in Nat /\ Cardinality(Requests) # 0
    BY DestSets, FS_CardinalityType, FS_EmptySet DEF D!Bounds
  <2> QED BY <2>1
<1>3. \A a, b \in Nat : DestCap + a * b \in Int /\ DestCap <= DestCap + a * b
  <2>1. \A a, b \in Nat : a * b \in Nat
    OBVIOUS
  <2>2. DestCap \in Nat
    BY DEF D!Bounds
  <2>3. \A n \in Nat : DestCap + n \in Int /\ DestCap <= DestCap + n
    BY <2>2
  <2> QED BY <2>1, <2>3
<1> QED BY <1>1, <1>2, <1>3

LEMMA DestRestType ==
  ASSUME D!Bounds
  PROVE  /\ D!Rest \in D!Worker /\ D!Rest.pc = "idle" /\ D!Rest.keys = {}
         /\ D!NoRow \in D!Row /\ D!NoRow.there = "never" /\ D!NoRow.key = Nobody
              /\ D!NoRow.secret = D!Blank
         /\ D!NoEcho \in D!Echo /\ D!NoEcho.there = "never" /\ ~ D!NoEcho.boost
<1>1. D!Blank \in D!Secrets
  BY DEF D!Bounds, D!Blank, D!Secrets, D!Clear
<1> QED BY <1>1 DEF D!Rest, D!Worker, D!NoRow, D!Row, D!NoEcho, D!Echo

LEMMA DestInvInit == D!Bounds /\ D!Init => DestIInv
<1> SUFFICES ASSUME D!Bounds, D!Init PROVE DestIInv
  OBVIOUS
<1> DEFINE at == D!Placing(Given, Rows)
<1>1. at \in [Given -> Rows] /\ \A j, k \in Given : at[j] = at[k] => k = j
  BY DestSets, DestPlacingPlaces, FS_Subset DEF D!Bounds
<1>2. destRows = [r \in Rows |-> IF \E k \in Given : at[k] = r
                   THEN [D!NoRow EXCEPT !.there = "yes", !.key = CHOOSE k \in Given : at[k] = r]
                   ELSE D!NoRow]
  BY DEF D!Init
<1> HIDE DEF at
<1>3. Given \subseteq Keys
  BY DEF D!Bounds
<1>4. \A r \in Rows :
        /\ destRows[r] \in D!Row
        /\ destRows[r].there = "yes" => destRows[r].key \in Given /\ at[destRows[r].key] = r
  <2> SUFFICES ASSUME NEW r \in Rows
               PROVE  /\ destRows[r] \in D!Row
                      /\ destRows[r].there = "yes"
                           => destRows[r].key \in Given /\ at[destRows[r].key] = r
    OBVIOUS
  <2>1. CASE \E k \in Given : at[k] = r
    <3>1. PICK k \in Given : k = (CHOOSE j \in Given : at[j] = r) /\ at[k] = r
      BY <2>1
    <3>2. destRows[r] = [D!NoRow EXCEPT !.there = "yes", !.key = k]
      BY <1>2, <2>1, <3>1
    <3> QED BY <1>3, <3>1, <3>2, DestRestType DEF D!Row
  <2>2. CASE ~ \E k \in Given : at[k] = r
    <3>1. destRows[r] = D!NoRow
      BY <1>2, <2>2
    <3> QED BY <3>1, DestRestType
  <2> QED BY <2>1, <2>2
<1>5. D!TypeOK
  <2>1. destRows \in [Rows -> D!Row]
    BY <1>2, <1>4
  <2>2. destPresses \in 0..DestPresses
    <3>1. destPresses = 0
      BY DEF D!Init
    <3>2. DestPresses \in Nat
      BY DEF D!Bounds
    <3> QED BY <3>1, <3>2
  <2> QED BY <2>1, <2>2, DestRestType DEF D!Init, D!TypeOK
<1>6. DestLocalsInv
  BY DestRestType DEF D!Init, DestLocalsInv
<1>7. DestPlacedInv
  BY <1>1, <1>4 DEF DestPlacedInv, D!Present
<1>8. DestCapInv
  <2>1. DestConnected \subseteq Given
    BY <1>4 DEF DestConnected, D!Present
  <2>2. DestComing = {}
    BY DestRestType DEF DestComing, D!Init
  <2>3. DestDoing("store") = {} /\ ~ destCrossed
    BY DestRestType DEF DestDoing, D!Init
  <2>4. Cardinality(DestConnected) \in Nat /\ Cardinality(DestConnected) <= DestCap
    <3>1. Cardinality(DestConnected) \in Nat /\ Cardinality(DestConnected) <= Cardinality(Given)
          /\ Cardinality(Given) \in Nat
      BY <1>3, <2>1, DestKeySets
    <3> QED BY DestSets, <3>1 DEF D!Bounds
  <2>5. DestConnected \cup DestComing = DestConnected
    BY <2>2
  <2>6. D!Forms # {} => Cardinality(DestConnected \cup DestComing)
                          <= DestCap + Cardinality(DestLargest) * (Cardinality(Requests) - 1)
    <3> SUFFICES ASSUME D!Forms # {}
                 PROVE  Cardinality(DestConnected)
                          <= DestCap + Cardinality(DestLargest) * (Cardinality(Requests) - 1)
      BY <2>5
    <3> DEFINE most == DestCap + Cardinality(DestLargest) * (Cardinality(Requests) - 1)
    <3>1. most \in Int /\ DestCap <= most
      BY DestMostAllowed
    <3> HIDE DEF most
    <3>2. Cardinality(DestConnected) <= most
      BY <2>4, <3>1 DEF D!Bounds
    <3> QED BY <3>2 DEF most
  <2> QED BY <2>3, <2>4, <2>6 DEF DestCapInv
<1>9. DestEchoInv /\ DestBoostInv /\ DestSecretInv
  BY DestRestType DEF D!Init, DestEchoInv, D!NoDanglingEcho, DestBoostInv, D!BoostStaysHome,
     DestSecretInv, DestDoing,
                      D!LiveEchoes
<1> QED BY <1>5, <1>6, <1>7, <1>8, <1>9 DEF DestIInv

-----------------------------------------------------------------------------
(* Steps.                                                                  *)

\* A request goes on, the others do not.
DestGoes(w, j) ==
  /\ destWorker' \in [Requests -> D!Worker] /\ destWorker'[w] = j
  /\ \A v \in Requests \ {w} : destWorker'[v] = destWorker[v]
  /\ destTorn \subseteq destTorn' /\ destTorn' \subseteq Rows
  /\ \A v, x \in Requests :
       /\ destWorker'[v].pc = "drop" /\ destWorker'[x].pc \in {"insert", "update"}
       /\ destWorker'[v].row = destWorker'[x].row /\ destWorker'[v].row \in Rows
       => destWorker'[v].row \in destTorn'

LEMMA DestMoves ==
  ASSUME D!TypeOK, NEW w \in Requests, NEW j \in D!Worker, D!Becomes(w, j)
  PROVE  DestGoes(w, j)
<1>1. /\ destWorker' \in [Requests -> D!Worker] /\ destWorker'[w] = j
      /\ \A v \in Requests \ {w} : destWorker'[v] = destWorker[v]
  BY DEF D!TypeOK, D!Becomes
<1>2. destTorn' = destTorn \cup
        {r \in Rows : \E v, x \in Requests :
           /\ destWorker'[v].pc = "drop" /\ destWorker'[v].row = r
           /\ destWorker'[x].pc \in {"insert", "update"} /\ destWorker'[x].row = r}
  BY DEF D!Becomes
<1>3. destTorn \subseteq Rows
  BY DEF D!TypeOK
<1> HIDE DEF D!Becomes
<1> QED BY <1>1, <1>2, <1>3 DEF DestGoes

\* A step that connects nothing and begins nothing past the cap.
DestQuiet ==
  /\ DestConnected' \subseteq DestConnected /\ destCrossed' = destCrossed
  /\ \A v \in Requests : \/ destWorker'[v] = destWorker[v]
                         \/ destWorker'[v].pc # "store" /\ destWorker'[v].keys = {}

\* Fewer destinations, connected or coming, leave more room.
LEMMA DestFewerFit ==
  ASSUME D!Bounds, NEW S, NEW T, NEW m \in Int, S \subseteq T, IsFiniteSet(T), Cardinality(T) <= m
  PROVE  Cardinality(S) <= m
<1>1. Cardinality(S) \in Nat /\ Cardinality(T) \in Nat /\ Cardinality(S) <= Cardinality(T)
  BY FS_Subset, FS_CardinalityType
<1> QED BY <1>1

LEMMA DestConnectedFinite ==
  ASSUME D!Bounds, D!TypeOK, DestLocalsInv, DestPlacedInv
  PROVE  IsFiniteSet(DestConnected) /\ IsFiniteSet(DestComing) /\ DestComing \subseteq Keys
<1>1. IsFiniteSet(DestConnected)
  BY DestPresentCount
<1>2. DestComing \subseteq Keys
  BY DEF DestComing, D!TypeOK, D!Worker
<1> QED BY <1>1, <1>2, DestKeySets

LEMMA DestQuietSteps ==
  ASSUME D!Bounds, D!TypeOK, DestLocalsInv, DestPlacedInv, DestCapInv, DestSecretInv, DestQuiet
  PROVE  DestCapInv' /\ DestSecretInv'
<1>1. IsFiniteSet(DestConnected) /\ IsFiniteSet(DestComing) /\ DestCap \in Int
  BY DestConnectedFinite DEF D!Bounds
<1>2. DestConnected' \subseteq DestConnected /\ DestComing' \subseteq DestComing
    /\ destCrossed' = destCrossed
  BY DEF DestQuiet, DestComing
<1>3. \A w \in DestDoing("store")' : w \in DestDoing("store") /\ destWorker'[w] = destWorker[w]
  BY DEF DestQuiet, DestDoing
<1>4. ASSUME ~ destCrossed
      PROVE  /\ Cardinality(DestConnected') <= DestCap
             /\ \A w \in DestDoing("store")' :
                  Cardinality(DestConnected' \cup destWorker'[w].keys) <= DestCap
  <2>1. Cardinality(DestConnected') <= DestCap
    BY <1>1, <1>2, <1>4, DestFewerFit DEF DestCapInv
  <2>2. ASSUME NEW w \in DestDoing("store")'
        PROVE  Cardinality(DestConnected' \cup destWorker'[w].keys) <= DestCap
    <3>1. w \in DestDoing("store") /\ destWorker'[w] = destWorker[w]
      BY <1>3
    <3>2. Cardinality(DestConnected \cup destWorker[w].keys) <= DestCap
      BY <1>4, <3>1 DEF DestCapInv
    <3>3. IsFiniteSet(DestConnected \cup destWorker[w].keys)
      <4>1. destWorker[w].keys \subseteq DestComing
        BY <3>1 DEF DestComing, DestDoing
      <4> QED BY <1>1, <4>1, FS_Subset, FS_Union
    <3>4. DestConnected' \cup destWorker'[w].keys \subseteq DestConnected \cup destWorker[w].keys
      BY <1>2, <3>1
    <3> QED BY <1>1, <3>2, <3>3, <3>4, DestFewerFit
  <2> QED BY <2>1, <2>2
<1>5. ASSUME D!Forms # {}
      PROVE  Cardinality(DestConnected' \cup DestComing')
               <= DestCap + Cardinality(DestLargest) * (Cardinality(Requests) - 1)
  <2>1. IsFiniteSet(DestConnected \cup DestComing)
      /\ DestConnected' \cup DestComing' \subseteq DestConnected \cup DestComing
    BY <1>1, <1>2, FS_Union
  <2> QED BY <1>5, <2>1, DestMostAllowed, DestFewerFit DEF DestCapInv
<1>6. DestCapInv'
  BY <1>2, <1>4, <1>5 DEF DestCapInv
<1>7. DestSecretInv'
  BY <1>3 DEF DestSecretInv
<1> QED BY <1>6, <1>7

\* What a form brings, without the ones that are connected.
LEMMA DestFormSecret ==
  ASSUME D!Bounds, D!TypeOK, NEW ks \in D!Forms, NEW secret \in D!Secrets,
         \A k \in ks : secret \in D!Submitted(k)
  PROVE  LET k == CHOOSE k \in ks : TRUE IN
         /\ D!Resolved(k, secret) \in D!Secrets
         /\ secret = D!Blank /\ ks \cap Webhooks # {} => D!Resolved(k, secret) = D!Blank
<1> DEFINE k == CHOOSE k \in ks : TRUE
<1>1. \A j \in ks : k \in ks /\ (j \in Webhooks => k \in Webhooks)
  BY DEF D!Forms, D!Bounds
<1>2. k \in ks
  BY DEF D!Forms
<1> SUFFICES /\ D!Resolved(k, secret) \in D!Secrets
             /\ secret = D!Blank /\ ks \cap Webhooks # {} => D!Resolved(k, secret) = D!Blank
  OBVIOUS
<1> HIDE DEF k
<1>3. D!Blank # D!Clear /\ D!Blank \in D!Secrets
  BY DEF D!Blank, D!Clear, D!Secrets, D!Bounds
<1>4. CASE k \in GitHub /\ secret = D!Blank
  <2>1. k \notin Webhooks
    BY <1>4 DEF D!Bounds
  <2>2. destPresses + 1 # D!Blank
    BY DEF D!TypeOK, D!Blank, D!Bounds
  <2>3. D!Known(k) # {}
    BY <1>2, <1>4, <2>1, <2>2 DEF D!Submitted
  <2>4. destRows[CHOOSE r \in D!Known(k) : TRUE].secret \in D!Secrets
    BY <2>3 DEF D!Known, D!Present, D!TypeOK, D!Row
  <2> QED BY <1>1, <1>4, <2>1, <2>4 DEF D!Resolved
<1>5. CASE ~ (k \in GitHub /\ secret = D!Blank)
  <2>1. D!Resolved(k, secret) \in {D!Blank, secret}
    BY <1>5 DEF D!Resolved
  <2> QED BY <1>3, <2>1
<1> QED BY <1>4, <1>5

LEMMA DestConnectStep ==
  ASSUME D!Bounds, DestIInv, NEW w \in Requests, NEW ks \in D!Forms, D!Connect(w, ks)
  PROVE  DestIInv'
<1> USE DEF DestIInv
<1>1. PICK secret \in {s \in D!Secrets : \A k \in ks : s \in D!Submitted(k)} :
        D!Begin(w, [D!Rest EXCEPT !.pc = "store", !.keys = ks, !.blank = secret = D!Blank,
                                  !.secret = LET k == CHOOSE k \in ks : TRUE
                                             IN D!Resolved(k, secret)])
  BY DEF D!Connect
<1> DEFINE resolved == LET k == CHOOSE k \in ks : TRUE IN D!Resolved(k, secret)
           next == [D!Rest EXCEPT !.pc = "store", !.keys = ks, !.blank = secret = D!Blank,
                                  !.secret = resolved]
<1>2. resolved \in D!Secrets /\ (secret = D!Blank /\ ks \cap Webhooks # {} => resolved = D!Blank)
  BY <1>1, DestFormSecret
<1>3. ks \subseteq Keys
  BY DEF D!Forms, D!Bounds
<1>4. D!Begin(w, next)
  BY <1>1
<1> HIDE DEF resolved
<1>5. /\ next \in D!Worker /\ next.pc = "store" /\ next.keys = ks /\ next.secret = resolved
      /\ (next.blank <=> secret = D!Blank)
  BY <1>2, <1>3, DestRestType DEF D!Rest, D!Worker
<1> HIDE DEF next
<1>6. /\ destWorker[w].pc = "idle" /\ destPresses < DestPresses /\ destPresses' = destPresses + 1
      /\ D!Becomes(w, next) /\ UNCHANGED <<destRows, destEchoes, destCrossed, destBoostedAt,
           destLate>>
  BY <1>4 DEF D!Begin, D!history
<1>7. DestGoes(w, next)
  BY <1>5, <1>6, DestMoves
<1>8. D!TypeOK'
  <2>1. destPresses' \in 0..DestPresses
    BY <1>6 DEF D!TypeOK, D!Bounds
  <2> QED BY <1>6, <1>7, <2>1 DEF D!TypeOK, DestGoes
<1>9. DestLocalsInv'
  BY <1>5, <1>7 DEF DestLocalsInv, DestGoes
<1>10. DestPlacedInv'
  BY <1>6 DEF DestPlacedInv, D!Present
<1>11. DestEchoInv'
  BY <1>5, <1>6, <1>7 DEF DestEchoInv, D!NoDanglingEcho, D!LiveEchoes, D!Present, DestDoing,
     DestGoes
<1>12. DestBoostInv'
  BY <1>5, <1>6, <1>7 DEF DestBoostInv, D!BoostStaysHome, DestDoing, DestGoes
<1>13. DestSecretInv'
  <2> SUFFICES ASSUME NEW v \in Requests, destWorker'[v].pc = "store", destWorker'[v].blank,
                      destWorker'[v].keys \cap Webhooks # {}
               PROVE  destWorker'[v].secret = D!Blank
    BY DEF DestSecretInv, DestDoing
  <2>1. CASE v = w
    BY <1>2, <1>5, <1>7, <2>1 DEF DestGoes
  <2>2. CASE v # w
    BY <1>7, <2>2 DEF DestSecretInv, DestDoing, DestGoes
  <2> QED BY <2>1, <2>2
<1>14. DestConnected' = DestConnected
  BY <1>6 DEF DestConnected, D!Present
<1>15. IsFiniteSet(DestConnected) /\ IsFiniteSet(DestComing) /\ DestComing \subseteq Keys
  BY DestConnectedFinite
<1>16. \/ ks \subseteq DestConnected
       \/ Cardinality(DestConnected \cup ks) <= DestCap
  <2>1. CASE D!New(ks) = {}
    BY <2>1 DEF D!New, D!Known, DestConnected
  <2>2. CASE D!New(ks) # {}
    <3>1. Cardinality(DestConnected) + Cardinality(D!New(ks)) <= DestCap
      BY DestSets, <2>2, DestPresentCount DEF D!Connect, D!Fits
    <3>2. DestConnected \cup ks = DestConnected \cup D!New(ks)
      BY DEF D!New, D!Known, DestConnected
    <3>3. IsFiniteSet(D!New(ks))
      BY <1>3, DestKeySets DEF D!New
    <3>4. /\ Cardinality(DestConnected \cup D!New(ks))
               = Cardinality(DestConnected) + Cardinality(D!New(ks)) - Cardinality(DestConnected \cap D!New(ks))
          /\ Cardinality(DestConnected) \in Nat /\ Cardinality(D!New(ks)) \in Nat
          /\ Cardinality(DestConnected \cap D!New(ks)) \in Nat
      BY <1>15, <3>3, FS_Union, FS_Intersection, FS_CardinalityType
    <3>5. Cardinality(DestConnected \cup ks) = Cardinality(DestConnected \cup D!New(ks))
      BY <3>2
    <3>6. \A a, b, c, d \in Nat : a + b <= DestCap /\ c = a + b - d => c <= DestCap
      BY DEF D!Bounds
    <3>7. Cardinality(DestConnected \cup D!New(ks)) \in Nat
      BY <1>15, <3>3, FS_Union, FS_CardinalityType
    <3>8. Cardinality(DestConnected \cup D!New(ks)) <= DestCap
      BY <3>1, <3>4, <3>6, <3>7
    <3> QED BY <3>5, <3>8
  <2> QED BY <2>1, <2>2
<1> DEFINE others == UNION {destWorker[v].keys : v \in Requests \ {w}}
<1>17. /\ DestComing = others /\ DestComing' = others \cup ks
  <2>1. destWorker[w].keys = {}
    BY <1>6 DEF DestLocalsInv
  <2> QED BY <1>5, <1>7, <2>1 DEF DestComing, DestGoes
<1>18. Cardinality(DestConnected' \cup DestComing')
         <= DestCap + Cardinality(DestLargest) * (Cardinality(Requests) - 1)
  <2>1. CASE ks \subseteq DestConnected
    <3>1. DestConnected' \cup DestComing' = DestConnected \cup DestComing
      BY <1>14, <1>17, <2>1
    <3> QED BY <3>1 DEF DestCapInv
  <2>2. CASE Cardinality(DestConnected \cup ks) <= DestCap
    <3>1. IsFiniteSet(others) /\ Cardinality(others) <= Cardinality(DestLargest) * (Cardinality(Requests) - 1)
      BY DestOthersBring
    <3>2. IsFiniteSet(DestConnected \cup ks)
      BY <1>3, <1>15, DestKeySets, FS_Union
    <3>3. DestConnected' \cup DestComing' = (DestConnected \cup ks) \cup others
      BY <1>14, <1>17
    <3> HIDE DEF others
    <3>4. Cardinality((DestConnected \cup ks) \cup others) <= Cardinality(DestConnected \cup ks) + Cardinality(others)
      <4>1. /\ Cardinality((DestConnected \cup ks) \cup others) = Cardinality(DestConnected \cup ks)
                 + Cardinality(others) - Cardinality((DestConnected \cup ks) \cap others)
            /\ Cardinality((DestConnected \cup ks) \cap others) \in Nat
            /\ Cardinality(DestConnected \cup ks) \in Nat /\ Cardinality(others) \in Nat
        BY <3>1, <3>2, FS_Union, FS_Intersection, FS_CardinalityType
      <4> QED BY <4>1
    <3>5. /\ Cardinality((DestConnected \cup ks) \cup others) \in Nat
          /\ Cardinality(DestConnected \cup ks) \in Nat /\ Cardinality(others) \in Nat
      BY <3>1, <3>2, FS_Union, FS_CardinalityType
    <3>6. Cardinality(DestLargest) * (Cardinality(Requests) - 1) \in Int
      BY DestSets, DestLargestForm, FS_CardinalityType DEF D!Bounds
    <3>7. \A a, b, c \in Nat, m \in Int : a <= b + c /\ b <= DestCap /\ c <= m => a <= DestCap + m
      BY DEF D!Bounds
    <3> QED BY <2>2, <3>1, <3>3, <3>4, <3>5, <3>6, <3>7
  <2> QED BY <1>16, <2>1, <2>2
<1>19. ASSUME ~ destCrossed
       PROVE  /\ Cardinality(DestConnected') <= DestCap
              /\ \A v \in DestDoing("store")' :
                   Cardinality(DestConnected' \cup destWorker'[v].keys) <= DestCap
  <2>1. Cardinality(DestConnected) <= DestCap
    BY <1>19 DEF DestCapInv
  <2>2. ks \subseteq DestConnected => DestConnected \cup ks = DestConnected
    OBVIOUS
  <2>3. Cardinality(DestConnected \cup ks) <= DestCap
    BY <1>16, <2>1, <2>2
  <2>4. ASSUME NEW v \in DestDoing("store")'
        PROVE  Cardinality(DestConnected \cup destWorker'[v].keys) <= DestCap
    <3>1. CASE v = w
      BY <1>5, <1>7, <2>3, <3>1 DEF DestGoes
    <3>2. CASE v # w
      BY <1>7, <1>19, <2>4, <3>2 DEF DestCapInv, DestDoing, DestGoes
    <3> QED BY <3>1, <3>2
  <2> QED BY <1>14, <2>1, <2>4
<1>20. DestCapInv'
  BY <1>6, <1>18, <1>19 DEF DestCapInv
<1> QED BY <1>8, <1>9, <1>10, <1>11, <1>12, <1>13, <1>20

\* What the upsert leaves of the rows there are, and which rows it adds.
LEMMA DestStoreEffect ==
  ASSUME D!Bounds, D!TypeOK, DestLocalsInv, DestPlacedInv, NEW w \in Requests, D!Store(w)
  PROVE  LET job == destWorker[w] IN
         /\ destRows' \in [Rows -> D!Row] /\ DestPlacedInv'
         /\ DestConnected' \subseteq DestConnected \cup job.keys
         /\ \A r \in D!Present :
              /\ destRows'[r].there = "yes" /\ destRows'[r].key = destRows[r].key
              /\ job.secret = D!Blank => destRows'[r].secret = destRows[r].secret
<1> DEFINE job   == destWorker[w]
           fresh == {k \in job.keys : D!Known(k) = {}}
           at    == D!Placing(fresh, D!Unborn)
           kept(r)  == r \in D!Present /\ destRows[r].key \in job.keys
           added(r) == \E k \in fresh : at[k] = r
           key(r)   == CHOOSE k \in fresh : at[k] = r
<1>1. /\ Cardinality(fresh) <= Cardinality(D!Unborn)
      /\ destRows' = [r \in Rows |->
           IF kept(r) THEN D!Upserted(destRows[r], job.secret)
           ELSE IF added(r) THEN [D!NoRow EXCEPT !.there = "yes", !.key = key(r),
               !.secret = job.secret]
           ELSE destRows[r]]
  BY DestSets DEF D!Store
<1>2. job \in D!Worker /\ job.keys \subseteq Keys /\ job.secret \in D!Secrets
  BY DEF D!TypeOK, D!Worker
<1>3. fresh \subseteq Keys /\ fresh \subseteq job.keys /\ \A k \in fresh : D!Known(k) = {}
  BY <1>2
<1>4. IsFiniteSet(fresh) /\ IsFiniteSet(D!Unborn)
  BY DestSets, <1>3, DestKeySets, FS_Subset DEF D!Unborn, D!Bounds
<1>5. at \in [fresh -> D!Unborn] /\ \A j, k \in fresh : at[j] = at[k] => k = j
  BY <1>1, <1>4, DestPlacingPlaces
<1> HIDE DEF fresh, at
<1>6. \A r \in Rows : added(r) => key(r) \in fresh /\ at[key(r)] = r /\ r \in D!Unborn
  BY <1>5
<1>7. ASSUME NEW r \in Rows, kept(r)
      PROVE  /\ destRows'[r] \in D!Row /\ destRows'[r].there = "yes" /\ destRows'[r].key = destRows[r].key
             /\ job.secret = D!Blank => destRows'[r].secret = destRows[r].secret
  <2>1. destRows'[r] = D!Upserted(destRows[r], job.secret)
    BY <1>1, <1>7
  <2>2. destRows[r] \in D!Row /\ destRows[r].there = "yes"
    BY <1>7 DEF D!TypeOK, D!Present
  <2>3. D!Blank \in D!Secrets /\ D!Blank # D!Clear
    BY DestRestType DEF D!Row, D!Blank, D!Clear
  <2>4. PICK secret \in D!Secrets : /\ destRows'[r] = [destRows[r] EXCEPT !.secret = secret]
                                    /\ job.secret = D!Blank => secret = destRows[r].secret
    <3>1. CASE job.secret = D!Clear
      BY <2>1, <2>3, <3>1 DEF D!Upserted
    <3>2. CASE job.secret = D!Blank
      BY <2>1, <2>2, <2>3, <3>2 DEF D!Upserted, D!Row
    <3>3. CASE job.secret # D!Clear /\ job.secret # D!Blank
      BY <1>2, <2>1, <3>3 DEF D!Upserted
    <3> QED BY <3>1, <3>2, <3>3
  <2> QED BY <2>2, <2>4 DEF D!Row
<1>8. ASSUME NEW r \in Rows, ~ kept(r), added(r)
      PROVE  /\ destRows'[r] \in D!Row /\ destRows'[r].there = "yes" /\ destRows'[r].key = key(r)
             /\ destRows[r].there = "never"
  <2> HIDE DEF key
  <2>1. destRows'[r] = [D!NoRow EXCEPT !.there = "yes", !.key = key(r), !.secret = job.secret]
    BY <1>1, <1>8
  <2>2. key(r) \in Keys /\ destRows[r].there = "never"
    BY <1>3, <1>6, <1>8 DEF D!Unborn
  <2> QED BY <1>2, <2>1, <2>2, DestRestType DEF D!Row
<1>9. ASSUME NEW r \in Rows, ~ kept(r), ~ added(r)
      PROVE  destRows'[r] = destRows[r] /\ destRows'[r] \in D!Row
  BY <1>1, <1>9 DEF D!TypeOK
<1>10. destRows' \in [Rows -> D!Row]
  <2>1. \A r \in Rows : destRows'[r] \in D!Row
    BY <1>7, <1>8, <1>9
  <2> HIDE DEF kept, added, key
  <2> QED BY <1>1, <2>1
<1>11. \A r \in D!Present : /\ destRows'[r].there = "yes" /\ destRows'[r].key = destRows[r].key
                            /\ job.secret = D!Blank => destRows'[r].secret = destRows[r].secret
  <2> SUFFICES ASSUME NEW r \in D!Present
               PROVE  /\ destRows'[r].there = "yes" /\ destRows'[r].key = destRows[r].key
                      /\ job.secret = D!Blank => destRows'[r].secret = destRows[r].secret
    OBVIOUS
  <2>1. r \in Rows /\ destRows[r].there = "yes"
    BY DEF D!Present
  <2>2. CASE kept(r)
    BY <1>7, <2>1, <2>2
  <2>3. CASE ~ kept(r)
    <3>1. ~ added(r)
      BY <1>6, <2>1 DEF D!Unborn
    <3> QED BY <1>9, <2>1, <2>3, <3>1
  <2> QED BY <2>2, <2>3
<1>12. \A r \in Rows : destRows'[r].there = "yes" =>
         \/ r \in D!Present /\ destRows'[r].key = destRows[r].key
         \/ destRows'[r].key \in fresh /\ at[destRows'[r].key] = r
  <2> SUFFICES ASSUME NEW r \in Rows, destRows'[r].there = "yes", r \notin D!Present
               PROVE  destRows'[r].key \in fresh /\ at[destRows'[r].key] = r
    BY <1>11
  <2>1. ~ kept(r) /\ destRows[r].there # "yes"
    BY DEF D!Present
  <2>2. added(r)
    BY <1>9, <2>1
  <2>3. destRows'[r].key = key(r)
    BY <1>8, <2>1, <2>2
  <2> QED BY <1>6, <2>2, <2>3
<1> HIDE DEF kept, added, key
<1>13. DestPlacedInv'
  <2> SUFFICES ASSUME NEW r \in Rows, NEW s \in Rows, destRows'[r].there = "yes",
                      destRows'[s].there = "yes", destRows'[r].key = destRows'[s].key
               PROVE  r = s
    BY DEF DestPlacedInv, D!Present
  <2>1. CASE r \in D!Present /\ s \in D!Present
    BY <1>11, <2>1 DEF DestPlacedInv
  <2>2. CASE r \in D!Present /\ s \notin D!Present
    <3>1. destRows[r].key \in fresh
      BY <1>11, <1>12, <2>2
    <3> QED BY <1>3, <2>2, <3>1 DEF D!Known
  <2>3. CASE r \notin D!Present /\ s \in D!Present
    <3>1. destRows[s].key \in fresh
      BY <1>11, <1>12, <2>3
    <3> QED BY <1>3, <2>3, <3>1 DEF D!Known
  <2>4. CASE r \notin D!Present /\ s \notin D!Present
    BY <1>12, <2>4
  <2> QED BY <2>1, <2>2, <2>3, <2>4
<1>14. DestConnected' \subseteq DestConnected \cup job.keys
  BY <1>3, <1>12 DEF DestConnected, D!Present
<1> QED BY <1>10, <1>11, <1>13, <1>14

LEMMA DestStoreStep ==
  ASSUME D!Bounds, DestIInv, NEW w \in Requests, D!Store(w)
  PROVE  DestIInv'
<1> USE DEF DestIInv
<1> DEFINE job == destWorker[w]
<1>1. /\ destRows' \in [Rows -> D!Row] /\ DestPlacedInv'
      /\ DestConnected' \subseteq DestConnected \cup job.keys
      /\ D!Present \subseteq D!Present'
  BY DestStoreEffect DEF D!Present
<1>2. /\ job.pc = "store" /\ D!Becomes(w, D!Rest)
      /\ destCrossed' = (destCrossed \/ \E v \in Requests \ {w} : destWorker[v].pc = "store")
      /\ UNCHANGED <<destPresses, destEchoes, destBoostedAt, destLate>>
  BY DEF D!Store, D!Finish, D!history
<1>3. DestGoes(w, D!Rest)
  BY <1>2, DestRestType, DestMoves
<1>4. D!TypeOK'
  BY <1>1, <1>2, <1>3 DEF D!TypeOK, DestGoes
<1>5. DestLocalsInv'
  BY <1>3, DestRestType DEF DestLocalsInv, DestGoes
<1>6. DestEchoInv'
  BY <1>1, <1>2, <1>3, DestRestType DEF DestEchoInv, D!NoDanglingEcho, D!LiveEchoes, DestDoing,
     DestGoes
<1>7. DestBoostInv'
  BY <1>2, <1>3, DestRestType DEF DestBoostInv, D!BoostStaysHome, DestDoing, DestGoes
<1>8. DestSecretInv'
  BY <1>3, DestRestType DEF DestSecretInv, DestDoing, DestGoes
<1>9. /\ IsFiniteSet(DestConnected) /\ IsFiniteSet(DestComing) /\ job.keys \subseteq DestComing
      /\ DestComing' \subseteq DestComing
  BY <1>3, DestConnectedFinite, DestRestType DEF DestComing, DestGoes
<1>10. D!Forms # {}
  BY <1>2 DEF DestLocalsInv
<1>11. Cardinality(DestConnected' \cup DestComing')
         <= DestCap + Cardinality(DestLargest) * (Cardinality(Requests) - 1)
  <2>1. IsFiniteSet(DestConnected \cup DestComing)
      /\ DestConnected' \cup DestComing' \subseteq DestConnected \cup DestComing
    BY <1>1, <1>9, FS_Union
  <2> QED BY <1>10, <2>1, DestMostAllowed, DestFewerFit DEF DestCapInv
<1>12. ASSUME ~ destCrossed'
       PROVE  Cardinality(DestConnected') <= DestCap /\ DestDoing("store")' = {}
  <2>1. ~ destCrossed /\ \A v \in Requests \ {w} : destWorker[v].pc # "store"
    BY <1>2, <1>12
  <2>2. Cardinality(DestConnected \cup job.keys) <= DestCap
    BY <1>2, <2>1 DEF DestCapInv, DestDoing
  <2>3. IsFiniteSet(DestConnected \cup job.keys)
    BY <1>9, FS_Subset, FS_Union
  <2>4. Cardinality(DestConnected') <= DestCap
    BY <1>1, <2>2, <2>3, DestFewerFit DEF D!Bounds
  <2> QED BY <1>3, <2>1, <2>4, DestRestType DEF DestDoing, DestGoes
<1>13. DestCapInv'
  BY <1>10, <1>11, <1>12 DEF DestCapInv
<1> QED BY <1>1, <1>4, <1>5, <1>6, <1>7, <1>8, <1>13

\* A request that begins with a row, and no form, and what it read.
DestBegins(w, j, r) ==
  /\ D!Begin(w, j) /\ j.keys = {} /\ j.row = r
  /\ \/ j.pc = "drop" /\ D!Dependents(r) = {}
     \/ j.pc \in {"insert", "boost"}
     \/ /\ j.pc = "update" /\ j.echo \in D!LiveEchoes
        /\ j.from = destEchoes[j.echo].row /\ j.boost = destEchoes[j.echo].boost

LEMMA DestBeginStep ==
  ASSUME D!Bounds, DestIInv, NEW w \in Requests,
         \/ \E r \in Rows : D!Disconnect(w, r) \/ D!AddEcho(w, r) \/ D!ReadAccountBoost(w, r)
         \/ \E e \in Echoes, r \in Rows : D!EditEcho(w, e, r)
  PROVE  DestIInv'
<1> USE DEF DestIInv
<1>1. PICK j \in D!Worker, r \in D!Present : DestBegins(w, j, r)
  <2>1. ASSUME NEW r \in Rows, D!Disconnect(w, r)
        PROVE  \E j \in D!Worker, s \in D!Present : DestBegins(w, j, s)
    <3> DEFINE next == [D!Rest EXCEPT !.pc = "drop", !.row = r]
    <3>1. next \in D!Worker /\ next.pc = "drop" /\ next.keys = {} /\ next.row = r
      BY DestRestType DEF D!Rest, D!Worker
    <3>2. D!Begin(w, next) /\ r \in D!Present /\ D!Dependents(r) = {}
      BY <2>1 DEF D!Disconnect
    <3> HIDE DEF next
    <3> QED BY <3>1, <3>2 DEF DestBegins
  <2>2. ASSUME NEW r \in Rows, D!AddEcho(w, r)
        PROVE  \E j \in D!Worker, s \in D!Present : DestBegins(w, j, s)
    <3> DEFINE next == [D!Rest EXCEPT !.pc = "insert", !.row = r]
    <3>1. next \in D!Worker /\ next.pc = "insert" /\ next.keys = {} /\ next.row = r
      BY DestRestType DEF D!Rest, D!Worker
    <3>2. D!Begin(w, next) /\ r \in D!Present
      BY <2>2 DEF D!AddEcho
    <3> HIDE DEF next
    <3> QED BY <3>1, <3>2 DEF DestBegins
  <2>3. ASSUME NEW r \in Rows, D!ReadAccountBoost(w, r)
        PROVE  \E j \in D!Worker, s \in D!Present : DestBegins(w, j, s)
    <3> DEFINE next == [D!Rest EXCEPT !.pc = "boost", !.row = r, !.boost = ~ destRows[r].boost]
    <3>1. next \in D!Worker /\ next.pc = "boost" /\ next.keys = {} /\ next.row = r
      BY DestRestType DEF D!Rest, D!Worker
    <3>2. D!Begin(w, next) /\ r \in D!Present
      BY <2>3 DEF D!ReadAccountBoost
    <3> HIDE DEF next
    <3> QED BY <3>1, <3>2 DEF DestBegins
  <2>4. ASSUME NEW e \in Echoes, NEW r \in Rows, D!EditEcho(w, e, r)
        PROVE  \E j \in D!Worker, s \in D!Present : DestBegins(w, j, s)
    <3> DEFINE next == [D!Rest EXCEPT !.pc = "update", !.echo = e, !.row = r,
                                      !.from = destEchoes[e].row, !.boost = destEchoes[e].boost]
    <3>1. destEchoes[e] \in D!Echo
      BY DEF D!TypeOK
    <3>2. /\ next \in D!Worker /\ next.pc = "update" /\ next.keys = {} /\ next.row = r
          /\ next.echo = e /\ next.from = destEchoes[e].row /\ next.boost = destEchoes[e].boost
      BY <3>1, DestRestType DEF D!Rest, D!Worker, D!Echo
    <3>3. D!Begin(w, next) /\ r \in D!Present /\ e \in D!LiveEchoes
      BY <2>4 DEF D!EditEcho
    <3> HIDE DEF next
    <3> QED BY <3>2, <3>3 DEF DestBegins
  <2> QED BY <2>1, <2>2, <2>3, <2>4
<1>2. /\ destWorker[w].pc = "idle" /\ destPresses < DestPresses /\ destPresses' = destPresses + 1
      /\ D!Becomes(w, j) /\ UNCHANGED <<destRows, destEchoes, destCrossed, destBoostedAt, destLate>>
  BY <1>1 DEF DestBegins, D!Begin, D!history
<1>3. DestGoes(w, j)
  BY <1>2, DestMoves
<1>4. D!TypeOK'
  <2>1. destPresses' \in 0..DestPresses
    BY <1>2 DEF D!TypeOK, D!Bounds
  <2> QED BY <1>2, <1>3, <2>1 DEF D!TypeOK, DestGoes
<1>5. DestLocalsInv'
  BY <1>1, <1>3 DEF DestLocalsInv, DestGoes, D!Present, D!LiveEchoes, DestBegins
<1>6. DestPlacedInv'
  BY <1>2 DEF DestPlacedInv, D!Present
<1>7. DestEchoInv'
  <2>1. UNCHANGED <<D!Present, D!LiveEchoes, destRows, destEchoes>> /\ destTorn \subseteq destTorn'
    BY <1>2, <1>3 DEF D!Present, D!LiveEchoes, DestGoes
  <2>2. D!NoDanglingEcho'
    BY <2>1 DEF DestEchoInv, D!NoDanglingEcho
  <2>3. \A v \in DestDoing("insert")' \cup DestDoing("update")' :
      destWorker'[v].row \in D!Present' \cup destTorn'
    BY <1>1, <1>3, <2>1 DEF DestEchoInv, DestDoing, DestGoes, DestBegins
  <2>4. ASSUME NEW v \in DestDoing("drop")'
        PROVE  \A e \in D!LiveEchoes' : destEchoes'[e].row = destWorker'[v].row
            => destWorker'[v].row \in destTorn'
    BY <1>1, <1>3, <2>1, <2>4 DEF DestEchoInv, DestDoing, DestGoes, D!Dependents, DestBegins
  <2>5. \A v \in Requests : destWorker'[v].pc = "drop" => destWorker'[v].row \in Rows
    BY <1>5 DEF DestLocalsInv
  <2>6. ASSUME NEW v \in DestDoing("drop")',
               NEW x \in DestDoing("insert")' \cup DestDoing("update")',
               destWorker'[x].row = destWorker'[v].row
        PROVE  destWorker'[v].row \in destTorn'
    BY <1>3, <2>5, <2>6 DEF DestDoing, DestGoes
  <2> QED BY <2>2, <2>3, <2>4, <2>6 DEF DestEchoInv
<1>8. DestBoostInv'
  <2>1. D!BoostStaysHome'
    BY <1>2 DEF DestBoostInv, D!BoostStaysHome
  <2>2. ASSUME NEW v \in Requests, destWorker'[v].pc = "update", destWorker'[v].echo \notin destLate
        PROVE  /\ destEchoes[destWorker'[v].echo].boost => destWorker'[v].boost
               /\ destWorker'[v].boost => destBoostedAt[destWorker'[v].echo] = destWorker'[v].from
    <3>1. CASE v = w
      <4>1. destWorker'[v] = j /\ j.pc = "update" /\ j.echo \in Echoes
        BY <1>3, <1>5, <2>2, <3>1 DEF DestGoes, DestLocalsInv
      <4>2. /\ j.from = destEchoes[j.echo].row /\ j.boost = destEchoes[j.echo].boost
        BY <1>1, <4>1 DEF DestBegins
      <4> QED BY <2>2, <4>1, <4>2 DEF DestBoostInv, D!BoostStaysHome
    <3>2. CASE v # w
      BY <1>3, <2>2, <3>2 DEF DestBoostInv, DestDoing, DestGoes
    <3> QED BY <3>1, <3>2
  <2> QED BY <1>2, <2>1, <2>2 DEF DestBoostInv, DestDoing
<1>9. DestQuiet
  <2>1. j.pc # "store" /\ j.keys = {}
    BY <1>1 DEF DestBegins
  <2> QED BY <1>2, <1>3, <2>1 DEF DestQuiet, DestGoes, DestConnected, D!Present
<1> QED BY <1>4, <1>5, <1>6, <1>7, <1>8, <1>9, DestQuietSteps

LEMMA DestDropRowStep ==
  ASSUME D!Bounds, DestIInv, NEW w \in Requests, D!DropRow(w)
  PROVE  DestIInv'
<1> USE DEF DestIInv
<1> DEFINE r == destWorker[w].row
<1>1. /\ destWorker[w].pc = "drop"
      /\ destRows' = [destRows EXCEPT ![r]
           = [D!NoRow EXCEPT !.there = "gone", !.key = destRows[r].key]]
      /\ D!Becomes(w, D!Rest)
      /\ UNCHANGED <<destPresses, destEchoes, destCrossed, destBoostedAt, destLate>>
  BY DEF D!DropRow, D!Finish, D!history
<1>2. r \in Rows /\ destRows[r] \in D!Row
  BY <1>1 DEF DestLocalsInv, D!TypeOK
<1>3. DestGoes(w, D!Rest)
  BY <1>1, DestRestType, DestMoves
<1>4. /\ destRows' \in [Rows -> D!Row] /\ destRows'[r].there = "gone"
      /\ \A s \in Rows \ {r} : destRows'[s] = destRows[s]
  <2> DEFINE gone == [D!NoRow EXCEPT !.there = "gone", !.key = destRows[r].key]
  <2>1. gone \in D!Row /\ gone.there = "gone"
    BY <1>2, DestRestType DEF D!Row
  <2> HIDE DEF gone
  <2>2. destRows' = [destRows EXCEPT ![r] = gone]
    BY <1>1 DEF gone
  <2> QED BY <1>2, <2>1, <2>2 DEF D!TypeOK
<1>5. D!Present' = D!Present \ {r} /\ D!Present' \subseteq D!Present /\ D!Present \subseteq Rows
  BY <1>4 DEF D!Present
<1> HIDE DEF r
<1>6. D!TypeOK'
  BY <1>1, <1>3, <1>4 DEF D!TypeOK, DestGoes
<1>7. DestLocalsInv'
  BY <1>3, DestRestType DEF DestLocalsInv, DestGoes
<1>8. DestPlacedInv'
  BY <1>4, <1>5 DEF DestPlacedInv
<1>9. DestEchoInv'
  <2>1. destTorn \subseteq destTorn' /\ UNCHANGED <<destEchoes, D!LiveEchoes>>
      /\ w \in DestDoing("drop")
    BY <1>1, <1>3 DEF DestGoes, D!LiveEchoes, DestDoing
  <2>2. D!NoDanglingEcho'
    BY <1>5, <2>1 DEF DestEchoInv, D!NoDanglingEcho, r
  <2>3. \A v \in DestDoing("insert")' \cup DestDoing("update")' :
          v \in DestDoing("insert") \cup DestDoing("update") /\ destWorker'[v] = destWorker[v]
    BY <1>3, DestRestType DEF DestDoing, DestGoes
  <2>4. \A v \in DestDoing("insert")' \cup DestDoing("update")' :
      destWorker'[v].row \in D!Present' \cup destTorn'
    BY <1>5, <2>1, <2>3 DEF DestEchoInv, r
  <2>5. \A v \in DestDoing("drop")' : v \in DestDoing("drop") /\ destWorker'[v] = destWorker[v]
    BY <1>3, DestRestType DEF DestDoing, DestGoes
  <2> QED BY <2>1, <2>2, <2>3, <2>4, <2>5 DEF DestEchoInv
<1>10. DestBoostInv'
  BY <1>1, <1>3, DestRestType DEF DestBoostInv, D!BoostStaysHome, DestDoing, DestGoes
<1>11. DestQuiet
  <2>1. DestConnected' \subseteq DestConnected
    BY <1>4, <1>5 DEF DestConnected
  <2> QED BY <1>1, <1>3, <2>1, DestRestType DEF DestQuiet, DestGoes
<1> QED BY <1>6, <1>7, <1>8, <1>9, <1>10, <1>11, DestQuietSteps

LEMMA DestInsertEchoStep ==
  ASSUME D!Bounds, DestIInv, NEW w \in Requests, D!InsertEcho(w)
  PROVE  DestIInv'
<1> USE DEF DestIInv
<1> DEFINE new == [D!NoEcho EXCEPT !.there = "yes", !.row = destWorker[w].row]
<1>1. PICK e \in Echoes : /\ destEchoes[e].there = "never"
                          /\ destEchoes' = [destEchoes EXCEPT ![e] = new]
  BY DEF D!InsertEcho
<1>2. /\ destWorker[w].pc = "insert" /\ D!Becomes(w, D!Rest)
      /\ UNCHANGED <<destPresses, destRows, destCrossed, destBoostedAt, destLate>>
  BY DEF D!InsertEcho, D!Finish, D!history
<1>3. destWorker[w].row \in Rows
  BY <1>2 DEF DestLocalsInv
<1>4. DestGoes(w, D!Rest)
  BY <1>2, DestRestType, DestMoves
<1>5. new \in D!Echo /\ new.there = "yes" /\ new.row = destWorker[w].row /\ ~ new.boost
  BY <1>3, DestRestType DEF D!Echo
<1> HIDE DEF new
<1>6. /\ destEchoes' \in [Echoes -> D!Echo] /\ destEchoes'[e] = new
      /\ \A d \in Echoes \ {e} : destEchoes'[d] = destEchoes[d]
  BY <1>1, <1>5 DEF D!TypeOK
<1>7. D!LiveEchoes' = D!LiveEchoes \cup {e} /\ e \notin D!LiveEchoes /\ D!Present' = D!Present
  BY <1>1, <1>2, <1>5, <1>6 DEF D!LiveEchoes, D!Present
<1>8. D!TypeOK'
  BY <1>2, <1>4, <1>6 DEF D!TypeOK, DestGoes
<1>9. DestLocalsInv'
  BY <1>4, DestRestType DEF DestLocalsInv, DestGoes
<1>10. DestPlacedInv'
  BY <1>2 DEF DestPlacedInv, D!Present
<1>11. DestEchoInv'
  <2>1. destTorn \subseteq destTorn' /\ w \in DestDoing("insert") /\ D!LiveEchoes \subseteq Echoes
    BY <1>2, <1>4 DEF DestGoes, DestDoing, D!LiveEchoes
  <2>2. \A d \in D!LiveEchoes : destEchoes'[d] = destEchoes[d]
    BY <1>6, <1>7, <2>1
  <2>3. \A d \in D!LiveEchoes' : \/ d \in D!LiveEchoes /\ destEchoes'[d] = destEchoes[d]
                                 \/ destEchoes'[d].row = destWorker[w].row
    BY <1>5, <1>6, <1>7, <2>2
  <2>4. D!NoDanglingEcho'
    BY <1>7, <2>1, <2>3 DEF DestEchoInv, D!NoDanglingEcho
  <2>5. /\ \A v \in DestDoing("insert")' \cup DestDoing("update")' :
             v \in DestDoing("insert") \cup DestDoing("update") /\ destWorker'[v] = destWorker[v]
        /\ \A v \in DestDoing("drop")' : v \in DestDoing("drop") /\ destWorker'[v] = destWorker[v]
    BY <1>4, DestRestType DEF DestDoing, DestGoes
  <2>6. \A v \in DestDoing("insert")' \cup DestDoing("update")' :
      destWorker'[v].row \in D!Present' \cup destTorn'
    BY <1>7, <2>1, <2>5 DEF DestEchoInv
  <2>7. ASSUME NEW v \in DestDoing("drop")'
        PROVE  /\ \A d \in D!LiveEchoes' : destEchoes'[d].row = destWorker'[v].row => destWorker'[v].row \in destTorn'
               /\ \A x \in DestDoing("insert")' \cup DestDoing("update")' :
                    destWorker'[x].row = destWorker'[v].row => destWorker'[v].row \in destTorn'
    BY <2>1, <2>3, <2>5 DEF DestEchoInv
  <2> QED BY <2>4, <2>6, <2>7 DEF DestEchoInv
<1>12. DestBoostInv'
  <2>1. D!BoostStaysHome'
    BY <1>2, <1>5, <1>6 DEF DestBoostInv, D!BoostStaysHome
  <2>2. \A v \in DestDoing("update")' : v \in DestDoing("update") /\ destWorker'[v] = destWorker[v]
    BY <1>4, DestRestType DEF DestDoing, DestGoes
  <2>3. \A v \in DestDoing("update") : destWorker[v].echo \in Echoes
    BY DEF DestLocalsInv, DestDoing
  <2>4. \A d \in Echoes : destEchoes'[d].boost => destEchoes[d].boost
    BY <1>5, <1>6
  <2> QED BY <1>2, <2>1, <2>2, <2>3, <2>4 DEF DestBoostInv
<1>13. DestQuiet
  BY <1>2, <1>4, DestRestType DEF DestQuiet, DestGoes, DestConnected, D!Present
<1> QED BY <1>8, <1>9, <1>10, <1>11, <1>12, <1>13, DestQuietSteps

LEMMA DestUpdateEchoStep ==
  ASSUME D!Bounds, DestIInv, NEW w \in Requests, D!UpdateEcho(w)
  PROVE  DestIInv'
<1> USE DEF DestIInv
<1> DEFINE job == destWorker[w]
           e   == job.echo
<1>1. /\ job.pc = "update" /\ D!Becomes(w, D!Rest)
      /\ destEchoes' = [destEchoes EXCEPT ![e].row = job.row,
                                          ![e].boost = @ /\ ~ (job.boost /\ job.from # job.row)]
      /\ UNCHANGED <<destPresses, destRows, destCrossed, destBoostedAt, destLate>>
  BY DEF D!UpdateEcho, D!Finish, D!history
<1>2. e \in Echoes /\ job.row \in Rows /\ destEchoes[e] \in D!Echo /\ w \in DestDoing("update")
  BY <1>1 DEF DestLocalsInv, D!TypeOK, DestDoing
<1>3. DestGoes(w, D!Rest)
  BY <1>1, DestRestType, DestMoves
<1> HIDE DEF job, e
<1>4. /\ destEchoes' \in [Echoes -> D!Echo]
      /\ destEchoes'[e].there = destEchoes[e].there /\ destEchoes'[e].row = job.row
      /\ destEchoes'[e].boost <=> (destEchoes[e].boost /\ ~ (job.boost /\ job.from # job.row))
      /\ \A d \in Echoes \ {e} : destEchoes'[d] = destEchoes[d]
  <2>1. PICK b \in BOOLEAN : b <=> (destEchoes[e].boost /\ ~ (job.boost /\ job.from # job.row))
    OBVIOUS
  <2>2. destEchoes' = [destEchoes EXCEPT ![e] = [destEchoes[e] EXCEPT !.row = job.row, !.boost =
                         destEchoes[e].boost /\ ~ (job.boost /\ job.from # job.row)]]
    BY <1>1, <1>2 DEF D!TypeOK, D!Echo
  <2>3. (destEchoes[e].boost /\ ~ (job.boost /\ job.from # job.row)) = b
    BY <1>2, <2>1
  <2>4. destEchoes' = [destEchoes EXCEPT ![e] = [destEchoes[e] EXCEPT !.row = job.row, !.boost = b]]
    BY <2>2, <2>3
  <2> QED BY <1>2, <2>1, <2>4 DEF D!TypeOK, D!Echo
<1>5. D!LiveEchoes' = D!LiveEchoes /\ D!Present' = D!Present
  BY <1>1, <1>4 DEF D!LiveEchoes, D!Present
<1>6. D!TypeOK'
  BY <1>1, <1>3, <1>4 DEF D!TypeOK, DestGoes
<1>7. DestLocalsInv'
  BY <1>3, DestRestType DEF DestLocalsInv, DestGoes
<1>8. DestPlacedInv'
  BY <1>1 DEF DestPlacedInv, D!Present
<1>9. \A v \in DestDoing("update")' : v \in DestDoing("update") /\ destWorker'[v] = destWorker[v]
  BY <1>3, DestRestType DEF DestDoing, DestGoes
<1>10. DestEchoInv'
  <2>1. destTorn \subseteq destTorn' /\ D!LiveEchoes \subseteq Echoes
    BY <1>3 DEF DestGoes, D!LiveEchoes
  <2>2. \A d \in D!LiveEchoes' : \/ d \in D!LiveEchoes /\ destEchoes'[d] = destEchoes[d]
                                 \/ destEchoes'[d].row = job.row
    BY <1>4, <1>5, <2>1
  <2>3. D!NoDanglingEcho'
    BY <1>2, <1>5, <2>1, <2>2 DEF DestEchoInv, D!NoDanglingEcho, job
  <2>4. /\ \A v \in DestDoing("insert")' \cup DestDoing("update")' :
             v \in DestDoing("insert") \cup DestDoing("update") /\ destWorker'[v] = destWorker[v]
        /\ \A v \in DestDoing("drop")' : v \in DestDoing("drop") /\ destWorker'[v] = destWorker[v]
    BY <1>3, DestRestType DEF DestDoing, DestGoes
  <2>5. \A v \in DestDoing("insert")' \cup DestDoing("update")' :
      destWorker'[v].row \in D!Present' \cup destTorn'
    BY <1>5, <2>1, <2>4 DEF DestEchoInv
  <2>6. ASSUME NEW v \in DestDoing("drop")'
        PROVE  /\ \A d \in D!LiveEchoes' : destEchoes'[d].row = destWorker'[v].row => destWorker'[v].row \in destTorn'
               /\ \A x \in DestDoing("insert")' \cup DestDoing("update")' :
                    destWorker'[x].row = destWorker'[v].row => destWorker'[v].row \in destTorn'
    BY <1>2, <2>1, <2>2, <2>4 DEF DestEchoInv, job
  <2> QED BY <2>3, <2>5, <2>6 DEF DestEchoInv
<1>11. DestBoostInv'
  <2>1. e \notin destLate => /\ destEchoes[e].boost => job.boost
                             /\ job.boost => destBoostedAt[e] = job.from
    BY <1>2 DEF DestBoostInv, e, job
  <2>2. D!BoostStaysHome'
    BY <1>1, <1>4, <2>1 DEF DestBoostInv, D!BoostStaysHome
  <2>3. \A v \in DestDoing("update") : destWorker[v].echo \in Echoes
    BY DEF DestLocalsInv, DestDoing
  <2>4. \A d \in Echoes : destEchoes'[d].boost => destEchoes[d].boost
    BY <1>4
  <2> QED BY <1>1, <1>9, <2>2, <2>3, <2>4 DEF DestBoostInv
<1>12. DestQuiet
  BY <1>1, <1>3, DestRestType DEF DestQuiet, DestGoes, DestConnected, D!Present
<1> QED BY <1>6, <1>7, <1>8, <1>10, <1>11, <1>12, DestQuietSteps

LEMMA DestWriteAccountBoostStep ==
  ASSUME D!Bounds, DestIInv, NEW w \in Requests, D!WriteAccountBoost(w)
  PROVE  DestIInv'
<1> USE DEF DestIInv
<1> DEFINE r == destWorker[w].row
<1>1. /\ destWorker[w].pc = "boost" /\ D!Becomes(w, D!Rest)
      /\ destRows' = [destRows EXCEPT ![r].boost = IF r \in D!Present THEN destWorker[w].boost
           ELSE @]
      /\ UNCHANGED <<destPresses, destEchoes, destCrossed, destBoostedAt, destLate>>
  BY DEF D!WriteAccountBoost, D!Finish, D!history
<1>2. r \in Rows /\ destRows[r] \in D!Row /\ destWorker[w].boost \in BOOLEAN
  BY <1>1 DEF DestLocalsInv, D!TypeOK, D!Worker
<1>3. DestGoes(w, D!Rest)
  BY <1>1, DestRestType, DestMoves
<1> HIDE DEF r
<1>4. /\ destRows' \in [Rows -> D!Row]
      /\ \A s \in Rows : destRows'[s].there = destRows[s].there
           /\ destRows'[s].key = destRows[s].key
  <2>1. PICK b \in BOOLEAN : destRows' = [destRows EXCEPT ![r] = [destRows[r] EXCEPT !.boost = b]]
    <3>1. CASE r \in D!Present
      BY <1>1, <1>2, <3>1
    <3>2. CASE r \notin D!Present
      BY <1>1, <1>2, <3>2 DEF D!TypeOK, D!Row
    <3> QED BY <3>1, <3>2
  <2> QED BY <1>2, <2>1 DEF D!TypeOK, D!Row
<1>5. D!Present' = D!Present
  BY <1>4 DEF D!Present
<1>6. D!TypeOK'
  BY <1>1, <1>3, <1>4 DEF D!TypeOK, DestGoes
<1>7. DestLocalsInv'
  BY <1>3, DestRestType DEF DestLocalsInv, DestGoes
<1>8. DestPlacedInv'
  BY <1>4, <1>5 DEF DestPlacedInv, D!Present
<1>9. DestEchoInv'
  BY <1>1, <1>3, <1>5, DestRestType DEF DestEchoInv, D!NoDanglingEcho, D!LiveEchoes, DestDoing,
     DestGoes
<1>10. DestBoostInv'
  BY <1>1, <1>3, DestRestType DEF DestBoostInv, D!BoostStaysHome, DestDoing, DestGoes
<1>11. DestQuiet
  BY <1>1, <1>3, <1>4, <1>5, DestRestType DEF DestQuiet, DestGoes, DestConnected, D!Present
<1> QED BY <1>6, <1>7, <1>8, <1>9, <1>10, <1>11, DestQuietSteps

LEMMA DestEchoStep ==
  ASSUME D!Bounds, DestIInv, NEW e \in Echoes, D!DeleteEcho(e) \/ D!FlipEchoBoost(e)
  PROVE  DestIInv'
<1> USE DEF DestIInv
<1>1. /\ e \in D!LiveEchoes /\ destPresses < DestPresses /\ destPresses' = destPresses + 1
      /\ UNCHANGED <<destRows, destWorker, destCrossed, destTorn>>
  BY DEF D!DeleteEcho, D!FlipEchoBoost, D!history
<1>2. destEchoes[e] \in D!Echo
  BY DEF D!TypeOK
<1>3. \/ /\ destEchoes' = [destEchoes EXCEPT ![e].there = "deleted"]
         /\ UNCHANGED <<destBoostedAt, destLate>>
      \/ /\ destEchoes' = [destEchoes EXCEPT ![e].boost = ~ @]
         /\ destBoostedAt' = [destBoostedAt EXCEPT ![e] = destEchoes[e].row]
         /\ destLate' = IF \E w \in Requests : destWorker[w].pc = "update" /\ destWorker[w].echo = e
                        THEN destLate \cup {e} ELSE destLate
  BY DEF D!DeleteEcho, D!FlipEchoBoost, D!history
<1>4. /\ destEchoes' \in [Echoes -> D!Echo]
      /\ destEchoes'[e].there \in {"deleted", destEchoes[e].there}
           /\ destEchoes'[e].row = destEchoes[e].row
      /\ \A d \in Echoes \ {e} : destEchoes'[d] = destEchoes[d]
  <2>1. CASE destEchoes' = [destEchoes EXCEPT ![e].there = "deleted"]
    BY <1>2, <2>1 DEF D!TypeOK, D!Echo
  <2>2. CASE destEchoes' = [destEchoes EXCEPT ![e].boost = ~ @]
    <3>1. PICK b \in BOOLEAN : destEchoes'
        = [destEchoes EXCEPT ![e] = [destEchoes[e] EXCEPT !.boost = b]]
      BY <2>2
    <3> QED BY <1>2, <3>1 DEF D!TypeOK, D!Echo
  <2> QED BY <1>3, <2>1, <2>2
<1>5. destBoostedAt' \in [Echoes -> Rows \cup {Nobody}] /\ destLate' \subseteq Echoes
  BY <1>2, <1>3 DEF D!TypeOK, D!Echo
<1>6. D!TypeOK'
  <2>1. destPresses' \in 0..DestPresses
    BY <1>1 DEF D!TypeOK, D!Bounds
  <2> QED BY <1>1, <1>4, <1>5, <2>1 DEF D!TypeOK
<1>7. DestLocalsInv' /\ DestPlacedInv'
  BY <1>1 DEF DestLocalsInv, DestPlacedInv, D!Present
<1>8. DestEchoInv'
  <2>1. D!LiveEchoes' \subseteq D!LiveEchoes /\ \A d \in D!LiveEchoes' :
      destEchoes'[d].row = destEchoes[d].row
    BY <1>1, <1>4 DEF D!LiveEchoes
  <2> QED BY <1>1, <2>1 DEF DestEchoInv, D!NoDanglingEcho, DestDoing, D!Present
<1>9. DestBoostInv'
  <2>1. CASE /\ destEchoes' = [destEchoes EXCEPT ![e].there = "deleted"]
             /\ UNCHANGED <<destBoostedAt, destLate>>
    <3>1. \A d \in Echoes : destEchoes'[d].boost = destEchoes[d].boost
        /\ destEchoes'[d].row = destEchoes[d].row
      BY <1>2, <2>1 DEF D!TypeOK, D!Echo
    <3> QED BY <1>1, <2>1, <3>1 DEF DestBoostInv, D!BoostStaysHome, DestDoing, DestLocalsInv
  <2>2. CASE /\ destBoostedAt' = [destBoostedAt EXCEPT ![e] = destEchoes[e].row]
             /\ destLate' = IF \E w \in Requests : destWorker[w].pc = "update" /\ destWorker[w].echo = e
                            THEN destLate \cup {e} ELSE destLate
    <3>1. /\ destBoostedAt'[e] = destEchoes'[e].row /\ destLate \subseteq destLate'
          /\ \A d \in Echoes \ {e} : destBoostedAt'[d] = destBoostedAt[d]
      BY <1>4, <2>2 DEF D!TypeOK
    <3>2. D!BoostStaysHome'
      BY <1>4, <3>1 DEF DestBoostInv, D!BoostStaysHome
    <3>3. \A w \in DestDoing("update") : destWorker[w].echo \in Echoes
        /\ (destWorker[w].echo = e => e \in destLate')
      BY <2>2 DEF DestLocalsInv, DestDoing
    <3> QED BY <1>1, <1>4, <3>1, <3>2, <3>3 DEF DestBoostInv, DestDoing
  <2> QED BY <1>3, <2>1, <2>2
<1>10. DestQuiet
  BY <1>1 DEF DestQuiet, DestConnected, D!Present
<1> QED BY <1>6, <1>7, <1>8, <1>9, <1>10, DestQuietSteps

LEMMA DestInvStep == D!Bounds /\ DestIInv /\ [D!Next]_D!vars => DestIInv'
<1> SUFFICES ASSUME D!Bounds, DestIInv, [D!Next]_D!vars PROVE DestIInv'
  OBVIOUS
<1>1. CASE UNCHANGED D!vars
  <2>1. UNCHANGED <<DestConnected, DestComing, D!Present, D!LiveEchoes>>
    BY <1>1 DEF D!vars, DestConnected, DestComing, D!Present, D!LiveEchoes
  <2> QED BY <1>1, <2>1 DEF D!vars, DestIInv, D!TypeOK, DestLocalsInv, DestPlacedInv, DestCapInv,
       DestEchoInv,
                           D!NoDanglingEcho, DestBoostInv, D!BoostStaysHome, DestSecretInv,
                              DestDoing
<1>2. ASSUME NEW w \in Requests, D!Connecting(w) \/ D!Disconnecting(w) \/ D!SavingEchoes(w)
    PROVE DestIInv'
  BY <1>2, DestConnectStep, DestStoreStep, DestBeginStep, DestDropRowStep, DestInsertEchoStep,
     DestUpdateEchoStep,
     DestWriteAccountBoostStep DEF D!Connecting, D!Disconnecting, D!SavingEchoes
<1> QED BY <1>1, <1>2, DestEchoStep DEF D!Next

\* The cap, for any number of requests that overlap.
LEMMA DestCapMeans ==
  ASSUME D!Bounds, DestIInv
  PROVE  D!CapIsNearlyKept
<1>1. Cardinality(D!Present) = Cardinality(DestConnected)
  BY DestPresentCount DEF DestIInv
<1>2. CASE ~ destCrossed
  BY DestSets, <1>1, <1>2 DEF DestIInv, DestCapInv, D!CapIsNearlyKept
<1>3. CASE destCrossed
  <2>1. D!Forms # {} /\ IsFiniteSet(DestConnected) /\ IsFiniteSet(DestComing)
    BY <1>3, DestConnectedFinite DEF DestIInv, DestCapInv
  <2>2. Cardinality(DestConnected) <= DestCap + Cardinality(DestLargest) * (Cardinality(Requests) - 1)
    <3>1. IsFiniteSet(DestConnected \cup DestComing)
        /\ DestConnected \subseteq DestConnected \cup DestComing
      BY <2>1, FS_Union
    <3> QED BY <2>1, <3>1, DestMostAllowed, DestFewerFit DEF DestIInv, DestCapInv
  <2> QED BY DestSets, <1>1, <1>3, <2>1, <2>2, DestLargestForm DEF D!CapIsNearlyKept
<1> QED BY <1>2, <1>3

LEMMA DestInvImplies ==
  D!Bounds /\ DestIInv => D!TypeOK /\ D!CapIsNearlyKept /\ D!NoDanglingEcho /\ D!BoostStaysHome
BY DestCapMeans DEF DestIInv, DestEchoInv, DestBoostInv

\* Only the request that stores leaves its step.
LEMMA DestSecretsKept ==
  ASSUME D!Bounds, DestIInv, [D!Next]_D!vars
  PROVE  D!KeepsSecret(Webhooks)
<1> SUFFICES ASSUME NEW w \in Requests, NEW r \in D!Present, destWorker[w].pc = "store",
                    destWorker[w].blank, destWorker'[w].pc = "idle",
                    destRows[r].key \in destWorker[w].keys \cap Webhooks
             PROVE  destRows'[r].secret = destRows[r].secret
  BY DEF D!KeepsSecret
<1>1. D!Store(w)
  <2>1. destWorker' # destWorker
    OBVIOUS
  <2>2. PICK v \in Requests : D!Connecting(v) \/ D!Disconnecting(v) \/ D!SavingEchoes(v)
    <3>1. D!Next
      BY <2>1 DEF D!vars
    <3>2. ASSUME NEW e \in Echoes, D!DeleteEcho(e) \/ D!FlipEchoBoost(e) PROVE FALSE
      BY <2>1, <3>2 DEF D!DeleteEcho, D!FlipEchoBoost
    <3> QED BY <3>1, <3>2 DEF D!Next
  <2>3. v = w
    <3>1. \E j : destWorker' = [destWorker EXCEPT ![v] = j]
      BY <2>2 DEF D!Connecting, D!Disconnecting, D!SavingEchoes, D!Connect, D!Store, D!Disconnect,
         D!DropRow,
                  D!AddEcho, D!InsertEcho, D!EditEcho, D!UpdateEcho, D!ReadAccountBoost,
                     D!WriteAccountBoost,
                  D!Begin, D!Finish, D!Becomes
    <3> QED BY <3>1 DEF DestIInv, D!TypeOK
  <2> QED BY <2>2, <2>3 DEF D!Connecting, D!Disconnecting, D!SavingEchoes, D!Connect, D!Disconnect,
       D!DropRow,
                  D!AddEcho, D!InsertEcho, D!EditEcho, D!UpdateEcho, D!ReadAccountBoost,
                     D!WriteAccountBoost,
                  D!Begin
<1>2. destWorker[w].secret = D!Blank
  BY DEF DestIInv, DestSecretInv, DestDoing
<1> QED BY <1>1, <1>2, DestStoreEffect DEF DestIInv

-----------------------------------------------------------------------------
(* The inductive invariant.                                                *)

FeedFiling == {"add", "import", "edit", "file"}
FeedMuting == {"mute", "unmute"}
FeedFetching == {"fetched", "close"}

\* Which locals are meaningful at which step.
FeedLocal(w, job) ==
  /\ job.pc \in {"add", "import"} => w \in Requests
  /\ job.pc \in {"add", "edit"} => job.url \in Urls
  /\ job.pc = "clear" => job.folder \in Folders
  /\ job.pc \in FeedMuting => job.phrase \in Phrases
  /\ job.pc \in FeedMuting \cup FeedFetching \cup {"edit", "file"} => job.feed \in Feeds \ F!Unborn
  /\ job.pc \in FeedFetching => w \in Checks

FeedLocalsInv ==
  /\ \A w \in F!Workers : FeedLocal(w, feedWorker[w])
  /\ \A f \in F!Unborn : feedFeeds[f] = F!NoFeed

\* Two workers at the same thing are remembered.
FeedPairsInv ==
  /\ \A v, w \in F!Workers :
       feedWorker[v].pc = "clear" /\ feedWorker[w].pc \in FeedFiling
           /\ feedWorker[v].folder = feedWorker[w].folder
       => feedWorker[v].folder \in feedTorn
  /\ \A v, w \in F!Workers :
       /\ v # w /\ feedWorker[v].pc \in FeedMuting /\ feedWorker[w].pc \in FeedMuting \cup {"edit"}
       /\ feedWorker[v].feed = feedWorker[w].feed
       => feedWorker[v].feed \in feedClashed
  /\ \A v, w \in F!Workers :
       /\ v # w /\ feedWorker[v].pc = "edit" /\ feedWorker[w].pc \in FeedFetching \cup {"edit"}
       /\ feedWorker[v].feed = feedWorker[w].feed
       => feedWorker[v].feed \in feedMoved

\* No URL has two feeds.
FeedDistinctInv ==
  /\ \A f \in F!Live : feedFeeds[f].url \in Urls
  /\ \A f, g \in F!Live : feedFeeds[f].url = feedFeeds[g].url => f = g

\* A request past the cap has room, until it is overtaken.
FeedCapInv ==
  /\ feedOvertaken \subseteq F!Past
  /\ Cardinality(F!Taken) <= FeedCap + feedCrossed
  /\ \A w \in F!Past \ feedOvertaken : Cardinality(F!Taken \cup {feedWorker[w].url})
       <= FeedCap + feedCrossed

\* A folder that is being deleted gets no feeds unnoticed.
FeedFolderInv ==
  /\ F!NoDanglingFolder
  /\ \A w \in F!Workers : feedWorker[w].pc \in FeedFiling
       => feedWorker[w].folder \in feedFolders \cup feedTorn \cup {Nobody}

\* Phrases that were read are still the feed's.
FeedMuteInv ==
  /\ F!MutesAddUp
  /\ \A f \in F!Unborn : feedMuted[f] = {}
  /\ \A w \in F!Workers : feedWorker[w].pc \in FeedMuting =>
       feedWorker[w].feed \in feedClashed
           \/ feedWorker[w].mutes = feedFeeds[feedWorker[w].feed].mutes

\* The URL that was read is still the feed's.
FeedCursorInv ==
  /\ F!CursorFitsUrl /\ F!DeletedFeedsKeepNothing
  /\ \A w \in F!Workers :
       feedWorker[w].pc \in FeedFetching \cup {"edit"} /\ feedWorker[w].feed \in F!Live \ feedMoved
       => feedWorker[w].was = feedFeeds[feedWorker[w].feed].url
  /\ \A w \in F!Workers : feedWorker[w].pc \in FeedFetching
       => feedWorker[w].feed \in F!Live \cup feedMoved

FeedIInv ==
  /\ F!TypeOK /\ FeedLocalsInv /\ FeedPairsInv /\ FeedDistinctInv /\ FeedCapInv /\ FeedFolderInv
       /\ FeedMuteInv /\ FeedCursorInv

-----------------------------------------------------------------------------
(* Counting.                                                               *)

\* The operators of FiniteSets, as F! knows them.
LEMMA FeedSets ==
  \A S : (F!IsFiniteSet(S) <=> IsFiniteSet(S)) /\ F!Cardinality(S) = Cardinality(S)
<1>1. \A S : F!IsFiniteSet(S) <=> IsFiniteSet(S)
  BY DEF F!IsFiniteSet, IsFiniteSet
<1>2. \A S : F!Cardinality(S) = Cardinality(S)
  BY <1>1, Zenon DEF F!Cardinality, Cardinality
<1> QED BY <1>1, <1>2

LEMMA FeedTakenCount ==
  ASSUME F!Bounds, F!TypeOK, FeedDistinctInv
  PROVE  /\ F!Taken \subseteq Urls /\ IsFiniteSet(F!Taken) /\ Cardinality(F!Taken) \in Nat
         /\ Cardinality(F!Live) = Cardinality(F!Taken)
<1> DEFINE f == [r \in F!Live |-> feedFeeds[r].url]
<1>1. IsFiniteSet(F!Live)
  BY FeedSets, FS_Subset DEF F!Bounds, F!Live
<1>2. f \in Bijection(F!Live, F!Taken)
  BY DEF Bijection, Injection, Surjection, IsInjective, FeedDistinctInv, F!Taken
<1>3. Cardinality(F!Live) = Cardinality(F!Taken) /\ IsFiniteSet(F!Taken)
  BY <1>1, <1>2, FS_Bijection DEF ExistsBijection
<1>4. F!Taken \subseteq Urls
  BY DEF F!Taken, FeedDistinctInv
<1> QED BY <1>3, <1>4, FS_CardinalityType

\* Fewer URLs leave more room.
LEMMA FeedFewerFit ==
  ASSUME NEW S, NEW T, NEW m \in Int, S \subseteq T, IsFiniteSet(T), Cardinality(T) <= m
  PROVE  Cardinality(S) <= m
<1>1. Cardinality(S) \in Nat /\ Cardinality(T) \in Nat /\ Cardinality(S) <= Cardinality(T)
  BY FS_Subset, FS_CardinalityType
<1> QED BY <1>1

\* One more URL takes one more place.
LEMMA FeedOneMore ==
  ASSUME NEW T, IsFiniteSet(T), NEW u, NEW m \in Int, Cardinality(T) <= m
  PROVE  Cardinality(T \cup {u}) <= m + 1
<1>1. Cardinality(T) \in Nat
  BY FS_CardinalityType
<1>2. CASE u \in T
  <2>1. T \cup {u} = T
    BY <1>2
  <2>2. Cardinality(T \cup {u}) = Cardinality(T)
    BY <2>1, Zenon
  <2> QED BY <1>1, <2>2
<1>3. CASE u \notin T
  <2>1. Cardinality(T \cup {u}) = Cardinality(T) + 1
    BY <1>3, FS_AddElement
  <2> QED BY <1>1, <2>1
<1> QED BY <1>2, <1>3

LEMMA FeedRestType ==
  /\ F!Rest \in F!Worker /\ F!Rest.pc = "idle"
  /\ F!NoFeed \in F!Feed /\ F!NoFeed.there = "never" /\ F!NoFeed.mutes = {}
       /\ F!NoFeed.cursor = Nobody
  /\ F!NoFeed.folder = Nobody /\ ~ F!NoFeed.items
BY DEF F!Rest, F!Worker, F!NoFeed, F!Feed

LEMMA FeedInvInit == F!Bounds /\ F!Init => FeedIInv
<1> SUFFICES ASSUME F!Bounds, F!Init PROVE FeedIInv
  OBVIOUS
<1>1. PICK f \in Feeds, u \in Urls :
        feedFeeds = [g \in Feeds |-> IF g = f THEN [F!NoFeed EXCEPT !.there = "yes", !.url = u]
            ELSE F!NoFeed]
  BY DEF F!Init
<1>2. /\ feedFeeds \in [Feeds -> F!Feed] /\ feedFeeds[f].url = u /\ feedFeeds[f].there = "yes"
      /\ \A g \in Feeds \ {f} : feedFeeds[g] = F!NoFeed
      /\ \A g \in Feeds : /\ feedFeeds[g].mutes = {} /\ feedFeeds[g].folder = Nobody
                          /\ feedFeeds[g].cursor = Nobody /\ ~ feedFeeds[g].items
  BY <1>1 DEF F!NoFeed, F!Feed
<1>3. F!Live = {f} /\ F!Taken = {u} /\ F!Unborn = Feeds \ {f}
  <2>1. F!Live = {f} /\ F!Unborn = Feeds \ {f}
    BY <1>2, FeedRestType DEF F!Live, F!Unborn
  <2> QED BY <1>2, <2>1 DEF F!Taken
<1>4. F!TypeOK
  <2>1. feedPresses \in 0..FeedPresses /\ feedCrossed \in Nat
    <3>1. feedPresses = 0 /\ feedCrossed = 0
      BY DEF F!Init
    <3>2. FeedPresses \in Nat
      BY DEF F!Bounds
    <3> QED BY <3>1, <3>2
  <2> QED BY <1>2, <2>1, FeedRestType DEF F!Init, F!TypeOK
<1>5. FeedLocalsInv /\ FeedPairsInv
  BY <1>2, <1>3, FeedRestType DEF F!Init, FeedLocalsInv, FeedPairsInv, FeedLocal, FeedMuting,
     FeedFetching, FeedFiling
<1>6. FeedDistinctInv
  BY <1>2, <1>3 DEF FeedDistinctInv
<1>7. FeedCapInv
  <2>1. F!Past = {} /\ feedOvertaken = {} /\ feedCrossed = 0
    BY FeedRestType DEF F!Past, F!Workers, F!Init
  <2>2. Cardinality(F!Taken) = 1
    BY <1>3, FS_Singleton
  <2> QED BY <2>1, <2>2 DEF FeedCapInv, F!Bounds
<1>8. FeedFolderInv /\ FeedMuteInv /\ FeedCursorInv
  BY <1>2, <1>3, FeedRestType
     DEF F!Init, FeedFolderInv, F!NoDanglingFolder, FeedMuteInv, F!MutesAddUp, FeedCursorInv,
        F!CursorFitsUrl,
         F!DeletedFeedsKeepNothing, FeedMuting, FeedFetching, FeedFiling
<1> QED BY <1>4, <1>5, <1>6, <1>7, <1>8 DEF FeedIInv

-----------------------------------------------------------------------------
(* What a step may do to each part of the invariant.                       *)

FeedGrows ==
  /\ feedTorn \subseteq feedTorn' /\ feedTorn' \subseteq Folders
  /\ feedClashed \subseteq feedClashed' /\ feedClashed' \subseteq Feeds
  /\ feedMoved \subseteq feedMoved' /\ feedMoved' \subseteq Feeds

\* A worker goes on, the others do not.
FeedGoes(w, j) ==
  /\ feedWorker' \in [F!Workers -> F!Worker] /\ feedWorker'[w] = j
  /\ \A v \in F!Workers \ {w} : feedWorker'[v] = feedWorker[v]
  /\ FeedGrows

LEMMA FeedMoves ==
  ASSUME F!TypeOK, FeedLocalsInv, NEW w \in F!Workers, NEW j \in F!Worker, F!Becomes(w, j),
         F!Unborn' \subseteq F!Unborn, FeedLocal(w, j)
  PROVE  /\ FeedGoes(w, j) /\ FeedPairsInv'
         /\ (\A f \in F!Unborn' : feedFeeds'[f] = F!NoFeed) => FeedLocalsInv'
<1>1. /\ feedWorker' \in [F!Workers -> F!Worker] /\ feedWorker'[w] = j
      /\ \A v \in F!Workers \ {w} : feedWorker'[v] = feedWorker[v]
  BY DEF F!TypeOK, F!Becomes
<1>2. /\ feedTorn' = feedTorn \cup {d \in Folders : \E v, x \in F!Workers :
           /\ feedWorker'[v].pc = "clear" /\ feedWorker'[x].pc \in FeedFiling
           /\ feedWorker'[v].folder = d /\ feedWorker'[x].folder = d}
      /\ feedClashed' = feedClashed \cup {f \in Feeds : \E v, x \in F!Workers :
           /\ feedWorker'[v].pc \in FeedMuting /\ feedWorker'[x].pc \in FeedMuting \cup {"edit"}
           /\ v # x /\ feedWorker'[v].feed = f /\ feedWorker'[x].feed = f}
      /\ feedMoved' = feedMoved \cup {f \in Feeds : \E v, x \in F!Workers :
           /\ feedWorker'[v].pc = "edit" /\ feedWorker'[x].pc \in FeedFetching \cup {"edit"}
           /\ v # x /\ feedWorker'[v].feed = f /\ feedWorker'[x].feed = f}
  BY DEF F!Becomes, FeedFiling, FeedMuting, FeedFetching
<1>3. feedTorn \subseteq Folders /\ feedClashed \subseteq Feeds /\ feedMoved \subseteq Feeds
  BY DEF F!TypeOK
<1>4. FeedGoes(w, j)
  BY <1>1, <1>2, <1>3 DEF FeedGoes, FeedGrows
<1>5. \A v \in F!Workers : FeedLocal(v, feedWorker[v])'
  <2>1. \A v \in F!Workers, k \in F!Worker : FeedLocal(v, k) => FeedLocal(v, k)'
    BY DEF FeedLocal
  <2> QED BY <1>1, <2>1 DEF FeedLocalsInv, F!TypeOK
<1>6. FeedPairsInv'
  <2>1. \A v \in F!Workers :
          /\ feedWorker'[v].pc = "clear" => feedWorker'[v].folder \in Folders
          /\ feedWorker'[v].pc \in FeedMuting \cup {"edit"} => feedWorker'[v].feed \in Feeds
    BY <1>5 DEF FeedLocal
  <2> QED BY <1>2, <2>1 DEF FeedPairsInv
<1>7. (\A f \in F!Unborn' : feedFeeds'[f] = F!NoFeed) => FeedLocalsInv'
  BY <1>5 DEF FeedLocalsInv
<1> QED BY <1>4, <1>6, <1>7

LEMMA FeedCapKept ==
  ASSUME F!Bounds, FeedIInv, F!Taken' \subseteq F!Taken, feedCrossed' = feedCrossed,
         feedOvertaken' \subseteq F!Past', feedOvertaken \cap F!Past' \subseteq feedOvertaken',
         \A v \in F!Past' : \/ v \in F!Past /\ feedWorker'[v].url = feedWorker[v].url
                            \/ Cardinality(F!Taken \cup {feedWorker'[v].url})
                                 <= FeedCap + feedCrossed
  PROVE  FeedCapInv'
<1>1. IsFiniteSet(F!Taken) /\ FeedCap + feedCrossed \in Int
  BY FeedTakenCount DEF FeedIInv, F!TypeOK, F!Bounds
<1>2. Cardinality(F!Taken') <= FeedCap + feedCrossed'
  BY <1>1, FeedFewerFit DEF FeedIInv, FeedCapInv
<1>3. ASSUME NEW v \in F!Past' \ feedOvertaken'
      PROVE  Cardinality(F!Taken' \cup {feedWorker'[v].url}) <= FeedCap + feedCrossed'
  <2>1. Cardinality(F!Taken \cup {feedWorker'[v].url}) <= FeedCap + feedCrossed
    BY <1>3 DEF FeedIInv, FeedCapInv
  <2>2. IsFiniteSet(F!Taken \cup {feedWorker'[v].url})
    BY <1>1, FS_AddElement
  <2> QED BY <1>1, <2>1, <2>2, FeedFewerFit
<1> QED BY <1>2, <1>3 DEF FeedCapInv

LEMMA FeedFolderKept ==
  ASSUME FeedIInv, FeedGrows, feedFolders' = feedFolders,
         \A f \in Feeds : feedFeeds'[f].folder \in {feedFeeds[f].folder, Nobody} \cup feedFolders
             \cup feedTorn',
         \A v \in F!Workers : \/ feedWorker'[v] = feedWorker[v] \/ feedWorker'[v].pc \notin FeedFiling
                              \/ feedWorker'[v].folder \in feedFolders \cup feedTorn' \cup {Nobody}
  PROVE  FeedFolderInv'
BY DEF FeedIInv, FeedFolderInv, F!NoDanglingFolder, FeedGrows

LEMMA FeedMuteKept ==
  ASSUME FeedIInv, FeedGrows, F!Unborn' \subseteq F!Unborn,
         \A f \in Feeds : feedFeeds'[f].mutes = feedFeeds[f].mutes /\ feedMuted'[f] = feedMuted[f],
         \A v \in F!Workers : \/ feedWorker'[v] = feedWorker[v] \/ feedWorker'[v].pc \notin FeedMuting
                              \/ /\ feedWorker'[v].feed \in Feeds
                                 /\ feedWorker'[v].mutes = feedFeeds[feedWorker'[v].feed].mutes
  PROVE  FeedMuteInv'
<1>1. F!MutesAddUp'
  BY DEF FeedIInv, FeedMuteInv, F!MutesAddUp, FeedGrows
<1>2. \A f \in F!Unborn' : feedMuted'[f] = {}
  BY DEF FeedIInv, FeedMuteInv, F!Unborn
<1>3. ASSUME NEW v \in F!Workers, feedWorker'[v].pc \in FeedMuting
      PROVE  feedWorker'[v].feed \in feedClashed'
          \/ feedWorker'[v].mutes = feedFeeds'[feedWorker'[v].feed].mutes
  BY <1>3 DEF FeedIInv, FeedMuteInv, FeedLocalsInv, FeedLocal, FeedGrows
<1> QED BY <1>1, <1>2, <1>3 DEF FeedMuteInv

LEMMA FeedCursorKept ==
  ASSUME FeedIInv, FeedGrows, F!Live \subseteq F!Live',
         \A f \in F!Live : feedFeeds'[f].url = feedFeeds[f].url,
         \A f \in F!Live' : f \in F!Live \/ feedFeeds'[f].cursor = Nobody,
         \A f \in Feeds : feedFeeds'[f].cursor \in {feedFeeds[f].cursor, Nobody},
         \A f \in Feeds : /\ (feedFeeds'[f].there = "deleted" <=> feedFeeds[f].there = "deleted")
                          /\ (feedFeeds'[f].items
                               => feedFeeds[f].items \/ f \in F!Live' \cup feedMoved'),
         \A v \in F!Workers :
           \/ feedWorker'[v] = feedWorker[v] \/ feedWorker'[v].pc \notin FeedFetching \cup {"edit"}
           \/ feedWorker'[v].feed \in F!Live
                /\ feedWorker'[v].was = feedFeeds[feedWorker'[v].feed].url
           \/ /\ feedWorker[v].pc \in FeedFetching /\ feedWorker'[v].feed = feedWorker[v].feed
              /\ feedWorker'[v].was = feedWorker[v].was
  PROVE  FeedCursorInv'
<1>1. F!CursorFitsUrl'
  BY DEF FeedIInv, FeedCursorInv, F!CursorFitsUrl, FeedGrows, F!Live
<1>2. F!DeletedFeedsKeepNothing'
  BY DEF FeedIInv, FeedCursorInv, F!DeletedFeedsKeepNothing, FeedGrows, F!Live
<1>3. ASSUME NEW v \in F!Workers, feedWorker'[v].pc \in FeedFetching \cup {"edit"}
      PROVE  /\ feedWorker'[v].feed \in F!Live' \ feedMoved' => feedWorker'[v].was = feedFeeds'[feedWorker'[v].feed].url
             /\ feedWorker'[v].pc \in FeedFetching
                  => feedWorker'[v].feed \in F!Live' \cup feedMoved'
  <2>1. F!Live' \cap (Feeds \ F!Unborn) \subseteq F!Live
    BY DEF F!Live, F!Unborn, FeedIInv, F!TypeOK, F!Feed
  <2>2. CASE feedWorker'[v] = feedWorker[v]
    BY <1>3, <2>1, <2>2 DEF FeedIInv, FeedCursorInv, FeedLocalsInv, FeedLocal, FeedGrows
  <2>3. CASE feedWorker'[v].feed \in F!Live
      /\ feedWorker'[v].was = feedFeeds[feedWorker'[v].feed].url
    BY <2>3
  <2>4. CASE /\ feedWorker[v].pc \in FeedFetching /\ feedWorker'[v].feed = feedWorker[v].feed
             /\ feedWorker'[v].was = feedWorker[v].was
    BY <2>1, <2>4 DEF FeedIInv, FeedCursorInv, FeedLocalsInv, FeedLocal, FeedGrows
  <2> QED BY <1>3, <2>2, <2>3, <2>4
<1> QED BY <1>1, <1>2, <1>3 DEF FeedCursorInv

-----------------------------------------------------------------------------
(* Steps.                                                                  *)

\* What a worker may go on with when nothing is written.
FeedSound(w, j) ==
  /\ FeedLocal(w, j)
  /\ j.pc \in {"add", "import"} /\ j.url # Nobody
       => Cardinality(F!Taken \cup {j.url}) <= FeedCap + feedCrossed
  /\ j.pc \in FeedFiling => j.folder \in feedFolders \cup feedTorn \cup {Nobody}
  /\ j.pc \in FeedMuting => j.mutes = feedFeeds[j.feed].mutes
  /\ j.pc \in FeedFetching \cup {"edit"} => j.feed \in F!Live /\ j.was = feedFeeds[j.feed].url

LEMMA FeedWorkerStep ==
  ASSUME F!Bounds, FeedIInv, NEW w \in F!Workers, NEW j \in F!Worker, F!Becomes(w, j), FeedSound(w,
         j),
         w \notin F!Past, feedPresses' \in 0..FeedPresses, UNCHANGED <<feedFeeds, feedFolders,
             F!cap, feedMuted>>
  PROVE  FeedIInv'
<1>1. /\ F!Live' = F!Live /\ F!Taken' = F!Taken /\ F!Unborn' = F!Unborn
      /\ feedOvertaken' = feedOvertaken /\ feedCrossed' = feedCrossed
  BY DEF F!Live, F!Taken, F!Unborn, F!cap
<1>2. FeedGoes(w, j) /\ FeedPairsInv' /\ FeedLocalsInv'
  BY <1>1, FeedMoves DEF FeedIInv, FeedLocalsInv, FeedSound
<1>3. F!TypeOK'
  BY <1>1, <1>2 DEF FeedIInv, F!TypeOK, FeedGoes, FeedGrows
<1>4. FeedDistinctInv'
  BY <1>1 DEF FeedIInv, FeedDistinctInv
<1>5. FeedCapInv'
  <2>1. \A v \in F!Past' : \/ v \in F!Past /\ feedWorker'[v].url = feedWorker[v].url
                           \/ Cardinality(F!Taken \cup {feedWorker'[v].url})
                                <= FeedCap + feedCrossed
    BY <1>2 DEF F!Past, FeedGoes, FeedSound, F!Workers
  <2>2. feedOvertaken \subseteq F!Past'
    BY <1>2 DEF FeedIInv, FeedCapInv, F!Past, FeedGoes, F!Workers
  <2> QED BY <1>1, <2>1, <2>2, FeedCapKept
<1>6. FeedFolderInv'
  BY <1>2, FeedFolderKept DEF FeedGoes, FeedGrows, FeedSound
<1>7. FeedMuteInv'
  BY <1>1, <1>2, FeedMuteKept DEF FeedGoes, FeedSound, FeedLocal, FeedMuting
<1>8. FeedCursorInv'
  BY <1>1, <1>2, FeedCursorKept DEF FeedGoes, FeedSound
<1> QED BY <1>2, <1>3, <1>4, <1>5, <1>6, <1>7, <1>8 DEF FeedIInv

LEMMA FeedBeginning ==
  ASSUME F!Bounds, FeedIInv, NEW w \in F!Workers, NEW kind, NEW j \in F!Worker, F!Begin(w, kind, j),
         FeedSound(w, j)
  PROVE  FeedIInv'
<1>1. /\ feedWorker[w].pc = "idle" /\ F!Becomes(w, j) /\ UNCHANGED <<feedFeeds, feedFolders, F!cap, feedMuted>>
      /\ feedPresses < FeedPresses /\ feedPresses' = feedPresses + 1
  BY DEF F!Begin
<1>2. feedPresses' \in 0..FeedPresses
  BY <1>1 DEF FeedIInv, F!TypeOK, F!Bounds
<1>3. w \notin F!Past
  BY <1>1 DEF F!Past
<1> QED BY <1>1, <1>2, <1>3, FeedWorkerStep

LEMMA FeedUnderCapMeans ==
  ASSUME F!Bounds, FeedIInv, NEW u, F!UnderCap(u)
  PROVE  Cardinality(F!Taken \cup {u}) <= FeedCap + feedCrossed
<1>1. /\ IsFiniteSet(F!Taken) /\ Cardinality(F!Taken) \in Nat /\ Cardinality(F!Live) = Cardinality(F!Taken)
      /\ FeedCap \in Int /\ feedCrossed \in Nat
  BY FeedTakenCount DEF FeedIInv, F!TypeOK, F!Bounds
<1>2. CASE F!At(u) # {}
  <2>1. u \in F!Taken
    BY <1>2 DEF F!At, F!Taken
  <2>2. F!Taken \cup {u} = F!Taken
    BY <2>1
  <2>3. Cardinality(F!Taken \cup {u}) = Cardinality(F!Taken)
    BY <2>2, Zenon
  <2> QED BY <2>3 DEF FeedIInv, FeedCapInv
<1>3. CASE Cardinality(F!Live) < FeedCap
  <2>1. Cardinality(F!Taken) <= FeedCap - 1
    BY <1>1, <1>3
  <2>2. Cardinality(F!Taken \cup {u}) <= (FeedCap - 1) + 1
    BY <1>1, <2>1, FeedOneMore
  <2>3. Cardinality(F!Taken \cup {u}) \in Nat
    BY <1>1, FS_AddElement, FS_CardinalityType
  <2> QED BY <1>1, <2>2, <2>3
<1> QED BY FeedSets, <1>2, <1>3 DEF F!UnderCap

LEMMA FeedBeginStep ==
  ASSUME F!Bounds, FeedIInv, NEW w \in F!Workers,
         \/ \E u \in Urls, d \in Folders \cup {Nobody} : F!AddFeed(w, u, d)
         \/ \E us \in SUBSET Urls, d \in Folders \cup {Nobody} : F!ImportOpml(w, us, d)
         \/ \E f \in Feeds, u \in Urls, d \in Folders \cup {Nobody}, ms \in SUBSET Phrases :
              F!EditFeed(w, f, u, d, ms)
         \/ \E f \in Feeds, d \in Folders \cup {Nobody} : F!FileFeed(w, f, d)
         \/ \E d \in Folders : F!DeleteFolder(w, d)
         \/ \E f \in Feeds, p \in Phrases : F!Mute(w, f, p) \/ F!Unmute(w, f, p)
         \/ \E f \in Feeds : F!StartCheck(w, f)
  PROVE  FeedIInv'
<1>1. feedFolders \subseteq Folders /\ feedFeeds \in [Feeds -> F!Feed]
  BY DEF FeedIInv, F!TypeOK
<1>2. \A d : F!Filed(d) \in feedFolders \cup {Nobody}
  BY DEF F!Filed
<1>3. \A f \in F!Live : f \in Feeds \ F!Unborn /\ feedFeeds[f].url \in Urls
    /\ feedFeeds[f].mutes \subseteq Phrases
  BY <1>1 DEF FeedIInv, FeedDistinctInv, F!Live, F!Unborn, F!Feed
<1>4. F!Taken \subseteq Urls
  BY FeedTakenCount DEF FeedIInv
<1>5. ASSUME NEW u \in Urls, NEW d, F!AddFeed(w, u, d)  PROVE FeedIInv'
  <2> DEFINE j == [F!Rest EXCEPT !.pc = "add", !.url = u, !.folder = F!Filed(d)]
  <2>1. F!UnderCap(u) /\ F!Begin(w, Requests, j) /\ w \in Requests
    BY <1>5 DEF F!AddFeed, F!Begin
  <2>2. j \in F!Worker /\ j.pc = "add" /\ j.url = u /\ j.folder = F!Filed(d)
    BY <1>1, <1>2 DEF F!Rest, F!Worker
  <2> HIDE DEF j
  <2>3. FeedSound(w, j)
    BY <1>2, <2>1, <2>2, FeedUnderCapMeans DEF FeedSound, FeedLocal, FeedFiling, FeedMuting,
       FeedFetching
  <2> QED BY <2>1, <2>2, <2>3, FeedBeginning
<1>6. ASSUME NEW us \in SUBSET Urls, NEW d, F!ImportOpml(w, us, d)  PROVE FeedIInv'
  <2> DEFINE j == [F!Rest EXCEPT !.pc = "import", !.todo = us, !.folder = F!Filed(d),
      !.known = F!Taken]
  <2>1. F!Begin(w, Requests, j) /\ w \in Requests
    BY <1>6 DEF F!ImportOpml, F!Begin, F!Taken
  <2>2. j \in F!Worker /\ j.pc = "import" /\ j.url = Nobody /\ j.folder = F!Filed(d)
    BY <1>1, <1>2, <1>4 DEF F!Rest, F!Worker
  <2> HIDE DEF j
  <2>3. FeedSound(w, j)
    BY <1>2, <2>1, <2>2 DEF FeedSound, FeedLocal, FeedFiling, FeedMuting, FeedFetching
  <2> QED BY <2>1, <2>2, <2>3, FeedBeginning
<1>7. ASSUME NEW f \in Feeds, NEW u \in Urls, NEW d, NEW ms \in SUBSET Phrases,
    F!EditFeed(w, f, u, d, ms)
      PROVE  FeedIInv'
  <2> DEFINE j == [F!Rest EXCEPT !.pc = "edit", !.feed = f, !.url = u, !.folder = F!Filed(d),
                                 !.mutes = ms, !.was = feedFeeds[f].url]
  <2>1. f \in F!Live /\ F!Begin(w, Requests, j)
    BY <1>7 DEF F!EditFeed
  <2>2. /\ j \in F!Worker /\ j.pc = "edit" /\ j.url = u /\ j.folder = F!Filed(d) /\ j.feed = f
        /\ j.was = feedFeeds[f].url
    BY <1>1, <1>2, <1>3, <2>1 DEF F!Rest, F!Worker
  <2> HIDE DEF j
  <2>3. FeedSound(w, j)
    BY <1>2, <1>3, <2>1, <2>2 DEF FeedSound, FeedLocal, FeedFiling, FeedMuting, FeedFetching
  <2> QED BY <2>1, <2>2, <2>3, FeedBeginning
<1>8. ASSUME NEW f \in Feeds, NEW d, F!FileFeed(w, f, d)  PROVE FeedIInv'
  <2> DEFINE j == [F!Rest EXCEPT !.pc = "file", !.feed = f, !.folder = d]
  <2>1. f \in F!Live /\ d \in feedFolders \cup {Nobody} /\ F!Begin(w, Requests, j)
    BY <1>8 DEF F!FileFeed
  <2>2. j \in F!Worker /\ j.pc = "file" /\ j.feed = f /\ j.folder = d
    BY <1>1, <2>1 DEF F!Rest, F!Worker
  <2> HIDE DEF j
  <2>3. FeedSound(w, j)
    BY <1>3, <2>1, <2>2 DEF FeedSound, FeedLocal, FeedFiling, FeedMuting, FeedFetching
  <2> QED BY <2>1, <2>2, <2>3, FeedBeginning
<1>9. ASSUME NEW d \in Folders, F!DeleteFolder(w, d)  PROVE FeedIInv'
  <2> DEFINE j == [F!Rest EXCEPT !.pc = "clear", !.folder = d]
  <2>1. F!Begin(w, Requests, j)
    BY <1>9 DEF F!DeleteFolder
  <2>2. j \in F!Worker /\ j.pc = "clear" /\ j.folder = d
    BY DEF F!Rest, F!Worker
  <2> HIDE DEF j
  <2>3. FeedSound(w, j)
    BY <2>1, <2>2 DEF FeedSound, FeedLocal, FeedFiling, FeedMuting, FeedFetching
  <2> QED BY <2>1, <2>2, <2>3, FeedBeginning
<1>10. ASSUME NEW f \in Feeds, NEW p \in Phrases, F!Mute(w, f, p) \/ F!Unmute(w, f, p)  PROVE FeedIInv'
  <2>1. PICK pc \in FeedMuting :
          f \in F!Live /\ F!Begin(w, Requests, [F!Rest EXCEPT !.pc = pc, !.feed = f, !.phrase = p,
                                                              !.mutes = feedFeeds[f].mutes])
    BY <1>10 DEF F!Mute, F!Unmute, FeedMuting
  <2> DEFINE j == [F!Rest EXCEPT !.pc = pc, !.feed = f, !.phrase = p, !.mutes = feedFeeds[f].mutes]
  <2>2. j \in F!Worker /\ j.pc = pc /\ j.feed = f /\ j.phrase = p /\ j.mutes = feedFeeds[f].mutes
    BY <1>3, <2>1 DEF F!Rest, F!Worker, FeedMuting
  <2>3. F!Begin(w, Requests, j)
    BY <2>1
  <2> HIDE DEF j
  <2>4. FeedSound(w, j)
    BY <1>3, <2>1, <2>2 DEF FeedSound, FeedLocal, FeedFiling, FeedMuting, FeedFetching
  <2> QED BY <2>2, <2>3, <2>4, FeedBeginning
<1>11. ASSUME NEW f \in Feeds, F!StartCheck(w, f)  PROVE FeedIInv'
  <2> DEFINE j == [F!Rest EXCEPT !.pc = "fetched", !.feed = f, !.was = feedFeeds[f].url]
  <2>1. f \in F!Live /\ F!Begin(w, Checks, j) /\ w \in Checks
    BY <1>11 DEF F!StartCheck, F!Begin
  <2>2. j \in F!Worker /\ j.pc = "fetched" /\ j.feed = f /\ j.was = feedFeeds[f].url
    BY <1>3, <2>1 DEF F!Rest, F!Worker
  <2> HIDE DEF j
  <2>3. FeedSound(w, j)
    BY <1>3, <2>1, <2>2 DEF FeedSound, FeedLocal, FeedFiling, FeedMuting, FeedFetching
  <2> QED BY <2>1, <2>2, <2>3, FeedBeginning
<1> QED BY <1>5, <1>6, <1>7, <1>8, <1>9, <1>10, <1>11

LEMMA FeedOutlineStep ==
  ASSUME F!Bounds, FeedIInv, NEW w \in F!Workers, F!TakeOutline(w) \/ F!EndImport(w)
  PROVE  FeedIInv'
<1>1. /\ feedWorker[w].pc = "import" /\ feedWorker[w].url = Nobody /\ feedWorker[w] \in F!Worker
      /\ feedPresses \in 0..FeedPresses /\ w \in Requests /\ w \notin F!Past
  BY DEF FeedIInv, F!TypeOK, FeedLocalsInv, FeedLocal, F!TakeOutline, F!EndImport, F!Past
<1>2. feedWorker[w].folder \in feedFolders \cup feedTorn \cup {Nobody}
  BY <1>1 DEF FeedIInv, FeedFolderInv, FeedFiling
<1>3. CASE F!EndImport(w)
  <2>1. FeedSound(w, F!Rest)
    BY FeedRestType DEF FeedSound, FeedLocal, FeedFiling, FeedMuting, FeedFetching
  <2> QED BY <1>1, <1>3, <2>1, FeedRestType, FeedWorkerStep DEF F!EndImport, F!Finish
<1>4. CASE F!TakeOutline(w)
  <2>1. PICK u \in feedWorker[w].todo :
          F!Becomes(w, IF u \in feedWorker[w].known \/ Cardinality(F!Live) >= FeedCap
                       THEN [feedWorker[w] EXCEPT !.todo = @ \ {u}]
                       ELSE [[feedWorker[w] EXCEPT !.todo = @ \ {u}] EXCEPT !.url = u])
    BY FeedSets, <1>4 DEF F!TakeOutline
  <2> DEFINE j == IF u \in feedWorker[w].known \/ Cardinality(F!Live) >= FeedCap
                  THEN [feedWorker[w] EXCEPT !.todo = @ \ {u}]
                  ELSE [[feedWorker[w] EXCEPT !.todo = @ \ {u}] EXCEPT !.url = u]
  <2>2. /\ j \in F!Worker /\ j.pc = "import" /\ j.folder = feedWorker[w].folder
        /\ j.url = Nobody \/ (j.url = u /\ ~ (Cardinality(F!Live) >= FeedCap))
    BY <1>1, <2>1 DEF F!Worker
  <2>3. F!Becomes(w, j)
    BY <2>1
  <2> HIDE DEF j
  <2>4. j.url # Nobody => Cardinality(F!Taken \cup {j.url}) <= FeedCap + feedCrossed
    <3>1. Cardinality(F!Live) \in Nat /\ FeedCap \in Nat
      BY FeedTakenCount DEF FeedIInv, F!Bounds
    <3>2. j.url # Nobody => F!UnderCap(j.url)
      BY FeedSets, <2>2, <3>1 DEF F!UnderCap
    <3> QED BY <3>2, FeedUnderCapMeans
  <2>5. FeedSound(w, j)
    BY <1>1, <1>2, <2>2, <2>4 DEF FeedSound, FeedLocal, FeedFiling, FeedMuting, FeedFetching
  <2> QED BY <1>1, <1>4, <2>2, <2>3, <2>5, FeedWorkerStep DEF F!TakeOutline
<1> QED BY <1>3, <1>4

\* The rows after an insert of a URL, or of one that is there.
FeedStored(u, d) ==
  \/ /\ feedFeeds' \in [Feeds -> F!Feed] /\ F!Live' = F!Live /\ F!Unborn' = F!Unborn
     /\ \A f \in Feeds \ F!Live : feedFeeds'[f] = feedFeeds[f]
     /\ \A f \in F!Live : feedFeeds'[f] \in {feedFeeds[f], [feedFeeds[f] EXCEPT !.folder = d]}
  \/ \E n \in F!Unborn :
       /\ feedFeeds' \in [Feeds -> F!Feed] /\ F!Live' = F!Live \cup {n}
            /\ F!Unborn' = F!Unborn \ {n}
       /\ feedFeeds'[n] = [F!NoFeed EXCEPT !.there = "yes", !.url = u, !.folder = d]
       /\ \A f \in Feeds \ {n} : feedFeeds'[f] = feedFeeds[f]
       /\ u \notin F!Taken

LEMMA FeedStoringStores ==
  ASSUME F!Bounds, FeedIInv, NEW u \in Urls, NEW d \in Folders \cup {Nobody},
         F!At(u) = {} => F!Unborn # {},
         feedFeeds' \in {IF F!At(u) = {} THEN F!Inserted(u, d) ELSE F!Refiled(u, d),
                        IF F!At(u) = {} THEN F!Inserted(u, d) ELSE feedFeeds}
  PROVE  FeedStored(u, d)
<1>1. feedFeeds \in [Feeds -> F!Feed]
  BY DEF FeedIInv, F!TypeOK
<1>2. CASE F!At(u) = {}
  <2> DEFINE n == CHOOSE f \in F!Unborn : TRUE
  <2>1. n \in F!Unborn
    BY <1>2
  <2>2. feedFeeds' = [feedFeeds EXCEPT ![n]
      = [F!NoFeed EXCEPT !.there = "yes", !.url = u, !.folder = d]]
    BY <1>2 DEF F!Inserted
  <2> HIDE DEF n
  <2>3. /\ feedFeeds' \in [Feeds -> F!Feed]
        /\ feedFeeds'[n] = [F!NoFeed EXCEPT !.there = "yes", !.url = u, !.folder = d]
        /\ \A f \in Feeds \ {n} : feedFeeds'[f] = feedFeeds[f]
    BY <1>1, <2>1, <2>2 DEF F!NoFeed, F!Feed, F!Unborn
  <2>4. F!Live' = F!Live \cup {n} /\ F!Unborn' = F!Unborn \ {n}
    <3>1. feedFeeds'[n].there = "yes" /\ n \in Feeds
      BY <2>1, <2>3 DEF F!Unborn, F!NoFeed
    <3> QED BY <2>3, <3>1 DEF F!Live, F!Unborn
  <2>5. u \notin F!Taken
    BY <1>2 DEF F!At, F!Taken
  <2> QED BY <2>1, <2>3, <2>4, <2>5 DEF FeedStored
<1>3. CASE F!At(u) # {}
  <2>1. /\ feedFeeds' \in [Feeds -> F!Feed]
        /\ \A f \in Feeds \ F!Live : feedFeeds'[f] = feedFeeds[f]
        /\ \A f \in F!Live : feedFeeds'[f] \in {feedFeeds[f], [feedFeeds[f] EXCEPT !.folder = d]}
    <3>1. \A f \in Feeds : [feedFeeds[f] EXCEPT !.folder = d] \in F!Feed
      BY <1>1 DEF F!Feed
    <3>2. \/ feedFeeds' = feedFeeds
          \/ feedFeeds' = [f \in Feeds |-> IF f \in F!At(u) THEN [feedFeeds[f] EXCEPT !.folder = d]
               ELSE feedFeeds[f]]
      BY <1>3 DEF F!Refiled
    <3>3. F!At(u) \subseteq F!Live /\ F!Live \subseteq Feeds
      BY DEF F!At, F!Live
    <3>4. CASE feedFeeds' = feedFeeds
      BY <1>1, <3>4
    <3>5. CASE feedFeeds' = [f \in Feeds |-> IF f \in F!At(u)
        THEN [feedFeeds[f] EXCEPT !.folder = d] ELSE feedFeeds[f]]
      BY <1>1, <3>1, <3>3, <3>5
    <3> QED BY <3>2, <3>4, <3>5
  <2>2. \A f \in Feeds : feedFeeds'[f].there = feedFeeds[f].there
    BY <1>1, <2>1 DEF F!Feed
  <2>3. F!Live' = F!Live /\ F!Unborn' = F!Unborn
    BY <2>2 DEF F!Live, F!Unborn
  <2> QED BY <2>1, <2>3 DEF FeedStored
<1> QED BY <1>2, <1>3

LEMMA FeedStoredMeans ==
  ASSUME F!Bounds, FeedIInv, NEW u \in Urls, NEW d \in Folders \cup {Nobody}, FeedStored(u, d)
  PROVE  /\ feedFeeds' \in [Feeds -> F!Feed] /\ F!Live \subseteq F!Live' /\ F!Unborn' \subseteq F!Unborn
         /\ \A f \in F!Unborn' : feedFeeds'[f] = F!NoFeed
         /\ \A f \in Feeds : /\ feedFeeds'[f].mutes = feedFeeds[f].mutes
                             /\ feedFeeds'[f].cursor = feedFeeds[f].cursor
                             /\ feedFeeds'[f].items = feedFeeds[f].items
                             /\ feedFeeds'[f].folder \in {feedFeeds[f].folder, d}
                             /\ (feedFeeds'[f].there = "deleted" <=> feedFeeds[f].there = "deleted")
         /\ \A f \in F!Live : feedFeeds'[f].url = feedFeeds[f].url
         /\ \A f \in F!Live' : f \in F!Live \/ feedFeeds'[f].cursor = Nobody
         /\ F!Taken' = F!Taken \/ (F!Taken' = F!Taken \cup {u} /\ u \notin F!Taken)
         /\ FeedDistinctInv'
<1>1. feedFeeds \in [Feeds -> F!Feed] /\ \A f \in F!Unborn : feedFeeds[f] = F!NoFeed /\ f \in Feeds
  BY DEF FeedIInv, F!TypeOK, FeedLocalsInv, F!Unborn
<1>2. F!Live \subseteq Feeds
  BY DEF F!Live
<1>3. CASE /\ feedFeeds' \in [Feeds -> F!Feed] /\ F!Live' = F!Live /\ F!Unborn' = F!Unborn
           /\ \A f \in Feeds \ F!Live : feedFeeds'[f] = feedFeeds[f]
           /\ \A f \in F!Live : feedFeeds'[f] \in {feedFeeds[f], [feedFeeds[f] EXCEPT !.folder = d]}
  <2>1. \A f \in Feeds : /\ feedFeeds'[f].mutes = feedFeeds[f].mutes
                         /\ feedFeeds'[f].cursor = feedFeeds[f].cursor
                         /\ feedFeeds'[f].items = feedFeeds[f].items
                         /\ feedFeeds'[f].folder \in {feedFeeds[f].folder, d}
                         /\ feedFeeds'[f].there = feedFeeds[f].there
                         /\ feedFeeds'[f].url = feedFeeds[f].url
    BY <1>1, <1>3 DEF F!Feed
  <2>2. \A f \in F!Unborn' : feedFeeds'[f] = F!NoFeed
    BY <1>1, <1>3 DEF F!Live, F!Unborn
  <2>3. F!Taken' = F!Taken
    BY <1>2, <1>3, <2>1 DEF F!Taken
  <2>4. FeedDistinctInv'
    BY <1>2, <1>3, <2>1 DEF FeedIInv, FeedDistinctInv
  <2> QED BY <1>2, <1>3, <2>1, <2>2, <2>3, <2>4
<1>4. ASSUME NEW n \in F!Unborn,
             /\ feedFeeds' \in [Feeds -> F!Feed] /\ F!Live' = F!Live \cup {n}
                  /\ F!Unborn' = F!Unborn \ {n}
             /\ feedFeeds'[n] = [F!NoFeed EXCEPT !.there = "yes", !.url = u, !.folder = d]
             /\ \A f \in Feeds \ {n} : feedFeeds'[f] = feedFeeds[f]
             /\ u \notin F!Taken
      PROVE  /\ feedFeeds' \in [Feeds -> F!Feed] /\ F!Live \subseteq F!Live' /\ F!Unborn' \subseteq F!Unborn
             /\ \A f \in F!Unborn' : feedFeeds'[f] = F!NoFeed
             /\ \A f \in Feeds : /\ feedFeeds'[f].mutes = feedFeeds[f].mutes
                                 /\ feedFeeds'[f].cursor = feedFeeds[f].cursor
                                 /\ feedFeeds'[f].items = feedFeeds[f].items
                                 /\ feedFeeds'[f].folder \in {feedFeeds[f].folder, d}
                                 /\ (feedFeeds'[f].there = "deleted"
                                      <=> feedFeeds[f].there = "deleted")
             /\ \A f \in F!Live : feedFeeds'[f].url = feedFeeds[f].url
             /\ \A f \in F!Live' : f \in F!Live \/ feedFeeds'[f].cursor = Nobody
             /\ F!Taken' = F!Taken \/ (F!Taken' = F!Taken \cup {u} /\ u \notin F!Taken)
             /\ FeedDistinctInv'
  <2>1. n \notin F!Live /\ n \in Feeds /\ feedFeeds[n] = F!NoFeed
    BY <1>1, <1>4 DEF F!Live, F!Unborn
  <2>2. /\ feedFeeds'[n].url = u /\ feedFeeds'[n].there = "yes" /\ feedFeeds'[n].folder = d
        /\ feedFeeds'[n].mutes = feedFeeds[n].mutes /\ feedFeeds'[n].cursor = Nobody
        /\ feedFeeds[n].cursor = Nobody /\ feedFeeds'[n].items = feedFeeds[n].items
        /\ feedFeeds[n].there = "never"
    BY <1>4, <2>1 DEF F!NoFeed
  <2>3. \A f \in Feeds : /\ feedFeeds'[f].mutes = feedFeeds[f].mutes
                         /\ feedFeeds'[f].cursor = feedFeeds[f].cursor
                         /\ feedFeeds'[f].items = feedFeeds[f].items
                         /\ feedFeeds'[f].folder \in {feedFeeds[f].folder, d}
                         /\ (feedFeeds'[f].there = "deleted" <=> feedFeeds[f].there = "deleted")
    BY <1>4, <2>2
  <2>4. \A f \in F!Live : feedFeeds'[f].url = feedFeeds[f].url /\ f # n
    BY <1>2, <1>4, <2>1
  <2>5. F!Taken' = F!Taken \cup {u}
    <3>1. ASSUME NEW x \in F!Taken' PROVE x \in F!Taken \cup {u}
      <4>1. PICK f \in F!Live' : x = feedFeeds'[f].url
        BY <3>1 DEF F!Taken
      <4>2. f = n \/ f \in F!Live
        BY <1>4
      <4> QED BY <2>2, <2>4, <4>1, <4>2 DEF F!Taken
    <3>2. ASSUME NEW x \in F!Taken PROVE x \in F!Taken'
      BY <1>4, <2>4 DEF F!Taken
    <3>3. u \in F!Taken'
      BY <1>4, <2>2 DEF F!Taken
    <3> QED BY <3>1, <3>2, <3>3
  <2>6. FeedDistinctInv'
    <3>1. \A f \in F!Live' : feedFeeds'[f].url \in Urls
      BY <1>4, <2>2, <2>4 DEF FeedIInv, FeedDistinctInv
    <3>2. \A f, g \in F!Live' : feedFeeds'[f].url = feedFeeds'[g].url => f = g
      <4>1. \A f \in F!Live : feedFeeds[f].url # u
        BY <1>4 DEF F!Taken
      <4>2. \A f \in F!Live' : f = n \/ f \in F!Live
        BY <1>4
      <4> QED BY <2>2, <2>4, <4>1, <4>2 DEF FeedIInv, FeedDistinctInv
    <3> QED BY <3>1, <3>2 DEF FeedDistinctInv
  <2>7. \A f \in F!Live' : f \in F!Live \/ feedFeeds'[f].cursor = Nobody
    BY <1>4, <2>2
  <2>8. \A f \in F!Unborn' : feedFeeds'[f] = F!NoFeed
    BY <1>1, <1>4
  <2> QED BY <1>4, <2>3, <2>4, <2>5, <2>6, <2>7, <2>8
<1> QED BY <1>3, <1>4 DEF FeedStored

LEMMA FeedCapGrown ==
  ASSUME F!Bounds, FeedIInv, NEW w \in F!Past, NEW u, u = feedWorker[w].url, F!Overtakes(w),
         F!Taken' = F!Taken \cup {u}, u \notin F!Taken, F!Past' = F!Past \ {w}
  PROVE  FeedCapInv'
<1>1. /\ IsFiniteSet(F!Taken) /\ Cardinality(F!Taken) \in Nat
      /\ FeedCap + feedCrossed \in Int /\ feedCrossed \in Nat /\ FeedCap \in Nat
  BY FeedTakenCount DEF FeedIInv, F!TypeOK, F!Bounds
<1>2. /\ feedCrossed' = IF w \in feedOvertaken THEN feedCrossed + 1 ELSE feedCrossed
      /\ feedOvertaken' = (feedOvertaken \ {w}) \cup (F!Past \ {w})
  BY DEF F!Overtakes
<1>3. feedOvertaken' = F!Past'
  BY <1>2 DEF FeedIInv, FeedCapInv
<1>4. Cardinality(F!Taken') <= FeedCap + feedCrossed'
  <2>1. CASE w \in feedOvertaken
    <3>1. Cardinality(F!Taken \cup {u}) <= (FeedCap + feedCrossed) + 1
      BY <1>1, FeedOneMore DEF FeedIInv, FeedCapInv
    <3>2. FeedCap + feedCrossed' = (FeedCap + feedCrossed) + 1
      BY <1>1, <1>2, <2>1
    <3> QED BY <3>1, <3>2
  <2>2. CASE w \notin feedOvertaken
    BY <1>2, <2>2 DEF FeedIInv, FeedCapInv
  <2> QED BY <2>1, <2>2
<1> QED BY <1>3, <1>4 DEF FeedCapInv

LEMMA FeedStoreStep ==
  ASSUME F!Bounds, FeedIInv, NEW w \in F!Workers, F!StoreFeed(w) \/ F!InsertOutline(w)
  PROVE  FeedIInv'
<1> DEFINE u == feedWorker[w].url
           d == feedWorker[w].folder
<1>1. /\ feedWorker[w] \in F!Worker /\ feedWorker[w].pc \in {"add", "import"}
      /\ u # Nobody /\ u \in Urls /\ d \in Folders \cup {Nobody} /\ w \in F!Past
      /\ d \in feedFolders \cup feedTorn \cup {Nobody}
  <2>1. feedWorker[w] \in F!Worker /\ FeedLocal(w, feedWorker[w])
    BY DEF FeedIInv, F!TypeOK, FeedLocalsInv
  <2>2. feedWorker[w].pc \in {"add", "import"} /\ u # Nobody /\ u \in Urls
    BY <2>1 DEF F!StoreFeed, F!InsertOutline, F!Worker, FeedLocal, F!Bounds
  <2>3. d \in feedFolders \cup feedTorn \cup {Nobody}
    BY <2>2 DEF FeedIInv, FeedFolderInv, FeedFiling
  <2> QED BY <2>1, <2>2, <2>3 DEF F!Past, F!Worker, FeedLocal
<1>2. PICK j \in F!Worker :
        /\ F!Becomes(w, j)
        /\ j.pc = "idle" \/ (j.pc = "import" /\ j.url = Nobody /\ j.folder = d)
        /\ feedPresses' = feedPresses
  <2>1. CASE F!StoreFeed(w)
    BY <2>1, FeedRestType DEF F!StoreFeed, F!Finish
  <2>2. CASE F!InsertOutline(w)
    <3> DEFINE j == [feedWorker[w] EXCEPT !.known = @ \cup {u}, !.url = Nobody]
    <3>1. j \in F!Worker /\ j.pc = "import" /\ j.url = Nobody /\ j.folder = d
      BY <1>1, <2>2 DEF F!InsertOutline, F!Worker
    <3>2. F!Becomes(w, j) /\ feedPresses' = feedPresses
      BY <2>2 DEF F!InsertOutline
    <3> HIDE DEF j
    <3> QED BY <3>1, <3>2
  <2> QED BY <2>1, <2>2
<1>3. F!Overtakes(w) /\ UNCHANGED <<feedFolders, feedMuted>>
  BY DEF F!StoreFeed, F!InsertOutline
<1>4. FeedStored(u, d)
  <2>1. F!At(u) = {} => F!Unborn # {}
    BY DEF F!StoreFeed, F!InsertOutline
  <2>2. feedFeeds' \in {IF F!At(u) = {} THEN F!Inserted(u, d) ELSE F!Refiled(u, d),
                       IF F!At(u) = {} THEN F!Inserted(u, d) ELSE feedFeeds}
    BY DEF F!StoreFeed, F!InsertOutline
  <2> HIDE DEF u, d
  <2> QED BY <1>1, <2>1, <2>2, FeedStoringStores
<1> HIDE DEF u, d
<1>5. /\ feedFeeds' \in [Feeds -> F!Feed] /\ F!Live \subseteq F!Live' /\ F!Unborn' \subseteq F!Unborn
      /\ \A f \in F!Unborn' : feedFeeds'[f] = F!NoFeed
      /\ \A f \in Feeds : /\ feedFeeds'[f].mutes = feedFeeds[f].mutes
                          /\ feedFeeds'[f].cursor = feedFeeds[f].cursor
                          /\ feedFeeds'[f].items = feedFeeds[f].items
                          /\ feedFeeds'[f].folder \in {feedFeeds[f].folder, d}
                          /\ (feedFeeds'[f].there = "deleted" <=> feedFeeds[f].there = "deleted")
      /\ \A f \in F!Live : feedFeeds'[f].url = feedFeeds[f].url
      /\ \A f \in F!Live' : f \in F!Live \/ feedFeeds'[f].cursor = Nobody
      /\ F!Taken' = F!Taken \/ (F!Taken' = F!Taken \cup {u} /\ u \notin F!Taken)
      /\ FeedDistinctInv'
  BY <1>1, <1>4, FeedStoredMeans
<1>6. FeedLocal(w, j)
  BY <1>1, <1>2 DEF FeedLocal, FeedMuting, FeedFetching, FeedIInv, FeedLocalsInv
<1>7. FeedGoes(w, j) /\ FeedPairsInv' /\ FeedLocalsInv'
  BY <1>2, <1>5, <1>6, FeedMoves DEF FeedIInv
<1>8. F!Past' = F!Past \ {w}
  BY <1>2, <1>7 DEF F!Past, FeedGoes, F!Workers
<1>9. F!TypeOK'
  <2>1. feedOvertaken' \subseteq Requests /\ feedCrossed' \in Nat
    BY <1>3 DEF F!Overtakes, FeedIInv, F!TypeOK, F!Past
  <2> QED BY <1>2, <1>3, <1>5, <1>7, <2>1 DEF FeedIInv, F!TypeOK, FeedGoes, FeedGrows
<1>10. FeedCapInv'
  <2>1. CASE F!Taken' = F!Taken
    <3>1. feedCrossed' = feedCrossed /\ feedOvertaken' = feedOvertaken \ {w}
      BY <1>3, <2>1 DEF F!Overtakes
    <3>2. feedOvertaken' \subseteq F!Past' /\ feedOvertaken \cap F!Past' \subseteq feedOvertaken'
      BY <1>8, <3>1 DEF FeedIInv, FeedCapInv
    <3>3. \A v \in F!Past' : v \in F!Past /\ feedWorker'[v].url = feedWorker[v].url
      BY <1>7, <1>8 DEF FeedGoes, F!Past, F!Workers
    <3> QED BY <2>1, <3>1, <3>2, <3>3, FeedCapKept
  <2>2. CASE F!Taken' = F!Taken \cup {u} /\ u \notin F!Taken
    BY <1>1, <1>3, <1>8, <2>2, FeedCapGrown DEF u
  <2> QED BY <1>5, <2>1, <2>2
<1>11. FeedFolderInv'
  <2>1. \A v \in F!Workers : \/ feedWorker'[v] = feedWorker[v] \/ feedWorker'[v].pc \notin FeedFiling
                             \/ feedWorker'[v].folder \in feedFolders \cup feedTorn' \cup {Nobody}
    BY <1>1, <1>2, <1>7 DEF FeedGoes, FeedGrows, FeedFiling
  <2>2. \A f \in Feeds : feedFeeds'[f].folder \in {feedFeeds[f].folder, Nobody} \cup feedFolders
      \cup feedTorn'
    BY <1>1, <1>5, <1>7 DEF FeedGoes, FeedGrows
  <2> QED BY <1>3, <1>7, <2>1, <2>2, FeedFolderKept DEF FeedGoes
<1>12. FeedMuteInv'
  BY <1>2, <1>3, <1>5, <1>7, FeedMuteKept DEF FeedGoes, FeedMuting
<1>13. FeedCursorInv'
  <2>1. \A v \in F!Workers : feedWorker'[v] = feedWorker[v]
      \/ feedWorker'[v].pc \notin FeedFetching \cup {"edit"}
    BY <1>2, <1>7 DEF FeedGoes, FeedFetching
  <2> QED BY <1>5, <1>7, <2>1, FeedCursorKept DEF FeedGoes
<1> QED BY <1>5, <1>7, <1>9, <1>10, <1>11, <1>12, <1>13 DEF FeedIInv

\* A write that leaves the feeds where they are, with the URLs they have.
LEMMA FeedFieldStep ==
  ASSUME F!Bounds, FeedIInv, NEW w \in F!Workers, NEW j \in F!Worker, F!Becomes(w, j),
         j.pc \in {"idle", "close"}, FeedLocal(w, j), feedWorker[w].pc \notin {"add", "import"},
         UNCHANGED <<feedPresses, F!cap>>,
         feedFolders' \subseteq feedFolders, feedMuted' \in [Feeds -> SUBSET Phrases],
         feedFeeds' \in [Feeds -> F!Feed], \A f \in F!Unborn : feedFeeds'[f] = feedFeeds[f],
         \A f \in Feeds : feedFeeds'[f].there = feedFeeds[f].there
             /\ feedFeeds'[f].url = feedFeeds[f].url
  PROVE  /\ FeedGoes(w, j) /\ F!Live' = F!Live /\ F!Unborn' = F!Unborn
         /\ F!TypeOK' /\ FeedPairsInv' /\ FeedLocalsInv' /\ FeedDistinctInv' /\ FeedCapInv'
<1>1. F!Live' = F!Live /\ F!Unborn' = F!Unborn /\ F!Live \subseteq Feeds
  BY DEF F!Live, F!Unborn
<1>2. F!Taken' = F!Taken
  BY <1>1 DEF F!Taken
<1>3. FeedGoes(w, j) /\ FeedPairsInv' /\ FeedLocalsInv'
  BY <1>1, FeedMoves DEF FeedIInv, FeedLocalsInv
<1>4. F!TypeOK'
  BY <1>3 DEF FeedIInv, F!TypeOK, FeedGoes, FeedGrows, F!cap
<1>5. FeedDistinctInv'
  BY <1>1 DEF FeedIInv, FeedDistinctInv
<1>6. FeedCapInv'
  <2>1. F!Past' = F!Past /\ \A v \in F!Past : feedWorker'[v] = feedWorker[v]
    BY <1>3 DEF F!Past, FeedGoes, F!Workers
  <2> QED BY <1>2, <2>1, FeedCapKept DEF F!cap, FeedIInv, FeedCapInv
<1> QED BY <1>1, <1>3, <1>4, <1>5, <1>6

LEMMA FeedFolderStep ==
  ASSUME F!Bounds, FeedIInv, NEW w \in F!Workers, F!WriteFolder(w)
  PROVE  FeedIInv'
<1> DEFINE f == feedWorker[w].feed
           d == feedWorker[w].folder
<1>1. /\ feedWorker[w].pc = "file" /\ F!Becomes(w, F!Rest) /\ UNCHANGED <<feedPresses, feedFolders, F!cap, feedMuted>>
      /\ feedFeeds' = [feedFeeds EXCEPT ![f].folder = d]
  BY DEF F!WriteFolder, F!Finish
<1>2. /\ f \in Feeds \ F!Unborn /\ d \in Folders \cup {Nobody} /\ d \in feedFolders \cup feedTorn \cup {Nobody}
      /\ feedFeeds[f] \in F!Feed
  BY <1>1 DEF FeedIInv, F!TypeOK, FeedLocalsInv, FeedLocal, FeedFolderInv, FeedFiling, F!Worker
<1> HIDE DEF f, d
<1>3. /\ feedFeeds' \in [Feeds -> F!Feed] /\ feedFeeds'[f] = [feedFeeds[f] EXCEPT !.folder = d]
      /\ \A g \in Feeds \ {f} : feedFeeds'[g] = feedFeeds[g]
  BY <1>1, <1>2 DEF FeedIInv, F!TypeOK, F!Feed
<1>4. \A g \in Feeds : /\ feedFeeds'[g].there = feedFeeds[g].there /\ feedFeeds'[g].url = feedFeeds[g].url
                       /\ feedFeeds'[g].mutes = feedFeeds[g].mutes
                            /\ feedFeeds'[g].cursor = feedFeeds[g].cursor
                       /\ feedFeeds'[g].items = feedFeeds[g].items
                            /\ feedFeeds'[g].folder \in {feedFeeds[g].folder, d}
  BY <1>2, <1>3 DEF F!Feed
<1>5. FeedLocal(w, F!Rest) /\ F!Unborn \subseteq Feeds /\ feedMuted' \in [Feeds -> SUBSET Phrases]
  BY <1>1, FeedRestType DEF FeedLocal, FeedMuting, FeedFetching, F!Unborn, FeedIInv, F!TypeOK
<1>6. /\ FeedGoes(w, F!Rest) /\ F!Live' = F!Live /\ F!Unborn' = F!Unborn
      /\ F!TypeOK' /\ FeedPairsInv' /\ FeedLocalsInv' /\ FeedDistinctInv' /\ FeedCapInv'
  BY <1>1, <1>2, <1>3, <1>4, <1>5, FeedRestType, FeedFieldStep
<1>7. \A v \in F!Workers : feedWorker'[v] = feedWorker[v] \/ feedWorker'[v].pc = "idle"
  BY <1>6, FeedRestType DEF FeedGoes
<1>8. FeedFolderInv'
  BY <1>1, <1>2, <1>4, <1>6, <1>7, FeedFolderKept DEF FeedGoes, FeedGrows, FeedFiling
<1>9. FeedMuteInv'
  BY <1>1, <1>4, <1>6, <1>7, FeedMuteKept DEF FeedGoes, FeedMuting
<1>10. FeedCursorInv'
  BY <1>4, <1>6, <1>7, FeedCursorKept DEF FeedGoes, FeedFetching, F!Live
<1> QED BY <1>6, <1>8, <1>9, <1>10 DEF FeedIInv

LEMMA FeedDropStep ==
  ASSUME F!Bounds, FeedIInv, NEW w \in F!Workers, F!DropFolder(w)
  PROVE  FeedIInv'
<1> DEFINE d == feedWorker[w].folder
<1>1. /\ feedWorker[w].pc = "clear" /\ F!Becomes(w, F!Rest) /\ UNCHANGED <<feedPresses, F!cap, feedMuted>>
      /\ feedFolders' = feedFolders \ {d}
      /\ feedFeeds' = [f \in Feeds |-> IF feedFeeds[f].folder = d
                                       THEN [feedFeeds[f] EXCEPT !.folder = Nobody]
                                           ELSE feedFeeds[f]]
  BY DEF F!DropFolder, F!Finish
<1>2. d \in Folders /\ d # Nobody /\ feedFeeds \in [Feeds -> F!Feed]
  BY <1>1 DEF FeedIInv, F!TypeOK, FeedLocalsInv, FeedLocal, F!Bounds
<1>3. \A v \in F!Workers : feedWorker[v].pc \in FeedFiling /\ feedWorker[v].folder = d
    => d \in feedTorn
  BY <1>1 DEF FeedIInv, FeedPairsInv
<1> HIDE DEF d
<1>4. /\ feedFeeds' \in [Feeds -> F!Feed]
      /\ \A g \in Feeds : feedFeeds'[g] \in {feedFeeds[g], [feedFeeds[g] EXCEPT !.folder = Nobody]}
      /\ \A g \in Feeds : feedFeeds'[g].folder # d
  <2>1. \A g \in Feeds : /\ [feedFeeds[g] EXCEPT !.folder = Nobody] \in F!Feed
                         /\ [feedFeeds[g] EXCEPT !.folder = Nobody].folder = Nobody
    BY <1>2 DEF F!Feed
  <2> QED BY <1>1, <1>2, <2>1
<1>5. \A g \in Feeds : /\ feedFeeds'[g].there = feedFeeds[g].there /\ feedFeeds'[g].url = feedFeeds[g].url
                       /\ feedFeeds'[g].mutes = feedFeeds[g].mutes
                            /\ feedFeeds'[g].cursor = feedFeeds[g].cursor
                       /\ feedFeeds'[g].items = feedFeeds[g].items
                       /\ feedFeeds'[g].folder \in {feedFeeds[g].folder, Nobody}
  BY <1>2, <1>4 DEF F!Feed
<1>6. FeedLocal(w, F!Rest) /\ feedMuted' \in [Feeds -> SUBSET Phrases]
    /\ feedFolders' \subseteq feedFolders
  BY <1>1, FeedRestType DEF FeedLocal, FeedMuting, FeedFetching, FeedIInv, F!TypeOK
<1>7. \A f \in F!Unborn : feedFeeds'[f] = feedFeeds[f]
  BY <1>1, <1>2, FeedRestType DEF FeedIInv, FeedLocalsInv, F!Unborn
<1>8. /\ FeedGoes(w, F!Rest) /\ F!Live' = F!Live /\ F!Unborn' = F!Unborn
      /\ F!TypeOK' /\ FeedPairsInv' /\ FeedLocalsInv' /\ FeedDistinctInv' /\ FeedCapInv'
  BY <1>1, <1>4, <1>5, <1>6, <1>7, FeedRestType, FeedFieldStep
<1>9. \A v \in F!Workers : feedWorker'[v] = feedWorker[v] \/ feedWorker'[v].pc = "idle"
  BY <1>8, FeedRestType DEF FeedGoes
<1>10. FeedFolderInv'
  <2>1. F!NoDanglingFolder'
    BY <1>1, <1>4, <1>5, <1>8 DEF FeedIInv, FeedFolderInv, F!NoDanglingFolder, FeedGoes, FeedGrows
  <2>2. ASSUME NEW v \in F!Workers, feedWorker'[v].pc \in FeedFiling
        PROVE  feedWorker'[v].folder \in feedFolders' \cup feedTorn' \cup {Nobody}
    BY <1>1, <1>3, <1>8, <1>9, <2>2 DEF FeedIInv, FeedFolderInv, FeedFiling, FeedGoes, FeedGrows
  <2> QED BY <2>1, <2>2 DEF FeedFolderInv
<1>11. FeedMuteInv'
  BY <1>1, <1>5, <1>8, <1>9, FeedMuteKept DEF FeedGoes, FeedMuting
<1>12. FeedCursorInv'
  BY <1>5, <1>8, <1>9, FeedCursorKept DEF FeedGoes, FeedFetching, F!Live
<1> QED BY <1>8, <1>10, <1>11, <1>12 DEF FeedIInv

LEMMA FeedMutesStep ==
  ASSUME F!Bounds, FeedIInv, NEW w \in F!Workers, F!WriteMutes(w)
  PROVE  FeedIInv'
<1> DEFINE f == feedWorker[w].feed
           p == feedWorker[w].phrase
           ms == feedWorker[w].mutes
           new == IF feedWorker[w].pc = "mute" THEN ms \cup {p} ELSE ms \ {p}
<1>1. /\ feedWorker[w].pc \in FeedMuting /\ F!Becomes(w, F!Rest) /\ UNCHANGED <<feedPresses, feedFolders, F!cap>>
      /\ feedFeeds' = [feedFeeds EXCEPT ![f].mutes = IF new # ms THEN new ELSE @]
      /\ feedMuted' = [feedMuted EXCEPT ![f] = IF feedWorker[w].pc = "mute" THEN @ \cup {p}
           ELSE @ \ {p}]
  BY DEF F!WriteMutes, F!Finish, FeedMuting
<1>2. /\ f \in Feeds \ F!Unborn /\ feedFeeds[f] \in F!Feed /\ p \in Phrases /\ ms \subseteq Phrases
      /\ feedMuted[f] \subseteq Phrases
  BY <1>1 DEF FeedIInv, F!TypeOK, FeedLocalsInv, FeedLocal, FeedMuting, F!Worker
<1>3. f \in feedClashed \/ (ms = feedFeeds[f].mutes /\ feedMuted[f] \subseteq ms)
  BY <1>1, <1>2 DEF FeedIInv, FeedMuteInv, F!MutesAddUp
<1>4. \A v \in F!Workers \ {w} : feedWorker[v].pc \in FeedMuting /\ feedWorker[v].feed = f
    => f \in feedClashed
  BY <1>1 DEF FeedIInv, FeedPairsInv
<1> DEFINE m == IF new # ms THEN new ELSE feedFeeds[f].mutes
           q == IF feedWorker[w].pc = "mute" THEN feedMuted[f] \cup {p} ELSE feedMuted[f] \ {p}
<1>5. m \subseteq Phrases /\ q \subseteq Phrases /\ (f \in feedClashed \/ q \subseteq m)
  <2>1. new \subseteq Phrases /\ feedFeeds[f].mutes \subseteq Phrases
    BY <1>2 DEF F!Feed
  <2>2. ms = feedFeeds[f].mutes => m = new
    OBVIOUS
  <2>3. feedMuted[f] \subseteq ms => q \subseteq new
    OBVIOUS
  <2> QED BY <1>2, <1>3, <2>1, <2>2, <2>3
<1>6. feedFeeds' = [feedFeeds EXCEPT ![f] = [feedFeeds[f] EXCEPT !.mutes = m]]
    /\ feedMuted' = [feedMuted EXCEPT ![f] = q]
  BY <1>1, <1>2 DEF FeedIInv, F!TypeOK
<1> HIDE DEF f, m, q, new, ms, p
<1>7. /\ feedFeeds' \in [Feeds -> F!Feed] /\ feedFeeds'[f] = [feedFeeds[f] EXCEPT !.mutes = m]
      /\ feedMuted' \in [Feeds -> SUBSET Phrases] /\ feedMuted'[f] = q
      /\ \A g \in Feeds \ {f} : feedFeeds'[g] = feedFeeds[g] /\ feedMuted'[g] = feedMuted[g]
  BY <1>2, <1>5, <1>6 DEF FeedIInv, F!TypeOK, F!Feed
<1>8. /\ feedFeeds'[f].mutes = m
      /\ \A g \in Feeds : /\ feedFeeds'[g].there = feedFeeds[g].there /\ feedFeeds'[g].url = feedFeeds[g].url
                          /\ feedFeeds'[g].cursor = feedFeeds[g].cursor
                          /\ feedFeeds'[g].items = feedFeeds[g].items
                               /\ feedFeeds'[g].folder = feedFeeds[g].folder
  BY <1>2, <1>7 DEF F!Feed
<1>9. FeedLocal(w, F!Rest) /\ F!Unborn \subseteq Feeds /\ feedWorker[w].pc \notin {"add", "import"}
  BY <1>1, FeedRestType DEF FeedLocal, FeedMuting, FeedFetching, F!Unborn
<1>10. /\ FeedGoes(w, F!Rest) /\ F!Live' = F!Live /\ F!Unborn' = F!Unborn
       /\ F!TypeOK' /\ FeedPairsInv' /\ FeedLocalsInv' /\ FeedDistinctInv' /\ FeedCapInv'
  BY <1>1, <1>2, <1>7, <1>8, <1>9, FeedRestType, FeedFieldStep
<1>11. \A v \in F!Workers : (feedWorker'[v] = feedWorker[v] /\ v # w) \/ feedWorker'[v].pc = "idle"
  BY <1>10, FeedRestType DEF FeedGoes
<1>12. FeedFolderInv'
  BY <1>1, <1>8, <1>10, <1>11, FeedFolderKept DEF FeedGoes, FeedFiling
<1>13. FeedMuteInv'
  <2>1. F!MutesAddUp'
    BY <1>5, <1>7, <1>8, <1>10 DEF FeedIInv, FeedMuteInv, F!MutesAddUp, FeedGoes, FeedGrows
  <2>2. \A g \in F!Unborn' : feedMuted'[g] = {}
    BY <1>2, <1>7, <1>9, <1>10 DEF FeedIInv, FeedMuteInv
  <2>3. ASSUME NEW v \in F!Workers, feedWorker'[v].pc \in FeedMuting
        PROVE  feedWorker'[v].feed \in feedClashed'
            \/ feedWorker'[v].mutes = feedFeeds'[feedWorker'[v].feed].mutes
    <3>1. v # w /\ feedWorker'[v] = feedWorker[v]
      BY <1>11, <2>3 DEF FeedMuting
    <3>2. feedWorker[v].feed \in Feeds
      BY <2>3, <3>1 DEF FeedIInv, FeedLocalsInv, FeedLocal
    <3> QED BY <1>4, <1>7, <1>10, <2>3, <3>1, <3>2 DEF FeedIInv, FeedMuteInv, FeedGoes, FeedGrows
  <2> QED BY <2>1, <2>2, <2>3 DEF FeedMuteInv
<1>14. FeedCursorInv'
  BY <1>8, <1>10, <1>11, FeedCursorKept DEF FeedGoes, FeedFetching, F!Live
<1> QED BY <1>10, <1>12, <1>13, <1>14 DEF FeedIInv

LEMMA FeedCheckStep ==
  ASSUME F!Bounds, FeedIInv, NEW w \in F!Workers, F!StoreItems(w) \/ F!WriteCursor(w)
  PROVE  FeedIInv'
<1> DEFINE f == feedWorker[w].feed
<1>1. /\ feedWorker[w].pc \in FeedFetching /\ UNCHANGED <<feedPresses, feedFolders, F!cap, feedMuted>>
      /\ feedWorker[w] \in F!Worker /\ w \in Checks /\ f \in Feeds \ F!Unborn
           /\ f \in F!Live \cup feedMoved
      /\ feedFeeds[f] \in F!Feed
      /\ f \in F!Live \ feedMoved => feedWorker[w].was = feedFeeds[f].url
  BY DEF F!StoreItems, F!WriteCursor, F!Finish, FeedFetching, FeedIInv, F!TypeOK, FeedLocalsInv,
     FeedLocal, FeedCursorInv
<1>2. PICK j \in F!Worker :
        /\ F!Becomes(w, j)
        /\ j.pc = "idle" \/ (j.pc = "close" /\ j.feed = f /\ j.was = feedWorker[w].was)
  <2>1. CASE F!StoreItems(w)
    <3>1. [feedWorker[w] EXCEPT !.pc = "close"] \in F!Worker
      BY <1>1 DEF F!Worker
    <3> QED BY <1>1, <2>1, <3>1 DEF F!StoreItems, F!Worker
  <2>2. CASE F!WriteCursor(w)
    BY <2>2, FeedRestType DEF F!WriteCursor, F!Finish
  <2> QED BY <2>1, <2>2
<1>3. \/ feedFeeds' = [feedFeeds EXCEPT ![f].items = TRUE]
      \/ feedFeeds' = [feedFeeds EXCEPT ![f].cursor = feedWorker[w].was]
  BY DEF F!StoreItems, F!WriteCursor
<1>4. /\ FeedLocal(w, j)
      /\ feedWorker[w].pc \notin {"add", "import"} /\ j.pc \in {"idle", "close"}
      /\ feedMuted' \in [Feeds -> SUBSET Phrases] /\ F!Unborn \subseteq Feeds
  BY <1>1, <1>2 DEF FeedLocal, FeedFetching, FeedMuting, FeedIInv, F!TypeOK, F!Unborn
<1> HIDE DEF f
<1>5. /\ feedFeeds' \in [Feeds -> F!Feed]
      /\ \A g \in Feeds \ {f} : feedFeeds'[g] = feedFeeds[g]
      /\ feedFeeds'[f].there = feedFeeds[f].there /\ feedFeeds'[f].url = feedFeeds[f].url
      /\ feedFeeds'[f].mutes = feedFeeds[f].mutes /\ feedFeeds'[f].folder = feedFeeds[f].folder
      /\ \/ feedFeeds'[f].cursor = feedFeeds[f].cursor
         \/ feedFeeds'[f].cursor = feedWorker[w].was /\ feedFeeds'[f].items = feedFeeds[f].items
  <2>1. CASE feedFeeds' = [feedFeeds EXCEPT ![f].items = TRUE]
    BY <1>1, <2>1 DEF FeedIInv, F!TypeOK, F!Feed
  <2>2. CASE feedFeeds' = [feedFeeds EXCEPT ![f].cursor = feedWorker[w].was]
    <3>1. feedWorker[w].was \in Urls \cup {Nobody}
      BY <1>1 DEF F!Worker
    <3> QED BY <1>1, <2>2, <3>1 DEF FeedIInv, F!TypeOK, F!Feed
  <2> QED BY <1>3, <2>1, <2>2
<1>6. /\ FeedGoes(w, j) /\ F!Live' = F!Live /\ F!Unborn' = F!Unborn
      /\ F!TypeOK' /\ FeedPairsInv' /\ FeedLocalsInv' /\ FeedDistinctInv' /\ FeedCapInv'
  BY <1>1, <1>2, <1>4, <1>5, FeedFieldStep
<1>7. \A v \in F!Workers : feedWorker'[v] = feedWorker[v] \/ feedWorker'[v].pc \in {"idle", "close"}
  BY <1>2, <1>6 DEF FeedGoes
<1>8. FeedFolderInv'
  BY <1>1, <1>5, <1>6, <1>7, FeedFolderKept DEF FeedGoes, FeedFiling
<1>9. FeedMuteInv'
  BY <1>1, <1>5, <1>6, <1>7, FeedMuteKept DEF FeedGoes, FeedMuting
<1>10. FeedCursorInv'
  <2>1. F!CursorFitsUrl'
    <3>1. f \in feedMoved \/ f \notin F!Live \/ feedFeeds'[f].cursor \in {Nobody, feedFeeds[f].url}
      BY <1>1, <1>5 DEF FeedIInv, FeedCursorInv, F!CursorFitsUrl
    <3> QED BY <1>5, <1>6, <3>1 DEF FeedIInv, FeedCursorInv, F!CursorFitsUrl, FeedGoes, FeedGrows,
         F!Live
  <2>2. F!DeletedFeedsKeepNothing'
    <3>1. feedFeeds'[f].there = "deleted" => f \in feedMoved
      BY <1>1, <1>5 DEF F!Live
    <3> QED BY <1>5, <1>6, <3>1 DEF FeedIInv, FeedCursorInv, F!DeletedFeedsKeepNothing, FeedGoes,
         FeedGrows
  <2>3. ASSUME NEW v \in F!Workers, feedWorker'[v].pc \in FeedFetching \cup {"edit"}
        PROVE  /\ feedWorker'[v].feed \in F!Live' \ feedMoved' => feedWorker'[v].was = feedFeeds'[feedWorker'[v].feed].url
               /\ feedWorker'[v].pc \in FeedFetching
                    => feedWorker'[v].feed \in F!Live' \cup feedMoved'
    <3>1. /\ feedWorker[v].pc \in FeedFetching \cup {"edit"} /\ feedWorker'[v].feed = feedWorker[v].feed
          /\ feedWorker'[v].was = feedWorker[v].was
          /\ feedWorker'[v].pc \in FeedFetching => feedWorker[v].pc \in FeedFetching
      BY <1>1, <1>2, <1>6, <2>3 DEF FeedGoes, FeedFetching, f
    <3>2. \A g \in F!Live : feedFeeds'[g].url = feedFeeds[g].url
      BY <1>5 DEF F!Live
    <3> QED BY <1>6, <3>1, <3>2 DEF FeedIInv, FeedCursorInv, FeedGoes, FeedGrows
  <2> QED BY <2>1, <2>2, <2>3 DEF FeedCursorInv
<1> QED BY <1>6, <1>8, <1>9, <1>10 DEF FeedIInv

LEMMA FeedDeleteStep ==
  ASSUME F!Bounds, FeedIInv, NEW f \in Feeds, F!DeleteFeed(f)
  PROVE  FeedIInv'
<1>1. /\ f \in F!Live /\ feedPresses < FeedPresses /\ feedPresses' = feedPresses + 1
      /\ feedFeeds' = [feedFeeds EXCEPT ![f]
           = [@ EXCEPT !.there = "deleted", !.url = Nobody, !.items = FALSE]]
      /\ feedMoved' = IF \E w \in Checks :
           feedWorker[w].feed = f THEN feedMoved \cup {f} ELSE feedMoved
      /\ feedFolders' = feedFolders /\ feedWorker' = feedWorker /\ feedTorn' = feedTorn
           /\ feedMuted' = feedMuted
      /\ feedClashed' = feedClashed /\ feedOvertaken' = feedOvertaken /\ feedCrossed' = feedCrossed
  BY DEF F!DeleteFeed, F!cap
<1>2. feedFeeds \in [Feeds -> F!Feed] /\ F!Live \subseteq Feeds /\ F!Unborn \subseteq Feeds
  BY DEF FeedIInv, F!TypeOK, F!Live, F!Unborn
<1>3. /\ feedFeeds' \in [Feeds -> F!Feed]
      /\ \A g \in Feeds \ {f} : feedFeeds'[g] = feedFeeds[g]
      /\ feedFeeds'[f].there = "deleted" /\ ~ feedFeeds'[f].items
      /\ feedFeeds'[f].mutes = feedFeeds[f].mutes /\ feedFeeds'[f].folder = feedFeeds[f].folder
  <2>1. [feedFeeds[f] EXCEPT !.there = "deleted", !.url = Nobody, !.items = FALSE] \in F!Feed
    BY <1>2 DEF F!Feed
  <2> QED BY <1>1, <1>2, <2>1 DEF F!Feed
<1>4. F!Live' = F!Live \ {f} /\ F!Unborn' = F!Unborn
  BY <1>1, <1>3 DEF F!Live, F!Unborn
<1>5. FeedGrows
  BY <1>1 DEF FeedGrows, FeedIInv, F!TypeOK
<1>6. F!TypeOK'
  <2>1. feedPresses' \in 0..FeedPresses
    BY <1>1 DEF FeedIInv, F!TypeOK, F!Bounds
  <2> QED BY <1>1, <1>3, <1>5, <2>1 DEF FeedIInv, F!TypeOK, FeedGrows
<1>7. FeedLocalsInv'
  <2>1. \A w \in F!Workers : FeedLocal(w, feedWorker[w])'
    BY <1>1, <1>4 DEF FeedIInv, FeedLocalsInv, FeedLocal
  <2>2. \A g \in F!Unborn' : feedFeeds'[g] = F!NoFeed
    BY <1>1, <1>2, <1>3, <1>4 DEF FeedIInv, FeedLocalsInv, F!Live, F!Unborn
  <2> QED BY <2>1, <2>2 DEF FeedLocalsInv
<1>8. FeedPairsInv'
  BY <1>1, <1>5 DEF FeedIInv, FeedPairsInv, FeedGrows
<1>9. FeedDistinctInv'
  BY <1>2, <1>3, <1>4 DEF FeedIInv, FeedDistinctInv
<1>10. FeedCapInv'
  <2>1. F!Taken' \subseteq F!Taken
    BY <1>2, <1>3, <1>4 DEF F!Taken
  <2>2. F!Past' = F!Past
    BY <1>1 DEF F!Past
  <2> QED BY <1>1, <2>1, <2>2, FeedCapKept DEF FeedIInv, FeedCapInv
<1>11. FeedFolderInv'
  BY <1>1, <1>3, <1>5, FeedFolderKept
<1>12. FeedMuteInv'
  BY <1>1, <1>3, <1>4, <1>5, FeedMuteKept
<1>13. FeedCursorInv'
  <2>1. F!CursorFitsUrl' /\ F!DeletedFeedsKeepNothing'
    BY <1>2, <1>3, <1>4, <1>5 DEF FeedIInv, FeedCursorInv, F!CursorFitsUrl,
       F!DeletedFeedsKeepNothing, FeedGrows
  <2>2. ASSUME NEW w \in F!Workers, feedWorker[w].pc \in FeedFetching
        PROVE  feedWorker[w].feed \in F!Live' \cup feedMoved'
    BY <1>1, <1>4, <1>5, <2>2 DEF FeedIInv, FeedCursorInv, FeedLocalsInv, FeedLocal, FeedGrows
  <2>3. ASSUME NEW w \in F!Workers, feedWorker[w].pc \in FeedFetching \cup {"edit"},
               feedWorker[w].feed \in F!Live' \ feedMoved'
        PROVE  feedWorker[w].was = feedFeeds'[feedWorker[w].feed].url
    BY <1>2, <1>3, <1>4, <1>5, <2>3 DEF FeedIInv, FeedCursorInv, FeedGrows
  <2> QED BY <1>1, <2>1, <2>2, <2>3 DEF FeedCursorInv
<1> QED BY <1>6, <1>7, <1>8, <1>9, <1>10, <1>11, <1>12, <1>13 DEF FeedIInv

LEMMA FeedEditStep ==
  ASSUME F!Bounds, FeedIInv, NEW w \in F!Workers, F!WriteEdit(w)
  PROVE  FeedIInv'
<1> DEFINE f == feedWorker[w].feed
           u == feedWorker[w].url
           was == feedWorker[w].was
           d == feedWorker[w].folder
           ms == feedWorker[w].mutes
<1>1. /\ feedWorker[w].pc = "edit" /\ F!Overtakes(w) /\ F!Becomes(w, F!Rest) /\ feedPresses' = feedPresses
      /\ feedFolders' = feedFolders
  BY DEF F!WriteEdit, F!Finish
<1>2. /\ feedWorker[w] \in F!Worker /\ f \in Feeds \ F!Unborn /\ u \in Urls /\ ms \subseteq Phrases
      /\ d \in Folders \cup {Nobody} /\ d \in feedFolders \cup feedTorn \cup {Nobody}
      /\ f \in F!Live \ feedMoved => was = feedFeeds[f].url
      /\ feedFeeds[f] \in F!Feed /\ feedPresses \in 0..FeedPresses
  BY <1>1 DEF FeedIInv, F!TypeOK, FeedLocalsInv, FeedLocal, FeedFolderInv, FeedCursorInv,
     FeedFiling, F!Worker
<1>3. w \notin F!Past /\ w \notin feedOvertaken
  BY <1>1 DEF F!Past, FeedIInv, FeedCapInv
<1>4. FeedLocal(w, F!Rest)
  BY FeedRestType DEF FeedLocal, FeedMuting, FeedFetching
<1>5. CASE UNCHANGED <<feedFeeds, feedMuted>>
  <2>1. F!Taken' = F!Taken
    BY <1>5 DEF F!Taken, F!Live
  <2>2. UNCHANGED F!cap
    BY <1>1, <1>3, <2>1 DEF F!Overtakes, F!cap
  <2>3. FeedSound(w, F!Rest)
    BY <1>4, FeedRestType DEF FeedSound, FeedMuting, FeedFetching, FeedFiling
  <2> QED BY <1>1, <1>2, <1>3, <1>5, <2>2, <2>3, FeedRestType, FeedWorkerStep
<1>6. CASE ~ UNCHANGED <<feedFeeds, feedMuted>>
  <2> DEFINE c == IF was # u THEN Nobody ELSE feedFeeds[f].cursor
  <2>1. /\ f \in F!Live /\ F!At(u) \subseteq {f} /\ feedMuted' = [feedMuted EXCEPT ![f] = ms]
        /\ feedFeeds' = [feedFeeds EXCEPT ![f] =
             [feedFeeds[f] EXCEPT !.url = u, !.folder = d, !.mutes = ms, !.cursor = c]]
    <3> DEFINE new == [feedFeeds[f] EXCEPT !.url = u, !.folder = d, !.mutes = ms]
    <3>1. /\ f \in F!Live /\ F!At(u) \subseteq {f} /\ feedMuted' = [feedMuted EXCEPT ![f] = ms]
          /\ feedFeeds' = [feedFeeds EXCEPT ![f] =
                             IF was # u THEN [new EXCEPT !.cursor = Nobody] ELSE new]
      BY <1>6 DEF F!WriteEdit
    <3>2. (IF was # u THEN [new EXCEPT !.cursor = Nobody] ELSE new)
          = [feedFeeds[f] EXCEPT !.url = u, !.folder = d, !.mutes = ms, !.cursor = c]
      BY <1>2 DEF F!Feed
    <3> QED BY <3>1, <3>2
  <2>2. feedFeeds[f].cursor \in Urls \cup {Nobody} /\ c \in {Nobody, feedFeeds[f].cursor}
    BY <1>2 DEF F!Feed
  <2>3. c = Nobody \/ u = was
    OBVIOUS
  <2>4. \A v \in F!Workers \ {w} :
          /\ feedWorker[v].pc \in FeedMuting /\ feedWorker[v].feed = f => f \in feedClashed
          /\ feedWorker[v].pc \in FeedFetching \cup {"edit"} /\ feedWorker[v].feed = f
               => f \in feedMoved
    BY <1>1 DEF FeedIInv, FeedPairsInv
  <2> HIDE DEF c, f, u, was, d, ms
  <2>5. /\ feedFeeds' \in [Feeds -> F!Feed] /\ feedMuted' \in [Feeds -> SUBSET Phrases] /\ feedMuted'[f] = ms
        /\ feedFeeds'[f].there = feedFeeds[f].there /\ feedFeeds'[f].url = u
             /\ feedFeeds'[f].folder = d
        /\ feedFeeds'[f].mutes = ms /\ feedFeeds'[f].cursor = c
             /\ feedFeeds'[f].items = feedFeeds[f].items
        /\ \A g \in Feeds \ {f} : feedFeeds'[g] = feedFeeds[g] /\ feedMuted'[g] = feedMuted[g]
    <3>1. [feedFeeds[f] EXCEPT !.url = u, !.folder = d, !.mutes = ms, !.cursor = c] \in F!Feed
      BY <1>2, <2>2 DEF F!Feed
    <3> QED BY <1>2, <2>1, <3>1 DEF FeedIInv, F!TypeOK, F!Feed
  <2>6. F!Live' = F!Live /\ F!Unborn' = F!Unborn /\ F!Live \subseteq Feeds /\ F!Unborn \subseteq Feeds
    <3>1. \A g \in Feeds : feedFeeds'[g].there = feedFeeds[g].there
      BY <2>5
    <3> QED BY <3>1 DEF F!Live, F!Unborn
  <2>7. FeedGoes(w, F!Rest) /\ FeedPairsInv' /\ FeedLocalsInv'
    <3>1. \A g \in F!Unborn' : feedFeeds'[g] = F!NoFeed
      BY <1>2, <2>5, <2>6 DEF FeedIInv, FeedLocalsInv
    <3> QED BY <1>1, <1>4, <2>6, <3>1, FeedRestType, FeedMoves DEF FeedIInv
  <2>8. F!TypeOK'
    <3>1. feedOvertaken' \subseteq Requests /\ feedCrossed' \in Nat
      BY <1>1 DEF F!Overtakes, FeedIInv, F!TypeOK, F!Past
    <3> QED BY <1>1, <1>2, <2>5, <2>7, <3>1 DEF FeedIInv, F!TypeOK, FeedGoes, FeedGrows
  <2>9. \A g \in F!Live \ {f} : feedFeeds[g].url # u
    BY <2>1, <2>6 DEF F!At
  <2>10. FeedDistinctInv'
    BY <1>2, <2>5, <2>6, <2>9 DEF FeedIInv, FeedDistinctInv
  <2>11. FeedCapInv'
    <3>1. F!Past' = F!Past /\ \A v \in F!Past : feedWorker'[v] = feedWorker[v]
      BY <1>3, <2>7, FeedRestType DEF F!Past, FeedGoes, F!Workers
    <3>2. F!Taken' \subseteq (F!Taken \ {feedFeeds[f].url}) \cup {u} /\ feedFeeds[f].url \in F!Taken
      <4>1. \A g \in F!Live \ {f} : feedFeeds[g].url # feedFeeds[f].url
          /\ feedFeeds'[g].url = feedFeeds[g].url
        BY <2>1, <2>5, <2>6 DEF FeedIInv, FeedDistinctInv
      <4> QED BY <2>1, <2>5, <2>6, <4>1 DEF F!Taken
    <3>3. feedCrossed' = feedCrossed
      BY <1>1, <1>3 DEF F!Overtakes
    <3>4. CASE F!Taken' \subseteq F!Taken
      <4>1. feedOvertaken' = feedOvertaken
        BY <1>1, <1>3, <3>4 DEF F!Overtakes
      <4> QED BY <3>1, <3>3, <3>4, <4>1, FeedCapKept DEF FeedIInv, FeedCapInv
    <3>5. CASE ~ (F!Taken' \subseteq F!Taken)
      <4>1. feedOvertaken' = F!Past'
        BY <1>1, <1>3, <3>1, <3>5 DEF F!Overtakes, FeedIInv, FeedCapInv
      <4> DEFINE S == F!Taken \ {feedFeeds[f].url}
                 m == FeedCap + feedCrossed
                 n == m - 1
      <4>2. /\ IsFiniteSet(F!Taken) /\ Cardinality(F!Taken) \in Nat
            /\ m \in Int /\ n \in Int /\ n + 1 = m /\ Cardinality(F!Taken) <= m
        BY FeedTakenCount DEF FeedIInv, FeedCapInv, F!TypeOK, F!Bounds
      <4>3. IsFiniteSet(S) /\ Cardinality(S) = Cardinality(F!Taken) - 1
        BY <3>2, <4>2, FS_RemoveElement
      <4>4. Cardinality(S) <= n
        BY <4>2, <4>3
      <4>5. IsFiniteSet(S \cup {u})
        BY <4>3, FS_AddElement
      <4>6. F!Taken' \subseteq S \cup {u} /\ FeedCap + feedCrossed' = m
        BY <3>2, <3>3
      <4> HIDE DEF S, m, n
      <4>7. Cardinality(S \cup {u}) <= n + 1
        BY <4>2, <4>3, <4>4, FeedOneMore
      <4>8. Cardinality(F!Taken') <= m
        BY <4>2, <4>5, <4>6, <4>7, FeedFewerFit
      <4> QED BY <4>1, <4>6, <4>8 DEF FeedCapInv
    <3> QED BY <3>4, <3>5
  <2>12. \A v \in F!Workers : (feedWorker'[v] = feedWorker[v] /\ v # w)
      \/ feedWorker'[v].pc = "idle"
    BY <2>7, FeedRestType DEF FeedGoes
  <2>13. FeedFolderInv'
    <3>1. \A g \in Feeds : feedFeeds'[g].folder \in {feedFeeds[g].folder, Nobody} \cup feedFolders
        \cup feedTorn'
      BY <1>2, <2>5, <2>7 DEF FeedGoes, FeedGrows
    <3> QED BY <1>1, <2>7, <2>12, <3>1, FeedFolderKept DEF FeedGoes, FeedFiling
  <2>14. FeedMuteInv'
    <3>1. F!MutesAddUp'
      BY <2>5, <2>7 DEF FeedIInv, FeedMuteInv, F!MutesAddUp, FeedGoes, FeedGrows
    <3>2. \A g \in F!Unborn' : feedMuted'[g] = {}
      BY <1>2, <2>5, <2>6 DEF FeedIInv, FeedMuteInv
    <3>3. ASSUME NEW v \in F!Workers, feedWorker'[v].pc \in FeedMuting
          PROVE  feedWorker'[v].feed \in feedClashed'
              \/ feedWorker'[v].mutes = feedFeeds'[feedWorker'[v].feed].mutes
      <4>1. v # w /\ feedWorker'[v] = feedWorker[v]
        BY <2>12, <3>3 DEF FeedMuting
      <4>2. feedWorker[v].feed \in Feeds
        BY <3>3, <4>1 DEF FeedIInv, FeedLocalsInv, FeedLocal
      <4> QED BY <2>4, <2>5, <2>7, <3>3, <4>1, <4>2 DEF FeedIInv, FeedMuteInv, FeedGoes, FeedGrows
    <3> QED BY <3>1, <3>2, <3>3 DEF FeedMuteInv
  <2>15. FeedCursorInv'
    <3>1. f \in feedMoved \/ feedFeeds'[f].cursor \in {Nobody, u}
      BY <1>2, <2>1, <2>2, <2>3, <2>5 DEF FeedIInv, FeedCursorInv, F!CursorFitsUrl
    <3>2. F!CursorFitsUrl'
      BY <2>5, <2>6, <2>7, <3>1 DEF FeedIInv, FeedCursorInv, F!CursorFitsUrl, FeedGoes, FeedGrows
    <3>3. F!DeletedFeedsKeepNothing'
      BY <2>5, <2>7 DEF FeedIInv, FeedCursorInv, F!DeletedFeedsKeepNothing, FeedGoes, FeedGrows
    <3>4. ASSUME NEW v \in F!Workers, feedWorker'[v].pc \in FeedFetching \cup {"edit"}
          PROVE  /\ feedWorker'[v].feed \in F!Live' \ feedMoved' => feedWorker'[v].was = feedFeeds'[feedWorker'[v].feed].url
                 /\ feedWorker'[v].pc \in FeedFetching
                      => feedWorker'[v].feed \in F!Live' \cup feedMoved'
      <4>1. v # w /\ feedWorker'[v] = feedWorker[v]
        BY <2>12, <3>4 DEF FeedFetching
      <4> QED BY <2>4, <2>5, <2>6, <2>7, <3>4, <4>1 DEF FeedIInv, FeedCursorInv, FeedGoes, FeedGrows
    <3> QED BY <3>2, <3>3, <3>4 DEF FeedCursorInv
  <2> QED BY <2>7, <2>8, <2>10, <2>11, <2>13, <2>14, <2>15 DEF FeedIInv
<1> QED BY <1>5, <1>6

LEMMA FeedInvStep == F!Bounds /\ FeedIInv /\ [F!Next]_F!vars => FeedIInv'
<1> SUFFICES ASSUME F!Bounds, FeedIInv, [F!Next]_F!vars PROVE FeedIInv'
  OBVIOUS
<1>1. CASE UNCHANGED F!vars
  <2>1. UNCHANGED <<F!Live, F!Taken, F!Unborn, F!Past>>
    BY <1>1 DEF F!vars, F!Live, F!Taken, F!Unborn, F!Past
  <2> QED BY <1>1, <2>1
        DEF F!vars, FeedIInv, F!TypeOK, FeedLocalsInv, FeedLocal, FeedPairsInv, FeedDistinctInv,
           FeedCapInv, FeedFolderInv,
            F!NoDanglingFolder, FeedMuteInv, F!MutesAddUp, FeedCursorInv, F!CursorFitsUrl,
               F!DeletedFeedsKeepNothing
<1>2. ASSUME NEW w \in F!Workers, F!Adding(w) PROVE FeedIInv'
  BY <1>2, FeedBeginStep, FeedStoreStep, FeedOutlineStep DEF F!Adding
<1>3. ASSUME NEW w \in F!Workers, F!Changing(w) PROVE FeedIInv'
  BY <1>3, FeedBeginStep, FeedEditStep, FeedFolderStep, FeedDropStep, FeedMutesStep DEF F!Changing
<1>4. ASSUME NEW w \in F!Workers, F!Checking(w) PROVE FeedIInv'
  BY <1>4, FeedBeginStep, FeedCheckStep DEF F!Checking
<1> QED BY <1>1, <1>2, <1>3, <1>4, FeedDeleteStep DEF F!Next

LEMMA FeedInvImplies ==
  F!Bounds /\ FeedIInv => /\ F!TypeOK /\ F!FeedCapIsNearlyKept /\ F!NoDanglingFolder /\ F!MutesAddUp
                          /\ F!CursorFitsUrl /\ F!DeletedFeedsKeepNothing
<1> SUFFICES ASSUME F!Bounds, FeedIInv PROVE F!FeedCapIsNearlyKept
  BY DEF FeedIInv, FeedFolderInv, FeedMuteInv, FeedCursorInv
<1> QED BY FeedSets, FeedTakenCount DEF FeedIInv, FeedCapInv, F!FeedCapIsNearlyKept

-----------------------------------------------------------------------------
(* The order of the list.                                                  *)

ItemBefore(rs, i, j) == R!BeforeBy(R!DateOf(rs, i), i, R!DateOf(rs, j), j)

ItemRank(rs, S, i) == Cardinality({j \in S : ItemBefore(rs, j, i)})

\* Rows of which some are in the list.
ItemListed(rs, S) ==
  /\ IsFiniteSet(S) /\ S \subseteq Nat
  /\ \A i \in S : R!DateOf(rs, i) \in Nat

\* The operators of FiniteSets, as R! knows them.
LEMMA ItemSets ==
  \A S : (R!IsFiniteSet(S) <=> IsFiniteSet(S)) /\ R!Cardinality(S) = Cardinality(S)
<1>1. \A S : R!IsFiniteSet(S) <=> IsFiniteSet(S)
  BY DEF R!IsFiniteSet, IsFiniteSet
<1>2. \A S : R!Cardinality(S) = Cardinality(S)
  BY <1>1, Zenon DEF R!Cardinality, Cardinality
<1> QED BY <1>1, <1>2

LEMMA ItemStrictOrder ==
  \A d, e, f, i, j, k \in Nat :
    /\ ~ (R!BeforeBy(d, i, e, j) /\ R!BeforeBy(e, j, d, i))
    /\ ~ R!BeforeBy(d, i, d, i)
    /\ (R!BeforeBy(d, i, e, j) /\ R!BeforeBy(e, j, f, k) => R!BeforeBy(d, i, f, k))
    /\ (i # j => R!BeforeBy(d, i, e, j) \/ R!BeforeBy(e, j, d, i))
BY DEF R!BeforeBy

LEMMA ItemRankOrder ==
  ASSUME NEW rs, NEW S, ItemListed(rs, S), NEW i \in S
  PROVE  /\ ItemRank(rs, S, i) \in Nat
         /\ Cardinality(S) \in Nat /\ ItemRank(rs, S, i) <= Cardinality(S) - 1
         /\ \A j \in S : ItemBefore(rs, i, j) => ItemRank(rs, S, i) + 1 <= ItemRank(rs, S, j)
<1> DEFINE B(x) == {j \in S : ItemBefore(rs, j, x)}
<1>1. IsFiniteSet(S) /\ \A x \in S : x \in Nat /\ R!DateOf(rs, x) \in Nat
  BY DEF ItemListed
<1>2. \A x : IsFiniteSet(B(x)) /\ Cardinality(B(x)) \in Nat
  <2> SUFFICES ASSUME NEW x PROVE IsFiniteSet(B(x)) /\ Cardinality(B(x)) \in Nat
    OBVIOUS
  <2>1. B(x) \subseteq S
    OBVIOUS
  <2> QED BY <1>1, <2>1, FS_Subset, FS_CardinalityType
<1>3. Cardinality(S) \in Nat /\ IsFiniteSet(S \ {i}) /\ Cardinality(S \ {i}) = Cardinality(S) - 1
  BY <1>1, FS_RemoveElement, FS_CardinalityType
<1>4. B(i) \subseteq S \ {i}
  BY <1>1, ItemStrictOrder DEF ItemBefore
<1>5. Cardinality(B(i)) <= Cardinality(S) - 1
  BY <1>3, <1>4, FS_Subset
<1>6. ASSUME NEW j \in S, ItemBefore(rs, i, j)
      PROVE  Cardinality(B(i)) + 1 <= Cardinality(B(j))
  <2>1. i \notin B(i)
    BY <1>4
  <2>2. IsFiniteSet(B(i) \cup {i}) /\ Cardinality(B(i) \cup {i}) = Cardinality(B(i)) + 1
    BY <1>2, <2>1, FS_AddElement
  <2>3. B(i) \cup {i} \subseteq B(j)
    BY <1>1, <1>6, ItemStrictOrder DEF ItemBefore
  <2> QED BY <1>2, <2>2, <2>3, FS_Subset
<1> QED BY <1>2, <1>3, <1>5, <1>6 DEF ItemRank

LEMMA ItemNewestRank ==
  ASSUME NEW rs, NEW S, NEW n
  PROVE  R!Newest(rs, S, n) = {i \in S : ItemRank(rs, S, i) < n}
BY ItemSets DEF R!Newest, ItemRank, ItemBefore

\* The newest come first.
LEMMA ItemNewestFirst ==
  ASSUME NEW rs, NEW S, ItemListed(rs, S), NEW n \in Nat,
         NEW i \in R!Newest(rs, S, n), NEW j \in S \ R!Newest(rs, S, n)
  PROVE  ItemBefore(rs, i, j)
<1>1. i \in S /\ j \in S /\ i # j /\ ItemRank(rs, S, i) < n /\ ~ (ItemRank(rs, S, j) < n)
  BY ItemNewestRank
<1>2. ItemRank(rs, S, i) \in Nat /\ ItemRank(rs, S, j) \in Nat
  BY <1>1, ItemRankOrder
<1>3. ~ ItemBefore(rs, j, i)
  BY <1>1, <1>2, ItemRankOrder
<1> QED BY <1>1, <1>3, ItemStrictOrder DEF ItemBefore, ItemListed

LEMMA ItemLeastNat ==
  ASSUME NEW T \in SUBSET Nat, T # {}
  PROVE  \E x \in T : \A y \in T : x <= y
<1>1. PICK x \in T : \A y \in T : ~ (<<y, x>> \in OpToRel(<, Nat))
  BY NatLessThanWellFounded, WFMin
<1>2. OpToRel(<, Nat) = {ss \in Nat \X Nat : ss[1] < ss[2]}
  BY DEF OpToRel
<1>3. \A y \in T : ~ (y < x)
  BY <1>1, <1>2
<1> QED BY <1>3

\* If not all are among the newest n, the newest are n.
LEMMA ItemNewestCount ==
  ASSUME NEW rs, NEW S, ItemListed(rs, S), NEW n \in Nat, S \ R!Newest(rs, S, n) # {}
  PROVE  /\ IsFiniteSet(R!Newest(rs, S, n)) /\ Cardinality(R!Newest(rs, S, n)) \in Nat
         /\ Cardinality(R!Newest(rs, S, n)) >= n
<1> DEFINE N == R!Newest(rs, S, n)
           T == {ItemRank(rs, S, i) : i \in S \ N}
<1>1. N \subseteq S /\ \A i \in S : i \in N <=> ItemRank(rs, S, i) < n
  BY ItemNewestRank
<1>2. IsFiniteSet(N) /\ Cardinality(N) \in Nat
  BY <1>1, FS_Subset, FS_CardinalityType DEF ItemListed
<1>3. T \in SUBSET Nat /\ T # {}
  BY ItemRankOrder
<1>4. PICK r \in T : \A s \in T : r <= s
  BY <1>3, ItemLeastNat
<1>5. PICK i \in S \ N : ItemRank(rs, S, i) = r
  BY <1>4
<1>6. {j \in S : ItemBefore(rs, j, i)} \subseteq N
  <2> SUFFICES ASSUME NEW j \in S, ItemBefore(rs, j, i), j \notin N PROVE FALSE
    OBVIOUS
  <2>1. ItemRank(rs, S, j) + 1 <= r /\ r <= ItemRank(rs, S, j)
    BY <1>4, <1>5, ItemRankOrder
  <2>2. ItemRank(rs, S, j) \in Nat /\ r \in Nat
    BY <1>3, ItemRankOrder
  <2> QED BY <2>1, <2>2
<1>7. ItemRank(rs, S, i) <= Cardinality(N) /\ ItemRank(rs, S, i) \in Nat
  BY <1>2, <1>5, <1>6, FS_Subset, ItemRankOrder DEF ItemRank
<1>8. ~ (ItemRank(rs, S, i) < n)
  BY <1>1, <1>5
<1> HIDE DEF N
<1>9. Cardinality(N) >= n
  BY <1>2, <1>7, <1>8
<1> QED BY <1>2, <1>9 DEF N

\* The last row of a page is the one that all the others come before.
LEMMA ItemLastIsLast ==
  ASSUME NEW rs, NEW S, ItemListed(rs, S), S # {}
  PROVE  LET last == CHOOSE i \in S : R!Newest(rs, S, Cardinality(S) - 1) = S \ {i} IN
         last \in S /\ \A i \in S \ {last} : ItemBefore(rs, i, last)
<1> DEFINE c == Cardinality(S)
           T == {c - ItemRank(rs, S, i) : i \in S}
<1>1. IsFiniteSet(S) /\ c \in Nat
  BY FS_CardinalityType DEF ItemListed
<1>2. \A i \in S : ItemRank(rs, S, i) \in Nat /\ ItemRank(rs, S, i) <= c - 1
  BY ItemRankOrder
<1>3. T \in SUBSET Nat /\ T # {}
  BY <1>1, <1>2
<1>4. PICK r \in T : \A s \in T : r <= s
  BY <1>3, ItemLeastNat
<1>5. PICK m \in S : r = c - ItemRank(rs, S, m)
  BY <1>4
<1>6. \A i \in S : ItemRank(rs, S, i) <= ItemRank(rs, S, m)
  <2> SUFFICES ASSUME NEW i \in S PROVE ItemRank(rs, S, i) <= ItemRank(rs, S, m)
    OBVIOUS
  <2>1. c - ItemRank(rs, S, m) <= c - ItemRank(rs, S, i)
    BY <1>4, <1>5
  <2> HIDE DEF c
  <2> QED BY <1>1, <1>2, <2>1
<1>7. \A i \in S \ {m} : ItemBefore(rs, i, m)
  <2> SUFFICES ASSUME NEW i \in S \ {m} PROVE ItemBefore(rs, i, m)
    OBVIOUS
  <2>1. ~ ItemBefore(rs, m, i)
    BY <1>2, <1>6, ItemRankOrder
  <2> QED BY <2>1, ItemStrictOrder DEF ItemBefore, ItemListed
<1>8. ItemRank(rs, S, m) = c - 1
  <2>1. {j \in S : ItemBefore(rs, j, m)} = S \ {m}
    BY <1>7, ItemStrictOrder DEF ItemBefore, ItemListed
  <2>2. Cardinality(S \ {m}) = c - 1
    BY <1>1, FS_RemoveElement
  <2> QED BY <2>1, <2>2 DEF ItemRank
<1>9. \A i \in S \ {m} : ItemRank(rs, S, i) < c - 1
  <2> SUFFICES ASSUME NEW i \in S \ {m} PROVE ItemRank(rs, S, i) < c - 1
    OBVIOUS
  <2>1. ItemRank(rs, S, i) + 1 <= ItemRank(rs, S, m)
    BY <1>7, ItemRankOrder
  <2> HIDE DEF c
  <2> QED BY <1>1, <1>2, <1>8, <2>1
<1>10. R!Newest(rs, S, c - 1) = S \ {m}
  <2> HIDE DEF c
  <2>1. ~ (c - 1 < c - 1)
    BY <1>1
  <2>2. R!Newest(rs, S, c - 1) = {i \in S : ItemRank(rs, S, i) < c - 1}
    BY ItemNewestRank
  <2> QED BY <1>8, <1>9, <2>1, <2>2
<1>11. \A i \in S : R!Newest(rs, S, c - 1) = S \ {i} => i = m
  BY <1>10
<1>12. (CHOOSE i \in S : R!Newest(rs, S, c - 1) = S \ {i}) = m
  BY <1>10, <1>11
<1> HIDE DEF c
<1> QED BY <1>7, <1>12 DEF c

-----------------------------------------------------------------------------
(* The inductive invariant.                                                *)

\* Ids are given in order.
ItemGiven == 1..itemNextId - 1

ItemBornInv ==
  /\ R!There \subseteq ItemGiven /\ itemPage.shown \subseteq ItemGiven
       /\ itemPage.cursor \in {0} \cup ItemGiven
  /\ itemStays \subseteq R!Visible(itemRows, itemPage.view)

\* What has been shown lies before the cursor, and what stays and has not been shown
\* behind it.
ItemPageInv ==
  /\ itemPage.view = "none" => itemPage.shown = {} /\ itemPage.cursor = 0 /\ ~ itemPage.done
  /\ ~ itemPage.twice
  /\ itemPage.done => itemStays \subseteq itemPage.shown
  /\ ~ itemPage.done => /\ itemPage.cursor = 0 => itemPage.shown = {}
                        /\ \A i \in itemPage.shown \cap R!There : ~ R!After(i)
                        /\ \A i \in itemStays \ itemPage.shown : R!After(i)

\* Between the SELECT and the UPDATE, what is unread is on the undo list or became so.
ItemMarkInv ==
  /\ itemLost \subseteq itemMeanwhile
  /\ itemMarking.pc = "update" => itemLost = {}
       /\ R!Unread \ itemMarking.ids \subseteq itemMeanwhile

ItemIInv == R!TypeOK /\ ItemBornInv /\ ItemPageInv /\ ItemMarkInv

\* The rows as functions: TypeOK without the set of functions.
LEMMA ItemRowsType ==
  ASSUME R!Bounds, R!TypeOK
  PROVE  /\ itemRows = [i \in R!There |-> itemRows[i]] /\ R!There \subseteq R!Ids
         /\ \A i \in R!There : /\ itemRows[i] \in R!Row /\ itemRows[i].read \in BOOLEAN /\ itemRows[i].star \in BOOLEAN
                               /\ itemRows[i].item \in Items /\ R!DateOf(itemRows, i) \in Nat
<1>1. PICK S \in SUBSET R!Ids : itemRows \in [S -> R!Row]
  BY DEF R!TypeOK
<1>2. R!There = S
  BY <1>1 DEF R!There
<1> QED BY <1>1, <1>2 DEF R!Row, R!DateOf, R!Bounds

LEMMA ItemListedRows ==
  ASSUME R!Bounds, R!TypeOK, NEW S \in SUBSET R!There
  PROVE  ItemListed(itemRows, S) /\ IsFiniteSet(S)
<1>1. IsFiniteSet(R!Ids) /\ R!Ids \subseteq Nat
  BY FS_Interval DEF R!Ids, R!Bounds
<1>2. S \subseteq R!Ids /\ \A i \in S : R!DateOf(itemRows, i) \in Nat
  BY ItemRowsType
<1> QED BY <1>1, <1>2, FS_Subset DEF ItemListed

\* What is behind the cursor comes after it.
LEMMA ItemAfterMeans ==
  ASSUME R!Bounds, R!TypeOK, NEW i \in R!There
  PROVE  R!After(i) <=> itemPage.cursor = 0
      \/ R!BeforeBy(itemPage.date, itemPage.cursor, R!DateOf(itemRows, i), i)
<1>1. /\ itemPage.cursor \in Nat /\ itemPage.date \in Nat /\ R!DateOf(itemRows, i) \in Nat
           /\ i \in Nat
  BY ItemRowsType DEF R!TypeOK, R!Ids, R!Bounds
<1> QED BY <1>1 DEF R!After, R!BeforeBy

LEMMA ItemInvInit == R!Bounds /\ R!Init => ItemIInv
<1> SUFFICES ASSUME R!Bounds, R!Init PROVE ItemIInv
  OBVIOUS
<1>1. itemRows \in [{} -> R!Row] /\ R!There = {} /\ itemNextId = 1
  BY DEF R!Init, R!There
<1>2. R!TypeOK
  <2>1. itemNextId \in 1..MaxId + 1 /\ itemActs \in 0..MaxActs /\ 0 \in 0..MaxId
    BY <1>1 DEF R!Init, R!Bounds
  <2>2. \E S \in SUBSET R!Ids : itemRows \in [S -> R!Row]
    BY <1>1
  <2>3. itemPage = R!NoPage /\ R!NoPage \in [view : {"none", "all", "unread"}, cursor : 0..MaxId,
                                             date : Nat,
                                             shown : SUBSET R!Ids, twice : BOOLEAN, done : BOOLEAN]
    BY <2>1 DEF R!Init, R!NoPage
  <2> QED BY <2>1, <2>2, <2>3 DEF R!Init, R!TypeOK
<1>3. ItemBornInv /\ ItemPageInv /\ ItemMarkInv
  BY <1>1 DEF R!Init, ItemBornInv, ItemPageInv, ItemMarkInv, R!NoPage, R!Unread
<1> QED BY <1>2, <1>3 DEF ItemIInv

-----------------------------------------------------------------------------
(* Steps.                                                                  *)

\* A write of the rows that keeps the items of the ids there are, and gives out new ids only.
ItemKept ==
  /\ R!There' \cap ItemGiven \subseteq R!There /\ R!There' \subseteq ItemGiven'
  /\ \A i \in R!There' \cap ItemGiven : itemRows'[i].item = itemRows[i].item
  /\ itemNextId <= itemNextId'

LEMMA ItemRowsStep ==
  ASSUME R!Bounds, ItemIInv, ItemKept, R!TypeOK', itemPage' = itemPage, R!Watch
  PROVE  ItemBornInv' /\ ItemPageInv'
<1>1. itemNextId \in Nat /\ itemNextId' \in Nat /\ ItemGiven \subseteq ItemGiven'
  BY DEF ItemIInv, R!TypeOK, ItemKept, R!Bounds, ItemGiven
<1>2. ItemBornInv'
  BY <1>1 DEF ItemIInv, ItemBornInv, ItemKept, R!Watch
<1>3. \A i \in R!There' \cap ItemGiven : i \in R!There /\ (R!After(i)' <=> R!After(i))
  <2> SUFFICES ASSUME NEW i \in R!There' \cap ItemGiven
      PROVE i \in R!There /\ (R!After(i)' <=> R!After(i))
    OBVIOUS
  <2>1. i \in R!There /\ itemRows'[i].item = itemRows[i].item
    BY DEF ItemKept
  <2>2. R!DateOf(itemRows, i)' = R!DateOf(itemRows, i)
    BY <2>1 DEF R!DateOf
  <2> QED BY <2>1, <2>2 DEF R!After
<1>4. itemStays' \subseteq itemStays /\ itemStays' \subseteq R!There'
    /\ itemStays \subseteq ItemGiven
  BY DEF R!Watch, R!Visible, R!There, ItemIInv, ItemBornInv
<1>5. ItemPageInv'
  BY <1>3, <1>4 DEF ItemIInv, ItemBornInv, ItemPageInv
<1> QED BY <1>2, <1>5

\* A flag of some rows changes.
ItemFlagged(S) ==
  /\ DOMAIN itemRows' = R!There /\ S \subseteq R!There
  /\ itemRows' = [i \in R!There |-> itemRows'[i]]
  /\ \A i \in R!There : /\ itemRows'[i] \in R!Row /\ itemRows'[i].item = itemRows[i].item
                        /\ i \notin S => (itemRows[i].read => itemRows'[i].read)

LEMMA ItemFlagStep ==
  ASSUME R!Bounds, ItemIInv, NEW S, ItemFlagged(S), R!Watch,
         UNCHANGED <<itemNextId, itemPage>>, itemActs' \in 0..MaxActs, itemMarking' = itemMarking,
             itemLost' = itemLost,
         itemMeanwhile' \subseteq R!Ids, itemMeanwhile \subseteq itemMeanwhile',
         itemMarking.pc = "update" => S \subseteq itemMeanwhile'
  PROVE  ItemIInv'
<1>1. R!There \subseteq R!Ids
  BY ItemRowsType DEF ItemIInv
<1>2. R!TypeOK'
  <2>1. itemRows' \in [R!There -> R!Row]
    BY DEF ItemFlagged
  <2>2. itemStays' \subseteq R!Ids
    BY DEF R!Watch, ItemIInv, R!TypeOK
  <2> QED BY <1>1, <2>1, <2>2 DEF ItemIInv, R!TypeOK
<1>3. ItemKept
  <2>1. itemNextId \in Nat
    BY DEF ItemIInv, R!TypeOK, R!Bounds
  <2> QED BY <2>1 DEF ItemKept, ItemFlagged, R!There, ItemGiven, ItemIInv, ItemBornInv
<1>4. ItemMarkInv'
  <2>1. ASSUME NEW i \in R!Unread' PROVE i \in R!Unread \cup S
    BY DEF ItemFlagged, R!Unread, R!There
  <2> QED BY <2>1 DEF ItemIInv, ItemMarkInv
<1> QED BY <1>2, <1>3, <1>4, ItemRowsStep DEF ItemIInv

LEMMA ItemToggleStep ==
  ASSUME R!Bounds, ItemIInv, NEW i \in R!Ids, R!ToggleRead(i) \/ R!ToggleStar(i)
  PROVE  ItemIInv'
<1>1. /\ i \in R!There /\ itemActs < MaxActs /\ itemActs' = itemActs + 1 /\ R!Watch
      /\ UNCHANGED <<itemNextId, itemPage, itemMarking, itemLost>>
  BY DEF R!ToggleRead, R!ToggleStar, R!Act
<1>2. itemActs' \in 0..MaxActs
  BY <1>1 DEF ItemIInv, R!TypeOK, R!Bounds
<1>3. /\ itemRows = [j \in R!There |-> itemRows[j]]
      /\ \A j \in R!There : itemRows[j] \in R!Row
  BY ItemRowsType DEF ItemIInv
<1>4. CASE R!ToggleRead(i)
  <2>1. /\ itemRows' = [itemRows EXCEPT ![i].read = ~ @]
        /\ itemMeanwhile' = IF itemMarking.pc = "update" THEN itemMeanwhile \cup {i}
             ELSE itemMeanwhile
    BY <1>4 DEF R!ToggleRead
  <2>2. PICK b \in BOOLEAN : itemRows' = [itemRows EXCEPT ![i] = [itemRows[i] EXCEPT !.read = b]]
    <3>1. itemRows' = [itemRows EXCEPT ![i] = [itemRows[i] EXCEPT !.read = ~ itemRows[i].read]]
      BY <2>1
    <3> QED BY <3>1
  <2>3. ItemFlagged({i})
    <3>1. [itemRows[i] EXCEPT !.read = b] \in R!Row
        /\ [itemRows[i] EXCEPT !.read = b].item = itemRows[i].item
      BY <1>1, <1>3 DEF R!Row
    <3> QED BY <1>1, <1>3, <2>2, <3>1 DEF ItemFlagged, R!There
  <2>4. itemMeanwhile' \subseteq R!Ids /\ itemMeanwhile \subseteq itemMeanwhile'
    BY <2>1 DEF ItemIInv, R!TypeOK
  <2> QED BY <1>1, <1>2, <2>1, <2>3, <2>4, ItemFlagStep
<1>5. CASE R!ToggleStar(i)
  <2>1. itemRows' = [itemRows EXCEPT ![i].star = ~ @] /\ itemMeanwhile' = itemMeanwhile
    BY <1>5 DEF R!ToggleStar
  <2>2. PICK b \in BOOLEAN : itemRows' = [itemRows EXCEPT ![i] = [itemRows[i] EXCEPT !.star = b]]
    <3>1. itemRows' = [itemRows EXCEPT ![i] = [itemRows[i] EXCEPT !.star = ~ itemRows[i].star]]
      BY <2>1
    <3> QED BY <3>1
  <2>3. ItemFlagged({})
    <3>1. /\ [itemRows[i] EXCEPT !.star = b] \in R!Row /\ [itemRows[i] EXCEPT !.star = b].item = itemRows[i].item
          /\ [itemRows[i] EXCEPT !.star = b].read = itemRows[i].read
      BY <1>1, <1>3 DEF R!Row
    <3> QED BY <1>1, <1>3, <2>2, <3>1 DEF ItemFlagged, R!There
  <2>4. itemMeanwhile' \subseteq R!Ids
    BY <2>1 DEF ItemIInv, R!TypeOK
  <2> QED BY <1>1, <1>2, <2>1, <2>3, <2>4, ItemFlagStep
<1> QED BY <1>4, <1>5

LEMMA ItemMarkShownStep ==
  ASSUME R!Bounds, ItemIInv, R!MarkShown
  PROVE  ItemIInv'
<1>1. /\ itemActs < MaxActs /\ itemActs' = itemActs + 1 /\ R!Watch
      /\ UNCHANGED <<itemNextId, itemPage, itemMarking, itemLost, itemMeanwhile>>
      /\ itemRows' = [i \in R!There |-> IF i \in itemPage.shown
           THEN [itemRows[i] EXCEPT !.read = TRUE] ELSE itemRows[i]]
  BY DEF R!MarkShown, R!Act
<1>2. itemActs' \in 0..MaxActs /\ itemMeanwhile' \subseteq R!Ids
  BY <1>1 DEF ItemIInv, R!TypeOK, R!Bounds
<1>3. ItemFlagged({})
  <2>1. \A i \in R!There : /\ itemRows[i] \in R!Row /\ [itemRows[i] EXCEPT !.read = TRUE] \in R!Row
                           /\ [itemRows[i] EXCEPT !.read = TRUE].item = itemRows[i].item
                           /\ [itemRows[i] EXCEPT !.read = TRUE].read
    BY ItemRowsType DEF ItemIInv, R!Row
  <2> QED BY <1>1, <2>1 DEF ItemFlagged, R!There
<1> QED BY <1>1, <1>2, <1>3, ItemFlagStep

LEMMA ItemMarkingStep ==
  ASSUME R!Bounds, ItemIInv, R!SelectUnread \/ R!UpdateUnread \/ R!Undo
  PROVE  ItemIInv'
<1>1. R!Unread \subseteq R!There /\ R!There \subseteq R!Ids /\ itemMarking.ids \subseteq R!Ids
  BY ItemRowsType DEF R!Unread, ItemIInv, R!TypeOK
<1>2. CASE R!SelectUnread
  <2>1. /\ itemActs < MaxActs /\ itemActs' = itemActs + 1 /\ itemMarking' = [pc |-> "update", ids |-> R!Unread]
        /\ itemMeanwhile' = {} /\ itemLost' = {} /\ itemRows' = itemRows /\ itemNextId' = itemNextId
             /\ itemPage' = itemPage
        /\ itemStays' = itemStays
    BY <1>2 DEF R!SelectUnread, R!Act
  <2>2. itemActs' \in 0..MaxActs
    BY <2>1 DEF ItemIInv, R!TypeOK, R!Bounds
  <2>3. R!TypeOK'
    BY <1>1, <2>1, <2>2 DEF ItemIInv, R!TypeOK
  <2>4. ItemBornInv' /\ ItemPageInv'
    BY <2>1 DEF ItemIInv, ItemBornInv, ItemPageInv, ItemGiven, R!There, R!After, R!DateOf, R!Visible
  <2>5. ItemMarkInv'
    BY <2>1 DEF ItemMarkInv, R!Unread, R!There
  <2> QED BY <2>3, <2>4, <2>5 DEF ItemIInv
<1>3. CASE R!UpdateUnread
  <2>1. /\ itemRows' = [i \in R!There |-> [itemRows[i] EXCEPT !.read = TRUE]] /\ R!Watch
        /\ itemMarking.pc = "update" /\ itemLost' = R!Unread \ itemMarking.ids
        /\ itemMarking' = [itemMarking EXCEPT !.pc = "done"]
        /\ itemNextId' = itemNextId /\ itemPage' = itemPage /\ itemMeanwhile' = itemMeanwhile
             /\ itemActs' = itemActs
    BY <1>3 DEF R!UpdateUnread
  <2>2. \A i \in R!There : /\ [itemRows[i] EXCEPT !.read = TRUE] \in R!Row
                           /\ [itemRows[i] EXCEPT !.read = TRUE].item = itemRows[i].item
    BY ItemRowsType DEF ItemIInv, R!Row
  <2>3. itemRows' \in [R!There -> R!Row] /\ R!There' = R!There /\ \A i \in R!There :
      itemRows'[i].item = itemRows[i].item
    BY <2>1, <2>2 DEF R!There
  <2>4. R!TypeOK'
    BY <1>1, <2>1, <2>3 DEF ItemIInv, R!TypeOK, R!Watch
  <2>5. ItemKept
    <3>1. itemNextId \in Nat /\ itemNextId' = itemNextId
      BY <2>1 DEF ItemIInv, R!TypeOK, R!Bounds
    <3> QED BY <2>3, <3>1 DEF ItemKept, ItemGiven, ItemIInv, ItemBornInv
  <2>6. ItemMarkInv'
    <3>1. itemMarking'.pc = "done"
      BY <2>1 DEF ItemIInv, R!TypeOK
    <3> QED BY <2>1, <3>1 DEF ItemIInv, ItemMarkInv
  <2> QED BY <2>1, <2>4, <2>5, <2>6, ItemRowsStep DEF ItemIInv
<1>4. CASE R!Undo
  <2>1. /\ itemRows' = [i \in R!There |-> IF i \in itemMarking.ids THEN [itemRows[i] EXCEPT !.read = FALSE] ELSE itemRows[i]]
        /\ R!Watch /\ itemActs < MaxActs /\ itemActs' = itemActs + 1
             /\ itemMarking' = [pc |-> "idle", ids |-> {}]
        /\ itemNextId' = itemNextId /\ itemPage' = itemPage /\ itemMeanwhile' = itemMeanwhile
             /\ itemLost' = itemLost
    BY <1>4 DEF R!Undo, R!Act
  <2>2. \A i \in R!There : /\ [itemRows[i] EXCEPT !.read = FALSE] \in R!Row /\ itemRows[i] \in R!Row
                           /\ [itemRows[i] EXCEPT !.read = FALSE].item = itemRows[i].item
    BY ItemRowsType DEF ItemIInv, R!Row
  <2>3. itemRows' \in [R!There -> R!Row] /\ R!There' = R!There /\ \A i \in R!There :
      itemRows'[i].item = itemRows[i].item
    BY <2>1, <2>2 DEF R!There
  <2>4. R!TypeOK'
    <3>1. itemActs' \in 0..MaxActs
      BY <2>1 DEF ItemIInv, R!TypeOK, R!Bounds
    <3> QED BY <1>1, <2>1, <2>3, <3>1 DEF ItemIInv, R!TypeOK, R!Watch
  <2>5. ItemKept
    <3>1. itemNextId \in Nat /\ itemNextId' = itemNextId
      BY <2>1 DEF ItemIInv, R!TypeOK, R!Bounds
    <3> QED BY <2>3, <3>1 DEF ItemKept, ItemGiven, ItemIInv, ItemBornInv
  <2>6. ItemMarkInv'
    BY <2>1 DEF ItemIInv, ItemMarkInv
  <2> QED BY <2>1, <2>4, <2>5, <2>6, ItemRowsStep DEF ItemIInv
<1> QED BY <1>2, <1>3, <1>4

LEMMA ItemPageStep ==
  ASSUME R!Bounds, ItemIInv, R!More
  PROVE  ItemIInv'
<1> DEFINE list == {i \in R!Visible(itemRows, itemPage.view) : R!After(i)}
           got  == R!Newest(itemRows, list, PageSize)
           last == CHOOSE i \in got : R!Newest(itemRows, got, R!Cardinality(got) - 1) = got \ {i}
<1>1. /\ itemPage.view # "none" /\ ~ itemPage.done
      /\ itemPage' = [itemPage EXCEPT !.shown = @ \cup got,
                                      !.twice = @ \/ got \cap itemPage.shown # {},
                                      !.done = (got = list),
                                      !.cursor = IF got = list THEN @ ELSE last,
                                      !.date = IF got = list THEN @ ELSE R!DateOf(itemRows, last)]
      /\ UNCHANGED <<itemRows, itemNextId, itemStays, itemMarking, itemLost, itemMeanwhile,
           itemActs>>
  BY DEF R!More
<1>2. /\ list \subseteq R!There /\ R!There \subseteq R!Ids /\ R!There \subseteq ItemGiven
      /\ got \subseteq list /\ PageSize \in Nat \ {0}
  BY ItemRowsType, ItemNewestRank DEF ItemIInv, ItemBornInv, R!Visible, R!There, R!Bounds
<1>3. \A i \in list : R!After(i)
  OBVIOUS
<1>4. \A i \in itemStays : i \in list \/ i \in itemPage.shown
  BY <1>1 DEF ItemIInv, ItemBornInv, ItemPageInv
<1>5. ItemListed(itemRows, list) /\ ItemListed(itemRows, got)
  BY <1>2, ItemListedRows DEF ItemIInv
<1>6. \A i \in got, j \in list \ got : ItemBefore(itemRows, i, j)
  BY <1>2, <1>5, ItemNewestFirst
<1>7. got # list => got # {}
  <2> SUFFICES ASSUME got # list PROVE got # {}
    OBVIOUS
  <2>1. Cardinality(got) >= PageSize
    BY <1>2, <1>5, ItemNewestCount
  <2>2. Cardinality({}) = 0
    BY FS_EmptySet
  <2> HIDE DEF got
  <2> QED BY <1>2, <2>1, <2>2
<1>8. got # list => last \in got /\ \A i \in got \ {last} : ItemBefore(itemRows, i, last)
  <2>1. R!Cardinality(got) = Cardinality(got)
    BY ItemSets
  <2>2. last = CHOOSE i \in got : R!Newest(itemRows, got, Cardinality(got) - 1) = got \ {i}
    BY <2>1
  <2> HIDE DEF last, got
  <2> QED BY <1>5, <1>7, <2>2, ItemLastIsLast
<1> HIDE DEF list, got, last
<1>9. got \cap itemPage.shown = {}
  BY <1>1, <1>2, <1>3 DEF ItemIInv, ItemPageInv
<1>10. itemPage \in [view : {"none", "all", "unread"}, cursor : 0..MaxId, date : Nat,
                     shown : SUBSET R!Ids, twice : BOOLEAN, done : BOOLEAN]
  BY DEF ItemIInv, R!TypeOK
<1>11. PICK e \in BOOLEAN : e <=> got = list
  OBVIOUS
<1> DEFINE c == IF got = list THEN itemPage.cursor ELSE last
           d == IF got = list THEN itemPage.date ELSE R!DateOf(itemRows, last)
<1>12. /\ c \in 0..MaxId /\ d \in Nat /\ (c \in {0} \cup ItemGiven)
       /\ (got # list => c = last /\ d = R!DateOf(itemRows, last) /\ c # 0)
  <2>1. CASE got = list
    BY <1>10, <2>1 DEF ItemIInv, ItemBornInv
  <2>2. CASE got # list
    <3>1. last \in R!Ids /\ last \in ItemGiven /\ R!DateOf(itemRows, last) \in Nat
      BY <1>2, <1>8, <2>2, ItemRowsType DEF ItemIInv
    <3> QED BY <2>2, <3>1 DEF R!Ids
  <2> QED BY <2>1, <2>2
<1>13. itemPage' = [itemPage EXCEPT !.shown = itemPage.shown \cup got, !.twice = FALSE, !.done = e,
                                    !.cursor = c, !.date = d]
  <2>1. (itemPage.twice \/ got \cap itemPage.shown # {}) = FALSE
    BY <1>9 DEF ItemIInv, ItemPageInv
  <2>2. (got = list) = e
    BY <1>11
  <2> QED BY <1>1, <2>1, <2>2
<1> HIDE DEF c, d
<1>14. /\ itemPage'.view = itemPage.view /\ itemPage'.cursor = c /\ itemPage'.date = d /\ itemPage'.done = e
       /\ itemPage'.shown = itemPage.shown \cup got /\ itemPage'.twice = FALSE
  BY <1>10, <1>13
<1>15. R!TypeOK'
  <2>1. itemPage' \in [view : {"none", "all", "unread"}, cursor : 0..MaxId, date : Nat,
                       shown : SUBSET R!Ids, twice : BOOLEAN, done : BOOLEAN]
    BY <1>2, <1>10, <1>12, <1>13
  <2> QED BY <1>1, <2>1 DEF ItemIInv, R!TypeOK
<1>16. R!There' = R!There /\ itemNextId' = itemNextId /\ itemStays' = itemStays
    /\ itemRows' = itemRows
  BY <1>1 DEF R!There
<1>17. ItemBornInv'
  BY <1>2, <1>12, <1>14, <1>16 DEF ItemIInv, ItemBornInv, ItemGiven
<1>18. ItemPageInv'
  <2>1. CASE e
    BY <1>1, <1>4, <1>11, <1>14, <1>16, <2>1 DEF ItemPageInv
  <2>2. CASE ~ e
    <3>1. got # list /\ last \in got /\ last \in R!There /\ c = last /\ d = R!DateOf(itemRows, last)
        /\ c # 0
      BY <1>2, <1>8, <1>11, <1>12, <2>2
    <3>2. \A i \in R!There : R!After(i)' <=> ItemBefore(itemRows, last, i)
      <4> SUFFICES ASSUME NEW i \in R!There PROVE R!After(i)' <=> ItemBefore(itemRows, last, i)
        OBVIOUS
      <4>1. i \in R!There' /\ R!DateOf(itemRows, i)' = R!DateOf(itemRows, i)
        BY <1>16 DEF R!DateOf
      <4>2. R!DateOf(itemRows, i) \in Nat /\ i \in Nat /\ last \in Nat
          /\ R!DateOf(itemRows, last) \in Nat
        BY <1>2, <3>1, ItemRowsType DEF ItemIInv, R!Ids
      <4> QED BY <1>14, <3>1, <4>1, <4>2 DEF R!After, ItemBefore, R!BeforeBy
    <3>3. \A i \in R!There : R!DateOf(itemRows, i) \in Nat /\ i \in Nat
      BY <1>2, ItemRowsType DEF ItemIInv, R!Ids
    <3>4. ASSUME NEW i \in itemPage'.shown \cap R!There'  PROVE ~ R!After(i)'
      <4>1. CASE i \in got
        BY <1>8, <1>16, <3>1, <3>2, <3>3, <4>1, ItemStrictOrder DEF ItemBefore
      <4>2. CASE i \in itemPage.shown
        <5>1. itemPage.cursor # 0 /\ ~ R!After(i) /\ i \in R!There
          BY <1>1, <1>16, <4>2 DEF ItemIInv, ItemPageInv
        <5>2. R!After(last)
          BY <1>2, <1>3, <3>1
        <5>3. R!BeforeBy(itemPage.date, itemPage.cursor, R!DateOf(itemRows, last), last)
          BY <3>1, <5>1, <5>2, ItemAfterMeans DEF ItemIInv
        <5>4. ~ R!BeforeBy(itemPage.date, itemPage.cursor, R!DateOf(itemRows, i), i)
          BY <5>1, ItemAfterMeans DEF ItemIInv
        <5>5. itemPage.date \in Nat /\ itemPage.cursor \in Nat
          BY <1>10
        <5>6. R!BeforeBy(R!DateOf(itemRows, last), last, R!DateOf(itemRows, i), i)
              => R!BeforeBy(itemPage.date, itemPage.cursor, R!DateOf(itemRows, i), i)
          BY <3>1, <3>3, <5>1, <5>3, <5>5 DEF R!BeforeBy
        <5> QED BY <3>2, <5>1, <5>4, <5>6 DEF ItemBefore
      <4> QED BY <1>14, <4>1, <4>2
    <3>5. ASSUME NEW i \in itemStays' \ itemPage'.shown  PROVE R!After(i)'
      <4>1. i \in list \ got
        BY <1>4, <1>14, <1>16
      <4> QED BY <1>2, <1>6, <3>1, <3>2, <4>1
    <3> QED BY <1>1, <1>14, <2>2, <3>1, <3>4, <3>5 DEF ItemPageInv
  <2> QED BY <1>11, <2>1, <2>2
<1>19. ItemMarkInv'
  BY <1>1 DEF ItemIInv, ItemMarkInv, R!Unread, R!There
<1> QED BY <1>15, <1>17, <1>18, <1>19 DEF ItemIInv

LEMMA ItemOpenStep ==
  ASSUME R!Bounds, ItemIInv, R!Close \/ \E view \in {"all", "unread"} : R!Open(view)
  PROVE  ItemIInv'
<1>1. PICK view \in {"none", "all", "unread"} :
        /\ itemPage' = [R!NoPage EXCEPT !.view = view]
        /\ itemStays' = R!Visible(itemRows, view)
        /\ UNCHANGED <<itemRows, itemNextId, itemMarking, itemLost, itemMeanwhile, itemActs>>
  <2>1. R!Visible(itemRows, "none") = {} /\ [R!NoPage EXCEPT !.view = "none"] = R!NoPage
    BY DEF R!Visible, R!NoPage
  <2> QED BY <2>1 DEF R!Open, R!Close
<1>2. /\ itemPage'.view = view /\ itemPage'.cursor = 0 /\ itemPage'.shown = {} /\ itemPage'.twice = FALSE
      /\ itemPage'.done = FALSE
  BY <1>1 DEF R!NoPage
<1>3. R!There' = R!There /\ R!There \subseteq R!Ids /\ itemRows' = itemRows
    /\ itemNextId' = itemNextId
  BY <1>1, ItemRowsType DEF R!There, ItemIInv
<1>4. itemStays' \subseteq R!There
  BY <1>1 DEF R!Visible, R!There
<1>5. R!TypeOK'
  <2>1. 0 \in 0..MaxId
    BY DEF R!Bounds
  <2>2. itemPage' \in [view : {"none", "all", "unread"}, cursor : 0..MaxId, date : Nat,
                       shown : SUBSET R!Ids, twice : BOOLEAN, done : BOOLEAN]
    BY <1>1, <2>1 DEF R!NoPage
  <2> QED BY <1>1, <1>3, <1>4, <2>2 DEF ItemIInv, R!TypeOK
<1>6. ItemBornInv'
  BY <1>1, <1>2, <1>3 DEF ItemIInv, ItemBornInv, ItemGiven
<1>7. ItemPageInv'
  BY <1>2 DEF ItemPageInv, R!After
<1>8. ItemMarkInv'
  BY <1>1 DEF ItemIInv, ItemMarkInv, R!Unread, R!There
<1> QED BY <1>5, <1>6, <1>7, <1>8 DEF ItemIInv

\* The rows that a check leaves are the pruned ones of those there are and the new ones.
ItemMerges(rs, ids) ==
  /\ ids \subseteq R!Ids \ ItemGiven /\ ids \subseteq ItemGiven'
  /\ rs \in [R!There \cup ids -> R!Row]
  /\ \A i \in R!There : rs[i] = itemRows[i]
  /\ itemRows' = R!Pruned(rs)

LEMMA ItemPrunedMeans ==
  ASSUME NEW rs
  PROVE  LET starred == {i \in DOMAIN rs : rs[i].star}
             plain   == DOMAIN rs \ starred
         IN
         /\ DOMAIN R!Pruned(rs) = R!Newest(rs, plain, ItemCap)
              \cup (IF StarCap = 0 THEN starred ELSE R!Newest(rs, starred, StarCap))
         /\ DOMAIN R!Pruned(rs) \subseteq DOMAIN rs
         /\ R!Pruned(rs) = [i \in DOMAIN R!Pruned(rs) |-> rs[i]]
<1> DEFINE starred == {i \in DOMAIN rs : rs[i].star}
           plain   == DOMAIN rs \ starred
           S == R!Newest(rs, plain, ItemCap)
                  \cup (IF StarCap = 0 THEN starred ELSE R!Newest(rs, starred, StarCap))
<1>1. R!Pruned(rs) = R!Only(rs, S)
  BY DEF R!Pruned
<1>2. R!Newest(rs, plain, ItemCap) \subseteq plain
    /\ R!Newest(rs, starred, StarCap) \subseteq starred
  BY DEF R!Newest
<1>3. S \subseteq DOMAIN rs
  BY <1>2
<1> HIDE DEF S
<1>4. DOMAIN R!Pruned(rs) = S /\ R!Pruned(rs) = [i \in S |-> rs[i]]
  BY <1>1 DEF R!Only
<1> QED BY <1>3, <1>4 DEF S

LEMMA ItemCheckMeans ==
  ASSUME R!Bounds, ItemIInv, NEW doc \in SUBSET Items, R!Check(doc)
  PROVE  /\ \E rs, ids : ItemMerges(rs, ids) /\ (itemMarking.pc = "update" => ids \subseteq itemMeanwhile')
         /\ itemNextId' \in 1..MaxId + 1 /\ itemNextId <= itemNextId'
         /\ itemActs' \in 0..MaxActs /\ R!Watch /\ UNCHANGED <<itemPage, itemMarking, itemLost>>
         /\ itemMeanwhile \subseteq itemMeanwhile' /\ itemMeanwhile' \subseteq R!Ids
<1> DEFINE new == {x \in doc : \A i \in R!There : itemRows[i].item # x}
           k == Cardinality(new)
           ids == itemNextId .. itemNextId + k - 1
<1>1. /\ itemActs < MaxActs /\ itemActs' = itemActs + 1 /\ ids \subseteq R!Ids /\ itemNextId' = itemNextId + k
      /\ itemMeanwhile' = IF itemMarking.pc = "update" THEN itemMeanwhile \cup ids
           ELSE itemMeanwhile
      /\ R!Watch /\ UNCHANGED <<itemPage, itemMarking, itemLost>>
  BY ItemSets DEF R!Check, R!Act
<1>2. PICK at \in [ids -> new] :
        itemRows' = R!Pruned([i \in R!There \cup ids |->
                      IF i \in ids THEN [item |-> at[i], read |-> FALSE,
                          star |-> FALSE] ELSE itemRows[i]])
  BY ItemSets DEF R!Check
<1>3. k \in Nat /\ new \subseteq Items
  <2>1. new \subseteq Items
    OBVIOUS
  <2> QED BY ItemSets, <2>1, FS_Subset, FS_CardinalityType DEF R!Bounds
<1> HIDE DEF new, k
<1>4. itemNextId \in 1..MaxId + 1 /\ MaxId \in Nat /\ itemNextId \in Nat
  BY DEF ItemIInv, R!TypeOK, R!Bounds
<1>5. itemNextId' \in 1..MaxId + 1 /\ itemNextId <= itemNextId' /\ ids \subseteq R!Ids \ ItemGiven /\ ids \subseteq ItemGiven'
  <2>1. itemNextId + k <= MaxId + 1
    <3>1. CASE k = 0
      BY <1>4, <3>1
    <3>2. CASE k # 0
      <4>1. itemNextId + k - 1 \in ids
        BY <1>3, <1>4, <3>2
      <4>2. itemNextId + k - 1 <= MaxId
        BY <1>1, <4>1 DEF R!Ids
      <4> QED BY <1>3, <1>4, <4>2
    <3> QED BY <3>1, <3>2
  <2>2. itemNextId' \in 1..MaxId + 1 /\ itemNextId <= itemNextId'
    BY <1>1, <1>3, <1>4, <2>1
  <2>3. ids \subseteq R!Ids \ ItemGiven
    BY <1>1, <1>3, <1>4 DEF ItemGiven
  <2>4. ids \subseteq ItemGiven'
    BY <1>1, <1>3, <1>4 DEF ItemGiven
  <2> QED BY <2>2, <2>3, <2>4
<1>6. itemActs' \in 0..MaxActs
  BY <1>1 DEF ItemIInv, R!TypeOK, R!Bounds
<1>7. itemMeanwhile \subseteq itemMeanwhile' /\ itemMeanwhile' \subseteq R!Ids
  BY <1>1 DEF ItemIInv, R!TypeOK
<1>8. itemMarking.pc = "update" => ids \subseteq itemMeanwhile'
  BY <1>1
<1> DEFINE rs == [i \in R!There \cup ids |->
                    IF i \in ids THEN [item |-> at[i], read |-> FALSE,
                        star |-> FALSE] ELSE itemRows[i]]
<1>9. ItemMerges(rs, ids)
  <2>1. R!There \subseteq ItemGiven /\ \A i \in R!There : itemRows[i] \in R!Row
    BY ItemRowsType DEF ItemIInv, ItemBornInv
  <2>2. \A i \in ids : [item |-> at[i], read |-> FALSE, star |-> FALSE] \in R!Row
    BY <1>2, <1>3 DEF R!Row
  <2>3. R!There \cap ids = {}
    BY <1>5, <2>1
  <2> HIDE DEF ids
  <2>4. rs \in [R!There \cup ids -> R!Row]
    BY <2>1, <2>2
  <2>5. \A i \in R!There : rs[i] = itemRows[i]
    BY <2>3
  <2> HIDE DEF rs
  <2>6. itemRows' = R!Pruned(rs)
    BY <1>2 DEF rs
  <2> QED BY <1>5, <2>4, <2>5, <2>6 DEF ItemMerges
<1> HIDE DEF rs, ids
<1> QED BY <1>1, <1>5, <1>6, <1>7, <1>8, <1>9

LEMMA ItemCheckStep ==
  ASSUME R!Bounds, ItemIInv, NEW doc \in SUBSET Items, R!Check(doc)
  PROVE  ItemIInv'
<1>1. PICK rs, ids : ItemMerges(rs, ids) /\ (itemMarking.pc = "update"
    => ids \subseteq itemMeanwhile')
  BY ItemCheckMeans
<1>2. /\ itemNextId' \in 1..MaxId + 1 /\ itemNextId <= itemNextId'
      /\ itemActs' \in 0..MaxActs /\ R!Watch /\ UNCHANGED <<itemPage, itemMarking, itemLost>>
      /\ itemMeanwhile \subseteq itemMeanwhile' /\ itemMeanwhile' \subseteq R!Ids
  BY ItemCheckMeans
<1>3. /\ R!There' \subseteq R!There \cup ids /\ \A i \in R!There' : itemRows'[i] = rs[i]
      /\ itemRows' = [i \in R!There' |-> rs[i]]
  <2>1. DOMAIN rs = R!There \cup ids
    BY <1>1 DEF ItemMerges
  <2>2. /\ DOMAIN R!Pruned(rs) \subseteq DOMAIN rs
        /\ R!Pruned(rs) = [i \in DOMAIN R!Pruned(rs) |-> rs[i]]
    BY ItemPrunedMeans
  <2>3. R!There' = DOMAIN R!Pruned(rs) /\ itemRows' = R!Pruned(rs)
    BY <1>1 DEF ItemMerges, R!There
  <2> QED BY <2>1, <2>2, <2>3
<1>4. R!There \subseteq R!Ids /\ R!There \subseteq ItemGiven /\ itemNextId \in Nat
  BY ItemRowsType DEF ItemIInv, ItemBornInv, R!TypeOK, R!Bounds
<1>5. R!TypeOK'
  <2>1. itemRows' \in [R!There' -> R!Row] /\ R!There' \subseteq R!Ids
    BY <1>1, <1>3, <1>4 DEF ItemMerges
  <2>2. itemStays' \subseteq R!Ids
    BY <1>2 DEF R!Watch, ItemIInv, R!TypeOK
  <2> QED BY <1>2, <2>1, <2>2 DEF ItemIInv, R!TypeOK
<1>6. ItemKept
  <2>1. R!There' \cap ItemGiven \subseteq R!There
    BY <1>1, <1>3 DEF ItemMerges
  <2>2. R!There' \subseteq ItemGiven'
    <3>1. ItemGiven \subseteq ItemGiven'
      <4>1. itemNextId' \in Nat /\ itemNextId <= itemNextId'
        BY <1>2 DEF R!Bounds
      <4>2. itemNextId \in Nat
        BY <1>4
      <4>3. \A m, n \in Nat : m <= n => 1..m - 1 \subseteq 1..n - 1
        OBVIOUS
      <4> QED BY <4>1, <4>2, <4>3 DEF ItemGiven
    <3> QED BY <1>1, <1>3, <1>4, <3>1 DEF ItemMerges
  <2>3. \A i \in R!There' \cap ItemGiven : itemRows'[i].item = itemRows[i].item
    BY <1>1, <1>3, <2>1 DEF ItemMerges
  <2> QED BY <1>2, <2>1, <2>2, <2>3 DEF ItemKept
<1>7. ItemMarkInv'
  <2>1. ASSUME NEW i \in R!Unread' PROVE i \in R!Unread \cup ids
    BY <1>1, <1>3 DEF ItemMerges, R!Unread, R!There
  <2> QED BY <1>1, <1>2, <2>1 DEF ItemIInv, ItemMarkInv
<1> QED BY <1>2, <1>5, <1>6, <1>7, ItemRowsStep DEF ItemIInv

LEMMA ItemInvStep == R!Bounds /\ ItemIInv /\ [R!Next]_R!vars => ItemIInv'
<1> SUFFICES ASSUME R!Bounds, ItemIInv, [R!Next]_R!vars PROVE ItemIInv'
  OBVIOUS
<1>1. CASE UNCHANGED R!vars
  BY <1>1 DEF R!vars, ItemIInv, R!TypeOK, ItemBornInv, ItemPageInv, ItemMarkInv, ItemGiven, R!There,
     R!Visible, R!After, R!DateOf,
              R!Unread
<1> QED BY <1>1, ItemCheckStep, ItemOpenStep, ItemPageStep, ItemToggleStep, ItemMarkShownStep,
     ItemMarkingStep DEF R!Next

LEMMA ItemInvImplies == ItemIInv => R!TypeOK /\ R!PagesAreComplete /\ R!UndoKnowsWhatWasMarked
BY DEF ItemIInv, ItemPageInv, ItemMarkInv, R!PagesAreComplete, R!UndoKnowsWhatWasMarked

\* Nothing but a check removes rows, and a check keeps the newest.
LEMMA ItemOldestGo ==
  ASSUME R!Bounds, ItemIInv, [R!Next]_R!vars
  PROVE  R!OnlyTheOldestGo
<1>1. ASSUME NEW doc \in SUBSET Items, R!Check(doc), NEW i \in R!There \ R!There'
      PROVE  LET kin == {j \in R!There' : itemRows'[j].star = itemRows[i].star} IN
             /\ Cardinality(kin) >= IF itemRows[i].star THEN StarCap ELSE ItemCap
             /\ itemRows[i].star => StarCap # 0
             /\ \A j \in kin : Date[itemRows[i].item] = 0
                  \/ Date[itemRows'[j].item] >= Date[itemRows[i].item]
  <2>1. PICK rs, ids : ItemMerges(rs, ids)
    BY <1>1, ItemCheckMeans
  <2> DEFINE starred == {j \in DOMAIN rs : rs[j].star}
             plain   == DOMAIN rs \ starred
             kind == IF itemRows[i].star THEN starred ELSE plain
             n == IF itemRows[i].star THEN StarCap ELSE ItemCap
             kin == {j \in R!There' : itemRows'[j].star = itemRows[i].star}
  <2>2. /\ R!There' = R!Newest(rs, plain, ItemCap)
                        \cup (IF StarCap = 0 THEN starred ELSE R!Newest(rs, starred, StarCap))
        /\ R!There' \subseteq DOMAIN rs /\ itemRows' = [j \in R!There' |-> rs[j]]
    BY <2>1, ItemPrunedMeans DEF ItemMerges, R!There
  <2>3. /\ DOMAIN rs = R!There \cup ids /\ DOMAIN rs \subseteq R!Ids /\ rs[i] = itemRows[i] /\ i \in DOMAIN rs
        /\ \A j \in DOMAIN rs : /\ rs[j] \in R!Row /\ rs[j].star \in BOOLEAN
                                /\ rs[j].item \in Items /\ R!DateOf(rs, j) \in Nat
    <3>1. rs \in [R!There \cup ids -> R!Row] /\ R!There \cup ids \subseteq R!Ids
      BY <2>1, ItemRowsType DEF ItemMerges, ItemIInv
    <3>2. DOMAIN rs = R!There \cup ids
      BY <3>1
    <3>3. \A j \in DOMAIN rs : rs[j] \in R!Row
      BY <3>1
    <3>4. rs[i] = itemRows[i]
      BY <1>1, <2>1 DEF ItemMerges
    <3> QED BY <1>1, <3>1, <3>2, <3>3, <3>4 DEF R!Row, R!DateOf, R!Bounds
  <2>4. R!Newest(rs, plain, ItemCap) \subseteq plain
      /\ R!Newest(rs, starred, StarCap) \subseteq starred
    BY ItemNewestRank
  <2>5. itemRows[i].star => StarCap # 0
    BY <1>1, <2>2, <2>3
  <2>6. kin = R!Newest(rs, kind, n) /\ i \in kind \ R!Newest(rs, kind, n) /\ n \in Nat
    <3>1. \A j \in R!There' : itemRows'[j] = rs[j]
      BY <2>2
    <3>2. CASE itemRows[i].star
      BY <1>1, <2>2, <2>3, <2>4, <2>5, <3>1, <3>2 DEF R!Bounds
    <3>3. CASE ~ itemRows[i].star
      BY <1>1, <2>2, <2>3, <2>4, <3>1, <3>3 DEF R!Bounds
    <3> QED BY <3>2, <3>3
  <2>7. ItemListed(rs, kind)
    <3>1. IsFiniteSet(R!Ids) /\ R!Ids \subseteq Nat
      BY FS_Interval DEF R!Ids, R!Bounds
    <3> QED BY <2>3, <3>1, FS_Subset DEF ItemListed
  <2> HIDE DEF kind, n
  <2>8. Cardinality(kin) >= n
    BY <2>6, <2>7, ItemNewestCount
  <2>9. ASSUME NEW j \in kin
        PROVE  Date[itemRows[i].item] = 0 \/ Date[itemRows'[j].item] >= Date[itemRows[i].item]
    <3>1. ItemBefore(rs, j, i)
      BY <2>6, <2>7, <2>9, ItemNewestFirst
    <3>2. itemRows'[j] = rs[j] /\ j \in DOMAIN rs
      BY <2>2, <2>9
    <3>3. R!DateOf(rs, i) \in Nat /\ R!DateOf(rs, j) \in Nat
      BY <2>3, <3>2
    <3>4. R!DateOf(rs, i) = Date[itemRows[i].item] /\ R!DateOf(rs, j) = Date[itemRows'[j].item]
      BY <2>3, <3>2 DEF R!DateOf
    <3>5. R!DateOf(rs, i) = 0 \/ R!DateOf(rs, j) >= R!DateOf(rs, i)
      BY <3>1, <3>3 DEF ItemBefore, R!BeforeBy
    <3> QED BY <3>4, <3>5
  <2> QED BY <2>5, <2>8, <2>9 DEF n
<1>2. ASSUME ~ \E doc \in SUBSET Items : R!Check(doc)
      PROVE  R!There' = R!There
  BY <1>2 DEF R!Next, R!vars, R!Open, R!More, R!Close, R!ToggleRead, R!ToggleStar, R!MarkShown,
     R!SelectUnread,
              R!UpdateUnread, R!Undo, R!There
<1>3. CASE \E doc \in SUBSET Items : R!Check(doc)
  BY ItemSets, <1>1, <1>3 DEF R!OnlyTheOldestGo, R!There
<1>4. CASE ~ \E doc \in SUBSET Items : R!Check(doc)
  BY <1>2, <1>4 DEF R!OnlyTheOldestGo, R!There
<1> QED BY <1>3, <1>4

-----------------------------------------------------------------------------
(* Types.                                                                  *)

\* Which locals are meaningful at which step.
AccountLocalsSet(j) ==
  /\ j.pc = "signup" => j.email \in Emails /\ j.code \in Codes
  /\ j.pc = "act" /\ j.op \in {"mint", "revoke"} => j.code \in Codes
  /\ j.pc = "act" /\ j.op \notin {"mint", "revoke", "none"} => j.user \in AccountUsers
  /\ j.pc \in {"hook", "delete"} => j.user \in AccountUsers

AccountTypeInv == A!TypeOK /\ \A w \in A!Workers : AccountLocalsSet(accountWorker[w])

\* The operators of FiniteSets, as A! knows them.
LEMMA AccountSets ==
  \A S : (A!IsFiniteSet(S) <=> IsFiniteSet(S)) /\ A!Cardinality(S) = Cardinality(S)
<1>1. \A S : A!IsFiniteSet(S) <=> IsFiniteSet(S)
  BY DEF A!IsFiniteSet, IsFiniteSet
<1>2. \A S : A!Cardinality(S) = Cardinality(S)
  BY <1>1, Zenon DEF A!Cardinality, Cardinality
<1> QED BY <1>1, <1>2

LEMMA AccountRestType == A!Rest \in A!Worker /\ AccountLocalsSet(A!Rest)
BY DEF A!Rest, A!Worker, AccountLocalsSet, A!Steps, A!Operations

LEMMA AccountNewUserType ==
  ASSUME NEW e \in Emails
  PROVE  /\ A!NewUser(e) \in A!User /\ A!NewUser(e).there = "yes" /\ A!NewUser(e).email = e
         /\ [A!NoUser EXCEPT !.there = "deleted"] \in A!User
         /\ [A!NoUser EXCEPT !.there = "deleted"].there = "deleted"
BY DEF A!NewUser, A!NoUser, A!User

LEMMA AccountMoveType ==
  ASSUME AccountTypeInv, NEW w \in A!Workers, NEW j \in A!Worker, AccountLocalsSet(j),
      A!Becomes(w, j)
  PROVE  accountWorker' \in [A!Workers -> A!Worker] /\ \A v \in A!Workers :
      AccountLocalsSet(accountWorker'[v])
BY DEF AccountTypeInv, A!TypeOK, A!Becomes

\* A request begins with what its form brought.
LEMMA AccountBeginType ==
  ASSUME AccountTypeInv, A!Deployment, NEW w \in A!Workers,
         \/ \E e \in Emails, k \in Codes : A!SignUp(w, e, k)
         \/ \E u \in AccountUsers : A!DeleteOwn(w, u)
         \/ \E a, u \in AccountUsers, op \in A!Operations \ {"none", "mint", "revoke"} :
               A!Authorise(w, a, op, u)
         \/ \E a \in AccountUsers, k \in Codes, op \in {"mint", "revoke"} :
              A!AuthoriseCode(w, a, op, k)
  PROVE  AccountTypeInv'
<1>1. UNCHANGED <<accountUsers, accountCodes, accountCharged, accountFaults, A!history>> /\ accountPresses' \in 0..AccountPresses
  <2>1. accountPresses < AccountPresses /\ accountPresses' = accountPresses + 1
        /\ UNCHANGED <<accountUsers, accountCodes, accountCharged, accountFaults, A!history>>
    BY DEF A!SignUp, A!DeleteOwn, A!Authorise, A!AuthoriseCode, A!Begin
  <2>2. accountPresses \in 0..AccountPresses /\ AccountPresses \in Nat
    BY DEF A!Deployment, AccountTypeInv, A!TypeOK
  <2> QED BY <2>1, <2>2
<1>2. ASSUME NEW j \in A!Worker, AccountLocalsSet(j), A!Begin(w, j) PROVE AccountTypeInv'
  <2>1. accountWorker' \in [A!Workers -> A!Worker] /\ \A v \in A!Workers :
      AccountLocalsSet(accountWorker'[v])
    BY <1>2, AccountMoveType DEF A!Begin
  <2> QED BY <1>1, <2>1 DEF AccountTypeInv, A!TypeOK, A!history
<1>3. A!Rest \in A!Worker
  BY AccountRestType
<1>4. ASSUME NEW e \in Emails, NEW k \in Codes, A!SignUp(w, e, k) PROVE AccountTypeInv'
  <2> DEFINE next == [A!Rest EXCEPT !.pc = "signup", !.email = e, !.code = k]
  <2>1. next \in A!Worker /\ AccountLocalsSet(next)
    BY <1>3 DEF A!Worker, AccountLocalsSet, A!Steps
  <2> QED BY <1>2, <1>4, <2>1 DEF A!SignUp
<1>5. ASSUME NEW u \in AccountUsers, A!DeleteOwn(w, u) PROVE AccountTypeInv'
  <2> DEFINE next == [A!Rest EXCEPT !.pc = "hook", !.user = u]
  <2>1. next \in A!Worker /\ AccountLocalsSet(next)
    BY <1>3 DEF A!Worker, AccountLocalsSet, A!Steps
  <2> QED BY <1>2, <1>5, <2>1 DEF A!DeleteOwn
<1>6. ASSUME NEW a \in AccountUsers, NEW u \in AccountUsers,
             NEW op \in A!Operations \ {"none", "mint", "revoke"}, A!Authorise(w, a, op, u)
      PROVE  AccountTypeInv'
  <2> DEFINE next == [A!Rest EXCEPT !.pc = "act", !.op = op, !.user = u]
  <2>1. next \in A!Worker /\ AccountLocalsSet(next)
    BY <1>3 DEF A!Worker, AccountLocalsSet, A!Steps
  <2> QED BY <1>2, <1>6, <2>1 DEF A!Authorise
<1>7. ASSUME NEW a \in AccountUsers, NEW k \in Codes, NEW op \in {"mint", "revoke"},
             A!AuthoriseCode(w, a, op, k)
      PROVE  AccountTypeInv'
  <2> DEFINE next == [A!Rest EXCEPT !.pc = "act", !.op = op, !.code = k]
  <2>1. next \in A!Worker /\ AccountLocalsSet(next)
    BY <1>3 DEF A!Worker, AccountLocalsSet, A!Steps, A!Operations
  <2> QED BY <1>2, <1>7, <2>1 DEF A!AuthoriseCode
<1> QED BY <1>4, <1>5, <1>6, <1>7

-----------------------------------------------------------------------------
(* What an admin may change of an account.                                 *)

AccountAmending(w) == \/ A!Suspend(w) \/ A!Unsuspend(w) \/ A!Promote(w) \/ A!Demote(w)
                      \/ A!SetPlan(w) \/ A!ExtendTrial(w)

\* The account is the same; its admin bit goes only when another admin has one.
AccountAmended(u, new) ==
  /\ new \in A!User /\ new.there = accountUsers[u].there /\ new.email = accountUsers[u].email
  /\ accountUsers[u].admin /\ ~ new.admin => Cardinality(A!AdminBits) > 1

LEMMA AccountAmendEffect ==
  ASSUME AccountTypeInv, NEW w \in A!Workers, AccountAmending(w)
  PROVE  /\ accountWorker[w].user \in AccountUsers
         /\ \E new : AccountAmended(accountWorker[w].user, new) /\ A!Amend(w, new)
<1> DEFINE u == accountWorker[w].user
           r == accountUsers[u]
<1>1. u \in AccountUsers /\ r \in A!User /\ A!The(w) = r
  BY DEF AccountAmending, A!Suspend, A!Unsuspend, A!Promote, A!Demote, A!SetPlan, A!ExtendTrial,
     A!Acts, A!The,
         AccountTypeInv, A!TypeOK, AccountLocalsSet
<1>2. CASE A!Suspend(w)
  <2>1. (r.suspended \/ A!MaySuspend(u)) \in BOOLEAN
    OBVIOUS
  <2>2. AccountAmended(u, [r EXCEPT !.suspended = r.suspended \/ A!MaySuspend(u)])
    <3> DEFINE b == r.suspended \/ A!MaySuspend(u)
    <3> HIDE DEF b
    <3>1. AccountAmended(u, [r EXCEPT !.suspended = b])
      BY <1>1, <2>1 DEF AccountAmended, A!User, b
    <3> QED BY <3>1 DEF b
  <2>3. A!Amend(w, [r EXCEPT !.suspended = r.suspended \/ A!MaySuspend(u)])
    BY <1>1, <1>2 DEF A!Suspend
  <2> QED BY <1>1, <2>2, <2>3
<1>3. CASE A!Unsuspend(w)
  <2>1. AccountAmended(u, [r EXCEPT !.suspended = FALSE])
    BY <1>1 DEF AccountAmended, A!User
  <2> QED BY <1>1, <1>3, <2>1 DEF A!Unsuspend
<1>4. CASE A!Promote(w)
  <2>1. AccountAmended(u, [r EXCEPT !.admin = TRUE])
    BY <1>1 DEF AccountAmended, A!User
  <2> QED BY <1>1, <1>4, <2>1 DEF A!Promote
<1>5. CASE A!Demote(w)
  <2> DEFINE b == r.admin /\ ~ A!MayDemote(u)
  <2>1. b \in BOOLEAN /\ (r.admin /\ ~ b => Cardinality(A!AdminBits) > 1)
    BY AccountSets DEF A!MayDemote
  <2>2. A!Amend(w, [r EXCEPT !.admin = b])
    BY <1>1, <1>5 DEF A!Demote
  <2> HIDE DEF b
  <2>3. AccountAmended(u, [r EXCEPT !.admin = b])
    BY <1>1, <2>1 DEF AccountAmended, A!User
  <2> QED BY <1>1, <2>2, <2>3
<1>6. CASE A!SetPlan(w)
  <2>1. PICK plan \in {"trial", "paid"} : A!Amend(w, [r EXCEPT !.plan = plan])
    BY <1>1, <1>6 DEF A!SetPlan
  <2>2. AccountAmended(u, [r EXCEPT !.plan = plan])
    BY <1>1 DEF AccountAmended, A!User
  <2> QED BY <1>1, <2>1, <2>2
<1>7. CASE A!ExtendTrial(w)
  <2> DEFINE t == IF r.plan = "trial" THEN "running" ELSE r.trial
  <2>1. t \in {"pending", "running"}
    BY <1>1 DEF A!User
  <2>2. A!Amend(w, [r EXCEPT !.trial = t])
    BY <1>1, <1>7 DEF A!ExtendTrial
  <2> HIDE DEF t
  <2>3. AccountAmended(u, [r EXCEPT !.trial = t])
    BY <1>1, <2>1 DEF AccountAmended, A!User
  <2> QED BY <1>1, <2>2, <2>3
<1> QED BY <1>2, <1>3, <1>4, <1>5, <1>6, <1>7 DEF AccountAmending

LEMMA AccountAdminType ==
  ASSUME AccountTypeInv, NEW w \in A!Workers,
         AccountAmending(w) \/ A!StoreSignUp(w) \/ A!MintCode(w) \/ A!RevokeCode(w) \/ A!Remove(w)
  PROVE  AccountTypeInv'
<1> DEFINE j == accountWorker[w]
<1>1. j \in A!Worker /\ AccountLocalsSet(j) /\ accountUsers \in [AccountUsers -> A!User]
      /\ accountCodes \in [Codes -> A!CodeStates \cup AccountUsers]
  BY DEF AccountTypeInv, A!TypeOK
<1>2. ASSUME NEW k \in A!Worker, AccountLocalsSet(k), A!Becomes(w, k), accountUsers' \in [AccountUsers -> A!User],
             accountCodes' \in [Codes -> A!CodeStates \cup AccountUsers],
             UNCHANGED <<accountCharged, accountPresses, accountFaults, A!history>>
      PROVE  AccountTypeInv'
  <2>1. accountWorker' \in [A!Workers -> A!Worker] /\ \A v \in A!Workers :
      AccountLocalsSet(accountWorker'[v])
    BY <1>2, AccountMoveType
  <2> QED BY <1>2, <2>1 DEF AccountTypeInv, A!TypeOK, A!history
<1>3. CASE AccountAmending(w)
  <2>1. PICK new : AccountAmended(j.user, new) /\ A!Amend(w, new)
    BY <1>3, AccountAmendEffect
  <2>2. accountUsers' \in [AccountUsers -> A!User]
    BY <1>1, <2>1 DEF A!Amend, AccountAmended
  <2> QED BY <1>1, <1>2, <2>1, <2>2, AccountRestType DEF A!Amend, A!Finish
<1>4. CASE A!StoreSignUp(w)
  <2>1. j.email \in Emails /\ j.code \in Codes /\ A!NextRow \in AccountUsers
    BY <1>1, <1>4 DEF A!StoreSignUp, AccountLocalsSet, A!NextRow, A!Unborn
  <2>2. accountUsers' \in [AccountUsers -> A!User]
      /\ accountCodes' \in [Codes -> A!CodeStates \cup AccountUsers]
    BY <1>1, <1>4, <2>1, AccountNewUserType DEF A!StoreSignUp
  <2>3. A!Becomes(w, A!Rest) /\ UNCHANGED <<accountCharged, accountPresses, accountFaults,
      A!history>>
    BY <1>4 DEF A!StoreSignUp, A!Finish
  <2> QED BY <1>2, <2>2, <2>3, AccountRestType
<1>5. CASE A!MintCode(w) \/ A!RevokeCode(w)
  <2>1. accountCodes' \in [Codes -> A!CodeStates \cup AccountUsers] /\ accountUsers' = accountUsers
    BY <1>1, <1>5 DEF A!MintCode, A!RevokeCode, A!Acts, AccountLocalsSet, A!CodeStates
  <2>2. A!Becomes(w, A!Rest) /\ UNCHANGED <<accountCharged, accountPresses, accountFaults,
      A!history>>
    BY <1>5 DEF A!MintCode, A!RevokeCode, A!Finish
  <2> QED BY <1>1, <1>2, <2>1, <2>2, AccountRestType
<1>6. CASE A!Remove(w)
  <2> DEFINE next == [j EXCEPT !.pc = "hook"]
  <2>1. A!Becomes(w, next) \/ A!Becomes(w, A!Rest)
    BY <1>6 DEF A!Remove, A!Goto, A!Finish
  <2>2. next \in A!Worker /\ AccountLocalsSet(next)
    BY <1>1, <1>6 DEF A!Remove, A!Acts, A!Worker, AccountLocalsSet, A!Steps
  <2>3. UNCHANGED <<accountUsers, accountCodes, accountCharged, accountPresses, accountFaults,
      A!history>>
    BY <1>6 DEF A!Remove
  <2> HIDE DEF next
  <2> QED BY <1>1, <1>2, <2>1, <2>2, <2>3, AccountRestType
<1> QED BY <1>3, <1>4, <1>5, <1>6

LEMMA AccountDeletionType ==
  ASSUME AccountTypeInv, A!Deployment, NEW w \in A!Workers,
         A!SelectAbandoned(w) \/ A!AskGuards(w) \/ A!EndSweep(w) \/ A!RunHooks(w) \/ A!Delete(w)
  PROVE  AccountTypeInv'
<1> DEFINE j == accountWorker[w]
<1>1. j \in A!Worker /\ AccountLocalsSet(j) /\ accountUsers \in [AccountUsers -> A!User]
    /\ A!Rest \in A!Worker
  BY AccountRestType DEF AccountTypeInv, A!TypeOK
<1>2. ASSUME NEW k \in A!Worker, AccountLocalsSet(k), A!Becomes(w, k), accountUsers' \in [AccountUsers -> A!User],
             accountCharged' \subseteq AccountUsers, accountFaults' \in 0..AccountFaults,
                 accountLate' \subseteq AccountUsers,
             accountRobbed' \subseteq AccountUsers, accountResigned' \in BOOLEAN,
                 UNCHANGED <<accountCodes, accountPresses>>
      PROVE  AccountTypeInv'
  <2>1. accountWorker' \in [A!Workers -> A!Worker] /\ \A v \in A!Workers :
      AccountLocalsSet(accountWorker'[v])
    BY <1>2, AccountMoveType
  <2> QED BY <1>2, <2>1 DEF AccountTypeInv, A!TypeOK
<1>3. accountCharged \subseteq AccountUsers /\ accountFaults \in 0..AccountFaults /\ accountLate \subseteq AccountUsers
      /\ accountRobbed \subseteq AccountUsers /\ accountResigned \in BOOLEAN
           /\ AccountFaults \in Nat
  BY DEF AccountTypeInv, A!TypeOK, A!Deployment
<1>4. CASE A!SelectAbandoned(w)
  <2> DEFINE todo == {u \in AccountUsers : A!Abandoned(u) /\ ~ accountUsers[u].paying}
             next == [A!Rest EXCEPT !.pc = "guard", !.todo = todo]
  <2>1. A!Becomes(w, next)
    BY <1>4 DEF A!SelectAbandoned
  <2>2. todo \subseteq AccountUsers
    OBVIOUS
  <2> HIDE DEF todo
  <2>3. next \in A!Worker /\ AccountLocalsSet(next)
    BY <1>1, <2>2 DEF A!Worker, AccountLocalsSet, A!Steps
  <2>4. UNCHANGED <<accountUsers, accountCodes, accountCharged, accountPresses, accountFaults,
      accountLate, accountRobbed, accountResigned>>
    BY <1>4 DEF A!SelectAbandoned, A!history
  <2> HIDE DEF next
  <2> QED BY <1>1, <1>2, <1>3, <2>1, <2>3, <2>4
<1>5. CASE A!AskGuards(w)
  <2> DEFINE next(u) == [j EXCEPT !.todo = @ \ {u}]
             hook(u) == [next(u) EXCEPT !.pc = "hook", !.user = u]
  <2>1. PICK u \in j.todo : A!Becomes(w, next(u)) \/ A!Becomes(w, hook(u))
    BY <1>5 DEF A!AskGuards
  <2>2. u \in AccountUsers
    BY <1>1 DEF A!Worker
  <2>3. next(u) \in A!Worker /\ next(u).pc = "guard"
    BY <1>1, <1>5 DEF A!AskGuards, A!Worker
  <2> HIDE DEF next
  <2>4. hook(u) \in A!Worker /\ hook(u).pc = "hook" /\ hook(u).user = u
    BY <2>2, <2>3 DEF A!Worker, A!Steps
  <2> HIDE DEF hook
  <2>5. AccountLocalsSet(next(u)) /\ AccountLocalsSet(hook(u))
    BY <2>2, <2>3, <2>4 DEF AccountLocalsSet
  <2>6. UNCHANGED <<accountUsers, accountCodes, accountCharged, accountPresses, accountLate, accountRobbed, accountResigned>>
        /\ accountFaults' \in 0..AccountFaults
    <3>1. UNCHANGED <<accountUsers, accountCodes, accountCharged, accountPresses, accountLate,
        accountRobbed, accountResigned>>
      BY <1>5 DEF A!AskGuards, A!history
    <3>2. UNCHANGED accountFaults \/ (accountFaults < AccountFaults
        /\ accountFaults' = accountFaults + 1)
      BY <1>5 DEF A!AskGuards
    <3> QED BY <1>3, <3>1, <3>2
  <2> QED BY <1>1, <1>2, <1>3, <2>1, <2>3, <2>4, <2>5, <2>6
<1>6. CASE A!EndSweep(w)
  BY <1>1, <1>2, <1>3, <1>6, AccountRestType DEF A!EndSweep, A!Finish, A!history
<1>7. ASSUME j.pc \in {"hook", "delete"}
      PROVE  /\ [j EXCEPT !.pc = "delete"] \in A!Worker /\ AccountLocalsSet([j EXCEPT !.pc = "delete"])
             /\ [j EXCEPT !.pc = "guard", !.user = Nobody] \in A!Worker
             /\ AccountLocalsSet([j EXCEPT !.pc = "guard", !.user = Nobody])
  BY <1>1, <1>7 DEF A!Worker, AccountLocalsSet, A!Steps
<1>8. CASE A!RunHooks(w)
  <2>1. PICK k \in {[j EXCEPT !.pc = "delete"], [j EXCEPT !.pc = "guard", !.user = Nobody], A!Rest} :
          A!Becomes(w, k)
    BY <1>8 DEF A!RunHooks, A!Goto, A!NextAccount, A!Finish
  <2>2. k \in A!Worker /\ AccountLocalsSet(k)
    BY <1>7, <1>8, AccountRestType DEF A!RunHooks
  <2>3. j.user \in AccountUsers
    BY <1>1, <1>8 DEF A!RunHooks, AccountLocalsSet
  <2>4. /\ accountCharged' \subseteq AccountUsers /\ accountFaults' \in 0..AccountFaults /\ accountLate' \subseteq AccountUsers
        /\ accountRobbed' \subseteq AccountUsers
    BY <1>3, <1>8, <2>3 DEF A!RunHooks
  <2>5. UNCHANGED <<accountUsers, accountCodes, accountPresses, accountResigned>>
    BY <1>8 DEF A!RunHooks
  <2> QED BY <1>1, <1>2, <1>3, <2>1, <2>2, <2>4, <2>5
<1>9. CASE A!Delete(w)
  <2>1. PICK k \in {[j EXCEPT !.pc = "guard", !.user = Nobody], A!Rest} : A!Becomes(w, k)
    BY <1>9 DEF A!Delete, A!NextAccount, A!Finish
  <2>2. k \in A!Worker /\ AccountLocalsSet(k)
    BY <1>7, <1>9, AccountRestType DEF A!Delete
  <2>3. accountUsers' \in [AccountUsers -> A!User]
    <3>1. [A!NoUser EXCEPT !.there = "deleted"] \in A!User
      BY DEF A!NoUser, A!User
    <3> QED BY <1>1, <1>9, <3>1 DEF A!Delete
  <2>4. accountResigned' \in BOOLEAN
    BY <1>9 DEF A!Delete
  <2>5. UNCHANGED <<accountCodes, accountCharged, accountPresses, accountFaults, accountLate,
      accountRobbed>>
    BY <1>9 DEF A!Delete
  <2> QED BY <1>2, <1>3, <2>1, <2>2, <2>3, <2>4, <2>5
<1> QED BY <1>4, <1>5, <1>6, <1>8, <1>9

LEMMA AccountWorldType ==
  ASSUME AccountTypeInv, A!Deployment, A!World
  PROVE  AccountTypeInv'
<1>1. PICK u \in AccountUsers : A!Checkout(u) \/ A!Webhook(u) \/ A!GrowOld(u)
  BY DEF A!World
<1>2. accountUsers \in [AccountUsers -> A!User]
  BY DEF AccountTypeInv, A!TypeOK
<1>3. CASE A!Checkout(u)
  BY <1>3 DEF A!Checkout, A!Deployment, AccountTypeInv, A!TypeOK
<1>4. CASE A!Webhook(u) \/ A!GrowOld(u)
  <2> DEFINE r == accountUsers[u]
  <2>1. r \in A!User
    BY <1>2
  <2> HIDE DEF r
  <2>2. [r EXCEPT !.paying = TRUE, !.trial = "running"] \in A!User
    <3>1. [r EXCEPT !.paying = TRUE] \in A!User
      BY <2>1 DEF A!User
    <3> QED BY <3>1 DEF A!User
  <2>3. [r EXCEPT !.old = TRUE] \in A!User
    BY <2>1 DEF A!User
  <2>4. accountUsers' = [accountUsers EXCEPT ![u] = [r EXCEPT !.paying = TRUE, !.trial = "running"]]
        \/ accountUsers' = [accountUsers EXCEPT ![u] = [r EXCEPT !.old = TRUE]]
    BY <1>2, <1>4 DEF A!Webhook, A!GrowOld, A!User, r
  <2>5. accountUsers' \in [AccountUsers -> A!User]
    BY <1>2, <2>2, <2>3, <2>4
  <2> QED BY <1>4, <2>5 DEF A!Webhook, A!GrowOld, A!history, AccountTypeInv, A!TypeOK
<1> QED BY <1>1, <1>3, <1>4

LEMMA AccountTypeInit ==
  ASSUME A!Deployment, A!Init
  PROVE  AccountTypeInv
<1>1. accountUsers \in [AccountUsers -> A!User]
  BY DEF A!Init, A!NoUser, A!User
<1>2. accountCodes \in [Codes -> A!CodeStates \cup AccountUsers]
  BY DEF A!Init, A!CodeStates
<1>3. accountWorker \in [A!Workers -> A!Worker] /\ \A w \in A!Workers :
    AccountLocalsSet(accountWorker[w])
  BY AccountRestType DEF A!Init
<1>4. accountPresses \in 0..AccountPresses /\ accountFaults \in 0..AccountFaults
  BY DEF A!Init, A!Deployment
<1> QED BY <1>1, <1>2, <1>3, <1>4 DEF A!Init, AccountTypeInv, A!TypeOK

LEMMA AccountTypeStep ==
  ASSUME A!Deployment, AccountTypeInv, [A!Next]_A!vars
  PROVE  AccountTypeInv'
<1>1. CASE UNCHANGED A!vars
  BY <1>1 DEF A!vars, AccountTypeInv, A!TypeOK
<1>2. ASSUME NEW w \in A!Workers, A!Route(w) \/ A!Sweep(w) \/ A!Deletion(w) PROVE AccountTypeInv'
  BY <1>2, AccountBeginType, AccountAdminType, AccountDeletionType DEF A!Route, A!Sweep, A!Deletion,
     AccountAmending
<1> QED BY <1>1, <1>2, AccountWorldType DEF A!Next

-----------------------------------------------------------------------------
(* What becomes of the accounts.                                           *)

AccountSameAccounts == \A u \in AccountUsers : /\ accountUsers'[u].there = accountUsers[u].there
                                               /\ accountUsers'[u].email = accountUsers[u].email
AccountCodesKept    == \A k \in Codes : accountCodes[k] \in AccountUsers
    => accountCodes'[k] = accountCodes[k]
AccountAdminsKept   == \/ A!AdminBits \subseteq A!AdminBits'
                       \/ \E u \in AccountUsers :
                            Cardinality(A!AdminBits) > 1 /\ A!AdminBits \ {u} \subseteq A!AdminBits'

AccountSteady  == AccountSameAccounts /\ AccountCodesKept /\ AccountAdminsKept
    /\ UNCHANGED accountResigned
AccountJoining == /\ \E u \in A!Unborn, e \in Emails, k \in Codes :
                       /\ ~ A!Taken(e) /\ accountCodes[k] = "free"
                       /\ accountUsers' = [accountUsers EXCEPT ![u] = A!NewUser(e)]
                       /\ accountCodes' = [accountCodes EXCEPT ![k] = u]
                  /\ UNCHANGED accountResigned
AccountLeaving == /\ \E u \in AccountUsers :
                       /\ accountUsers'
                            = [accountUsers EXCEPT ![u] = [A!NoUser EXCEPT !.there = "deleted"]]
                       /\ accountResigned' = (accountResigned \/ u \in A!AdminBits)
                  /\ UNCHANGED accountCodes

LEMMA AccountUnmoved ==
  ASSUME UNCHANGED <<accountUsers, accountResigned>>, AccountCodesKept
  PROVE  AccountSteady
BY DEF AccountSteady, AccountSameAccounts, AccountAdminsKept, A!AdminBits, A!Present

LEMMA AccountAmendFate ==
  ASSUME AccountTypeInv, NEW w \in A!Workers, AccountAmending(w)
  PROVE  AccountSteady /\ UNCHANGED <<accountCodes, accountCharged, accountLate, accountRobbed>>
<1> DEFINE u == accountWorker[w].user
<1>1. PICK new : AccountAmended(u, new) /\ A!Amend(w, new)
  BY AccountAmendEffect
<1>2. u \in AccountUsers /\ accountUsers \in [AccountUsers -> A!User]
  BY AccountAmendEffect DEF AccountTypeInv, A!TypeOK
<1>3. UNCHANGED <<accountCodes, accountCharged, accountLate, accountRobbed, accountResigned>>
      /\ accountUsers' = [accountUsers EXCEPT ![u] = IF u \in A!Present THEN new ELSE @]
  BY <1>1 DEF A!Amend, A!history
<1>4. AccountSameAccounts /\ AccountCodesKept
  BY <1>1, <1>2, <1>3 DEF AccountSameAccounts, AccountCodesKept, AccountAmended
<1>5. \A v \in AccountUsers \ {u} : accountUsers'[v] = accountUsers[v]
  BY <1>2, <1>3
<1>6. A!AdminBits \ {u} \subseteq A!AdminBits'
  BY <1>5 DEF A!AdminBits, A!Present
<1>7. u \in A!AdminBits => u \in A!AdminBits' \/ Cardinality(A!AdminBits) > 1
  BY <1>1, <1>2, <1>3, <1>4 DEF A!AdminBits, A!Present, AccountAmended, AccountSameAccounts
<1>8. AccountAdminsKept
  BY <1>2, <1>6, <1>7 DEF AccountAdminsKept
<1> QED BY <1>3, <1>4, <1>8 DEF AccountSteady

LEMMA AccountFate ==
  ASSUME AccountTypeInv, A!Deployment, A!Next
  PROVE  AccountSteady \/ AccountJoining \/ AccountLeaving
<1>1. ASSUME NEW w \in A!Workers, A!Route(w) PROVE AccountSteady \/ AccountJoining
  <2>1. CASE AccountAmending(w)
    BY <2>1, AccountAmendFate
  <2>2. CASE A!StoreSignUp(w)
    <3> DEFINE j == accountWorker[w]
    <3>1. j.email \in Emails /\ j.code \in Codes /\ A!NextRow \in A!Unborn
      BY <2>2 DEF A!StoreSignUp, AccountTypeInv, AccountLocalsSet, A!NextRow
    <3>2. UNCHANGED accountResigned
      BY <2>2 DEF A!StoreSignUp, A!history
    <3>3. CASE A!Taken(j.email) \/ accountCodes[j.code] # "free"
      BY <2>2, <3>2, <3>3, AccountUnmoved DEF A!StoreSignUp, AccountCodesKept
    <3>4. CASE ~ (A!Taken(j.email) \/ accountCodes[j.code] # "free")
      BY <2>2, <3>1, <3>2, <3>4 DEF A!StoreSignUp, AccountJoining
    <3> QED BY <3>3, <3>4
  <2>3. CASE A!MintCode(w) \/ A!RevokeCode(w)
    <3>1. accountWorker[w].code \in Codes
        /\ accountCodes \in [Codes -> A!CodeStates \cup AccountUsers]
      BY <2>3 DEF A!MintCode, A!RevokeCode, A!Acts, AccountTypeInv, A!TypeOK, AccountLocalsSet
    <3>2. AccountCodesKept
      BY <2>3, <3>1 DEF A!MintCode, A!RevokeCode, AccountCodesKept, A!Deployment, A!CodeStates
    <3> QED BY <2>3, <3>2, AccountUnmoved DEF A!MintCode, A!RevokeCode, A!history
  <2>4. CASE \/ \E e \in Emails, k \in Codes : A!SignUp(w, e, k)
             \/ \E u \in AccountUsers : A!DeleteOwn(w, u)
             \/ \E a, u \in AccountUsers, op \in A!Operations \ {"none", "mint", "revoke"} :
                   A!Authorise(w, a, op, u)
             \/ \E a \in AccountUsers, k \in Codes, op \in {"mint", "revoke"} :
                   A!AuthoriseCode(w, a, op, k)
             \/ A!Remove(w)
    <3>1. UNCHANGED <<accountUsers, accountCodes, accountResigned>>
      BY <2>4 DEF A!SignUp, A!DeleteOwn, A!Authorise, A!AuthoriseCode, A!Remove, A!history
    <3> QED BY <3>1, AccountUnmoved DEF AccountCodesKept
  <2> QED BY <1>1, <2>1, <2>2, <2>3, <2>4 DEF A!Route, AccountAmending
<1>2. ASSUME NEW w \in A!Workers, A!Sweep(w) \/ A!RunHooks(w) PROVE AccountSteady
  <2>1. UNCHANGED <<accountUsers, accountCodes, accountResigned>>
    BY <1>2 DEF A!Sweep, A!SelectAbandoned, A!AskGuards, A!EndSweep, A!RunHooks, A!history
  <2> QED BY <2>1, AccountUnmoved DEF AccountCodesKept
<1>3. ASSUME NEW w \in A!Workers, A!Delete(w) PROVE AccountLeaving
  BY <1>3 DEF A!Delete, AccountLeaving, AccountTypeInv, AccountLocalsSet
<1>4. ASSUME NEW u \in AccountUsers, A!Checkout(u) \/ A!Webhook(u) \/ A!GrowOld(u) PROVE AccountSteady
  <2>1. CASE A!Checkout(u)
    BY <2>1, AccountUnmoved DEF A!Checkout, AccountCodesKept
  <2>2. CASE A!Webhook(u) \/ A!GrowOld(u)
    <3>1. UNCHANGED <<accountCodes, accountResigned>>
      BY <2>2 DEF A!Webhook, A!GrowOld, A!history
    <3>2. \A v \in AccountUsers : /\ accountUsers'[v].there = accountUsers[v].there
                                  /\ accountUsers'[v].email = accountUsers[v].email
                                  /\ accountUsers'[v].admin = accountUsers[v].admin
      BY <2>2 DEF A!Webhook, A!GrowOld, AccountTypeInv, A!TypeOK, A!User
    <3> QED BY <3>1, <3>2 DEF AccountSteady, AccountSameAccounts, AccountCodesKept,
         AccountAdminsKept, A!AdminBits, A!Present
  <2> QED BY <1>4, <2>1, <2>2
<1> QED BY <1>1, <1>2, <1>3, <1>4 DEF A!Next, A!Deletion, A!World

-----------------------------------------------------------------------------
(* Codes and admins.                                                       *)

AccountHolders == A!OneCodeEach /\ A!AnAdminRemains

LEMMA AccountHoldersSteady ==
  ASSUME AccountTypeInv, A!Deployment, AccountHolders, AccountSteady
  PROVE  AccountHolders'
<1>1. A!Present' = A!Present /\ \A u \in AccountUsers :
    accountUsers'[u].email = accountUsers[u].email
  BY DEF AccountSteady, AccountSameAccounts, A!Present
<1>2. A!OneCodeEach'
  <2>1. \A u \in A!Present : u \in AccountUsers
    BY DEF A!Present
  <2> QED BY <1>1, <2>1 DEF A!OneCodeEach, AccountHolders, AccountSteady, AccountCodesKept
<1>3. A!AnAdminRemains'
  <2>1. CASE A!AdminBits \subseteq A!AdminBits'
    BY <2>1 DEF A!AnAdminRemains, AccountHolders, AccountSteady
  <2>2. ASSUME NEW u \in AccountUsers, Cardinality(A!AdminBits) > 1,
      A!AdminBits \ {u} \subseteq A!AdminBits'
        PROVE  A!AnAdminRemains'
    <3>1. A!AdminBits \subseteq {u} => A!AdminBits = {} \/ A!AdminBits = {u}
      OBVIOUS
    <3>2. Cardinality({}) = 0 /\ Cardinality({u}) = 1
      BY FS_EmptySet, FS_Singleton
    <3>3. A!AdminBits \ {u} # {}
      BY <2>2, <3>1, <3>2
    <3> QED BY <2>2, <3>3 DEF A!AnAdminRemains
  <2> QED BY <2>1, <2>2 DEF AccountSteady, AccountAdminsKept
<1> QED BY <1>2, <1>3 DEF AccountHolders

LEMMA AccountHoldersJoining ==
  ASSUME AccountTypeInv, A!Deployment, AccountHolders, AccountJoining
  PROVE  AccountHolders'
<1>1. PICK u \in A!Unborn, e \in Emails, k \in Codes :
        /\ ~ A!Taken(e) /\ accountCodes[k] = "free"
        /\ accountUsers' = [accountUsers EXCEPT ![u] = A!NewUser(e)]
        /\ accountCodes' = [accountCodes EXCEPT ![k] = u]
  BY DEF AccountJoining
<1>2. /\ accountUsers \in [AccountUsers -> A!User] /\ accountCodes \in [Codes -> A!CodeStates \cup AccountUsers]
      /\ u \in AccountUsers /\ accountUsers[u].there = "never"
  BY DEF AccountTypeInv, A!TypeOK, A!Unborn
<1>3. accountUsers'[u].there = "yes" /\ accountUsers'[u].email = e
  BY <1>1, <1>2, AccountNewUserType
<1>4. \A v \in AccountUsers \ {u} : accountUsers'[v] = accountUsers[v]
  BY <1>1, <1>2
<1>5. A!Present' = A!Present \cup {u}
  BY <1>2, <1>3, <1>4 DEF A!Present
<1>6. u \notin A!Present /\ A!Present \subseteq AccountUsers
  BY <1>2 DEF A!Present
<1>7. accountCodes'[k] = u /\ \A c \in Codes : accountCodes[c] \in AccountUsers
    => accountCodes'[c] = accountCodes[c]
  BY <1>1, <1>2 DEF A!Deployment, A!CodeStates
<1>8. \A v \in A!Present' \ Admins : \E c \in Codes : accountCodes'[c] = v
  BY <1>5, <1>6, <1>7 DEF AccountHolders, A!OneCodeEach
<1>9. \A v \in A!Present : accountUsers[v].email # e
  BY <1>1 DEF A!Taken
<1>10. \A v, x \in A!Present' \ Admins : accountUsers'[v].email = accountUsers'[x].email => v = x
  BY <1>3, <1>4, <1>5, <1>6, <1>9 DEF AccountHolders, A!OneCodeEach
<1>11. A!AdminBits \subseteq A!AdminBits'
  BY <1>4, <1>5, <1>6 DEF A!AdminBits
<1>12. A!AnAdminRemains'
  BY <1>11 DEF A!AnAdminRemains, AccountHolders, AccountJoining
<1> QED BY <1>8, <1>10, <1>12 DEF AccountHolders, A!OneCodeEach

LEMMA AccountHoldersLeaving ==
  ASSUME AccountTypeInv, A!Deployment, AccountHolders, AccountLeaving
  PROVE  AccountHolders'
<1>1. PICK u \in AccountUsers :
        /\ accountUsers' = [accountUsers EXCEPT ![u] = [A!NoUser EXCEPT !.there = "deleted"]]
        /\ accountResigned' = (accountResigned \/ u \in A!AdminBits)
  BY DEF AccountLeaving
<1>2. accountUsers \in [AccountUsers -> A!User]
  BY DEF AccountTypeInv, A!TypeOK
<1>3. \A v \in AccountUsers \ {u} : accountUsers'[v] = accountUsers[v]
  BY <1>1, <1>2
<1>4. accountUsers'[u].there = "deleted"
  BY <1>1, <1>2 DEF A!NoUser
<1>5. A!Present' = A!Present \ {u} /\ A!Present \subseteq AccountUsers
  BY <1>3, <1>4 DEF A!Present
<1>6. A!AdminBits' = A!AdminBits \ {u}
  BY <1>3, <1>5 DEF A!AdminBits
<1>7. A!OneCodeEach'
  BY <1>3, <1>5 DEF A!OneCodeEach, AccountHolders, AccountLeaving
<1>8. A!AnAdminRemains'
  BY <1>1, <1>6 DEF A!AnAdminRemains, AccountHolders
<1> QED BY <1>7, <1>8 DEF AccountHolders

LEMMA AccountHoldersInit ==
  ASSUME A!Deployment, A!Init
  PROVE  AccountHolders
<1>1. \A u \in AccountUsers : IF u \in Admins THEN accountUsers[u].there = "yes" /\ accountUsers[u].admin
                                              ELSE accountUsers[u].there = "never"
  BY DEF A!Init, A!NoUser
<1>2. A!Present = Admins /\ A!AdminBits = Admins
  BY <1>1 DEF A!Present, A!AdminBits, A!Deployment
<1> QED BY <1>2 DEF AccountHolders, A!OneCodeEach, A!AnAdminRemains, A!Deployment

LEMMA AccountHoldersStep ==
  ASSUME A!Deployment, AccountTypeInv, AccountHolders, [A!Next]_A!vars
  PROVE  AccountHolders'
<1>1. CASE UNCHANGED A!vars
  BY <1>1 DEF A!vars, AccountHolders, A!OneCodeEach, A!AnAdminRemains, A!AdminBits, A!Present
<1> QED BY <1>1, AccountFate, AccountHoldersSteady, AccountHoldersJoining, AccountHoldersLeaving

-----------------------------------------------------------------------------
(* Subscriptions.  A deletion that is past its hook, and one of the clean-  *)
(* up job that is past its guard, is of an account nobody charges, or of    *)
(* one whose checkout the history records as too late.                      *)

AccountSettled(u) == u \in accountCharged => u \in accountLate
AccountWillSettle(u) == u \in accountCharged' => u \in accountLate'

AccountChargeInv ==
  /\ A!NoOrphanedCharge
  /\ A!PayersAreSpared
  /\ \A w \in A!Workers : accountWorker[w].pc = "delete" => AccountSettled(accountWorker[w].user)
  /\ \A w \in Sweepers : /\ accountWorker[w].pc \in {"idle", "guard", "hook", "delete"}
                         /\ accountWorker[w].pc = "hook" => AccountSettled(accountWorker[w].user)

\* What worker w may be at once its step is done.
AccountCareful(w, j) ==
  /\ j.pc = "delete" => AccountWillSettle(j.user)
  /\ w \in Sweepers => /\ j.pc \in {"idle", "guard", "hook", "delete"}
                       /\ j.pc = "hook" => AccountWillSettle(j.user)

LEMMA AccountChargeStep ==
  ASSUME AccountTypeInv, AccountChargeInv, NEW w \in A!Workers, NEW j, A!Becomes(w, j), AccountCareful(w, j),
         accountCharged' \subseteq accountCharged, accountLate \subseteq accountLate',
             accountRobbed' \subseteq accountLate',
         \A u \in AccountUsers : accountUsers'[u].there = "deleted" =>
                                   accountUsers[u].there = "deleted" \/ AccountSettled(u)
  PROVE  AccountChargeInv'
<1>1. /\ accountWorker'[w] = j
      /\ \A v \in A!Workers \ {w} : accountWorker'[v] = accountWorker[v]
  BY DEF A!Becomes, AccountTypeInv, A!TypeOK
<1>2. \A u : AccountSettled(u) => AccountSettled(u)'
  BY DEF AccountSettled
<1>3. A!NoOrphanedCharge'
  BY <1>2 DEF AccountChargeInv, A!NoOrphanedCharge, AccountSettled, AccountTypeInv, A!TypeOK
<1>4. ASSUME NEW v \in A!Workers, accountWorker'[v].pc = "delete"
    PROVE AccountSettled(accountWorker[v].user)'
  BY <1>1, <1>2, <1>4 DEF AccountChargeInv, AccountCareful, AccountSettled, AccountWillSettle
<1>5. ASSUME NEW v \in Sweepers
      PROVE  /\ accountWorker'[v].pc \in {"idle", "guard", "hook", "delete"}
             /\ accountWorker'[v].pc = "hook" => AccountSettled(accountWorker[v].user)'
  <2>1. v \in A!Workers
    BY DEF A!Workers
  <2> QED BY <1>1, <1>2, <2>1 DEF AccountChargeInv, AccountCareful, AccountSettled,
       AccountWillSettle
<1> QED BY <1>3, <1>4, <1>5 DEF AccountChargeInv, A!PayersAreSpared

\* A step that ends a deletion, or is none, and lets nobody go.
LEMMA AccountChargeRest ==
  ASSUME AccountTypeInv, AccountChargeInv, NEW w \in A!Workers, NEW j, A!Becomes(w, j), AccountCareful(w, j),
         UNCHANGED <<accountCharged, accountLate, accountRobbed>>, AccountSameAccounts
  PROVE  AccountChargeInv'
<1>1. \A u \in AccountUsers : accountUsers'[u].there = "deleted"
    => accountUsers[u].there = "deleted"
  BY DEF AccountSameAccounts
<1> QED BY <1>1, AccountChargeStep DEF AccountChargeInv, A!PayersAreSpared

LEMMA AccountChargeRoute ==
  ASSUME AccountTypeInv, A!Deployment, AccountChargeInv, NEW w \in A!Workers, A!Route(w)
  PROVE  AccountChargeInv'
<1>1. UNCHANGED <<accountCharged, accountLate, accountRobbed>>
  <2>1. ASSUME AccountAmending(w) PROVE UNCHANGED <<accountCharged, accountLate, accountRobbed>>
    BY <2>1, AccountAmendFate
  <2> QED BY <2>1 DEF A!Route, AccountAmending, A!SignUp, A!StoreSignUp, A!DeleteOwn, A!Authorise,
       A!AuthoriseCode,
                      A!MintCode, A!RevokeCode, A!Remove, A!history
<1>2. \A v \in Requests : v \notin Sweepers
  BY DEF A!Deployment
<1>3. w \notin Sweepers \/ accountWorker[w].pc \notin {"signup", "act"}
  BY DEF AccountChargeInv
<1>4. \A u \in AccountUsers : accountUsers'[u].there = "deleted" => accountUsers[u].there = "deleted"
  <2>1. CASE AccountAmending(w)
    BY <2>1, AccountAmendFate DEF AccountSteady, AccountSameAccounts
  <2>2. CASE A!StoreSignUp(w)
    BY <2>2, AccountNewUserType DEF A!StoreSignUp, AccountTypeInv, A!TypeOK, AccountLocalsSet
  <2>3. CASE ~ AccountAmending(w) /\ ~ A!StoreSignUp(w)
    <3>1. UNCHANGED accountUsers
      BY <2>3 DEF A!Route, AccountAmending, A!SignUp, A!DeleteOwn, A!Authorise, A!AuthoriseCode,
         A!MintCode,
                  A!RevokeCode, A!Remove
    <3> QED BY <3>1
  <2> QED BY <2>1, <2>2, <2>3
<1>5. \E j : A!Becomes(w, j) /\ AccountCareful(w, j)
  <2>1. CASE AccountAmending(w)
    <3>1. A!Becomes(w, A!Rest)
      BY <2>1, AccountAmendEffect DEF A!Amend, A!Finish
    <3> QED BY <3>1 DEF AccountCareful, A!Rest
  <2>2. CASE A!StoreSignUp(w) \/ A!MintCode(w) \/ A!RevokeCode(w)
    <3>1. A!Becomes(w, A!Rest)
      BY <2>2 DEF A!StoreSignUp, A!MintCode, A!RevokeCode, A!Finish
    <3> QED BY <3>1 DEF AccountCareful, A!Rest
  <2>3. ASSUME NEW j, A!Begin(w, j), j.pc # "delete"
        PROVE  A!Becomes(w, j) /\ AccountCareful(w, j)
    BY <1>2, <2>3 DEF A!Begin, AccountCareful
  <2>4. ASSUME NEW e \in Emails, NEW k \in Codes, A!SignUp(w, e, k)
        PROVE  \E j : A!Becomes(w, j) /\ AccountCareful(w, j)
    <3>1. [A!Rest EXCEPT !.pc = "signup", !.email = e, !.code = k].pc # "delete"
      BY DEF A!Rest
    <3> QED BY <2>3, <2>4, <3>1 DEF A!SignUp
  <2>5. ASSUME NEW u \in AccountUsers, A!DeleteOwn(w, u)
        PROVE  \E j : A!Becomes(w, j) /\ AccountCareful(w, j)
    <3>1. [A!Rest EXCEPT !.pc = "hook", !.user = u].pc # "delete"
      BY DEF A!Rest
    <3> QED BY <2>3, <2>5, <3>1 DEF A!DeleteOwn
  <2>6. ASSUME NEW a \in AccountUsers, NEW u \in AccountUsers, NEW op \in A!Operations,
      A!Authorise(w, a, op, u)
        PROVE  \E j : A!Becomes(w, j) /\ AccountCareful(w, j)
    <3>1. [A!Rest EXCEPT !.pc = "act", !.op = op, !.user = u].pc # "delete"
      BY DEF A!Rest
    <3> QED BY <2>3, <2>6, <3>1 DEF A!Authorise
  <2>7. ASSUME NEW a \in AccountUsers, NEW k \in Codes, NEW op \in A!Operations,
               A!AuthoriseCode(w, a, op, k)
        PROVE  \E j : A!Becomes(w, j) /\ AccountCareful(w, j)
    <3>1. [A!Rest EXCEPT !.pc = "act", !.op = op, !.code = k].pc # "delete"
      BY DEF A!Rest
    <3> QED BY <2>3, <2>7, <3>1 DEF A!AuthoriseCode
  <2>8. CASE A!Remove(w)
    <3> DEFINE next == [accountWorker[w] EXCEPT !.pc = "hook"]
    <3>1. A!Becomes(w, next) \/ A!Becomes(w, A!Rest)
      BY <2>8 DEF A!Remove, A!Goto, A!Finish
    <3>2. next.pc = "hook" /\ w \notin Sweepers
      BY <1>3, <2>8 DEF A!Remove, A!Acts, AccountTypeInv, A!TypeOK, A!Worker
    <3>3. AccountCareful(w, next) /\ AccountCareful(w, A!Rest)
      BY <3>2 DEF AccountCareful, A!Rest
    <3> QED BY <3>1, <3>3
  <2>9. {"mint", "revoke"} \subseteq A!Operations
    BY DEF A!Operations
  <2> QED BY <2>1, <2>2, <2>4, <2>5, <2>6, <2>7, <2>8, <2>9 DEF A!Route, AccountAmending
<1> QED BY <1>1, <1>4, <1>5, AccountChargeStep DEF AccountChargeInv, A!PayersAreSpared

LEMMA AccountChargeSweep ==
  ASSUME AccountTypeInv, AccountChargeInv, NEW w \in A!Workers, A!Sweep(w)
  PROVE  AccountChargeInv'
<1> DEFINE j == accountWorker[w]
<1>1. UNCHANGED <<accountUsers, accountCharged, accountLate, accountRobbed>>
  BY DEF A!Sweep, A!SelectAbandoned, A!AskGuards, A!EndSweep, A!history
<1>2. \E k : A!Becomes(w, k) /\ AccountCareful(w, k)
  <2>1. CASE A!SelectAbandoned(w)
    <3> DEFINE next == [A!Rest EXCEPT !.pc = "guard",
                                      !.todo = {u \in AccountUsers :
                                          A!Abandoned(u) /\ ~ accountUsers[u].paying}]
    <3>1. A!Becomes(w, next) /\ next.pc = "guard"
      BY <2>1 DEF A!SelectAbandoned, A!Rest
    <3> QED BY <3>1 DEF AccountCareful
  <2>2. CASE A!AskGuards(w)
    <3>1. PICK u \in j.todo :
            \/ u \notin accountCharged
               /\ A!Becomes(w, [[j EXCEPT !.todo = @ \ {u}] EXCEPT !.pc = "hook", !.user = u])
            \/ A!Becomes(w, [j EXCEPT !.todo = @ \ {u}])
      BY <2>2 DEF A!AskGuards
    <3> DEFINE next == [j EXCEPT !.todo = @ \ {u}]
               hook == [next EXCEPT !.pc = "hook", !.user = u]
    <3>2. next \in A!Worker /\ next.pc = "guard"
      BY <2>2 DEF A!AskGuards, AccountTypeInv, A!TypeOK, A!Worker
    <3> HIDE DEF next
    <3>3. hook.pc = "hook" /\ hook.user = u
      BY <3>2 DEF A!Worker
    <3>4. AccountCareful(w, next)
      BY <3>2 DEF AccountCareful
    <3>5. u \notin accountCharged => AccountCareful(w, hook)
      BY <1>1, <3>3 DEF AccountCareful, AccountWillSettle
    <3> QED BY <3>1, <3>4, <3>5 DEF next
  <2>3. CASE A!EndSweep(w)
    BY <2>3 DEF A!EndSweep, A!Finish, AccountCareful, A!Rest
  <2> QED BY <2>1, <2>2, <2>3 DEF A!Sweep
<1> QED BY <1>1, <1>2, AccountChargeRest DEF AccountSameAccounts

LEMMA AccountChargeDeletion ==
  ASSUME AccountTypeInv, AccountChargeInv, NEW w \in A!Workers, A!Deletion(w)
  PROVE  AccountChargeInv'
<1> DEFINE j == accountWorker[w]
           u == j.user
           gone == [j EXCEPT !.pc = "delete"]
           other == [j EXCEPT !.pc = "guard", !.user = Nobody]
<1>1. j \in A!Worker /\ accountUsers \in [AccountUsers -> A!User]
  BY DEF AccountTypeInv, A!TypeOK
<1>2. gone.pc = "delete" /\ gone.user = u /\ other.pc = "guard" /\ A!Rest.pc = "idle"
  BY <1>1 DEF A!Worker, A!Rest
<1>3. AccountCareful(w, other) /\ AccountCareful(w, A!Rest)
    /\ (AccountWillSettle(u) => AccountCareful(w, gone))
  BY <1>2 DEF AccountCareful
<1>4. CASE A!RunHooks(w)
  <2>1. UNCHANGED accountUsers
    BY <1>4 DEF A!RunHooks
  <2>2. CASE /\ accountCharged' = accountCharged \ {u} /\ A!Becomes(w, gone) /\ UNCHANGED accountLate
             /\ accountRobbed' = IF w \in Sweepers
                  /\ u \in accountCharged THEN accountRobbed \cup {u} ELSE accountRobbed
    <3>1. AccountWillSettle(u)
      BY <2>2 DEF AccountWillSettle
    <3>2. w \in Sweepers /\ u \in accountCharged => u \in accountLate
      BY <1>4 DEF A!RunHooks, AccountChargeInv, AccountSettled
    <3>3. accountRobbed' \subseteq accountLate'
      BY <2>2, <3>2 DEF AccountChargeInv, A!PayersAreSpared
    <3> QED BY <1>3, <2>1, <2>2, <3>1, <3>3, AccountChargeStep
  <2>3. CASE UNCHANGED <<accountCharged, accountLate, accountRobbed>>
      /\ (A!Becomes(w, other) \/ A!Becomes(w, A!Rest))
    BY <1>3, <2>1, <2>3, AccountChargeRest DEF AccountSameAccounts
  <2>4. CASE accountLate' = accountLate \cup {u} /\ A!Becomes(w, gone) /\ UNCHANGED <<accountCharged, accountRobbed>>
    <3>1. AccountWillSettle(u) /\ accountRobbed' \subseteq accountLate'
      BY <2>4 DEF AccountWillSettle, AccountChargeInv, A!PayersAreSpared
    <3> QED BY <1>3, <2>1, <2>4, <3>1, AccountChargeStep
  <2> QED BY <1>4, <2>2, <2>3, <2>4 DEF A!RunHooks, A!Goto, A!NextAccount, A!Finish
<1>5. CASE A!Delete(w)
  <2>1. /\ accountUsers' = [accountUsers EXCEPT ![u] = [A!NoUser EXCEPT !.there = "deleted"]]
        /\ A!Becomes(w, other) \/ A!Becomes(w, A!Rest)
        /\ UNCHANGED <<accountCharged, accountLate, accountRobbed>>
    BY <1>5 DEF A!Delete, A!NextAccount, A!Finish
  <2>2. AccountSettled(u)
    BY <1>5 DEF A!Delete, AccountChargeInv
  <2>3. \A v \in AccountUsers : accountUsers'[v].there = "deleted"
      => accountUsers[v].there = "deleted" \/ AccountSettled(v)
    BY <1>1, <2>1, <2>2
  <2> QED BY <1>3, <2>1, <2>3, AccountChargeStep DEF AccountChargeInv, A!PayersAreSpared
<1> QED BY <1>4, <1>5 DEF A!Deletion

LEMMA AccountChargeWorld ==
  ASSUME AccountTypeInv, AccountChargeInv, A!World
  PROVE  AccountChargeInv'
<1>1. PICK u \in AccountUsers : A!Checkout(u) \/ A!Webhook(u) \/ A!GrowOld(u)
  BY DEF A!World
<1>2. UNCHANGED <<accountWorker, accountRobbed>> /\ accountLate \subseteq accountLate'
  BY <1>1 DEF A!Checkout, A!Webhook, A!GrowOld, A!history
<1>3. \A v \in AccountUsers : accountUsers'[v].there = accountUsers[v].there
  BY <1>1 DEF A!Checkout, A!Webhook, A!GrowOld, AccountTypeInv, A!TypeOK, A!User
<1>4. \A v \in AccountUsers \ {u} : AccountSettled(v) => AccountSettled(v)'
  BY <1>1, <1>2 DEF A!Checkout, A!Webhook, A!GrowOld, A!history, AccountSettled
<1>5. \A w \in A!Workers :
        accountWorker[w].pc \in {"hook", "delete"}
            => (AccountSettled(accountWorker[w].user) => AccountSettled(accountWorker[w].user)')
  <2> SUFFICES ASSUME NEW w \in A!Workers, accountWorker[w].pc \in {"hook", "delete"},
                      AccountSettled(accountWorker[w].user)
               PROVE  AccountSettled(accountWorker[w].user)'
    OBVIOUS
  <2>1. accountWorker[w].user \in AccountUsers
    BY DEF AccountTypeInv, AccountLocalsSet
  <2>2. CASE accountWorker[w].user = u
    BY <1>1, <1>2, <2>2 DEF A!Checkout, A!Webhook, A!GrowOld, A!history, AccountSettled
  <2> QED BY <1>2, <1>4, <2>1, <2>2 DEF AccountSettled
<1>6. accountUsers[u].there = "yes"
  BY <1>1 DEF A!Checkout, A!Webhook, A!GrowOld, A!Present
<1>7. A!NoOrphanedCharge'
  <2>1. accountCharged' \subseteq AccountUsers /\ accountCharged' \subseteq accountCharged \cup {u}
    BY <1>1 DEF A!Checkout, A!Webhook, A!GrowOld, AccountTypeInv, A!TypeOK
  <2> SUFFICES ASSUME NEW v \in accountCharged', accountUsers'[v].there = "deleted"
      PROVE v \in accountLate'
    BY DEF A!NoOrphanedCharge
  <2>2. v # u /\ v \in AccountUsers /\ accountUsers[v].there = "deleted"
    BY <1>3, <1>6, <2>1
  <2> QED BY <1>2, <2>1, <2>2 DEF AccountChargeInv, A!NoOrphanedCharge
<1>8. \A w \in Sweepers : w \in A!Workers
  BY DEF A!Workers
<1> QED BY <1>2, <1>5, <1>7, <1>8 DEF AccountChargeInv, A!PayersAreSpared, AccountSettled

LEMMA AccountChargeInit ==
  ASSUME A!Init
  PROVE  AccountChargeInv
BY DEF A!Init, AccountChargeInv, A!NoOrphanedCharge, A!PayersAreSpared, A!Workers, A!Rest

LEMMA AccountChargeKept ==
  ASSUME A!Deployment, AccountTypeInv, AccountChargeInv, [A!Next]_A!vars
  PROVE  AccountChargeInv'
<1>1. CASE UNCHANGED A!vars
  BY <1>1 DEF A!vars, AccountChargeInv, A!NoOrphanedCharge, A!PayersAreSpared, AccountSettled
<1> QED BY <1>1, AccountChargeRoute, AccountChargeSweep, AccountChargeDeletion, AccountChargeWorld
     DEF A!Next

-----------------------------------------------------------------------------
(* The inductive invariant, and what follows from it.                      *)

AccountIInv == AccountTypeInv /\ AccountHolders /\ AccountChargeInv

LEMMA AccountInvInit == A!Deployment /\ A!Init => AccountIInv
BY AccountTypeInit, AccountHoldersInit, AccountChargeInit DEF AccountIInv

LEMMA AccountInvStep == A!Deployment /\ AccountIInv /\ [A!Next]_A!vars => AccountIInv'
BY AccountTypeStep, AccountHoldersStep, AccountChargeKept DEF AccountIInv

LEMMA AccountInvImplies ==
  AccountIInv => A!TypeOK /\ A!OneCodeEach /\ A!AnAdminRemains /\ A!NoOrphanedCharge
      /\ A!PayersAreSpared
BY DEF AccountIInv, AccountTypeInv, AccountHolders, AccountChargeInv

LEMMA AccountInvHolds ==
  ASSUME A!Deployment
  PROVE  A!Spec => []AccountIInv
BY AccountInvInit, AccountInvStep, PTL DEF A!Spec

\* Every variable keeps its type, however many requests and jobs overlap.
THEOREM AccountTypeCorrect ==
  ASSUME A!Deployment
  PROVE  A!Spec => []A!TypeOK
BY AccountInvImplies, AccountInvHolds, PTL

\* register_submit stores the account and consumes the code together: everyone who
\* signed up has used a code of their own, and no address has two accounts,
\* whichever sign-ups, deletions and admin actions overlap.
THEOREM CodesAreUsedOnce ==
  ASSUME A!Deployment
  PROVE  A!Spec => []A!OneCodeEach
BY AccountInvImplies, AccountInvHolds, PTL

\* _admin_guard_last_admin: any number of admins who demote and suspend each other
\* leave an admin, unless an admin's account was deleted.
THEOREM LastAdminStays ==
  ASSUME A!Deployment
  PROVE  A!Spec => []A!AnAdminRemains
BY AccountInvImplies, AccountInvHolds, PTL

\* Whichever of the three ways an account is deleted, and whatever overlaps it:
\* nobody pays for a deleted account, unless the checkout ended too late for the
\* deletion to see it, or the hook failed without a veto.
THEOREM ChargesEndWithAccounts ==
  ASSUME A!Deployment
  PROVE  A!Spec => []A!NoOrphanedCharge
BY AccountInvImplies, AccountInvHolds, PTL

\* cleanup_pending_accounts takes an account with a subscription only if the
\* checkout ended after its guard had asked Stripe, for any number of clean-ups.
THEOREM CleanUpSparesPayers ==
  ASSUME A!Deployment
  PROVE  A!Spec => []A!PayersAreSpared
BY AccountInvImplies, AccountInvHolds, PTL
=============================================================================
