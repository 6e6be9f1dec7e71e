------------------------- MODULE OwnerConsoleProofs -------------------------
(***************************************************************************)
(* Proofs about OwnerConsole, for any number of accounts, campaigns,       *)
(* invitations and concurrent transactions.                                *)
(***************************************************************************)
EXTENDS OwnerConsole, TLAPS

-----------------------------------------------------------------------------
(* An update keeps the types of a row and raises its revision.             *)
LEMMA AccountAfterType ==
  ASSUME NEW row \in AccountRows, NEW change \in AccountChanges
  PROVE  /\ AccountAfter(row, change) \in AccountRows
         /\ AccountAfter(row, change).revision = row.revision + 1
         /\ AccountAfter(row, change).status
              = IF change.field = "status" THEN change.value ELSE row.status
<1>1. /\ row.status \in {"none", "pending", "active", "suspended", "disabled"}
      /\ row.advertiser \in {"no", "yes"} /\ row.settings \in Settings
      /\ row.revision + 1 \in Nat
  BY DEF AccountRows
<1>2. CASE change \in [field : {"status"}, value : {"active", "suspended", "disabled"}]
  <2>1. change.field = "status" /\ change.value \in {"active", "suspended", "disabled"}
    BY <1>2
  <2>2. AccountAfter(row, change) =
         [status |-> change.value, advertiser |-> row.advertiser,
          settings |-> row.settings, revision |-> row.revision + 1]
    <3>1. AccountAfter(row, change)
            = [row EXCEPT !["status"] = change.value, !["revision"] = row.revision + 1]
      BY <2>1 DEF AccountAfter
    <3>. QED
      BY <3>1 DEF AccountRows
  <2>3. AccountAfter(row, change) \in AccountRows
    BY <1>1, <2>1, <2>2 DEF AccountRows
  <2>. QED
    BY <2>1, <2>2, <2>3
<1>3. CASE change \in [field : {"advertiser"}, value : {"no", "yes"}]
  <2>1. change.field = "advertiser" /\ change.value \in {"no", "yes"}
    BY <1>3
  <2>2. AccountAfter(row, change) =
         [status |-> row.status, advertiser |-> change.value,
          settings |-> row.settings, revision |-> row.revision + 1]
    <3>1. AccountAfter(row, change)
            = [row EXCEPT !["advertiser"] = change.value, !["revision"] = row.revision + 1]
      BY <2>1 DEF AccountAfter
    <3>. QED
      BY <3>1 DEF AccountRows
  <2>3. AccountAfter(row, change) \in AccountRows
    BY <1>1, <2>1, <2>2 DEF AccountRows
  <2>. QED
    BY <2>1, <2>2, <2>3
<1>4. CASE change \in [field : {"settings"}, value : Settings]
  <2>1. change.field = "settings" /\ change.value \in Settings
    BY <1>4
  <2>2. AccountAfter(row, change) =
         [status |-> row.status, advertiser |-> row.advertiser,
          settings |-> change.value, revision |-> row.revision + 1]
    <3>1. AccountAfter(row, change)
            = [row EXCEPT !["settings"] = change.value, !["revision"] = row.revision + 1]
      BY <2>1 DEF AccountAfter
    <3>. QED
      BY <3>1 DEF AccountRows
  <2>3. AccountAfter(row, change) \in AccountRows
    BY <1>1, <2>1, <2>2 DEF AccountRows
  <2>. QED
    BY <2>1, <2>2, <2>3
<1>. QED
  BY <1>2, <1>3, <1>4 DEF AccountChanges

LEMMA CampaignAfterType ==
  ASSUME NEW row \in CampaignRows, NEW change \in CampaignChanges
  PROVE  /\ CampaignAfter(row, change) \in CampaignRows
         /\ CampaignAfter(row, change).revision = row.revision + 1
         /\ CampaignAfter(row, change).active
              <=> change \in {"approve_and_activate", "activate"}
         /\ CampaignAfter(row, change).review
              = CASE change \in {"approve", "approve_and_activate"} -> "approved"
                  [] change = "reject" -> "rejected"
                  [] OTHER             -> row.review
<1>1. row.review \in {"none", "pending", "approved", "rejected"} /\ row.revision + 1 \in Nat
  BY DEF CampaignRows
<1>2. CampaignAfter(row, change) \in CampaignRows
  BY <1>1 DEF CampaignAfter, CampaignRows
<1>3. /\ CampaignAfter(row, change).revision = row.revision + 1
      /\ CampaignAfter(row, change).active
           = (change \in {"approve_and_activate", "activate"})
      /\ CampaignAfter(row, change).review
           = CASE change \in {"approve", "approve_and_activate"} -> "approved"
               [] change = "reject" -> "rejected"
               [] OTHER             -> row.review
  BY DEF CampaignAfter
<1>. QED
  BY <1>2, <1>3

LEMMA ActivatedType ==
  ASSUME NEW row \in AccountRows
  PROVE  /\ Activated(row) \in AccountRows
         /\ Activated(row) = row \/ Activated(row).revision = row.revision + 1
         /\ Activated(row).status
              = IF row.status \in {"none", "pending"} THEN "active" ELSE row.status
<1>1. CASE row.status \in {"none", "pending"}
  <2>1. Activated(row) = [status |-> "active", advertiser |-> row.advertiser,
                          settings |-> row.settings, revision |-> row.revision + 1]
    BY <1>1 DEF Activated, AccountRows
  <2>2. row.advertiser \in {"no", "yes"} /\ row.settings \in Settings /\ row.revision + 1 \in Nat
    BY DEF AccountRows
  <2>. QED
    BY <1>1, <2>1, <2>2 DEF AccountRows
<1>2. CASE row.status \notin {"none", "pending"}
  BY <1>2 DEF Activated
<1>. QED
  BY <1>1, <1>2

-----------------------------------------------------------------------------
(***************************************************************************)
(* The inductive invariant: a row is locked by one transaction, whose copy *)
(* of it is therefore current, and what the transaction has checked of it  *)
(* still holds when it writes.                                             *)
(***************************************************************************)
Txns == {NoTxn} \cup AccountTxns \cup CampaignTxns \cup Registrations

OneHolder ==
  \A r \in Requests, q \in Requests :
    Holds(r, txn[r].on) /\ Holds(q, txn[r].on) => r = q

MayWriteCampaign(row, change) ==
  /\ row.review # "none"
  /\ \/ CampaignAchieved(row, change)
     \/ /\ change \in {"approve", "approve_and_activate", "reject"} => row.review = "pending"
        /\ change = "activate" => row.review = "approved"

CopyCurrent(t) ==
  t.step \in {"counting", "writing"} =>
    /\ t.seen = RowOf(t.on)
    /\ t.on \in Accounts => t.seen.status # "none"
    /\ t.on \in Campaigns => MayWriteCampaign(t.seen, t.change)

ClaimSound(t) ==
  t.step = "claiming" =>
    /\ t.on = EmailOf[t.who]
    /\ invite[t.on].status # "invited" => invite[t.on].by = t.who

AllSound == \A r \in Requests : CopyCurrent(txn[r]) /\ ClaimSound(txn[r])

InvitedHasNoClaim == \A e \in Emails : invite[e].status = "invited" => invite[e].by = NoOne

ConsoleInv ==
  /\ TypeOK /\ OneHolder /\ AllSound /\ InvitedHasNoClaim
  /\ AuditIsChain /\ ActiveIsApproved /\ OneAccountPerInvite

(* The steps of a transaction determine its kind.                          *)
LEMMA TxnKinds ==
  ASSUME NEW t \in Txns
  PROVE  /\ t.step \in {"idle", "asked", "counting", "writing", "claiming"}
         /\ t.step = "idle" => t = NoTxn
         /\ t.step \in {"asked", "counting", "writing"} =>
              /\ t.on \in Accounts \cup Campaigns
              /\ t.on \in Accounts => t.change \in AccountChanges
              /\ t.on \in Campaigns => t.change \in CampaignChanges
         /\ t.step = "counting" => t.on \in Accounts
         /\ t.step \in {"counting", "writing"} =>
              /\ t.on \in Accounts => t.seen \in AccountRows
              /\ t.on \in Campaigns => t.seen \in CampaignRows
         /\ t.step = "claiming" => t.on \in Emails /\ t.who \in Accounts
<1>. USE ConsoleAssumption DEF ConsoleAssumption
<1>1. CASE t = NoTxn
  BY <1>1 DEF NoTxn
<1>2. CASE t \in [step : {"asked"}, on : Accounts, change : AccountChanges, expected : Nat]
  BY <1>2
<1>3. CASE t \in [step : {"counting", "writing"}, on : Accounts, change : AccountChanges,
                  seen : AccountRows]
  BY <1>3
<1>4. CASE t \in [step : {"asked"}, on : Campaigns, change : CampaignChanges, expected : Nat]
  BY <1>4
<1>5. CASE t \in [step : {"writing"}, on : Campaigns, change : CampaignChanges,
                  seen : CampaignRows]
  BY <1>5
<1>6. CASE t \in Registrations
  BY <1>6 DEF Registrations
<1>. QED
  BY <1>1, <1>2, <1>3, <1>4, <1>5, <1>6 DEF Txns, AccountTxns, CampaignTxns

LEMMA InitInv == Init => ConsoleInv
<1>. SUFFICES ASSUME Init PROVE ConsoleInv
  OBVIOUS
<1>. USE ConsoleAssumption DEF ConsoleAssumption
<1>1. account \in [Accounts -> AccountRows]
  BY DEF Init, AccountRows
<1>2. campaign \in [Campaigns -> CampaignRows]
  <2>1. NoCampaign \in CampaignRows /\ Submitted \in CampaignRows
    BY DEF CampaignRows, NoCampaign, Submitted
  <2>2. campaign \in [Campaigns -> {NoCampaign, Submitted}]
    BY DEF Init
  <2>. QED
    BY <2>1, <2>2
<1>3. invite \in [Emails -> Invitations] /\ InvitedHasNoClaim
  BY DEF Init, Invitations, InvitedHasNoClaim
<1>4. TypeOK
  BY <1>1, <1>2, <1>3 DEF Init, TypeOK
<1>5. \A r \in Requests : txn[r].step = "idle"
  BY DEF Init, NoTxn
<1>6. OneHolder /\ AllSound
  BY <1>5 DEF OneHolder, Holds, AllSound, CopyCurrent, ClaimSound
<1>7. AuditIsChain
  <2>1. audit = <<>>
    BY DEF Init
  <2>2. Len(audit) = 0 /\ audit \in Seq(AuditEvents)
    BY <2>1
  <2>3. DOMAIN audit = {}
    BY <2>2
  <2>. QED
    BY <2>3 DEF AuditIsChain
<1>8. ActiveIsApproved
  BY DEF Init, ActiveIsApproved, NoCampaign, Submitted
<1>9. OneAccountPerInvite
  BY DEF Init, OneAccountPerInvite
<1>. QED
  BY <1>3, <1>4, <1>6, <1>7, <1>8, <1>9 DEF ConsoleInv

(* A transaction that only moves on keeps the invariant, if it is sound    *)
(* afterwards and takes no row that another holds.                         *)
LEMMA TxnMoves ==
  ASSUME ConsoleInv, NEW r \in Requests, NEW t \in Txns, Becomes(r, t),
         UNCHANGED <<account, campaign, invite, audit>>,
         CopyCurrent(t), ClaimSound(t),
         t.step \in {"counting", "writing", "claiming"} =>
           Free(t.on) \/ Holds(r, t.on)
  PROVE  ConsoleInv'
<1>1. TypeOK'
  BY DEF ConsoleInv, TypeOK, Becomes, Txns
<1>2. \A q \in Requests : txn'[q] = IF q = r THEN t ELSE txn[q]
  BY DEF ConsoleInv, TypeOK, Becomes
<1>3. OneHolder'
  <2>1. \A q \in Requests : \A x : q # r => Holds(q, x)' = Holds(q, x)
    BY <1>2 DEF Holds
  <2>2. \A x : Holds(r, x)' => x = t.on /\ (Free(t.on) \/ Holds(r, t.on))
    BY <1>2 DEF Holds
  <2>3. \A q \in Requests : \A x : q # r /\ Holds(r, x)' => ~Holds(q, x)
    BY <2>2 DEF ConsoleInv, OneHolder, Free, Holds
  <2>. QED
    BY <1>2, <2>1, <2>3 DEF ConsoleInv, OneHolder, Holds
<1>4. AllSound'
  <2>1. \A x : (RowOf(x))' = RowOf(x)
    BY DEF RowOf
  <2>. QED
    BY <1>2, <2>1 DEF ConsoleInv, AllSound, CopyCurrent, ClaimSound
<1>5. InvitedHasNoClaim' /\ ActiveIsApproved' /\ OneAccountPerInvite'
  BY DEF ConsoleInv, InvitedHasNoClaim, ActiveIsApproved, OneAccountPerInvite
<1>6. AuditIsChain'
  BY DEF ConsoleInv, AuditIsChain, RowOf, Follows
<1>. QED
  BY <1>1, <1>3, <1>4, <1>5, <1>6 DEF ConsoleInv

(* Writing rows that no other transaction has locked leaves the copies of  *)
(* the others current.                                                     *)
LEMMA OthersUndisturbed ==
  ASSUME ConsoleInv, NEW x, NEW f,
         \A q \in Requests :
           txn'[q] = NoTxn \/ (txn'[q] = txn[q] /\ ~Holds(q, x) /\ ~Holds(q, f)),
         \A y \in Accounts \cup Campaigns : y # x => RowOf(y)' = RowOf(y),
         \A e \in Emails : e # f => invite'[e] = invite[e]
  PROVE  OneHolder' /\ AllSound'
<1>1. \A q \in Requests : txn[q] \in Txns
  BY DEF ConsoleInv, TypeOK, Txns
<1>2. OneHolder'
  BY DEF ConsoleInv, OneHolder, Holds, NoTxn
<1>3. AllSound'
  <2>. SUFFICES ASSUME NEW q \in Requests
                PROVE  CopyCurrent(txn[q])' /\ ClaimSound(txn[q])'
    BY DEF AllSound
  <2>1. CASE txn'[q] = NoTxn
    BY <2>1 DEF NoTxn, CopyCurrent, ClaimSound
  <2>2. CASE txn'[q] = txn[q] /\ ~Holds(q, x) /\ ~Holds(q, f)
    <3>1. txn[q].step \in {"counting", "writing"} => RowOf(txn[q].on)' = RowOf(txn[q].on)
      BY <1>1, <2>2, TxnKinds DEF Holds
    <3>2. txn[q].step = "claiming" => invite'[txn[q].on] = invite[txn[q].on]
      BY <1>1, <2>2, TxnKinds DEF Holds
    <3>3. CopyCurrent(txn[q]) /\ ClaimSound(txn[q])
      BY DEF ConsoleInv, AllSound
    <3>4. CopyCurrent(txn[q])'
      BY <2>2, <3>1, <3>3 DEF CopyCurrent
    <3>5. ClaimSound(txn[q])'
      BY <2>2, <3>2, <3>3 DEF ClaimSound
    <3>. QED
      BY <3>4, <3>5
  <2>. QED
    BY <2>1, <2>2
<1>. QED
  BY <1>2, <1>3

(* A row that changes has a higher revision, and what is appended tells of *)
(* the row before and after: the trail remains a chain.                    *)
LEMMA ChainExtends ==
  ASSUME ConsoleInv, NEW x \in Accounts \cup Campaigns,
         RowOf(x)' = RowOf(x) \/ RowOf(x)'.revision = RowOf(x).revision + 1,
         \A y \in Accounts \cup Campaigns : y # x => RowOf(y)' = RowOf(y),
         \/ audit' = audit
         \/ audit' = Append(audit, [on |-> x, previous |-> RowOf(x), resulting |-> RowOf(x)'])
  PROVE  AuditIsChain'
<1>1. audit \in Seq(AuditEvents) /\ AuditIsChain
  BY DEF ConsoleInv, TypeOK
<1>2. \A i \in DOMAIN audit :
        /\ audit[i].on \in Accounts \cup Campaigns
        /\ audit[i].resulting.revision \in Nat /\ audit[i].previous.revision \in Nat
  <2>. SUFFICES ASSUME NEW i \in DOMAIN audit
                PROVE  /\ audit[i].on \in Accounts \cup Campaigns
                       /\ audit[i].resulting.revision \in Nat
                       /\ audit[i].previous.revision \in Nat
    OBVIOUS
  <2>1. audit[i] \in AuditEvents
    BY <1>1
  <2>. QED
    BY <2>1 DEF AuditEvents, AccountRows, CampaignRows
<1>3. \A y \in Accounts \cup Campaigns : RowOf(y).revision \in Nat
  BY ConsoleAssumption DEF ConsoleInv, TypeOK, RowOf, AccountRows, CampaignRows
<1>4. \A i \in DOMAIN audit, y \in Accounts \cup Campaigns :
        audit[i].on = y => Follows(audit[i].resulting, RowOf(y)')
  BY <1>1, <1>2, <1>3 DEF AuditIsChain, Follows
<1>5. CASE audit' = audit
  BY <1>1, <1>2, <1>4, <1>5 DEF AuditIsChain
<1>6. CASE audit' = Append(audit, [on |-> x, previous |-> RowOf(x), resulting |-> RowOf(x)'])
  <2>. DEFINE n == Len(audit) + 1
  <2>1. /\ DOMAIN audit' = (DOMAIN audit) \cup {n} /\ n \notin DOMAIN audit
        /\ \A i \in DOMAIN audit : audit'[i] = audit[i] /\ i < n
        /\ audit'[n] = [on |-> x, previous |-> RowOf(x), resulting |-> RowOf(x)']
    BY <1>1, <1>6
  <2>2. \A i \in DOMAIN audit : audit[i].on = x => Follows(audit[i].resulting, RowOf(x))
    BY <1>1 DEF AuditIsChain
  <2>3. Follows(RowOf(x)', RowOf(x)')
    BY <1>3 DEF Follows
  <2>. QED
    BY <1>1, <1>2, <1>4, <2>1, <2>2, <2>3 DEF AuditIsChain
<1>. QED
  BY <1>5, <1>6

LEMMA WriteAccountKeeps ==
  ASSUME ConsoleInv, NEW r \in Requests, WriteAccount(r)
  PROVE  ConsoleInv'
<1>. DEFINE a == txn[r].on
            seen == txn[r].seen
            change == txn[r].change
            done == Achieved(seen, change)
            result == IF done THEN seen ELSE AccountAfter(account[a], change)
<1>. USE ConsoleAssumption DEF ConsoleAssumption
<1>1. txn[r] \in Txns /\ CopyCurrent(txn[r]) /\ account[a] \in AccountRows
  BY DEF ConsoleInv, TypeOK, Txns, AllSound, WriteAccount
<1>2. a \in Accounts /\ change \in AccountChanges
  BY <1>1, TxnKinds DEF WriteAccount
<1>3. seen = account[a] /\ seen.status # "none"
  BY <1>1, <1>2 DEF CopyCurrent, RowOf, WriteAccount
<1>4. /\ result \in AccountRows /\ result.status # "none"
      /\ result = account[a] \/ result.revision = account[a].revision + 1
  <2>1. change.field = "status" => change.value # "none"
    BY <1>2 DEF AccountChanges
  <2>. QED
    BY <1>1, <1>2, <1>3, <2>1, AccountAfterType
<1>5. account' = [account EXCEPT ![a] = result]
  <2>1. account \in [Accounts -> AccountRows]
    BY DEF ConsoleInv, TypeOK
  <2>2. CASE done
    <3>1. account' = account /\ result = account[a]
      BY <1>3, <2>2 DEF WriteAccount
    <3>. HIDE DEF a, result
    <3>. QED
      BY <1>2, <2>1, <3>1
  <2>3. CASE ~done
    <3>1. account' = [account EXCEPT ![a] = AccountAfter(account[a], change)]
      BY <2>3, Zenon DEF WriteAccount
    <3>2. result = AccountAfter(account[a], change)
      BY <2>3
    <3>. HIDE DEF a, result, change
    <3>. QED
      BY <3>1, <3>2
  <2>. QED
    BY <2>2, <2>3
<1>6. /\ UNCHANGED <<campaign, invite>>
      /\ audit' = Append(audit, [on |-> a, previous |-> account[a], resulting |-> result])
      /\ txn' = [txn EXCEPT ![r] = NoTxn]
  BY <1>3 DEF WriteAccount, Ends
<1>. HIDE DEF a, seen, change, done, result
<1>7. TypeOK'
  <2>1. [on |-> a, previous |-> account[a], resulting |-> result] \in AuditEvents
    BY <1>1, <1>2, <1>4 DEF AuditEvents
  <2>. QED
    BY <1>2, <1>4, <1>5, <1>6, <2>1 DEF ConsoleInv, TypeOK
<1>8. /\ RowOf(a) = account[a] /\ account'[a] = result
      /\ \A b \in Accounts \ {a} : account'[b] = account[b]
  BY <1>2, <1>5 DEF ConsoleInv, TypeOK, RowOf
<1>9. OneHolder' /\ AllSound'
  <2>1. \A q \in Requests : txn'[q] = IF q = r THEN NoTxn ELSE txn[q]
    BY <1>6 DEF ConsoleInv, TypeOK
  <2>2. Holds(r, a)
    BY DEF a, Holds, WriteAccount
  <2>3. PICK x \in Accounts : x = a
    BY <1>2
  <2>4. \A q \in Requests :
          txn'[q] = NoTxn \/ (txn'[q] = txn[q] /\ ~Holds(q, x) /\ ~Holds(q, x))
    BY <2>1, <2>2, <2>3 DEF ConsoleInv, OneHolder, Holds
  <2>5. \A y \in Accounts \cup Campaigns : y # x => RowOf(y)' = RowOf(y)
    BY <1>6, <1>8, <2>3 DEF RowOf
  <2>6. \A e \in Emails : e # x => invite'[e] = invite[e]
    BY <1>6
  <2>. QED
    BY <2>4, <2>5, <2>6, OthersUndisturbed
<1>10. AuditIsChain'
  <2>1. \A b \in Accounts \cup Campaigns :
          RowOf(b)' = IF b = a THEN result ELSE RowOf(b)
    BY <1>2, <1>6, <1>8 DEF RowOf
  <2>2. PICK x \in Accounts : x = a
    BY <1>2
  <2>3. RowOf(x)' = RowOf(x) \/ RowOf(x)'.revision = RowOf(x).revision + 1
    BY <1>4, <1>8, <2>1, <2>2
  <2>4. audit' = Append(audit, [on |-> x, previous |-> RowOf(x), resulting |-> RowOf(x)'])
    BY <1>6, <1>8, <2>1, <2>2
  <2>5. \A y \in Accounts \cup Campaigns : y # x => RowOf(y)' = RowOf(y)
    BY <2>1, <2>2
  <2>. QED
    BY <2>3, <2>4, <2>5, ChainExtends
<1>11. InvitedHasNoClaim' /\ ActiveIsApproved'
  BY <1>6 DEF ConsoleInv, InvitedHasNoClaim, ActiveIsApproved
<1>12. OneAccountPerInvite'
  <2>1. account[a].status # "none"
    BY <1>3
  <2>. QED
    BY <1>6, <1>8, <2>1 DEF ConsoleInv, OneAccountPerInvite
<1>. QED
  BY <1>7, <1>9, <1>10, <1>11, <1>12 DEF ConsoleInv

LEMMA WriteCampaignKeeps ==
  ASSUME ConsoleInv, NEW r \in Requests, WriteCampaign(r)
  PROVE  ConsoleInv'
<1>. DEFINE c == txn[r].on
            seen == txn[r].seen
            change == txn[r].change
            done == CampaignAchieved(seen, change)
            result == IF done THEN seen ELSE CampaignAfter(campaign[c], change)
<1>. USE ConsoleAssumption DEF ConsoleAssumption
<1>1. txn[r] \in Txns /\ CopyCurrent(txn[r]) /\ campaign[c] \in CampaignRows
  BY DEF ConsoleInv, TypeOK, Txns, AllSound, WriteCampaign
<1>2. c \in Campaigns /\ c \notin Accounts /\ change \in CampaignChanges
  BY <1>1, TxnKinds DEF WriteCampaign
<1>3. seen = campaign[c] /\ MayWriteCampaign(seen, change)
  BY <1>1, <1>2 DEF CopyCurrent, RowOf, WriteCampaign
<1>4. /\ result \in CampaignRows
      /\ result = campaign[c] \/ result.revision = campaign[c].revision + 1
      /\ result = campaign[c] \/ (result.active => result.review = "approved")
  <2>1. CASE done
    BY <1>1, <1>3, <2>1
  <2>2. CASE ~done
    <3>1. change = "activate" => campaign[c].review = "approved"
      BY <1>3, <2>2 DEF MayWriteCampaign
    <3>2. result = CampaignAfter(campaign[c], change)
      BY <2>2
    <3>. HIDE DEF result, change, c
    <3>. QED
      BY <1>1, <1>2, <3>1, <3>2, CampaignAfterType
  <2>. QED
    BY <2>1, <2>2
<1>5. campaign' = [campaign EXCEPT ![c] = result]
  <2>1. campaign \in [Campaigns -> CampaignRows]
    BY DEF ConsoleInv, TypeOK
  <2>2. CASE done
    <3>1. campaign' = campaign /\ result = campaign[c]
      BY <1>3, <2>2 DEF WriteCampaign
    <3>. HIDE DEF c, result
    <3>. QED
      BY <1>2, <2>1, <3>1
  <2>3. CASE ~done
    <3>1. campaign' = [campaign EXCEPT ![c] = CampaignAfter(campaign[c], change)]
      BY <2>3, Zenon DEF WriteCampaign
    <3>2. result = CampaignAfter(campaign[c], change)
      BY <2>3
    <3>. HIDE DEF c, result, change
    <3>. QED
      BY <3>1, <3>2
  <2>. QED
    BY <2>2, <2>3
<1>6. /\ UNCHANGED <<account, invite>>
      /\ audit' = Append(audit, [on |-> c, previous |-> campaign[c], resulting |-> result])
      /\ txn' = [txn EXCEPT ![r] = NoTxn]
  BY <1>3 DEF WriteCampaign, Ends
<1>. HIDE DEF c, seen, change, done, result
<1>7. TypeOK'
  <2>1. [on |-> c, previous |-> campaign[c], resulting |-> result] \in AuditEvents
    BY <1>1, <1>2, <1>4 DEF AuditEvents
  <2>. QED
    BY <1>2, <1>4, <1>5, <1>6, <2>1 DEF ConsoleInv, TypeOK
<1>8. PICK x \in Campaigns : x = c
  BY <1>2
<1>9. /\ \A y \in Accounts \cup Campaigns : RowOf(y)' = IF y = x THEN result ELSE RowOf(y)
      /\ RowOf(x) = campaign[c] /\ campaign'[x] = result
      /\ \A d \in Campaigns \ {x} : campaign'[d] = campaign[d]
  BY <1>2, <1>5, <1>6, <1>8 DEF ConsoleInv, TypeOK, RowOf
<1>10. OneHolder' /\ AllSound'
  <2>1. Holds(r, x)
    BY <1>8 DEF c, Holds, WriteCampaign
  <2>2. \A q \in Requests :
          txn'[q] = NoTxn \/ (txn'[q] = txn[q] /\ ~Holds(q, x) /\ ~Holds(q, x))
    BY <1>6, <2>1 DEF ConsoleInv, TypeOK, OneHolder, Holds
  <2>3. /\ \A y \in Accounts \cup Campaigns : y # x => RowOf(y)' = RowOf(y)
        /\ \A e \in Emails : e # x => invite'[e] = invite[e]
    BY <1>6, <1>9
  <2>. QED
    BY <2>2, <2>3, OthersUndisturbed
<1>11. AuditIsChain'
  BY <1>4, <1>6, <1>8, <1>9, ChainExtends
<1>12. InvitedHasNoClaim' /\ OneAccountPerInvite'
  BY <1>6 DEF ConsoleInv, InvitedHasNoClaim, OneAccountPerInvite
<1>13. ActiveIsApproved'
  BY <1>4, <1>8, <1>9 DEF ConsoleInv, ActiveIsApproved
<1>. QED
  BY <1>7, <1>10, <1>11, <1>12, <1>13 DEF ConsoleInv

LEMMA RegisterKeeps ==
  ASSUME ConsoleInv, NEW r \in Requests, Register(r)
  PROVE  ConsoleInv'
<1>. DEFINE e == txn[r].on
            a == txn[r].who
<1>. USE ConsoleAssumption DEF ConsoleAssumption
<1>1. txn[r] \in Txns /\ ClaimSound(txn[r])
  BY DEF ConsoleInv, TypeOK, Txns, AllSound
<1>2. e \in Emails /\ a \in Accounts /\ e = EmailOf[a]
  BY <1>1, TxnKinds DEF Register, ClaimSound
<1>3. invite[e].status # "invited" => invite[e].by = a
  BY <1>1 DEF Register, ClaimSound
<1>4. PICK b \in Accounts : b = a
  BY <1>2
<1>5. PICK f \in Emails : f = e
  BY <1>2
<1>6. /\ account[b] \in AccountRows /\ invite[f] \in Invitations
      /\ account' = [account EXCEPT ![b] = Activated(account[b])]
      /\ UNCHANGED <<campaign, audit>>
      /\ txn' = [txn EXCEPT ![r] = NoTxn]
  BY <1>4, <1>5 DEF ConsoleInv, TypeOK, Register, Ends
<1>7. /\ invite' \in [Emails -> Invitations]
      /\ invite'[f].by = b /\ invite'[f].status # "invited"
      /\ \A g \in Emails \ {f} : invite'[g] = invite[g]
  <2>1. CASE invite[f].status = "invited"
    <3>1. invite' = [invite EXCEPT ![f] = [status |-> "claimed", by |-> b]]
      BY <1>4, <1>5, <2>1 DEF Register
    <3>2. [status |-> "claimed", by |-> b] \in Invitations
      BY DEF Invitations
    <3>. QED
      BY <3>1, <3>2 DEF ConsoleInv, TypeOK
  <2>2. CASE invite[f].status # "invited"
    <3>1. invite' = invite
      BY <1>5, <2>2 DEF Register
    <3>. QED
      BY <1>3, <1>4, <1>5, <2>2, <3>1 DEF ConsoleInv, TypeOK
  <2>. QED
    BY <2>1, <2>2
<1>8. /\ Activated(account[b]) \in AccountRows
      /\ \/ Activated(account[b]) = account[b]
         \/ Activated(account[b]).revision = account[b].revision + 1
  BY <1>6, ActivatedType
<1>9. TypeOK'
  BY <1>6, <1>7, <1>8 DEF ConsoleInv, TypeOK
<1>10. /\ RowOf(b) = account[b] /\ RowOf(b)' = Activated(account[b])
       /\ \A y \in Accounts \cup Campaigns : y # b => RowOf(y)' = RowOf(y)
  BY <1>6 DEF ConsoleInv, TypeOK, RowOf
<1>11. OneHolder' /\ AllSound'
  <2>1. Holds(r, f) /\ Free(b)
    BY <1>4, <1>5 DEF Register, Holds
  <2>2. \A q \in Requests :
          txn'[q] = NoTxn \/ (txn'[q] = txn[q] /\ ~Holds(q, b) /\ ~Holds(q, f))
    BY <1>6, <2>1 DEF ConsoleInv, TypeOK, OneHolder, Holds, Free
  <2>3. /\ \A y \in Accounts \cup Campaigns : y # b => RowOf(y)' = RowOf(y)
        /\ \A g \in Emails : g # f => invite'[g] = invite[g]
    BY <1>7, <1>10
  <2>. QED
    BY <2>2, <2>3, OthersUndisturbed
<1>12. AuditIsChain'
  BY <1>6, <1>8, <1>10, ChainExtends
<1>13. InvitedHasNoClaim'
  BY <1>7 DEF ConsoleInv, InvitedHasNoClaim
<1>14. ActiveIsApproved'
  BY <1>6 DEF ConsoleInv, ActiveIsApproved
<1>15. OneAccountPerInvite'
  <2>. SUFFICES ASSUME NEW d \in Accounts \ Known, account'[d].status # "none"
                PROVE  invite'[EmailOf[d]].by = d
    BY DEF OneAccountPerInvite
  <2>1. CASE d = b
    BY <1>2, <1>4, <1>5, <1>7, <2>1
  <2>2. CASE d # b
    <3>1. invite[EmailOf[d]].by = d /\ EmailOf[d] \in Emails
      BY <1>6, <2>2 DEF ConsoleInv, TypeOK, OneAccountPerInvite
    <3>2. EmailOf[d] # f
      BY <1>3, <1>4, <1>5, <2>2, <3>1 DEF ConsoleInv, InvitedHasNoClaim
    <3>. QED
      BY <1>7, <3>1, <3>2
  <2>. QED
    BY <2>1, <2>2
<1>. QED
  BY <1>9, <1>11, <1>12, <1>13, <1>14, <1>15 DEF ConsoleInv

(* A campaign is submitted, or deactivated by the trigger.                 *)
LEMMA CampaignReplaced ==
  ASSUME ConsoleInv, NEW c \in Campaigns, NEW row \in CampaignRows, Free(c),
         row.revision = campaign[c].revision + 1, ~row.active,
         campaign' = [campaign EXCEPT ![c] = row],
         UNCHANGED <<account, invite, txn, audit>>
  PROVE  ConsoleInv'
<1>. USE ConsoleAssumption DEF ConsoleAssumption
<1>1. TypeOK'
  BY DEF ConsoleInv, TypeOK
<1>2. /\ RowOf(c) = campaign[c] /\ RowOf(c)' = row
      /\ \A y \in Accounts \cup Campaigns : y # c => RowOf(y)' = RowOf(y)
  BY DEF ConsoleInv, TypeOK, RowOf
<1>3. OneHolder' /\ AllSound'
  <2>1. \A q \in Requests :
          txn'[q] = NoTxn \/ (txn'[q] = txn[q] /\ ~Holds(q, c) /\ ~Holds(q, c))
    BY DEF Free
  <2>2. \A e \in Emails : e # c => invite'[e] = invite[e]
    OBVIOUS
  <2>. QED
    BY <1>2, <2>1, <2>2, OthersUndisturbed
<1>4. AuditIsChain'
  BY <1>2, ChainExtends
<1>5. InvitedHasNoClaim' /\ OneAccountPerInvite'
  BY DEF ConsoleInv, InvitedHasNoClaim, OneAccountPerInvite
<1>6. ActiveIsApproved'
  BY DEF ConsoleInv, TypeOK, ActiveIsApproved
<1>. QED
  BY <1>1, <1>3, <1>4, <1>5, <1>6 DEF ConsoleInv

LEMMA RevokeKeeps ==
  ASSUME ConsoleInv, NEW e \in Emails, Revoke(e)
  PROVE  ConsoleInv'
<1>1. /\ invite' = [invite EXCEPT ![e].status = "revoked"]
      /\ invite \in [Emails -> Invitations] /\ invite[e] \in Invitations
      /\ UNCHANGED <<account, campaign, txn, audit>> /\ Free(e)
  BY DEF ConsoleInv, TypeOK, Revoke
<1>2. [invite[e] EXCEPT !.status = "revoked"] \in Invitations
  BY <1>1 DEF Invitations
<1>3. /\ invite' \in [Emails -> Invitations]
      /\ \A g \in Emails : invite'[g].by = invite[g].by
      /\ invite'[e].status = "revoked"
      /\ \A g \in Emails : g # e => invite'[g] = invite[g]
  BY <1>1, <1>2 DEF Invitations
<1>4. TypeOK'
  BY <1>1, <1>3 DEF ConsoleInv, TypeOK
<1>5. OneHolder' /\ AllSound'
  <2>1. \A q \in Requests :
          txn'[q] = NoTxn \/ (txn'[q] = txn[q] /\ ~Holds(q, e) /\ ~Holds(q, e))
    BY <1>1 DEF Free
  <2>2. \A x \in Accounts \cup Campaigns : x # e => RowOf(x)' = RowOf(x)
    BY <1>1 DEF RowOf
  <2>3. \A g \in Emails : g # e => invite'[g] = invite[g]
    BY <1>3
  <2>. QED
    BY <2>1, <2>2, <2>3, OthersUndisturbed
<1>6. AuditIsChain'
  BY <1>1 DEF ConsoleInv, AuditIsChain, RowOf, Follows
<1>7. InvitedHasNoClaim'
  BY <1>3 DEF ConsoleInv, InvitedHasNoClaim
<1>8. ActiveIsApproved'
  BY <1>1 DEF ConsoleInv, ActiveIsApproved
<1>9. OneAccountPerInvite'
  BY <1>1, <1>3, ConsoleAssumption DEF ConsoleAssumption, ConsoleInv, OneAccountPerInvite
<1>. QED
  BY <1>4, <1>5, <1>6, <1>7, <1>8, <1>9 DEF ConsoleInv

(* Every way a transaction moves on without writing.                       *)
LEMMA MovesKeep ==
  ASSUME ConsoleInv, NEW r \in Requests,
         \/ \E a \in Accounts, change \in AccountChanges : AskAccount(r, a, change)
         \/ \E c \in Campaigns, change \in CampaignChanges : AskCampaign(r, c, change)
         \/ \E a \in Accounts : LockInvite(r, a)
         \/ LockAccount(r) \/ CountOwners(r) \/ LockCampaign(r) \/ Rollback(r)
  PROVE  ConsoleInv'
<1>. USE ConsoleAssumption DEF ConsoleAssumption
<1>1. /\ account \in [Accounts -> AccountRows] /\ campaign \in [Campaigns -> CampaignRows]
      /\ txn[r] \in Txns /\ NoTxn \in Txns /\ CopyCurrent(txn[r])
  BY DEF ConsoleInv, TypeOK, Txns, AllSound
<1>2. CASE Ends(r) /\ UNCHANGED <<account, campaign, invite, audit>>
  BY <1>1, <1>2, TxnMoves DEF Ends, Becomes, NoTxn, CopyCurrent, ClaimSound
<1>3. ASSUME NEW a \in Accounts, NEW change \in AccountChanges, AskAccount(r, a, change)
      PROVE  ConsoleInv'
  <2>1. PICK seen \in 0..account[a].revision :
          Becomes(r, [step |-> "asked", on |-> a, change |-> change, expected |-> seen])
    BY <1>3 DEF AskAccount
  <2>2. seen \in Nat
    BY <1>1 DEF AccountRows
  <2>3. [step |-> "asked", on |-> a, change |-> change, expected |-> seen] \in Txns
    BY <2>2 DEF Txns, AccountTxns
  <2>. QED
    BY <1>3, <2>1, <2>3, TxnMoves DEF AskAccount, CopyCurrent, ClaimSound
<1>4. ASSUME NEW c \in Campaigns, NEW change \in CampaignChanges, AskCampaign(r, c, change)
      PROVE  ConsoleInv'
  <2>1. PICK seen \in 0..campaign[c].revision :
          Becomes(r, [step |-> "asked", on |-> c, change |-> change, expected |-> seen])
    BY <1>4 DEF AskCampaign
  <2>2. seen \in Nat
    BY <1>1 DEF CampaignRows
  <2>3. [step |-> "asked", on |-> c, change |-> change, expected |-> seen] \in Txns
    BY <2>2 DEF Txns, CampaignTxns
  <2>. QED
    BY <1>4, <2>1, <2>3, TxnMoves DEF AskCampaign, CopyCurrent, ClaimSound
<1>5. ASSUME NEW a \in Accounts, LockInvite(r, a)
      PROVE  ConsoleInv'
  <2>. DEFINE t == [step |-> "claiming", on |-> EmailOf[a], who |-> a]
  <2>1. t \in Txns /\ CopyCurrent(t)
    BY DEF Txns, Registrations, CopyCurrent
  <2>2. ClaimSound(t)
    <3>1. invite[EmailOf[a]].status \in {"invited", "claimed", "revoked"}
      BY DEF ConsoleInv, TypeOK, Invitations
    <3>. QED
      BY <1>5, <3>1 DEF LockInvite, ClaimSound
  <2>. QED
    BY <1>5, <2>1, <2>2, TxnMoves DEF LockInvite
<1>6. CASE LockAccount(r) /\ ~Ends(r)
  <2>1. PICK a \in Accounts : a = txn[r].on
    BY <1>6 DEF LockAccount
  <2>2. PICK change \in AccountChanges : change = txn[r].change
    BY <1>1, <1>6, TxnKinds DEF LockAccount
  <2>3. PICK row \in AccountRows : row = account[a]
    BY <1>1
  <2>4. /\ Free(a) /\ UNCHANGED <<account, campaign, invite, audit>>
        /\ AccountMayChange(row, change, txn[r].expected)
        /\ \E step \in {"counting", "writing"} :
             Becomes(r, [step |-> step, on |-> a, change |-> change, seen |-> row])
    BY <1>6, <2>1, <2>2, <2>3 DEF LockAccount
  <2>5. PICK step \in {"counting", "writing"} :
          Becomes(r, [step |-> step, on |-> a, change |-> change, seen |-> row])
    BY <2>4
  <2>. DEFINE t == [step |-> step, on |-> a, change |-> change, seen |-> row]
  <2>6. t \in Txns /\ ClaimSound(t)
    BY DEF Txns, AccountTxns, ClaimSound
  <2>7. CopyCurrent(t)
    BY <2>3, <2>4 DEF CopyCurrent, RowOf, AccountMayChange
  <2>. QED
    BY <2>4, <2>5, <2>6, <2>7, TxnMoves
<1>7. CASE CountOwners(r) /\ ~Ends(r)
  <2>1. PICK t \in Txns : t = [txn[r] EXCEPT !.step = "writing"]
    <3>1. txn[r] \in [step : {"counting", "writing"}, on : Accounts, change : AccountChanges,
                      seen : AccountRows]
      BY <1>1, <1>7 DEF CountOwners, Txns, NoTxn, AccountTxns, CampaignTxns, Registrations
    <3>. QED
      BY <3>1 DEF Txns, AccountTxns
  <2>2. /\ t.step = "writing" /\ t.on = txn[r].on
        /\ t.seen = txn[r].seen /\ t.on \in Accounts
    BY <1>1, <1>7, <2>1, TxnKinds DEF CountOwners, Txns, NoTxn, AccountTxns, CampaignTxns,
       Registrations
  <2>3. CopyCurrent(t) /\ ClaimSound(t)
    BY <1>1, <1>7, <2>2 DEF CountOwners, CopyCurrent, ClaimSound
  <2>4. Holds(r, t.on)
    BY <1>7, <2>2 DEF CountOwners, Holds
  <2>. QED
    BY <1>7, <2>1, <2>3, <2>4, TxnMoves DEF CountOwners
<1>8. CASE LockCampaign(r) /\ ~Ends(r)
  <2>1. PICK c \in Campaigns : c = txn[r].on
    BY <1>8 DEF LockCampaign
  <2>2. PICK change \in CampaignChanges : change = txn[r].change
    BY <1>1, <1>8, TxnKinds DEF LockCampaign
  <2>3. PICK row \in CampaignRows : row = campaign[c]
    BY <1>1
  <2>. DEFINE t == [step |-> "writing", on |-> c, change |-> change, seen |-> row]
  <2>4. /\ Free(c) /\ UNCHANGED <<account, campaign, invite, audit>>
        /\ CampaignMayChange(row, change, txn[r].expected)
        /\ Becomes(r, t)
    BY <1>8, <2>1, <2>2, <2>3 DEF LockCampaign
  <2>5. t \in Txns /\ ClaimSound(t)
    BY DEF Txns, CampaignTxns, ClaimSound
  <2>6. CopyCurrent(t)
    BY <2>3, <2>4 DEF CopyCurrent, RowOf, CampaignMayChange, MayWriteCampaign
  <2>. QED
    BY <2>4, <2>5, <2>6, TxnMoves
<1>. QED
  BY <1>2, <1>3, <1>4, <1>5, <1>6, <1>7, <1>8
     DEF LockAccount, CountOwners, LockCampaign, Rollback

LEMMA SubmitKeeps ==
  ASSUME ConsoleInv, NEW a \in Accounts, NEW c \in Campaigns, Submit(a, c)
  PROVE  ConsoleInv'
<1>. USE ConsoleAssumption DEF ConsoleAssumption
<1>1. /\ Submitted \in CampaignRows /\ ~Submitted.active
      /\ Submitted.revision = NoCampaign.revision + 1
  BY DEF Submitted, NoCampaign, CampaignRows
<1>2. Free(c)
  <2>. SUFFICES ASSUME NEW r \in Requests, Holds(r, c) PROVE FALSE
    BY DEF Free
  <2>1. CASE txn[r].step = "claiming"
    BY <2>1, TxnKinds DEF ConsoleAssumption, ConsoleInv, TypeOK, Txns, Holds
  <2>2. CASE txn[r].step \in {"counting", "writing"}
    BY <2>2 DEF ConsoleInv, AllSound, CopyCurrent, MayWriteCampaign, RowOf, Holds,
       Submit, NoCampaign
  <2>. QED
    BY <2>1, <2>2 DEF Holds
<1>. QED
  BY <1>1, <1>2, CampaignReplaced DEF Submit

LEMMA DeactivateKeeps ==
  ASSUME ConsoleInv, NEW c \in Campaigns, DeactivateByTrigger(c)
  PROVE  ConsoleInv'
<1>1. campaign[c] \in CampaignRows /\ "deactivate" \in CampaignChanges
  BY DEF ConsoleInv, TypeOK, CampaignChanges
<1>2. PICK row \in CampaignRows : row = CampaignAfter(campaign[c], "deactivate")
  BY <1>1, CampaignAfterType
<1>3. ~row.active /\ row.revision = campaign[c].revision + 1
  BY <1>1, <1>2, CampaignAfterType
<1>. QED
  BY <1>2, <1>3, CampaignReplaced DEF DeactivateByTrigger

LEMMA StepInv == ConsoleInv /\ [Next]_vars => ConsoleInv'
<1>. SUFFICES ASSUME ConsoleInv, [Next]_vars PROVE ConsoleInv'
  OBVIOUS
<1>1. CASE UNCHANGED vars
  BY <1>1 DEF vars, ConsoleInv, TypeOK, OneHolder, Holds, AllSound, CopyCurrent, ClaimSound,
     InvitedHasNoClaim, AuditIsChain, Follows, RowOf, ActiveIsApproved, OneAccountPerInvite
<1>2. CASE Next
  BY <1>2, WriteAccountKeeps, WriteCampaignKeeps, RegisterKeeps, SubmitKeeps, DeactivateKeeps,
     RevokeKeeps, MovesKeep DEF Next
<1>. QED
  BY <1>1, <1>2

LEMMA ConsoleInvariant == Spec => []ConsoleInv
  BY InitInv, StepInv, PTL DEF Spec

-----------------------------------------------------------------------------
(* Every reachable state of the console has the declared types.            *)
THEOREM ConsoleTypeCorrect == Spec => []TypeOK
<1>1. ConsoleInv => TypeOK
  BY DEF ConsoleInv
<1>. QED
  BY <1>1, ConsoleInvariant, PTL

(* The audit trail of every row is a chain that ends at the row, however   *)
(* many owners and registrations race (owner.ts, mutateAccount and         *)
(* mutateCampaign): no change is lost and none is told twice.              *)
THEOREM AuditTrailIsChain == Spec => []AuditIsChain
<1>1. ConsoleInv => AuditIsChain
  BY DEF ConsoleInv
<1>. QED
  BY <1>1, ConsoleInvariant, PTL

(* Only approved campaigns are active (owner.ts, mutateCampaign).          *)
THEOREM ActiveCampaignsApproved == Spec => []ActiveIsApproved
<1>1. ConsoleInv => ActiveIsApproved
  BY DEF ConsoleInv
<1>. QED
  BY <1>1, ConsoleInvariant, PTL

(* One invitation brings in one account (account.ts, registration).        *)
THEOREM InvitesUsedOnce == Spec => []OneAccountPerInvite
<1>1. ConsoleInv => OneAccountPerInvite
  BY DEF ConsoleInv
<1>. QED
  BY <1>1, ConsoleInvariant, PTL

(* A campaign's review is never overturned (owner.ts, mutateCampaign).     *)
THEOREM ReviewsFinal == Spec => ReviewIsFinal
<1>. DEFINE Final ==
       \A c \in Campaigns :
         campaign[c].review \in {"approved", "rejected"}
           => campaign'[c].review = campaign[c].review
<1>1. ConsoleInv /\ [Next]_vars => [Final]_vars
  <2>. SUFFICES ASSUME ConsoleInv, Next PROVE Final
    OBVIOUS
  <2>1. campaign \in [Campaigns -> CampaignRows]
    BY DEF ConsoleInv, TypeOK
  <2>2. ASSUME NEW r \in Requests, WriteCampaign(r) PROVE Final
    <3>. DEFINE d == txn[r].on
                seen == txn[r].seen
                change == txn[r].change
    <3>1. /\ d \in Campaigns /\ change \in CampaignChanges
          /\ seen = campaign[d] /\ MayWriteCampaign(seen, change)
      BY <2>2, TxnKinds, ConsoleAssumption
         DEF ConsoleAssumption, ConsoleInv, TypeOK, Txns, AllSound, CopyCurrent, RowOf,
             WriteCampaign
    <3>2. CASE CampaignAchieved(seen, change)
      BY <2>2, <3>2 DEF WriteCampaign
    <3>3. CASE ~CampaignAchieved(seen, change)
      <4>1. campaign' = [campaign EXCEPT ![d] = CampaignAfter(campaign[d], change)]
        BY <2>2, <3>3, Zenon DEF WriteCampaign
      <4>2. campaign[d].review \in {"approved", "rejected"} =>
              change \in {"activate", "deactivate"}
        BY <3>1, <3>3 DEF MayWriteCampaign, CampaignChanges
      <4>3. campaign[d].review \in {"approved", "rejected"} =>
              CampaignAfter(campaign[d], change).review = campaign[d].review
        BY <2>1, <3>1, <4>2, CampaignAfterType
      <4>. HIDE DEF d, change
      <4>. QED
        BY <2>1, <3>1, <4>1, <4>3
    <3>. QED
      BY <3>2, <3>3
  <2>3. ASSUME NEW a \in Accounts, NEW c \in Campaigns, Submit(a, c) PROVE Final
    BY <2>1, <2>3 DEF Submit, NoCampaign
  <2>4. ASSUME NEW c \in Campaigns, DeactivateByTrigger(c) PROVE Final
    BY <2>1, <2>4 DEF DeactivateByTrigger, CampaignAfter
  <2>5. CASE UNCHANGED campaign
    BY <2>5
  <2>. QED
    BY <2>2, <2>3, <2>4, <2>5
       DEF Next, AskAccount, AskCampaign, LockInvite, LockAccount, CountOwners, WriteAccount,
           LockCampaign, Register, Rollback, Revoke
<1>. QED
  BY <1>1, ConsoleInvariant, PTL DEF Spec, ReviewIsFinal

(* A suspended or disabled account becomes active only by an owner's       *)
(* decision: registering again does not reinstate it (account.ts).         *)
THEOREM ReinstatedByOwnersOnly == Spec => NeverReinstatesItself
<1>. DEFINE ByOwner ==
       \A a \in Accounts :
         account[a].status \in {"suspended", "disabled"} /\ account'[a].status = "active"
           => \E r \in Requests :
                /\ txn[r].step = "writing" /\ txn[r].on = a
                /\ txn[r].change = [field |-> "status", value |-> "active"]
<1>1. ConsoleInv /\ [Next]_vars => [ByOwner]_vars
  <2>. SUFFICES ASSUME ConsoleInv, Next, NEW a \in Accounts,
                       account[a].status \in {"suspended", "disabled"},
                       account'[a].status = "active"
                PROVE  \E r \in Requests :
                         /\ txn[r].step = "writing" /\ txn[r].on = a
                         /\ txn[r].change = [field |-> "status", value |-> "active"]
    OBVIOUS
  <2>1. account \in [Accounts -> AccountRows]
    BY DEF ConsoleInv, TypeOK
  <2>2. ASSUME NEW r \in Requests, WriteAccount(r)
        PROVE  /\ txn[r].step = "writing" /\ txn[r].on = a
               /\ txn[r].change = [field |-> "status", value |-> "active"]
    <3>1. PICK b \in Accounts : b = txn[r].on
      BY <2>2 DEF WriteAccount
    <3>2. PICK change \in AccountChanges : change = txn[r].change
      BY <2>2, TxnKinds DEF ConsoleInv, TypeOK, Txns, WriteAccount
    <3>3. account' = account \/ account' = [account EXCEPT ![b] = AccountAfter(account[b], change)]
      BY <2>2, <3>1, <3>2, Zenon DEF WriteAccount
    <3>4. b = a /\ AccountAfter(account[a], change).status = "active"
      BY <2>1, <3>3
    <3>5. change.field = "status" /\ change.value = "active"
      BY <2>1, <3>4, AccountAfterType
    <3>6. change = [field |-> "status", value |-> "active"]
      BY <3>5 DEF AccountChanges
    <3>. QED
      BY <2>2, <3>1, <3>2, <3>4, <3>6 DEF WriteAccount
  <2>3. ASSUME NEW r \in Requests, Register(r)
        PROVE  FALSE
    <3>1. PICK b : account' = [account EXCEPT ![b] = Activated(account[b])]
      BY <2>3 DEF Register
    <3>2. Activated(account[a]).status = account[a].status
      BY <2>1, ActivatedType
    <3>. QED
      BY <2>1, <3>1, <3>2
  <2>4. account' # account
    OBVIOUS
  <2>. QED
    BY <2>2, <2>3, <2>4
       DEF Next, AskAccount, AskCampaign, LockInvite, LockAccount, CountOwners, LockCampaign,
           WriteCampaign, Rollback, Submit, DeactivateByTrigger, Revoke
<1>. QED
  BY <1>1, ConsoleInvariant, PTL DEF Spec, NeverReinstatesItself

-----------------------------------------------------------------------------
(***************************************************************************)
(* The last owner.  With one owner mutation at a time, the count of the    *)
(* other owners still holds when the mutation writes, since registrations  *)
(* only add active accounts.                                               *)
(***************************************************************************)
Mutates(r) == txn[r].step \in {"asked", "counting", "writing"}

CountHolds ==
  \A r \in Requests :
    /\ txn[r].step = "writing" /\ txn[r].on \in Accounts
    /\ MustCount(txn[r].on, account[txn[r].on], txn[r].change)
    => AnotherOwner(txn[r].on)

OwnersInv ==
  /\ OwnerRemains
  /\ \A r \in Requests, q \in Requests : Mutates(r) /\ Mutates(q) => r = q
  /\ CountHolds

LEMMA OwnersStep ==
  ASSUME ~Overlap, ConsoleInv, OwnersInv, Next
  PROVE  OwnersInv'
<1>. USE ConsoleAssumption DEF ConsoleAssumption
<1>1. account \in [Accounts -> AccountRows] /\ \A r \in Requests : txn[r] \in Txns
  BY DEF ConsoleInv, TypeOK, Txns
<1>2. CASE UNCHANGED <<account, txn>>
  BY <1>2 DEF OwnersInv, OwnerRemains, ActiveOwners, Mutates, CountHolds, MustCount, AnotherOwner
<1>3. ASSUME NEW r \in Requests, UNCHANGED account,
             \A q \in Requests : q # r => txn'[q] = txn[q],
             Mutates(r)' => Mutates(r) \/ \A q \in Requests : ~Mutates(q),
             txn'[r].step = "writing" /\ txn'[r].on \in Accounts
               => \/ ~MustCount(txn'[r].on, account[txn'[r].on], txn'[r].change)
                  \/ AnotherOwner(txn'[r].on)
      PROVE  OwnersInv'
  BY <1>3 DEF OwnersInv, OwnerRemains, ActiveOwners, Mutates, CountHolds, MustCount, AnotherOwner
<1>4. ASSUME NEW r \in Requests, Ends(r), UNCHANGED account
      PROVE  OwnersInv'
  <2>1. txn'[r] = NoTxn /\ \A q \in Requests : q # r => txn'[q] = txn[q]
    BY <1>4 DEF ConsoleInv, TypeOK, Ends
  <2>. QED
    BY <1>3, <1>4, <2>1 DEF Mutates, NoTxn
<1>5. ASSUME NEW r \in Requests, NEW x, NEW change, NEW expected,
             UNCHANGED account, MayAsk(r),
             Becomes(r, [step |-> "asked", on |-> x, change |-> change, expected |-> expected])
      PROVE  OwnersInv'
  <2>1. /\ txn'[r].step = "asked"
        /\ \A q \in Requests : q # r => txn'[q] = txn[q]
    BY <1>5 DEF ConsoleInv, TypeOK, Becomes
  <2>2. \A q \in Requests : ~Mutates(q)
    BY <1>5 DEF MayAsk, Mutates
  <2>. QED
    BY <1>3, <1>5, <2>1, <2>2
<1>6. ASSUME NEW r \in Requests,
             \/ \E a \in Accounts, change \in AccountChanges : AskAccount(r, a, change)
             \/ \E c \in Campaigns, change \in CampaignChanges : AskCampaign(r, c, change)
      PROVE  OwnersInv'
  BY <1>5, <1>6 DEF AskAccount, AskCampaign
<1>7. ASSUME NEW r \in Requests, NEW a \in Accounts, LockInvite(r, a)
      PROVE  OwnersInv'
  <2>1. /\ txn'[r].step = "claiming"
        /\ \A q \in Requests : q # r => txn'[q] = txn[q]
    BY <1>7 DEF ConsoleInv, TypeOK, LockInvite, Becomes
  <2>. QED
    BY <1>3, <1>7, <2>1 DEF LockInvite, Mutates
<1>8. ASSUME NEW r \in Requests, LockAccount(r)
      PROVE  OwnersInv'
  <2>1. CASE Ends(r)
    BY <1>4, <1>8, <2>1 DEF LockAccount
  <2>2. CASE ~Ends(r)
    <3>1. PICK a \in Accounts : a = txn[r].on
      BY <1>8 DEF LockAccount
    <3>2. PICK change : change = txn[r].change
      OBVIOUS
    <3>3. PICK step : step = IF MustCount(a, account[a], change) THEN "counting" ELSE "writing"
      OBVIOUS
    <3>4. Becomes(r, [step |-> step, on |-> a, change |-> change, seen |-> account[a]])
      BY <1>8, <2>2, <3>1, <3>2, <3>3 DEF LockAccount
    <3>5. /\ txn'[r].step = step /\ txn'[r].on = a /\ txn'[r].change = change
          /\ \A q \in Requests : q # r => txn'[q] = txn[q]
      BY <3>4 DEF ConsoleInv, TypeOK, Becomes
    <3>. QED
      BY <1>3, <1>8, <3>3, <3>5 DEF LockAccount, Mutates
  <2>. QED
    BY <2>1, <2>2
<1>9. ASSUME NEW r \in Requests, CountOwners(r)
      PROVE  OwnersInv'
  <2>1. CASE ~AnotherOwner(txn[r].on)
    BY <1>4, <1>9, <2>1 DEF CountOwners
  <2>2. CASE AnotherOwner(txn[r].on)
    <3>1. Becomes(r, [txn[r] EXCEPT !.step = "writing"]) /\ UNCHANGED account
      BY <1>9, <2>2 DEF CountOwners
    <3>2. txn[r] \in [step : {"counting", "writing"}, on : Accounts, change : AccountChanges,
                      seen : AccountRows]
      BY <1>1, <1>9 DEF CountOwners, Txns, NoTxn, AccountTxns, CampaignTxns, Registrations
    <3>3. /\ txn'[r].on = txn[r].on
          /\ \A q \in Requests : q # r => txn'[q] = txn[q]
      BY <3>1, <3>2 DEF ConsoleInv, TypeOK, Becomes
    <3>. QED
      BY <1>3, <1>9, <2>2, <3>1, <3>3 DEF CountOwners, Mutates
  <2>. QED
    BY <2>1, <2>2
<1>10. ASSUME NEW r \in Requests, LockCampaign(r)
       PROVE  OwnersInv'
  <2>1. CASE Ends(r)
    BY <1>4, <1>10, <2>1 DEF LockCampaign
  <2>2. CASE ~Ends(r)
    <3>1. PICK c \in Campaigns : c = txn[r].on
      BY <1>10 DEF LockCampaign
    <3>2. PICK t : t = [step |-> "writing", on |-> c, change |-> txn[r].change,
                        seen |-> campaign[c]]
      OBVIOUS
    <3>3. Becomes(r, t) /\ UNCHANGED account
      BY <1>10, <2>2, <3>1, <3>2 DEF LockCampaign
    <3>4. txn'[r].on = c /\ \A q \in Requests : q # r => txn'[q] = txn[q]
      BY <3>2, <3>3 DEF ConsoleInv, TypeOK, Becomes
    <3>. QED
      BY <1>3, <1>10, <3>3, <3>4 DEF LockCampaign, Mutates
  <2>. QED
    BY <2>1, <2>2
<1>11. ASSUME NEW r \in Requests, Register(r)
       PROVE  OwnersInv'
  <2>1. PICK b \in Accounts : b = txn[r].who
    BY <1>1, <1>11, TxnKinds DEF Register
  <2>2. /\ account' = [account EXCEPT ![b] = Activated(account[b])] /\ Free(b)
        /\ txn' = [txn EXCEPT ![r] = NoTxn]
    BY <1>11, <2>1 DEF Register, Ends
  <2>3. /\ \A q \in Requests : txn'[q] = IF q = r THEN NoTxn ELSE txn[q]
        /\ \A a \in Accounts : a # b => account'[a] = account[a]
    BY <2>2 DEF ConsoleInv, TypeOK
  <2>4. ActiveOwners \subseteq ActiveOwners'
    <3>1. account[b].status = "active" => account'[b].status = "active"
      BY <1>1, <2>2, ActivatedType
    <3>. QED
      BY <2>3, <3>1 DEF ActiveOwners
  <2>5. \A q \in Requests : Mutates(q)' => Mutates(q) /\ txn'[q] = txn[q]
    BY <2>3 DEF Mutates, NoTxn
  <2>6. CountHolds'
    <3>. SUFFICES ASSUME NEW q \in Requests, txn'[q].step = "writing", txn'[q].on \in Accounts,
                         MustCount(txn'[q].on, account'[txn'[q].on], txn'[q].change)
                  PROVE  AnotherOwner(txn[q].on)'
      BY DEF CountHolds, MustCount
    <3>1. txn'[q] = txn[q]
      BY <2>5 DEF Mutates
    <3>2. txn[q].on # b
      BY <2>2, <3>1 DEF Free, Holds
    <3>3. AnotherOwner(txn[q].on)
      BY <2>3, <3>1, <3>2 DEF OwnersInv, CountHolds
    <3>. QED
      BY <2>4, <3>1, <3>3 DEF AnotherOwner
  <2>. QED
    BY <2>4, <2>5, <2>6 DEF OwnersInv, OwnerRemains
<1>12. ASSUME NEW r \in Requests, WriteAccount(r)
       PROVE  OwnersInv'
  <2>1. /\ \A q \in Requests : txn'[q] = IF q = r THEN NoTxn ELSE txn[q]
        /\ \A q \in Requests : q # r => ~Mutates(q)
    BY <1>12 DEF ConsoleInv, TypeOK, OwnersInv, Mutates, WriteAccount, Ends
  <2>2. \A q \in Requests : ~Mutates(q)'
    BY <2>1 DEF Mutates, NoTxn
  <2>3. PICK b \in Accounts : b = txn[r].on
    BY <1>12 DEF WriteAccount
  <2>4. PICK change \in AccountChanges : change = txn[r].change
    BY <1>1, <1>12, TxnKinds DEF WriteAccount
  <2>5. account' = account \/ account' = [account EXCEPT ![b] = AccountAfter(account[b], change)]
    BY <1>12, <2>3, <2>4, Zenon DEF WriteAccount
  <2>6. \A o \in Owners : o # b /\ account[o].status = "active" => account'[o].status = "active"
    BY <1>1, <2>5
  <2>7. ActiveOwners' # {}
    <3>1. CASE MustCount(b, account[b], change)
      <4>1. AnotherOwner(b)
        BY <1>12, <2>3, <2>4, <3>1 DEF OwnersInv, CountHolds, WriteAccount
      <4>. QED
        BY <2>6, <4>1 DEF AnotherOwner, ActiveOwners
    <3>2. CASE ~MustCount(b, account[b], change)
      <4>1. b \in Owners /\ account[b].status = "active" => account'[b].status = "active"
        BY <1>1, <2>5, <3>2, AccountAfterType DEF MustCount
      <4>. QED
        BY <2>6, <4>1 DEF OwnersInv, OwnerRemains, ActiveOwners
    <3>. QED
      BY <3>1, <3>2
  <2>8. CountHolds'
    BY <2>2 DEF CountHolds, Mutates
  <2>. QED
    BY <2>2, <2>7, <2>8 DEF OwnersInv, OwnerRemains
<1>. QED
  BY <1>2, <1>4, <1>6, <1>7, <1>8, <1>9, <1>10, <1>11, <1>12
     DEF Next, WriteCampaign, Rollback, Submit, DeactivateByTrigger, Revoke

(* If owner mutations come one after the other the platform always has an  *)
(* active owner; with two at a time the count protects nobody.             *)
THEOREM LastOwnerKept ==
  ASSUME ~Overlap
  PROVE  Spec => []OwnerRemains
<1>1. Init => OwnersInv
  <2>. SUFFICES ASSUME Init PROVE OwnersInv
    OBVIOUS
  <2>1. \A r \in Requests : txn[r].step = "idle"
    BY DEF Init, NoTxn
  <2>2. \A o \in Owners : account[o].status = "active"
    BY ConsoleAssumption DEF ConsoleAssumption, Init
  <2>. QED
    BY <2>1, <2>2, ConsoleAssumption
       DEF ConsoleAssumption, OwnersInv, OwnerRemains, ActiveOwners, Mutates, CountHolds
<1>2. ConsoleInv /\ OwnersInv /\ [Next]_vars => OwnersInv'
  <2>1. CASE UNCHANGED vars
    BY <2>1 DEF vars, OwnersInv, OwnerRemains, ActiveOwners, Mutates, CountHolds, MustCount,
       AnotherOwner
  <2>. QED
    BY <2>1, OwnersStep
<1>3. OwnersInv => OwnerRemains
  BY DEF OwnersInv
<1>. QED
  BY <1>1, <1>2, <1>3, ConsoleInvariant, PTL DEF Spec

=============================================================================
