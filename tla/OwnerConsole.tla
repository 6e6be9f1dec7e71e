---------------------------- MODULE OwnerConsole ----------------------------
(***************************************************************************)
(* Accounts, invitations and campaigns of the platform, and the            *)
(* transactions that change them: the owner console's mutations            *)
(* (router/src/routes/owner.ts), and the registration of accounts and the  *)
(* submission of campaigns (router/src/routes/account.ts).                 *)
(*                                                                         *)
(* A mutation is a READ COMMITTED transaction that locks the one row it is *)
(* about, compares the row with what the owner saw, and updates it with an *)
(* audit event; every other row it reads is as last committed.  Triggers   *)
(* that raise a row's revision on each update and deactivate the campaigns *)
(* of ineligible advertisers are not part of the repository.               *)
(***************************************************************************)
EXTENDS Naturals, Sequences

CONSTANTS
  Accounts,     \* the users the identity provider knows
  Owners,       \* those with the role "owner", which no route changes
  Known,        \* those with a row from the start
  Campaigns,    \* the identifiers of campaigns
  Emails,       \* the invited addresses
  EmailOf,      \* the address in a user's access token
  Settings,     \* developer flag, limits and models, as one value
  Requests,     \* names for concurrent transactions
  NoOne,        \* not an account
  Overlap,      \* FALSE: owner mutations come one after the other
  MaxAudit      \* a bound on the owner mutations, and so on the revisions

ASSUME ConsoleAssumption ==
  /\ Owners \subseteq Known /\ Known \subseteq Accounts /\ Owners # {}
  /\ EmailOf \in [Accounts -> Emails]
  /\ Accounts \cap Campaigns = {} /\ NoOne \notin Accounts
  /\ Emails \cap (Accounts \cup Campaigns) = {}
  /\ Settings # {} /\ Overlap \in BOOLEAN
  /\ MaxAudit \in Nat

VARIABLES
  account,   \* router.beta_users
  campaign,  \* router.campaigns
  invite,    \* router.auth_invites
  txn,       \* the transactions under way
  audit      \* the audit events of owner mutations, with both states of the row

vars == <<account, campaign, invite, txn, audit>>

-----------------------------------------------------------------------------
(* Rows.  A row that does not exist has revision 0.                        *)
AccountRows ==
  [status : {"none", "pending", "active", "suspended", "disabled"},
   advertiser : {"no", "yes"}, settings : Settings, revision : Nat]

CampaignRows ==
  [review : {"none", "pending", "approved", "rejected"}, active : BOOLEAN, revision : Nat]

NoCampaign == [review |-> "none", active |-> FALSE, revision |-> 0]
Submitted  == [review |-> "pending", active |-> FALSE, revision |-> 1]

Invitations == [status : {"invited", "claimed", "revoked"}, by : Accounts \cup {NoOne}]

(* What an owner may ask for.                                              *)
AccountChanges ==
  [field : {"status"}, value : {"active", "suspended", "disabled"}]
    \cup [field : {"advertiser"}, value : {"no", "yes"}]
    \cup [field : {"settings"}, value : Settings]

CampaignChanges == {"approve", "approve_and_activate", "reject", "activate", "deactivate"}

AuditEvents ==
  [on : Accounts, previous : AccountRows, resulting : AccountRows]
    \cup [on : Campaigns, previous : CampaignRows, resulting : CampaignRows]

NoTxn == [step |-> "idle"]

(* A transaction waits for its row, then counts the other owners if it     *)
(* must, then writes and commits.                                          *)
AccountTxns ==
  [step : {"asked"}, on : Accounts, change : AccountChanges, expected : Nat]
    \cup [step : {"counting", "writing"}, on : Accounts, change : AccountChanges,
          seen : AccountRows]

CampaignTxns ==
  [step : {"asked"}, on : Campaigns, change : CampaignChanges, expected : Nat]
    \cup [step : {"writing"}, on : Campaigns, change : CampaignChanges, seen : CampaignRows]

Registrations == [step : {"claiming"}, on : Emails, who : Accounts]

TypeOK ==
  /\ account \in [Accounts -> AccountRows]
  /\ campaign \in [Campaigns -> CampaignRows]
  /\ invite \in [Emails -> Invitations]
  /\ txn \in [Requests -> {NoTxn} \cup AccountTxns \cup CampaignTxns \cup Registrations]
  /\ audit \in Seq(AuditEvents)

-----------------------------------------------------------------------------
ActiveOwners == {o \in Owners : account[o].status = "active"}

Holds(r, row) == txn[r].step \in {"counting", "writing", "claiming"} /\ txn[r].on = row

(* Mutant: rows are read without a lock.                                   *)
Unlocked(row) == TRUE

(* No transaction has locked the row.                                      *)
Free(row) == \A r \in Requests : ~Holds(r, row)

Ends(r) == txn' = [txn EXCEPT ![r] = NoTxn]

Becomes(r, state) == txn' = [txn EXCEPT ![r] = state]

(* requireRole('owner') reads the actor before the transaction begins.     *)
MayAsk(r) ==
  /\ txn[r].step = "idle" /\ ActiveOwners # {}
  /\ Len(audit) < MaxAudit
  /\ Overlap \/ \A q \in Requests : txn[q].step \in {"idle", "claiming"}

(* The owner saw the row at its present or an earlier revision.            *)
AskAccount(r, a, change) ==
  /\ MayAsk(r)
  /\ \E seen \in 0..account[a].revision :
       Becomes(r, [step |-> "asked", on |-> a, change |-> change, expected |-> seen])
  /\ UNCHANGED <<account, campaign, invite, audit>>

AskCampaign(r, c, change) ==
  /\ MayAsk(r)
  /\ \E seen \in 0..campaign[c].revision :
       Becomes(r, [step |-> "asked", on |-> c, change |-> change, expected |-> seen])
  /\ UNCHANGED <<account, campaign, invite, audit>>

-----------------------------------------------------------------------------
(***************************************************************************)
(* mutateAccount().                                                        *)
(***************************************************************************)
Achieved(row, change) == row[change.field] = change.value

AccountMayChange(row, change, expected) ==
  /\ row.status # "none"
  /\ Achieved(row, change) \/ row.revision = expected
  /\ change = [field |-> "advertiser", value |-> "yes"] => row.status = "active"

(* The last active owner is neither suspended nor disabled.                *)
MustCount(a, row, change) ==
  /\ a \in Owners /\ row.status = "active"
  /\ change.field = "status" /\ change.value # "active"

LockAccount(r) ==
  /\ txn[r].step = "asked" /\ txn[r].on \in Accounts
  /\ Free(txn[r].on)
  /\ LET a      == txn[r].on
         change == txn[r].change
         row    == account[a]
     IN IF AccountMayChange(row, change, txn[r].expected)
          THEN Becomes(r, [step   |-> IF MustCount(a, row, change) THEN "counting" ELSE "writing",
                           on     |-> a, change |-> change, seen |-> row])
          ELSE Ends(r)
  /\ UNCHANGED <<account, campaign, invite, audit>>

(* The other owners' rows are not locked.                                  *)
AnotherOwner(a) == ActiveOwners \ {a} # {}

CountOwners(r) ==
  /\ txn[r].step = "counting"
  /\ IF AnotherOwner(txn[r].on)
       THEN Becomes(r, [txn[r] EXCEPT !.step = "writing"])
       ELSE Ends(r)
  /\ UNCHANGED <<account, campaign, invite, audit>>

AccountAfter(row, change) ==
  [row EXCEPT ![change.field] = change.value, !.revision = row.revision + 1]

(* The update, whose returned row is audited, the audit event and the      *)
(* commit.  An achieved change is audited as a no-op.                      *)
WriteAccount(r) ==
  /\ txn[r].step = "writing" /\ txn[r].on \in Accounts
  /\ LET a      == txn[r].on
         seen   == txn[r].seen
         change == txn[r].change
         done   == Achieved(seen, change)
         result == IF done THEN seen ELSE AccountAfter(account[a], change)
     IN /\ account' = IF done THEN account ELSE [account EXCEPT ![a] = result]
        /\ audit' = Append(audit, [on |-> a, previous |-> seen, resulting |-> result])
  /\ Ends(r)
  /\ UNCHANGED <<campaign, invite>>

-----------------------------------------------------------------------------
(***************************************************************************)
(* mutateCampaign().                                                       *)
(***************************************************************************)
CampaignAchieved(row, change) ==
  CASE change = "approve"              -> row.review = "approved" /\ ~row.active
    [] change = "approve_and_activate" -> row.review = "approved" /\ row.active
    [] change = "reject"               -> row.review = "rejected" /\ ~row.active
    [] change = "activate"             -> row.review = "approved" /\ row.active
    [] change = "deactivate"           -> ~row.active

(* Mutant: an activation does not look at the review.                      *)
CampaignMayChangeUnreviewed(row, change, expected) ==
  /\ row.review # "none"
  /\ \/ CampaignAchieved(row, change)
     \/ /\ row.revision = expected
        /\ change \in {"approve", "approve_and_activate", "reject"} => row.review = "pending"

CampaignMayChange(row, change, expected) ==
  /\ row.review # "none"
  /\ \/ CampaignAchieved(row, change)
     \/ /\ row.revision = expected
        /\ change \in {"approve", "approve_and_activate", "reject"} => row.review = "pending"
        /\ change = "activate" => row.review = "approved"

LockCampaign(r) ==
  /\ txn[r].step = "asked" /\ txn[r].on \in Campaigns
  /\ Free(txn[r].on)
  /\ LET row == campaign[txn[r].on]
     IN IF CampaignMayChange(row, txn[r].change, txn[r].expected)
          THEN Becomes(r, [step |-> "writing", on |-> txn[r].on,
                           change |-> txn[r].change, seen |-> row])
          ELSE Ends(r)
  /\ UNCHANGED <<account, campaign, invite, audit>>

CampaignAfter(row, change) ==
  [review   |-> CASE change \in {"approve", "approve_and_activate"} -> "approved"
                  [] change = "reject" -> "rejected"
                  [] OTHER             -> row.review,
   active   |-> change \in {"approve_and_activate", "activate"},
   revision |-> row.revision + 1]

WriteCampaign(r) ==
  /\ txn[r].step = "writing" /\ txn[r].on \in Campaigns
  /\ LET c      == txn[r].on
         seen   == txn[r].seen
         change == txn[r].change
         done   == CampaignAchieved(seen, change)
         result == IF done THEN seen ELSE CampaignAfter(campaign[c], change)
     IN /\ campaign' = IF done THEN campaign ELSE [campaign EXCEPT ![c] = result]
        /\ audit' = Append(audit, [on |-> c, previous |-> seen, resulting |-> result])
  /\ Ends(r)
  /\ UNCHANGED <<account, invite>>

-----------------------------------------------------------------------------
(***************************************************************************)
(* Registration.                                                           *)
(***************************************************************************)
LockInvite(r, a) ==
  /\ txn[r].step = "idle"
  /\ Free(EmailOf[a])
  /\ invite[EmailOf[a]].status # "revoked"
  /\ invite[EmailOf[a]].status = "claimed" => invite[EmailOf[a]].by = a
  /\ Becomes(r, [step |-> "claiming", on |-> EmailOf[a], who |-> a])
  /\ UNCHANGED <<account, campaign, invite, audit>>

(* Mutant: the upsert activates whatever it finds.                         *)
ActivatedAlways(row) == [row EXCEPT !.status = "active", !.revision = @ + 1]

(* insert ... on conflict do update ... where status = 'pending'.          *)
Activated(row) ==
  IF row.status \in {"none", "pending"}
    THEN [row EXCEPT !.status = "active", !.revision = @ + 1]
    ELSE row

(* The claim and, once the account's row is free, the upsert and the       *)
(* commit.                                                                 *)
Register(r) ==
  /\ txn[r].step = "claiming"
  /\ LET e == txn[r].on
         a == txn[r].who
     IN /\ Free(a)
        /\ account' = [account EXCEPT ![a] = Activated(@)]
        /\ invite' = IF invite[e].status = "invited"
                       THEN [invite EXCEPT ![e] = [status |-> "claimed", by |-> a]]
                       ELSE invite
  /\ Ends(r)
  /\ UNCHANGED <<campaign, audit>>

(* Invitations are revoked by other tools; the claim stays on record.      *)
Revoke(e) ==
  /\ Free(e)
  /\ invite[e].status # "revoked"
  /\ invite' = [invite EXCEPT ![e].status = "revoked"]
  /\ UNCHANGED <<account, campaign, txn, audit>>

-----------------------------------------------------------------------------
(* POST /advertiser/campaigns: its transaction locks the advertiser's row. *)
Submit(a, c) ==
  /\ Free(a)
  /\ account[a].status = "active" /\ account[a].advertiser = "yes"
  /\ campaign[c] = NoCampaign
  /\ campaign' = [campaign EXCEPT ![c] = Submitted]
  /\ UNCHANGED <<account, invite, txn, audit>>

(* A trigger deactivates the campaign of an ineligible advertiser.         *)
DeactivateByTrigger(c) ==
  /\ Free(c)
  /\ campaign[c].active
  /\ campaign' = [campaign EXCEPT ![c] = CampaignAfter(@, "deactivate")]
  /\ UNCHANGED <<account, invite, txn, audit>>

(* A statement fails, a check constraint refuses the update (23514), the   *)
(* connection or the process is lost: nothing is written.                  *)
Rollback(r) ==
  /\ txn[r].step # "idle"
  /\ Ends(r)
  /\ UNCHANGED <<account, campaign, invite, audit>>

-----------------------------------------------------------------------------
Init ==
  /\ \E s \in Settings :
       account = [a \in Accounts |->
                    [status     |-> IF a \in Owners THEN "active"
                                    ELSE IF a \in Known THEN "pending" ELSE "none",
                     advertiser |-> "no", settings |-> s,
                     revision   |-> IF a \in Known THEN 1 ELSE 0]]
  /\ campaign \in [Campaigns -> {NoCampaign, Submitted}]
  /\ invite = [e \in Emails |-> [status |-> "invited", by |-> NoOne]]
  /\ txn = [r \in Requests |-> NoTxn]
  /\ audit = <<>>

Next ==
  \/ \E r \in Requests :
       \/ \E a \in Accounts, change \in AccountChanges : AskAccount(r, a, change)
       \/ \E c \in Campaigns, change \in CampaignChanges : AskCampaign(r, c, change)
       \/ \E a \in Accounts : LockInvite(r, a)
       \/ LockAccount(r) \/ CountOwners(r) \/ WriteAccount(r)
       \/ LockCampaign(r) \/ WriteCampaign(r)
       \/ Register(r) \/ Rollback(r)
  \/ \E a \in Accounts, c \in Campaigns : Submit(a, c)
  \/ \E c \in Campaigns : DeactivateByTrigger(c)
  \/ \E e \in Emails : Revoke(e)

Spec == Init /\ [][Next]_vars

-----------------------------------------------------------------------------
(***************************************************************************)
(* Properties.                                                             *)
(***************************************************************************)

(* The platform keeps an active owner: owner.ts refuses to suspend or      *)
(* disable the last one.                                                   *)
OwnerRemains == ActiveOwners # {}

(* The audit trail of a row is a chain: no two events tell of the same or  *)
(* of overlapping changes, and an event that resulted in the row's present *)
(* revision shows the row as it is.  An owner's change is never lost under *)
(* a concurrent one.                                                       *)
RowOf(x) == IF x \in Accounts THEN account[x] ELSE campaign[x]

Follows(earlier, later) ==
  /\ earlier.revision <= later.revision
  /\ earlier.revision = later.revision => earlier = later

AuditIsChain ==
  \A i \in DOMAIN audit :
    /\ Follows(audit[i].resulting, RowOf(audit[i].on))
    /\ \A j \in DOMAIN audit :
         i < j /\ audit[i].on = audit[j].on => Follows(audit[i].resulting, audit[j].previous)

(* Only approved campaigns are active, whatever reviews, activations and   *)
(* triggers race.                                                          *)
ActiveIsApproved == \A c \in Campaigns : campaign[c].active => campaign[c].review = "approved"

(* A campaign is reviewed once: of an approval and a rejection under way   *)
(* at the same time one is refused.                                        *)
ReviewIsFinal ==
  [][ \A c \in Campaigns :
        campaign[c].review \in {"approved", "rejected"}
          => campaign'[c].review = campaign[c].review ]_vars

(* An invitation brings in one account: of two users with the same address *)
(* who register at the same time, one is refused.                          *)
OneAccountPerInvite ==
  \A a \in Accounts \ Known :
    account[a].status # "none" => invite[EmailOf[a]].by = a

(* A suspended or disabled account returns only by an owner's decision,    *)
(* not by registering again while the owner suspends it.                   *)
NeverReinstatesItself ==
  [][ \A a \in Accounts :
        account[a].status \in {"suspended", "disabled"} /\ account'[a].status = "active"
          => \E r \in Requests :
               /\ txn[r].step = "writing" /\ txn[r].on = a
               /\ txn[r].change = [field |-> "status", value |-> "active"] ]_vars

=============================================================================
