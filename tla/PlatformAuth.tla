---------------------------- MODULE PlatformAuth ----------------------------
(***************************************************************************)
(* The router's authorization of installations: device authorizations that *)
(* a browser user resolves and decides, the exchange of an approved one    *)
(* for a token family, the rotation of refresh tokens with its detection   *)
(* of reuse, cancellation and revocation.                                  *)
(*                                                                         *)
(* A request reads its row without a lock, verifies a proof, and acts in a *)
(* transaction whose row locks make it one step; others come between.  The *)
(* request that is refused for want of a nonce changes nothing and is left *)
(* out, like rate limits and the polling interval.                         *)
(***************************************************************************)
EXTENDS Naturals, FiniteSets

CONSTANTS
  Installations,  \* installations, each with its device authorization
  Users,          \* the accounts of browser users
  Slots,          \* requests of clients the router handles at a time
  MaxTokens,      \* bound: refresh tokens of a family
  Connected,      \* the installations that have a family from the start
  NoOne           \* no user, no installation

ASSUME PlatformAssumption ==
  /\ MaxTokens \in Nat \ {0}
  /\ Connected \subseteq Installations
  /\ NoOne \notin Users \cup Installations
  /\ Users # {} /\ Slots # {}

VARIABLES
  auth,       \* device_authorizations.status, "gone" if deleted
  late,       \* the authorizations past their expires_at
  resolver,   \* device_authorizations.resolved_by
  inst,       \* client_installations.status, "gone" if deleted
  owner,      \* client_installations.user_id
  grants,     \* how many families the installation was given
  family,     \* machine_token_families.status
  issued,     \* refresh tokens of the family: 1 .. issued
  used,       \* those with used_at
  revoked,    \* those with revoked_at
  eligible,   \* the accounts that are active developers
  req,        \* the requests of clients
  exchanged,  \* history: the tokens whose exchange was answered
  replayed    \* history: the installations one of whose tokens was
              \* exchanged again

enrolmentVars == <<auth, late, resolver, grants>>
tokenVars     == <<issued, used, exchanged, replayed>>
familyVars    == <<inst, family, revoked>>
tables        == <<enrolmentVars, tokenVars, familyVars, owner, eligible>>
serverVars    == <<tables, req>>

Kinds    == {"refresh", "poll", "cancel"}
Requests == [kind : Kinds \cup {"none"}, of : Installations \cup {NoOne}, tok : 0 .. MaxTokens,
             at : {"idle", "sent", "found", "reuse", "answered"},
             answer : {"none", "granted", "pending", "refused", "done", "failed"}]
NoRequest == [kind |-> "none", of |-> NoOne, tok |-> 0, at |-> "idle", answer |-> "none"]

PlatformTypeOK ==
  /\ auth \in [Installations -> {"none", "pending", "approved", "consumed", "expired", "gone"}]
  /\ late \subseteq Installations
  /\ resolver \in [Installations -> Users \cup {NoOne}]
  /\ inst \in [Installations -> {"none", "pending", "active", "revoked", "gone"}]
  /\ owner \in [Installations -> Users \cup {NoOne}]
  /\ grants \in [Installations -> Nat]
  /\ family \in [Installations -> {"none", "active", "revoked"}]
  /\ issued \in [Installations -> 0 .. MaxTokens]
  /\ used \in [Installations -> SUBSET (1 .. MaxTokens)]
  /\ revoked \in [Installations -> SUBSET (1 .. MaxTokens)]
  /\ eligible \subseteq Users
  /\ req \in [Slots -> Requests]
  /\ exchanged \subseteq Installations \X (1 .. MaxTokens)
  /\ replayed \subseteq Installations

ServerInit ==
  /\ auth = [i \in Installations |-> IF i \in Connected THEN "consumed" ELSE "none"]
  /\ late = Connected
  /\ \E u \in Users :
       resolver = [i \in Installations |-> IF i \in Connected THEN u ELSE NoOne]
  /\ inst = [i \in Installations |-> IF i \in Connected THEN "active" ELSE "none"]
  /\ owner = resolver
  /\ grants = [i \in Installations |-> IF i \in Connected THEN 1 ELSE 0]
  /\ family = [i \in Installations |-> IF i \in Connected THEN "active" ELSE "none"]
  /\ issued = grants
  /\ used = [i \in Installations |-> {}]
  /\ revoked = [i \in Installations |-> {}]
  /\ eligible = Users
  /\ req = [s \in Slots |-> NoRequest]
  /\ exchanged = {}
  /\ replayed = {}

-----------------------------------------------------------------------------
Exists(i) == auth[i] \notin {"none", "gone"}

(* The conditions a refresh checks without a lock.                         *)
Usable(i, k) ==
  /\ k \in (1 .. issued[i]) \ (used[i] \cup revoked[i])
  /\ family[i] = "active"
  /\ inst[i] = "active"
  /\ owner[i] \in eligible

Send(s, kind, i, k) ==
  /\ req[s] = NoRequest
  /\ req' = [req EXCEPT ![s] = [NoRequest EXCEPT !.kind = kind, !.of = i, !.tok = k, !.at = "sent"]]

Goes(s, at) == req' = [req EXCEPT ![s].at = at]

Answer(s, answer, k) ==
  req' = [req EXCEPT ![s].at = "answered", ![s].answer = answer, ![s].tok = k]

Is(s, kind, at) == req[s].kind = kind /\ req[s].at = at

Completed(i, k) ==
  /\ exchanged' = exchanged \cup {<<i, k>>}
  /\ replayed' = IF <<i, k>> \in exchanged THEN replayed \cup {i} ELSE replayed

(* What the database's functions do to a family is known from their use:   *)
(* its status; its tokens are marked too, or left to that status.          *)
RevokeFamily(i) ==
  /\ family' = [family EXCEPT ![i] = IF @ = "none" THEN @ ELSE "revoked"]
  /\ \E marks \in {{}, 1 .. issued[i]} : revoked' = [revoked EXCEPT ![i] = @ \cup marks]

RevokeInstallation(i) ==
  /\ inst' = [inst EXCEPT ![i] = "revoked"]
  /\ RevokeFamily(i)

-----------------------------------------------------------------------------
(* POST /device/authorizations                                             *)
CreateAuthorization(i) ==
  /\ auth[i] = "none"
  /\ auth' = [auth EXCEPT ![i] = "pending"]
  /\ inst' = [inst EXCEPT ![i] = "pending"]
  /\ UNCHANGED <<late, resolver, grants, tokenVars, family, revoked, owner, eligible>>

(* handleRefreshGrant()                                                    *)
LookRefresh(s) ==
  LET i == req[s].of
      k == req[s].tok IN
  /\ Is(s, "refresh", "sent")
  /\ IF k \in used[i] THEN Goes(s, "reuse")
     ELSE IF Usable(i, k) THEN Goes(s, "found")
     ELSE Answer(s, "refused", k)
  /\ UNCHANGED tables

(* Mutant: the token is not looked at again under its lock.                *)
RotateUnlocked(s) ==
  LET i == req[s].of
      k == req[s].tok IN
  /\ Is(s, "refresh", "found")
  /\ issued[i] < MaxTokens
  /\ used' = [used EXCEPT ![i] = @ \cup {k}]
  /\ issued' = [issued EXCEPT ![i] = @ + 1]
  /\ Completed(i, k)
  /\ Answer(s, "granted", issued[i] + 1)
  /\ UNCHANGED <<enrolmentVars, familyVars, owner, eligible>>

Rotate(s) ==
  LET i == req[s].of
      k == req[s].tok IN
  /\ Is(s, "refresh", "found")
  /\ \/ /\ k \in used[i]
        /\ Goes(s, "reuse")
        /\ UNCHANGED tokenVars
     \/ /\ k \notin used[i]
        /\ k \in revoked[i] \/ owner[i] \notin eligible
        /\ Answer(s, "refused", k)
        /\ UNCHANGED tokenVars
     \/ /\ k \notin used[i] \cup revoked[i]
        /\ owner[i] \in eligible
        /\ issued[i] < MaxTokens
        /\ used' = [used EXCEPT ![i] = @ \cup {k}]
        /\ issued' = [issued EXCEPT ![i] = @ + 1]
        /\ Completed(i, k)
        /\ Answer(s, "granted", issued[i] + 1)
  /\ UNCHANGED <<enrolmentVars, familyVars, owner, eligible>>

(* Mutant: the request is refused and no more.                             *)
ReuseRefused(s) ==
  /\ Is(s, "refresh", "reuse")
  /\ Completed(req[s].of, req[s].tok)
  /\ Answer(s, "refused", req[s].tok)
  /\ UNCHANGED <<enrolmentVars, issued, used, familyVars, owner, eligible>>

(* revokeReusedFamily(), a transaction of its own.                         *)
RevokeReused(s) ==
  /\ Is(s, "refresh", "reuse")
  /\ RevokeFamily(req[s].of)
  /\ Completed(req[s].of, req[s].tok)
  /\ Answer(s, "refused", req[s].tok)
  /\ UNCHANGED <<enrolmentVars, issued, used, inst, owner, eligible>>

-----------------------------------------------------------------------------
(* handleDeviceGrant()                                                     *)
LookPoll(s) ==
  /\ Is(s, "poll", "sent")
  /\ IF Exists(req[s].of) THEN Goes(s, "found") ELSE Answer(s, "refused", 0)
  /\ UNCHANGED tables

Grant(i) ==
  /\ grants' = [grants EXCEPT ![i] = @ + 1]
  /\ auth' = [auth EXCEPT ![i] = "consumed"]
  /\ family' = [family EXCEPT ![i] = "active"]
  /\ issued' = [issued EXCEPT ![i] = IF @ < MaxTokens THEN @ + 1 ELSE @]

Redeem(s) ==
  LET i == req[s].of
      pays == auth[i] = "approved" /\ i \notin late /\ inst[i] = "active" /\ owner[i] \in eligible
  IN
  /\ Is(s, "poll", "found")
  /\ \/ /\ auth[i] = "gone"
        /\ Answer(s, "failed", 0)
        /\ UNCHANGED <<auth, grants, family, issued>>
     \/ /\ Exists(i) /\ i \in late
        /\ auth' = [auth EXCEPT ![i] = IF @ \in {"pending", "approved"} THEN "expired" ELSE @]
        /\ Answer(s, "refused", 0)
        /\ UNCHANGED <<grants, family, issued>>
     \/ /\ auth[i] = "pending" /\ i \notin late
        /\ Answer(s, "pending", 0)
        /\ UNCHANGED <<auth, grants, family, issued>>
     \/ /\ pays
        /\ Grant(i)
        /\ Answer(s, "granted", issued'[i])
     \/ /\ auth[i] \in {"approved", "consumed"} /\ i \notin late /\ ~pays
        /\ Answer(s, "refused", 0)
        /\ UNCHANGED <<auth, grants, family, issued>>
  /\ UNCHANGED <<late, resolver, used, exchanged, replayed, inst, revoked, owner, eligible>>

(* POST /device/authorizations/cancel                                      *)
LookCancel(s) ==
  /\ Is(s, "cancel", "sent")
  /\ IF Exists(req[s].of) THEN Goes(s, "found") ELSE Answer(s, "done", 0)
  /\ UNCHANGED tables

(* Mutant: what is not pending any more is left alone.                     *)
WithdrawPending(s) ==
  LET i == req[s].of IN
  /\ Is(s, "cancel", "found")
  /\ IF inst[i] = "pending"
       THEN auth' = [auth EXCEPT ![i] = "gone"] /\ inst' = [inst EXCEPT ![i] = "gone"]
       ELSE UNCHANGED <<auth, inst>>
  /\ Answer(s, "done", 0)
  /\ UNCHANGED <<late, resolver, grants, tokenVars, family, revoked, owner, eligible>>

Withdraw(s) ==
  LET i == req[s].of IN
  /\ Is(s, "cancel", "found")
  /\ \/ inst[i] = "active" /\ RevokeInstallation(i) /\ UNCHANGED auth
     \/ /\ inst[i] = "pending"
        /\ auth' = [auth EXCEPT ![i] = "gone"]
        /\ inst' = [inst EXCEPT ![i] = "gone"]
        /\ UNCHANGED <<family, revoked>>
     \/ inst[i] \in {"revoked", "gone"} /\ UNCHANGED <<auth, familyVars>>
  /\ Answer(s, "done", 0)
  /\ UNCHANGED <<late, resolver, grants, tokenVars, owner, eligible>>

(* A statement of the request fails: its transaction is rolled back.       *)
RequestFails(s) ==
  /\ req[s].at \in {"sent", "found", "reuse"}
  /\ Answer(s, "failed", req[s].tok)
  /\ UNCHANGED tables

-----------------------------------------------------------------------------
(* Browser users: the code or the handoff belongs to the first who enters  *)
(* it, who decides.                                                        *)
Resolve(u, i) ==
  /\ auth[i] = "pending" /\ i \notin late
  /\ u \in eligible
  /\ resolver[i] = NoOne
  /\ resolver' = [resolver EXCEPT ![i] = u]
  /\ UNCHANGED <<auth, late, grants, tokenVars, familyVars, owner, eligible, req>>

(* Mutant: any user who knows the authorization approves it.               *)
ApproveAnyone(u, i) ==
  /\ auth[i] = "pending" /\ i \notin late
  /\ u \in eligible
  /\ auth' = [auth EXCEPT ![i] = "approved"]
  /\ inst' = [inst EXCEPT ![i] = "active"]
  /\ owner' = [owner EXCEPT ![i] = u]
  /\ UNCHANGED <<late, resolver, grants, tokenVars, family, revoked, eligible, req>>

Approve(u, i) ==
  /\ resolver[i] = u
  /\ auth[i] = "pending" /\ i \notin late
  /\ u \in eligible
  /\ auth' = [auth EXCEPT ![i] = "approved"]
  /\ inst' = [inst EXCEPT ![i] = "active"]
  /\ owner' = [owner EXCEPT ![i] = u]
  /\ UNCHANGED <<late, resolver, grants, tokenVars, family, revoked, eligible, req>>

(* An active account that is no developer may deny too: eligible does not  *)
(* tell it from a suspended one, so nothing is asked of it here.           *)
Deny(u, i) ==
  /\ resolver[i] = u
  /\ auth[i] = "pending" /\ i \notin late
  /\ auth' = [auth EXCEPT ![i] = "gone"]
  /\ inst' = [inst EXCEPT ![i] = "gone"]
  /\ UNCHANGED <<late, resolver, grants, tokenVars, family, revoked, owner, eligible, req>>

(* Revocation by the user, or by the installation as it signs out.         *)
Revoke(i) ==
  /\ inst[i] = "active"
  /\ RevokeInstallation(i)
  /\ UNCHANGED <<enrolmentVars, tokenVars, owner, eligible, req>>

Expire(i) ==
  /\ Exists(i)
  /\ i \notin late
  /\ late' = late \cup {i}
  /\ UNCHANGED <<auth, resolver, grants, tokenVars, familyVars, owner, eligible, req>>

(* Owners suspend and reinstate accounts.                                  *)
SetAccount(u) ==
  /\ eligible' = IF u \in eligible THEN eligible \ {u} ELSE eligible \cup {u}
  /\ UNCHANGED <<enrolmentVars, tokenVars, familyVars, owner, req>>

-----------------------------------------------------------------------------
Handle(s) ==
  \/ LookRefresh(s) \/ Rotate(s) \/ RevokeReused(s)
  \/ LookPoll(s) \/ Redeem(s)
  \/ LookCancel(s) \/ Withdraw(s)

Console ==
  \/ \E u \in Users, i \in Installations : Resolve(u, i) \/ Approve(u, i) \/ Deny(u, i)
  \/ \E i \in Installations : Revoke(i) \/ Expire(i)
  \/ \E u \in Users : SetAccount(u)

(* Clients of any kind: they keep every token they were given and present  *)
(* it again, also at the same time, as a restored copy of a credential     *)
(* file or a second process does.                                          *)
AnyClientSends(s, i) ==
  \/ /\ CreateAuthorization(i) /\ UNCHANGED req
  \/ /\ \/ \E k \in 1 .. issued[i] : Send(s, "refresh", i, k)
        \/ auth[i] # "none" /\ (Send(s, "poll", i, 0) \/ Send(s, "cancel", i, 0))
     /\ UNCHANGED tables

AnyClientHears(s) ==
  /\ req[s].at = "answered"
  /\ req' = [req EXCEPT ![s] = NoRequest]
  /\ UNCHANGED tables

ServerNext ==
  \/ \E s \in Slots : Handle(s) \/ RequestFails(s) \/ AnyClientHears(s)
  \/ \E s \in Slots, i \in Installations : AnyClientSends(s, i)
  \/ Console

ServerSpec == ServerInit /\ [][ServerNext]_serverVars

-----------------------------------------------------------------------------
(* Rotation leaves one way into a family: of its refresh tokens at most    *)
(* one is neither used nor revoked, however exchanges overlap.             *)
OneUsableToken ==
  \A i \in Installations : Cardinality((1 .. issued[i]) \ (used[i] \cup revoked[i])) <= 1

(* "Refresh reuse was detected": two answered exchanges of one token never *)
(* leave its family active, whichever of them came first.                  *)
ReuseEndsFamily == \A i \in replayed : family[i] = "revoked"

(* An authorization is exchanged for tokens once, and only for the user    *)
(* who resolved it and approved it.                                        *)
GrantedOnce ==
  \A i \in Installations :
    /\ grants[i] <= 1
    /\ inst[i] = "active" => owner[i] # NoOne /\ owner[i] = resolver[i]
    /\ family[i] = "active" => inst[i] = "active"

(* A cancellation that was answered is final, whether the authorization    *)
(* was pending, was being approved, or had been exchanged.                 *)
CancelIsFinal ==
  \A s \in Slots :
    Is(s, "cancel", "answered") /\ req[s].answer = "done" => inst[req[s].of] \in {"gone", "revoked"}
=============================================================================
